------------------------------ MODULE Ordering ------------------------------
(***************************************************************************)
(* Orders the domain code takes from Python: a stable sort by a key, the   *)
(* first of the greatest, neighbouring pairs; and half-open times.         *)
(***************************************************************************)
EXTENDS Integers, Sequences, SequencesExt

(* The elements of s at some places, each with a key: the least key first, *)
(* those of one key as they stand in s.                                    *)
Arranged(s, keyed) ==
  LET UpTo(e) == {d \in keyed : d[1] < e[1] \/ (d[1] = e[1] /\ d[2] <= e[2])}
      ranked == {<<Cardinality(UpTo(e)), e[2]>> : e \in keyed}
  IN [k \in 1..Cardinality(keyed) |-> s[(CHOOSE r \in ranked : r[1] = k)[2]]]

(* sorted(s, key=...): equal keys keep their order.                        *)
SortedBy(s, Key(_)) == Arranged(s, {<<Key(s[i]), i>> : i \in DOMAIN s})

(* [x for x in s if ...]: SelectSeq, by the places it keeps.               *)
Kept(s, Test(_)) == Arranged(s, {<<0, i>> : i \in {j \in DOMAIN s : Test(s[j])}})

(* dict.fromkeys: of those with one key the first, in their order.         *)
FirstSeen(s, Key(_)) ==
  Arranged(s, {<<0, i>> : i \in {j \in DOMAIN s : \A k \in 1..(j - 1) : Key(s[k]) # Key(s[j])}})

(* The members of a set in some order.                                     *)
Listed(S) == FoldSet(LAMBDA x, s : Append(s, x), <<>>, S)

(* sorted(S): a set of integers in ascending order.                        *)
Ascending(S) ==
  [k \in 1..Cardinality(S) |-> CHOOSE x \in S : Cardinality({y \in S : y <= x}) = k]

(* max(s, key=...): the first of the greatest.                             *)
FirstGreatest(s, Key(_)) ==
  s[CHOOSE i \in DOMAIN s :
      /\ \A j \in DOMAIN s : Key(s[j]) <= Key(s[i])
      /\ \A j \in 1..(i - 1) : Key(s[j]) < Key(s[i])]

(* next((x for x in s if ...), default)                                    *)
FirstThat(s, Test(_), default) ==
  LET found == {i \in DOMAIN s : Test(s[i])} IN IF found = {} THEN default ELSE s[Min(found)]

Mapped(s, F(_)) == [i \in DOMAIN s |-> F(s[i])]

(* TimeRange: half open, never empty (domain/schedule.py:33-48).           *)
Span(lo, hi) == [start |-> lo, end |-> hi]
Covers(span, t) == span.start <= t /\ t < span.end
=============================================================================
