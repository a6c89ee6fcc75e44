----------------------------- MODULE DomainProofs -----------------------------
(***************************************************************************)
(* What the domain answers to every request, whatever is stored, asked and *)
(* charged: one answer of each pool in reach, the ranking of the board,    *)
(* closures and public holidays; nothing assumed of a visitor; no window   *)
(* of the year lost; and what is read of lane plans, pools' pages, tariffs *)
(* and announcements.                                                      *)
(*                                                                         *)
(* The lists the domain sorts, keeps and flattens are reasoned about by    *)
(* the places their elements come from: a least counterexample stands for  *)
(* the induction.                                                          *)
(***************************************************************************)
EXTENDS DomainTerms, FiniteSetTheorems, SequenceTheorems, WellFoundedInduction, TLAPS

-----------------------------------------------------------------------------
(* Sorting and keeping                                                     *)

(* A set of natural numbers has a least member.                            *)
LEMMA Least == ASSUME NEW S \in SUBSET Nat, S # {} PROVE Min(S) \in S /\ \A n \in S : Min(S) <= n
<1> DEFINE Less == {ss \in Nat \X Nat : ss[1] < ss[2]}
<1>1. IsWellFoundedOn(Less, Nat)
  BY NatLessThanWellFounded DEF OpToRel
<1>2. PICK n \in S : \A m \in S : ~(<<m, n>> \in Less)
  BY <1>1, WFMin
<1>3. ASSUME NEW m \in S PROVE n <= m
  <2>1. m \in Nat /\ n \in Nat
    OBVIOUS
  <2>2. m < n => <<m, n>> \in Less
    BY <2>1
  <2> QED
    BY <1>2, <2>1, <2>2
<1> QED
  BY <1>3 DEF Min

(* The numbers from one to n are n.                                        *)
LEMMA Numbered == ASSUME NEW n \in Nat PROVE IsFiniteSet(1..n) /\ Cardinality(1..n) = n
<1>1. 1 \in Int /\ n \in Int /\ (IF 1 > n THEN 0 ELSE n - 1 + 1) = n
  OBVIOUS
<1> QED
  BY <1>1, FS_Interval

(* The places of a finite sequence are finitely many.                      *)
LEMMA KeysFinite ==
  ASSUME NEW n \in Nat, NEW keyed \in Keys(n)
  PROVE  IsFiniteSet(keyed) /\ Cardinality(keyed) \in Nat
<1> DEFINE place == [e \in keyed |-> e[2]]
<1>1. place \in Injection(keyed, 1..n)
  BY DEF Keys, Injection, IsInjective
<1>2. IsFiniteSet(1..n)
  BY Numbered
<1>3. IsFiniteSet(keyed)
  BY <1>1, <1>2, FS_Injection
<1> QED
  BY <1>3, FS_CardinalityType

(* Every rank from the first to the last is taken, by one.                 *)
LEMMA EveryRank ==
  ASSUME NEW n \in Nat, NEW keyed \in Keys(n)
  PROVE  \E at \in [1..Cardinality(keyed) -> keyed] :
           /\ \A k \in 1..Cardinality(keyed) : Cardinality(UpTo(keyed, at[k])) = k
           /\ \A e \in keyed : Cardinality(UpTo(keyed, e)) \in 1..Cardinality(keyed)
           /\ \A d, e \in keyed : Precedes(d, e) => Cardinality(UpTo(keyed, d)) < Cardinality(UpTo(keyed, e))
           /\ \A d, e \in keyed : d = e \/ Precedes(d, e) \/ Precedes(e, d)
<1> DEFINE c == Cardinality(keyed)
           place(e) == Cardinality(UpTo(keyed, e))
           rank == [e \in keyed |-> place(e)]
<1>1. IsFiniteSet(keyed) /\ c \in Nat
  BY KeysFinite
<1>2. \A T \in SUBSET keyed : IsFiniteSet(T) /\ Cardinality(T) \in Nat /\ Cardinality(T) <= c
  BY <1>1, FS_Subset, FS_CardinalityType
<1>3. \A e \in keyed : e[1] \in Int /\ e[2] \in Nat /\ e = <<e[1], e[2]>>
  BY DEF Keys
<1>4. \A d, e \in keyed : d = e \/ Precedes(d, e) \/ Precedes(e, d)
  BY <1>3 DEF Precedes
<1>5. ASSUME NEW e \in keyed PROVE UpTo(keyed, e) \in SUBSET keyed /\ e \in UpTo(keyed, e) /\ place(e) \in 1..c
  <2>1. UpTo(keyed, e) \in SUBSET keyed /\ e \in UpTo(keyed, e)
    BY <1>3 DEF UpTo
  <2>2. place(e) # 0
    BY <1>2, <2>1, FS_EmptySet
  <2> QED
    BY <1>1, <1>2, <2>1, <2>2
<1>6. ASSUME NEW d \in keyed, NEW e \in keyed, Precedes(d, e) PROVE place(d) < place(e)
  <2>1. UpTo(keyed, d) \in SUBSET UpTo(keyed, e)
    BY <1>3, <1>6 DEF UpTo, Precedes
  <2>2. e \notin UpTo(keyed, d)
    BY <1>3, <1>6 DEF UpTo, Precedes
  <2>3. UpTo(keyed, d) # UpTo(keyed, e)
    BY <1>5, <2>2
  <2>4. IsFiniteSet(UpTo(keyed, e)) /\ place(d) \in Nat /\ place(e) \in Nat
    BY <1>2, <1>5
  <2>5. place(d) <= place(e) /\ place(d) # place(e)
    BY <2>1, <2>3, <2>4, FS_Subset
  <2> QED
    BY <2>4, <2>5
<1>7. rank \in Injection(keyed, 1..c)
  <2>1. rank \in [keyed -> 1..c]
    BY <1>5
  <2>2. ASSUME NEW d \in keyed, NEW e \in keyed, rank[d] = rank[e] PROVE d = e
    <3>1. place(d) = place(e) /\ place(d) \in Nat
      BY <1>5, <2>2
    <3>2. ~Precedes(d, e) /\ ~Precedes(e, d)
      BY <1>6, <3>1
    <3> QED
      BY <1>4, <3>2
  <2> QED
    BY <2>1, <2>2 DEF Injection, IsInjective
<1>8. rank \in Surjection(keyed, 1..c)
  <2>1. IsFiniteSet(1..c) /\ Cardinality(1..c) = c
    BY <1>1, Numbered
  <2> QED
    BY <1>7, <2>1, FS_Injection
<1>9. \A k \in 1..c : \E e \in keyed : place(e) = k
  BY <1>8 DEF Surjection
<1> DEFINE at == [k \in 1..c |-> CHOOSE e \in keyed : place(e) = k]
<1>10. at \in [1..c -> keyed] /\ \A k \in 1..c : place(at[k]) = k
  BY <1>9
<1> QED
  BY <1>4, <1>5, <1>6, <1>10

LEMMA Arranging ==
  ASSUME NEW s, NEW n \in Nat, NEW keyed \in Keys(n)
  PROVE  InPlaces(Arranged(s, keyed), s, keyed)
<1> DEFINE c == Cardinality(keyed)
           place(e) == Cardinality(UpTo(keyed, e))
           rankOf(k) == CHOOSE r \in Ranked(keyed) : r[1] = k
<1>1. c \in Nat
  BY KeysFinite
<1>2. PICK at \in [1..c -> keyed] :
        /\ \A k \in 1..c : place(at[k]) = k
        /\ \A e \in keyed : place(e) \in 1..c
        /\ \A d, e \in keyed : Precedes(d, e) => place(d) < place(e)
        /\ \A d, e \in keyed : d = e \/ Precedes(d, e) \/ Precedes(e, d)
  BY EveryRank
<1>3. \A d, e \in keyed : place(d) = place(e) => d = e
  BY <1>1, <1>2
<1>4. ASSUME NEW k \in 1..c PROVE rankOf(k)[2] = at[k][2]
  <2>1. <<place(at[k]), at[k][2]>> \in Ranked(keyed) /\ place(at[k]) = k
    BY <1>2 DEF Ranked
  <2>2. rankOf(k) \in Ranked(keyed) /\ rankOf(k)[1] = k
    BY <2>1
  <2> HIDE DEF rankOf
  <2>3. PICK e \in keyed : rankOf(k) = <<place(e), e[2]>>
    BY <2>2 DEF Ranked
  <2>4. place(e) = place(at[k])
    BY <2>1, <2>2, <2>3
  <2>5. e = at[k]
    BY <1>2, <1>3, <2>4
  <2> QED
    BY <2>3, <2>5
<1>5. Arranged(s, keyed) = [k \in 1..c |-> s[rankOf(k)[2]]]
  BY DEF Arranged, Ranked, UpTo
<1>6. Arranged(s, keyed) = [k \in 1..c |-> s[at[k][2]]]
  BY <1>4, <1>5
<1>7. \A e \in keyed : \E k \in 1..c : at[k] = e
  BY <1>2, <1>3
<1>8. \A j, k \in 1..c : j < k => Precedes(at[j], at[k])
  <2> SUFFICES ASSUME NEW j \in 1..c, NEW k \in 1..c, j < k PROVE Precedes(at[j], at[k])
    OBVIOUS
  <2>1. ~(place(at[k]) < place(at[j])) /\ at[j] # at[k]
    BY <1>1, <1>2
  <2> QED
    BY <1>2, <2>1
<1> QED
  BY <1>6, <1>7, <1>8 DEF InPlaces

(* A list has the places from the first to its length.                     *)
LEMMA Listing ==
  ASSUME NEW s, List(s)
  PROVE  Len(s) \in Nat /\ DOMAIN s = 1..Len(s) /\ s \in Seq(Range(s))
<1>1. PICK n \in Nat : DOMAIN s = 1..n /\ s = [k \in 1..n |-> s[k]]
  BY DEF List
<1>2. s \in [1..n -> Range(s)]
  BY <1>1 DEF Range
<1>3. s \in Seq(Range(s))
  BY <1>2, SeqDef
<1> QED
  BY <1>3, LenProperties

(* A sequence over a set is a list of its members.                         *)
LEMMA SequenceIsList == ASSUME NEW S, NEW s \in Seq(S) PROVE List(s) /\ \A k \in DOMAIN s : s[k] \in S
  BY LenProperties DEF List

(* Concatenation puts the places of the second after those of the first.   *)
LEMMA Joined == ASSUME NEW s, NEW t, List(s), List(t) PROVE Joins(s \o t, s, t)
<1> DEFINE S == Range(s) \cup Range(t)
<1>1. s \in Seq(S) /\ t \in Seq(S)
  BY Listing, SeqMonotonic
<1> HIDE DEF S
<1>2. s \o t \in Seq(S) /\ Len(s \o t) = Len(s) + Len(t)
      /\ \A i \in 1..(Len(s) + Len(t)) : (s \o t)[i] = IF i <= Len(s) THEN s[i] ELSE t[i - Len(s)]
  BY <1>1, ConcatProperties
<1>3. Len(s) \in Nat /\ Len(t) \in Nat /\ DOMAIN s = 1..Len(s) /\ DOMAIN t = 1..Len(t)
  BY Listing
<1>4. DOMAIN (s \o t) = 1..(Len(s) + Len(t)) /\ List(s \o t)
  BY <1>2, LenProperties, SequenceIsList
<1>5. \A k \in DOMAIN s : k \in DOMAIN (s \o t) /\ (s \o t)[k] = s[k]
  BY <1>2, <1>3, <1>4
<1>6. ASSUME NEW k \in DOMAIN t PROVE Len(s) + k \in DOMAIN (s \o t) /\ (s \o t)[Len(s) + k] = t[k]
  <2>1. Len(s) + k \in 1..(Len(s) + Len(t)) /\ ~(Len(s) + k <= Len(s)) /\ (Len(s) + k) - Len(s) = k
    BY <1>3
  <2> QED
    BY <1>2, <1>4, <2>1
<1>7. ASSUME NEW k \in DOMAIN (s \o t) PROVE k \in DOMAIN s \/ \E j \in DOMAIN t : k = Len(s) + j
  <2>1. k \in DOMAIN s \/ (k - Len(s) \in DOMAIN t /\ k = Len(s) + (k - Len(s)))
    BY <1>3, <1>4
  <2> QED
    BY <2>1
<1> QED
  BY <1>2, <1>4, <1>5, <1>6, <1>7 DEF Joins

(* What Kept returns.                                                      *)
LEMMA KeptPlaces ==
  ASSUME NEW s, List(s), NEW I \in SUBSET DOMAIN s
  PROVE  Keeps(Arranged(s, {<<0, i>> : i \in I}), s, I)
<1> DEFINE keyed == {<<0, i>> : i \in I}
           c == Cardinality(keyed)
           t == Arranged(s, keyed)
<1>1. keyed \in Keys(Len(s)) /\ Len(s) \in Nat
  BY Listing DEF Keys
<1>2. c \in Nat
  BY <1>1, KeysFinite
<1>3. PICK to \in [1..c -> keyed] :
        /\ t = [k \in 1..c |-> s[to[k][2]]]
        /\ \A e \in keyed : \E k \in 1..c : to[k] = e
        /\ \A j, k \in 1..c : j < k => Precedes(to[j], to[k])
  <2> HIDE DEF keyed
  <2>1. InPlaces(t, s, keyed)
    BY <1>1, Arranging
  <2> QED
    BY <2>1 DEF InPlaces
<1> DEFINE at == [k \in 1..c |-> to[k][2]]
<1>4. \A k \in 1..c : \E i \in I : to[k] = <<0, i>>
  BY <1>3
<1>5. at \in [1..c -> I] /\ \A k \in 1..c : to[k] = <<0, at[k]>>
  BY <1>4
<1>6. \A i \in I : \E k \in 1..c : at[k] = i
  <2> SUFFICES ASSUME NEW i \in I PROVE \E k \in 1..c : at[k] = i
    OBVIOUS
  <2>1. <<0, i>> \in keyed
    OBVIOUS
  <2>2. PICK k \in 1..c : to[k] = <<0, i>>
    BY <1>3, <2>1
  <2>3. at[k] = i
    BY <2>2
  <2> QED
    BY <2>3
<1>7. \A j, k \in 1..c : j < k => at[j] < at[k]
  BY <1>3, <1>5 DEF Precedes
<1> HIDE DEF keyed, c
<1>8. DOMAIN t = 1..c /\ t = [k \in 1..c |-> s[at[k]]]
  BY <1>3
<1>9. List(t)
  BY <1>2, <1>8 DEF List
<1>10. t = <<>> <=> I = {}
  <2>1. t = <<>> <=> c = 0
    BY <1>2, <1>8
  <2>2. c # 0 => 1 \in 1..c
    BY <1>2
  <2>3. c = 0 => 1..c = {}
    OBVIOUS
  <2> QED
    BY <1>5, <1>6, <2>1, <2>2, <2>3
<1> HIDE DEF t, at
<1>11. Keeps(t, s, I)
  BY <1>5, <1>6, <1>7, <1>8, <1>9, <1>10 DEF Keeps
<1> QED
  BY <1>11 DEF keyed, t

(* What SortedBy returns.                                                  *)
LEMMA Sorting ==
  ASSUME NEW s, List(s), NEW key \in [DOMAIN s -> Int]
  PROVE  Sorts(Arranged(s, {<<key[i], i>> : i \in DOMAIN s}), s, key)
<1> DEFINE keyed == {<<key[i], i>> : i \in DOMAIN s}
           c == Cardinality(keyed)
           t == Arranged(s, keyed)
<1>0. Len(s) \in Nat /\ DOMAIN s = 1..Len(s)
  BY Listing
<1>1. keyed \in Keys(Len(s))
  BY <1>0 DEF Keys
<1>2. c = Len(s)
  <2> DEFINE f == [i \in DOMAIN s |-> <<key[i], i>>]
  <2>1. f \in Surjection(DOMAIN s, keyed) /\ f \in Injection(DOMAIN s, keyed)
    BY DEF Surjection, Injection, IsInjective
  <2>2. IsFiniteSet(1..Len(s)) /\ Cardinality(1..Len(s)) = Len(s)
    <3>1. Len(s) \in Nat /\ 1 \in Int /\ Len(s) \in Int
      BY <1>0
    <3> QED
      BY <3>1, Numbered
  <2>3. IsFiniteSet(keyed)
    BY <1>0, <1>1, KeysFinite
  <2>4. f \in Bijection(DOMAIN s, keyed)
    BY <2>1, Zenon DEF Bijection
  <2> HIDE DEF f, keyed
  <2> QED
    BY <1>0, <2>2, <2>4, FS_Bijection DEF ExistsBijection
<1>3. PICK to \in [1..c -> keyed] :
        /\ t = [k \in 1..c |-> s[to[k][2]]]
        /\ \A e \in keyed : \E k \in 1..c : to[k] = e
        /\ \A j, k \in 1..c : j < k => Precedes(to[j], to[k])
  <2>1. keyed \in Keys(Len(s)) /\ Len(s) \in Nat
    BY <1>0, <1>1
  <2> HIDE DEF keyed
  <2>2. InPlaces(t, s, keyed)
    BY <2>1, Arranging
  <2> QED
    BY <2>2 DEF InPlaces
<1> DEFINE at == [k \in 1..c |-> to[k][2]]
<1>4. \A k \in 1..c : \E i \in DOMAIN s : to[k] = <<key[i], i>>
  BY <1>3
<1>5. at \in [1..c -> DOMAIN s] /\ \A k \in 1..c : to[k] = <<key[at[k]], at[k]>>
  BY <1>4
<1>6. \A i \in DOMAIN s : \E k \in 1..c : at[k] = i
  <2> SUFFICES ASSUME NEW i \in DOMAIN s PROVE \E k \in 1..c : at[k] = i
    OBVIOUS
  <2>1. <<key[i], i>> \in keyed
    OBVIOUS
  <2>2. PICK k \in 1..c : to[k] = <<key[i], i>>
    BY <1>3, <2>1
  <2>3. at[k] = i
    BY <2>2
  <2> QED
    BY <2>3
<1>7. \A j, k \in 1..c : j < k =>
        key[at[j]] < key[at[k]] \/ (key[at[j]] = key[at[k]] /\ at[j] < at[k])
  BY <1>3, <1>5 DEF Precedes
<1> HIDE DEF keyed, c
<1>8. DOMAIN t = 1..c /\ t = [k \in 1..c |-> s[at[k]]] /\ 1..c = DOMAIN s
  BY <1>0, <1>2, <1>3
<1>9. List(t)
  BY <1>0, <1>8 DEF List
<1> HIDE DEF t, at
<1>10. Sorts(t, s, key)
  BY <1>5, <1>6, <1>7, <1>8, <1>9 DEF Sorts
<1> QED
  BY <1>10 DEF keyed, t

-----------------------------------------------------------------------------
(* Flattening                                                              *)

(* The running concatenations of a list of sequences exist.                *)
LEMMA Unrolling ==
  ASSUME NEW seqs, NEW n \in Nat
  PROVE  \E f : Unrolls(seqs, f, n)
<1> DEFINE Bad == {m \in Nat : ~ \E f : Unrolls(seqs, f, m)}
<1>1. ASSUME Bad # {} PROVE FALSE
  <2> DEFINE m == Min(Bad)
  <2>1. m \in Nat /\ (~ \E f : Unrolls(seqs, f, m)) /\ \A k \in Bad : m <= k
    <3>1. Bad \in SUBSET Nat
      OBVIOUS
    <3> HIDE DEF Bad
    <3>2. m \in Bad /\ \A k \in Bad : m <= k
      BY <1>1, <3>1, Least
    <3> QED
      BY <3>2 DEF Bad
  <2> HIDE DEF m
  <2>2. CASE m = 0
    <3> DEFINE f == [i \in 1..0 |-> 0]
    <3>1. Unrolls(seqs, f, m)
      BY <2>2 DEF Unrolls
    <3> QED
      BY <2>1, <3>1
  <2>3. CASE m # 0
    <3>1. m - 1 \in Nat /\ ~(m <= m - 1)
      BY <2>1, <2>3
    <3>2. m - 1 \notin Bad
      BY <2>1, <3>1
    <3>3. PICK f : Unrolls(seqs, f, m - 1)
      BY <3>1, <3>2
    <3> DEFINE g == [i \in 1..m |-> IF i = m THEN Turn(seqs, f, m) ELSE f[i]]
    <3>4. ASSUME NEW i \in 1..m PROVE g[i] = Turn(seqs, g, i)
      <4>1. i # 1 => i - 1 \in 1..m /\ i - 1 # m /\ g[i - 1] = f[i - 1]
        BY <2>1
      <4>2. Turn(seqs, g, i) = Turn(seqs, f, i)
        BY <4>1 DEF Turn
      <4>3. CASE i = m
        BY <4>2, <4>3
      <4>4. CASE i # m
        <5>1. i \in 1..(m - 1)
          BY <2>1, <4>4
        <5>2. f[i] = Turn(seqs, f, i)
          BY <3>3, <5>1 DEF Unrolls
        <5> QED
          BY <4>2, <4>4, <5>2
      <4> QED
        BY <4>3, <4>4
    <3>5. Unrolls(seqs, g, m)
      BY <3>4 DEF Unrolls
    <3> QED
      BY <2>1, <3>5
  <2> QED
    BY <2>2, <2>3
<1> QED
  BY <1>1

(* One sequence more.                                                      *)
LEMMA FlattenedOneMore ==
  ASSUME NEW seqs, NEW m \in Nat, NEW t, Flattens(t, seqs, m), List(seqs[m + 1])
  PROVE  Flattens(t \o seqs[m + 1], seqs, m + 1)
<1> DEFINE s == seqs[m + 1]
           u == t \o s
<1>1. PICK at \in [DOMAIN t -> Spots(seqs, m)] :
        /\ \A k \in DOMAIN t : t[k] = seqs[at[k][1]][at[k][2]]
        /\ \A p \in Spots(seqs, m) : \E k \in DOMAIN t : at[k] = p
        /\ \A j, k \in DOMAIN t : at[j] = at[k] => j = k
        /\ \A j, k \in DOMAIN t : j < k => Before(at[j], at[k])
  BY DEF Flattens
<1>2. List(t) /\ Len(t) \in Nat /\ DOMAIN t = 1..Len(t) /\ Len(s) \in Nat /\ DOMAIN s = 1..Len(s)
  BY Listing DEF Flattens
<1>3. /\ List(u)
      /\ \A k \in DOMAIN t : k \in DOMAIN u /\ u[k] = t[k]
      /\ \A k \in DOMAIN s : Len(t) + k \in DOMAIN u /\ u[Len(t) + k] = s[k]
      /\ \A k \in DOMAIN u : k \in DOMAIN t \/ \E j \in DOMAIN s : k = Len(t) + j
  <2>1. List(s)
    OBVIOUS
  <2> HIDE DEF s
  <2>2. Joins(u, t, s)
    BY <1>2, <2>1, Joined
  <2> QED
    BY <2>2, Zenon DEF Joins
<1> HIDE DEF u, s
<1> DEFINE to == [k \in DOMAIN u |-> IF k \in DOMAIN t THEN at[k] ELSE <<m + 1, k - Len(t)>>]
<1>4. \A p \in Spots(seqs, m) : p \in Spots(seqs, m + 1) /\ p[1] # m + 1
  BY DEF Spots
<1>12. s = seqs[m + 1]
  BY DEF s
<1>5. ASSUME NEW j \in DOMAIN s
      PROVE /\ <<m + 1, j>> \in Spots(seqs, m + 1)
            /\ Len(t) + j \in DOMAIN u /\ Len(t) + j \notin DOMAIN t
            /\ to[Len(t) + j] = <<m + 1, j>>
  <2>1. j \in Nat /\ m + 1 \in 1..(m + 1)
    BY <1>2
  <2>2. <<m + 1, j>> \in Spots(seqs, m + 1)
    BY <1>12, <2>1 DEF Spots
  <2>3. Len(t) + j \in DOMAIN u /\ Len(t) + j \notin DOMAIN t /\ (Len(t) + j) - Len(t) = j
    BY <1>2, <1>3
  <2> QED
    BY <2>2, <2>3
<1>6. ASSUME NEW k \in DOMAIN t PROVE k \in DOMAIN u /\ to[k] = at[k] /\ at[k] \in Spots(seqs, m)
  BY <1>1, <1>3
<1> HIDE DEF to
<1>7. to \in [DOMAIN u -> Spots(seqs, m + 1)]
  <2>1. ASSUME NEW k \in DOMAIN u PROVE to[k] \in Spots(seqs, m + 1)
    <3>1. k \in DOMAIN t => to[k] \in Spots(seqs, m + 1)
      BY <1>4, <1>6
    <3>2. (\E j \in DOMAIN s : k = Len(t) + j) => to[k] \in Spots(seqs, m + 1)
      BY <1>5, Zenon
    <3> QED
      BY <1>3, <3>1, <3>2
  <2> QED
    BY <2>1 DEF to
<1>8. ASSUME NEW k \in DOMAIN u PROVE u[k] = seqs[to[k][1]][to[k][2]]
  <2>1. CASE k \in DOMAIN t
    BY <1>1, <1>3, <1>6, <2>1
  <2>2. CASE \E j \in DOMAIN s : k = Len(t) + j
    <3>1. PICK j \in DOMAIN s : k = Len(t) + j
      BY <2>2
    <3>2. to[k] = <<m + 1, j>> /\ u[k] = s[j]
      BY <1>3, <1>5, <3>1, Zenon
    <3> QED
      BY <1>12, <3>2
  <2> QED
    BY <1>3, <2>1, <2>2
<1>9. ASSUME NEW p \in Spots(seqs, m + 1) PROVE \E k \in DOMAIN u : to[k] = p
  <2>1. p = <<p[1], p[2]>> /\ (p[1] = m + 1 \/ p \in Spots(seqs, m))
    BY DEF Spots
  <2>2. CASE p \in Spots(seqs, m)
    BY <1>1, <1>6, <2>2
  <2>3. CASE p[1] = m + 1
    <3>1. p[2] \in DOMAIN s
      BY <1>12, <2>3 DEF Spots
    <3> QED
      BY <1>5, <2>1, <2>3, <3>1
  <2> QED
    BY <2>1, <2>2, <2>3
<1>10. ASSUME NEW j \in DOMAIN u, NEW k \in DOMAIN u, to[j] = to[k] PROVE j = k
  <2>1. CASE j \in DOMAIN t /\ k \in DOMAIN t
    BY <1>1, <1>6, <1>10, <2>1
  <2>2. CASE j \notin DOMAIN t /\ k \notin DOMAIN t
    <3>1. PICK a \in DOMAIN s : j = Len(t) + a
      BY <1>3, <2>2
    <3>2. PICK b \in DOMAIN s : k = Len(t) + b
      BY <1>3, <2>2
    <3>3. to[j] = <<m + 1, a>> /\ to[k] = <<m + 1, b>>
      BY <1>5, <3>1, <3>2, Zenon
    <3> QED
      BY <1>10, <3>1, <3>2, <3>3
  <2>3. \A a \in DOMAIN u : a \in DOMAIN t => to[a][1] # m + 1
    BY <1>4, <1>6
  <2>4. \A a \in DOMAIN u : a \notin DOMAIN t => to[a][1] = m + 1
    <3> SUFFICES ASSUME NEW a \in DOMAIN u, a \notin DOMAIN t PROVE to[a][1] = m + 1
      OBVIOUS
    <3>1. PICK b \in DOMAIN s : a = Len(t) + b
      BY <1>3
    <3>2. to[a] = <<m + 1, b>>
      BY <1>5, <3>1, Zenon
    <3> QED
      BY <3>2
  <2> QED
    BY <1>10, <2>1, <2>2, <2>3, <2>4
<1>13. ASSUME NEW j \in DOMAIN u, NEW k \in DOMAIN u, j < k PROVE Before(to[j], to[k])
  <2>1. CASE j \in DOMAIN t /\ k \in DOMAIN t
    BY <1>1, <1>6, <1>13, <2>1
  <2>2. CASE j \in DOMAIN t /\ k \notin DOMAIN t
    <3>1. PICK b \in DOMAIN s : k = Len(t) + b
      BY <1>3, <2>2
    <3>2. to[k] = <<m + 1, b>> /\ to[j] \in Spots(seqs, m)
      BY <1>5, <1>6, <2>2, <3>1, Zenon
    <3> QED
      BY <3>2 DEF Before, Spots
  <2>3. CASE j \notin DOMAIN t
    <3>1. PICK a \in DOMAIN s : j = Len(t) + a
      BY <1>3, <2>3
    <3>2. k \notin DOMAIN t
      BY <1>2, <1>13, <3>1
    <3>3. PICK b \in DOMAIN s : k = Len(t) + b
      BY <1>3, <3>2
    <3>4. to[j] = <<m + 1, a>> /\ to[k] = <<m + 1, b>>
      BY <1>5, <3>1, <3>3, Zenon
    <3>5. a < b
      BY <1>2, <1>13, <3>1, <3>3
    <3> QED
      BY <3>4, <3>5 DEF Before
  <2> QED
    BY <2>1, <2>2, <2>3
<1>11. Flattens(u, seqs, m + 1)
  BY <1>3, <1>7, <1>8, <1>9, <1>10, <1>13 DEF Flattens
<1> QED
  BY <1>11 DEF u, s

(* One sequence is flattened to itself.                                    *)
LEMMA FlattenedFirst ==
  ASSUME NEW seqs, List(seqs[1])
  PROVE  Flattens(seqs[1], seqs, 1)
<1> DEFINE s == seqs[1]
           at == [k \in DOMAIN s |-> <<1, k>>]
<1>1. Len(s) \in Nat /\ DOMAIN s = 1..Len(s)
  BY Listing
<1>2. \A k \in DOMAIN s : <<1, k>> \in Spots(seqs, 1)
  BY <1>1 DEF Spots
<1>3. \A p \in Spots(seqs, 1) : p = <<1, p[2]>> /\ p[2] \in DOMAIN s
  BY DEF Spots
<1>4. at \in [DOMAIN s -> Spots(seqs, 1)]
  BY <1>2
<1>5. \A p \in Spots(seqs, 1) : at[p[2]] = p /\ p[2] \in DOMAIN s
  BY <1>3
<1>6. \A k \in DOMAIN s : s[k] = seqs[at[k][1]][at[k][2]]
  OBVIOUS
<1>7. \A j, k \in DOMAIN s : at[j] = at[k] => j = k
  OBVIOUS
<1>8. \A j, k \in DOMAIN s : j < k => Before(at[j], at[k])
  BY DEF Before
<1> HIDE DEF at
<1> QED
  BY <1>4, <1>5, <1>6, <1>7, <1>8 DEF Flattens

(* What FlattenSeq returns.                                                *)
LEMMA Flattened ==
  ASSUME NEW seqs, List(seqs), \A i \in DOMAIN seqs : List(seqs[i])
  PROVE  Flattens(FlattenSeq(seqs), seqs, Len(seqs))
<1> DEFINE n == Len(seqs)
<1>1. n \in Nat /\ DOMAIN seqs = 1..n
  BY Listing
<1>2. CASE n = 0
  <2>1. FlattenSeq(seqs) = seqs
    BY <1>2 DEF FlattenSeq
  <2>2. DOMAIN seqs = {}
    BY <1>1, <1>2
  <2>3. Spots(seqs, 0) = {}
    BY DEF Spots
  <2>4. seqs \in [DOMAIN seqs -> Spots(seqs, 0)]
    BY <2>2 DEF List
  <2>5. Flattens(seqs, seqs, 0)
    BY <2>2, <2>3, <2>4 DEF Flattens
  <2> QED
    BY <1>2, <2>1, <2>5
<1>3. CASE n # 0
  <2> DEFINE f == CHOOSE g : Unrolls(seqs, g, n)
             Bad == {m \in 1..n : ~Flattens(f[m], seqs, m)}
  <2>1. FlattenSeq(seqs) = f[n]
    BY <1>3 DEF FlattenSeq, Unrolls, Turn
  <2>2. Unrolls(seqs, f, n)
    BY <1>1, Unrolling
  <2> HIDE DEF f
  <2>3. \A i \in 1..n : f[i] = Turn(seqs, f, i)
    BY <2>2 DEF Unrolls
  <2>4. ASSUME Bad # {} PROVE FALSE
    <3> DEFINE m == Min(Bad)
    <3>1. m \in 1..n /\ ~Flattens(f[m], seqs, m) /\ \A k \in Bad : m <= k
      <4>1. Bad \in SUBSET Nat
        OBVIOUS
      <4> HIDE DEF Bad
      <4>2. m \in Bad /\ \A k \in Bad : m <= k
        BY <2>4, <4>1, Least
      <4> QED
        BY <4>2 DEF Bad
    <3> HIDE DEF m
    <3>2. CASE m = 1
      <4>1. f[1] = seqs[1]
        BY <2>3, <3>1, <3>2 DEF Turn
      <4>2. Flattens(f[1], seqs, 1)
        BY <1>1, <3>1, <3>2, <4>1, FlattenedFirst
      <4> QED
        BY <3>1, <3>2, <4>2
    <3>3. CASE m # 1
      <4>1. m - 1 \in 1..n /\ ~(m <= m - 1) /\ m - 1 \in Nat /\ (m - 1) + 1 = m
        BY <1>1, <3>1, <3>3
      <4>2. Flattens(f[m - 1], seqs, m - 1)
        BY <3>1, <4>1
      <4>3. f[m] = f[m - 1] \o seqs[m]
        BY <2>3, <3>1, <3>3 DEF Turn
      <4>4. Flattens(f[m - 1] \o seqs[m], seqs, m)
        BY <1>1, <3>1, <4>1, <4>2, FlattenedOneMore
      <4> QED
        BY <3>1, <4>3, <4>4
    <3> QED
      BY <3>2, <3>3
  <2>5. n \in 1..n
    BY <1>1, <1>3
  <2> QED
    BY <2>1, <2>4, <2>5
<1> QED
  BY <1>2, <1>3

-----------------------------------------------------------------------------
(* Visitors                                                                *)

(* A gate that prints a bound, and somebody below it.                      *)
LEMMA GatesTellApart ==
  ASSUME NEW ages \in SUBSET Nat, 0 \in ages,
         NEW bounds \in SUBSET (Nat \ {0}), \A bound \in bounds : \E age \in ages : age >= bound,
         NEW person \in People(ages), NEW access \in SessionAccess(bounds),
         access.arm \in AgeGated,
         Eligibility(person, access).outcome = "needs_age"
  PROVE  \E p, q \in Completions(person, ages) :
           Eligibility(p, access).outcome # Eligibility(q, access).outcome
<1> DEFINE gender == IF person.gender = "unknown" THEN "female" ELSE person.gender
           young == [gender |-> gender, age |-> 0]
           reached == CHOOSE age \in ages : age >= access.minAge
           old == [gender |-> gender, age |-> reached]
<1>0. access.minAge \in Nat \ {0} /\ reached \in ages /\ reached >= access.minAge
  <2>1. access.minAge \in bounds
    BY DEF SessionAccess, AgeGated, Open, Reserved
  <2> QED
    BY <2>1
<1> HIDE DEF reached
<1>1. reached \in Nat /\ person.gender \in Gender /\ person.age \in ages \cup {NoAge}
  BY <1>0 DEF People
<1>2. \A p \in People(ages) : Eligibility(p, access) = AgeGate(p, access)
  BY DEF Eligibility, AgeGated, Open, Reserved
<1>3. person.age = NoAge
  <2>1. AgeGate(person, access).outcome = "needs_age"
    BY <1>2
  <2> QED
    BY <2>1 DEF AgeGate, Answer
<1>4. gender \in Gender \ {"unknown"}
  BY <1>1 DEF Gender
<1>5. young \in People(ages) /\ old \in People(ages)
  BY <1>0, <1>1, <1>4 DEF People
<1>6. young \in Completions(person, ages) /\ old \in Completions(person, ages)
  <2>1. 0 # NoAge /\ reached # NoAge
    BY <1>1 DEF NoAge
  <2> QED
    BY <1>3, <1>4, <1>5, <2>1 DEF Completions
<1>7. Eligibility(young, access).outcome = "too_young" /\ Eligibility(old, access).outcome = "welcome"
  <2>0. young.age = 0 /\ old.age = reached /\ reached \in Nat /\ reached >= access.minAge
        /\ access.minAge \in Nat \ {0}
    BY <1>0, <1>1
  <2> HIDE DEF young, old
  <2>1. AgeGate(young, access).outcome = "too_young"
    BY <2>0 DEF AgeGate, Answer, NoAge
  <2>2. AgeGate(old, access).outcome = "welcome"
    BY <2>0 DEF AgeGate, Answer, NoAge
  <2> QED
    BY <1>2, <1>5, <2>1, <2>2
<1> QED
  BY <1>6, <1>7

(* The table of _women_only, row by row.                                   *)
LEMMA WomenOnlyAnswers ==
  ASSUME NEW person, NEW access
  PROVE  /\ WomenOnly(person, access).allowed <=> person.gender = "female"
         /\ person.gender = "female" => WomenOnly(person, access).outcome = "welcome"
         /\ person.gender = "male" => WomenOnly(person, access).outcome = "excluded"
         /\ person.gender = "diverse" => WomenOnly(person, access).outcome = "confirm"
         /\ person.gender = "unknown" => WomenOnly(person, access).outcome = "needs_gender"
<1>1. WomenOnly(person, access).allowed = (person.gender = "female")
  BY Zenon DEF WomenOnly, Answer
<1>2. WomenOnly(person, access).outcome =
        [female |-> "welcome", male |-> "excluded", diverse |-> "confirm",
         unknown |-> "needs_gender"][person.gender]
  BY Zenon DEF WomenOnly, Answer
<1>3. WomenOnly(person, access).allowed <=> person.gender = "female"
  BY <1>1, Zenon
<1>4. /\ person.gender = "female" => WomenOnly(person, access).outcome = "welcome"
      /\ person.gender = "male" => WomenOnly(person, access).outcome = "excluded"
      /\ person.gender = "diverse" => WomenOnly(person, access).outcome = "confirm"
      /\ person.gender = "unknown" => WomenOnly(person, access).outcome = "needs_gender"
  BY <1>2
<1> QED
  BY <1>3, <1>4, Zenon

(* What a person does not say is never assumed, whatever the ages and the  *)
(* printed bounds.                                                         *)
THEOREM NobodyIsGuessed ==
  ASSUME NEW ages \in SUBSET Nat, 0 \in ages,
         NEW bounds \in SUBSET (Nat \ {0}), \A bound \in bounds : \E age \in ages : age >= bound,
         NEW person \in People(ages), NEW access \in SessionAccess(bounds)
  PROVE  NothingAssumed(person, access, ages)
<1> DEFINE now == Eligibility(person, access)
           later == {Eligibility(p, access) : p \in Completions(person, ages)}
<1>1. /\ \A p \in Completions(person, ages) :
           /\ p \in People(ages) /\ p.age \in ages /\ p.gender \in Gender \ {"unknown"}
           /\ person.age \in {NoAge, p.age} /\ person.gender \in {"unknown", p.gender}
      /\ person.gender \in Gender /\ person.age \in ages \cup {NoAge}
  BY DEF Completions, People
<1>2. access.arm \in Open \cup Reserved \cup AgeGated
                     \cup {"women-only", "girls-only", "gender-diverse", "accompanied-children"}
  BY DEF SessionAccess
<1>3. ASSUME NEW p \in Completions(person, ages)
      PROVE  /\ now.allowed => Eligibility(p, access).allowed
             /\ now.outcome \in {"excluded", "too_young", "reserved"} =>
                  ~Eligibility(p, access).allowed /\ Eligibility(p, access).outcome # "welcome"
  <2>1. CASE access.arm \in Open
    <3>1. now = Answer(TRUE, access, "welcome") /\ Eligibility(p, access) = Answer(TRUE, access, "welcome")
      BY <2>1 DEF Eligibility, Open, Reserved
    <3> QED
      BY <3>1 DEF Answer
  <2>2. CASE access.arm \in Reserved
    BY <2>2 DEF Eligibility, Answer, Open, Reserved
  <2>3. CASE access.arm = "women-only"
    <3>1. now = WomenOnly(person, access) /\ Eligibility(p, access) = WomenOnly(p, access)
      BY <2>3 DEF Eligibility, Open, Reserved
    <3>2. CASE person.gender = "unknown"
      <4>1. ~now.allowed
        BY <3>1, <3>2, WomenOnlyAnswers
      <4>2. now.outcome = "needs_gender"
        BY <3>1, <3>2, WomenOnlyAnswers
      <4> QED
        BY <4>1, <4>2
    <3>3. CASE person.gender # "unknown"
      <4>1. Eligibility(p, access) = now /\ p.gender = person.gender
        BY <1>1, <3>1, <3>3 DEF WomenOnly
      <4>2. person.gender # "female" => ~now.allowed /\ now.outcome # "welcome"
        BY <1>1, <3>1, <3>3, WomenOnlyAnswers DEF Gender
      <4>3. person.gender = "female" => now.outcome = "welcome"
        BY <3>1, WomenOnlyAnswers
      <4> QED
        BY <4>1, <4>2, <4>3
    <3> QED
      BY <3>2, <3>3
  <2>4. CASE access.arm = "girls-only"
    BY <1>1, <2>4 DEF Eligibility, Answer, Open, Reserved, GirlsOnly, Gender
  <2>5. CASE access.arm = "gender-diverse"
    BY <1>1, <2>5 DEF Eligibility, Answer, Open, Reserved, GenderDiverse
  <2>6. CASE access.arm = "accompanied-children"
    BY <2>6 DEF Eligibility, Answer, Open, Reserved
  <2>7. CASE access.arm \in AgeGated
    <3>1. \A q \in People(ages) : Eligibility(q, access) = AgeGate(q, access)
      BY <2>7 DEF Eligibility, AgeGated, Open, Reserved
    <3> QED
      BY <1>1, <3>1 DEF AgeGate, Answer
  <2> QED
    BY <1>2, <2>1, <2>2, <2>3, <2>4, <2>5, <2>6, <2>7
<1>4. ASSUME now.outcome = "needs_age" PROVE \E v, w \in later : v.outcome # w.outcome
  <2>1. access.arm \in AgeGated
    BY <1>1, <1>2, <1>4 DEF Eligibility, Answer, Open, Reserved, WomenOnly, GirlsOnly, GenderDiverse, Gender
  <2> QED
    BY <1>4, <2>1, GatesTellApart
<1>5. ASSUME now.outcome = "needs_gender" PROVE \E v, w \in later : v.outcome # w.outcome
  <2> DEFINE age == IF person.age = NoAge THEN 0 ELSE person.age
             woman == [gender |-> "female", age |-> age]
             man == [gender |-> "male", age |-> age]
  <2>1. access.arm \in {"women-only", "girls-only"}
    BY <1>2, <1>5 DEF Eligibility, Answer, Open, Reserved, AgeGated, AgeGate, GenderDiverse
  <2>2. person.gender = "unknown"
    BY <1>1, <1>5, <2>1 DEF Eligibility, Answer, Open, Reserved, WomenOnly, GirlsOnly, Gender
  <2>3. woman \in Completions(person, ages) /\ man \in Completions(person, ages)
    <3>1. age \in ages /\ age # NoAge /\ person.age \in {NoAge, age}
      BY <1>1 DEF NoAge
    <3> QED
      BY <2>2, <3>1 DEF Completions, People, Gender
  <2>4. Eligibility(woman, access).outcome # Eligibility(man, access).outcome
    BY <2>1 DEF Eligibility, Answer, Open, Reserved, WomenOnly, GirlsOnly
  <2> QED
    BY <2>3, <2>4
<1> QED
  BY <1>3, <1>4, <1>5 DEF NothingAssumed

(* A sequence that is not empty has a first of the greatest.               *)
LEMMA GreatestIsThere ==
  ASSUME NEW s, List(s), s # <<>>, NEW key \in [DOMAIN s -> Int]
  PROVE  \E i \in DOMAIN s : /\ \A j \in DOMAIN s : key[j] <= key[i]
                             /\ \A j \in 1..(i - 1) : key[j] < key[i]
<1> DEFINE n == Len(s)
           t == Arranged(s, {<<key[i], i>> : i \in DOMAIN s})
<1>1. n \in Nat /\ DOMAIN s = 1..n
  BY Listing
<1>2. n # 0
  <2>1. n = 0 => s = <<>>
    BY <1>1 DEF List
  <2> QED
    BY <2>1
<1>3. Sorts(t, s, key)
  BY Sorting
<1> HIDE DEF t
<1>4. PICK at \in [DOMAIN s -> DOMAIN s] :
        /\ \A i \in DOMAIN s : \E k \in DOMAIN s : at[k] = i
        /\ \A j, k \in DOMAIN s : j < k => key[at[j]] <= key[at[k]]
  <2>1. PICK at \in [DOMAIN s -> DOMAIN s] :
          /\ \A i \in DOMAIN s : \E k \in DOMAIN s : at[k] = i
          /\ \A j, k \in DOMAIN s : j < k =>
               key[at[j]] < key[at[k]] \/ (key[at[j]] = key[at[k]] /\ at[j] < at[k])
    BY <1>3, Zenon DEF Sorts
  <2>2. \A k \in DOMAIN s : key[at[k]] \in Int
    OBVIOUS
  <2>3. ASSUME NEW j \in DOMAIN s, NEW k \in DOMAIN s, j < k PROVE key[at[j]] <= key[at[k]]
    <3>1. key[at[j]] \in Int /\ key[at[k]] \in Int
      BY <2>2
    <3>2. key[at[j]] < key[at[k]] \/ key[at[j]] = key[at[k]]
      BY <2>1, <2>3
    <3> QED
      BY <3>1, <3>2
  <2> QED
    BY <2>1, <2>3
<1> DEFINE top == at[n]
           Tops == {i \in DOMAIN s : key[i] = key[top]}
<1>5. top \in DOMAIN s /\ \A j \in DOMAIN s : key[j] <= key[top]
  <2>1. n \in DOMAIN s
    BY <1>1, <1>2
  <2>2. ASSUME NEW j \in DOMAIN s PROVE key[j] <= key[top]
    <3>1. PICK k \in DOMAIN s : at[k] = j
      BY <1>4
    <3>2. k = n \/ k < n
      BY <1>1
    <3>3. key[j] \in Int /\ (k = n => key[j] = key[top])
      BY <3>1
    <3>4. k < n => key[at[k]] <= key[at[n]]
      BY <1>4, <2>1
    <3> QED
      BY <3>1, <3>2, <3>3, <3>4
  <2> QED
    BY <2>1, <2>2
<1> HIDE DEF top
<1>6. Tops \in SUBSET Nat /\ Tops # {}
  BY <1>1, <1>5
<1>7. Min(Tops) \in Tops /\ \A i \in Tops : Min(Tops) <= i
  <2> HIDE DEF Tops
  <2> QED
    BY <1>6, Least
<1> DEFINE i == Min(Tops)
<1>8. ASSUME NEW j \in 1..(i - 1) PROVE key[j] < key[i]
  <2>1. j \in DOMAIN s /\ ~(i <= j) /\ i \in DOMAIN s /\ key[i] = key[top]
    BY <1>1, <1>7
  <2>2. j \notin Tops
    BY <1>7, <2>1
  <2>3. key[j] <= key[top] /\ key[j] # key[top] /\ key[j] \in Int /\ key[top] \in Int
    BY <1>5, <2>1, <2>2
  <2> QED
    BY <2>1, <2>3
<1>9. i \in DOMAIN s /\ \A j \in DOMAIN s : key[j] <= key[i]
  BY <1>5, <1>7
<1> HIDE DEF i
<1> QED
  BY <1>8, <1>9

(* The entry with the greatest bound an age clears.                        *)
Cleared(entries, age) ==
  {i \in DOMAIN entries : entries[i].minAge # NoAge /\ (age = NoAge \/ entries[i].minAge <= age)}

(* What an age pays is the greatest bound it clears.                       *)
LEMMA GreatestCleared ==
  ASSUME NEW entries \in Seq(Band), NEW age
  PROVE  /\ Cleared(entries, age) = {} => EntryFor(entries, age) = NoPrice
         /\ Cleared(entries, age) # {} =>
              \E i \in Cleared(entries, age) :
                /\ EntryFor(entries, age) = entries[i]
                /\ \A j \in Cleared(entries, age) : entries[j].minAge <= entries[i].minAge
<1> DEFINE I == Cleared(entries, age)
           t == Arranged(entries, {<<0, i>> : i \in I})
<1>1. List(entries) /\ \A i \in DOMAIN entries : entries[i] \in Band
  BY SequenceIsList
<1>2. Keeps(t, entries, I)
  <2>1. I \in SUBSET DOMAIN entries
    BY DEF Cleared
  <2> HIDE DEF I
  <2> QED
    BY <1>1, <2>1, KeptPlaces
<1>3. EntryFor(entries, age) =
        IF t = <<>> THEN NoPrice
        ELSE t[CHOOSE i \in DOMAIN t :
                 /\ \A j \in DOMAIN t : t[j].minAge <= t[i].minAge
                 /\ \A j \in 1..(i - 1) : t[j].minAge < t[i].minAge]
  BY DEF EntryFor, FirstGreatest, Kept, Cleared
<1> HIDE DEF I, t
<1>4. List(t) /\ (t = <<>> <=> I = {})
  BY <1>2 DEF Keeps
<1>5. PICK at \in [DOMAIN t -> I] :
        /\ \A k \in DOMAIN t : t[k] = entries[at[k]]
        /\ \A i \in I : \E k \in DOMAIN t : at[k] = i
  BY <1>2 DEF Keeps
<1>6. \A i \in I : i \in DOMAIN entries /\ entries[i].minAge \in Nat
  BY <1>1 DEF I, Cleared, Band
<1> DEFINE key == [k \in DOMAIN t |-> t[k].minAge]
<1>7. key \in [DOMAIN t -> Int]
  BY <1>5, <1>6
<1>8. ASSUME I # {}
      PROVE \E i \in I : /\ EntryFor(entries, age) = entries[i]
                         /\ \A j \in I : entries[j].minAge <= entries[i].minAge
  <2> DEFINE First(k) == /\ \A j \in DOMAIN t : t[j].minAge <= t[k].minAge
                         /\ \A j \in 1..(k - 1) : t[j].minAge < t[k].minAge
             k0 == CHOOSE k \in DOMAIN t : First(k)
  <2>1. \E k \in DOMAIN t : First(k)
    <3> HIDE DEF key
    <3>1. PICK k \in DOMAIN t : /\ \A j \in DOMAIN t : key[j] <= key[k]
                                /\ \A j \in 1..(k - 1) : key[j] < key[k]
      BY <1>4, <1>7, <1>8, GreatestIsThere
    <3>2. DOMAIN t = 1..Len(t) /\ Len(t) \in Nat
      BY <1>4, Listing
    <3>3. \A j \in 1..(k - 1) : j \in DOMAIN t
      BY <3>2
    <3>4. First(k)
      BY <3>1, <3>3 DEF key
    <3> QED
      BY <3>4
  <2>2. k0 \in DOMAIN t /\ First(k0)
    BY <2>1
  <2>3. EntryFor(entries, age) = t[k0]
    BY <1>3, <1>4, <1>8
  <2> HIDE DEF k0
  <2>4. at[k0] \in I /\ EntryFor(entries, age) = entries[at[k0]]
    BY <1>5, <2>2, <2>3
  <2>5. \A j \in I : entries[j].minAge <= entries[at[k0]].minAge
    BY <1>5, <2>2
  <2> QED
    BY <2>4, <2>5
<1> QED
  BY <1>3, <1>4, <1>8 DEF I

(* Nobody pays a band they have not reached, or less by keeping quiet,     *)
(* whatever the tariff prints.                                             *)
THEOREM NobodyIsUndercharged ==
  ASSUME NEW entries \in Seq(Band), NEW ages \in SUBSET Nat
  PROVE  NeverUndercharged(entries, ages)
<1> DEFINE Bound(age) == EntryFor(entries, age).minAge
<1>1. \A i \in DOMAIN entries : entries[i].minAge \in {NoAge} \cup Nat
  <2>1. \A i \in DOMAIN entries : entries[i] \in Band
    BY SequenceIsList
  <2> QED
    BY <2>1 DEF Band
<1>2. \A age : \A i \in Cleared(entries, age) : i \in DOMAIN entries /\ entries[i].minAge \in Nat
  BY <1>1 DEF Cleared
<1>3. NoPrice.minAge = NoAge /\ NoAge = -1
  BY DEF NoPrice, NoAge
<1>4. ASSUME NEW a \in ages \cup {NoAge}, NEW b \in ages \cup {NoAge},
             Cleared(entries, a) \subseteq Cleared(entries, b)
      PROVE  Bound(a) <= Bound(b)
  <2>1. CASE Cleared(entries, a) = {}
    <3>1. Bound(a) = -1
      BY <1>3, <2>1, GreatestCleared
    <3>2. Bound(b) = -1 \/ Bound(b) \in Nat
      BY <1>2, <1>3, GreatestCleared
    <3> QED
      BY <3>1, <3>2
  <2>2. CASE Cleared(entries, a) # {}
    <3>1. PICK i \in Cleared(entries, a) : EntryFor(entries, a) = entries[i]
      BY <2>2, GreatestCleared
    <3>2. PICK j \in Cleared(entries, b) :
            /\ EntryFor(entries, b) = entries[j]
            /\ \A k \in Cleared(entries, b) : entries[k].minAge <= entries[j].minAge
      BY <1>4, <2>2, GreatestCleared
    <3> QED
      BY <1>4, <3>1, <3>2
  <2> QED
    BY <2>1, <2>2
<1>5. ASSUME NEW a \in ages PROVE Bound(a) <= a /\ Bound(a) <= Bound(NoAge)
  <2>1. a \in Nat /\ a # NoAge
    BY <1>3
  <2>2. Bound(a) <= a
    <3>1. CASE Cleared(entries, a) = {}
      BY <1>3, <2>1, <3>1, GreatestCleared
    <3>2. CASE Cleared(entries, a) # {}
      <4>1. PICK i \in Cleared(entries, a) : EntryFor(entries, a) = entries[i]
        BY <3>2, GreatestCleared
      <4> QED
        BY <2>1, <4>1 DEF Cleared
    <3> QED
      BY <3>1, <3>2
  <2>3. Cleared(entries, a) \subseteq Cleared(entries, NoAge)
    BY DEF Cleared
  <2> QED
    BY <1>4, <2>2, <2>3
<1>6. ASSUME NEW a \in ages, NEW b \in ages, a <= b PROVE Bound(a) <= Bound(b)
  <2>1. a \in Nat /\ b \in Nat /\ a # NoAge /\ b # NoAge
    BY <1>3
  <2>2. Cleared(entries, a) \subseteq Cleared(entries, b)
    BY <1>2, <1>6, <2>1 DEF Cleared
  <2> QED
    BY <1>4, <2>2
<1> QED
  BY <1>5, <1>6 DEF NeverUndercharged

-----------------------------------------------------------------------------
(* Windows of the year                                                     *)

(* A window across New Year is the rest of the year, for a year of any     *)
(* length: months, or days of the year.                                    *)
THEOREM WindowsWrapAnyYear ==
  ASSUME NEW last \in Nat, NEW start \in 0..last, NEW end \in 0..last
  PROVE  WindowsAreCyclic(last, start, end)
<1> SUFFICES ASSUME NEW day \in 0..last, (IF end = last THEN 0 ELSE end + 1) # start
             PROVE  Within(day, start, end)
                      = ~Within(day, IF end = last THEN 0 ELSE end + 1, IF start = 0 THEN last ELSE start - 1)
  BY DEF WindowsAreCyclic
<1>1. CASE start <= end
  BY <1>1 DEF Within
<1>2. CASE start > end
  BY <1>2 DEF Within
<1> QED
  BY <1>1, <1>2

-----------------------------------------------------------------------------
(* The rule that decides a day                                             *)

(* The first layer that does not pass the day on.                          *)
LEMMA FirstDecides ==
  ASSUME NEW a, NEW b, NEW c, NEW d, NEW e, NEW s, s = <<a, b, c, d, e>>,
         NEW found, found = {i \in DOMAIN s : s[i] # Pass}
  PROVE  (IF found = {} THEN Pass ELSE s[Min(found)]) =
           IF a # Pass THEN a ELSE IF b # Pass THEN b ELSE IF c # Pass THEN c
           ELSE IF d # Pass THEN d ELSE e
<1>1. DOMAIN s = 1..5 /\ s[1] = a /\ s[2] = b /\ s[3] = c /\ s[4] = d /\ s[5] = e
  OBVIOUS
<1>3. CASE found = {}
  <2>1. \A i \in 1..5 : s[i] = Pass
    BY <1>1, <1>3
  <2>2. a = Pass /\ b = Pass /\ c = Pass /\ d = Pass /\ e = Pass
    BY <1>1, <2>1
  <2> QED
    BY <1>3, <2>2
<1>4. CASE found # {}
  <2>1. found \in SUBSET Nat
    BY <1>1
  <2>2. Min(found) \in found /\ \A i \in found : Min(found) <= i
    BY <1>4, <2>1, Least
  <2> DEFINE m == Min(found)
  <2>3. m \in 1..5 /\ s[m] # Pass /\ \A i \in 1..5 : s[i] # Pass => m <= i
    BY <1>1, <2>2
  <2> HIDE DEF m
  <2>5. m = 1 \/ m = 2 \/ m = 3 \/ m = 4 \/ m = 5
    BY <2>3
  <2>6. s[m] = IF a # Pass THEN a ELSE IF b # Pass THEN b ELSE IF c # Pass THEN c
               ELSE IF d # Pass THEN d ELSE e
    BY <1>1, <2>3, <2>5
  <2> QED
    BY <1>4, <2>6 DEF m
<1> QED
  BY <1>3, <1>4

(* The five layers of resolve_hours, written out as a chain.               *)
LEMMA Deciding ==
  ASSUME NEW facility, NEW rules, NEW exceptions, NEW day, NEW calendar
  PROVE  ResolveHours(facility, rules, exceptions, day, calendar) =
           IF ByClosure(facility, day) # Pass THEN ByClosure(facility, day)
           ELSE IF ByException(exceptions, day) # Pass THEN ByException(exceptions, day)
           ELSE IF BySeason(facility, rules, day) # Pass THEN BySeason(facility, rules, day)
           ELSE IF ByHoliday(facility, day, calendar) # Pass THEN ByHoliday(facility, day, calendar)
           ELSE ByRules(facility, rules, day, calendar)
<1> DEFINE s == Layers(facility, rules, exceptions, day, calendar)
           found == {i \in DOMAIN s : s[i] # Pass}
<1>1. s = <<ByClosure(facility, day), ByException(exceptions, day), BySeason(facility, rules, day),
            ByHoliday(facility, day, calendar), ByRules(facility, rules, day, calendar)>>
  BY DEF Layers
<1>2. ResolveHours(facility, rules, exceptions, day, calendar) = IF found = {} THEN Pass ELSE s[Min(found)]
  BY DEF ResolveHours, FirstThat
<1>3. found = {i \in DOMAIN s : s[i] # Pass}
  OBVIOUS
<1> HIDE DEF s, found
<1> QED
  BY <1>1, <1>2, <1>3, FirstDecides

(* What a day is called tells the layers apart.                            *)
LEMMA DaysDiffer ==
  /\ \A reason : ClosedDay(reason).kind = "closed" /\ ClosedDay(reason) # Pass
  /\ \A sessions, unverified :
       /\ OpenDay(sessions, unverified).kind = "open" /\ OpenDay(sessions, unverified) # Pass
       /\ OpenDay(sessions, unverified).sessions = sessions
       /\ OpenDay(sessions, unverified).unverified = unverified
  /\ \A weather : Unscheduled(weather).kind = "unscheduled" /\ Unscheduled(weather) # Pass
  /\ Pass.kind = "pass"
<1>1. Pass.kind = "pass"
  BY DEF Pass
<1>2. \A reason : ClosedDay(reason).kind = "closed"
  BY DEF ClosedDay
<1>3. \A sessions, unverified :
       /\ OpenDay(sessions, unverified).kind = "open"
       /\ OpenDay(sessions, unverified).sessions = sessions
       /\ OpenDay(sessions, unverified).unverified = unverified
  BY DEF OpenDay
<1>4. \A weather : Unscheduled(weather).kind = "unscheduled"
  BY DEF Unscheduled
<1> QED
  BY <1>1, <1>2, <1>3, <1>4

(* The dated exception that decides, if one is dated.                      *)
Dated(exceptions, day) == {i \in DOMAIN exceptions : exceptions[i].date = day.date}

(* A day without a dated exception passes; with one, that exception        *)
(* decides it.                                                             *)
LEMMA ExceptionDecides ==
  ASSUME NEW exceptions, List(exceptions), NEW day
  PROVE  /\ Dated(exceptions, day) = {} => ByException(exceptions, day) = Pass
         /\ Dated(exceptions, day) # {} => \E i \in Dated(exceptions, day) :
              ByException(exceptions, day) =
                IF exceptions[i].closed THEN ClosedDay(ClassifyClosure(exceptions[i].reason))
                ELSE OpenDay(exceptions[i].sessions, FALSE)
<1> DEFINE I == Dated(exceptions, day)
           t == Arranged(exceptions, {<<0, i>> : i \in I})
<1>1. Keeps(t, exceptions, I)
  <2>1. I \in SUBSET DOMAIN exceptions
    BY DEF Dated
  <2> HIDE DEF I
  <2> QED
    BY <2>1, KeptPlaces
<1>2. ByException(exceptions, day) =
        IF t = <<>> THEN Pass
        ELSE IF t[1].closed THEN ClosedDay(ClassifyClosure(t[1].reason))
        ELSE OpenDay(t[1].sessions, FALSE)
  BY DEF ByException, Kept, Dated
<1> HIDE DEF I, t
<1>3. t = <<>> <=> I = {}
  BY <1>1 DEF Keeps
<1>4. ASSUME I # {} PROVE \E i \in I : t[1] = exceptions[i]
  <2>1. List(t) /\ t # <<>>
    BY <1>1, <1>3, <1>4 DEF Keeps
  <2>2. 1 \in DOMAIN t
    <3>1. Len(t) \in Nat /\ DOMAIN t = 1..Len(t)
      BY <2>1, Listing
    <3>2. DOMAIN t = {} => t = <<>>
      BY <2>1 DEF List
    <3> QED
      BY <2>1, <3>1, <3>2
  <2>3. PICK at \in [DOMAIN t -> I] : \A k \in DOMAIN t : t[k] = exceptions[at[k]]
    BY <1>1 DEF Keeps
  <2> QED
    BY <2>2, <2>3
<1> QED
  BY <1>2, <1>3, <1>4, Zenon DEF I

(* A closure passes the day on or closes it.                               *)
LEMMA ClosureDecides ==
  ASSUME NEW facility, NEW day
  PROVE  ByClosure(facility, day) = Pass \/ ByClosure(facility, day).kind = "closed"
  BY DaysDiffer DEF ByClosure

(* Sessions that can be put in the order of their start.                   *)
Timed(sessions) == List(sessions) /\ \A k \in DOMAIN sessions : sessions[k].time.start \in Nat

(* The sessions of a weekday can be ordered by their start.                *)
LEMMA RuleTimed ==
  ASSUME NEW rules \in Seq(Rule), NEW weekday, NEW context, NEW day
  PROVE  Timed(SessionsFor(rules, weekday, context, day))
<1> DEFINE I == {i \in DOMAIN rules : /\ weekday \in rules[i].weekdays
                                      /\ ScopeApplies(rules[i].scope, context)
                                      /\ InSeason(rules[i], day)}
           t == Arranged(rules, {<<0, i>> : i \in I})
           m == [k \in DOMAIN t |-> [time |-> t[k].time, access |-> t[k].access, weather |-> t[k].weather]]
           keyed == {<<m[k].time.start, k>> : k \in DOMAIN m}
           key == [k \in DOMAIN m |-> m[k].time.start]
<1>1. SessionsFor(rules, weekday, context, day) = Arranged(m, keyed)
  BY DEF SessionsFor, SortedBy, Mapped, Kept
<1>2. List(rules) /\ \A i \in DOMAIN rules : rules[i] \in Rule
  BY SequenceIsList
<1>3. \A i \in DOMAIN rules : rules[i].time.start \in Nat
  BY <1>2 DEF Rule, Hours
<1>4. Keeps(t, rules, I)
  BY <1>2, KeptPlaces
<1> HIDE DEF t, I
<1>5. List(t) /\ \A k \in DOMAIN t : \E i \in DOMAIN rules : t[k] = rules[i]
  <2>1. I \subseteq DOMAIN rules
    BY DEF I
  <2> QED
    BY <1>4, <2>1 DEF Keeps
<1>6. DOMAIN m = DOMAIN t /\ List(m) /\ \A k \in DOMAIN m : m[k].time.start \in Nat
  <2>1. DOMAIN m = DOMAIN t /\ List(m)
    BY <1>5 DEF List
  <2>2. \A k \in DOMAIN m : m[k].time = t[k].time
    OBVIOUS
  <2> QED
    BY <1>3, <1>5, <2>1, <2>2
<1> HIDE DEF m
<1>7. key \in [DOMAIN m -> Int] /\ keyed = {<<key[k], k>> : k \in DOMAIN m}
  BY <1>6
<1> HIDE DEF key, keyed
<1>8. Sorts(Arranged(m, keyed), m, key)
  BY <1>6, <1>7, Sorting
<1>9. Timed(Arranged(m, keyed))
  BY <1>6, <1>8 DEF Timed, Sorts
<1> QED
  BY <1>1, <1>9

(* What may be said of a day, and why.                                     *)
DayTold(d, facility, rules, exceptions, day, calendar) ==
  /\ d.kind \in {"open", "closed", "unscheduled"}
  /\ ByClosure(facility, day) # Pass => d.kind = "closed"
  /\ d.kind = "unscheduled" => rules = <<>> /\ facility.season # NoSeason
  /\ d.kind = "open" => Timed(d.sessions)
  /\ d.kind = "open" /\ d.sessions = <<>> =>
       \E i \in Dated(exceptions, day) : ~exceptions[i].closed /\ exceptions[i].sessions = <<>>
  /\ d.kind = "open" /\ d.unverified =>
       Context(calendar, day).holiday /\ facility.policy = "unstated" /\ d.sessions # <<>>
  /\ d.kind = "open" /\ Context(calendar, day).holiday /\ Dated(exceptions, day) = {} =>
       facility.policy # "closed" /\ (facility.policy = "unstated" => d.unverified)

LEMMA DayFacts ==
  ASSUME NEW facility, NEW rules \in Seq(Rule), NEW exceptions \in Seq(Exception),
         NEW day, NEW calendar
  PROVE  DayTold(ResolveHours(facility, rules, exceptions, day, calendar),
                 facility, rules, exceptions, day, calendar)
<1> SUFFICES ASSUME NEW d, d = ResolveHours(facility, rules, exceptions, day, calendar)
             PROVE  DayTold(d, facility, rules, exceptions, day, calendar)
  OBVIOUS
<1> USE DEF DayTold
<1> DEFINE holiday == Context(calendar, day).holiday
<1>1. CASE ByClosure(facility, day) # Pass
  <2>1. d.kind = "closed"
    BY <1>1, Deciding, ClosureDecides
  <2> QED
    BY <2>1
<1>2. CASE ByClosure(facility, day) = Pass /\ ByException(exceptions, day) # Pass
  <2>1. d = ByException(exceptions, day)
    BY <1>2, Deciding
  <2>2. List(exceptions) /\ \A i \in DOMAIN exceptions : exceptions[i] \in Exception
    BY SequenceIsList
  <2>3. PICK i \in Dated(exceptions, day) :
          d = IF exceptions[i].closed THEN ClosedDay(ClassifyClosure(exceptions[i].reason))
              ELSE OpenDay(exceptions[i].sessions, FALSE)
    BY <1>2, <2>1, <2>2, ExceptionDecides
  <2>4. CASE exceptions[i].closed
    <3>1. d.kind = "closed"
      BY <2>3, <2>4, DaysDiffer
    <3> QED
      BY <1>2, <3>1
  <2>5. CASE ~exceptions[i].closed
    <3>1. d = OpenDay(exceptions[i].sessions, FALSE)
      BY <2>3, <2>5, Zenon
    <3>2. d.kind = "open" /\ d.sessions = exceptions[i].sessions /\ d.unverified = FALSE
      <4>1. OpenDay(exceptions[i].sessions, FALSE).unverified = FALSE
        BY Zenon DEF OpenDay
      <4>2. d.unverified = FALSE
        BY <3>1, <4>1, Zenon
      <4>3. d.kind = "open"
        BY <3>1 DEF OpenDay
      <4>4. d.sessions = exceptions[i].sessions
        BY <3>1 DEF OpenDay
      <4> QED
        BY <4>2, <4>3, <4>4, Zenon
    <3>3. Timed(d.sessions)
      <4>1. exceptions[i] \in Exception
        BY <2>2 DEF Dated
      <4>2. d.sessions \in Seq(Session)
        BY <3>2, <4>1 DEF Exception
      <4>3. \A s \in Session : s.time.start \in Nat
        BY DEF Session, Hours
      <4>4. List(d.sessions) /\ \A k \in DOMAIN d.sessions : d.sessions[k] \in Session
        BY <4>2, SequenceIsList
      <4> QED
        BY <4>3, <4>4 DEF Timed
    <3>4. ~d.unverified
      BY <3>2, Zenon
    <3> QED
      BY <1>2, <2>5, <3>2, <3>3, <3>4
  <2> QED
    BY <2>4, <2>5
<1>3. CASE ByClosure(facility, day) = Pass /\ ByException(exceptions, day) = Pass
  <2>1. CASE BySeason(facility, rules, day) # Pass
    <3>1. d = BySeason(facility, rules, day)
      BY <1>3, <2>1, Deciding
    <3>2. \/ d.kind = "closed"
          \/ d.kind = "unscheduled" /\ rules = <<>> /\ facility.season # NoSeason
      BY <2>1, <3>1, DaysDiffer DEF BySeason
    <3> QED
      BY <1>3, <3>2
  <2>2. CASE BySeason(facility, rules, day) = Pass /\ ByHoliday(facility, day, calendar) # Pass
    <3>1. d.kind = "closed"
      BY <1>3, <2>2, Deciding, DaysDiffer DEF ByHoliday
    <3> QED
      BY <1>3, <3>1
  <2>3. CASE BySeason(facility, rules, day) = Pass /\ ByHoliday(facility, day, calendar) = Pass
    <3> DEFINE weekday == IF holiday /\ facility.policy = "sunday_schedule" THEN Sunday ELSE day.weekday
               sessions == SessionsFor(rules, weekday, Context(calendar, day), day)
    <3>1. d = IF sessions = <<>> THEN ClosedDay(EmptyReason(rules, day))
              ELSE OpenDay(sessions, holiday /\ facility.policy = "unstated")
      BY <1>3, <2>3, Deciding DEF ByRules
    <3>2. Timed(sessions)
      BY RuleTimed
    <3>3. ~(holiday /\ facility.policy = "closed")
      BY <2>3, DaysDiffer DEF ByHoliday
    <3> HIDE DEF sessions, holiday
    <3>4. CASE sessions = <<>>
      <4>1. d.kind = "closed"
        BY <3>1, <3>4, DaysDiffer
      <4> QED
        BY <1>3, <4>1
    <3>5. CASE sessions # <<>>
      <4>1. d = OpenDay(sessions, holiday /\ facility.policy = "unstated")
        BY <3>1, <3>5, Zenon
      <4>2. d.kind = "open" /\ d.sessions = sessions
            /\ d.unverified = (holiday /\ facility.policy = "unstated")
        <5>1. OpenDay(sessions, holiday /\ facility.policy = "unstated").unverified
                = (holiday /\ facility.policy = "unstated")
          BY Zenon DEF OpenDay
        <5>2. d.unverified = (holiday /\ facility.policy = "unstated")
          BY <4>1, <5>1, Zenon
        <5>3. d.kind = "open"
          BY <4>1 DEF OpenDay
        <5>4. d.sessions = sessions
          BY <4>1 DEF OpenDay
        <5> QED
          BY <5>2, <5>3, <5>4, Zenon
      <4>3. d.unverified => holiday /\ facility.policy = "unstated"
        BY <4>2, Zenon
      <4>4. holiday /\ facility.policy = "unstated" => d.unverified
        BY <4>2, Zenon
      <4>5. Context(calendar, day).holiday <=> holiday
        BY DEF holiday
      <4> QED
        BY <1>3, <3>2, <3>3, <3>5, <4>2, <4>3, <4>4, <4>5
    <3> QED
      BY <3>4, <3>5
  <2> QED
    BY <2>1, <2>2, <2>3
<1> QED
  BY <1>1, <1>2, <1>3

-----------------------------------------------------------------------------
(* What one pool answers                                                   *)

Ruled(facility) == {i \in DOMAIN facility.basins : facility.basins[i].rules # <<>>}

BasinDay(query, facility, calendar, i) ==
  ResolveHours(facility, facility.basins[i].rules, facility.basins[i].exceptions, query.day, calendar)

(* The days of the basins a pool has rules for, as the loop meets them.    *)
BasinDays(query, facility, calendar) ==
  LET basins == Kept(facility.basins, LAMBDA b : b.rules # <<>>)
  IN Mapped(basins, LAMBDA b :
       [basin |-> b, day |-> ResolveHours(facility, b.rules, b.exceptions, query.day, calendar)])

Offers(query, facility, calendar, i) ==
  /\ BasinDay(query, facility, calendar, i).kind = "open"
  /\ BasinDay(query, facility, calendar, i).sessions # <<>>

(* The loop meets the day of every basin with rules, and no other.         *)
LEMMA BasinDaysTraced ==
  ASSUME NEW query, NEW facility, List(facility.basins), NEW calendar,
         NEW days, days = BasinDays(query, facility, calendar)
  PROVE  /\ List(days)
         /\ \A k \in DOMAIN days : \E i \in Ruled(facility) :
              /\ days[k].basin = facility.basins[i]
              /\ days[k].day = BasinDay(query, facility, calendar, i)
         /\ \A i \in Ruled(facility) : \E k \in DOMAIN days :
              days[k].day = BasinDay(query, facility, calendar, i)
<1> DEFINE I == Ruled(facility)
           t == Arranged(facility.basins, {<<0, i>> : i \in I})
<1>1. Keeps(t, facility.basins, I)
  <2>1. I \in SUBSET DOMAIN facility.basins
    BY DEF Ruled
  <2> HIDE DEF I
  <2> QED
    BY <2>1, KeptPlaces
<1>2. days = [k \in DOMAIN t |->
               [basin |-> t[k],
                day |-> ResolveHours(facility, t[k].rules, t[k].exceptions, query.day, calendar)]]
  BY DEF BasinDays, Mapped, Kept, Ruled
<1> HIDE DEF I, t
<1>3. List(t)
  BY <1>1 DEF Keeps
<1>4. PICK at \in [DOMAIN t -> I] :
        /\ \A k \in DOMAIN t : t[k] = facility.basins[at[k]]
        /\ \A i \in I : \E k \in DOMAIN t : at[k] = i
  BY <1>1 DEF Keeps
<1>5. DOMAIN days = DOMAIN t /\ List(days)
  BY <1>2, <1>3 DEF List
<1>6. ASSUME NEW k \in DOMAIN t
      PROVE /\ days[k].basin = facility.basins[at[k]]
            /\ days[k].day = BasinDay(query, facility, calendar, at[k])
  BY <1>2, <1>4 DEF BasinDay
<1>7. \A k \in DOMAIN t : at[k] \in Ruled(facility)
  BY <1>4 DEF I
<1>8. \A i \in Ruled(facility) : \E k \in DOMAIN t : at[k] = i
  BY <1>4 DEF I
<1>9. ASSUME NEW k \in DOMAIN days
      PROVE \E i \in Ruled(facility) : /\ days[k].basin = facility.basins[i]
                                       /\ days[k].day = BasinDay(query, facility, calendar, i)
  BY <1>5, <1>6, <1>7
<1>10. ASSUME NEW i \in Ruled(facility)
       PROVE \E k \in DOMAIN days : days[k].day = BasinDay(query, facility, calendar, i)
  BY <1>5, <1>6, <1>8
<1> QED
  BY <1>5, <1>9, <1>10

(* A basin with rules is open or closed.                                   *)
BasinTold(d, query, facility, calendar, i) ==
  /\ i \in Ruled(facility) => d.kind \in {"open", "closed"}
  /\ ByClosure(facility, query.day) # Pass => d.kind = "closed"
  /\ d.kind = "open" => Timed(d.sessions)
  /\ d.kind = "open" /\ d.sessions = <<>> =>
       \E e \in Range(facility.basins[i].exceptions) :
         e.date = query.day.date /\ ~e.closed /\ e.sessions = <<>>
  /\ d.kind = "open" /\ d.unverified =>
       Context(calendar, query.day).holiday /\ facility.policy = "unstated" /\ d.sessions # <<>>
  /\ d.kind = "open" /\ Context(calendar, query.day).holiday
       /\ (\A e \in Range(facility.basins[i].exceptions) : e.date # query.day.date) =>
       facility.policy # "closed" /\ (facility.policy = "unstated" => d.unverified)

LEMMA BasinFacts ==
  ASSUME NEW query, NEW facility \in Facility, NEW calendar, NEW i \in DOMAIN facility.basins
  PROVE  BasinTold(BasinDay(query, facility, calendar, i), query, facility, calendar, i)
<1> DEFINE d == BasinDay(query, facility, calendar, i)
<1> DEFINE b == facility.basins[i]
<1>1. b.rules \in Seq(Rule) /\ b.exceptions \in Seq(Exception)
  <2>1. facility.basins \in Seq(Basin)
    BY DEF Facility
  <2>2. b \in Basin
    BY <2>1, SequenceIsList
  <2> QED
    BY <2>2 DEF Basin
<1>2. d = ResolveHours(facility, b.rules, b.exceptions, query.day, calendar)
  BY DEF BasinDay
<1> HIDE DEF d
<1>3. i \in Ruled(facility) => b.rules # <<>>
  BY DEF Ruled
<1>4. \A j \in DOMAIN b.exceptions : b.exceptions[j] \in Range(b.exceptions)
  BY DEF Range
<1>5. \A j \in Dated(b.exceptions, query.day) :
        j \in DOMAIN b.exceptions /\ b.exceptions[j].date = query.day.date
  BY DEF Dated
<1> HIDE DEF b
<1> DEFINE day == query.day
<1>6. /\ d.kind \in {"open", "closed", "unscheduled"}
      /\ ByClosure(facility, day) # Pass => d.kind = "closed"
      /\ d.kind = "unscheduled" => b.rules = <<>> /\ facility.season # NoSeason
      /\ d.kind = "open" => Timed(d.sessions)
      /\ d.kind = "open" /\ d.sessions = <<>> =>
           \E j \in Dated(b.exceptions, day) : ~b.exceptions[j].closed /\ b.exceptions[j].sessions = <<>>
      /\ d.kind = "open" /\ d.unverified =>
           Context(calendar, day).holiday /\ facility.policy = "unstated" /\ d.sessions # <<>>
      /\ d.kind = "open" /\ Context(calendar, day).holiday /\ Dated(b.exceptions, day) = {} =>
           facility.policy # "closed" /\ (facility.policy = "unstated" => d.unverified)
  <2>1. DayTold(ResolveHours(facility, b.rules, b.exceptions, day, calendar),
                facility, b.rules, b.exceptions, day, calendar)
    BY <1>1, DayFacts
  <2>2. DayTold(d, facility, b.rules, b.exceptions, day, calendar)
    BY <1>2, <2>1
  <2> QED
    BY <2>2, Zenon DEF DayTold
<1>7. i \in Ruled(facility) => d.kind \in {"open", "closed"}
  BY <1>3, <1>6
<1>8. (\A e \in Range(b.exceptions) : e.date # query.day.date) => Dated(b.exceptions, day) = {}
  BY <1>4, <1>5
<1>9. (\E j \in Dated(b.exceptions, day) : ~b.exceptions[j].closed /\ b.exceptions[j].sessions = <<>>)
        => \E e \in Range(b.exceptions) : e.date = query.day.date /\ ~e.closed /\ e.sessions = <<>>
  BY <1>4, <1>5, Zenon
<1>10. d.kind = "open" /\ d.sessions = <<>> =>
         \E e \in Range(b.exceptions) : e.date = query.day.date /\ ~e.closed /\ e.sessions = <<>>
  BY <1>6, <1>9, Zenon
<1>11. d.kind = "open" /\ Context(calendar, query.day).holiday
         /\ (\A e \in Range(b.exceptions) : e.date # query.day.date) =>
         facility.policy # "closed" /\ (facility.policy = "unstated" => d.unverified)
  BY <1>6, <1>8, Zenon
<1> QED
  <2>1. BasinTold(d, query, facility, calendar, i)
    BY <1>6, <1>7, <1>10, <1>11, Zenon DEF b, BasinTold
  <2> QED
    BY <2>1 DEF d

(* A list that is not empty has a first and a last place.                  *)
LEMMA NotEmpty ==
  ASSUME NEW s, List(s)
  PROVE  /\ s = <<>> <=> DOMAIN s = {}
         /\ s # <<>> => 1 \in DOMAIN s /\ Len(s) \in DOMAIN s
<1>1. Len(s) \in Nat /\ DOMAIN s = 1..Len(s)
  BY Listing
<1>2. DOMAIN s = {} => s = <<>>
  BY DEF List
<1>3. DOMAIN s # {} => 1 \in DOMAIN s /\ Len(s) \in DOMAIN s
  BY <1>1
<1> QED
  BY <1>2, <1>3

(* The days of one kind, each a ruled basin's.                             *)
DaysOfKind(some, query, facility, calendar, kind) ==
  /\ List(some)
  /\ \A k \in DOMAIN some : \E i \in Ruled(facility) :
       /\ some[k].basin = facility.basins[i]
       /\ some[k].day = BasinDay(query, facility, calendar, i)
       /\ some[k].day.kind = kind
  /\ \A i \in Ruled(facility) : BasinDay(query, facility, calendar, i).kind = kind =>
       \E k \in DOMAIN some : some[k].day = BasinDay(query, facility, calendar, i)

(* Keeping the days of one kind keeps exactly those.                       *)
LEMMA DaysCalled ==
  ASSUME NEW query, NEW facility, List(facility.basins), NEW calendar,
         NEW days, days = BasinDays(query, facility, calendar), NEW kind,
         NEW some, some = Arranged(days, {<<0, k>> : k \in {j \in DOMAIN days : days[j].day.kind = kind}})
  PROVE  DaysOfKind(some, query, facility, calendar, kind)
<1> DEFINE I == {k \in DOMAIN days : days[k].day.kind = kind}
<1>1. /\ List(days)
      /\ \A k \in DOMAIN days : \E i \in Ruled(facility) :
           /\ days[k].basin = facility.basins[i]
           /\ days[k].day = BasinDay(query, facility, calendar, i)
      /\ \A i \in Ruled(facility) : \E k \in DOMAIN days :
           days[k].day = BasinDay(query, facility, calendar, i)
  BY BasinDaysTraced
<1>2. some = Arranged(days, {<<0, k>> : k \in I})
  OBVIOUS
<1>3. Keeps(some, days, I)
  <2>1. I \in SUBSET DOMAIN days
    OBVIOUS
  <2> HIDE DEF I
  <2> QED
    BY <1>1, <1>2, <2>1, KeptPlaces
<1>4. PICK at \in [DOMAIN some -> I] :
        /\ \A k \in DOMAIN some : some[k] = days[at[k]]
        /\ \A i \in I : \E k \in DOMAIN some : at[k] = i
  <2> HIDE DEF I
  <2> QED
    BY <1>3 DEF Keeps
<1>5. List(some)
  BY <1>3 DEF Keeps
<1>6. ASSUME NEW k \in DOMAIN some
      PROVE \E i \in Ruled(facility) : /\ some[k].basin = facility.basins[i]
                                       /\ some[k].day = BasinDay(query, facility, calendar, i)
                                       /\ some[k].day.kind = kind
  <2>1. at[k] \in DOMAIN days /\ days[at[k]].day.kind = kind /\ some[k] = days[at[k]]
    BY <1>4
  <2>2. PICK i \in Ruled(facility) : /\ days[at[k]].basin = facility.basins[i]
                                     /\ days[at[k]].day = BasinDay(query, facility, calendar, i)
    BY <1>1, <2>1
  <2> QED
    BY <2>1, <2>2
<1>7. ASSUME NEW i \in Ruled(facility), BasinDay(query, facility, calendar, i).kind = kind
      PROVE \E k \in DOMAIN some : some[k].day = BasinDay(query, facility, calendar, i)
  <2>1. PICK j \in DOMAIN days : days[j].day = BasinDay(query, facility, calendar, i)
    BY <1>1
  <2>2. j \in I
    BY <1>7, <2>1
  <2>3. PICK k \in DOMAIN some : at[k] = j
    BY <1>4, <2>2
  <2>4. some[k] = days[j]
    BY <1>4, <2>3
  <2> QED
    BY <2>1, <2>3, <2>4
<1>8. \A i \in Ruled(facility) : BasinDay(query, facility, calendar, i).kind = kind =>
        \E k \in DOMAIN some : some[k].day = BasinDay(query, facility, calendar, i)
  BY <1>7
<1>9. \A k \in DOMAIN some : \E i \in Ruled(facility) :
        /\ some[k].basin = facility.basins[i]
        /\ some[k].day = BasinDay(query, facility, calendar, i)
        /\ some[k].day.kind = kind
  BY <1>6
<1> HIDE DEF I
<1> QED
  BY <1>5, <1>8, <1>9 DEF DaysOfKind

(* An option is of its pool, at the pool's distance and with a start.      *)
Offer(option, query, facility) ==
  /\ option.pool = facility.id
  /\ option.distance = Distance(query, facility.geo)
  /\ option.session.time.start \in Nat

(* A pool has options exactly if a basin of it offers a session.           *)
LEMMA OptionsOfPool ==
  ASSUME NEW query, NEW facility \in Facility, NEW calendar,
         NEW options, options = PoolAnswer(query, facility, calendar).options
  PROVE  /\ List(options)
         /\ \A k \in DOMAIN options : Offer(options[k], query, facility)
         /\ options # <<>> <=> \E i \in Ruled(facility) : Offers(query, facility, calendar, i)
<1> DEFINE days == BasinDays(query, facility, calendar)
           open == Kept(days, LAMBDA d : d.day.kind = "open")
           seqs == [k \in DOMAIN open |-> [j \in DOMAIN open[k].day.sessions |->
                      SessionOption(query, facility, open[k].basin, open[k].day.sessions[j])]]
<1>1. options = FlattenSeq(seqs)
  BY DEF PoolAnswer, BasinDays, Mapped
<1>2. List(facility.basins)
  BY SequenceIsList DEF Facility
<1>3. /\ List(open)
      /\ \A k \in DOMAIN open : \E i \in Ruled(facility) :
           /\ open[k].basin = facility.basins[i]
           /\ open[k].day = BasinDay(query, facility, calendar, i)
           /\ open[k].day.kind = "open"
      /\ \A i \in Ruled(facility) : BasinDay(query, facility, calendar, i).kind = "open" =>
           \E k \in DOMAIN open : open[k].day = BasinDay(query, facility, calendar, i)
  <2> HIDE DEF days
  <2>1. open = Arranged(days, {<<0, k>> : k \in {j \in DOMAIN days : days[j].day.kind = "open"}})
    BY DEF Kept
  <2> HIDE DEF open
  <2>2. days = BasinDays(query, facility, calendar)
    BY DEF days
  <2>3. DaysOfKind(open, query, facility, calendar, "open")
    BY <1>2, <2>1, <2>2, DaysCalled
  <2> QED
    BY <2>3, Zenon DEF DaysOfKind
<1> HIDE DEF open
<1>4. ASSUME NEW k \in DOMAIN open PROVE Timed(open[k].day.sessions)
  <2>1. PICK i \in Ruled(facility) : /\ open[k].day = BasinDay(query, facility, calendar, i)
                                     /\ open[k].day.kind = "open"
    BY <1>3
  <2>2. i \in DOMAIN facility.basins
    BY DEF Ruled
  <2>3. BasinTold(open[k].day, query, facility, calendar, i)
    BY <2>1, <2>2, BasinFacts
  <2> QED
    BY <2>1, <2>3 DEF BasinTold
<1>5. DOMAIN seqs = DOMAIN open /\ List(seqs)
  BY <1>3 DEF List
<1>6. ASSUME NEW k \in DOMAIN open
      PROVE /\ DOMAIN seqs[k] = DOMAIN open[k].day.sessions
            /\ List(seqs[k])
            /\ \A j \in DOMAIN seqs[k] : Offer(seqs[k][j], query, facility)
  <2>1. DOMAIN seqs[k] = DOMAIN open[k].day.sessions /\ List(seqs[k])
    BY <1>4 DEF Timed, List
  <2>2. ASSUME NEW j \in DOMAIN seqs[k] PROVE Offer(seqs[k][j], query, facility)
    <3>1. seqs[k][j] = SessionOption(query, facility, open[k].basin, open[k].day.sessions[j])
      BY <2>1
    <3>2. open[k].day.sessions[j].time.start \in Nat
      BY <1>4, <2>1 DEF Timed
    <3> HIDE DEF seqs
    <3> QED
      BY <3>1, <3>2 DEF Offer, SessionOption
  <2> QED
    BY <2>1, <2>2
<1> HIDE DEF seqs
<1>7. Flattens(options, seqs, Len(seqs))
  BY <1>1, <1>5, <1>6, Flattened
<1>8. List(options)
  BY <1>7 DEF Flattens
<1>9. PICK at \in [DOMAIN options -> Spots(seqs, Len(seqs))] :
        /\ \A k \in DOMAIN options : options[k] = seqs[at[k][1]][at[k][2]]
        /\ \A p \in Spots(seqs, Len(seqs)) : \E k \in DOMAIN options : at[k] = p
  BY <1>7 DEF Flattens
<1>10. DOMAIN seqs = 1..Len(seqs) /\ Len(seqs) \in Nat
  BY <1>5, Listing
<1>11. \A k \in DOMAIN options :
         at[k][1] \in DOMAIN open /\ at[k][2] \in DOMAIN seqs[at[k][1]]
  BY <1>5, <1>9, <1>10 DEF Spots
<1>12. \A k \in DOMAIN options : Offer(options[k], query, facility)
  BY <1>6, <1>9, <1>11
<1>13. ASSUME options # <<>> PROVE \E i \in Ruled(facility) : Offers(query, facility, calendar, i)
  <2>1. 1 \in DOMAIN options
    BY <1>8, <1>13, NotEmpty
  <2> DEFINE k == at[1][1]
  <2>2. k \in DOMAIN open /\ DOMAIN open[k].day.sessions # {}
    BY <1>6, <1>11, <2>1
  <2>3. open[k].day.sessions # <<>>
    BY <2>2
  <2> HIDE DEF k
  <2> QED
    BY <1>3, <2>2, <2>3 DEF Offers
<1>14. ASSUME NEW i \in Ruled(facility), Offers(query, facility, calendar, i) PROVE options # <<>>
  <2>1. PICK k \in DOMAIN open : open[k].day = BasinDay(query, facility, calendar, i)
    BY <1>3, <1>14 DEF Offers
  <2>2. 1 \in DOMAIN seqs[k]
    <3>1. List(open[k].day.sessions) /\ open[k].day.sessions # <<>>
      BY <1>4, <1>14, <2>1 DEF Offers, Timed
    <3> QED
      BY <1>6, <3>1, NotEmpty
  <2>3. <<k, 1>> \in Spots(seqs, Len(seqs))
    BY <1>5, <1>10, <2>2 DEF Spots
  <2>4. DOMAIN options # {}
    BY <1>9, <2>3
  <2> QED
    BY <1>8, <2>4, NotEmpty
<1> QED
  BY <1>8, <1>12, <1>13, <1>14

(* A status is of its pool, at the pool's distance.                        *)
Told(statuses, query, facility) ==
  \/ statuses = <<>>
  \/ \E reason, status : statuses = <<Status(facility.id, status, reason, Distance(query, facility.geo))>>

(* A season speaks for a pool without rules, and for no other.             *)
LEMMA SeasonTells ==
  ASSUME NEW query, NEW facility, NEW calendar,
         NEW statuses, statuses = SeasonalStatus(query, facility, calendar)
  PROVE  /\ Told(statuses, query, facility)
         /\ statuses # <<>> <=> facility.season # NoSeason /\ ~Scheduled(facility)
<1> DEFINE day == ResolveHours(facility, <<>>, <<>>, query.day, calendar)
           at == Distance(query, facility.geo)
<1>1. statuses = IF facility.season = NoSeason \/ Scheduled(facility) THEN <<>>
                 ELSE IF day.kind = "closed" THEN <<Status(facility.id, "closed", day.reason, at)>>
                 ELSE <<Status(facility.id, "open_unscheduled", Code(day.weather), at)>>
  BY DEF SeasonalStatus
<1> HIDE DEF day
<1>2. \A x : <<x>> # <<>>
  OBVIOUS
<1> QED
  BY <1>1, <1>2 DEF Told

(* A pool is scheduled if one of its basins has rules.                     *)
LEMMA ScheduledIsRuled ==
  ASSUME NEW facility
  PROVE  Scheduled(facility) <=> Ruled(facility) # {}
  BY DEF Scheduled, Ruled

(* A pool is said to be closed if a basin is and none offers a session.    *)
LEMMA ClosureTells ==
  ASSUME NEW query, NEW facility, List(facility.basins), NEW calendar,
         NEW days, days = BasinDays(query, facility, calendar),
         NEW statuses, statuses = ClosedStatus(query, facility, days)
  PROVE  /\ Told(statuses, query, facility)
         /\ statuses # <<>> <=>
              /\ ~ \E i \in Ruled(facility) : Offers(query, facility, calendar, i)
              /\ \E i \in Ruled(facility) : BasinDay(query, facility, calendar, i).kind = "closed"
<1> DEFINE closed == Kept(days, LAMBDA d : d.day.kind = "closed")
           produced == \E i \in DOMAIN days : days[i].day.kind = "open" /\ days[i].day.sessions # <<>>
           at == Distance(query, facility.geo)
<1>1. statuses = IF produced \/ closed = <<>> THEN <<>>
                 ELSE <<Status(facility.id, "closed", Last(closed).day.reason, at)>>
  BY DEF ClosedStatus
<1>2. DaysOfKind(closed, query, facility, calendar, "closed")
  <2>1. closed = Arranged(days, {<<0, k>> : k \in {j \in DOMAIN days : days[j].day.kind = "closed"}})
    BY DEF Kept
  <2> HIDE DEF closed
  <2> QED
    BY <2>1, DaysCalled
<1> HIDE DEF closed
<1>3. closed # <<>> <=> \E i \in Ruled(facility) : BasinDay(query, facility, calendar, i).kind = "closed"
  <2>1. List(closed)
    BY <1>2 DEF DaysOfKind
  <2>2. ASSUME closed # <<>>
        PROVE \E i \in Ruled(facility) : BasinDay(query, facility, calendar, i).kind = "closed"
    <3>1. 1 \in DOMAIN closed
      BY <2>1, <2>2, NotEmpty
    <3>2. PICK i \in Ruled(facility) : /\ closed[1].day = BasinDay(query, facility, calendar, i)
                                       /\ closed[1].day.kind = "closed"
      BY <1>2, <3>1 DEF DaysOfKind
    <3> QED
      BY <3>2
  <2>3. ASSUME NEW i \in Ruled(facility), BasinDay(query, facility, calendar, i).kind = "closed"
        PROVE closed # <<>>
    <3>1. PICK k \in DOMAIN closed : TRUE
      BY <1>2, <2>3 DEF DaysOfKind
    <3> QED
      BY <2>1, <3>1, NotEmpty
  <2> QED
    BY <2>2, <2>3
<1>4. produced <=> \E i \in Ruled(facility) : Offers(query, facility, calendar, i)
  <2>1. /\ \A k \in DOMAIN days : \E i \in Ruled(facility) :
              days[k].day = BasinDay(query, facility, calendar, i)
        /\ \A i \in Ruled(facility) : \E k \in DOMAIN days :
              days[k].day = BasinDay(query, facility, calendar, i)
    BY BasinDaysTraced
  <2>2. ASSUME NEW k \in DOMAIN days, days[k].day.kind = "open", days[k].day.sessions # <<>>
        PROVE \E i \in Ruled(facility) : Offers(query, facility, calendar, i)
    <3>1. PICK i \in Ruled(facility) : days[k].day = BasinDay(query, facility, calendar, i)
      BY <2>1
    <3> QED
      BY <2>2, <3>1 DEF Offers
  <2>3. ASSUME NEW i \in Ruled(facility), Offers(query, facility, calendar, i) PROVE produced
    <3>1. PICK k \in DOMAIN days : days[k].day = BasinDay(query, facility, calendar, i)
      BY <2>1
    <3> QED
      BY <2>3, <3>1 DEF Offers
  <2> QED
    BY <2>2, <2>3
<1> HIDE DEF produced
<1>5. \A x : <<x>> # <<>>
  OBVIOUS
<1> QED
  BY <1>1, <1>3, <1>4, <1>5 DEF Told

(* A pool has at most one status, and when it has one.                     *)
LEMMA StatusesOfPool ==
  ASSUME NEW query, NEW facility \in Facility, NEW calendar,
         NEW statuses, statuses = PoolAnswer(query, facility, calendar).statuses
  PROVE  /\ Told(statuses, query, facility)
         /\ statuses # <<>> <=>
              \/ facility.season # NoSeason /\ ~Scheduled(facility)
              \/ /\ ~ \E i \in Ruled(facility) : Offers(query, facility, calendar, i)
                 /\ \E i \in Ruled(facility) : BasinDay(query, facility, calendar, i).kind = "closed"
<1> DEFINE season == SeasonalStatus(query, facility, calendar)
           closure == ClosedStatus(query, facility, BasinDays(query, facility, calendar))
<1>1. statuses = season \o closure
  BY DEF PoolAnswer, BasinDays
<1>2. List(facility.basins)
  BY SequenceIsList DEF Facility
<1>3. /\ Told(season, query, facility)
      /\ season # <<>> <=> facility.season # NoSeason /\ ~Scheduled(facility)
  BY SeasonTells
<1>4. /\ Told(closure, query, facility)
      /\ closure # <<>> <=>
           /\ ~ \E i \in Ruled(facility) : Offers(query, facility, calendar, i)
           /\ \E i \in Ruled(facility) : BasinDay(query, facility, calendar, i).kind = "closed"
  BY <1>2, ClosureTells
<1> HIDE DEF season, closure
<1>5. season = <<>> \/ closure = <<>>
  BY <1>3, <1>4, ScheduledIsRuled
<1>6. \A x : <<x>> \o <<>> = <<x>> /\ <<>> \o <<x>> = <<x>>
  OBVIOUS
<1>7. season = <<>> => statuses = closure
  BY <1>1, <1>4, <1>6 DEF Told
<1>8. closure = <<>> => statuses = season
  BY <1>1, <1>3, <1>6 DEF Told
<1>9. CASE season = <<>>
  BY <1>3, <1>4, <1>7, <1>9, Zenon
<1>10. CASE closure = <<>>
  BY <1>3, <1>4, <1>8, <1>10, Zenon
<1> QED
  BY <1>5, <1>9, <1>10

(* A dated exception that opens a basin and names no session.              *)
Hollow(query, facility) ==
  \E b \in Range(facility.basins) : \E e \in Range(b.exceptions) :
    e.date = query.day.date /\ ~e.closed /\ e.sessions = <<>>

(* What a pool answers: options or a status, and neither only of a pool    *)
(* that has no hours, or an open day without a session.                    *)
LEMMA PoolAnswers ==
  ASSUME NEW query, NEW facility \in Facility, NEW calendar,
         NEW a, a = PoolAnswer(query, facility, calendar)
  PROVE  /\ List(a.options) /\ \A k \in DOMAIN a.options : Offer(a.options[k], query, facility)
         /\ Told(a.statuses, query, facility)
         /\ a.options # <<>> => Scheduled(facility) /\ a.statuses = <<>>
         /\ a.statuses # <<>> => Scheduled(facility) \/ facility.season # NoSeason
         /\ a.options = <<>> /\ a.statuses = <<>> =>
              Hollow(query, facility) \/ (~Scheduled(facility) /\ facility.season = NoSeason)
         /\ ByClosure(facility, query.day) # Pass => a.options = <<>>
<1>1. /\ List(a.options) /\ \A k \in DOMAIN a.options : Offer(a.options[k], query, facility)
      /\ a.options # <<>> <=> \E i \in Ruled(facility) : Offers(query, facility, calendar, i)
  BY OptionsOfPool
<1>2. /\ Told(a.statuses, query, facility)
      /\ a.statuses # <<>> <=>
           \/ facility.season # NoSeason /\ ~Scheduled(facility)
           \/ /\ ~ \E i \in Ruled(facility) : Offers(query, facility, calendar, i)
              /\ \E i \in Ruled(facility) : BasinDay(query, facility, calendar, i).kind = "closed"
  BY StatusesOfPool
<1>3. a.options # <<>> => Scheduled(facility) /\ a.statuses = <<>>
  BY <1>1, <1>2, ScheduledIsRuled
<1>4. a.statuses # <<>> => Scheduled(facility) \/ facility.season # NoSeason
  BY <1>2, ScheduledIsRuled
<1>5. ASSUME NEW i \in Ruled(facility) PROVE i \in DOMAIN facility.basins
  BY DEF Ruled
<1>6. ASSUME a.options = <<>>, a.statuses = <<>>, Scheduled(facility)
      PROVE Hollow(query, facility)
  <2>1. PICK i \in Ruled(facility) : TRUE
    BY <1>6, ScheduledIsRuled
  <2> DEFINE d == BasinDay(query, facility, calendar, i)
  <2>2. d.kind = "open" /\ d.sessions = <<>>
    <3>1. d.kind \in {"open", "closed"}
      BY <1>5, <2>1, BasinFacts DEF BasinTold
    <3> QED
      BY <1>1, <1>2, <1>6, <2>1, <3>1 DEF Offers
  <2>3. \E e \in Range(facility.basins[i].exceptions) :
          e.date = query.day.date /\ ~e.closed /\ e.sessions = <<>>
    BY <1>5, <2>1, <2>2, BasinFacts DEF BasinTold
  <2>4. facility.basins[i] \in Range(facility.basins)
    BY <1>5, <2>1 DEF Range
  <2> QED
    BY <2>3, <2>4 DEF Hollow
<1>7. a.options = <<>> /\ a.statuses = <<>> =>
        Hollow(query, facility) \/ (~Scheduled(facility) /\ facility.season = NoSeason)
  BY <1>2, <1>6
<1>8. ASSUME ByClosure(facility, query.day) # Pass PROVE a.options = <<>>
  <2>1. \A i \in Ruled(facility) : BasinDay(query, facility, calendar, i).kind = "closed"
    BY <1>5, <1>8, BasinFacts DEF BasinTold
  <2> QED
    BY <1>1, <2>1 DEF Offers
<1> QED
  BY <1>1, <1>2, <1>3, <1>4, <1>7, <1>8, Zenon

(* When the hours of a pool are said to be unconfirmed.                    *)
LEMMA PoolVouches ==
  ASSUME NEW query, NEW facility \in Facility, NEW calendar,
         NEW a, a = PoolAnswer(query, facility, calendar)
  PROVE  /\ a.unverified => /\ Context(calendar, query.day).holiday
                            /\ facility.policy = "unstated"
                            /\ a.options # <<>>
         /\ Context(calendar, query.day).holiday /\ a.options # <<>>
              /\ (\A b \in Range(facility.basins) : \A e \in Range(b.exceptions) : e.date # query.day.date) =>
              facility.policy # "closed" /\ (facility.policy = "unstated" => a.unverified)
<1> DEFINE days == BasinDays(query, facility, calendar)
           open == Kept(days, LAMBDA d : d.day.kind = "open")
           D(i) == BasinDay(query, facility, calendar, i)
           holiday == Context(calendar, query.day).holiday
<1>1. a.options # <<>> <=> \E i \in Ruled(facility) : Offers(query, facility, calendar, i)
  BY OptionsOfPool
<1>2. a.unverified <=> \E k \in DOMAIN open : open[k].day.unverified
  <2>1. a.unverified = \E k \in DOMAIN open : open[k].day.unverified
    BY Zenon DEF PoolAnswer, BasinDays
  <2> QED
    BY <2>1, Zenon
<1>3. DaysOfKind(open, query, facility, calendar, "open")
  <2>1. days = BasinDays(query, facility, calendar) /\ List(facility.basins)
    BY SequenceIsList DEF Facility
  <2> HIDE DEF days
  <2>2. open = Arranged(days, {<<0, k>> : k \in {j \in DOMAIN days : days[j].day.kind = "open"}})
    BY DEF Kept
  <2> HIDE DEF open
  <2> QED
    BY <2>1, <2>2, DaysCalled
<1> HIDE DEF open
<1>4. ASSUME NEW i \in Ruled(facility) PROVE i \in DOMAIN facility.basins
  BY DEF Ruled
<1>5. ASSUME NEW i \in Ruled(facility), D(i).kind = "open", D(i).unverified
      PROVE holiday /\ facility.policy = "unstated" /\ a.options # <<>>
  <2>1. holiday /\ facility.policy = "unstated" /\ D(i).sessions # <<>>
    BY <1>4, <1>5, BasinFacts DEF BasinTold
  <2> QED
    BY <1>1, <1>5, <2>1 DEF Offers
<1>6. ASSUME a.unverified PROVE holiday /\ facility.policy = "unstated" /\ a.options # <<>>
  <2>1. PICK k \in DOMAIN open : open[k].day.unverified
    BY <1>2, <1>6
  <2>2. PICK i \in Ruled(facility) : open[k].day = D(i) /\ open[k].day.kind = "open"
    BY <1>3, Zenon DEF DaysOfKind
  <2>3. D(i).unverified
    BY <2>1, <2>2, Zenon
  <2> QED
    BY <1>5, <2>2, <2>3
<1>7. ASSUME holiday, a.options # <<>>,
             \A b \in Range(facility.basins) : \A e \in Range(b.exceptions) : e.date # query.day.date
      PROVE facility.policy # "closed" /\ (facility.policy = "unstated" => a.unverified)
  <2>1. PICK i \in Ruled(facility) : Offers(query, facility, calendar, i)
    BY <1>1, <1>7
  <2>2. facility.basins[i] \in Range(facility.basins)
    BY <1>4 DEF Range
  <2>3. facility.policy # "closed" /\ (facility.policy = "unstated" => D(i).unverified)
    BY <1>4, <1>7, <2>1, <2>2, BasinFacts DEF Offers, BasinTold
  <2>4. PICK k \in DOMAIN open : open[k].day = D(i)
    BY <1>3, <2>1 DEF DaysOfKind, Offers
  <2>5. D(i).unverified => a.unverified
    BY <1>2, <2>4, Zenon
  <2> QED
    BY <2>3, <2>5, Zenon
<1> QED
  BY <1>6, <1>7, Zenon

-----------------------------------------------------------------------------
(* The board                                                               *)

(* Sorting keeps every element, once.                                      *)
LEMMA SortingPermutes ==
  ASSUME NEW s, List(s), NEW key \in [DOMAIN s -> Int], NEW t, Sorts(t, s, key)
  PROVE  Permutes(t, s)
<1>1. PICK at \in [DOMAIN s -> DOMAIN s] :
        /\ \A k \in DOMAIN s : t[k] = s[at[k]]
        /\ \A i \in DOMAIN s : \E k \in DOMAIN s : at[k] = i
        /\ \A j, k \in DOMAIN s : j < k =>
             key[at[j]] < key[at[k]] \/ (key[at[j]] = key[at[k]] /\ at[j] < at[k])
  BY Zenon DEF Sorts
<1>2. DOMAIN s = 1..Len(s) /\ Len(s) \in Nat
  BY Listing
<1>3. ASSUME NEW j \in DOMAIN s, NEW k \in DOMAIN s, at[j] = at[k], j < k PROVE FALSE
  <2>1. key[at[k]] \in Int /\ at[k] \in Int
    BY <1>2
  <2>2. key[at[k]] < key[at[k]] \/ at[k] < at[k]
    BY <1>1, <1>3
  <2> QED
    BY <2>1, <2>2
<1>4. \A j, k \in DOMAIN s : at[j] = at[k] => j = k
  <2> SUFFICES ASSUME NEW j \in DOMAIN s, NEW k \in DOMAIN s, at[j] = at[k] PROVE j = k
    OBVIOUS
  <2>1. j < k \/ k < j \/ j = k
    BY <1>2
  <2> QED
    BY <1>3, <2>1
<1>5. List(t) /\ DOMAIN t = DOMAIN s
  BY DEF Sorts
<1> QED
  BY <1>1, <1>4, <1>5 DEF Permutes

(* Two permutations are one.                                               *)
LEMMA PermutingTwice ==
  ASSUME NEW s, NEW t, NEW u, Permutes(t, s), Permutes(u, t)
  PROVE  Permutes(u, s)
<1>1. PICK at \in [DOMAIN s -> DOMAIN s] :
        /\ \A k \in DOMAIN s : t[k] = s[at[k]]
        /\ \A i \in DOMAIN s : \E k \in DOMAIN s : at[k] = i
        /\ \A j, k \in DOMAIN s : at[j] = at[k] => j = k
  BY DEF Permutes
<1>2. PICK to \in [DOMAIN s -> DOMAIN s] :
        /\ \A k \in DOMAIN s : u[k] = t[to[k]]
        /\ \A i \in DOMAIN s : \E k \in DOMAIN s : to[k] = i
        /\ \A j, k \in DOMAIN s : to[j] = to[k] => j = k
  <2>1. DOMAIN t = DOMAIN s
    BY DEF Permutes
  <2>2. PICK to \in [DOMAIN t -> DOMAIN t] :
          /\ \A k \in DOMAIN t : u[k] = t[to[k]]
          /\ \A i \in DOMAIN t : \E k \in DOMAIN t : to[k] = i
          /\ \A j, k \in DOMAIN t : to[j] = to[k] => j = k
    BY DEF Permutes
  <2>3. to \in [DOMAIN s -> DOMAIN s]
    BY <2>1
  <2>4. /\ \A k \in DOMAIN s : u[k] = t[to[k]]
        /\ \A i \in DOMAIN s : \E k \in DOMAIN s : to[k] = i
        /\ \A j, k \in DOMAIN s : to[j] = to[k] => j = k
    BY <2>1, <2>2
  <2> QED
    BY <2>3, <2>4
<1> DEFINE by == [k \in DOMAIN s |-> at[to[k]]]
<1>3. by \in [DOMAIN s -> DOMAIN s]
  OBVIOUS
<1>4. \A k \in DOMAIN s : u[k] = s[by[k]]
  BY <1>1, <1>2
<1>5. ASSUME NEW i \in DOMAIN s PROVE \E k \in DOMAIN s : by[k] = i
  <2>1. PICK j \in DOMAIN s : at[j] = i
    BY <1>1
  <2>2. PICK k \in DOMAIN s : to[k] = j
    BY <1>2
  <2>3. by[k] = i
    BY <2>1, <2>2
  <2> QED
    BY <2>3
<1>6. \A j, k \in DOMAIN s : by[j] = by[k] => j = k
  <2> SUFFICES ASSUME NEW j \in DOMAIN s, NEW k \in DOMAIN s, by[j] = by[k] PROVE j = k
    OBVIOUS
  <2>1. to[j] \in DOMAIN s /\ to[k] \in DOMAIN s /\ at[to[j]] = at[to[k]]
    OBVIOUS
  <2>2. to[j] = to[k]
    BY <1>1, <2>1
  <2> QED
    BY <1>2, <2>2
<1>7. List(u) /\ List(s) /\ DOMAIN u = DOMAIN s
  BY DEF Permutes
<1> HIDE DEF by
<1> QED
  BY <1>3, <1>4, <1>5, <1>6, <1>7 DEF Permutes

(* What has a place on the board: a pool and a distance, or none.          *)
Placed(entries) ==
  List(entries) /\ \A k \in DOMAIN entries :
    entries[k].pool \in Nat /\ entries[k].distance \in {Unknown} \cup Nat

(* A known distance and an unknown one are both ranked.                    *)
LEMMA RankIsInt == ASSUME NEW distance \in {Unknown} \cup Nat PROVE Rank(distance) \in Int
  BY DEF Rank, Far, Unknown

(* What can be placed can be placed in any order.                          *)
LEMMA PlacedPermute ==
  ASSUME NEW s, NEW t, Placed(s), Permutes(t, s)
  PROVE  Placed(t)
  BY DEF Placed, Permutes

(* In the order of their pools.                                            *)
LEMMA PoolsInOrder ==
  ASSUME NEW s, Placed(s), NEW t, t = Arranged(s, {<<s[i].pool, i>> : i \in DOMAIN s})
  PROVE  /\ Permutes(t, s)
         /\ \A j, k \in DOMAIN s : j < k => t[j].pool <= t[k].pool
<1> DEFINE key == [i \in DOMAIN s |-> s[i].pool]
<1>1. key \in [DOMAIN s -> Int] /\ {<<key[i], i>> : i \in DOMAIN s} = {<<s[i].pool, i>> : i \in DOMAIN s}
  BY DEF Placed
<1>2. \A i \in DOMAIN s : key[i] = s[i].pool
  OBVIOUS
<1> HIDE DEF key
<1>3. List(s) /\ Sorts(t, s, key)
  BY <1>1, Sorting DEF Placed
<1>4. PICK at \in [DOMAIN s -> DOMAIN s] :
        /\ \A k \in DOMAIN s : t[k] = s[at[k]]
        /\ \A j, k \in DOMAIN s : j < k =>
             key[at[j]] < key[at[k]] \/ (key[at[j]] = key[at[k]] /\ at[j] < at[k])
  BY <1>3, Zenon DEF Sorts
<1>5. ASSUME NEW j \in DOMAIN s, NEW k \in DOMAIN s, j < k PROVE t[j].pool <= t[k].pool
  <2>1. key[at[j]] \in Int /\ key[at[k]] \in Int /\ t[j].pool = key[at[j]] /\ t[k].pool = key[at[k]]
    BY <1>1, <1>2, <1>4
  <2>2. key[at[j]] < key[at[k]] \/ key[at[j]] = key[at[k]]
    BY <1>4, <1>5
  <2> QED
    BY <2>1, <2>2
<1> QED
  BY <1>1, <1>3, <1>5, SortingPermutes

(* In the order of their distances, those of one distance as they stood.   *)
LEMMA DistancesInOrder ==
  ASSUME NEW s, Placed(s), NEW t, t = Arranged(s, {<<Rank(s[i].distance), i>> : i \in DOMAIN s})
  PROVE  /\ Permutes(t, s)
         /\ \E at \in [DOMAIN s -> DOMAIN s] :
              /\ \A k \in DOMAIN s : t[k] = s[at[k]]
              /\ \A j, k \in DOMAIN s : j < k =>
                   \/ Rank(t[j].distance) < Rank(t[k].distance)
                   \/ Rank(t[j].distance) = Rank(t[k].distance) /\ at[j] < at[k]
<1> DEFINE key == [i \in DOMAIN s |-> Rank(s[i].distance)]
<1>1. key \in [DOMAIN s -> Int]
      /\ {<<key[i], i>> : i \in DOMAIN s} = {<<Rank(s[i].distance), i>> : i \in DOMAIN s}
  BY RankIsInt DEF Placed
<1>2. \A i \in DOMAIN s : key[i] = Rank(s[i].distance)
  OBVIOUS
<1> HIDE DEF key
<1>3. List(s) /\ Sorts(t, s, key)
  BY <1>1, Sorting DEF Placed
<1>4. PICK at \in [DOMAIN s -> DOMAIN s] :
        /\ \A k \in DOMAIN s : t[k] = s[at[k]]
        /\ \A j, k \in DOMAIN s : j < k =>
             key[at[j]] < key[at[k]] \/ (key[at[j]] = key[at[k]] /\ at[j] < at[k])
  BY <1>3, Zenon DEF Sorts
<1>5. \A k \in DOMAIN s : Rank(t[k].distance) = key[at[k]]
  BY <1>2, <1>4
<1>6. \A j, k \in DOMAIN s : j < k =>
        \/ Rank(t[j].distance) < Rank(t[k].distance)
        \/ Rank(t[j].distance) = Rank(t[k].distance) /\ at[j] < at[k]
  BY <1>4, <1>5
<1> QED
  BY <1>1, <1>3, <1>4, <1>6, SortingPermutes

(* The order of the statuses: distance, then name.                         *)
LEMMA StatusesRanked ==
  ASSUME NEW statuses, Placed(statuses), NEW t, t = StatusOrder(statuses)
  PROVE  /\ Permutes(t, statuses)
         /\ \A j, k \in DOMAIN t : j < k =>
              \/ Rank(t[j].distance) < Rank(t[k].distance)
              \/ Rank(t[j].distance) = Rank(t[k].distance) /\ t[j].pool <= t[k].pool
<1> DEFINE named == Arranged(statuses, {<<statuses[i].pool, i>> : i \in DOMAIN statuses})
<1>1. t = Arranged(named, {<<Rank(named[i].distance), i>> : i \in DOMAIN named})
  BY DEF StatusOrder, SortedBy
<1>2. /\ Permutes(named, statuses)
      /\ \A j, k \in DOMAIN statuses : j < k => named[j].pool <= named[k].pool
  BY PoolsInOrder
<1> HIDE DEF named
<1>3. Placed(named) /\ DOMAIN named = DOMAIN statuses
  BY <1>2, PlacedPermute DEF Permutes
<1>4. Permutes(t, named)
  BY <1>1, <1>3, DistancesInOrder
<1>5. PICK at \in [DOMAIN named -> DOMAIN named] :
        /\ \A k \in DOMAIN named : t[k] = named[at[k]]
        /\ \A j, k \in DOMAIN named : j < k =>
             \/ Rank(t[j].distance) < Rank(t[k].distance)
             \/ Rank(t[j].distance) = Rank(t[k].distance) /\ at[j] < at[k]
  BY <1>1, <1>3, DistancesInOrder
<1>6. DOMAIN t = DOMAIN named
  BY <1>4 DEF Permutes
<1>7. ASSUME NEW j \in DOMAIN t, NEW k \in DOMAIN t, j < k
      PROVE \/ Rank(t[j].distance) < Rank(t[k].distance)
            \/ Rank(t[j].distance) = Rank(t[k].distance) /\ t[j].pool <= t[k].pool
  <2>1. at[j] < at[k] => t[j].pool <= t[k].pool
    BY <1>2, <1>3, <1>5, <1>6
  <2> QED
    BY <1>5, <1>6, <1>7, <2>1
<1> QED
  BY <1>2, <1>4, <1>7, PermutingTwice

(* The order of the options: distance, then name among those that start    *)
(* together.                                                               *)
LEMMA OptionsRanked ==
  ASSUME NEW options, Placed(options), \A k \in DOMAIN options : options[k].session.time.start \in Nat,
         NEW t, t = OptionOrder(options)
  PROVE  /\ Permutes(t, options)
         /\ \A j, k \in DOMAIN t : j < k =>
              \/ Rank(t[j].distance) < Rank(t[k].distance)
              \/ Rank(t[j].distance) = Rank(t[k].distance) /\ t[j].pool <= t[k].pool
              \/ t[j].session.time.start < t[k].session.time.start
<1> DEFINE named == Arranged(options, {<<options[i].pool, i>> : i \in DOMAIN options})
           timed == Arranged(named, {<<named[i].session.time.start, i>> : i \in DOMAIN named})
           key == [i \in DOMAIN named |-> named[i].session.time.start]
<1>1. t = Arranged(timed, {<<Rank(timed[i].distance), i>> : i \in DOMAIN timed})
  BY DEF OptionOrder, SortedBy
<1>2. /\ Permutes(named, options)
      /\ \A j, k \in DOMAIN options : j < k => named[j].pool <= named[k].pool
  BY PoolsInOrder
<1> HIDE DEF named
<1>3. Placed(named) /\ DOMAIN named = DOMAIN options
      /\ \A k \in DOMAIN named : named[k].session.time.start \in Nat
  BY <1>2, PlacedPermute DEF Permutes
<1>4. key \in [DOMAIN named -> Int]
      /\ {<<key[i], i>> : i \in DOMAIN named} = {<<named[i].session.time.start, i>> : i \in DOMAIN named}
  BY <1>3
<1>5. \A i \in DOMAIN named : key[i] = named[i].session.time.start
  OBVIOUS
<1> HIDE DEF key
<1>6. Sorts(timed, named, key) /\ List(named)
  BY <1>3, <1>4, Sorting DEF Placed
<1> HIDE DEF timed
<1>7. Permutes(timed, named)
  BY <1>4, <1>6, SortingPermutes
<1>8. PICK to \in [DOMAIN named -> DOMAIN named] :
        /\ \A k \in DOMAIN named : timed[k] = named[to[k]]
        /\ \A j, k \in DOMAIN named : j < k =>
             key[to[j]] < key[to[k]] \/ (key[to[j]] = key[to[k]] /\ to[j] < to[k])
  BY <1>6, Zenon DEF Sorts
<1>9. Placed(timed) /\ DOMAIN timed = DOMAIN named
  BY <1>3, <1>7, PlacedPermute DEF Permutes
<1>10. ASSUME NEW j \in DOMAIN named, NEW k \in DOMAIN named, j < k
       PROVE \/ timed[j].session.time.start < timed[k].session.time.start
             \/ timed[j].pool <= timed[k].pool
  <2>1. CASE key[to[j]] < key[to[k]]
    BY <1>5, <1>8, <2>1
  <2>2. CASE to[j] < to[k]
    BY <1>2, <1>3, <1>8, <2>2
  <2> QED
    BY <1>8, <1>10, <2>1, <2>2
<1>11. Permutes(t, timed)
  BY <1>1, <1>9, DistancesInOrder
<1>12. PICK at \in [DOMAIN timed -> DOMAIN timed] :
         /\ \A k \in DOMAIN timed : t[k] = timed[at[k]]
         /\ \A j, k \in DOMAIN timed : j < k =>
              \/ Rank(t[j].distance) < Rank(t[k].distance)
              \/ Rank(t[j].distance) = Rank(t[k].distance) /\ at[j] < at[k]
  BY <1>1, <1>9, DistancesInOrder
<1>13. DOMAIN t = DOMAIN named
  BY <1>9, <1>11 DEF Permutes
<1>14. ASSUME NEW j \in DOMAIN t, NEW k \in DOMAIN t, j < k
       PROVE \/ Rank(t[j].distance) < Rank(t[k].distance)
             \/ Rank(t[j].distance) = Rank(t[k].distance) /\ t[j].pool <= t[k].pool
             \/ t[j].session.time.start < t[k].session.time.start
  <2>1. at[j] < at[k] => \/ t[j].session.time.start < t[k].session.time.start
                         \/ t[j].pool <= t[k].pool
    BY <1>9, <1>10, <1>12, <1>13
  <2> QED
    BY <1>9, <1>12, <1>13, <1>14, <2>1
<1>15. Permutes(timed, options)
  BY <1>2, <1>7, PermutingTwice
<1> QED
  BY <1>11, <1>14, <1>15, PermutingTwice

(* Each of some sources speaks for its pool once.                          *)
Speaks(t, sources, pool) ==
  /\ Placed(t)
  /\ \E from \in [DOMAIN t -> sources] :
       /\ \A k \in DOMAIN t : t[k].pool = pool[from[k]]
       /\ \A p \in sources : \E k \in DOMAIN t : from[k] = p
       /\ \A j, k \in DOMAIN t : from[j] = from[k] => j = k

(* Who speaks is no matter of order.                                       *)
LEMMA SpeaksInAnyOrder ==
  ASSUME NEW s, NEW sources, NEW pool, Speaks(s, sources, pool), NEW t, Permutes(t, s)
  PROVE  Speaks(t, sources, pool)
<1>1. PICK from \in [DOMAIN s -> sources] :
        /\ \A k \in DOMAIN s : s[k].pool = pool[from[k]]
        /\ \A p \in sources : \E k \in DOMAIN s : from[k] = p
        /\ \A j, k \in DOMAIN s : from[j] = from[k] => j = k
  BY DEF Speaks
<1>2. PICK at \in [DOMAIN s -> DOMAIN s] :
        /\ \A k \in DOMAIN s : t[k] = s[at[k]]
        /\ \A i \in DOMAIN s : \E k \in DOMAIN s : at[k] = i
        /\ \A j, k \in DOMAIN s : at[j] = at[k] => j = k
  BY DEF Permutes
<1> DEFINE by == [k \in DOMAIN s |-> from[at[k]]]
<1>3. by \in [DOMAIN s -> sources] /\ \A k \in DOMAIN s : by[k] = from[at[k]]
  OBVIOUS
<1> HIDE DEF by
<1>4. \A k \in DOMAIN s : t[k].pool = pool[by[k]]
  BY <1>1, <1>2, <1>3
<1>5. ASSUME NEW p \in sources PROVE \E k \in DOMAIN s : by[k] = p
  <2>1. PICK j \in DOMAIN s : from[j] = p
    BY <1>1
  <2>2. PICK k \in DOMAIN s : at[k] = j
    BY <1>2
  <2> QED
    BY <1>3, <2>1, <2>2
<1>6. ASSUME NEW j \in DOMAIN s, NEW k \in DOMAIN s, by[j] = by[k] PROVE j = k
  <2>1. at[j] = at[k]
    BY <1>1, <1>2, <1>3, <1>6
  <2> QED
    BY <1>2, <2>1
<1>7. Placed(t) /\ DOMAIN t = DOMAIN s
  BY PlacedPermute DEF Speaks, Permutes
<1>8. /\ by \in [DOMAIN t -> sources]
      /\ \A k \in DOMAIN t : t[k].pool = pool[by[k]]
      /\ \A p \in sources : \E k \in DOMAIN t : by[k] = p
      /\ \A j, k \in DOMAIN t : by[j] = by[k] => j = k
  BY <1>3, <1>4, <1>5, <1>6, <1>7
<1> QED
  BY <1>7, <1>8 DEF Speaks

(* Two lists of different sources speak for both, one after the other.     *)
LEMMA SpeakTogether ==
  ASSUME NEW s, NEW t, NEW A, NEW B, NEW pool, A \cap B = {},
         Speaks(s, A, pool), Speaks(t, B, pool)
  PROVE  Speaks(s \o t, A \cup B, pool)
<1> DEFINE u == s \o t
<1>1. PICK f \in [DOMAIN s -> A] :
        /\ \A k \in DOMAIN s : s[k].pool = pool[f[k]]
        /\ \A p \in A : \E k \in DOMAIN s : f[k] = p
        /\ \A j, k \in DOMAIN s : f[j] = f[k] => j = k
  BY DEF Speaks
<1>2. PICK g \in [DOMAIN t -> B] :
        /\ \A k \in DOMAIN t : t[k].pool = pool[g[k]]
        /\ \A p \in B : \E k \in DOMAIN t : g[k] = p
        /\ \A j, k \in DOMAIN t : g[j] = g[k] => j = k
  BY DEF Speaks
<1>3. Placed(s) /\ Placed(t) /\ List(s) /\ List(t)
  BY DEF Speaks, Placed
<1>4. Joins(u, s, t)
  BY <1>3, Joined
<1> HIDE DEF u
<1>5. /\ List(u)
      /\ \A k \in DOMAIN s : k \in DOMAIN u /\ u[k] = s[k]
      /\ \A k \in DOMAIN t : Len(s) + k \in DOMAIN u /\ u[Len(s) + k] = t[k]
      /\ \A k \in DOMAIN u : k \in DOMAIN s \/ \E j \in DOMAIN t : k = Len(s) + j
  BY <1>4, Zenon DEF Joins
<1>6. Len(s) \in Nat /\ Len(t) \in Nat /\ DOMAIN s = 1..Len(s) /\ DOMAIN t = 1..Len(t)
  BY <1>3, Listing
<1> DEFINE h == [k \in DOMAIN u |-> IF k \in DOMAIN s THEN f[k] ELSE g[k - Len(s)]]
<1>7. ASSUME NEW k \in DOMAIN s PROVE k \in DOMAIN u /\ u[k] = s[k] /\ h[k] = f[k] /\ f[k] \in A
  BY <1>5
<1>8. ASSUME NEW j \in DOMAIN t
      PROVE /\ Len(s) + j \in DOMAIN u /\ Len(s) + j \notin DOMAIN s /\ u[Len(s) + j] = t[j]
            /\ h[Len(s) + j] = g[j] /\ g[j] \in B
  <2>1. Len(s) + j \in DOMAIN u /\ u[Len(s) + j] = t[j]
    BY <1>5, Zenon
  <2>2. Len(s) + j \notin DOMAIN s /\ (Len(s) + j) - Len(s) = j
    BY <1>6
  <2> QED
    BY <2>1, <2>2
<1> HIDE DEF h
<1>9. ASSUME NEW k \in DOMAIN u, k \notin DOMAIN s
      PROVE \E j \in DOMAIN t : k = Len(s) + j /\ u[k] = t[j] /\ h[k] = g[j] /\ g[j] \in B
  <2>1. PICK j \in DOMAIN t : k = Len(s) + j
    BY <1>5, <1>9
  <2>2. u[k] = t[j] /\ h[k] = g[j] /\ g[j] \in B
    BY <1>8, <2>1, Zenon
  <2> QED
    BY <2>1, <2>2
<1>10. h \in [DOMAIN u -> A \cup B]
  <2>1. \A k \in DOMAIN u : h[k] \in A \cup B
    BY <1>7, <1>9
  <2>2. h = [k \in DOMAIN u |-> h[k]]
    BY DEF h
  <2> QED
    BY <2>1, <2>2
<1>11. Placed(u) /\ \A k \in DOMAIN u : u[k].pool = pool[h[k]]
  <2>1. ASSUME NEW k \in DOMAIN u
        PROVE /\ u[k].pool = pool[h[k]]
              /\ u[k].pool \in Nat /\ u[k].distance \in {Unknown} \cup Nat
    <3>1. CASE k \in DOMAIN s
      BY <1>1, <1>3, <1>7, <3>1 DEF Placed
    <3>2. CASE k \notin DOMAIN s
      <4>1. PICK j \in DOMAIN t : u[k] = t[j] /\ h[k] = g[j]
        BY <1>9, <3>2
      <4> QED
        BY <1>2, <1>3, <4>1 DEF Placed
    <3> QED
      BY <3>1, <3>2
  <2> QED
    BY <1>5, <2>1 DEF Placed
<1>12. ASSUME NEW p \in A \cup B PROVE \E k \in DOMAIN u : h[k] = p
  <2>1. CASE p \in A
    BY <1>1, <1>7, <2>1
  <2>2. CASE p \in B
    <3>1. PICK j \in DOMAIN t : g[j] = p
      BY <1>2, <2>2
    <3>2. Len(s) + j \in DOMAIN u /\ h[Len(s) + j] = p
      BY <1>8, <3>1, Zenon
    <3> QED
      BY <3>2
  <2> QED
    BY <2>1, <2>2
<1>13. ASSUME NEW j \in DOMAIN u, NEW k \in DOMAIN u, h[j] = h[k] PROVE j = k
  <2>1. CASE j \in DOMAIN s /\ k \in DOMAIN s
    BY <1>1, <1>7, <1>13, <2>1
  <2>2. CASE j \notin DOMAIN s /\ k \notin DOMAIN s
    <3>1. PICK a \in DOMAIN t : j = Len(s) + a /\ h[j] = g[a]
      BY <1>9, <2>2
    <3>2. PICK b \in DOMAIN t : k = Len(s) + b /\ h[k] = g[b]
      BY <1>9, <2>2
    <3>3. a = b
      BY <1>2, <1>13, <3>1, <3>2
    <3> QED
      BY <3>1, <3>2, <3>3
  <2>3. \A m \in DOMAIN u : IF m \in DOMAIN s THEN h[m] \in A ELSE h[m] \in B
    BY <1>7, <1>9
  <2> QED
    BY <1>13, <2>1, <2>2, <2>3
<1>14. Speaks(u, A \cup B, pool)
  BY <1>10, <1>11, <1>12, <1>13 DEF Speaks
<1> QED
  BY <1>14 DEF u

ToldBy(told, sources, pool, id) ==
  /\ (\A p \in sources : pool[p] # id) => told = {}
  /\ \A p \in sources :
       pool[p] = id /\ (\A q \in sources : pool[q] = id => q = p) => Cardinality(told) = 1

(* A pool one source speaks for is spoken for once.                        *)
LEMMA SpokenOnce ==
  ASSUME NEW t, NEW sources, NEW pool, Speaks(t, sources, pool), NEW id
  PROVE  ToldBy({k \in DOMAIN t : t[k].pool = id}, sources, pool, id)
<1> DEFINE told == {k \in DOMAIN t : t[k].pool = id}
<1>1. PICK from \in [DOMAIN t -> sources] :
        /\ \A k \in DOMAIN t : t[k].pool = pool[from[k]]
        /\ \A p \in sources : \E k \in DOMAIN t : from[k] = p
        /\ \A j, k \in DOMAIN t : from[j] = from[k] => j = k
  BY DEF Speaks
<1>2. (\A p \in sources : pool[p] # id) => told = {}
  BY <1>1
<1>3. ASSUME NEW p \in sources, pool[p] = id, \A q \in sources : pool[q] = id => q = p
      PROVE Cardinality(told) = 1
  <2>1. PICK k \in DOMAIN t : from[k] = p
    BY <1>1
  <2>2. k \in told
    BY <1>1, <1>3, <2>1
  <2>3. \A j \in told : j = k
    BY <1>1, <1>3, <2>1
  <2>4. told = {k}
    BY <2>2, <2>3
  <2> QED
    BY <2>4, FS_Singleton
<1> QED
  BY <1>2, <1>3 DEF ToldBy

Reached(query, facilities) == {i \in DOMAIN facilities : InRadius(query, facilities[i])}

(* near holds the facilities in reach, each once.                          *)
InReach(near, query, facilities) ==
  /\ List(near)
  /\ \E at \in [DOMAIN near -> Reached(query, facilities)] :
       /\ \A k \in DOMAIN near : near[k] = facilities[at[k]]
       /\ \A i \in Reached(query, facilities) : \E k \in DOMAIN near : at[k] = i
       /\ \A j, k \in DOMAIN near : at[j] = at[k] => j = k

(* The loop meets the facilities in reach, each once.                      *)
LEMMA NearTraced ==
  ASSUME NEW query, NEW facilities \in Seq(Facility),
         NEW near, near = Arranged(facilities, {<<0, i>> : i \in Reached(query, facilities)})
  PROVE  InReach(near, query, facilities)
<1> DEFINE I == Reached(query, facilities)
<1>1. List(facilities) /\ I \in SUBSET DOMAIN facilities
  BY SequenceIsList DEF Reached
<1> HIDE DEF I
<1>2. Keeps(near, facilities, I)
  BY <1>1, KeptPlaces DEF I
<1>3. PICK at \in [DOMAIN near -> I] :
        /\ \A k \in DOMAIN near : near[k] = facilities[at[k]]
        /\ \A i \in I : \E k \in DOMAIN near : at[k] = i
        /\ \A j, k \in DOMAIN near : j < k => at[j] < at[k]
  BY <1>2 DEF Keeps
<1>4. List(near) /\ DOMAIN near = 1..Len(near) /\ Len(near) \in Nat
      /\ DOMAIN facilities = 1..Len(facilities) /\ Len(facilities) \in Nat
  BY <1>1, <1>2, Listing DEF Keeps
<1>5. ASSUME NEW j \in DOMAIN near, NEW k \in DOMAIN near, at[j] = at[k] PROVE j = k
  <2>1. at[j] \in Int /\ at[k] \in Int
    <3>1. at[j] \in DOMAIN facilities /\ at[k] \in DOMAIN facilities
      BY <1>1
    <3> QED
      BY <1>4, <3>1
  <2>2. j < k \/ k < j \/ j = k
    BY <1>4
  <2> QED
    BY <1>3, <1>5, <2>1, <2>2
<1> QED
  BY <1>3, <1>4, <1>5 DEF I, InReach

(* A distance is unknown or a number.                                      *)
LEMMA DistanceIsPlaced ==
  ASSUME NEW query, query.near \in {Unknown} \cup Nat, NEW geo \in {Unknown} \cup Nat
  PROVE  Distance(query, geo) \in {Unknown} \cup Nat
  BY DEF Distance, Unknown

(* Every option is one of a pool in reach, and every pool that has one is  *)
(* on the board.                                                           *)
Boarded(t, query, facilities, calendar) ==
  /\ \A k \in DOMAIN t : \E i \in Reached(query, facilities) :
       /\ t[k].pool = facilities[i].id
       /\ PoolAnswer(query, facilities[i], calendar).options # <<>>
  /\ \A i \in Reached(query, facilities) :
       PoolAnswer(query, facilities[i], calendar).options # <<>> =>
         \E k \in DOMAIN t : t[k].pool = facilities[i].id

(* Options start where they start, and are ranked.                         *)
OptionsInOrder(t) ==
  \A j, k \in DOMAIN t : j < k =>
    \/ Rank(t[j].distance) < Rank(t[k].distance)
    \/ Rank(t[j].distance) = Rank(t[k].distance) /\ t[j].pool <= t[k].pool
    \/ t[j].session.time.start < t[k].session.time.start

(* The options on the board are those of the pools in reach, ranked.       *)
LEMMA OptionsOfBoard ==
  ASSUME NEW query, query.near \in {Unknown} \cup Nat, NEW facilities \in Seq(Facility),
         NEW calendar, NEW roster,
         NEW t, t = FindSwimOptions(query, facilities, calendar, roster).options
  PROVE  Boarded(t, query, facilities, calendar) /\ OptionsInOrder(t)
<1> DEFINE I == Reached(query, facilities)
           near == Arranged(facilities, {<<0, i>> : i \in I})
           A(i) == PoolAnswer(query, facilities[i], calendar)
           seqs == [k \in DOMAIN near |-> PoolAnswer(query, near[k], calendar).options]
           base == FlattenSeq(seqs)
<1>1. t = OptionOrder(base)
  BY DEF FindSwimOptions, Mapped, Kept, Reached
<1>0. near = Arranged(facilities, {<<0, i>> : i \in I})
  OBVIOUS
<1> HIDE DEF near
<1>2. PICK at \in [DOMAIN near -> I] :
        /\ \A k \in DOMAIN near : near[k] = facilities[at[k]]
        /\ \A i \in I : \E k \in DOMAIN near : at[k] = i
  <2>1. InReach(near, query, facilities)
    BY <1>0, NearTraced
  <2> QED
    BY <2>1, Zenon DEF InReach
<1>3. List(near)
  BY <1>0, NearTraced DEF InReach
<1>4. \A i \in I : i \in DOMAIN facilities /\ facilities[i] \in Facility
  <2>1. \A i \in DOMAIN facilities : facilities[i] \in Facility
    BY SequenceIsList
  <2> QED
    BY <2>1 DEF Reached
<1> HIDE DEF I
<1>5. DOMAIN seqs = DOMAIN near /\ List(seqs)
  BY <1>3 DEF List
<1>6. \A k \in DOMAIN near : at[k] \in I /\ seqs[k] = A(at[k]).options
  BY <1>2
<1>7. \A i \in I : /\ List(A(i).options)
                   /\ \A j \in DOMAIN A(i).options : Offer(A(i).options[j], query, facilities[i])
  BY <1>4, PoolAnswers
<1> HIDE DEF seqs
<1>8. Flattens(base, seqs, Len(seqs))
  BY <1>5, <1>6, <1>7, Flattened
<1> HIDE DEF base
<1>9. PICK from \in [DOMAIN base -> Spots(seqs, Len(seqs))] :
        /\ \A k \in DOMAIN base : base[k] = seqs[from[k][1]][from[k][2]]
        /\ \A p \in Spots(seqs, Len(seqs)) : \E k \in DOMAIN base : from[k] = p
  BY <1>8 DEF Flattens
<1>10. DOMAIN seqs = 1..Len(seqs) /\ Len(seqs) \in Nat
  BY <1>5, Listing
<1>11. \A k \in DOMAIN base : from[k][1] \in DOMAIN near /\ from[k][2] \in DOMAIN seqs[from[k][1]]
  BY <1>5, <1>9, <1>10 DEF Spots
<1>12. ASSUME NEW k \in DOMAIN base
       PROVE \E i \in I : Offer(base[k], query, facilities[i]) /\ A(i).options # <<>>
  <2> DEFINE i == at[from[k][1]]
             j == from[k][2]
  <2>1. i \in I /\ j \in DOMAIN A(i).options /\ base[k] = A(i).options[j]
    BY <1>6, <1>9, <1>11
  <2> HIDE DEF i, j
  <2>2. A(i).options # <<>>
    BY <2>1
  <2> QED
    BY <1>7, <2>1, <2>2
<1>13. ASSUME NEW i \in I, A(i).options # <<>>
       PROVE \E k \in DOMAIN base : base[k].pool = facilities[i].id
  <2>1. 1 \in DOMAIN A(i).options
    BY <1>7, <1>13, NotEmpty
  <2>2. PICK a \in DOMAIN near : at[a] = i
    BY <1>2
  <2>3. a \in Nat /\ a \in 1..Len(seqs) /\ 1 \in DOMAIN seqs[a] /\ seqs[a] = A(i).options
    BY <1>5, <1>6, <1>10, <2>1, <2>2
  <2>4. <<a, 1>> \in Spots(seqs, Len(seqs))
    BY <2>3 DEF Spots
  <2>5. PICK k \in DOMAIN base : from[k] = <<a, 1>>
    BY <1>9, <2>4
  <2>6. base[k] = A(i).options[1]
    BY <1>9, <2>3, <2>5
  <2>7. Offer(base[k], query, facilities[i])
    BY <1>7, <2>1, <2>6
  <2> QED
    BY <2>7 DEF Offer
<1>14. Placed(base) /\ \A k \in DOMAIN base : base[k].session.time.start \in Nat
  <2>1. List(base)
    BY <1>8 DEF Flattens
  <2>2. \A i \in I : facilities[i].id \in Nat /\ Distance(query, facilities[i].geo) \in {Unknown} \cup Nat
    BY <1>4, DistanceIsPlaced DEF Facility
  <2> QED
    BY <1>12, <2>1, <2>2 DEF Placed, Offer
<1>15. /\ Permutes(t, base)
       /\ \A j, k \in DOMAIN t : j < k =>
            \/ Rank(t[j].distance) < Rank(t[k].distance)
            \/ Rank(t[j].distance) = Rank(t[k].distance) /\ t[j].pool <= t[k].pool
            \/ t[j].session.time.start < t[k].session.time.start
  BY <1>1, <1>14, OptionsRanked
<1>16. PICK to \in [DOMAIN base -> DOMAIN base] :
         /\ \A k \in DOMAIN base : t[k] = base[to[k]]
         /\ \A i \in DOMAIN base : \E k \in DOMAIN base : to[k] = i
  BY <1>15 DEF Permutes
<1>17. DOMAIN t = DOMAIN base
  BY <1>15 DEF Permutes
<1>18. ASSUME NEW k \in DOMAIN t
       PROVE \E i \in I : t[k].pool = facilities[i].id /\ A(i).options # <<>>
  BY <1>12, <1>16, <1>17 DEF Offer
<1>19. ASSUME NEW i \in I, A(i).options # <<>>
       PROVE \E k \in DOMAIN t : t[k].pool = facilities[i].id
  BY <1>13, <1>16, <1>17, <1>19
<1> QED
  BY <1>15, <1>18, <1>19 DEF I, Boarded, OptionsInOrder

(* Who speaks among the statuses: a pool in reach whose answer is one, or  *)
(* an entry of the roster nothing else has answered.                       *)
Tellers(query, facilities, calendar) ==
  {1} \X {i \in Reached(query, facilities) :
            PoolAnswer(query, facilities[i], calendar).statuses # <<>>}

Settled(facilities) ==
  {facilities[i].id : i \in {j \in DOMAIN facilities :
     Scheduled(facilities[j]) \/ facilities[j].season # NoSeason}}

Unsettled(facilities, roster) ==
  {r \in DOMAIN roster : roster[r].id \notin Settled(facilities) /\ roster[r].freshness # "scraped"}

Listeds(roster) ==
  List(roster) /\ \A r \in DOMAIN roster : roster[r].id \in Nat /\ roster[r].geo \in {Unknown} \cup Nat

PoolOf(facilities, roster) ==
  [p \in ({1} \X DOMAIN facilities) \cup ({2} \X DOMAIN roster) |->
     IF p[1] = 1 THEN facilities[p[2]].id ELSE roster[p[2]].id]

(* What a pool says of itself is its name and its distance.                *)
LEMMA ToldIsPlaced ==
  ASSUME NEW query, query.near \in {Unknown} \cup Nat, NEW facility \in Facility,
         NEW statuses, Told(statuses, query, facility)
  PROVE  /\ List(statuses)
         /\ statuses = <<>> => DOMAIN statuses = {}
         /\ statuses # <<>> => DOMAIN statuses = {1}
         /\ \A k \in DOMAIN statuses : /\ statuses[k].pool = facility.id
                                       /\ statuses[k].pool \in Nat
                                       /\ statuses[k].distance \in {Unknown} \cup Nat
<1>1. facility.id \in Nat /\ facility.geo \in {Unknown} \cup Nat
  BY DEF Facility
<1>2. Distance(query, facility.geo) \in {Unknown} \cup Nat
  BY <1>1, DistanceIsPlaced
<1>3. CASE statuses = <<>>
  <2>1. statuses \in Seq({}) /\ DOMAIN statuses = {}
    BY <1>3
  <2> QED
    BY <1>3, <2>1, SequenceIsList
<1>4. CASE \E reason, status : statuses = <<Status(facility.id, status, reason, Distance(query, facility.geo))>>
  <2>1. PICK reason, status : statuses = <<Status(facility.id, status, reason, Distance(query, facility.geo))>>
    BY <1>4
  <2> DEFINE st == Status(facility.id, status, reason, Distance(query, facility.geo))
  <2>2. st.pool = facility.id /\ st.distance = Distance(query, facility.geo)
    BY DEF Status
  <2> HIDE DEF st
  <2>3. statuses = <<st>>
    BY <2>1 DEF st
  <2>4. statuses \in Seq({st}) /\ DOMAIN statuses = {1} /\ statuses[1] = st /\ statuses # <<>>
    BY <2>3
  <2>5. List(statuses)
    BY <2>4, SequenceIsList
  <2> QED
    BY <1>1, <1>2, <2>2, <2>4, <2>5
<1> QED
  BY <1>3, <1>4 DEF Told

(* The statuses of the loop: one of each pool in reach that has one.       *)
LEMMA LoopSpeaks ==
  ASSUME NEW query, query.near \in {Unknown} \cup Nat, NEW facilities \in Seq(Facility),
         NEW calendar, NEW roster,
         NEW near, InReach(near, query, facilities),
         NEW seqs, seqs = [k \in DOMAIN near |-> PoolAnswer(query, near[k], calendar).statuses]
  PROVE  Speaks(FlattenSeq(seqs), Tellers(query, facilities, calendar), PoolOf(facilities, roster))
<1> DEFINE I == Reached(query, facilities)
           A(i) == PoolAnswer(query, facilities[i], calendar).statuses
           base == FlattenSeq(seqs)
           pool == PoolOf(facilities, roster)
           T == Tellers(query, facilities, calendar)
<1>1. PICK at \in [DOMAIN near -> I] :
        /\ \A k \in DOMAIN near : near[k] = facilities[at[k]]
        /\ \A i \in I : \E k \in DOMAIN near : at[k] = i
        /\ \A j, k \in DOMAIN near : at[j] = at[k] => j = k
  BY DEF InReach
<1>2. \A i \in I : i \in DOMAIN facilities /\ facilities[i] \in Facility
  <2>1. \A i \in DOMAIN facilities : facilities[i] \in Facility
    BY SequenceIsList
  <2> QED
    BY <2>1 DEF Reached
<1>3. DOMAIN seqs = DOMAIN near /\ List(seqs)
  BY DEF List, InReach
<1>4. \A k \in DOMAIN near : at[k] \in I /\ seqs[k] = A(at[k])
  BY <1>1
<1>5. ASSUME NEW i \in I
      PROVE /\ List(A(i))
            /\ A(i) = <<>> => DOMAIN A(i) = {}
            /\ A(i) # <<>> => DOMAIN A(i) = {1}
            /\ \A j \in DOMAIN A(i) : /\ A(i)[j].pool = facilities[i].id
                                      /\ A(i)[j].pool \in Nat
                                      /\ A(i)[j].distance \in {Unknown} \cup Nat
  <2>1. Told(A(i), query, facilities[i])
    BY <1>2, StatusesOfPool
  <2> QED
    BY <1>2, <2>1, ToldIsPlaced
<1>6. \A p : p \in T <=> \E i \in I : p = <<1, i>> /\ A(i) # <<>>
  BY DEF Tellers
<1>7. \A i \in I : pool[<<1, i>>] = facilities[i].id
  BY <1>2 DEF PoolOf
<1> HIDE DEF I, A, pool, T
<1>8. Flattens(base, seqs, Len(seqs))
  BY <1>3, <1>4, <1>5, Flattened
<1> HIDE DEF base
<1>9. PICK from \in [DOMAIN base -> Spots(seqs, Len(seqs))] :
        /\ \A k \in DOMAIN base : base[k] = seqs[from[k][1]][from[k][2]]
        /\ \A p \in Spots(seqs, Len(seqs)) : \E k \in DOMAIN base : from[k] = p
        /\ \A j, k \in DOMAIN base : from[j] = from[k] => j = k
  BY <1>8 DEF Flattens
<1>10. DOMAIN seqs = 1..Len(seqs) /\ Len(seqs) \in Nat
  BY <1>3, Listing
<1>11. ASSUME NEW k \in DOMAIN base
       PROVE /\ from[k][1] \in DOMAIN near
             /\ from[k] = <<from[k][1], 1>>
             /\ at[from[k][1]] \in I
             /\ A(at[from[k][1]]) # <<>>
             /\ base[k].pool = facilities[at[from[k][1]]].id
             /\ base[k].pool \in Nat
             /\ base[k].distance \in {Unknown} \cup Nat
  <2>1. from[k][1] \in DOMAIN near /\ from[k][2] \in DOMAIN seqs[from[k][1]]
        /\ from[k] = <<from[k][1], from[k][2]>>
    <3>1. from[k] \in Spots(seqs, Len(seqs))
      BY <1>9
    <3> QED
      BY <1>3, <1>10, <3>1 DEF Spots
  <2> DEFINE i == at[from[k][1]]
  <2>2. i \in I /\ seqs[from[k][1]] = A(i)
    BY <1>4, <2>1
  <2>3. A(i) # <<>> /\ from[k][2] = 1
    BY <1>5, <2>1, <2>2
  <2>4. base[k] = A(i)[1] /\ 1 \in DOMAIN A(i)
    BY <1>9, <2>1, <2>2, <2>3
  <2> HIDE DEF i
  <2>5. base[k].pool = facilities[i].id /\ base[k].pool \in Nat /\ base[k].distance \in {Unknown} \cup Nat
    BY <1>5, <2>2, <2>4
  <2> QED
    BY <2>1, <2>2, <2>3, <2>5 DEF i
<1> DEFINE by == [k \in DOMAIN base |-> <<1, at[from[k][1]]>>]
<1>12. by \in [DOMAIN base -> T] /\ \A k \in DOMAIN base : by[k] = <<1, at[from[k][1]]>>
  BY <1>6, <1>11
<1> HIDE DEF by
<1>13. \A k \in DOMAIN base : base[k].pool = pool[by[k]]
  BY <1>7, <1>11, <1>12
<1>14. ASSUME NEW p \in T PROVE \E k \in DOMAIN base : by[k] = p
  <2>1. PICK i \in I : p = <<1, i>> /\ A(i) # <<>>
    BY <1>6
  <2>2. PICK a \in DOMAIN near : at[a] = i
    BY <1>1
  <2>3. a \in Nat /\ a \in 1..Len(seqs) /\ 1 \in DOMAIN seqs[a]
    BY <1>3, <1>4, <1>5, <1>10, <2>1, <2>2
  <2>4. <<a, 1>> \in Spots(seqs, Len(seqs))
    BY <2>3 DEF Spots
  <2>5. PICK k \in DOMAIN base : from[k] = <<a, 1>>
    BY <1>9, <2>4
  <2>6. by[k] = <<1, i>>
    BY <1>12, <2>2, <2>5
  <2> QED
    BY <2>1, <2>6
<1>15. ASSUME NEW j \in DOMAIN base, NEW k \in DOMAIN base, by[j] = by[k] PROVE j = k
  <2>1. at[from[j][1]] = at[from[k][1]]
    BY <1>12, <1>15
  <2>2. from[j][1] = from[k][1]
    BY <1>1, <1>11, <2>1
  <2>3. from[j] = from[k]
    BY <1>11, <2>2
  <2> QED
    BY <1>9, <2>3
<1>16. Placed(base)
  BY <1>8, <1>11 DEF Placed, Flattens
<1>17. Speaks(base, T, pool)
  BY <1>12, <1>13, <1>14, <1>15, <1>16 DEF Speaks
<1> QED
  BY <1>17 DEF base, T, pool

(* The statuses of the roster: one of each pool nothing else answers for.  *)
LEMMA RosterSpeaks ==
  ASSUME NEW query, query.near \in {Unknown} \cup Nat, NEW facilities, NEW roster, Listeds(roster)
  PROVE  Speaks(ScheduleLess(query, facilities, roster), {2} \X Unsettled(facilities, roster),
                PoolOf(facilities, roster))
<1> DEFINE I == Unsettled(facilities, roster)
           rest == Arranged(roster, {<<0, i>> : i \in I})
           t == [k \in DOMAIN rest |->
                   Status(rest[k].id, rest[k].freshness, Code(rest[k].freshness), Distance(query, rest[k].geo))]
           pool == PoolOf(facilities, roster)
<1>1. ScheduleLess(query, facilities, roster) = t
  BY DEF ScheduleLess, Mapped, Kept, Unsettled, Settled
<1>2. List(roster) /\ I \in SUBSET DOMAIN roster
  BY DEF Listeds, Unsettled
<1>3. \A r \in I : pool[<<2, r>>] = roster[r].id
  BY <1>2 DEF PoolOf
<1> HIDE DEF I
<1>4. Keeps(rest, roster, I)
  BY <1>2, KeptPlaces
<1> HIDE DEF rest
<1>5. PICK at \in [DOMAIN rest -> I] :
        /\ \A k \in DOMAIN rest : rest[k] = roster[at[k]]
        /\ \A i \in I : \E k \in DOMAIN rest : at[k] = i
        /\ \A j, k \in DOMAIN rest : j < k => at[j] < at[k]
  BY <1>4 DEF Keeps
<1>6. List(rest) /\ DOMAIN rest = 1..Len(rest) /\ Len(rest) \in Nat
      /\ DOMAIN roster = 1..Len(roster) /\ Len(roster) \in Nat
  BY <1>2, <1>4, Listing DEF Keeps
<1>7. \A k \in DOMAIN rest : at[k] \in I /\ at[k] \in DOMAIN roster /\ at[k] \in Int
  <2>1. \A k \in DOMAIN rest : at[k] \in I /\ at[k] \in DOMAIN roster
    BY <1>2, <1>5
  <2> QED
    BY <1>6, <2>1
<1>8. DOMAIN t = DOMAIN rest /\ List(t)
  BY <1>6 DEF List
<1>9. ASSUME NEW k \in DOMAIN t
      PROVE /\ t[k].pool = roster[at[k]].id
            /\ t[k].pool \in Nat
            /\ t[k].distance \in {Unknown} \cup Nat
  <2>1. t[k].pool = rest[k].id /\ t[k].distance = Distance(query, rest[k].geo)
    BY <1>8 DEF Status
  <2>2. rest[k] = roster[at[k]] /\ at[k] \in DOMAIN roster
    BY <1>5, <1>7, <1>8
  <2>3. roster[at[k]].id \in Nat /\ roster[at[k]].geo \in {Unknown} \cup Nat
    BY <2>2 DEF Listeds
  <2> QED
    BY <2>1, <2>2, <2>3, DistanceIsPlaced
<1> HIDE DEF t, pool
<1> DEFINE by == [k \in DOMAIN t |-> <<2, at[k]>>]
<1>10. by \in [DOMAIN t -> {2} \X I] /\ \A k \in DOMAIN t : by[k] = <<2, at[k]>>
  BY <1>7, <1>8
<1> HIDE DEF by
<1>11. \A k \in DOMAIN t : t[k].pool = pool[by[k]]
  BY <1>3, <1>7, <1>8, <1>9, <1>10
<1>12. ASSUME NEW p \in {2} \X I PROVE \E k \in DOMAIN t : by[k] = p
  <2>1. PICK i \in I : p = <<2, i>>
    OBVIOUS
  <2>2. PICK k \in DOMAIN t : at[k] = i
    BY <1>5, <1>8
  <2> QED
    BY <1>10, <2>1, <2>2
<1>13. ASSUME NEW j \in DOMAIN t, NEW k \in DOMAIN t, by[j] = by[k] PROVE j = k
  <2>1. at[j] = at[k] /\ at[j] \in Int /\ at[k] \in Int
    BY <1>7, <1>8, <1>10, <1>13
  <2>2. j < k \/ k < j \/ j = k
    BY <1>6, <1>8
  <2> QED
    BY <1>5, <1>8, <2>1, <2>2
<1>14. Placed(t)
  BY <1>8, <1>9 DEF Placed
<1>15. Speaks(t, {2} \X I, pool)
  BY <1>10, <1>11, <1>12, <1>13, <1>14 DEF Speaks
<1> QED
  BY <1>1, <1>15 DEF I, pool

StatusesInOrder(t) ==
  \A j, k \in DOMAIN t : j < k =>
    \/ Rank(t[j].distance) < Rank(t[k].distance)
    \/ Rank(t[j].distance) = Rank(t[k].distance) /\ t[j].pool <= t[k].pool

(* Who speaks on the board, and in which order.                            *)
LEMMA StatusesOfBoard ==
  ASSUME NEW query, query.near \in {Unknown} \cup Nat, NEW facilities \in Seq(Facility),
         NEW calendar, NEW roster, Listeds(roster),
         NEW t, t = FindSwimOptions(query, facilities, calendar, roster).statuses
  PROVE  /\ Speaks(t, Tellers(query, facilities, calendar) \cup ({2} \X Unsettled(facilities, roster)),
                   PoolOf(facilities, roster))
         /\ StatusesInOrder(t)
<1> DEFINE near == Arranged(facilities, {<<0, i>> : i \in Reached(query, facilities)})
           seqs == [k \in DOMAIN near |-> PoolAnswer(query, near[k], calendar).statuses]
           more == ScheduleLess(query, facilities, roster)
           base == FlattenSeq(seqs) \o more
           T == Tellers(query, facilities, calendar)
           U == {2} \X Unsettled(facilities, roster)
           pool == PoolOf(facilities, roster)
<1>1. t = StatusOrder(base)
  BY DEF FindSwimOptions, Mapped, Kept, Reached
<1>2. InReach(near, query, facilities)
  BY NearTraced
<1>3. Speaks(FlattenSeq(seqs), T, pool)
  <2> HIDE DEF near
  <2>1. seqs = [k \in DOMAIN near |-> PoolAnswer(query, near[k], calendar).statuses]
    OBVIOUS
  <2> HIDE DEF seqs
  <2> QED
    BY <1>2, <2>1, LoopSpeaks
<1>4. Speaks(more, U, pool)
  BY RosterSpeaks
<1>5. T \cap U = {}
  BY DEF Tellers
<1> HIDE DEF seqs, more, T, U, pool
<1>6. Speaks(base, T \cup U, pool)
  BY <1>3, <1>4, <1>5, SpeakTogether
<1> HIDE DEF base
<1>7. Placed(base)
  BY <1>6 DEF Speaks
<1>8. /\ Permutes(t, base)
      /\ \A j, k \in DOMAIN t : j < k =>
           \/ Rank(t[j].distance) < Rank(t[k].distance)
           \/ Rank(t[j].distance) = Rank(t[k].distance) /\ t[j].pool <= t[k].pool
  BY <1>1, <1>7, StatusesRanked
<1>9. Speaks(t, T \cup U, pool)
  BY <1>6, <1>8, SpeaksInAnyOrder
<1> QED
  BY <1>8, <1>9 DEF T, U, pool, StatusesInOrder

(* The roster is the facilities and then the pools without one, each id    *)
(* once.                                                                   *)
LEMMA RosterOfWorld ==
  ASSUME NEW world \in World, NEW facilities, facilities = world.facilities,
         NEW roster, roster = Roster(world)
  PROVE  /\ facilities \in Seq(Facility)
         /\ Listeds(roster)
         /\ \A i \in DOMAIN facilities : /\ i \in DOMAIN roster
                                         /\ facilities[i] \in Facility
                                         /\ roster[i].id = facilities[i].id
                                         /\ roster[i].freshness = Freshness(facilities[i])
         /\ \A r \in DOMAIN roster : r \in DOMAIN facilities \/ roster[r].freshness = "no_source"
         /\ \A i, j \in DOMAIN roster : roster[i].id = roster[j].id => i = j
<1> DEFINE s == [i \in DOMAIN facilities |->
                   [id |-> facilities[i].id, geo |-> facilities[i].geo, freshness |-> Freshness(facilities[i])]]
           bare == world.bare
           t == [i \in DOMAIN bare |-> [id |-> bare[i].id, geo |-> bare[i].geo, freshness |-> "no_source"]]
<1>1. /\ facilities \in Seq(Facility) /\ bare \in Seq([id : Nat, geo : {Unknown} \cup Nat])
      /\ \A i, j \in DOMAIN roster : roster[i].id = roster[j].id => i = j
  BY DEF World
<1>2. roster = s \o t
  BY DEF Roster, Mapped
<1> HIDE DEF bare
<1>3. /\ List(facilities) /\ \A i \in DOMAIN facilities : facilities[i] \in Facility
      /\ List(bare) /\ \A i \in DOMAIN bare : bare[i] \in [id : Nat, geo : {Unknown} \cup Nat]
  BY <1>1, SequenceIsList
<1>4. List(s) /\ List(t) /\ DOMAIN s = DOMAIN facilities /\ DOMAIN t = DOMAIN bare
  BY <1>3 DEF List
<1>5. ASSUME NEW i \in DOMAIN s
      PROVE /\ s[i].id = facilities[i].id /\ s[i].freshness = Freshness(facilities[i])
            /\ s[i].id \in Nat /\ s[i].geo \in {Unknown} \cup Nat
  <2>1. facilities[i] \in Facility /\ s[i].id = facilities[i].id /\ s[i].geo = facilities[i].geo
        /\ s[i].freshness = Freshness(facilities[i])
    BY <1>3, <1>4
  <2>2. facilities[i].id \in Nat /\ facilities[i].geo \in {Unknown} \cup Nat
    BY <2>1 DEF Facility
  <2> QED
    BY <2>1, <2>2
<1>6. ASSUME NEW i \in DOMAIN t
      PROVE t[i].freshness = "no_source" /\ t[i].id \in Nat /\ t[i].geo \in {Unknown} \cup Nat
  BY <1>3, <1>4
<1> HIDE DEF s, t
<1>7. Joins(roster, s, t)
  BY <1>2, <1>4, Joined
<1>8. /\ List(roster)
      /\ \A k \in DOMAIN s : k \in DOMAIN roster /\ roster[k] = s[k]
      /\ \A k \in DOMAIN t : Len(s) + k \in DOMAIN roster /\ roster[Len(s) + k] = t[k]
      /\ \A k \in DOMAIN roster : k \in DOMAIN s \/ \E j \in DOMAIN t : k = Len(s) + j
  BY <1>7, Zenon DEF Joins
<1>9. ASSUME NEW r \in DOMAIN roster, r \notin DOMAIN facilities
      PROVE \E j \in DOMAIN t : roster[r] = t[j]
  <2>1. PICK j \in DOMAIN t : r = Len(s) + j
    BY <1>4, <1>8, <1>9
  <2>2. roster[r] = t[j]
    BY <1>8, <2>1, Zenon
  <2> QED
    BY <2>2
<1>10. Listeds(roster)
  <2>1. ASSUME NEW r \in DOMAIN roster PROVE roster[r].id \in Nat /\ roster[r].geo \in {Unknown} \cup Nat
    BY <1>4, <1>5, <1>6, <1>8, <1>9
  <2> QED
    BY <1>8, <2>1 DEF Listeds
<1>11. \A i \in DOMAIN facilities : /\ i \in DOMAIN roster
                                    /\ facilities[i] \in Facility
                                    /\ roster[i].id = facilities[i].id
                                    /\ roster[i].freshness = Freshness(facilities[i])
  BY <1>3, <1>4, <1>5, <1>8
<1>12. \A r \in DOMAIN roster : r \in DOMAIN facilities \/ roster[r].freshness = "no_source"
  BY <1>6, <1>9
<1> QED
  BY <1>1, <1>10, <1>11, <1>12

(* Every pool in reach answers in exactly one way, whatever is stored and  *)
(* asked.                                                                  *)
THEOREM EveryPoolAnswersOnce ==
  ASSUME NEW world \in World, NEW query \in Query, NEW calendar,
         NEW facilities, facilities = world.facilities, NEW roster, roster = Roster(world)
  PROVE  OneAnswerEach(query, facilities, roster, FindSwimOptions(query, facilities, calendar, roster))
<1> DEFINE reply == FindSwimOptions(query, facilities, calendar, roster)
           I == Reached(query, facilities)
           A(i) == PoolAnswer(query, facilities[i], calendar)
           T == Tellers(query, facilities, calendar)
           U == {2} \X Unsettled(facilities, roster)
           pool == PoolOf(facilities, roster)
<1>1. query.near \in {Unknown} \cup Nat
  BY DEF Query
<1>2. /\ facilities \in Seq(Facility)
      /\ Listeds(roster)
      /\ \A i \in DOMAIN facilities : /\ i \in DOMAIN roster
                                      /\ facilities[i] \in Facility
                                      /\ roster[i].id = facilities[i].id
                                      /\ roster[i].freshness = Freshness(facilities[i])
      /\ \A r \in DOMAIN roster : r \in DOMAIN facilities \/ roster[r].freshness = "no_source"
      /\ \A i, j \in DOMAIN roster : roster[i].id = roster[j].id => i = j
  BY RosterOfWorld
<1>3. /\ \A k \in DOMAIN reply.options : \E i \in I :
           reply.options[k].pool = facilities[i].id /\ A(i).options # <<>>
      /\ \A i \in I : A(i).options # <<>> =>
           \E k \in DOMAIN reply.options : reply.options[k].pool = facilities[i].id
  <2>1. Boarded(reply.options, query, facilities, calendar)
    BY <1>1, <1>2, OptionsOfBoard
  <2> QED
    BY <2>1, Zenon DEF Boarded
<1>4. Speaks(reply.statuses, T \cup U, pool)
  BY <1>1, <1>2, StatusesOfBoard
<1>5. I \subseteq DOMAIN facilities /\ \A i \in DOMAIN facilities : i \in I <=> InRadius(query, facilities[i])
  BY DEF Reached
<1>6. \A p : p \in T <=> \E i \in I : p = <<1, i>> /\ A(i).statuses # <<>>
  BY DEF Tellers
<1>7. \A r \in DOMAIN roster : r \in Unsettled(facilities, roster) <=>
        roster[r].id \notin Settled(facilities) /\ roster[r].freshness # "scraped"
  BY DEF Unsettled
<1>8. \A i \in DOMAIN facilities : pool[<<1, i>>] = facilities[i].id
  BY DEF PoolOf
<1>9. \A r \in DOMAIN roster : pool[<<2, r>>] = roster[r].id
  BY DEF PoolOf
<1>10. Unsettled(facilities, roster) \subseteq DOMAIN roster
  BY DEF Unsettled
<1>11. \A x : x \in Settled(facilities) <=>
         \E i \in DOMAIN facilities : x = facilities[i].id
                                      /\ (Scheduled(facilities[i]) \/ facilities[i].season # NoSeason)
  BY DEF Settled
<1>12. ASSUME NEW i \in DOMAIN facilities
       PROVE /\ A(i).options # <<>> => Scheduled(facilities[i]) /\ A(i).statuses = <<>>
             /\ A(i).statuses # <<>> => Scheduled(facilities[i]) \/ facilities[i].season # NoSeason
             /\ A(i).options = <<>> /\ A(i).statuses = <<>> =>
                  \/ Hollow(query, facilities[i])
                  \/ ~Scheduled(facilities[i]) /\ facilities[i].season = NoSeason
  <2> DEFINE a == A(i)
             f == facilities[i]
  <2>1. a = PoolAnswer(query, f, calendar) /\ f \in Facility
    BY <1>2
  <2> HIDE DEF a, f
  <2>2. /\ a.options # <<>> => Scheduled(f) /\ a.statuses = <<>>
        /\ a.statuses # <<>> => Scheduled(f) \/ f.season # NoSeason
        /\ a.options = <<>> /\ a.statuses = <<>> =>
             Hollow(query, f) \/ (~Scheduled(f) /\ f.season = NoSeason)
    BY <2>1, PoolAnswers
  <2> QED
    BY <2>2 DEF a, f
<1> HIDE DEF reply, I, A, T, pool
<1>13. \A i \in DOMAIN facilities : Freshness(facilities[i]) = "scraped" <=> Scheduled(facilities[i])
  BY DEF Freshness
<1>14. ASSUME NEW r \in DOMAIN roster,
              \A j \in DOMAIN facilities : facilities[j].id = roster[r].id => InRadius(query, facilities[j]),
              NEW told, told = {k \in DOMAIN reply.statuses : reply.statuses[k].pool = roster[r].id}
       PROVE IF \E k \in DOMAIN reply.options : reply.options[k].pool = roster[r].id
             THEN told = {}
             ELSE \/ Cardinality(told) = 1
                  \/ /\ \E j \in DOMAIN facilities : facilities[j].id = roster[r].id /\ Hollow(query, facilities[j])
                     /\ told = {}
  <2> DEFINE id == roster[r].id
             offered == \E k \in DOMAIN reply.options : reply.options[k].pool = id
  <2>1. \A i \in DOMAIN facilities : facilities[i].id = id => i = r
    BY <1>2
  <2>2. \A p \in T \cup U : pool[p] = id =>
          (p = <<1, r>> /\ r \in I /\ A(r).statuses # <<>>)
          \/ (p = <<2, r>> /\ r \in Unsettled(facilities, roster))
    <3>1. \A p \in T : pool[p] = id => p = <<1, r>> /\ r \in I /\ A(r).statuses # <<>>
      BY <1>5, <1>6, <1>8, <2>1
    <3>2. ASSUME NEW p \in U, pool[p] = id PROVE p = <<2, r>> /\ r \in Unsettled(facilities, roster)
      <4>1. PICK q \in Unsettled(facilities, roster) : p = <<2, q>>
        OBVIOUS
      <4>2. q \in DOMAIN roster /\ roster[q].id = roster[r].id
        BY <1>9, <1>10, <3>2, <4>1
      <4> QED
        BY <1>2, <4>1, <4>2
    <3> QED
      BY <3>1, <3>2
  <2>3. /\ (\A p \in T \cup U : pool[p] # id) => told = {}
        /\ \A p \in T \cup U :
             pool[p] = id /\ (\A q \in T \cup U : pool[q] = id => q = p) => Cardinality(told) = 1
    <3>1. ToldBy(told, T \cup U, pool, id)
      BY <1>4, <1>14, SpokenOnce
    <3> QED
      BY <3>1, Zenon DEF ToldBy
  <2>4. CASE r \in DOMAIN facilities
    <3>1. r \in I /\ facilities[r].id = id
      BY <1>2, <1>5, <1>14, <2>4
    <3>2. offered <=> A(r).options # <<>>
      BY <1>3, <1>5, <2>1, <3>1
    <3>3. r \in Unsettled(facilities, roster) <=>
            ~Scheduled(facilities[r]) /\ facilities[r].season = NoSeason
      BY <1>2, <1>7, <1>11, <1>13, <2>1, <2>4, <3>1
    <3>4. CASE offered
      <4>1. A(r).statuses = <<>> /\ r \notin Unsettled(facilities, roster)
        BY <1>12, <2>4, <3>2, <3>3, <3>4
      <4> QED
        BY <2>2, <2>3, <3>4, <4>1
    <3>5. CASE ~offered /\ A(r).statuses # <<>>
      <4>1. r \notin Unsettled(facilities, roster)
        BY <1>12, <2>4, <3>3, <3>5
      <4>2. <<1, r>> \in T \cup U /\ pool[<<1, r>>] = id
        BY <1>6, <1>8, <2>4, <3>1, <3>5
      <4>3. \A q \in T \cup U : pool[q] = id => q = <<1, r>>
        BY <2>2, <4>1
      <4>4. Cardinality(told) = 1
        BY <2>3, <4>2, <4>3
      <4> QED
        BY <3>5, <4>4
    <3>6. CASE ~offered /\ A(r).statuses = <<>> /\ r \in Unsettled(facilities, roster)
      <4>1. <<2, r>> \in T \cup U /\ pool[<<2, r>>] = id
        BY <1>9, <3>6
      <4>2. \A q \in T \cup U : pool[q] = id => q = <<2, r>>
        BY <2>2, <3>6
      <4>3. Cardinality(told) = 1
        BY <2>3, <4>1, <4>2
      <4> QED
        BY <3>6, <4>3
    <3>7. CASE ~offered /\ A(r).statuses = <<>> /\ r \notin Unsettled(facilities, roster)
      <4>1. Hollow(query, facilities[r])
        BY <1>12, <2>4, <3>2, <3>3, <3>7
      <4>2. told = {}
        BY <2>2, <2>3, <3>7
      <4> QED
        BY <2>4, <3>1, <3>7, <4>1, <4>2
    <3> QED
      BY <3>4, <3>5, <3>6, <3>7
  <2>5. CASE r \notin DOMAIN facilities
    <3>1. ~offered
      BY <1>3, <1>5, <2>1, <2>5
    <3>2. r \in Unsettled(facilities, roster)
      BY <1>2, <1>7, <1>11, <2>1, <2>5
    <3>3. <<2, r>> \in T \cup U /\ pool[<<2, r>>] = id
      BY <1>9, <3>2
    <3>4. \A q \in T \cup U : pool[q] = id => q = <<2, r>>
      BY <1>5, <2>2, <2>5
    <3>5. Cardinality(told) = 1
      BY <2>3, <3>3, <3>4
    <3> QED
      BY <3>1, <3>5
  <2> QED
    BY <2>4, <2>5
<1>15. OneAnswerEach(query, facilities, roster, reply)
  <2> SUFFICES ASSUME NEW r \in DOMAIN roster,
                      \A j \in {j \in DOMAIN facilities : facilities[j].id = roster[r].id} :
                        InRadius(query, facilities[j])
               PROVE LET id == roster[r].id
                         offered == \E k \in DOMAIN reply.options : reply.options[k].pool = id
                         told == {k \in DOMAIN reply.statuses : reply.statuses[k].pool = id}
                         own == {j \in DOMAIN facilities : facilities[j].id = id}
                         silent == \E j \in own : \E b \in Range(facilities[j].basins) :
                                     \E e \in Range(b.exceptions) :
                                       e.date = query.day.date /\ ~e.closed /\ e.sessions = <<>>
                     IN IF offered THEN told = {} ELSE Cardinality(told) = 1 \/ (silent /\ told = {})
    BY DEF OneAnswerEach
  <2> DEFINE told == {k \in DOMAIN reply.statuses : reply.statuses[k].pool = roster[r].id}
             own == {j \in DOMAIN facilities : facilities[j].id = roster[r].id}
  <2>1. \A j \in DOMAIN facilities : facilities[j].id = roster[r].id => InRadius(query, facilities[j])
    OBVIOUS
  <2>2. told = {k \in DOMAIN reply.statuses : reply.statuses[k].pool = roster[r].id}
    OBVIOUS
  <2> HIDE DEF told
  <2>3. IF \E k \in DOMAIN reply.options : reply.options[k].pool = roster[r].id
        THEN told = {}
        ELSE \/ Cardinality(told) = 1
             \/ /\ \E j \in DOMAIN facilities : facilities[j].id = roster[r].id /\ Hollow(query, facilities[j])
                /\ told = {}
    BY <1>14, <2>1, <2>2
  <2>4. (\E j \in DOMAIN facilities : facilities[j].id = roster[r].id /\ Hollow(query, facilities[j]))
        => \E j \in own : \E b \in Range(facilities[j].basins) : \E e \in Range(b.exceptions) :
             e.date = query.day.date /\ ~e.closed /\ e.sessions = <<>>
    BY DEF Hollow
  <2> HIDE DEF own
  <2> QED
    BY <2>3, <2>4, Zenon DEF told, own
<1> QED
  BY <1>15 DEF reply

Offered(t, id) == \E k \in DOMAIN t : t[k].pool = id

(* What the board offers of one pool is what that pool answers.            *)
LEMMA OfferedIsAnswered ==
  ASSUME NEW query \in Query, NEW facilities \in Seq(Facility), NEW calendar, NEW roster,
         \A i, j \in DOMAIN facilities : facilities[i].id = facilities[j].id => i = j,
         NEW t, t = FindSwimOptions(query, facilities, calendar, roster).options,
         NEW i \in DOMAIN facilities
  PROVE  Offered(t, facilities[i].id) <=>
           /\ i \in Reached(query, facilities)
           /\ PoolAnswer(query, facilities[i], calendar).options # <<>>
<1>1. Boarded(t, query, facilities, calendar)
  BY OptionsOfBoard DEF Query
<1>2. Reached(query, facilities) \subseteq DOMAIN facilities
  BY DEF Reached
<1> QED
  BY <1>1, <1>2, Zenon DEF Boarded, Offered

(* The pools whose hours nobody vouches for, traced to what each answers.  *)
LEMMA UnconfirmedIsUnverified ==
  ASSUME NEW query, NEW facilities \in Seq(Facility), NEW calendar, NEW roster, NEW id
  PROVE  id \in FindSwimOptions(query, facilities, calendar, roster).unconfirmed <=>
           \E i \in Reached(query, facilities) :
             id = facilities[i].id /\ PoolAnswer(query, facilities[i], calendar).unverified
<1> DEFINE I == Reached(query, facilities)
           near == Arranged(facilities, {<<0, i>> : i \in I})
           doubted == {near[k].id : k \in {j \in DOMAIN near : PoolAnswer(query, near[j], calendar).unverified}}
<1>1. InReach(near, query, facilities)
  BY NearTraced
<1>2. FindSwimOptions(query, facilities, calendar, roster).unconfirmed = doubted
  <2> DEFINE answers == [k \in DOMAIN near |-> PoolAnswer(query, near[k], calendar)]
  <2>1. FindSwimOptions(query, facilities, calendar, roster).unconfirmed
          = {near[k].id : k \in {j \in DOMAIN near : answers[j].unverified}}
    BY DEF FindSwimOptions, Mapped, Kept, Reached
  <2> HIDE DEF near
  <2>2. {j \in DOMAIN near : answers[j].unverified}
          = {j \in DOMAIN near : PoolAnswer(query, near[j], calendar).unverified}
    OBVIOUS
  <2> QED
    BY <2>1, <2>2
<1> HIDE DEF near, I
<1>3. PICK at \in [DOMAIN near -> I] :
        /\ \A k \in DOMAIN near : near[k] = facilities[at[k]]
        /\ \A i \in I : \E k \in DOMAIN near : at[k] = i
  BY <1>1, Zenon DEF InReach, I
<1>4. id \in doubted <=> \E k \in DOMAIN near : id = near[k].id /\ PoolAnswer(query, near[k], calendar).unverified
  OBVIOUS
<1>5. ASSUME NEW k \in DOMAIN near, id = near[k].id, PoolAnswer(query, near[k], calendar).unverified
      PROVE \E i \in I : id = facilities[i].id /\ PoolAnswer(query, facilities[i], calendar).unverified
  <2>1. at[k] \in I /\ near[k] = facilities[at[k]]
    BY <1>3
  <2> QED
    BY <1>5, <2>1, Zenon
<1>6. ASSUME NEW i \in I, id = facilities[i].id, PoolAnswer(query, facilities[i], calendar).unverified
      PROVE \E k \in DOMAIN near : id = near[k].id /\ PoolAnswer(query, near[k], calendar).unverified
  <2>1. PICK k \in DOMAIN near : at[k] = i
    BY <1>3
  <2>2. near[k] = facilities[i]
    BY <1>3, <2>1
  <2> QED
    BY <1>6, <2>2, Zenon
<1> HIDE DEF doubted
<1> QED
  BY <1>2, <1>4, <1>5, <1>6, Zenon DEF I

(* What is stored of the facilities of a world.                            *)
Stored(facilities) ==
  /\ facilities \in Seq(Facility)
  /\ \A i \in DOMAIN facilities : facilities[i] \in Facility
  /\ \A i, j \in DOMAIN facilities : facilities[i].id = facilities[j].id => i = j

(* A world holds facilities, one of an id.                                 *)
LEMMA WorldsAreStored ==
  ASSUME NEW world \in World
  PROVE  Stored(world.facilities)
<1> DEFINE facilities == world.facilities
           roster == Roster(world)
<1>1. facilities = world.facilities /\ roster = Roster(world)
  OBVIOUS
<1> HIDE DEF facilities, roster
<1>2. /\ facilities \in Seq(Facility)
      /\ \A i \in DOMAIN facilities : /\ i \in DOMAIN roster
                                      /\ facilities[i] \in Facility
                                      /\ roster[i].id = facilities[i].id
      /\ \A i, j \in DOMAIN roster : roster[i].id = roster[j].id => i = j
  BY <1>1, RosterOfWorld
<1>3. Stored(facilities)
  BY <1>2 DEF Stored
<1> QED
  BY <1>3 DEF facilities

(* A closure beats every other rule, whatever is stored and asked.         *)
THEOREM ClosuresDecide ==
  ASSUME NEW world \in World, NEW query \in Query, NEW calendar,
         NEW facilities, facilities = world.facilities, NEW roster, roster = Roster(world)
  PROVE  ClosureWins(query, facilities, calendar, FindSwimOptions(query, facilities, calendar, roster))
<1> DEFINE reply == FindSwimOptions(query, facilities, calendar, roster)
<1>1. /\ facilities \in Seq(Facility)
      /\ \A i \in DOMAIN facilities : facilities[i] \in Facility
      /\ \A i, j \in DOMAIN facilities : facilities[i].id = facilities[j].id => i = j
  BY WorldsAreStored DEF Stored
<1>2. ASSUME NEW i \in DOMAIN facilities, ByClosure(facilities[i], query.day) # Pass,
             NEW k \in DOMAIN reply.options
      PROVE reply.options[k].pool # facilities[i].id
  <2>1. Offered(reply.options, facilities[i].id) =>
          PoolAnswer(query, facilities[i], calendar).options # <<>>
    BY <1>1, OfferedIsAnswered
  <2>2. PoolAnswer(query, facilities[i], calendar).options = <<>>
    <3> DEFINE f == facilities[i]
               a == PoolAnswer(query, f, calendar)
    <3>1. f \in Facility /\ ByClosure(f, query.day) # Pass /\ a = PoolAnswer(query, f, calendar)
      BY <1>1, <1>2
    <3> HIDE DEF a, f
    <3>2. a.options = <<>>
      BY <3>1, PoolAnswers
    <3> QED
      BY <3>2 DEF a, f
  <2> QED
    BY <1>2, <2>1, <2>2, Zenon DEF Offered
<1>3. ASSUME NEW i \in DOMAIN facilities, ByClosure(facilities[i], query.day) # Pass
      PROVE FeatureOpen(facilities[i], facilities[i].sauna, query, calendar) # "yes"
  <2> DEFINE f == facilities[i]
             day == ResolveHours(f, f.sauna, <<>>, query.day, calendar)
  <2>1. day = ByClosure(f, query.day)
    BY <1>3, Deciding
  <2>2. day.kind = "closed"
    BY <1>3, <2>1, ClosureDecides
  <2>3. f.sauna # <<>> => FeatureOpen(f, f.sauna, query, calendar) = "no"
    BY <2>2 DEF FeatureOpen
  <2>4. f.sauna = <<>> => FeatureOpen(f, f.sauna, query, calendar) = "unstated"
    BY DEF FeatureOpen
  <2> HIDE DEF f
  <2> QED
    BY <2>3, <2>4 DEF f
<1> HIDE DEF reply
<1>4. ClosureWins(query, facilities, calendar, reply)
  BY <1>2, <1>3, Zenon DEF ClosureWins
<1> QED
  BY <1>4 DEF reply

(* Hours on a public holiday are the pool's own or said to be unconfirmed, *)
(* whatever is stored and asked.                                           *)
THEOREM HolidaysSpokenFor ==
  ASSUME NEW world \in World, NEW query \in Query, NEW calendar,
         NEW facilities, facilities = world.facilities, NEW roster, roster = Roster(world)
  PROVE  HolidayHoursVouched(query, facilities, calendar, FindSwimOptions(query, facilities, calendar, roster))
<1> DEFINE reply == FindSwimOptions(query, facilities, calendar, roster)
           A(i) == PoolAnswer(query, facilities[i], calendar)
           I == Reached(query, facilities)
           holiday == Context(calendar, query.day).holiday
<1>1. /\ facilities \in Seq(Facility)
      /\ \A i \in DOMAIN facilities : facilities[i] \in Facility
      /\ \A i, j \in DOMAIN facilities : facilities[i].id = facilities[j].id => i = j
  BY WorldsAreStored DEF Stored
<1>2. I \subseteq DOMAIN facilities
  BY DEF Reached
<1>3. ASSUME NEW i \in DOMAIN facilities
      PROVE (\E k \in DOMAIN reply.options : reply.options[k].pool = facilities[i].id)
              <=> i \in I /\ A(i).options # <<>>
  <2>1. Offered(reply.options, facilities[i].id) <=> i \in I /\ A(i).options # <<>>
    BY <1>1, OfferedIsAnswered
  <2> QED
    BY <2>1, Zenon DEF Offered
<1>4. ASSUME NEW i \in DOMAIN facilities
      PROVE facilities[i].id \in reply.unconfirmed <=> i \in I /\ A(i).unverified
  <2>1. facilities[i].id \in reply.unconfirmed <=>
          \E j \in I : facilities[i].id = facilities[j].id /\ A(j).unverified
    BY <1>1, UnconfirmedIsUnverified
  <2> HIDE DEF A, I, reply
  <2>2. \A j \in I : facilities[i].id = facilities[j].id => j = i
    BY <1>1, <1>2
  <2> QED
    BY <2>1, <2>2, Zenon
<1> HIDE DEF reply, I
<1>5. ASSUME NEW i \in DOMAIN facilities,
             NEW offered, offered = {k \in DOMAIN reply.options : reply.options[k].pool = facilities[i].id},
             NEW special,
             special = \E b \in Range(facilities[i].basins) : \E e \in Range(b.exceptions) :
                         e.date = query.day.date
      PROVE /\ facilities[i].id \in reply.unconfirmed =>
                 holiday /\ facilities[i].policy = "unstated" /\ offered # {}
            /\ holiday /\ offered # {} /\ ~special =>
                 /\ facilities[i].policy # "closed"
                 /\ facilities[i].policy = "unstated" => facilities[i].id \in reply.unconfirmed
  <2> DEFINE f == facilities[i]
             a == A(i)
  <2>1. a = PoolAnswer(query, f, calendar) /\ f \in Facility
    BY <1>1
  <2> HIDE DEF a, f
  <2>2. /\ a.unverified => holiday /\ f.policy = "unstated" /\ a.options # <<>>
        /\ holiday /\ a.options # <<>>
             /\ (\A b \in Range(f.basins) : \A e \in Range(b.exceptions) : e.date # query.day.date) =>
             f.policy # "closed" /\ (f.policy = "unstated" => a.unverified)
    BY <2>1, PoolVouches
  <2>3. offered # {} <=> i \in I /\ a.options # <<>>
    BY <1>3, <1>5 DEF a
  <2>4. f.id \in reply.unconfirmed <=> i \in I /\ a.unverified
    BY <1>4, Zenon DEF a, f
  <2>5. ~special <=> \A b \in Range(f.basins) : \A e \in Range(b.exceptions) : e.date # query.day.date
    BY <1>5, Zenon DEF f
  <2> HIDE DEF holiday
  <2>6. f.id \in reply.unconfirmed => holiday /\ f.policy = "unstated" /\ offered # {}
    BY <2>2, <2>3, <2>4, Zenon
  <2>7. holiday /\ offered # {} /\ ~special =>
          f.policy # "closed" /\ (f.policy = "unstated" => f.id \in reply.unconfirmed)
    BY <2>2, <2>3, <2>4, <2>5, Zenon
  <2> QED
    BY <2>6, <2>7, Zenon DEF f
<1>6. HolidayHoursVouched(query, facilities, calendar, reply)
  BY <1>5, Zenon DEF HolidayHoursVouched
<1> QED
  BY <1>6 DEF reply

(* A pool's place on the board is its place on the map, whatever is stored *)
(* and asked.                                                              *)
THEOREM BoardKeepsTheMap ==
  ASSUME NEW world \in World, NEW query \in Query, NEW calendar,
         NEW facilities, facilities = world.facilities, NEW roster, roster = Roster(world)
  PROVE  RankedAlike(FindSwimOptions(query, facilities, calendar, roster))
<1> DEFINE reply == FindSwimOptions(query, facilities, calendar, roster)
<1>1. query.near \in {Unknown} \cup Nat /\ facilities \in Seq(Facility) /\ Listeds(roster)
  BY RosterOfWorld DEF Query
<1>2. OptionsInOrder(reply.options)
  BY <1>1, OptionsOfBoard
<1>3. StatusesInOrder(reply.statuses)
  BY <1>1, StatusesOfBoard
<1> HIDE DEF reply
<1>4. RankedAlike(reply)
  BY <1>2, <1>3 DEF RankedAlike, OptionsInOrder, StatusesInOrder
<1> QED
  BY <1>4 DEF reply

-----------------------------------------------------------------------------
(* Lane plans: what is parsed, and whose it is                             *)

(* Keeping some places keeps each once.                                    *)
LEMMA KeepsMatch ==
  ASSUME NEW s, List(s), NEW I \in SUBSET DOMAIN s, NEW t, Keeps(t, s, I)
  PROVE  Matches(t, s, I)
<1>1. PICK at \in [DOMAIN t -> I] :
        /\ \A k \in DOMAIN t : t[k] = s[at[k]]
        /\ \A i \in I : \E k \in DOMAIN t : at[k] = i
        /\ \A j, k \in DOMAIN t : j < k => at[j] < at[k]
  BY DEF Keeps
<1>2. /\ DOMAIN t = 1..Len(t) /\ Len(t) \in Nat
      /\ DOMAIN s = 1..Len(s) /\ Len(s) \in Nat
  BY Listing DEF Keeps
<1>3. ASSUME NEW j \in DOMAIN t, NEW k \in DOMAIN t, at[j] = at[k] PROVE j = k
  <2>1. at[j] \in Int /\ at[k] \in Int
    <3>1. at[j] \in DOMAIN s /\ at[k] \in DOMAIN s
      BY <1>1
    <3> QED
      BY <1>2, <3>1
  <2>2. j < k \/ k < j \/ j = k
    BY <1>2
  <2> QED
    BY <1>1, <1>3, <2>1, <2>2
<1>4. at \in Bijection(DOMAIN t, I)
  BY <1>1, <1>3 DEF Bijection, Injection, Surjection, IsInjective
<1> QED
  BY <1>1, <1>4 DEF Matches

(* A list has as many of an element as the places it was kept from.        *)
LEMMA KeptAsMany ==
  ASSUME NEW s, List(s), NEW I \in SUBSET DOMAIN s, NEW t, Keeps(t, s, I), NEW x
  PROVE  AsOften(t, s, I, x)
<1> DEFINE J == {k \in DOMAIN t : t[k] = x}
           K == {i \in I : s[i] = x}
<1>1. PICK at \in Bijection(DOMAIN t, I) : \A k \in DOMAIN t : t[k] = s[at[k]]
  BY KeepsMatch DEF Matches
<1>2. DOMAIN t = 1..Len(t) /\ Len(t) \in Nat
  BY Listing DEF Keeps
<1>3. IsFiniteSet(J)
  <2>1. IsFiniteSet(1..Len(t))
    BY <1>2, Numbered
  <2>2. J \in SUBSET (1..Len(t))
    BY <1>2
  <2> QED
    BY <2>1, <2>2, FS_Subset
<1> DEFINE f == [k \in J |-> at[k]]
<1>4. at \in [DOMAIN t -> I] /\ (\A i \in I : \E k \in DOMAIN t : at[k] = i)
      /\ \A j, k \in DOMAIN t : at[j] = at[k] => j = k
  BY <1>1 DEF Bijection, Injection, Surjection, IsInjective
<1>5. f \in [J -> K]
  BY <1>1, <1>4
<1>6. \A i \in K : \E k \in J : f[k] = i
  BY <1>1, <1>4
<1>7. \A j, k \in J : f[j] = f[k] => j = k
  BY <1>4
<1> HIDE DEF f, J, K
<1>8. f \in Bijection(J, K)
  BY <1>5, <1>6, <1>7 DEF Bijection, Injection, Surjection, IsInjective
<1>9. Cardinality(J) = Cardinality(K)
  BY <1>3, <1>8, FS_Bijection DEF ExistsBijection
<1> QED
  BY <1>9 DEF J, K, AsOften

(* A list is as long as the places it was kept from are many.              *)
LEMMA KeptLength ==
  ASSUME NEW s, List(s), NEW I \in SUBSET DOMAIN s, NEW t, Keeps(t, s, I)
  PROVE  Len(t) \in Nat /\ Cardinality(I) = Len(t)
<1>1. DOMAIN t = 1..Len(t) /\ Len(t) \in Nat
  BY Listing DEF Keeps
<1>2. PICK at \in Bijection(1..Len(t), I) : TRUE
  BY <1>1, KeepsMatch DEF Matches
<1>3. IsFiniteSet(1..Len(t)) /\ Cardinality(1..Len(t)) = Len(t)
  BY <1>1, Numbered
<1> QED
  BY <1>1, <1>2, <1>3, FS_Bijection DEF ExistsBijection

(* dict.fromkeys keeps each once.                                          *)
LEMMA EachOnce == ASSUME NEW s, List(s) PROVE Onces(Once(s), s)
<1> DEFINE I == {j \in DOMAIN s : \A k \in 1..(j - 1) : s[k] # s[j]}
           t == Arranged(s, {<<0, i>> : i \in I})
<1>1. Once(s) = t
  BY DEF Once, FirstSeen
<1>2. Len(s) \in Nat /\ DOMAIN s = 1..Len(s)
  BY Listing
<1>3. Keeps(t, s, I)
  <2>1. I \in SUBSET DOMAIN s
    OBVIOUS
  <2> HIDE DEF I
  <2> QED
    BY <2>1, KeptPlaces
<1>4. PICK at \in Bijection(DOMAIN t, I) : \A k \in DOMAIN t : t[k] = s[at[k]]
  <2>1. I \in SUBSET DOMAIN s
    OBVIOUS
  <2> HIDE DEF I, t
  <2> QED
    BY <1>3, <2>1, KeepsMatch DEF Matches
<1> HIDE DEF t
<1>5. at \in [DOMAIN t -> I] /\ (\A i \in I : \E k \in DOMAIN t : at[k] = i)
      /\ \A j, k \in DOMAIN t : at[j] = at[k] => j = k
  <2> HIDE DEF I
  <2> QED
    BY <1>4 DEF Bijection, Injection, Surjection, IsInjective
<1>6. \A i, j \in I : s[i] = s[j] => i = j
  <2> SUFFICES ASSUME NEW i \in I, NEW j \in I, s[i] = s[j] PROVE i = j
    OBVIOUS
  <2>1. i \in 1..Len(s) /\ j \in 1..Len(s)
    BY <1>2
  <2>2. ~(i \in 1..(j - 1)) /\ ~(j \in 1..(i - 1))
    OBVIOUS
  <2> QED
    BY <1>2, <2>1, <2>2
<1>7. ASSUME NEW i \in DOMAIN s PROVE \E j \in I : s[j] = s[i]
  <2> DEFINE Same == {j \in DOMAIN s : s[j] = s[i]}
             m == Min(Same)
  <2>1. Same \in SUBSET Nat /\ Same # {}
    BY <1>2
  <2>2. m \in Same /\ \A j \in Same : m <= j
    <3> HIDE DEF Same
    <3> QED
      BY <2>1, Least
  <2> HIDE DEF m
  <2>3. m \in 1..Len(s)
    BY <1>2, <2>2
  <2>4. \A k \in 1..(m - 1) : s[k] # s[m]
    <3> SUFFICES ASSUME NEW k \in 1..(m - 1), s[k] = s[m] PROVE FALSE
      OBVIOUS
    <3>1. k \in 1..Len(s) /\ ~(m <= k)
      BY <1>2, <2>3
    <3>2. k \in Same
      BY <1>2, <2>2, <3>1
    <3> QED
      BY <2>2, <3>1, <3>2
  <2> QED
    BY <2>2, <2>4
<1>8. List(t)
  BY <1>3 DEF Keeps
<1>9. \A k \in DOMAIN t : \E i \in DOMAIN s : t[k] = s[i]
  BY <1>4, <1>5
<1>10. ASSUME NEW i \in DOMAIN s PROVE \E k \in DOMAIN t : t[k] = s[i]
  <2>1. PICK j \in I : s[j] = s[i]
    BY <1>7
  <2>2. PICK k \in DOMAIN t : at[k] = j
    BY <1>5
  <2> QED
    BY <1>4, <2>1, <2>2
<1>11. ASSUME NEW j \in DOMAIN t, NEW k \in DOMAIN t, t[j] = t[k] PROVE j = k
  <2>1. at[j] \in I /\ at[k] \in I /\ s[at[j]] = s[at[k]]
    <3> HIDE DEF I
    <3> QED
      BY <1>4, <1>5, <1>11
  <2>2. at[j] = at[k]
    <3> HIDE DEF I
    <3> QED
      BY <1>6, <2>1
  <2> QED
    BY <1>5, <2>2
<1> QED
  BY <1>1, <1>8, <1>9, <1>10, <1>11 DEF Onces

(* A list of lists, element by element.                                    *)
LEMMA MappedList ==
  ASSUME NEW s, List(s), NEW F, DOMAIN F = DOMAIN s, F = [i \in DOMAIN s |-> F[i]]
  PROVE  List(F) /\ Len(F) = Len(s)
<1>1. Len(s) \in Nat /\ DOMAIN s = 1..Len(s)
  BY Listing
<1>2. List(F)
  BY <1>1 DEF List
<1>3. DOMAIN F = 1..Len(F) /\ Len(F) \in Nat
  BY <1>2, Listing
<1> QED
  BY <1>1, <1>2, <1>3

(* The plans of the sheets fetched, each sheet's as it prints them.        *)
PrintedOn(plans, fetch, sheets) ==
  /\ List(plans)
  /\ \A k \in DOMAIN plans : plans[k].url \in Range(fetch)
  /\ \A u \in Range(fetch) :
       \E at \in Bijection({k \in DOMAIN plans : plans[k].url = u}, DOMAIN sheets[u]) :
         \A k \in DOMAIN plans : plans[k].url = u => plans[k] = [url |-> u, hint |-> sheets[u][at[k]]]

(* Every plan printed is parsed, once.                                     *)
LEMMA PlansArePrinted ==
  ASSUME NEW links, List(links), NEW sheets, \A u \in Range(FetchSet(links)) : List(sheets[u])
  PROVE  PrintedOn(ScrapeLanePlans(sheets, links), FetchSet(links), sheets)
<1> DEFINE urls == Mapped(links, LAMBDA l : l.url)
           fetch == FetchSet(links)
           plans == ScrapeLanePlans(sheets, links)
           seqs == [i \in DOMAIN fetch |-> [j \in DOMAIN sheets[fetch[i]] |->
                      [url |-> fetch[i], hint |-> sheets[fetch[i]][j]]]]
<1>1. List(urls)
  <2>1. urls = [i \in DOMAIN links |-> links[i].url]
    BY DEF Mapped
  <2> HIDE DEF urls
  <2> QED
    BY <2>1, MappedList
<1>2. List(fetch) /\ \A j, k \in DOMAIN fetch : fetch[j] = fetch[k] => j = k
  <2> HIDE DEF urls
  <2>1. Onces(Once(urls), urls)
    BY <1>1, EachOnce
  <2> QED
    BY <2>1 DEF Onces, FetchSet, urls
<1>3. plans = FlattenSeq(seqs)
  BY DEF ScrapeLanePlans, Mapped
<1> HIDE DEF fetch, plans
<1>4. \A i \in DOMAIN fetch : List(sheets[fetch[i]])
  BY DEF fetch, Range
<1>5. /\ \A i \in DOMAIN seqs : List(seqs[i]) /\ DOMAIN seqs[i] = DOMAIN sheets[fetch[i]]
      /\ DOMAIN seqs = DOMAIN fetch
      /\ \A i \in DOMAIN seqs : \A j \in DOMAIN seqs[i] :
           seqs[i][j] = [url |-> fetch[i], hint |-> sheets[fetch[i]][j]]
  <2>1. ASSUME NEW i \in DOMAIN fetch PROVE List(seqs[i])
    <3>1. List(sheets[fetch[i]])
      BY <1>4
    <3>2. seqs[i] = [j \in DOMAIN sheets[fetch[i]] |-> [url |-> fetch[i], hint |-> sheets[fetch[i]][j]]]
      OBVIOUS
    <3> HIDE DEF seqs
    <3> QED
      BY <3>1, <3>2, MappedList
  <2> QED
    BY <2>1
<1>6. List(seqs) /\ Len(seqs) = Len(fetch)
  <2>1. seqs = [i \in DOMAIN fetch |-> seqs[i]] /\ DOMAIN seqs = DOMAIN fetch
    OBVIOUS
  <2> HIDE DEF seqs
  <2> QED
    BY <1>2, <2>1, MappedList
<1> HIDE DEF seqs
<1>7. Flattens(plans, seqs, Len(seqs))
  BY <1>3, <1>5, <1>6, Flattened
<1>8. PICK at \in [DOMAIN plans -> Spots(seqs, Len(seqs))] :
        /\ \A k \in DOMAIN plans : plans[k] = seqs[at[k][1]][at[k][2]]
        /\ \A p \in Spots(seqs, Len(seqs)) : \E k \in DOMAIN plans : at[k] = p
        /\ \A j, k \in DOMAIN plans : at[j] = at[k] => j = k
  BY <1>7 DEF Flattens
<1>9. DOMAIN seqs = 1..Len(seqs) /\ Len(seqs) \in Nat
  BY <1>6, Listing
<1>10. ASSUME NEW k \in DOMAIN plans
       PROVE /\ at[k] = <<at[k][1], at[k][2]>>
             /\ at[k][1] \in DOMAIN fetch
             /\ at[k][2] \in DOMAIN sheets[fetch[at[k][1]]]
             /\ plans[k] = [url |-> fetch[at[k][1]], hint |-> sheets[fetch[at[k][1]]][at[k][2]]]
  <2>1. at[k] \in Spots(seqs, Len(seqs))
    BY <1>8
  <2>2. at[k] = <<at[k][1], at[k][2]>> /\ at[k][1] \in DOMAIN seqs /\ at[k][2] \in DOMAIN seqs[at[k][1]]
    BY <1>9, <2>1 DEF Spots
  <2> QED
    BY <1>5, <1>8, <2>2
<1>11. \A k \in DOMAIN plans : plans[k].url \in Range(fetch)
  <2> SUFFICES ASSUME NEW k \in DOMAIN plans PROVE plans[k].url \in Range(fetch)
    OBVIOUS
  <2>1. plans[k].url = fetch[at[k][1]] /\ at[k][1] \in DOMAIN fetch
    BY <1>10
  <2> QED
    BY <2>1 DEF Range
<1>12. ASSUME NEW u \in Range(fetch)
       PROVE \E to \in Bijection({k \in DOMAIN plans : plans[k].url = u}, DOMAIN sheets[u]) :
               \A k \in DOMAIN plans : plans[k].url = u => plans[k] = [url |-> u, hint |-> sheets[u][to[k]]]
  <2> DEFINE K == {k \in DOMAIN plans : plans[k].url = u}
             to == [k \in K |-> at[k][2]]
  <2>1. PICK n \in DOMAIN fetch : fetch[n] = u
    BY <1>12 DEF Range
  <2>2. ASSUME NEW k \in K PROVE at[k] = <<n, at[k][2]>> /\ at[k][2] \in DOMAIN sheets[u]
                                 /\ plans[k] = [url |-> u, hint |-> sheets[u][at[k][2]]]
    <3>1. fetch[at[k][1]] = u /\ at[k][1] \in DOMAIN fetch
      BY <1>10
    <3>2. at[k][1] = n
      BY <1>2, <2>1, <3>1
    <3> QED
      BY <1>10, <2>1, <3>2
  <2>3. to \in [K -> DOMAIN sheets[u]]
    BY <2>2
  <2>4. \A j, k \in K : to[j] = to[k] => j = k
    <3> SUFFICES ASSUME NEW j \in K, NEW k \in K, at[j][2] = at[k][2] PROVE j = k
      BY DEF to
    <3>1. at[j] = at[k]
      BY <2>2
    <3> QED
      BY <1>8, <3>1
  <2>5. ASSUME NEW m \in DOMAIN sheets[u] PROVE \E k \in K : to[k] = m
    <3>1. <<n, m>> \in Spots(seqs, Len(seqs))
      <4>1. n \in 1..Len(seqs) /\ m \in DOMAIN seqs[n]
        BY <1>5, <1>9, <2>1
      <4>2. m \in Nat /\ n \in Nat
        <5>1. List(seqs[n])
          BY <1>5, <1>9, <4>1
        <5>2. DOMAIN seqs[n] = 1..Len(seqs[n]) /\ Len(seqs[n]) \in Nat
          BY <5>1, Listing
        <5> QED
          BY <1>9, <4>1, <5>2
      <4> QED
        BY <4>1, <4>2 DEF Spots
    <3>2. PICK k \in DOMAIN plans : at[k] = <<n, m>>
      BY <1>8, <3>1
    <3>3. plans[k].url = u /\ at[k][2] = m
      BY <1>10, <2>1, <3>2
    <3> QED
      BY <3>3
  <2>6. to \in Bijection(K, DOMAIN sheets[u])
    <3> HIDE DEF K, to
    <3> QED
      BY <2>3, <2>4, <2>5 DEF Bijection, Injection, Surjection, IsInjective
  <2>7. \A k \in DOMAIN plans : plans[k].url = u => plans[k] = [url |-> u, hint |-> sheets[u][to[k]]]
    BY <2>2
  <2> HIDE DEF to
  <2> QED
    BY <2>6, <2>7
<1>13. List(plans)
  BY <1>7 DEF Flattens
<1>14. PrintedOn(plans, fetch, sheets)
  BY <1>11, <1>12, <1>13 DEF PrintedOn
<1> QED
  BY <1>14 DEF plans, fetch

(* As many plans are parsed alike as a sheet prints alike.                 *)
LEMMA ParsedAsPrinted ==
  ASSUME NEW plans, NEW fetch, NEW sheets, PrintedOn(plans, fetch, sheets),
         NEW u \in Range(fetch), List(sheets[u]), NEW h
  PROVE  Cardinality({k \in DOMAIN plans : plans[k] = [url |-> u, hint |-> h]})
           = Cardinality({i \in DOMAIN sheets[u] : sheets[u][i] = h})
<1> DEFINE K == {k \in DOMAIN plans : plans[k].url = u}
           P == {k \in DOMAIN plans : plans[k] = [url |-> u, hint |-> h]}
           Q == {i \in DOMAIN sheets[u] : sheets[u][i] = h}
<1>1. PICK at \in Bijection(K, DOMAIN sheets[u]) :
        \A k \in DOMAIN plans : plans[k].url = u => plans[k] = [url |-> u, hint |-> sheets[u][at[k]]]
  BY DEF PrintedOn
<1>2. /\ at \in [K -> DOMAIN sheets[u]] /\ (\A i \in DOMAIN sheets[u] : \E k \in K : at[k] = i)
      /\ \A j, k \in K : at[j] = at[k] => j = k
  <2> HIDE DEF K
  <2> QED
    BY <1>1 DEF Bijection, Injection, Surjection, IsInjective
<1>3. IsFiniteSet(P)
  <2>1. DOMAIN plans = 1..Len(plans) /\ Len(plans) \in Nat
    BY Listing DEF PrintedOn
  <2>2. IsFiniteSet(1..Len(plans))
    BY <2>1, Numbered
  <2>3. P \in SUBSET (1..Len(plans))
    BY <2>1
  <2> HIDE DEF P
  <2> QED
    BY <2>2, <2>3, FS_Subset
<1> DEFINE f == [k \in P |-> at[k]]
<1>4. ASSUME NEW k \in P PROVE k \in K /\ at[k] \in Q
  <2>1. k \in K /\ plans[k] = [url |-> u, hint |-> h]
    OBVIOUS
  <2>2. plans[k] = [url |-> u, hint |-> sheets[u][at[k]]] /\ at[k] \in DOMAIN sheets[u]
    BY <1>1, <1>2, <2>1
  <2>3. [url |-> u, hint |-> sheets[u][at[k]]].hint = [url |-> u, hint |-> h].hint
    BY <2>1, <2>2
  <2> QED
    BY <2>1, <2>2, <2>3
<1>5. f \in [P -> Q] /\ \A j, k \in P : f[j] = f[k] => j = k
  BY <1>2, <1>4
<1>6. ASSUME NEW i \in Q PROVE \E k \in P : f[k] = i
  <2>1. PICK k \in K : at[k] = i
    BY <1>2
  <2>2. plans[k] = [url |-> u, hint |-> h]
    BY <1>1, <2>1
  <2> QED
    BY <2>1, <2>2
<1> HIDE DEF f, P, Q
<1>7. f \in Bijection(P, Q)
  BY <1>5, <1>6 DEF Bijection, Injection, Surjection, IsInjective
<1>8. Cardinality(P) = Cardinality(Q)
  BY <1>3, <1>7, FS_Bijection DEF ExistsBijection
<1> QED
  BY <1>8 DEF P, Q

(* A sheet's plans are as many as it prints.                               *)
LEMMA SheetAsLong ==
  ASSUME NEW plans, NEW fetch, NEW sheets, PrintedOn(plans, fetch, sheets),
         NEW u \in Range(fetch), List(sheets[u]),
         NEW sheet, Keeps(sheet, plans, {k \in DOMAIN plans : plans[k].url = u})
  PROVE  Len(sheet) = Len(sheets[u])
<1> DEFINE K == {k \in DOMAIN plans : plans[k].url = u}
<1>1. List(plans)
  BY DEF PrintedOn
<1>2. K \in SUBSET DOMAIN plans
  OBVIOUS
<1>3. PICK at \in Bijection(K, DOMAIN sheets[u]) : TRUE
  BY DEF PrintedOn
<1>4. /\ DOMAIN sheets[u] = 1..Len(sheets[u]) /\ Len(sheets[u]) \in Nat
      /\ DOMAIN plans = 1..Len(plans) /\ Len(plans) \in Nat
  BY <1>1, Listing
<1> HIDE DEF K
<1>5. Len(sheet) \in Nat /\ Cardinality(K) = Len(sheet)
  BY <1>1, <1>2, KeptLength DEF K
<1>6. IsFiniteSet(K)
  <2>1. IsFiniteSet(1..Len(plans))
    BY <1>4, Numbered
  <2> QED
    BY <1>2, <1>4, <2>1, FS_Subset
<1>7. Cardinality(1..Len(sheets[u])) = Len(sheets[u])
  BY <1>4, Numbered
<1>8. Cardinality(DOMAIN sheets[u]) = Cardinality(K)
  BY <1>3, <1>6, FS_Bijection DEF ExistsBijection
<1> QED
  BY <1>4, <1>5, <1>7, <1>8

(* Basins are told apart by their keys.                                    *)
Keyed(basins) ==
  /\ List(basins)
  /\ \A i, j \in DOMAIN basins : Ref(basins[i]) = Ref(basins[j]) => i = j

(* b is the only basin a plan of this address can be: it has the sheet for *)
(* itself, or its section alone is in the header.                          *)
Sole(b, plan, plans, basins) ==
  \/ /\ b.section = Whole
     /\ \A o \in Range(basins) : o.url = plan.url => o = b
     /\ Len(Kept(plans, LAMBDA p : p.url = plan.url)) = 1
  \/ /\ b.section \notin {Whole, {}} /\ b.section \subseteq plan.hint
     /\ \A o \in Range(basins) :
          o.url = plan.url /\ o.section \notin {Whole, {}} /\ o.section \subseteq plan.hint => o = b

(* A plan with an owner is a sole basin's.                                 *)
LEMMA OwnerIsSole ==
  ASSUME NEW basins, List(basins), NEW plans, NEW plan, Owner(plan, plans, basins) # Unbound
  PROVE  \E b \in Range(basins) :
           b.url = plan.url /\ Owner(plan, plans, basins) = Ref(b) /\ Sole(b, plan, plans, basins)
<1> DEFINE D == {i \in DOMAIN basins : basins[i].url = plan.url}
           declared == Arranged(basins, {<<0, i>> : i \in D})
           C == {k \in DOMAIN declared : /\ declared[k].section # Whole /\ declared[k].section # {}
                                         /\ declared[k].section \subseteq plan.hint}
           claims == Arranged(declared, {<<0, k>> : k \in C})
           whole == Len(declared) = 1 /\ declared[1].section = Whole
           sheet == Kept(plans, LAMBDA p : p.url = plan.url)
<1>1. Owner(plan, plans, basins) =
        IF whole /\ Len(sheet) = 1 THEN Ref(declared[1])
        ELSE IF ~whole /\ Len(claims) = 1 THEN Ref(claims[1])
        ELSE Unbound
  BY DEF Owner, Claims, Kept
<1>2. Keeps(declared, basins, D)
  <2>1. D \in SUBSET DOMAIN basins
    OBVIOUS
  <2> HIDE DEF D
  <2> QED
    BY <2>1, KeptPlaces
<1>3. PICK at \in [DOMAIN declared -> D] :
        /\ \A k \in DOMAIN declared : declared[k] = basins[at[k]]
        /\ \A i \in D : \E k \in DOMAIN declared : at[k] = i
  <2> HIDE DEF D, declared
  <2> QED
    BY <1>2 DEF Keeps
<1>4. List(declared)
  <2> HIDE DEF D, declared
  <2> QED
    BY <1>2 DEF Keeps
<1>5. DOMAIN declared = 1..Len(declared)
  <2> HIDE DEF declared
  <2> QED
    BY <1>4, Listing
<1>6. Keeps(claims, declared, C)
  <2>1. C \in SUBSET DOMAIN declared
    OBVIOUS
  <2> HIDE DEF declared, C
  <2> QED
    BY <1>4, <2>1, KeptPlaces
<1> HIDE DEF sheet, claims
<1> HIDE DEF declared
<1>7. PICK to \in [DOMAIN claims -> C] :
        /\ \A k \in DOMAIN claims : claims[k] = declared[to[k]]
        /\ \A i \in C : \E k \in DOMAIN claims : to[k] = i
  <2> HIDE DEF C
  <2> QED
    BY <1>6 DEF Keeps
<1>8. DOMAIN claims = 1..Len(claims)
  <2> HIDE DEF C
  <2> QED
    BY <1>6, Listing DEF Keeps
<1>9. \A k \in DOMAIN declared : declared[k] \in Range(basins) /\ declared[k].url = plan.url
  BY <1>3 DEF Range
<1>10. ASSUME NEW o \in Range(basins), o.url = plan.url PROVE \E k \in DOMAIN declared : declared[k] = o
  <2>1. PICK i \in DOMAIN basins : basins[i] = o
    BY DEF Range
  <2>2. i \in D
    BY <1>10, <2>1
  <2>3. PICK k \in DOMAIN declared : at[k] = i
    BY <1>3, <2>2
  <2> QED
    BY <1>3, <2>1, <2>3
<1> HIDE DEF D
<1>11. CASE whole /\ Len(sheet) = 1
  <2>1. Owner(plan, plans, basins) = Ref(declared[1])
    BY <1>1, <1>11
  <2>2. DOMAIN declared = {1}
    BY <1>5, <1>11
  <2>3. declared[1] \in Range(basins) /\ declared[1].url = plan.url
    BY <1>9, <2>2
  <2>4. \A o \in Range(basins) : o.url = plan.url => o = declared[1]
    BY <1>10, <2>2
  <2>5. Sole(declared[1], plan, plans, basins)
    BY <1>11, <2>4 DEF Sole, sheet
  <2> QED
    BY <2>1, <2>3, <2>5
<1>12. CASE ~(whole /\ Len(sheet) = 1)
  <2>1. Owner(plan, plans, basins) = Ref(claims[1]) /\ Len(claims) = 1
    BY <1>1, <1>12
  <2>2. DOMAIN claims = {1}
    BY <1>8, <2>1
  <2>3. to[1] \in C /\ claims[1] = declared[to[1]]
    BY <1>7, <2>2
  <2>4. claims[1] \in Range(basins) /\ claims[1].url = plan.url
    BY <1>9, <2>3
  <2>5. claims[1].section \notin {Whole, {}} /\ claims[1].section \subseteq plan.hint
    BY <2>3
  <2>6. ASSUME NEW o \in Range(basins), o.url = plan.url, o.section \notin {Whole, {}},
               o.section \subseteq plan.hint
        PROVE o = claims[1]
    <3>1. PICK k \in DOMAIN declared : declared[k] = o
      BY <1>10, <2>6
    <3>2. k \in C
      BY <2>6, <3>1
    <3>3. PICK j \in DOMAIN claims : to[j] = k
      BY <1>7, <3>2
    <3> QED
      BY <1>7, <2>2, <3>1, <3>3
  <2>7. Sole(claims[1], plan, plans, basins)
    BY <2>5, <2>6 DEF Sole
  <2> QED
    BY <2>1, <2>4, <2>7
<1> QED
  BY <1>11, <1>12

(* A basin's key is not "nobody".                                          *)
LEMMA RefIsBound == ASSUME NEW b PROVE Ref(b) # Unbound
  BY DEF Ref, Unbound

(* What an attachment that succeeds returns: of every basin that owns one  *)
(* its only plan, of the rest of the plans that they have no owner.        *)
Attaches(result, basins, plans) ==
  /\ DOMAIN result.plans =
       {Ref(b) : b \in {x \in Range(basins) : \E p \in Range(plans) : Owner(p, plans, basins) = Ref(x)}}
  /\ \A ref \in DOMAIN result.plans : \E i \in DOMAIN plans :
       result.plans[ref] = plans[i] /\ Owner(plans[i], plans, basins) = ref
  /\ IndexBound(plans, basins)
  /\ Keeps(result.unbound, plans, {i \in DOMAIN plans : Owner(plans[i], plans, basins) = Unbound})
  /\ result.unmatched = UnmatchedSections(plans, basins)

LEMMA AttachingTold ==
  ASSUME NEW basins, NEW plans, List(plans),
         NEW result, result = AttachLanePlans(basins, plans), result.ok
  PROVE  Attaches(result, basins, plans)
<1> DEFINE attached == {x \in Range(basins) : \E p \in Range(plans) : Owner(p, plans, basins) = Ref(x)}
           refs == {Ref(b) : b \in attached}
           Latest(ref, i) ==
             /\ Owner(plans[i], plans, basins) = ref
             /\ \A j \in DOMAIN plans : Owner(plans[j], plans, basins) = ref => j <= i
           PlanOf(ref) == plans[CHOOSE i \in DOMAIN plans : Latest(ref, i)]
           I == {i \in DOMAIN plans : Owner(plans[i], plans, basins) = Unbound}
<1>1. DeclaredOnce(basins) /\ IndexBound(plans, basins) /\ attached # {}
  BY DEF AttachLanePlans
<1>2. result = [ok |-> TRUE, plans |-> [ref \in refs |-> PlanOf(ref)],
                unbound |-> UnboundPlans(plans, basins), unmatched |-> UnmatchedSections(plans, basins)]
  BY <1>1 DEF AttachLanePlans
<1>3. result.plans = [ref \in refs |-> PlanOf(ref)] /\ result.unbound = UnboundPlans(plans, basins)
      /\ result.unmatched = UnmatchedSections(plans, basins)
  BY <1>2
<1>4. ASSUME NEW ref \in refs
      PROVE \E i \in DOMAIN plans : PlanOf(ref) = plans[i] /\ Owner(plans[i], plans, basins) = ref
  <2>1. PICK b \in Range(basins) : ref = Ref(b) /\ \E p \in Range(plans) : Owner(p, plans, basins) = Ref(b)
    OBVIOUS
  <2>2. PICK i \in DOMAIN plans : Owner(plans[i], plans, basins) = ref
    BY <2>1 DEF Range
  <2>3. ref # Unbound
    BY <2>1, RefIsBound
  <2>4. \A j \in DOMAIN plans : Owner(plans[j], plans, basins) = ref => j = i
    BY <1>1, <2>2, <2>3 DEF IndexBound
  <2>5. i <= i
    <3>1. DOMAIN plans = 1..Len(plans)
      BY Listing
    <3> QED
      BY <3>1
  <2>6. Latest(ref, i)
    BY <2>2, <2>4, <2>5
  <2> HIDE DEF Last
  <2>7. (CHOOSE k \in DOMAIN plans : Latest(ref, k)) \in DOMAIN plans /\ Latest(ref, CHOOSE k \in DOMAIN plans : Latest(ref, k))
    BY <2>6
  <2>8. Owner(plans[CHOOSE k \in DOMAIN plans : Latest(ref, k)], plans, basins) = ref
    BY <2>7 DEF Last
  <2> QED
    BY <2>7, <2>8
<1>5. UnboundPlans(plans, basins) = Arranged(plans, {<<0, i>> : i \in I})
  BY DEF UnboundPlans, Kept
<1>6. Keeps(UnboundPlans(plans, basins), plans, I)
  <2>1. I \in SUBSET DOMAIN plans
    OBVIOUS
  <2> HIDE DEF I
  <2> QED
    BY <1>5, <2>1, KeptPlaces
<1>7. \A ref \in refs : \E i \in DOMAIN plans :
        result.plans[ref] = plans[i] /\ Owner(plans[i], plans, basins) = ref
  <2> HIDE DEF refs, PlanOf
  <2> QED
    BY <1>3, <1>4
<1>8. DOMAIN result.plans = refs
  BY <1>3
<1> HIDE DEF refs, PlanOf, I
<1>9. Keeps(result.unbound, plans, I)
  BY <1>3, <1>6
<1> QED
  BY <1>1, <1>3, <1>7, <1>8, <1>9 DEF Attaches, refs, I

(* Two basins of one key are one.                                          *)
LEMMA OneBasinOfAKey ==
  ASSUME NEW basins, Keyed(basins), NEW b \in Range(basins), NEW o \in Range(basins), Ref(b) = Ref(o)
  PROVE  b = o
<1>1. PICK i \in DOMAIN basins, j \in DOMAIN basins : b = basins[i] /\ o = basins[j]
  BY DEF Range
<1>2. i = j
  BY <1>1 DEF Keyed
<1> QED
  BY <1>1, <1>2

(* Pages and the sheets they link to.                                      *)
Linked(pages, sheets) ==
  /\ List(pages)
  /\ \A i \in DOMAIN pages :
       /\ List(pages[i].hrefs)
       /\ \A k \in DOMAIN pages[i].hrefs : List(sheets[pages[i].hrefs[k]])

(* Every link found is of a sheet.                                         *)
LEMMA LinksAreLinked ==
  ASSUME NEW pages, NEW sheets, Linked(pages, sheets)
  PROVE  /\ List(DiscoverPages(pages))
         /\ \A k \in DOMAIN DiscoverPages(pages) : List(sheets[DiscoverPages(pages)[k].url])
<1> DEFINE seqs == [i \in DOMAIN pages |-> DiscoverLinks(pages[i])]
           links == DiscoverPages(pages)
<1>1. links = FlattenSeq(seqs)
  BY DEF DiscoverPages, Mapped
<1>2. ASSUME NEW i \in DOMAIN pages
      PROVE /\ List(seqs[i])
            /\ \A j \in DOMAIN seqs[i] : List(sheets[seqs[i][j].url])
  <2> DEFINE hrefs == pages[i].hrefs
             found == [k \in DOMAIN Once(hrefs) |-> [pool |-> pages[i].pool, url |-> Once(hrefs)[k]]]
  <2>1. Onces(Once(hrefs), hrefs) /\ \A k \in DOMAIN hrefs : List(sheets[hrefs[k]])
    BY EachOnce DEF Linked
  <2>2. seqs[i] = IF pages[i].ok THEN found ELSE <<>>
    BY DEF DiscoverLinks, Mapped
  <2>3. List(Once(hrefs)) /\ \A k \in DOMAIN Once(hrefs) : List(sheets[Once(hrefs)[k]])
    BY <2>1 DEF Onces
  <2> HIDE DEF hrefs
  <2>4. found = [k \in DOMAIN Once(hrefs) |-> found[k]] /\ DOMAIN found = DOMAIN Once(hrefs)
        /\ \A k \in DOMAIN found : found[k].url = Once(hrefs)[k]
    OBVIOUS
  <2> HIDE DEF found
  <2>5. List(found)
    BY <2>3, <2>4, MappedList
  <2>6. List(<<>>) /\ DOMAIN <<>> = {}
    <3>1. DOMAIN <<>> = 1..0 /\ <<>> = [k \in DOMAIN <<>> |-> <<>>[k]]
      OBVIOUS
    <3> QED
      BY <3>1 DEF List
  <2> HIDE DEF seqs
  <2> QED
    BY <2>2, <2>3, <2>4, <2>5, <2>6
<1>3. DOMAIN seqs = DOMAIN pages /\ seqs = [i \in DOMAIN pages |-> seqs[i]]
  OBVIOUS
<1> HIDE DEF seqs, links
<1>4. List(seqs)
  BY <1>3, MappedList DEF Linked
<1>5. Flattens(links, seqs, Len(seqs))
  BY <1>1, <1>2, <1>3, <1>4, Flattened
<1>6. PICK at \in [DOMAIN links -> Spots(seqs, Len(seqs))] :
        \A k \in DOMAIN links : links[k] = seqs[at[k][1]][at[k][2]]
  BY <1>5 DEF Flattens
<1>7. DOMAIN seqs = 1..Len(seqs)
  BY <1>4, Listing
<1>8. ASSUME NEW k \in DOMAIN links PROVE List(sheets[links[k].url])
  <2>1. at[k] \in Spots(seqs, Len(seqs))
    BY <1>6
  <2>2. at[k][1] \in DOMAIN seqs /\ at[k][2] \in DOMAIN seqs[at[k][1]]
    BY <1>7, <2>1 DEF Spots
  <2> QED
    BY <1>2, <1>3, <1>6, <2>2
<1>9. List(links)
  BY <1>5 DEF Flattens
<1>10. List(links) /\ \A k \in DOMAIN links : List(sheets[links[k].url])
  BY <1>8, <1>9
<1> QED
  BY <1>10 DEF links

(* The sheets fetched are those linked to.                                 *)
LEMMA FetchedIsLinked ==
  ASSUME NEW links, List(links)
  PROVE  Range(FetchSet(links)) = {l.url : l \in Range(links)}
<1> DEFINE urls == [i \in DOMAIN links |-> links[i].url]
           fetch == FetchSet(links)
<1>1. fetch = Once(urls)
  BY DEF FetchSet, Mapped
<1>2. /\ DOMAIN urls = DOMAIN links /\ urls = [i \in DOMAIN links |-> urls[i]]
      /\ \A i \in DOMAIN links : urls[i] = links[i].url
  OBVIOUS
<1> HIDE DEF urls, fetch
<1>3. Onces(fetch, urls)
  BY <1>1, <1>2, MappedList, EachOnce
<1>4. ASSUME NEW u \in Range(fetch) PROVE u \in {l.url : l \in Range(links)}
  <2>1. PICK k \in DOMAIN fetch : fetch[k] = u
    BY DEF Range
  <2>2. PICK i \in DOMAIN links : u = links[i].url
    BY <1>2, <1>3, <2>1 DEF Onces
  <2> QED
    BY <2>2 DEF Range
<1>5. ASSUME NEW u \in {l.url : l \in Range(links)} PROVE u \in Range(fetch)
  <2>1. PICK i \in DOMAIN links : u = links[i].url
    BY DEF Range
  <2>2. PICK k \in DOMAIN fetch : fetch[k] = u
    BY <1>2, <1>3, <2>1 DEF Onces
  <2> QED
    BY <2>2 DEF Range
<1>6. Range(fetch) = {l.url : l \in Range(links)}
  BY <1>4, <1>5
<1> QED
  BY <1>6 DEF fetch

(* A phase that succeeds has read every sheet declared, and attaches what  *)
(* they print.                                                             *)
Phased(result, basins, pages, sheets, plans) ==
  /\ PrintedOn(plans, FetchSet(DiscoverPages(pages)), sheets)
  /\ Attaches(result, basins, plans)
  /\ \A u \in Range(FetchSet(DiscoverPages(pages))) : List(sheets[u])
  /\ \A b \in Range(basins) :
       /\ b.url \in Range(FetchSet(DiscoverPages(pages)))
       /\ \E l \in Range(DiscoverPages(pages)) : l.url = b.url
       /\ sheets[b.url] # <<>>

LEMMA PhaseTold ==
  ASSUME NEW basins, NEW pages, NEW sheets, Linked(pages, sheets),
         NEW result, result = LanePhase(basins, pages, sheets), result.ok
  PROVE  Phased(result, basins, pages, sheets, ScrapeLanePlans(sheets, DiscoverPages(pages)))
<1> DEFINE links == DiscoverPages(pages)
           plans == ScrapeLanePlans(sheets, links)
<1>1. List(links) /\ \A k \in DOMAIN links : List(sheets[links[k].url])
  BY LinksAreLinked
<1>2. /\ Undiscovered(basins, links) = {} /\ BoundMisses(sheets, links, basins) = {}
      /\ result = AttachLanePlans(basins, plans)
  BY DEF LanePhase, FetchLanePlans
<1> HIDE DEF links, plans
<1>3. Range(FetchSet(links)) = {l.url : l \in Range(links)}
  BY <1>1, FetchedIsLinked
<1>4. \A u \in Range(FetchSet(links)) : List(sheets[u])
  <2> SUFFICES ASSUME NEW u \in Range(FetchSet(links)) PROVE List(sheets[u])
    OBVIOUS
  <2>1. PICK k \in DOMAIN links : u = links[k].url
    BY <1>3 DEF Range
  <2> QED
    BY <1>1, <2>1
<1>5. PrintedOn(plans, FetchSet(links), sheets)
  BY <1>1, <1>4, PlansArePrinted DEF plans
<1>6. Attaches(result, basins, plans)
  BY <1>2, <1>5, AttachingTold DEF PrintedOn
<1>7. ASSUME NEW b \in Range(basins)
      PROVE /\ b.url \in Range(FetchSet(links))
            /\ \E l \in Range(links) : l.url = b.url
            /\ sheets[b.url] # <<>>
  <2>1. b.url \in AuthoredUrls(basins)
    BY DEF AuthoredUrls
  <2>2. b.url \in {l.url : l \in Range(links)}
    BY <1>2, <2>1 DEF Undiscovered
  <2>3. b.url \in Range(FetchSet(links))
    BY <1>3, <2>2
  <2>4. b.url \notin Misses(sheets, links)
    BY <1>2, <2>1 DEF BoundMisses
  <2> QED
    BY <2>2, <2>3, <2>4 DEF Misses
<1> QED
  BY <1>4, <1>5, <1>6, <1>7 DEF Phased, links, plans

(* Whatever is declared, linked and printed, no basin is given another's   *)
(* lanes.                                                                  *)
THEOREM LanesAreOwn ==
  ASSUME NEW basins, Keyed(basins), NEW pages, NEW sheets, Linked(pages, sheets)
  PROVE  OwnPlansOnly(LanePhase(basins, pages, sheets), basins, sheets)
<1> DEFINE result == LanePhase(basins, pages, sheets)
           plans == ScrapeLanePlans(sheets, DiscoverPages(pages))
           fetch == FetchSet(DiscoverPages(pages))
<1> SUFFICES ASSUME result.ok, NEW b \in Range(basins), Ref(b) \in DOMAIN result.plans
             PROVE  LET plan == result.plans[Ref(b)]
                        others == {o \in Range(basins) : o.url = b.url /\ o # b}
                    IN /\ plan.url = b.url
                       /\ b.section = Whole => others = {} /\ Len(sheets[b.url]) = 1
                       /\ b.section # Whole =>
                            /\ b.section \subseteq plan.hint
                            /\ \A o \in others :
                                 o.section \notin {Whole, {}} => ~(o.section \subseteq plan.hint)
  BY DEF OwnPlansOnly
<1> DEFINE plan == result.plans[Ref(b)]
<1>1. Phased(result, basins, pages, sheets, plans)
  BY PhaseTold
<1> HIDE DEF result, plans, fetch
<1>2. /\ PrintedOn(plans, fetch, sheets) /\ Attaches(result, basins, plans)
      /\ \A u \in Range(fetch) : List(sheets[u])
  BY <1>1 DEF Phased, fetch
<1>3. PICK i \in DOMAIN plans : plan = plans[i] /\ Owner(plans[i], plans, basins) = Ref(b)
  BY <1>2 DEF Attaches
<1>4. Owner(plan, plans, basins) = Ref(b)
  BY <1>3
<1>5. Owner(plan, plans, basins) # Unbound
  BY <1>4, RefIsBound
<1> HIDE DEF plan
<1>6. PICK o \in Range(basins) :
        o.url = plan.url /\ Owner(plan, plans, basins) = Ref(o) /\ Sole(o, plan, plans, basins)
  BY <1>5, OwnerIsSole DEF Keyed
<1>7. o = b
  BY <1>4, <1>6, OneBasinOfAKey
<1>8. b.url = plan.url /\ Sole(b, plan, plans, basins)
  BY <1>6, <1>7
<1>9. plan.url \in Range(fetch) /\ List(plans)
  BY <1>2, <1>3 DEF PrintedOn
<1>10. CASE b.section = Whole
  <2> DEFINE K == {k \in DOMAIN plans : plans[k].url = plan.url}
             sheet == Kept(plans, LAMBDA p : p.url = plan.url)
  <2>1. (\A x \in Range(basins) : x.url = plan.url => x = b) /\ Len(sheet) = 1
    BY <1>8, <1>10 DEF Sole
  <2>2. Keeps(sheet, plans, K)
    <3>1. sheet = Arranged(plans, {<<0, k>> : k \in K}) /\ K \in SUBSET DOMAIN plans
      BY DEF Kept
    <3> HIDE DEF K, sheet
    <3> QED
      BY <1>9, <3>1, KeptPlaces
  <2> HIDE DEF sheet
  <2>3. Len(sheet) = Len(sheets[plan.url])
    BY <1>2, <1>9, <2>2, SheetAsLong
  <2> QED
    BY <1>8, <1>10, <2>1, <2>3 DEF plan
<1>11. CASE b.section # Whole
  <2>1. /\ b.section \subseteq plan.hint
        /\ \A x \in Range(basins) :
             x.url = plan.url /\ x.section \notin {Whole, {}} /\ x.section \subseteq plan.hint => x = b
    BY <1>8, <1>11 DEF Sole
  <2> QED
    BY <1>8, <1>11, <2>1 DEF plan
<1> QED
  BY <1>10, <1>11

(* Whatever is declared, linked and printed, every plan is somebody's or   *)
(* is reported.                                                            *)
THEOREM PlansAreAccountedFor ==
  ASSUME NEW basins, List(basins), NEW pages, NEW sheets, Linked(pages, sheets)
  PROVE  PlansAccountedFor(LanePhase(basins, pages, sheets), pages, sheets)
<1> DEFINE result == LanePhase(basins, pages, sheets)
           plans == ScrapeLanePlans(sheets, DiscoverPages(pages))
           fetch == FetchSet(DiscoverPages(pages))
           bound(p) == {r \in DOMAIN result.plans : result.plans[r] = p}
           reported(p) == {k \in DOMAIN result.unbound : result.unbound[k] = p}
           printed(u, h) == {i \in DOMAIN sheets[u] : sheets[u][i] = h}
           parsed(p) == {i \in DOMAIN plans : plans[i] = p}
           nobodys == {i \in DOMAIN plans : Owner(plans[i], plans, basins) = Unbound}
<1>1. ASSUME result.ok, NEW u \in Range(fetch), NEW h \in Range(sheets[u])
      PROVE Cardinality(bound([url |-> u, hint |-> h])) + Cardinality(reported([url |-> u, hint |-> h]))
              = Cardinality(printed(u, h))
  <2> DEFINE p == [url |-> u, hint |-> h]
  <2>1. Phased(result, basins, pages, sheets, plans)
    BY <1>1, PhaseTold
  <2> HIDE DEF result, plans, fetch
  <2>2. PrintedOn(plans, fetch, sheets) /\ Attaches(result, basins, plans) /\ List(sheets[u]) /\ List(plans)
    BY <1>1, <2>1 DEF Phased, fetch, PrintedOn
  <2>3. Cardinality(parsed(p)) = Cardinality(printed(u, h))
    BY <1>1, <2>2, ParsedAsPrinted
  <2> HIDE DEF p
  <2>4. Cardinality(reported(p)) = Cardinality({i \in nobodys : plans[i] = p})
    <3>1. Keeps(result.unbound, plans, nobodys)
      BY <2>2, Zenon DEF Attaches
    <3>2. nobodys \in SUBSET DOMAIN plans
      OBVIOUS
    <3> HIDE DEF nobodys
    <3>3. AsOften(result.unbound, plans, nobodys, p)
      BY <2>2, <3>1, <3>2, KeptAsMany
    <3> QED
      BY <3>3 DEF AsOften
  <2>5. /\ \A r \in DOMAIN result.plans : \E i \in DOMAIN plans :
             result.plans[r] = plans[i] /\ Owner(plans[i], plans, basins) = r
        /\ DOMAIN result.plans =
             {Ref(b) : b \in {x \in Range(basins) : \E q \in Range(plans) : Owner(q, plans, basins) = Ref(x)}}
        /\ IndexBound(plans, basins)
    BY <2>2 DEF Attaches
  <2>6. \A r \in bound(p) : r = Owner(p, plans, basins) /\ r # Unbound
    BY <2>5, RefIsBound
  <2>7. CASE Owner(p, plans, basins) = Unbound
    <3>1. bound(p) = {}
      BY <2>6, <2>7
    <3>2. {i \in nobodys : plans[i] = p} = parsed(p)
      BY <2>7
    <3>3. IsFiniteSet(parsed(p))
      <4>1. DOMAIN plans = 1..Len(plans) /\ Len(plans) \in Nat
        BY <2>2, Listing
      <4>2. IsFiniteSet(1..Len(plans)) /\ parsed(p) \in SUBSET (1..Len(plans))
        <5>1. Len(plans) \in Int /\ 1 \in Int
          BY <4>1
        <5>2. IsFiniteSet(1..Len(plans))
          BY <5>1, Numbered
        <5> QED
          BY <4>1, <5>2
      <4> QED
        BY <4>2, FS_Subset
    <3>4. Cardinality(parsed(p)) \in Nat /\ Cardinality(bound(p)) = 0
      BY <3>1, <3>3, FS_CardinalityType, FS_EmptySet
    <3> HIDE DEF bound, parsed, nobodys, reported, printed
    <3>5. Cardinality(reported(p)) = Cardinality(parsed(p))
      BY <2>4, <3>2
    <3>6. Cardinality(bound(p)) + Cardinality(reported(p)) = Cardinality(printed(u, h))
      BY <2>3, <3>4, <3>5
    <3> QED
      BY <3>6 DEF p
  <2>8. CASE Owner(p, plans, basins) # Unbound
    <3>1. {i \in nobodys : plans[i] = p} = {}
      BY <2>8
    <3>2. \E i \in DOMAIN plans : plans[i] = p
      <4>1. PICK j \in DOMAIN sheets[u] : sheets[u][j] = h
        BY <1>1 DEF Range
      <4>2. PICK at \in Bijection({k \in DOMAIN plans : plans[k].url = u}, DOMAIN sheets[u]) :
              \A k \in DOMAIN plans : plans[k].url = u => plans[k] = [url |-> u, hint |-> sheets[u][at[k]]]
        BY <1>1, <2>2 DEF PrintedOn
      <4>3. PICK k \in {i \in DOMAIN plans : plans[i].url = u} : at[k] = j
        BY <4>1, <4>2 DEF Bijection, Surjection
      <4> QED
        BY <4>1, <4>2, <4>3 DEF p
    <3>3. PICK i \in DOMAIN plans : plans[i] = p
      BY <3>2
    <3>4. parsed(p) = {i}
      BY <2>5, <2>8, <3>3 DEF IndexBound
    <3>5. PICK b \in Range(basins) : Owner(p, plans, basins) = Ref(b)
      BY <2>8, OwnerIsSole
    <3>6. Ref(b) \in DOMAIN result.plans
      <4>1. p \in Range(plans)
        BY <3>3 DEF Range
      <4> QED
        BY <2>5, <3>5, <4>1
    <3>7. result.plans[Ref(b)] = p
      <4>1. PICK j \in DOMAIN plans : result.plans[Ref(b)] = plans[j] /\ Owner(plans[j], plans, basins) = Ref(b)
        BY <2>5, <3>6
      <4>2. j = i
        BY <2>5, <2>8, <3>3, <3>5, <4>1 DEF IndexBound
      <4> QED
        BY <3>3, <4>1, <4>2
    <3>8. bound(p) = {Ref(b)}
      BY <2>6, <3>5, <3>6, <3>7
    <3> HIDE DEF bound, parsed, nobodys, reported, printed
    <3>9. Cardinality(bound(p)) = 1 /\ Cardinality(parsed(p)) = 1 /\ Cardinality(reported(p)) = 0
      BY <2>4, <3>1, <3>4, <3>8, FS_Singleton, FS_EmptySet
    <3>10. Cardinality(bound(p)) + Cardinality(reported(p)) = Cardinality(printed(u, h))
      BY <2>3, <3>9
    <3> QED
      BY <3>10 DEF p
  <2> QED
    BY <2>7, <2>8
<1>2. \A u \in Range(fetch), h \in UNION {Range(s) : s \in Range(sheets)} :
        result.ok /\ h \in Range(sheets[u]) =>
          Cardinality(bound([url |-> u, hint |-> h])) + Cardinality(reported([url |-> u, hint |-> h]))
            = Cardinality(printed(u, h))
  <2> HIDE DEF bound, reported, printed, result, fetch
  <2> QED
    BY <1>1
<1> HIDE DEF result
<1>3. PlansAccountedFor(result, pages, sheets)
  BY <1>2 DEF PlansAccountedFor
<1> QED
  BY <1>3 DEF result

(* Whatever is declared, linked and printed, no basin is left without a    *)
(* plan unsaid.                                                            *)
THEOREM NoHoleIsSilent ==
  ASSUME NEW basins, Keyed(basins), NEW pages, NEW sheets, Linked(pages, sheets)
  PROVE  NoSilentHole(LanePhase(basins, pages, sheets), basins, pages, sheets)
<1> DEFINE result == LanePhase(basins, pages, sheets)
           plans == ScrapeLanePlans(sheets, DiscoverPages(pages))
           fetch == FetchSet(DiscoverPages(pages))
           nobodys == {i \in DOMAIN plans : Owner(plans[i], plans, basins) = Unbound}
           Said(b) ==
             \/ Ref(b) \in DOMAIN result.plans
             \/ Ref(b) \in result.unmatched
             \/ \E p \in Range(result.unbound) : p.url = b.url
             \/ b.section = Whole /\ \E o \in Range(basins) : o # b /\ o.url = b.url
             \/ b.section = {}
<1>1. ASSUME result.ok, NEW b \in Range(basins)
      PROVE  /\ \E l \in Range(DiscoverPages(pages)) : l.url = b.url
             /\ sheets[b.url] # <<>>
             /\ Said(b)
  <2>1. Phased(result, basins, pages, sheets, plans)
    BY <1>1, PhaseTold
  <2> HIDE DEF result, plans, fetch
  <2>2. /\ PrintedOn(plans, fetch, sheets) /\ Attaches(result, basins, plans)
        /\ b.url \in Range(fetch) /\ List(sheets[b.url]) /\ sheets[b.url] # <<>>
        /\ \E l \in Range(DiscoverPages(pages)) : l.url = b.url
    BY <1>1, <2>1 DEF Phased, fetch
  <2>3. List(plans)
    BY <2>2 DEF PrintedOn
  <2>4. \E k \in DOMAIN plans : plans[k].url = b.url
    <3>1. 1 \in DOMAIN sheets[b.url]
      BY <2>2, NotEmpty
    <3>2. PICK at \in Bijection({k \in DOMAIN plans : plans[k].url = b.url}, DOMAIN sheets[b.url]) : TRUE
      BY <2>2 DEF PrintedOn
    <3> QED
      BY <3>1, <3>2 DEF Bijection, Surjection
  <2>5. ASSUME NEW k \in DOMAIN plans, Owner(plans[k], plans, basins) = Unbound
        PROVE  plans[k] \in Range(result.unbound)
    <3>1. Keeps(result.unbound, plans, nobodys)
      BY <2>2, Zenon DEF Attaches
    <3>2. k \in nobodys
      BY <2>5
    <3> HIDE DEF nobodys
    <3>3. PICK at \in [DOMAIN result.unbound -> nobodys] :
            /\ \A j \in DOMAIN result.unbound : result.unbound[j] = plans[at[j]]
            /\ \A i \in nobodys : \E j \in DOMAIN result.unbound : at[j] = i
      BY <3>1 DEF Keeps
    <3>4. PICK j \in DOMAIN result.unbound : at[j] = k
      BY <3>2, <3>3
    <3>5. result.unbound[j] = plans[k]
      BY <3>3, <3>4
    <3> QED
      BY <3>5 DEF Range
  <2>6. ASSUME NEW k \in DOMAIN plans, Owner(plans[k], plans, basins) = Ref(b)
        PROVE  Ref(b) \in DOMAIN result.plans
    <3>1. plans[k] \in Range(plans)
      BY DEF Range
    <3> QED
      BY <2>2, <2>6, <3>1 DEF Attaches
  <2>7. ASSUME NEW k \in DOMAIN plans, plans[k].url = b.url, Owner(plans[k], plans, basins) # Unbound
        PROVE  \E o \in Range(basins) :
                 o.url = b.url /\ Owner(plans[k], plans, basins) = Ref(o) /\ Sole(o, plans[k], plans, basins)
    BY <2>7, OwnerIsSole DEF Keyed
  <2>8. CASE b.section = Whole /\ ~ \E o \in Range(basins) : o # b /\ o.url = b.url
    <3>1. PICK k \in DOMAIN plans : plans[k].url = b.url
      BY <2>4
    <3>2. Owner(plans[k], plans, basins) = Unbound => \E p \in Range(result.unbound) : p.url = b.url
      BY <2>5, <3>1
    <3>3. Owner(plans[k], plans, basins) # Unbound => Owner(plans[k], plans, basins) = Ref(b)
      BY <2>7, <2>8, <3>1
    <3> QED
      BY <2>2, <2>6, <3>2, <3>3
  <2>9. CASE b.section \notin {Whole, {}}
    <3>1. CASE \E p \in Range(plans) : p.url = b.url /\ b.section \subseteq p.hint
      <4>1. PICK k \in DOMAIN plans : plans[k].url = b.url /\ b.section \subseteq plans[k].hint
        BY <3>1 DEF Range
      <4>2. Owner(plans[k], plans, basins) = Unbound => \E p \in Range(result.unbound) : p.url = b.url
        BY <2>5, <4>1
      <4>3. ASSUME NEW o \in Range(basins), o.url = b.url, Sole(o, plans[k], plans, basins) PROVE o = b
        BY <2>9, <4>1, <4>3 DEF Sole
      <4>4. Owner(plans[k], plans, basins) # Unbound => Owner(plans[k], plans, basins) = Ref(b)
        BY <2>7, <4>1, <4>3
      <4> QED
        BY <2>2, <2>6, <4>2, <4>4
    <3>2. CASE ~ \E p \in Range(plans) : p.url = b.url /\ b.section \subseteq p.hint
      <4>1. PICK k \in DOMAIN plans : plans[k].url = b.url
        BY <2>4
      <4>2. plans[k] \in Range(plans)
        BY DEF Range
      <4>3. Ref(b) \in UnmatchedSections(plans, basins)
        BY <2>9, <3>2, <4>1, <4>2 DEF UnmatchedSections
      <4> QED
        BY <2>2, <4>3 DEF Attaches
    <3> QED
      BY <3>1, <3>2
  <2> QED
    BY <2>2, <2>8, <2>9
<1>2. result.ok => \A b \in Range(basins) :
        /\ \E l \in Range(DiscoverPages(pages)) : l.url = b.url
        /\ sheets[b.url] # <<>>
        /\ Said(b)
  <2> HIDE DEF Said, result
  <2> QED
    BY <1>1
<1> HIDE DEF result
<1>3. NoSilentHole(result, basins, pages, sheets)
  BY <1>2 DEF NoSilentHole
<1> QED
  BY <1>3 DEF result

-----------------------------------------------------------------------------
(* Ascending                                                               *)

(* What Ascending returns.                                                 *)
LEMMA AscendingTold ==
  ASSUME NEW S \in SUBSET Int, IsFiniteSet(S)
  PROVE  Ascends(Ascending(S), S)
<1> DEFINE c == Cardinality(S)
           UpToIt(x) == {y \in S : y <= x}
           place(x) == Cardinality(UpToIt(x))
           rank == [x \in S |-> place(x)]
           t == Ascending(S)
<1>1. c \in Nat
  BY FS_CardinalityType
<1>2. \A T \in SUBSET S : IsFiniteSet(T) /\ Cardinality(T) \in Nat /\ Cardinality(T) <= c
  BY <1>1, FS_Subset, FS_CardinalityType
<1>3. ASSUME NEW x \in S PROVE place(x) \in 1..c
  <2>1. UpToIt(x) \in SUBSET S /\ x \in UpToIt(x)
    OBVIOUS
  <2>2. place(x) # 0
    BY <1>2, <2>1, FS_EmptySet
  <2> HIDE DEF UpToIt
  <2> QED
    BY <1>1, <1>2, <2>1, <2>2
<1>4. ASSUME NEW x \in S, NEW y \in S, x < y PROVE place(x) < place(y)
  <2>5. \A z \in S : z \in Int
    OBVIOUS
  <2>6. \A z \in S : z <= x => z <= y
    BY <1>4, <2>5
  <2>7. ~(y <= x) /\ y <= y
    BY <1>4, <2>5
  <2>1. UpToIt(x) \in SUBSET UpToIt(y) /\ y \notin UpToIt(x) /\ y \in UpToIt(y) /\ UpToIt(y) \in SUBSET S
    BY <2>6, <2>7
  <2> HIDE DEF UpToIt
  <2>2. UpToIt(x) # UpToIt(y) /\ UpToIt(x) \in SUBSET S
    BY <2>1
  <2>3. IsFiniteSet(UpToIt(y)) /\ place(x) \in Nat /\ place(y) \in Nat
    BY <1>2, <2>1, <2>2
  <2>4. place(x) <= place(y) /\ place(x) # place(y)
    BY <2>1, <2>2, <2>3, FS_Subset
  <2> QED
    BY <2>3, <2>4
<1> HIDE DEF UpToIt
<1>5. \A x, y \in S : place(x) = place(y) => x = y
  <2> SUFFICES ASSUME NEW x \in S, NEW y \in S, place(x) = place(y) PROVE x = y
    OBVIOUS
  <2>1. place(x) \in Nat /\ place(y) \in Nat /\ x \in Int /\ y \in Int
    BY <1>1, <1>3
  <2>2. ~(x < y) /\ ~(y < x)
    BY <1>4, <2>1
  <2> QED
    BY <2>1, <2>2
<1>6. rank \in Injection(S, 1..c)
  BY <1>3, <1>5 DEF Injection, IsInjective
<1>7. rank \in Surjection(S, 1..c)
  <2>1. IsFiniteSet(1..c) /\ Cardinality(1..c) = c
    BY <1>1, Numbered
  <2> QED
    BY <1>6, <2>1, FS_Injection
<1>8. \A k \in 1..c : \E x \in S : place(x) = k
  BY <1>7 DEF Surjection
<1>9. t = [k \in 1..c |-> CHOOSE x \in S : place(x) = k]
  BY DEF Ascending, UpToIt
<1> HIDE DEF t
<1>10. DOMAIN t = 1..c /\ \A k \in 1..c : t[k] \in S /\ place(t[k]) = k
  BY <1>8, <1>9
<1>11. List(t)
  BY <1>1, <1>9 DEF List
<1>12. \A x \in S : t[place(x)] = x /\ place(x) \in DOMAIN t
  <2> SUFFICES ASSUME NEW x \in S PROVE t[place(x)] = x /\ place(x) \in DOMAIN t
    OBVIOUS
  <2>1. place(x) \in DOMAIN t /\ t[place(x)] \in S /\ place(t[place(x)]) = place(x)
    BY <1>3, <1>10
  <2> QED
    BY <1>5, <2>1
<1>13. ASSUME NEW j \in DOMAIN t, NEW k \in DOMAIN t, j < k PROVE t[j] < t[k]
  <2>3. t[j] \in S /\ t[k] \in S /\ place(t[j]) = j /\ place(t[k]) = k
    BY <1>10
  <2>1. t[j] \in Int /\ t[k] \in Int
    BY <2>3
  <2>4. j \in Int /\ k \in Int
    BY <1>1, <1>10
  <2>5. t[k] < t[j] => place(t[k]) < place(t[j])
    BY <1>4, <2>3
  <2>2. ~(t[k] < t[j]) /\ t[j] # t[k]
    <3> HIDE DEF place
    <3> QED
      BY <1>13, <2>3, <2>4, <2>5
  <2> QED
    BY <2>1, <2>2
<1> HIDE DEF place
<1>14. Ascends(t, S)
  BY <1>10, <1>11, <1>12, <1>13 DEF Ascends
<1> QED
  BY <1>14 DEF t

-----------------------------------------------------------------------------
(* The roster                                                              *)

(* The features of all layers, each as a pool.                             *)
Pooled(roster, layers) ==
  /\ List(roster)
  /\ \A i \in DOMAIN roster : \E l \in DOMAIN layers : \E f \in DOMAIN layers[l].features :
       roster[i] = ToGeoPool(layers[l].features[f], layers[l].kind)
  /\ \A l \in DOMAIN layers : \A f \in DOMAIN layers[l].features : \E i \in DOMAIN roster :
       roster[i] = ToGeoPool(layers[l].features[f], layers[l].kind)

(* A layer is refused, or every feature of every layer is a pool.          *)
LEMMA RosterTold ==
  ASSUME NEW layers \in Seq(Layer)
  PROVE  LET fetched == FetchAllPools(layers)
         IN IF \A l \in DOMAIN layers : layers[l].ok
              THEN fetched.ok = TRUE /\ Pooled(fetched.value, layers)
              ELSE fetched.ok = FALSE
<1> DEFINE fetched == FetchAllPools(layers)
           seqs == Mapped(layers, LayerPools)
           flat == FlattenSeq(seqs)
<1>1. CASE \A l \in DOMAIN layers : layers[l].ok
  <2>1. fetched.ok = TRUE /\ fetched.value = flat
    BY <1>1 DEF FetchAllPools, Read, Range
  <2>2. List(layers) /\ \A l \in DOMAIN layers : layers[l] \in Layer
    BY SequenceIsList
  <2>3. \A l \in DOMAIN layers : List(layers[l].features)
    BY <2>2, SequenceIsList DEF Layer
  <2>4. seqs = [l \in DOMAIN layers |-> [f \in DOMAIN layers[l].features |-> ToGeoPool(layers[l].features[f], layers[l].kind)]]
    BY DEF Mapped, LayerPools
  <2>5. List(seqs)
    BY <2>2, <2>4, MappedList
  <2>6. \A l \in DOMAIN seqs : List(seqs[l])
    <3> SUFFICES ASSUME NEW l \in DOMAIN layers PROVE List(seqs[l])
      BY <2>4
    <3>1. seqs[l] = [f \in DOMAIN layers[l].features |-> ToGeoPool(layers[l].features[f], layers[l].kind)]
      BY <2>4
    <3> HIDE DEF seqs
    <3> QED
      BY <2>3, <3>1, MappedList
  <2>7. /\ DOMAIN seqs = DOMAIN layers /\ DOMAIN seqs = 1..Len(seqs)
        /\ \A l \in DOMAIN layers : DOMAIN seqs[l] = DOMAIN layers[l].features
        /\ \A l \in DOMAIN layers : \A f \in DOMAIN layers[l].features :
             seqs[l][f] = ToGeoPool(layers[l].features[f], layers[l].kind)
    BY <2>4, <2>5, Listing
  <2> HIDE DEF seqs
  <2>8. Flattens(flat, seqs, Len(seqs))
    BY <2>5, <2>6, Flattened
  <2>9. PICK at \in [DOMAIN flat -> Spots(seqs, Len(seqs))] :
          /\ \A k \in DOMAIN flat : flat[k] = seqs[at[k][1]][at[k][2]]
          /\ \A p \in Spots(seqs, Len(seqs)) : \E k \in DOMAIN flat : at[k] = p
    BY <2>8 DEF Flattens
  <2>10. ASSUME NEW i \in DOMAIN flat
         PROVE \E l \in DOMAIN layers : \E f \in DOMAIN layers[l].features :
                 flat[i] = ToGeoPool(layers[l].features[f], layers[l].kind)
    <3>1. at[i][1] \in DOMAIN layers /\ at[i][2] \in DOMAIN layers[at[i][1]].features
      BY <2>7, <2>9 DEF Spots
    <3>2. flat[i] = ToGeoPool(layers[at[i][1]].features[at[i][2]], layers[at[i][1]].kind)
      BY <2>7, <2>9, <3>1
    <3> QED
      BY <3>1, <3>2
  <2>11. ASSUME NEW l \in DOMAIN layers, NEW f \in DOMAIN layers[l].features
         PROVE \E i \in DOMAIN flat : flat[i] = ToGeoPool(layers[l].features[f], layers[l].kind)
    <3>1. DOMAIN layers[l].features = 1..Len(layers[l].features) /\ Len(layers[l].features) \in Nat
          /\ DOMAIN layers = 1..Len(layers) /\ Len(layers) \in Nat
      BY <2>2, <2>3, Listing
    <3>2. <<l, f>> \in Spots(seqs, Len(seqs))
      BY <2>7, <3>1 DEF Spots
    <3>3. PICK i \in DOMAIN flat : at[i] = <<l, f>>
      BY <2>9, <3>2
    <3> QED
      BY <2>7, <2>9, <3>3
  <2>12. Pooled(flat, layers)
    <3>1. List(flat)
      BY <2>8 DEF Flattens
    <3> HIDE DEF flat
    <3> QED
      BY <3>1, <2>10, <2>11 DEF Pooled
  <2> QED
    BY <1>1, <2>1, <2>12
<1>2. CASE ~ \A l \in DOMAIN layers : layers[l].ok
  <2>1. fetched.ok = FALSE
    BY <1>2 DEF FetchAllPools, Refusal, Range
  <2> QED
    BY <1>2, <2>1
<1> QED
  BY <1>1, <1>2

(* No category of pools is missing, and no null is taken for a text,       *)
(* whatever the layers answer (geo_sport.py:210).                          *)
THEOREM RostersAreWhole ==
  ASSUME NEW layers \in Seq(Layer)
  PROVE  WholeRoster(layers, FetchAllPools(layers))
<1> DEFINE fetched == FetchAllPools(layers)
<1>1. fetched.ok <=> \A l \in DOMAIN layers : layers[l].ok
  BY RosterTold, Zenon
<1>2. CASE fetched.ok
  <2> DEFINE roster == fetched.value
  <2>1. Pooled(roster, layers)
    BY <1>1, <1>2, RosterTold
  <2> HIDE DEF fetched
  <2>2. ASSUME NEW l \in DOMAIN layers, NEW f \in DOMAIN layers[l].features
        PROVE \E i \in DOMAIN roster : roster[i].name = layers[l].features[f].name /\ roster[i].kind = layers[l].kind
    <3>1. PICK i \in DOMAIN roster : roster[i] = ToGeoPool(layers[l].features[f], layers[l].kind)
      BY <2>1 DEF Pooled
    <3> QED
      BY <3>1 DEF ToGeoPool
  <2>3. ASSUME NEW i \in DOMAIN roster
        PROVE Null \notin {roster[i].poi, roster[i].address, roster[i].url, roster[i].prose}
    <3>1. \E l \in DOMAIN layers : \E f \in DOMAIN layers[l].features :
            roster[i] = ToGeoPool(layers[l].features[f], layers[l].kind)
      BY <2>1 DEF Pooled
    <3>2. \A value : AbsentIfNull(value) # Null
      BY DEF AbsentIfNull, Absent, Null
    <3>3. \A url : url # Null => NormalizeRosterUrl(url) # Null
      BY RepairsAssumption DEF NormalizeRosterUrl
    <3> QED
      BY <3>1, <3>2, <3>3 DEF ToGeoPool
  <2> QED
    BY <1>1, <1>2, <2>2, <2>3 DEF WholeRoster, Range, fetched
<1>3. CASE ~fetched.ok
  <2> HIDE DEF fetched
  <2>1. WholeRoster(layers, fetched)
    BY <1>1, <1>3 DEF WholeRoster, Range
  <2> QED
    BY <2>1 DEF fetched
<1> QED
  BY <1>2, <1>3

-----------------------------------------------------------------------------
(* The pages of a roster                                                   *)

(* How many pools have a page, and that a sole one is alone.               *)
LEMMA SeenTold ==
  ASSUME NEW roster, List(roster), NEW url
  PROVE  /\ Seen(roster, url) \in Nat
         /\ Seen(roster, url) = 1 =>
              \A i, j \in DOMAIN roster : roster[i].url = url /\ roster[j].url = url => i = j
<1> DEFINE here == {i \in DOMAIN roster : roster[i].url = url}
<1>1. IsFiniteSet(here)
  <2>1. DOMAIN roster = 1..Len(roster) /\ Len(roster) \in Nat
    BY Listing
  <2>2. IsFiniteSet(1..Len(roster))
    BY <2>1, Numbered
  <2> QED
    BY <2>1, <2>2, FS_Subset
<1>2. Seen(roster, url) = Cardinality(here)
  BY DEF Seen
<1>3. ASSUME Cardinality(here) = 1 PROVE \A i, j \in here : i = j
  <2> HIDE DEF here
  <2>1. PICK x : here = {x}
    BY <1>1, <1>3, FS_Singleton
  <2> QED
    BY <2>1
<1>4. Cardinality(here) \in Nat
  <2> HIDE DEF here
  <2> QED
    BY <1>1, FS_CardinalityType
<1> QED
  BY <1>2, <1>3, <1>4

(* What is kept of what was kept.                                          *)
LEMMA KeptAgain ==
  ASSUME NEW s, List(s), NEW I \in SUBSET DOMAIN s, NEW t, Keeps(t, s, I), NEW T,
         NEW u, Keeps(u, t, {k \in DOMAIN t : t[k] \in T})
  PROVE  Keeps(u, s, {i \in I : s[i] \in T})
<1> DEFINE J == {k \in DOMAIN t : t[k] \in T}
           K == {i \in I : s[i] \in T}
<1>1. PICK at \in [DOMAIN t -> I] :
        /\ \A k \in DOMAIN t : t[k] = s[at[k]]
        /\ \A i \in I : \E k \in DOMAIN t : at[k] = i
        /\ \A j, k \in DOMAIN t : j < k => at[j] < at[k]
  BY DEF Keeps
<1>2. PICK to \in [DOMAIN u -> J] :
        /\ \A k \in DOMAIN u : u[k] = t[to[k]]
        /\ \A i \in J : \E k \in DOMAIN u : to[k] = i
        /\ \A j, k \in DOMAIN u : j < k => to[j] < to[k]
  <2> HIDE DEF J
  <2>1. Keeps(u, t, J)
    BY DEF J
  <2> QED
    BY <2>1 DEF Keeps
<1> DEFINE from == [k \in DOMAIN u |-> at[to[k]]]
<1>3. \A k \in DOMAIN u : to[k] \in DOMAIN t /\ t[to[k]] \in T
  BY <1>2
<1>4. from \in [DOMAIN u -> K]
  BY <1>1, <1>3
<1>5. \A k \in DOMAIN u : u[k] = s[from[k]]
  BY <1>1, <1>2, <1>3
<1>6. ASSUME NEW i \in K PROVE \E k \in DOMAIN u : from[k] = i
  <2>1. PICK j \in DOMAIN t : at[j] = i
    BY <1>1
  <2>2. j \in J
    BY <1>1, <2>1
  <2>3. PICK k \in DOMAIN u : to[k] = j
    BY <1>2, <2>2
  <2> QED
    BY <2>1, <2>3
<1>7. \A j, k \in DOMAIN u : j < k => from[j] < from[k]
  BY <1>1, <1>2, <1>3
<1>8. List(u) /\ (u = <<>> <=> J = {})
  BY DEF Keeps
<1>9. J = {} <=> K = {}
  <2>1. ASSUME NEW k \in J PROVE at[k] \in K
    BY <1>1
  <2>2. ASSUME NEW i \in K PROVE J # {}
    <3>1. PICK j \in DOMAIN t : at[j] = i
      BY <1>1
    <3> QED
      BY <1>1, <3>1
  <2> QED
    BY <2>1, <2>2
<1> HIDE DEF from, J, K
<1>10. Keeps(u, s, K)
  BY <1>4, <1>5, <1>6, <1>7, <1>8, <1>9 DEF Keeps
<1> QED
  BY <1>10 DEF K

(* Two lists of different elements, one after the other.                   *)
LEMMA InjectiveJoined ==
  ASSUME NEW s, NEW t, List(s), List(t), IsInjective(s), IsInjective(t), Range(s) \cap Range(t) = {}
  PROVE  IsInjective(s \o t) /\ Range(s \o t) = Range(s) \cup Range(t)
<1> DEFINE u == s \o t
<1>1. Joins(u, s, t)
  BY Joined
<1> HIDE DEF u
<1>2. /\ \A k \in DOMAIN s : k \in DOMAIN u /\ u[k] = s[k]
      /\ \A k \in DOMAIN t : Len(s) + k \in DOMAIN u /\ u[Len(s) + k] = t[k]
      /\ \A k \in DOMAIN u : k \in DOMAIN s \/ \E j \in DOMAIN t : k = Len(s) + j
  BY <1>1 DEF Joins
<1>3. /\ \A j, k \in DOMAIN s : s[j] = s[k] => j = k
      /\ \A j, k \in DOMAIN t : t[j] = t[k] => j = k
  BY DEF IsInjective
<1>4. \A j \in DOMAIN s, k \in DOMAIN t : s[j] # t[k]
  BY DEF Range
<1>5. ASSUME NEW j \in DOMAIN u, NEW k \in DOMAIN u, u[j] = u[k] PROVE j = k
  <2>1. CASE j \in DOMAIN s /\ k \in DOMAIN s
    BY <1>2, <1>3, <1>5, <2>1
  <2>2. CASE j \in DOMAIN s /\ k \notin DOMAIN s
    BY <1>2, <1>4, <1>5, <2>2
  <2>3. CASE j \notin DOMAIN s /\ k \in DOMAIN s
    BY <1>2, <1>4, <1>5, <2>3
  <2>4. CASE j \notin DOMAIN s /\ k \notin DOMAIN s
    <3>1. PICK a \in DOMAIN t : j = Len(s) + a
      BY <1>2, <2>4
    <3>2. PICK b \in DOMAIN t : k = Len(s) + b
      BY <1>2, <2>4
    <3>3. t[a] = t[b]
      BY <1>2, <1>5, <3>1, <3>2
    <3> QED
      BY <1>3, <3>1, <3>2, <3>3
  <2> QED
    BY <2>1, <2>2, <2>3, <2>4
<1>6. IsInjective(u)
  BY <1>5 DEF IsInjective
<1>7. Range(u) = Range(s) \cup Range(t)
  <2>1. ASSUME NEW k \in DOMAIN u PROVE u[k] \in Range(s) \cup Range(t)
    <3>1. CASE k \in DOMAIN s
      BY <1>2, <3>1 DEF Range
    <3>2. CASE k \notin DOMAIN s
      BY <1>2, <3>2 DEF Range
    <3> QED
      BY <3>1, <3>2
  <2>2. ASSUME NEW k \in DOMAIN s PROVE s[k] \in Range(u)
    BY <1>2 DEF Range
  <2>3. ASSUME NEW k \in DOMAIN t PROVE t[k] \in Range(u)
    BY <1>2 DEF Range
  <2> QED
    BY <2>1, <2>2, <2>3 DEF Range
<1> QED
  BY <1>6, <1>7 DEF u

(* Two lists that match different places, one after the other.             *)
LEMMA MatchesJoined ==
  ASSUME NEW s, NEW t, List(s), List(t), NEW E, NEW I, NEW J, I \cap J = {},
         Matches(s, E, I), Matches(t, E, J)
  PROVE  Matches(s \o t, E, I \cup J)
<1> DEFINE u == s \o t
<1>1. Joins(u, s, t)
  BY Joined
<1> HIDE DEF u
<1>2. /\ \A k \in DOMAIN s : k \in DOMAIN u /\ u[k] = s[k]
      /\ \A k \in DOMAIN t : Len(s) + k \in DOMAIN u /\ u[Len(s) + k] = t[k]
      /\ \A k \in DOMAIN u : k \in DOMAIN s \/ \E j \in DOMAIN t : k = Len(s) + j
  BY <1>1 DEF Joins
<1>3. PICK at \in [DOMAIN s -> I] :
        /\ \A k \in DOMAIN s : s[k] = E[at[k]]
        /\ \A i \in I : \E k \in DOMAIN s : at[k] = i
        /\ \A j, k \in DOMAIN s : at[j] = at[k] => j = k
  BY DEF Matches, Bijection, Injection, Surjection, IsInjective
<1>4. PICK to \in [DOMAIN t -> J] :
        /\ \A k \in DOMAIN t : t[k] = E[to[k]]
        /\ \A i \in J : \E k \in DOMAIN t : to[k] = i
        /\ \A j, k \in DOMAIN t : to[j] = to[k] => j = k
  BY DEF Matches, Bijection, Injection, Surjection, IsInjective
<1>5. /\ Len(s) \in Nat /\ DOMAIN s = 1..Len(s)
      /\ Len(t) \in Nat /\ DOMAIN t = 1..Len(t)
  BY Listing
<1> DEFINE from == [k \in DOMAIN u |-> IF k \in DOMAIN s THEN at[k] ELSE to[k - Len(s)]]
<1>6. ASSUME NEW k \in DOMAIN s PROVE k \in DOMAIN u /\ from[k] = at[k] /\ u[k] = E[from[k]] /\ from[k] \in I
  BY <1>2, <1>3
<1>7. ASSUME NEW k \in DOMAIN t
      PROVE /\ Len(s) + k \in DOMAIN u /\ from[Len(s) + k] = to[k]
            /\ u[Len(s) + k] = E[to[k]] /\ to[k] \in J
  <2>1. Len(s) + k \notin DOMAIN s /\ (Len(s) + k) - Len(s) = k
    BY <1>5
  <2>2. Len(s) + k \in DOMAIN u /\ u[Len(s) + k] = t[k]
    BY <1>2
  <2> QED
    BY <1>4, <2>1, <2>2
<1>8. DOMAIN from = DOMAIN u /\ from = [k \in DOMAIN u |-> from[k]]
  OBVIOUS
<1> HIDE DEF from
<1>9. ASSUME NEW k \in DOMAIN u PROVE from[k] \in I \cup J /\ u[k] = E[from[k]]
  <2>1. CASE k \in DOMAIN s
    BY <1>6, <2>1
  <2>2. CASE k \notin DOMAIN s
    <3>1. PICK j \in DOMAIN t : k = Len(s) + j
      BY <1>2, <2>2
    <3> QED
      BY <1>7, <3>1
  <2> QED
    BY <2>1, <2>2
<1>10. from \in [DOMAIN u -> I \cup J]
  BY <1>8, <1>9
<1>11. ASSUME NEW i \in I \cup J PROVE \E k \in DOMAIN u : from[k] = i
  <2>1. CASE i \in I
    BY <1>3, <1>6, <2>1
  <2>2. CASE i \in J
    BY <1>4, <1>7, <2>2
  <2> QED
    BY <2>1, <2>2
<1>12. ASSUME NEW j \in DOMAIN u, NEW k \in DOMAIN u, from[j] = from[k] PROVE j = k
  <2>1. \A a \in DOMAIN u : a \notin DOMAIN s => from[a] \in J
    <3> SUFFICES ASSUME NEW a \in DOMAIN u, a \notin DOMAIN s PROVE from[a] \in J
      OBVIOUS
    <3>1. PICK b \in DOMAIN t : a = Len(s) + b
      BY <1>2
    <3> QED
      BY <1>7, <3>1
  <2>2. CASE j \in DOMAIN s /\ k \in DOMAIN s
    BY <1>3, <1>6, <1>12, <2>2
  <2>3. CASE j \notin DOMAIN s /\ k \notin DOMAIN s
    <3>1. PICK a \in DOMAIN t : j = Len(s) + a
      BY <1>2, <2>3
    <3>2. PICK b \in DOMAIN t : k = Len(s) + b
      BY <1>2, <2>3
    <3>3. to[a] = to[b]
      BY <1>7, <1>12, <3>1, <3>2
    <3> QED
      BY <1>4, <3>1, <3>2, <3>3
  <2> QED
    BY <1>6, <1>12, <2>1, <2>2, <2>3
<1>13. from \in Bijection(DOMAIN u, I \cup J)
  BY <1>10, <1>11, <1>12 DEF Bijection, Injection, Surjection, IsInjective
<1>14. Matches(u, E, I \cup J)
  BY <1>9, <1>13 DEF Matches
<1> QED
  BY <1>14 DEF u

(* What is fetched for such pools is each once.                            *)
LEMMA UrlsOf ==
  ASSUME NEW s, List(s), NEW I \in SUBSET DOMAIN s, NEW t, Keeps(t, s, I), Apart(s, I),
         NEW urls, urls = [k \in DOMAIN t |-> t[k].url]
  PROVE  ListsUrls(urls, s, I)
<1>0. PICK at \in Bijection(DOMAIN t, I) : \A k \in DOMAIN t : t[k] = s[at[k]]
  BY KeepsMatch DEF Matches
<1>1. /\ at \in [DOMAIN t -> I]
      /\ \A k \in DOMAIN t : t[k] = s[at[k]]
      /\ \A i \in I : \E k \in DOMAIN t : at[k] = i
      /\ \A j, k \in DOMAIN t : at[j] = at[k] => j = k
  BY <1>0 DEF Bijection, Injection, Surjection, IsInjective
<1>2. List(t)
  BY DEF Keeps
<1>3. List(urls)
  BY <1>2, MappedList
<1>4. \A k \in DOMAIN urls : k \in DOMAIN t /\ urls[k] = s[at[k]].url
  BY <1>1
<1>5. IsInjective(urls)
  BY <1>1, <1>4 DEF IsInjective, Apart
<1>6. ASSUME NEW k \in DOMAIN urls PROVE urls[k] \in {s[i].url : i \in I}
  BY <1>1, <1>4
<1>7. ASSUME NEW i \in I PROVE s[i].url \in Range(urls)
  <2>1. PICK k \in DOMAIN t : at[k] = i
    BY <1>1
  <2> QED
    BY <1>4, <2>1 DEF Range
<1> QED
  BY <1>3, <1>5, <1>6, <1>7 DEF Range, ListsUrls

(* The pages of pools that have one to themselves.                         *)
LEMMA OwnAccounted ==
  ASSUME NEW roster, List(roster), NEW pages
  PROVE  /\ Accounted(ScrapeDeclaredSources(roster, pages), roster, OwnPlaces(roster),
                      OwnRead(roster, pages), ToldOf(roster, pages))
         /\ OwnNoted(ScrapeDeclaredSources(roster, pages), roster, pages)
<1> DEFINE I == OwnPlaces(roster)
           R == OwnRead(roster, pages)
           told == ToldOf(roster, pages)
           Good == {e \in Range(roster) : PageReads(pages[e.url])}
           Poor == {e \in Range(roster) : ~PageReads(pages[e.url])}
           sources == DeclaredSources(roster)
           read == Kept(sources, LAMBDA e : PageReads(pages[e.url]))
           failed == Kept(sources, LAMBDA e : ~PageReads(pages[e.url]))
           scrape == ScrapeDeclaredSources(roster, pages)
<1>1. sources = Arranged(roster, {<<0, i>> : i \in I})
  BY DEF DeclaredSources, Kept, OwnPlaces
<1>2. I \in SUBSET DOMAIN roster
  BY DEF OwnPlaces
<1>3. Keeps(sources, roster, I)
  <2> HIDE DEF I
  <2> QED
    BY <1>1, <1>2, KeptPlaces
<1> HIDE DEF sources
<1>4. List(sources) /\ \A k \in DOMAIN sources : sources[k] \in Range(roster)
  <2>1. List(sources) /\ \E at \in [DOMAIN sources -> I] : \A k \in DOMAIN sources : sources[k] = roster[at[k]]
    BY <1>3 DEF Keeps
  <2> QED
    BY <1>2, <2>1 DEF Range
<1>5. Keeps(read, sources, {k \in DOMAIN sources : sources[k] \in Good})
  <2>1. {k \in DOMAIN sources : sources[k] \in Good} = {k \in DOMAIN sources : PageReads(pages[sources[k].url])}
    BY <1>4
  <2>2. read = Arranged(sources, {<<0, k>> : k \in {j \in DOMAIN sources : PageReads(pages[sources[j].url])}})
    BY DEF Kept
  <2> HIDE DEF read, Good
  <2> QED
    BY <1>4, <2>1, <2>2, KeptPlaces
<1>6. Keeps(failed, sources, {k \in DOMAIN sources : sources[k] \in Poor})
  <2>1. {k \in DOMAIN sources : sources[k] \in Poor} = {k \in DOMAIN sources : ~PageReads(pages[sources[k].url])}
    BY <1>4
  <2>2. failed = Arranged(sources, {<<0, k>> : k \in {j \in DOMAIN sources : ~PageReads(pages[sources[j].url])}})
    BY DEF Kept
  <2> HIDE DEF failed, Poor
  <2> QED
    BY <1>4, <2>1, <2>2, KeptPlaces
<1>7. R = {i \in I : roster[i] \in Good} /\ I \ R = {i \in I : roster[i] \in Poor}
  BY <1>2 DEF OwnRead, Range
<1>8. R \in SUBSET DOMAIN roster /\ R \in SUBSET I
  BY <1>2, <1>7
<1>14. told = [i \in DOMAIN roster |->
                IF i \in I THEN PageAspectsOf(roster[i], pages[roster[i].url])
                ELSE SharedAspects(roster[i], SharedFacts(pages[roster[i].url]).value)]
  BY DEF ToldOf
<1>15. Apart(roster, I)
  BY <1>2, SeenTold DEF OwnPlaces, Apart
<1>16. /\ scrape.extracts = [k \in DOMAIN read |-> PageAspectsOf(read[k], pages[read[k].url])]
       /\ scrape.failures = [k \in DOMAIN failed |-> failed[k].url]
       /\ scrape.fetched = [k \in DOMAIN sources |-> sources[k].url]
       /\ scrape.notes = UNION {NotesOf(e, pages[e.url]) : e \in Range(read)}
  BY DEF ScrapeDeclaredSources, Mapped, sources
<1> HIDE DEF Good, Poor, read, failed, I, R, scrape, told
<1>9. Keeps(read, roster, R)
  BY <1>2, <1>3, <1>5, <1>7, KeptAgain
<1>10. Keeps(failed, roster, I \ R)
  BY <1>2, <1>3, <1>6, <1>7, KeptAgain
<1>11. List(scrape.extracts) /\ Matches(scrape.extracts, told, R)
  <2>1. PICK at \in Bijection(DOMAIN read, R) : \A k \in DOMAIN read : read[k] = roster[at[k]]
    BY <1>8, <1>9, KeepsMatch DEF Matches
  <2>2. \A k \in DOMAIN read : at[k] \in R
    BY <2>1 DEF Bijection, Injection
  <2>3. \A k \in DOMAIN read : scrape.extracts[k] = told[at[k]]
    BY <1>8, <1>14, <1>16, <2>1, <2>2
  <2>4. List(read)
    BY <1>9 DEF Keeps
  <2>5. List(scrape.extracts) /\ DOMAIN scrape.extracts = DOMAIN read
    BY <1>16, <2>4, MappedList
  <2> QED
    BY <2>1, <2>3, <2>5 DEF Matches
<1>12. ListsUrls(scrape.fetched, roster, I)
  BY <1>2, <1>3, <1>15, <1>16, UrlsOf
<1>13. ListsUrls(scrape.failures, roster, I \ R)
  <2>1. I \ R \in SUBSET DOMAIN roster /\ Apart(roster, I \ R)
    BY <1>2, <1>15 DEF Apart
  <2> QED
    BY <1>10, <1>16, <2>1, UrlsOf
<1>17. Accounted(scrape, roster, I, R, told)
  BY <1>11, <1>12, <1>13 DEF Accounted, ListsUrls
<1>18. ASSUME NEW i \in R PROVE NotesOf(roster[i], pages[roster[i].url]) \subseteq scrape.notes
  <2>1. PICK k \in DOMAIN read : read[k] = roster[i]
    BY <1>9 DEF Keeps
  <2>2. roster[i] \in Range(read)
    BY <2>1 DEF Range
  <2> QED
    BY <1>16, <2>2
<1>19. OwnNoted(scrape, roster, pages)
  BY <1>18 DEF OwnNoted, R
<1> QED
  BY <1>17, <1>19 DEF scrape, I, R, told

(* A place of one of m sequences.                                          *)
LEMMA SpotsRead ==
  ASSUME NEW seqs, NEW m \in Nat
  PROVE  /\ \A p \in Spots(seqs, m) : /\ p[1] \in 1..m /\ p[2] \in DOMAIN seqs[p[1]]
                                     /\ p = <<p[1], p[2]>>
         /\ \A a \in 1..m, b \in Nat : b \in DOMAIN seqs[a] => <<a, b>> \in Spots(seqs, m)
  BY DEF Spots

(* The members of the pages, each once.                                    *)
LEMMA FansOut ==
  ASSUME NEW s, NEW urls, List(urls), IsInjective(urls), NEW told,
         NEW seqs, List(seqs), DOMAIN seqs = DOMAIN urls, EachFans(seqs, s, urls, told)
  PROVE  List(FlattenSeq(seqs)) /\ Matches(FlattenSeq(seqs), told, Having(s, urls))
<1> DEFINE t == FlattenSeq(seqs)
           I == Having(s, urls)
           Those(a) == {i \in DOMAIN s : s[i].url = urls[a]}
<1>1. List(seqs) /\ DOMAIN seqs = DOMAIN urls /\ DOMAIN seqs = 1..Len(seqs) /\ Len(seqs) \in Nat
  BY Listing
<1>2. \A a \in DOMAIN seqs : List(seqs[a])
  BY <1>1 DEF EachFans
<1>3. Flattens(t, seqs, Len(seqs))
  BY <1>1, <1>2, Flattened
<1> HIDE DEF t
<1>4. PICK at \in [DOMAIN t -> Spots(seqs, Len(seqs))] :
        /\ \A k \in DOMAIN t : t[k] = seqs[at[k][1]][at[k][2]]
        /\ \A p \in Spots(seqs, Len(seqs)) : \E k \in DOMAIN t : at[k] = p
        /\ \A j, k \in DOMAIN t : at[j] = at[k] => j = k
  BY <1>3 DEF Flattens
<1> DEFINE mem == [a \in DOMAIN urls |->
                     CHOOSE to \in Bijection(DOMAIN seqs[a], Those(a)) :
                       \A b \in DOMAIN seqs[a] : seqs[a][b] = told[to[b]]]
<1>5. ASSUME NEW a \in DOMAIN urls
      PROVE  /\ mem[a] \in Bijection(DOMAIN seqs[a], Those(a))
             /\ \A b \in DOMAIN seqs[a] : seqs[a][b] = told[mem[a][b]]
  <2>1. Matches(seqs[a], told, Those(a))
    BY DEF EachFans
  <2> HIDE DEF Those
  <2> QED
    BY <2>1 DEF Matches
<1>6. ASSUME NEW a \in DOMAIN urls
      PROVE  /\ mem[a] \in [DOMAIN seqs[a] -> Those(a)]
             /\ \A i \in Those(a) : \E b \in DOMAIN seqs[a] : mem[a][b] = i
             /\ \A b, c \in DOMAIN seqs[a] : mem[a][b] = mem[a][c] => b = c
  <2> HIDE DEF mem, Those
  <2> QED
    BY <1>5 DEF Bijection, Injection, Surjection, IsInjective
<1> HIDE DEF mem
<1> DEFINE from == [k \in DOMAIN t |-> mem[at[k][1]][at[k][2]]]
<1>7. ASSUME NEW k \in DOMAIN t
      PROVE  /\ at[k][1] \in DOMAIN urls /\ at[k][2] \in DOMAIN seqs[at[k][1]]
             /\ at[k] = <<at[k][1], at[k][2]>>
             /\ from[k] \in Those(at[k][1]) /\ t[k] = told[from[k]]
  <2>6. at[k] \in Spots(seqs, Len(seqs))
    BY <1>4
  <2>1. at[k][1] \in DOMAIN urls /\ at[k][2] \in DOMAIN seqs[at[k][1]] /\ at[k] = <<at[k][1], at[k][2]>>
    BY <1>1, <2>6, SpotsRead
  <2>2. from[k] = mem[at[k][1]][at[k][2]]
    OBVIOUS
  <2> HIDE DEF from, Those
  <2>5. mem[at[k][1]] \in [DOMAIN seqs[at[k][1]] -> Those(at[k][1])]
    BY <1>6, <2>1
  <2>3. from[k] \in Those(at[k][1])
    BY <2>1, <2>2, <2>5
  <2>4. t[k] = told[from[k]]
    BY <1>4, <1>5, <2>1, <2>2
  <2> QED
    BY <2>1, <2>3, <2>4
<1>8. from \in [DOMAIN t -> I]
  <2>1. \A k \in DOMAIN t : from[k] \in I
    BY <1>7 DEF Having, Range
  <2> QED
    BY <2>1
<1>9. ASSUME NEW i \in I PROVE \E k \in DOMAIN t : from[k] = i
  <2>1. PICK a \in DOMAIN urls : s[i].url = urls[a] /\ i \in DOMAIN s
    BY DEF Having, Range
  <2>2. PICK b \in DOMAIN seqs[a] : mem[a][b] = i
    BY <1>6, <2>1
  <2>3. <<a, b>> \in Spots(seqs, Len(seqs))
    <3>1. List(seqs[a])
      BY <1>1, <1>2
    <3>2. DOMAIN seqs[a] = 1..Len(seqs[a]) /\ Len(seqs[a]) \in Nat
      BY <3>1, Listing
    <3> HIDE DEF Those
    <3>3. b \in DOMAIN seqs[a]
      BY <2>2
    <3>4. a \in 1..Len(seqs) /\ b \in Nat
      BY <1>1, <3>2, <3>3
    <3> QED
      BY <1>1, <3>3, <3>4, SpotsRead
  <2>4. PICK k \in DOMAIN t : at[k] = <<a, b>>
    BY <1>4, <2>3
  <2> QED
    BY <2>2, <2>4
<1>10. ASSUME NEW j \in DOMAIN t, NEW k \in DOMAIN t, from[j] = from[k] PROVE j = k
  <2>1. urls[at[j][1]] = urls[at[k][1]]
    BY <1>7, <1>10
  <2>2. at[j][1] = at[k][1]
    BY <1>7, <2>1 DEF IsInjective
  <2>3. mem[at[j][1]][at[j][2]] = mem[at[k][1]][at[k][2]]
    BY <1>10
  <2>4. at[j][2] = at[k][2]
    <3> HIDE DEF Those, from
    <3> QED
      BY <1>6, <1>7, <2>2, <2>3
  <2> QED
    BY <1>4, <1>7, <2>2, <2>4
<1> HIDE DEF from, I
<1>11. from \in Bijection(DOMAIN t, I)
  BY <1>8, <1>9, <1>10 DEF Bijection, Injection, Surjection, IsInjective
<1>12. Matches(t, told, I)
  BY <1>7, <1>11 DEF Matches
<1>13. List(t)
  BY <1>3 DEF Flattens
<1> QED
  BY <1>12, <1>13 DEF t, I

(* The pages that pools share.                                             *)
LEMMA SharedAccounted ==
  ASSUME NEW roster, List(roster), NEW pages
  PROVE  /\ Accounted(ScrapeSharedSources(roster, pages), roster, SharedPlaces(roster),
                      SharedRead(roster, pages), ToldOf(roster, pages))
         /\ SharedNoted(ScrapeSharedSources(roster, pages), roster, pages)
<1> DEFINE I == SharedPlaces(roster)
           R == SharedRead(roster, pages)
           told == ToldOf(roster, pages)
           S == {u \in Registered : Seen(roster, u) > 1}
           urls == SharedUrls(roster)
           good == {k \in DOMAIN urls : SharedFacts(pages[urls[k]]).ok}
           poor == {k \in DOMAIN urls : ~SharedFacts(pages[urls[k]]).ok}
           read == Kept(urls, LAMBDA u : SharedFacts(pages[u]).ok)
           failed == Kept(urls, LAMBDA u : ~SharedFacts(pages[u]).ok)
           seqs == [a \in DOMAIN read |-> FannedOut(roster, read[a], pages)]
           scrape == ScrapeSharedSources(roster, pages)
<1>1. S \in SUBSET Int /\ IsFiniteSet(S)
  <2>1. S \in SUBSET Registered
    OBVIOUS
  <2>2. Registered \in SUBSET Int /\ IsFiniteSet(Registered)
    BY RegisteredAssumption
  <2> HIDE DEF S
  <2> QED
    BY <2>1, <2>2, FS_Subset
<1>2. Ascends(urls, S)
  <2> HIDE DEF S
  <2>1. Ascends(Ascending(S), S)
    BY <1>1, AscendingTold
  <2> QED
    BY <2>1 DEF SharedUrls, S
<1> HIDE DEF urls
<1>3. List(urls) /\ IsInjective(urls) /\ Range(urls) = S
  <2>1. \A k \in DOMAIN urls : urls[k] \in Int
    BY <1>1, <1>2 DEF Ascends
  <2>2. DOMAIN urls = 1..Len(urls) /\ Len(urls) \in Nat
    BY <1>2, Listing DEF Ascends
  <2>3. ASSUME NEW j \in DOMAIN urls, NEW k \in DOMAIN urls, urls[j] = urls[k] PROVE j = k
    <3>1. ~(j < k) /\ ~(k < j)
      BY <1>2, <2>1, <2>3 DEF Ascends
    <3> QED
      BY <2>2, <3>1
  <2> HIDE DEF S
  <2> QED
    BY <1>2, <2>3 DEF Ascends, IsInjective, Range
<1>4. Keeps(read, urls, good)
  <2>1. read = Arranged(urls, {<<0, k>> : k \in good}) /\ good \in SUBSET DOMAIN urls
    BY DEF Kept
  <2> HIDE DEF read, good
  <2> QED
    BY <1>3, <2>1, KeptPlaces
<1>5. Keeps(failed, urls, poor)
  <2>1. failed = Arranged(urls, {<<0, k>> : k \in poor}) /\ poor \in SUBSET DOMAIN urls
    BY DEF Kept
  <2> HIDE DEF failed, poor
  <2> QED
    BY <1>3, <2>1, KeptPlaces
<1> HIDE DEF read, failed, S
<1>6. List(read) /\ IsInjective(read) /\ Range(read) = {u \in S : SharedFacts(pages[u]).ok}
  <2>1. good \in SUBSET DOMAIN urls
    OBVIOUS
  <2>2. PICK at \in Bijection(DOMAIN read, good) : \A k \in DOMAIN read : read[k] = urls[at[k]]
    <3> HIDE DEF good
    <3> QED
      BY <1>3, <1>4, <2>1, KeepsMatch DEF Matches
  <2>3. /\ at \in [DOMAIN read -> good]
        /\ \A i \in good : \E k \in DOMAIN read : at[k] = i
        /\ \A j, k \in DOMAIN read : at[j] = at[k] => j = k
    <3> HIDE DEF good
    <3> QED
      BY <2>2 DEF Bijection, Injection, Surjection, IsInjective
  <2>4. IsInjective(read)
    BY <1>3, <2>2, <2>3 DEF IsInjective
  <2>5. List(read)
    BY <1>4 DEF Keeps
  <2>6. ASSUME NEW k \in DOMAIN read PROVE read[k] \in {u \in S : SharedFacts(pages[u]).ok}
    BY <1>3, <2>2, <2>3 DEF Range
  <2>7. ASSUME NEW u \in S, SharedFacts(pages[u]).ok PROVE u \in Range(read)
    <3>1. PICK i \in DOMAIN urls : urls[i] = u
      BY <1>3 DEF Range
    <3>2. PICK k \in DOMAIN read : at[k] = i
      BY <2>3, <2>7, <3>1
    <3> QED
      BY <2>2, <3>1, <3>2 DEF Range
  <2> QED
    BY <2>4, <2>5, <2>6, <2>7 DEF Range
<1>7. List(failed) /\ IsInjective(failed) /\ Range(failed) = {u \in S : ~SharedFacts(pages[u]).ok}
  <2>1. poor \in SUBSET DOMAIN urls
    OBVIOUS
  <2>2. PICK at \in Bijection(DOMAIN failed, poor) : \A k \in DOMAIN failed : failed[k] = urls[at[k]]
    <3> HIDE DEF poor
    <3> QED
      BY <1>3, <1>5, <2>1, KeepsMatch DEF Matches
  <2>3. /\ at \in [DOMAIN failed -> poor]
        /\ \A i \in poor : \E k \in DOMAIN failed : at[k] = i
        /\ \A j, k \in DOMAIN failed : at[j] = at[k] => j = k
    <3> HIDE DEF poor
    <3> QED
      BY <2>2 DEF Bijection, Injection, Surjection, IsInjective
  <2>4. IsInjective(failed)
    BY <1>3, <2>2, <2>3 DEF IsInjective
  <2>5. List(failed)
    BY <1>5 DEF Keeps
  <2>6. ASSUME NEW k \in DOMAIN failed PROVE failed[k] \in {u \in S : ~SharedFacts(pages[u]).ok}
    BY <1>3, <2>2, <2>3 DEF Range
  <2>7. ASSUME NEW u \in S, ~SharedFacts(pages[u]).ok PROVE u \in Range(failed)
    <3>1. PICK i \in DOMAIN urls : urls[i] = u
      BY <1>3 DEF Range
    <3>2. PICK k \in DOMAIN failed : at[k] = i
      BY <2>3, <2>7, <3>1
    <3> QED
      BY <2>2, <3>1, <3>2 DEF Range
  <2> QED
    BY <2>4, <2>5, <2>6, <2>7 DEF Range
<1>8. /\ scrape.extracts = FlattenSeq(seqs) /\ scrape.failures = failed /\ scrape.fetched = urls
      /\ scrape.notes = {<<"inert", u>> : u \in {r \in Registered : Seen(roster, r) < 2}}
                          \cup {<<"no admission stated", u>> :
                                  u \in {r \in Range(read) : SharedFacts(pages[r]).value.admission = "unknown"}}
  BY DEF ScrapeSharedSources, Mapped, read, failed, urls
<1> HIDE DEF scrape
<1>9. /\ I = {i \in DOMAIN roster : roster[i].url \in S}
      /\ R = {i \in DOMAIN roster : roster[i].url \in Range(read)}
  <2>1. I = {i \in DOMAIN roster : roster[i].url \in S}
    BY DEF SharedPlaces, S
  <2> QED
    BY <1>6, <2>1 DEF SharedRead
<1>10. \A u \in S : \E i \in DOMAIN roster : roster[i].url = u
  <2> SUFFICES ASSUME NEW u \in S, {i \in DOMAIN roster : roster[i].url = u} = {} PROVE FALSE
    OBVIOUS
  <2>1. Seen(roster, u) = 0
    BY FS_EmptySet DEF Seen
  <2> QED
    BY <2>1 DEF S
<1>11. ASSUME NEW a \in DOMAIN read
       PROVE List(seqs[a]) /\ Matches(seqs[a], told, {i \in DOMAIN roster : roster[i].url = read[a]})
  <2> DEFINE u == read[a]
             J == {i \in DOMAIN roster : roster[i].url = u}
             sharers == Sharers(roster, u)
  <2>1. Keeps(sharers, roster, J)
    <3>1. sharers = Arranged(roster, {<<0, i>> : i \in J}) /\ J \in SUBSET DOMAIN roster
      BY DEF Sharers, Kept
    <3> HIDE DEF sharers, J
    <3> QED
      BY <3>1, KeptPlaces
  <2>2. u \in S
    BY <1>6 DEF Range
  <2>3. seqs[a] = [b \in DOMAIN sharers |-> SharedAspects(sharers[b], SharedFacts(pages[u]).value)]
    BY DEF FannedOut, Mapped
  <2> HIDE DEF sharers, seqs, u
  <2>4. PICK at \in Bijection(DOMAIN sharers, J) : \A k \in DOMAIN sharers : sharers[k] = roster[at[k]]
    <3>1. J \in SUBSET DOMAIN roster
      OBVIOUS
    <3> HIDE DEF J
    <3> QED
      BY <2>1, <3>1, KeepsMatch DEF Matches
  <2>5. \A k \in DOMAIN sharers : at[k] \in J
    <3> HIDE DEF J
    <3> QED
      BY <2>4 DEF Bijection, Injection
  <2>6. \A i \in J : told[i] = SharedAspects(roster[i], SharedFacts(pages[u]).value)
    <3> SUFFICES ASSUME NEW i \in J PROVE told[i] = SharedAspects(roster[i], SharedFacts(pages[u]).value)
      OBVIOUS
    <3>1. roster[i].url = u /\ i \in DOMAIN roster
      OBVIOUS
    <3>2. Seen(roster, u) # 1
      BY <2>2, SeenTold DEF S
    <3>3. i \notin OwnPlaces(roster)
      BY <3>1, <3>2 DEF OwnPlaces
    <3> QED
      BY <3>1, <3>3 DEF ToldOf
  <2>7. List(seqs[a]) /\ DOMAIN seqs[a] = DOMAIN sharers
    <3>1. List(sharers)
      BY <2>1 DEF Keeps
    <3> QED
      BY <2>3, <3>1, MappedList
  <2>8. \A k \in DOMAIN sharers : seqs[a][k] = told[at[k]]
    <3> HIDE DEF J, told
    <3> QED
      BY <2>3, <2>4, <2>5, <2>6
  <2>9. Matches(seqs[a], told, J)
    <3> HIDE DEF J, told
    <3> QED
      BY <2>4, <2>7, <2>8 DEF Matches
  <2> QED
    BY <2>7, <2>9 DEF u
<1>12. List(scrape.extracts) /\ Matches(scrape.extracts, told, R)
  <2>1. EachFans(seqs, roster, read, told)
    <3> HIDE DEF seqs, told
    <3> QED
      BY <1>11 DEF EachFans
  <2>2. List(seqs) /\ DOMAIN seqs = DOMAIN read
    BY <1>6, MappedList
  <2>3. R = Having(roster, read)
    BY <1>9 DEF Having
  <2> HIDE DEF seqs, told, R
  <2> QED
    BY <1>6, <1>8, <2>1, <2>2, <2>3, FansOut
<1>13. S = {roster[i].url : i \in I}
  <2> HIDE DEF I
  <2> QED
    BY <1>9, <1>10
<1>14. Range(failed) = {roster[i].url : i \in I \ R}
  <2>1. \A i \in I \ R : roster[i].url \in S /\ ~SharedFacts(pages[roster[i].url]).ok
    BY <1>9 DEF SharedRead
  <2>2. ASSUME NEW u \in S, ~SharedFacts(pages[u]).ok PROVE \E i \in I \ R : roster[i].url = u
    <3>1. PICK i \in DOMAIN roster : roster[i].url = u
      BY <1>10
    <3> QED
      BY <1>9, <2>2, <3>1 DEF SharedRead
  <2> HIDE DEF I, R
  <2> QED
    BY <1>7, <2>1, <2>2
<1> HIDE DEF I, R, told
<1>15. Accounted(scrape, roster, I, R, told)
  BY <1>3, <1>7, <1>8, <1>12, <1>13, <1>14 DEF Accounted
<1>16. SharedNoted(scrape, roster, pages)
  <2>1. \A i \in R : roster[i].url \in Range(read)
    BY <1>9
  <2> QED
    BY <1>8, <2>1 DEF SharedNoted, R
<1> QED
  BY <1>15, <1>16 DEF scrape, I, R, told

(* The pools of a page are all read or none.                               *)
LEMMA PagesAreWhole ==
  ASSUME NEW roster, List(roster), NEW pages
  PROVE  /\ AllOrNone(roster, OwnPlaces(roster)) /\ AllOrNone(roster, SharedPlaces(roster))
         /\ AllOrNone(roster, ReadPlaces(roster, pages))
         /\ OwnPlaces(roster) \cap SharedPlaces(roster) = {}
         /\ Places(roster) \in SUBSET DOMAIN roster
<1>1. \A i \in OwnPlaces(roster), j \in DOMAIN roster : roster[j].url = roster[i].url => j = i
  BY SeenTold DEF OwnPlaces
<1>2. AllOrNone(roster, OwnPlaces(roster))
  BY <1>1 DEF AllOrNone
<1>3. AllOrNone(roster, SharedPlaces(roster))
  BY DEF AllOrNone, SharedPlaces
<1>4. \A u : Seen(roster, u) = 1 => ~(Seen(roster, u) > 1)
  OBVIOUS
<1>5. OwnPlaces(roster) \cap SharedPlaces(roster) = {}
  BY <1>4 DEF OwnPlaces, SharedPlaces
<1>6. AllOrNone(roster, OwnRead(roster, pages))
  BY <1>1 DEF AllOrNone, OwnRead
<1>7. AllOrNone(roster, SharedRead(roster, pages))
  BY <1>3 DEF AllOrNone, SharedRead
<1>8. AllOrNone(roster, ReadPlaces(roster, pages))
  BY <1>6, <1>7 DEF AllOrNone, ReadPlaces
<1>9. Places(roster) \in SUBSET DOMAIN roster
  BY DEF Places, OwnPlaces, SharedPlaces
<1> QED
  BY <1>2, <1>3, <1>5, <1>8, <1>9

(* Both phases, one after the other.                                       *)
LEMMA PhasesAccounted ==
  ASSUME NEW roster, List(roster), NEW pages,
         NEW own, own = ScrapeDeclaredSources(roster, pages),
         NEW shared, shared = ScrapeSharedSources(roster, pages),
         NEW scrape, scrape = [extracts |-> own.extracts \o shared.extracts,
                               failures |-> own.failures \o shared.failures,
                               notes |-> own.notes \cup shared.notes,
                               fetched |-> own.fetched \o shared.fetched]
  PROVE  Scraped(scrape, roster, pages)
<1> DEFINE I == OwnPlaces(roster)
           J == SharedPlaces(roster)
           R == OwnRead(roster, pages)
           Q == SharedRead(roster, pages)
           told == ToldOf(roster, pages)
<1>1. Accounted(own, roster, I, R, told) /\ Accounted(shared, roster, J, Q, told)
  BY OwnAccounted, SharedAccounted
<1>2. OwnNoted(scrape, roster, pages) /\ SharedNoted(scrape, roster, pages)
  <2>1. OwnNoted(own, roster, pages) /\ SharedNoted(shared, roster, pages)
    BY OwnAccounted, SharedAccounted
  <2>2. own.notes \subseteq scrape.notes /\ shared.notes \subseteq scrape.notes
    OBVIOUS
  <2> QED
    BY <2>1, <2>2 DEF OwnNoted, SharedNoted
<1>3. R \subseteq I /\ Q \subseteq J /\ I \cap J = {} /\ I \subseteq DOMAIN roster /\ J \subseteq DOMAIN roster
  BY PagesAreWhole DEF OwnRead, SharedRead, Places
<1>4. \A i \in I, j \in J : roster[i].url # roster[j].url
  BY <1>3, PagesAreWhole DEF AllOrNone
<1>5. /\ scrape.extracts = own.extracts \o shared.extracts
      /\ scrape.failures = own.failures \o shared.failures
      /\ scrape.fetched = own.fetched \o shared.fetched
  OBVIOUS
<1> HIDE DEF I, J, R, Q, told
<1>6. List(scrape.extracts) /\ Matches(scrape.extracts, told, R \cup Q)
  <2>1. List(own.extracts) /\ Matches(own.extracts, told, R) /\ List(shared.extracts) /\ Matches(shared.extracts, told, Q)
    BY <1>1 DEF Accounted
  <2>2. R \cap Q = {}
    BY <1>3
  <2> QED
    BY <1>5, <2>1, <2>2, Joined, MatchesJoined DEF Joins
<1>7. /\ List(scrape.fetched) /\ IsInjective(scrape.fetched)
      /\ Range(scrape.fetched) = {roster[i].url : i \in I \cup J}
  <2>1. /\ List(own.fetched) /\ IsInjective(own.fetched) /\ Range(own.fetched) = {roster[i].url : i \in I}
        /\ List(shared.fetched) /\ IsInjective(shared.fetched) /\ Range(shared.fetched) = {roster[i].url : i \in J}
    BY <1>1 DEF Accounted
  <2>2. Range(own.fetched) \cap Range(shared.fetched) = {}
    BY <1>4, <2>1
  <2>3. {roster[i].url : i \in I} \cup {roster[i].url : i \in J} = {roster[i].url : i \in I \cup J}
    OBVIOUS
  <2>4. IsInjective(scrape.fetched) /\ Range(scrape.fetched) = Range(own.fetched) \cup Range(shared.fetched)
    BY <1>5, <2>1, <2>2, InjectiveJoined
  <2>5. List(scrape.fetched)
    BY <1>5, <2>1, Joined DEF Joins
  <2> QED
    BY <2>1, <2>3, <2>4, <2>5
<1>8. /\ List(scrape.failures) /\ IsInjective(scrape.failures)
      /\ Range(scrape.failures) = {roster[i].url : i \in (I \cup J) \ (R \cup Q)}
  <2>1. /\ List(own.failures) /\ IsInjective(own.failures) /\ Range(own.failures) = {roster[i].url : i \in I \ R}
        /\ List(shared.failures) /\ IsInjective(shared.failures) /\ Range(shared.failures) = {roster[i].url : i \in J \ Q}
    BY <1>1 DEF Accounted
  <2>2. Range(own.failures) \cap Range(shared.failures) = {}
    BY <1>4, <2>1
  <2>3. (I \cup J) \ (R \cup Q) = (I \ R) \cup (J \ Q)
    BY <1>3
  <2>4. {roster[i].url : i \in I \ R} \cup {roster[i].url : i \in J \ Q} = {roster[i].url : i \in (I \ R) \cup (J \ Q)}
    OBVIOUS
  <2>5. IsInjective(scrape.failures) /\ Range(scrape.failures) = Range(own.failures) \cup Range(shared.failures)
    BY <1>5, <2>1, <2>2, InjectiveJoined
  <2>6. List(scrape.failures)
    BY <1>5, <2>1, Joined DEF Joins
  <2> QED
    BY <2>1, <2>3, <2>4, <2>5, <2>6
<1>9. Accounted(scrape, roster, I \cup J, R \cup Q, told)
  BY <1>6, <1>7, <1>8 DEF Accounted
<1> QED
  BY <1>2, <1>9 DEF Scraped, Places, ReadPlaces, I, J, R, Q, told

(* Matching keeps how many there are of a name.                            *)
LEMMA MatchedAsMany ==
  ASSUME NEW t, List(t), NEW told, NEW I, Matches(t, told, I), NEW name
  PROVE  NamedAlike(t, told, I, name)
<1> DEFINE J == {k \in DOMAIN t : t[k].name = name}
           K == {i \in I : told[i].name = name}
<1>1. PICK at \in Bijection(DOMAIN t, I) : \A k \in DOMAIN t : t[k] = told[at[k]]
  BY DEF Matches
<1>2. DOMAIN t = 1..Len(t) /\ Len(t) \in Nat
  BY Listing
<1>3. IsFiniteSet(J)
  <2>1. IsFiniteSet(1..Len(t))
    BY <1>2, Numbered
  <2>2. J \in SUBSET (1..Len(t))
    BY <1>2
  <2> QED
    BY <2>1, <2>2, FS_Subset
<1> DEFINE f == [k \in J |-> at[k]]
<1>4. at \in [DOMAIN t -> I] /\ (\A i \in I : \E k \in DOMAIN t : at[k] = i)
      /\ \A j, k \in DOMAIN t : at[j] = at[k] => j = k
  BY <1>1 DEF Bijection, Injection, Surjection, IsInjective
<1>5. f \in [J -> K]
  BY <1>1, <1>4
<1>6. \A i \in K : \E k \in J : f[k] = i
  BY <1>1, <1>4
<1>7. \A j, k \in J : f[j] = f[k] => j = k
  BY <1>4
<1> HIDE DEF f, J, K
<1>8. f \in Bijection(J, K)
  BY <1>5, <1>6, <1>7 DEF Bijection, Injection, Surjection, IsInjective
<1>9. Cardinality(J) = Cardinality(K)
  BY <1>3, <1>8, FS_Bijection DEF ExistsBijection
<1> QED
  BY <1>9 DEF J, K, NamedAlike

(* What a scrape returns of layers that all answer.                        *)
LEMMA ScrapeTold ==
  ASSUME NEW layers \in Seq(Layer), NEW pages, NEW result, result = Scrape(layers, pages), result.ok
  PROVE  /\ Pooled(FetchAllPools(layers).value, layers)
         /\ Scraped(result.value, FetchAllPools(layers).value, pages)
<1> DEFINE fetched == FetchAllPools(layers)
           roster == fetched.value
           own == ScrapeDeclaredSources(roster, pages)
           shared == ScrapeSharedSources(roster, pages)
           scrape == [extracts |-> own.extracts \o shared.extracts,
                      failures |-> own.failures \o shared.failures,
                      notes |-> own.notes \cup shared.notes,
                      fetched |-> own.fetched \o shared.fetched]
<1>1. fetched.ok
  <2> HIDE DEF fetched
  <2>1. ASSUME ~fetched.ok PROVE FALSE
    <3>1. result = Refusal
      BY <2>1 DEF Scrape, fetched
    <3> QED
      BY <3>1 DEF Refusal
  <2> QED
    BY <2>1
<1>2. Pooled(roster, layers)
  BY <1>1, RosterTold, Zenon
<1>3. result.value = scrape
  <2>1. result = Read(scrape)
    BY <1>1, Zenon DEF Scrape
  <2> HIDE DEF scrape
  <2> QED
    BY <2>1 DEF Read
<1>4. List(roster)
  BY <1>2 DEF Pooled
<1> HIDE DEF roster
<1>5. Scraped(scrape, roster, pages)
  <2> DEFINE s == scrape
  <2>1. s = scrape
    OBVIOUS
  <2> HIDE DEF s
  <2>2. Scraped(s, roster, pages)
    BY <1>4, <2>1, PhasesAccounted
  <2> QED
    BY <2>1, <2>2
<1> QED
  BY <1>2, <1>3, <1>5 DEF roster

(* A page's account, whatever the layers and the pages say                 *)
(* (scrape.py:346).                                                        *)
THEOREM PagesAreReadOnce ==
  ASSUME NEW layers \in Seq(Layer), NEW pages
  PROVE  PagesReadOnce(layers, Scrape(layers, pages))
<1> DEFINE result == Scrape(layers, pages)
           scrape == result.value
           roster == FetchAllPools(layers).value
           reads == Range(scrape.fetched) \ Range(scrape.failures)
           R == ReadPlaces(roster, pages)
           I == Places(roster)
           told == ToldOf(roster, pages)
<1>1. CASE result.ok
  <2>1. Pooled(roster, layers) /\ Scraped(scrape, roster, pages)
    BY <1>1, ScrapeTold
  <2> HIDE DEF result, roster
  <2>2. List(roster)
    BY <2>1 DEF Pooled
  <2>3. /\ List(scrape.extracts) /\ Matches(scrape.extracts, told, R)
        /\ IsInjective(scrape.fetched) /\ IsInjective(scrape.failures)
        /\ Range(scrape.fetched) = {roster[i].url : i \in I}
        /\ Range(scrape.failures) = {roster[i].url : i \in I \ R}
    BY <2>1 DEF Scraped, Accounted
  <2>4. AllOrNone(roster, R) /\ I \in SUBSET DOMAIN roster /\ R \in SUBSET I
    BY <2>2, PagesAreWhole DEF ReadPlaces, OwnRead, SharedRead, Places
  <2>5. AllOrNone(roster, I)
    BY <2>2, PagesAreWhole DEF AllOrNone, Places
  <2> HIDE DEF I, R, told
  <2>6. \A i \in DOMAIN roster : roster[i].url \in reads <=> i \in R
    BY <2>3, <2>4, <2>5 DEF AllOrNone
  <2>7. \A i \in R : told[i].name = roster[i].name
    <3>1. \A i \in DOMAIN roster : told[i].name = roster[i].name
      BY DEF told, ToldOf, PageAspectsOf, SharedAspects
    <3> QED
      BY <2>4, <3>1
  <2>8. ASSUME NEW name
        PROVE Cardinality({k \in DOMAIN scrape.extracts : scrape.extracts[k].name = name}) =
                Cardinality({i \in DOMAIN roster : roster[i].name = name /\ roster[i].url \in reads})
    <3>1. {i \in R : told[i].name = name} = {i \in DOMAIN roster : roster[i].name = name /\ roster[i].url \in reads}
      BY <2>4, <2>6, <2>7
    <3>2. List(scrape.extracts) /\ Matches(scrape.extracts, told, R)
      BY <2>3
    <3> HIDE DEF scrape, reads
    <3>3. NamedAlike(scrape.extracts, told, R, name)
      BY <3>2, MatchedAsMany
    <3> QED
      BY <3>1, <3>3, Zenon DEF NamedAlike
  <2>9. Range(scrape.failures) \subseteq Range(scrape.fetched)
    BY <2>3
  <2> HIDE DEF scrape, reads
  <2>10. PagesReadOnce(layers, result)
    BY <2>3, <2>8, <2>9 DEF PagesReadOnce, scrape, roster, reads
  <2> QED
    BY <2>10 DEF result
<1>2. CASE ~result.ok
  BY <1>2 DEF PagesReadOnce
<1> QED
  BY <1>1, <1>2

(* A drifting roster is noted, and so is a hole in an admission            *)
(* (scrape.py:401).                                                        *)
THEOREM DriftIsNoted ==
  ASSUME NEW layers \in Seq(Layer), NEW pages
  PROVE  DriftNoted(layers, Scrape(layers, pages))
<1> DEFINE result == Scrape(layers, pages)
           scrape == result.value
           roster == FetchAllPools(layers).value
           R == ReadPlaces(roster, pages)
           told == ToldOf(roster, pages)
<1>1. CASE result.ok
  <2>1. Pooled(roster, layers) /\ Scraped(scrape, roster, pages)
    BY <1>1, ScrapeTold
  <2> HIDE DEF result, roster
  <2>2. List(roster)
    BY <2>1 DEF Pooled
  <2>3. /\ Matches(scrape.extracts, told, R)
        /\ Range(scrape.fetched) = {roster[i].url : i \in Places(roster)}
    BY <2>1 DEF Scraped, Accounted
  <2>4. ASSUME NEW u \in Registered, u \notin Range(scrape.fetched) PROVE <<"inert", u>> \in scrape.notes
    <3>1. CASE Seen(roster, u) < 2
      BY <2>1, <3>1 DEF Scraped, SharedNoted
    <3>2. CASE Seen(roster, u) > 1
      <4>1. {i \in DOMAIN roster : roster[i].url = u} # {}
        <5> DEFINE here == {i \in DOMAIN roster : roster[i].url = u}
        <5>1. Seen(roster, u) = Cardinality(here)
          BY DEF Seen
        <5> HIDE DEF here
        <5>2. ASSUME here = {} PROVE FALSE
          <6>1. Cardinality(here) = 0
            BY <5>2, FS_EmptySet
          <6>2. Seen(roster, u) = 0
            BY <5>1, <6>1
          <6> QED
            BY <3>2, <6>2
        <5> QED
          BY <5>2 DEF here
      <4>2. PICK i \in DOMAIN roster : roster[i].url = u
        BY <4>1
      <4>3. i \in SharedPlaces(roster)
        BY <3>2, <4>2 DEF SharedPlaces
      <4> QED
        BY <2>3, <2>4, <4>2, <4>3 DEF Places
    <3>3. Seen(roster, u) \in Nat
      BY <2>2, SeenTold
    <3> QED
      BY <3>1, <3>2, <3>3
  <2>5. ASSUME NEW x \in Range(scrape.extracts), x.admission.kind = "unknown"
        PROVE  \E e \in Range(roster) :
                 /\ e.name = x.name
                 /\ {<<"no tariff stated", e.id>>, <<"no admission stated", e.url>>} \cap scrape.notes # {}
    <3>1. PICK i \in R : x = told[i]
      <4>1. PICK at \in Bijection(DOMAIN scrape.extracts, R) :
              \A k \in DOMAIN scrape.extracts : scrape.extracts[k] = told[at[k]]
        BY <2>3 DEF Matches
      <4>2. \A k \in DOMAIN scrape.extracts : at[k] \in R
        BY <4>1 DEF Bijection, Injection
      <4> QED
        BY <2>5, <4>1, <4>2 DEF Range
    <3>2. CASE i \in OwnRead(roster, pages)
      <4>1. i \in OwnPlaces(roster) /\ i \in DOMAIN roster
        BY <3>2 DEF OwnRead, OwnPlaces
      <4>2. x = PageAspectsOf(roster[i], pages[roster[i].url])
        BY <3>1, <4>1 DEF ToldOf
      <4>3. x.name = roster[i].name /\ x.admission = AdmissionFor(roster[i], pages[roster[i].url])
        BY <4>2 DEF PageAspectsOf
      <4>4. <<"no tariff stated", roster[i].id>> \in NotesOf(roster[i], pages[roster[i].url])
        BY <2>5, <4>3 DEF NotesOf
      <4>5. <<"no tariff stated", roster[i].id>> \in scrape.notes
        BY <2>1, <3>2, <4>4 DEF Scraped, OwnNoted
      <4>6. roster[i] \in Range(roster)
        BY <4>1 DEF Range
      <4> QED
        BY <4>3, <4>5, <4>6
    <3>3. CASE i \in SharedRead(roster, pages)
      <4>1. i \in DOMAIN roster /\ i \notin OwnPlaces(roster)
        BY <2>2, <3>3, PagesAreWhole DEF SharedRead, SharedPlaces
      <4>2. x = SharedAspects(roster[i], SharedFacts(pages[roster[i].url]).value)
        BY <3>1, <4>1 DEF ToldOf
      <4>3. x.name = roster[i].name /\ x.admission.kind = SharedFacts(pages[roster[i].url]).value.admission
        BY <4>2 DEF SharedAspects
      <4>5. <<"no admission stated", roster[i].url>> \in scrape.notes
        BY <2>1, <2>5, <3>3, <4>3 DEF Scraped, SharedNoted
      <4>6. roster[i] \in Range(roster)
        BY <4>1 DEF Range
      <4> QED
        BY <4>3, <4>5, <4>6
    <3> QED
      BY <3>1, <3>2, <3>3 DEF ReadPlaces
  <2> HIDE DEF scrape
  <2>6. DriftNoted(layers, result)
    BY <2>4, <2>5 DEF DriftNoted, scrape, roster
  <2> QED
    BY <2>6 DEF result
<1>2. CASE ~result.ok
  BY <1>2 DEF DriftNoted
<1> QED
  BY <1>1, <1>2

(* A kept list holds what stands at the places kept, and nothing else.     *)
LEMMA KeptIsDrawn ==
  ASSUME NEW s, List(s), NEW I \in SUBSET DOMAIN s, NEW t, Keeps(t, s, I)
  PROVE  Draws(t, s, I)
<1>1. PICK at \in [DOMAIN t -> I] :
        /\ \A k \in DOMAIN t : t[k] = s[at[k]]
        /\ \A i \in I : \E k \in DOMAIN t : at[k] = i
  BY DEF Keeps
<1>2. \A k \in DOMAIN t : at[k] \in I
  BY <1>1
<1>3. List(t)
  BY DEF Keeps
<1> QED
  BY <1>1, <1>2, <1>3 DEF DrawnFrom, Draws

(* The closures are those the banners announce.                            *)
AsBanners(closures, banners) ==
  /\ List(closures)
  /\ \A c \in Range(closures) : \E b \in Range(banners) : b.from = c.start /\ b.to = c.end
  /\ \A b \in Range(banners) : Closing(b) => \E c \in Range(closures) : c.start = b.from /\ c.end = b.to

(* What _closures_from_notices returns.                                    *)
LEMMA BannersTold ==
  ASSUME NEW banners, List(banners)
  PROVE  AsBanners(ClosuresFromNotices(ParseNotices(banners)), banners)
<1> DEFINE texts == Kept(banners, LAMBDA b : b.text # "none")
           I == {i \in DOMAIN banners : banners[i].text # "none"}
           notices == ParseNotices(banners)
           J == {i \in DOMAIN notices : Closing(notices[i])}
           closing == Kept(notices, Closing)
           closures == ClosuresFromNotices(notices)
<1>1. texts = Arranged(banners, {<<0, i>> : i \in I}) /\ I \in SUBSET DOMAIN banners
  BY DEF Kept
<1>2. notices = Once(texts)
  BY DEF ParseNotices, Once
<1>3. closing = Arranged(notices, {<<0, i>> : i \in J}) /\ J \in SUBSET DOMAIN notices
  BY DEF Kept
<1>4. closures = [k \in DOMAIN closing |-> [start |-> closing[k].from, end |-> closing[k].to, reason |-> closing[k].text]]
  BY DEF ClosuresFromNotices, Mapped
<1>5. \A i \in DOMAIN banners : Closing(banners[i]) => i \in I
  BY DEF Closing
<1>6. \A i \in DOMAIN notices : Closing(notices[i]) => i \in J
  OBVIOUS
<1> HIDE DEF texts, I, notices, J, closing, closures
<1>7. /\ DrawnFrom(texts, banners)
      /\ \A i \in I : \E k \in DOMAIN texts : texts[k] = banners[i]
  <2>1. Keeps(texts, banners, I)
    BY <1>1, KeptPlaces
  <2>2. Draws(texts, banners, I)
    BY <1>1, <2>1, KeptIsDrawn
  <2> QED
    BY <2>2 DEF Draws
<1>8. Onces(notices, texts)
  BY <1>2, <1>7, EachOnce DEF DrawnFrom
<1>9. /\ DrawnFrom(closing, notices)
      /\ \A i \in J : \E k \in DOMAIN closing : closing[k] = notices[i]
  <2>1. List(notices)
    BY <1>8 DEF Onces
  <2>2. Keeps(closing, notices, J)
    BY <1>3, <2>1, KeptPlaces
  <2>3. Draws(closing, notices, J)
    BY <1>3, <2>1, <2>2, KeptIsDrawn
  <2> QED
    BY <2>3 DEF Draws
<1>10. List(closures)
  BY <1>4, <1>9, MappedList DEF DrawnFrom
<1>11. ASSUME NEW k \in DOMAIN closures
       PROVE \E b \in Range(banners) : b.from = closures[k].start /\ b.to = closures[k].end
  <2>1. k \in DOMAIN closing /\ closures[k].start = closing[k].from /\ closures[k].end = closing[k].to
    BY <1>4
  <2>2. PICK i \in DOMAIN notices : closing[k] = notices[i]
    BY <1>9, <2>1 DEF DrawnFrom
  <2>3. PICK j \in DOMAIN texts : notices[i] = texts[j]
    BY <1>8 DEF Onces
  <2>4. PICK h \in DOMAIN banners : texts[j] = banners[h]
    BY <1>7 DEF DrawnFrom
  <2> QED
    BY <2>1, <2>2, <2>3, <2>4 DEF Range
<1>12. ASSUME NEW h \in DOMAIN banners, Closing(banners[h])
       PROVE \E k \in DOMAIN closures : closures[k].start = banners[h].from /\ closures[k].end = banners[h].to
  <2>1. PICK j \in DOMAIN texts : texts[j] = banners[h]
    BY <1>5, <1>7, <1>12
  <2>2. PICK i \in DOMAIN notices : notices[i] = texts[j]
    BY <1>8 DEF Onces
  <2>3. PICK k \in DOMAIN closing : closing[k] = notices[i]
    BY <1>6, <1>9, <1>12, <2>1, <2>2
  <2> QED
    BY <1>4, <2>1, <2>2, <2>3
<1>13. AsBanners(closures, banners)
  BY <1>10, <1>11, <1>12 DEF AsBanners, Range
<1> QED
  BY <1>13 DEF closures, notices

LEMMA EachKeyOnce ==
  ASSUME NEW s, List(s), NEW key
  PROVE  FirstOfEach(Arranged(s, {<<0, i>> : i \in FirstPlaces(s, key)}), s, key)
<1> DEFINE I == FirstPlaces(s, key)
           t == Arranged(s, {<<0, i>> : i \in I})
<1>2. Len(s) \in Nat /\ DOMAIN s = 1..Len(s)
  BY Listing
<1>1. I \in SUBSET DOMAIN s /\ \A j \in DOMAIN s : j \in I <=> \A k \in 1..(j - 1) : key[k] # key[j]
  BY DEF FirstPlaces
<1> HIDE DEF I
<1>3. Keeps(t, s, I)
  BY <1>1, KeptPlaces
<1> HIDE DEF t
<1>4. PICK at \in Bijection(DOMAIN t, I) : \A k \in DOMAIN t : t[k] = s[at[k]]
  BY <1>1, <1>3, KeepsMatch DEF Matches
<1>5. at \in [DOMAIN t -> I] /\ (\A i \in I : \E k \in DOMAIN t : at[k] = i)
      /\ \A j, k \in DOMAIN t : at[j] = at[k] => j = k
  BY <1>4 DEF Bijection, Injection, Surjection, IsInjective
<1>6. \A i, j \in I : key[i] = key[j] => i = j
  <2> SUFFICES ASSUME NEW i \in I, NEW j \in I, key[i] = key[j] PROVE i = j
    OBVIOUS
  <2>1. i \in 1..Len(s) /\ j \in 1..Len(s)
    BY <1>1, <1>2
  <2>2. ~(i \in 1..(j - 1)) /\ ~(j \in 1..(i - 1))
    BY <1>1
  <2> QED
    BY <1>2, <2>1, <2>2
<1>7. ASSUME NEW i \in DOMAIN s PROVE \E j \in I : key[j] = key[i]
  <2> DEFINE Same == {j \in DOMAIN s : key[j] = key[i]}
             m == Min(Same)
  <2>1. Same \in SUBSET Nat /\ Same # {}
    BY <1>2
  <2>2. m \in Same /\ \A j \in Same : m <= j
    <3> HIDE DEF Same
    <3> QED
      BY <2>1, Least
  <2> HIDE DEF m
  <2>3. m \in 1..Len(s)
    BY <1>2, <2>2
  <2>4. \A k \in 1..(m - 1) : key[k] # key[m]
    <3> SUFFICES ASSUME NEW k \in 1..(m - 1), key[k] = key[m] PROVE FALSE
      OBVIOUS
    <3>1. k \in 1..Len(s) /\ ~(m <= k)
      BY <1>2, <2>3
    <3>2. k \in Same
      BY <1>2, <2>2, <3>1
    <3> QED
      BY <2>2, <3>1, <3>2
  <2> QED
    BY <1>1, <2>2, <2>4
<1>8. List(t)
  BY <1>3 DEF Keeps
<1>9. at \in [DOMAIN t -> DOMAIN s]
  BY <1>1, <1>5
<1>10. ASSUME NEW i \in DOMAIN s PROVE \E k \in DOMAIN t : key[at[k]] = key[i]
  <2>1. PICK j \in I : key[j] = key[i]
    BY <1>7
  <2>2. PICK k \in DOMAIN t : at[k] = j
    BY <1>5
  <2> QED
    BY <2>1, <2>2
<1>11. ASSUME NEW j \in DOMAIN t, NEW k \in DOMAIN t, key[at[j]] = key[at[k]] PROVE j = k
  <2>1. at[j] \in I /\ at[k] \in I
    BY <1>5
  <2>2. at[j] = at[k]
    BY <1>6, <1>11, <2>1, Zenon
  <2> QED
    BY <1>5, <2>2
<1>12. FirstOfEach(t, s, key)
  BY <1>4, <1>8, <1>9, <1>10, <1>11 DEF FirstOfEach
<1> QED
  BY <1>12 DEF t, I

(* The keywords of the prose, and what a range near one announces.         *)
Spoken(prose) == {k \in DOMAIN prose : prose[k].is \in Keywords}
FoundAt(j, window, prose) ==
  [start |-> Start(prose[j]), end |-> End(prose[j]), reason |-> Reason(window, prose)]

(* found holds what one window announces.                                  *)
Finds(found, window, prose) ==
  /\ List(found)
  /\ \A x \in DOMAIN found : \E j \in window : Forward(prose[j]) /\ found[x] = FoundAt(j, window, prose)
  /\ \A j \in window : Forward(prose[j]) => \E x \in DOMAIN found : found[x] = FoundAt(j, window, prose)

(* What a window of prose has in it.                                       *)
LEMMA RangesTold ==
  ASSUME NEW prose, List(prose), NEW window \in SUBSET DOMAIN prose
  PROVE  Finds(RangesIn(window, prose), window, prose)
<1> DEFINE places == Ascending(window)
           I == {k \in DOMAIN places : Forward(prose[places[k]])}
           kept == Kept(places, LAMBDA i : Forward(prose[i]))
           found == RangesIn(window, prose)
<1>1. window \in SUBSET Int /\ IsFiniteSet(window)
  <2>1. DOMAIN prose = 1..Len(prose) /\ Len(prose) \in Nat
    BY Listing
  <2>2. IsFiniteSet(1..Len(prose))
    BY <2>1, Numbered
  <2> QED
    BY <2>1, <2>2, FS_Subset
<1>2. kept = Arranged(places, {<<0, k>> : k \in I}) /\ I \in SUBSET DOMAIN places
  BY DEF Kept
<1>3. found = [x \in DOMAIN kept |-> FoundAt(kept[x], window, prose)]
  BY DEF RangesIn, Mapped, FoundAt
<1>4. \A k \in DOMAIN places : k \in I <=> Forward(prose[places[k]])
  OBVIOUS
<1> HIDE DEF places, I, kept, found
<1>5. /\ List(places)
      /\ \A k \in DOMAIN places : places[k] \in window
      /\ \A j \in window : \E k \in DOMAIN places : places[k] = j
  BY <1>1, AscendingTold DEF Ascends, places
<1>6. Draws(kept, places, I)
  <2>1. Keeps(kept, places, I)
    BY <1>2, <1>5, KeptPlaces
  <2> QED
    BY <1>2, <1>5, <2>1, KeptIsDrawn
<1>7. List(found) /\ DOMAIN found = DOMAIN kept
  BY <1>3, <1>6, MappedList DEF Draws, DrawnFrom
<1>8. ASSUME NEW x \in DOMAIN found
      PROVE \E j \in window : Forward(prose[j]) /\ found[x] = FoundAt(j, window, prose)
  <2>1. PICK k \in I : kept[x] = places[k]
    BY <1>6, <1>7 DEF Draws
  <2>2. kept[x] \in window /\ Forward(prose[kept[x]])
    BY <1>2, <1>4, <1>5, <2>1
  <2> QED
    BY <1>3, <1>7, <2>2
<1>9. ASSUME NEW j \in window, Forward(prose[j])
      PROVE \E x \in DOMAIN found : found[x] = FoundAt(j, window, prose)
  <2>1. PICK k \in DOMAIN places : places[k] = j
    BY <1>5
  <2>2. k \in I
    BY <1>4, <1>9, <2>1
  <2>3. PICK x \in DOMAIN kept : kept[x] = places[k]
    BY <1>6, <2>2 DEF Draws
  <2> QED
    BY <1>3, <1>7, <2>1, <2>3
<1> QED
  BY <1>7, <1>8, <1>9 DEF Finds, found

(* The windows are those around the keywords.                              *)
LEMMA WindowsTold ==
  ASSUME NEW prose, List(prose)
  PROVE  /\ List(Windows(prose))
         /\ \A a \in DOMAIN Windows(prose) : \E k \in Spoken(prose) : Windows(prose)[a] = Around(k, prose)
         /\ \A k \in Spoken(prose) : \E a \in DOMAIN Windows(prose) : Windows(prose)[a] = Around(k, prose)
<1> DEFINE ids == [i \in DOMAIN prose |-> i]
           At(word) == Kept(ids, LAMBDA i : prose[i].is = word)
           Of(word) == {k \in DOMAIN ids : prose[ids[k]].is = word}
           r == At("revision")
           b == At("betriebsferien")
           both == r \o b
           windows == Windows(prose)
<1>1. List(ids) /\ DOMAIN ids = DOMAIN prose /\ \A i \in DOMAIN prose : ids[i] = i
  BY MappedList
<1>2. \A word : At(word) = Arranged(ids, {<<0, k>> : k \in Of(word)}) /\ Of(word) \in SUBSET DOMAIN ids
  BY DEF Kept
<1>3. windows = [a \in DOMAIN both |-> Around(both[a], prose)]
  BY DEF Windows, Mapped
<1>4. \A word : \A k : k \in Of(word) <=> k \in DOMAIN prose /\ prose[k].is = word
  OBVIOUS
<1> HIDE DEF ids, At, Of, windows
<1>5. ASSUME NEW word
      PROVE /\ List(At(word))
            /\ \A x \in DOMAIN At(word) : At(word)[x] \in DOMAIN prose /\ prose[At(word)[x]].is = word
            /\ \A k \in DOMAIN prose : prose[k].is = word => \E x \in DOMAIN At(word) : At(word)[x] = k
  <2>1. Keeps(At(word), ids, Of(word))
    BY <1>1, <1>2, KeptPlaces
  <2>2. Draws(At(word), ids, Of(word))
    BY <1>1, <1>2, <2>1, KeptIsDrawn
  <2> QED
    BY <1>1, <1>4, <2>2 DEF Draws, DrawnFrom
<1>6. Joins(both, r, b)
  BY <1>5, Joined
<1>7. /\ \A x \in DOMAIN r : r[x] \in Spoken(prose)
      /\ \A x \in DOMAIN b : b[x] \in Spoken(prose)
      /\ \A k \in Spoken(prose) : (\E x \in DOMAIN r : r[x] = k) \/ (\E x \in DOMAIN b : b[x] = k)
  BY <1>5 DEF Spoken, Keywords
<1> HIDE DEF r, b, both
<1>8. \A x \in DOMAIN both : both[x] \in Spoken(prose)
  BY <1>6, <1>7 DEF Joins
<1>9. \A k \in Spoken(prose) : \E x \in DOMAIN both : both[x] = k
  BY <1>6, <1>7 DEF Joins
<1>10. List(windows) /\ DOMAIN windows = DOMAIN both
  BY <1>3, <1>6, MappedList DEF Joins
<1> QED
  BY <1>3, <1>8, <1>9, <1>10 DEF windows

(* Closures that are the ranges near a keyword, as they are found.         *)
Nearby(closures, prose) ==
  /\ List(closures)
  /\ \A x \in DOMAIN closures : \E k \in Spoken(prose) : \E j \in Around(k, prose) :
       Forward(prose[j]) /\ closures[x] = FoundAt(j, Around(k, prose), prose)
  /\ \A k \in Spoken(prose) : \A j \in Around(k, prose) : Forward(prose[j]) =>
       \E x \in DOMAIN closures : closures[x].start = Start(prose[j]) /\ closures[x].end = End(prose[j])

AllRanges(prose) == FlattenSeq(Mapped(Windows(prose), LAMBDA window : RangesIn(window, prose)))

LEMMA RangesNearby ==
  ASSUME NEW prose, List(prose)
  PROVE  Nearby(AllRanges(prose), prose)
<1> DEFINE windows == Windows(prose)
           seqs == Mapped(windows, LAMBDA window : RangesIn(window, prose))
           all == AllRanges(prose)
<1>1. seqs = [a \in DOMAIN windows |-> RangesIn(windows[a], prose)] /\ all = FlattenSeq(seqs)
  BY DEF Mapped, AllRanges
<1>2. /\ List(windows)
      /\ \A a \in DOMAIN windows : \E k \in Spoken(prose) : windows[a] = Around(k, prose)
      /\ \A k \in Spoken(prose) : \E a \in DOMAIN windows : windows[a] = Around(k, prose)
  BY WindowsTold
<1> HIDE DEF windows, seqs, all
<1>3. List(seqs) /\ DOMAIN seqs = DOMAIN windows /\ \A a \in DOMAIN windows : seqs[a] = RangesIn(windows[a], prose)
  BY <1>1, <1>2, MappedList
<1>4. \A k : Around(k, prose) \in SUBSET DOMAIN prose
  BY DEF Around
<1>5. \A a \in DOMAIN seqs : Finds(seqs[a], windows[a], prose)
  BY <1>2, <1>3, <1>4, RangesTold
<1>6. \A a \in DOMAIN seqs : List(seqs[a])
  BY <1>5 DEF Finds
<1>7. Flattens(all, seqs, Len(seqs))
  BY <1>1, <1>3, <1>6, Flattened
<1>8. PICK at \in [DOMAIN all -> Spots(seqs, Len(seqs))] :
        /\ \A x \in DOMAIN all : all[x] = seqs[at[x][1]][at[x][2]]
        /\ \A p \in Spots(seqs, Len(seqs)) : \E x \in DOMAIN all : at[x] = p
  BY <1>7 DEF Flattens
<1>9. DOMAIN seqs = 1..Len(seqs) /\ Len(seqs) \in Nat
  BY <1>3, Listing
<1>10. ASSUME NEW x \in DOMAIN all
       PROVE \E k \in Spoken(prose) : \E j \in Around(k, prose) :
               Forward(prose[j]) /\ all[x] = FoundAt(j, Around(k, prose), prose)
  <2>1. at[x][1] \in DOMAIN seqs /\ at[x][2] \in DOMAIN seqs[at[x][1]]
    BY <1>8, <1>9, SpotsRead
  <2>2. PICK j \in windows[at[x][1]] : Forward(prose[j]) /\ all[x] = FoundAt(j, windows[at[x][1]], prose)
    BY <1>5, <1>8, <2>1 DEF Finds
  <2>3. PICK k \in Spoken(prose) : windows[at[x][1]] = Around(k, prose)
    BY <1>2, <1>3, <2>1
  <2> QED
    BY <2>2, <2>3
<1>11. ASSUME NEW k \in Spoken(prose), NEW j \in Around(k, prose), Forward(prose[j])
       PROVE \E x \in DOMAIN all : all[x].start = Start(prose[j]) /\ all[x].end = End(prose[j])
  <2>1. PICK a \in DOMAIN seqs : windows[a] = Around(k, prose)
    BY <1>2, <1>3
  <2>2. PICK y \in DOMAIN seqs[a] : seqs[a][y] = FoundAt(j, Around(k, prose), prose)
    BY <1>5, <1>11, <2>1 DEF Finds
  <2>3. y \in Nat
    BY <1>6, Listing
  <2>4. <<a, y>> \in Spots(seqs, Len(seqs))
    BY <1>9, <2>3, SpotsRead
  <2>5. PICK x \in DOMAIN all : at[x] = <<a, y>>
    BY <1>8, <2>4
  <2>6. all[x] = FoundAt(j, Around(k, prose), prose)
    BY <1>8, <2>2, <2>5
  <2> QED
    BY <2>6 DEF FoundAt
<1>12. Nearby(all, prose)
  BY <1>7, <1>10, <1>11 DEF Nearby, Flattens
<1> QED
  BY <1>12 DEF all

(* No two closures are of the same dates.                                  *)
Single(closures) ==
  \A x, y \in DOMAIN closures :
    closures[x].start = closures[y].start /\ closures[x].end = closures[y].end => x = y

(* An order more or less leaves them what they are.                        *)
LEMMA NearbyInAnyOrder ==
  ASSUME NEW prose, NEW s, NEW t, Permutes(t, s), Nearby(s, prose), Single(s)
  PROVE  Nearby(t, prose) /\ Single(t)
<1>1. PICK at \in [DOMAIN s -> DOMAIN s] :
        /\ \A k \in DOMAIN s : t[k] = s[at[k]]
        /\ \A i \in DOMAIN s : \E k \in DOMAIN s : at[k] = i
        /\ \A j, k \in DOMAIN s : at[j] = at[k] => j = k
  BY DEF Permutes
<1>2. List(t) /\ DOMAIN t = DOMAIN s
  BY DEF Permutes
<1>3. \A x \in DOMAIN t : at[x] \in DOMAIN s
  BY <1>1, <1>2
<1>4. ASSUME NEW x \in DOMAIN t
      PROVE \E k \in Spoken(prose) : \E j \in Around(k, prose) :
              Forward(prose[j]) /\ t[x] = FoundAt(j, Around(k, prose), prose)
  BY <1>1, <1>2, <1>3 DEF Nearby
<1>5. ASSUME NEW k \in Spoken(prose), NEW j \in Around(k, prose), Forward(prose[j])
      PROVE \E x \in DOMAIN t : t[x].start = Start(prose[j]) /\ t[x].end = End(prose[j])
  <2>1. PICK y \in DOMAIN s : s[y].start = Start(prose[j]) /\ s[y].end = End(prose[j])
    BY <1>5 DEF Nearby
  <2>2. PICK x \in DOMAIN s : at[x] = y
    BY <1>1
  <2> QED
    BY <1>1, <1>2, <2>1, <2>2
<1>6. ASSUME NEW x \in DOMAIN t, NEW y \in DOMAIN t, t[x].start = t[y].start, t[x].end = t[y].end
      PROVE x = y
  <2>1. at[x] = at[y]
    BY <1>1, <1>2, <1>3, <1>6 DEF Single
  <2> QED
    BY <1>1, <1>2, <2>1
<1>7. Nearby(t, prose)
  BY <1>2, <1>4, <1>5 DEF Nearby
<1>8. Single(t)
  BY <1>6 DEF Single
<1> QED
  BY <1>7, <1>8

(* A printed range has its dates.                                          *)
LEMMA RangeIsDated ==
  ASSUME NEW r \in Token, r.is = "range"
  PROVE  Start(r) \in Int /\ End(r) \in Int
<1>1. r.day1 \in Nat /\ r.year1 \in {Blank} \cup Nat /\ r.day2 \in Nat /\ r.year2 \in Nat
  BY DEF Token, Keywords
<1> DEFINE year == IF r.year1 # Blank THEN r.year1 ELSE r.year2
<1>2. year \in Nat /\ Start(r) = 10 * year + r.day1 /\ End(r) = 10 * r.year2 + r.day2
  BY <1>1 DEF Start, End
<1> HIDE DEF year
<1> QED
  BY <1>1, <1>2

(* Their dates are numbers.                                                *)
LEMMA NearbyIsDated ==
  ASSUME NEW prose \in Seq(Token), NEW closures, Nearby(closures, prose)
  PROVE  \A x \in DOMAIN closures : /\ closures[x].start \in Int /\ closures[x].end \in Int
                                    /\ \E j \in DOMAIN prose : /\ prose[j].is = "range"
                                                               /\ Start(prose[j]) = closures[x].start
                                                               /\ End(prose[j]) = closures[x].end
<1> SUFFICES ASSUME NEW x \in DOMAIN closures
             PROVE /\ closures[x].start \in Int /\ closures[x].end \in Int
                   /\ \E j \in DOMAIN prose : /\ prose[j].is = "range"
                                              /\ Start(prose[j]) = closures[x].start
                                              /\ End(prose[j]) = closures[x].end
  OBVIOUS
<1>1. PICK k \in Spoken(prose) : \E j \in Around(k, prose) :
        Forward(prose[j]) /\ closures[x] = FoundAt(j, Around(k, prose), prose)
  BY DEF Nearby
<1>2. PICK j \in Around(k, prose) : Forward(prose[j]) /\ closures[x] = FoundAt(j, Around(k, prose), prose)
  BY <1>1
<1>3. j \in DOMAIN prose /\ prose[j].is = "range"
  BY <1>2 DEF Around, Forward
<1>4. closures[x].start = Start(prose[j]) /\ closures[x].end = End(prose[j])
  BY <1>2 DEF FoundAt
<1>5. Start(prose[j]) \in Int /\ End(prose[j]) \in Int
  <2>1. prose[j] \in Token
    BY <1>3, SequenceIsList
  <2> QED
    BY <1>3, <2>1, RangeIsDated
<1> QED
  BY <1>3, <1>4, <1>5

(* The closures are what is near a keyword, each once, oldest first.       *)
Dating(closures, prose) ==
  /\ Nearby(closures, prose)
  /\ Single(closures)
  /\ \A x, y \in DOMAIN closures : x < y => closures[x].start <= closures[y].start

(* What parse_maintenance_closures returns.                                *)
LEMMA ProseDated ==
  ASSUME NEW prose \in Seq(Token)
  PROVE  Dating(ParseMaintenanceClosures(prose), prose)
<1> DEFINE all == AllRanges(prose)
           key == [x \in DOMAIN all |-> <<all[x].start, all[x].end>>]
           first == FirstSeen(all, LAMBDA c : <<c.start, c.end>>)
           ended == SortedBy(first, LAMBDA c : c.end)
           sorted == ParseMaintenanceClosures(prose)
           ends == [k \in DOMAIN first |-> first[k].end]
           starts == [k \in DOMAIN ended |-> ended[k].start]
<1>1. List(prose) /\ Nearby(all, prose)
  BY SequenceIsList, RangesNearby
<1>2. DOMAIN all = 1..Len(all) /\ Len(all) \in Nat
  BY <1>1, Listing DEF Nearby
<1>3. sorted = SortedBy(ended, LAMBDA c : c.start)
  BY Zenon DEF ParseMaintenanceClosures, AllRanges
<1> HIDE DEF all, sorted
<1>4. first = Arranged(all, {<<0, j>> : j \in FirstPlaces(all, key)})
  <2>1. {j \in DOMAIN all : \A k \in 1..(j - 1) : <<all[k].start, all[k].end>> # <<all[j].start, all[j].end>>}
          = FirstPlaces(all, key)
    <3>1. \A j \in DOMAIN all : \A k \in 1..(j - 1) : k \in DOMAIN all
      BY <1>2
    <3> QED
      BY <3>1 DEF FirstPlaces
  <2> HIDE DEF key
  <2> QED
    BY <2>1, Zenon DEF FirstSeen
<1>5. ended = Arranged(first, {<<ends[k], k>> : k \in DOMAIN first})
  <2> HIDE DEF first
  <2>1. {<<ends[k], k>> : k \in DOMAIN first} = {<<first[k].end, k>> : k \in DOMAIN first}
    OBVIOUS
  <2> QED
    BY <2>1, Zenon DEF SortedBy
<1>6. sorted = Arranged(ended, {<<starts[k], k>> : k \in DOMAIN ended})
  <2> HIDE DEF ended
  <2>1. {<<starts[k], k>> : k \in DOMAIN ended} = {<<ended[k].start, k>> : k \in DOMAIN ended}
    OBVIOUS
  <2> QED
    BY <1>3, <2>1, Zenon DEF SortedBy
<1>7. \A x \in DOMAIN all : key[x] = <<all[x].start, all[x].end>>
  OBVIOUS
<1> HIDE DEF key, first, ended
<1>8. FirstOfEach(first, all, key)
  BY <1>1, <1>4, EachKeyOnce DEF Nearby
<1>9. Nearby(first, prose) /\ Single(first)
  <2>1. PICK at \in [DOMAIN first -> DOMAIN all] :
          /\ \A k \in DOMAIN first : first[k] = all[at[k]]
          /\ \A i \in DOMAIN all : \E k \in DOMAIN first : key[at[k]] = key[i]
          /\ \A j, k \in DOMAIN first : key[at[j]] = key[at[k]] => j = k
    BY <1>8 DEF FirstOfEach
  <2>2. \A x \in DOMAIN first : at[x] \in DOMAIN all /\ key[at[x]] = <<first[x].start, first[x].end>>
    BY <1>7, <2>1
  <2>3. Single(first)
    BY <2>1, <2>2 DEF Single
  <2>4. ASSUME NEW k \in Spoken(prose), NEW j \in Around(k, prose), Forward(prose[j])
        PROVE \E x \in DOMAIN first : first[x].start = Start(prose[j]) /\ first[x].end = End(prose[j])
    <3>1. PICK y \in DOMAIN all : all[y].start = Start(prose[j]) /\ all[y].end = End(prose[j])
      BY <1>1, <2>4 DEF Nearby
    <3>2. PICK x \in DOMAIN first : key[at[x]] = key[y]
      BY <2>1
    <3> QED
      BY <1>7, <2>2, <3>1, <3>2
  <2>5. \A x \in DOMAIN first : \E k \in Spoken(prose) : \E j \in Around(k, prose) :
          Forward(prose[j]) /\ first[x] = FoundAt(j, Around(k, prose), prose)
    BY <1>1, <2>1, <2>2 DEF Nearby
  <2>6. Nearby(first, prose)
    BY <1>8, <2>4, <2>5 DEF Nearby, FirstOfEach
  <2> QED
    BY <2>3, <2>6
<1>10. Nearby(ended, prose) /\ Single(ended)
  <2>1. List(first) /\ ends \in [DOMAIN first -> Int]
    BY <1>9, NearbyIsDated DEF Nearby
  <2> HIDE DEF ends
  <2>2. Sorts(ended, first, ends)
    BY <1>5, <2>1, Sorting
  <2>3. Permutes(ended, first)
    BY <2>1, <2>2, SortingPermutes
  <2> QED
    BY <1>9, <2>3, NearbyInAnyOrder
<1>11. List(ended) /\ starts \in [DOMAIN ended -> Int]
  BY <1>10, NearbyIsDated DEF Nearby
<1>12. \A x \in DOMAIN ended : starts[x] = ended[x].start
  OBVIOUS
<1> HIDE DEF starts
<1>13. Sorts(sorted, ended, starts)
  BY <1>6, <1>11, Sorting
<1>14. Nearby(sorted, prose) /\ Single(sorted)
  <2>1. Permutes(sorted, ended)
    BY <1>11, <1>13, SortingPermutes
  <2> QED
    BY <1>10, <2>1, NearbyInAnyOrder
<1>15. \A x, y \in DOMAIN sorted : x < y => sorted[x].start <= sorted[y].start
  <2>1. PICK at \in [DOMAIN ended -> DOMAIN ended] :
          /\ \A k \in DOMAIN ended : sorted[k] = ended[at[k]]
          /\ \A j, k \in DOMAIN ended : j < k =>
               starts[at[j]] < starts[at[k]] \/ (starts[at[j]] = starts[at[k]] /\ at[j] < at[k])
    BY <1>13, Zenon DEF Sorts
  <2>2. DOMAIN sorted = DOMAIN ended
    BY <1>13 DEF Sorts
  <2>3. \A x \in DOMAIN ended : sorted[x].start = starts[at[x]] /\ starts[at[x]] \in Int
    BY <1>11, <1>12, <2>1
  <2> QED
    BY <2>1, <2>2, <2>3
<1>16. Dating(sorted, prose)
  BY <1>14, <1>15 DEF Dating
<1> QED
  BY <1>16 DEF sorted

(* A range is near a keyword if it is in a window.                         *)
NearIn(prose, i) == \E k \in DOMAIN prose : prose[k].is \in Keywords /\ k - i \in (-Reach)..Reach
AnnouncedIn(prose) ==
  {<<Start(prose[i]), End(prose[i])>> :
     i \in {j \in DOMAIN prose : /\ prose[j].is = "range" /\ NearIn(prose, j)
                                 /\ Start(prose[j]) <= End(prose[j])}}

LEMMA NearIsAround ==
  ASSUME NEW prose, List(prose), NEW j
  PROVE  j \in DOMAIN prose /\ NearIn(prose, j) <=> \E k \in Spoken(prose) : j \in Around(k, prose)
<1>1. DOMAIN prose = 1..Len(prose) /\ Len(prose) \in Nat
  BY Listing
<1>2. \A k \in DOMAIN prose : j \in DOMAIN prose =>
        (k - j \in (-Reach)..Reach <=> k - Reach <= j /\ j <= k + Reach)
  BY <1>1, ReachAssumption
<1> QED
  BY <1>2 DEF NearIn, Spoken, Around

(* Every range near a keyword is a closure, once, and nothing else is.     *)
THEOREM ClosuresAreAnnounced ==
  ASSUME NEW prose \in Seq(Token)
  PROVE  ClosuresAnnounced(prose, ParseMaintenanceClosures(prose))
<1> DEFINE closures == ParseMaintenanceClosures(prose)
           n == Len(closures)
           at == [x \in 1..n |-> <<closures[x].start, closures[x].end>>]
           told == AnnouncedIn(prose)
<1>1. Nearby(closures, prose) /\ Single(closures)
      /\ \A x, y \in DOMAIN closures : x < y => closures[x].start <= closures[y].start
  BY ProseDated DEF Dating
<1> HIDE DEF closures
<1>2. List(prose) /\ List(closures)
  BY <1>1, SequenceIsList DEF Nearby
<1>3. DOMAIN closures = 1..n /\ n \in Nat
  BY <1>2, Listing
<1>4. ASSUME NEW x \in DOMAIN closures
      PROVE /\ <<closures[x].start, closures[x].end>> \in told
            /\ \E i \in DOMAIN prose : prose[i].is = closures[x].reason
  <2>1. PICK k \in Spoken(prose) : \E j \in Around(k, prose) :
          Forward(prose[j]) /\ closures[x] = FoundAt(j, Around(k, prose), prose)
    BY <1>1 DEF Nearby
  <2>2. PICK j \in Around(k, prose) : Forward(prose[j]) /\ closures[x] = FoundAt(j, Around(k, prose), prose)
    BY <2>1
  <2>3. /\ closures[x].start = Start(prose[j]) /\ closures[x].end = End(prose[j])
        /\ closures[x].reason = Reason(Around(k, prose), prose)
    BY <2>2 DEF FoundAt
  <2>4. j \in DOMAIN prose /\ NearIn(prose, j)
    BY <1>2, NearIsAround
  <2>5. prose[j].is = "range" /\ Start(prose[j]) <= End(prose[j])
    BY <2>2 DEF Forward
  <2>6. <<closures[x].start, closures[x].end>> \in told
    BY <2>3, <2>4, <2>5 DEF AnnouncedIn
  <2>7. k \in Around(k, prose)
    <3>1. k \in DOMAIN prose /\ DOMAIN prose = 1..Len(prose) /\ Len(prose) \in Nat
      BY <1>2, Listing DEF Spoken
    <3> QED
      BY <3>1, ReachAssumption DEF Around
  <2>8. Around(k, prose) \in SUBSET DOMAIN prose
    BY DEF Around
  <2>9. prose[k].is \in {"revision", "betriebsferien"}
    BY DEF Spoken, Keywords
  <2>10. \E i \in DOMAIN prose : prose[i].is = Reason(Around(k, prose), prose)
    BY <2>7, <2>8, <2>9 DEF Reason
  <2> QED
    BY <2>3, <2>6, <2>10
<1>5. ASSUME NEW e \in told PROVE \E x \in DOMAIN closures : e = <<closures[x].start, closures[x].end>>
  <2>1. PICK j \in DOMAIN prose : /\ prose[j].is = "range" /\ NearIn(prose, j)
                                  /\ Start(prose[j]) <= End(prose[j])
                                  /\ e = <<Start(prose[j]), End(prose[j])>>
    BY DEF AnnouncedIn
  <2>2. PICK k \in Spoken(prose) : j \in Around(k, prose)
    BY <1>2, <2>1, NearIsAround
  <2>3. Forward(prose[j])
    BY <2>1 DEF Forward
  <2> QED
    BY <1>1, <2>1, <2>2, <2>3 DEF Nearby
<1> HIDE DEF told
<1>6. {<<c.start, c.end>> : c \in Range(closures)} = told
  <2>1. \A c \in Range(closures) : \E x \in DOMAIN closures : c = closures[x]
    BY DEF Range
  <2>2. \A x \in DOMAIN closures : closures[x] \in Range(closures)
    BY DEF Range
  <2>3. \A c \in Range(closures) : <<c.start, c.end>> \in told
    BY <1>4, <2>1
  <2>4. \A e \in told : \E c \in Range(closures) : e = <<c.start, c.end>>
    BY <1>5, <2>2
  <2> QED
    BY <2>3, <2>4
<1>7. Len(closures) = Cardinality(told)
  <2>1. at \in [1..n -> told]
    BY <1>3, <1>4
  <2>2. \A e \in told : \E x \in 1..n : at[x] = e
    BY <1>3, <1>5
  <2>3. \A x, y \in 1..n : at[x] = at[y] => x = y
    BY <1>1, <1>3 DEF Single
  <2> HIDE DEF at, n
  <2>4. at \in Bijection(1..n, told)
    BY <2>1, <2>2, <2>3 DEF Bijection, Injection, Surjection, IsInjective
  <2>5. IsFiniteSet(1..n) /\ Cardinality(1..n) = n
    BY <1>3, Numbered
  <2>6. Cardinality(told) = n
    BY <2>4, <2>5, FS_Bijection DEF ExistsBijection
  <2> QED
    BY <2>6 DEF n
<1>8. \A i \in 1..(Len(closures) - 1) : closures[i].start <= closures[i + 1].start
  BY <1>1, <1>3
<1>9. \A c \in Range(closures) : \E i \in DOMAIN prose : prose[i].is = c.reason
  BY <1>4 DEF Range
<1>10. ClosuresAnnounced(prose, closures)
  BY <1>6, <1>7, <1>8, <1>9, Zenon DEF ClosuresAnnounced, told, AnnouncedIn, NearIn
<1> QED
  BY <1>10 DEF closures

(* The closures are date ranges of the prose.                              *)
AsProse(closures, prose) ==
  /\ List(closures)
  /\ \A c \in Range(closures) : \E r \in Range(prose) :
       r.is = "range" /\ Start(r) = c.start /\ End(r) = c.end

LEMMA ProseTold ==
  ASSUME NEW prose \in Seq(Token)
  PROVE  AsProse(ParseMaintenanceClosures(prose), prose)
<1> DEFINE closures == ParseMaintenanceClosures(prose)
<1>1. Nearby(closures, prose)
  BY ProseDated DEF Dating
<1> HIDE DEF closures
<1>2. \A x \in DOMAIN closures : \E j \in DOMAIN prose :
        prose[j].is = "range" /\ Start(prose[j]) = closures[x].start /\ End(prose[j]) = closures[x].end
  BY <1>1, NearbyIsDated
<1>3. ASSUME NEW c \in Range(closures)
      PROVE \E r \in Range(prose) : r.is = "range" /\ Start(r) = c.start /\ End(r) = c.end
  <2>1. PICK x \in DOMAIN closures : c = closures[x]
    BY DEF Range
  <2>2. PICK j \in DOMAIN prose : /\ prose[j].is = "range"
                                  /\ Start(prose[j]) = closures[x].start /\ End(prose[j]) = closures[x].end
    BY <1>2
  <2>3. prose[j] \in Range(prose)
    BY DEF Range
  <2> QED
    BY <2>1, <2>2, <2>3
<1>4. AsProse(closures, prose)
  BY <1>1, <1>3 DEF AsProse, Nearby
<1> QED
  BY <1>4 DEF closures

(* What a page of its own tells of a pool's closures.                      *)
LEMMA ClosuresTold ==
  ASSUME NEW entry, NEW page \in Page
  PROVE  /\ \A c \in Range(Closures(entry, page)) : Announced(c, page)
         /\ \A b \in Range(page.banners) :
              Closing(b) => \E c \in Range(Closures(entry, page)) : c.start = b.from /\ c.end = b.to
<1> DEFINE s == ClosuresFromNotices(ParseNotices(page.banners))
           t == IF entry.id \in OwnOperator THEN ParseMaintenanceClosures(page.prose) ELSE <<>>
           u == Closures(entry, page)
<1>1. page.banners \in Seq(Banner) /\ page.prose \in Seq(Token)
  BY DEF Page
<1>2. AsBanners(s, page.banners)
  BY <1>1, SequenceIsList, BannersTold
<1>3. AsProse(t, page.prose)
  <2>1. CASE entry.id \in OwnOperator
    BY <1>1, <2>1, ProseTold
  <2>2. CASE entry.id \notin OwnOperator
    <3>1. t = <<>>
      BY <2>2
    <3>2. List(<<>>) /\ Range(<<>>) = {}
      <4>1. <<>> \in Seq(Token)
        OBVIOUS
      <4>2. DOMAIN <<>> = {}
        OBVIOUS
      <4>3. List(<<>>)
        BY <4>1, SequenceIsList
      <4> QED
        BY <4>2, <4>3 DEF Range
    <3> QED
      BY <3>1, <3>2 DEF AsProse
  <2> QED
    BY <2>1, <2>2
<1>4. u = s \o t
  BY DEF Closures
<1> HIDE DEF s, t, u
<1>5. Range(u) = Range(s) \cup Range(t)
  <2>1. Joins(u, s, t)
    BY <1>2, <1>3, <1>4, Joined DEF AsBanners, AsProse
  <2>2. ASSUME NEW k \in DOMAIN u PROVE u[k] \in Range(s) \cup Range(t)
    <3>1. CASE k \in DOMAIN s
      BY <2>1, <3>1 DEF Joins, Range
    <3>2. CASE k \notin DOMAIN s
      BY <2>1, <3>2 DEF Joins, Range
    <3> QED
      BY <3>1, <3>2
  <2>3. ASSUME NEW k \in DOMAIN s PROVE s[k] \in Range(u)
    BY <2>1 DEF Joins, Range
  <2>4. ASSUME NEW k \in DOMAIN t PROVE t[k] \in Range(u)
    BY <2>1 DEF Joins, Range
  <2> QED
    BY <2>2, <2>3, <2>4 DEF Range
<1>6. \A c \in Range(u) : Announced(c, page)
  BY <1>2, <1>3, <1>5 DEF AsBanners, AsProse, Announced
<1>7. \A b \in Range(page.banners) : Closing(b) => \E c \in Range(u) : c.start = b.from /\ c.end = b.to
  BY <1>2, <1>5 DEF AsBanners
<1> QED
  BY <1>6, <1>7 DEF u

(* A pool's page is one of the sites.                                      *)
LEMMA PoolsHaveSites ==
  ASSUME NEW layers \in Seq(Layer), NEW roster, Pooled(roster, layers), NEW i \in DOMAIN roster,
         roster[i].url # Absent
  PROVE  roster[i].url \in Sites
<1>1. PICK l \in DOMAIN layers :
        \E f \in DOMAIN layers[l].features : roster[i] = ToGeoPool(layers[l].features[f], layers[l].kind)
  BY DEF Pooled
<1>2. PICK f \in DOMAIN layers[l].features : roster[i] = ToGeoPool(layers[l].features[f], layers[l].kind)
  BY <1>1
<1>3. layers[l].features[f] \in Feature
  <2>2. layers[l] \in Layer
    BY SequenceIsList
  <2>1. layers[l].features \in Seq(Feature)
    BY <2>2 DEF Layer
  <2> QED
    BY <2>1, SequenceIsList
<1>4. layers[l].features[f].url \in Sites \cup {Absent, Null}
  BY <1>3 DEF Feature
<1>5. roster[i].url = NormalizeRosterUrl(AbsentIfNull(layers[l].features[f].url))
  BY <1>2 DEF ToGeoPool
<1> QED
  BY <1>4, <1>5, RepairsAssumption, PagesAssumption DEF NormalizeRosterUrl, AbsentIfNull

(* A pool's shutdowns are those of its own page, all that its banners      *)
(* announce (scrape.py:299).                                               *)
THEOREM ShutdownsAreOwn ==
  ASSUME NEW layers \in Seq(Layer), NEW pages \in [Sites -> Page]
  PROVE  ShutdownsArrive(layers, pages, Scrape(layers, pages))
<1> DEFINE result == Scrape(layers, pages)
           scrape == result.value
           roster == FetchAllPools(layers).value
           R == ReadPlaces(roster, pages)
           told == ToldOf(roster, pages)
           Held(x, e) ==
             /\ e.name = x.name
             /\ \A c \in Range(x.closures) : Announced(c, pages[e.url])
             /\ Seen(roster, e.url) = 1 =>
                  \A b \in Range(pages[e.url].banners) :
                    Closing(b) => \E c \in Range(x.closures) : c.start = b.from /\ c.end = b.to
<1>1. CASE result.ok
  <2>1. Pooled(roster, layers) /\ Scraped(scrape, roster, pages)
    BY <1>1, ScrapeTold
  <2> HIDE DEF result, roster
  <2>2. List(roster)
    BY <2>1 DEF Pooled
  <2>3. Matches(scrape.extracts, told, R)
    BY <2>1 DEF Scraped, Accounted
  <2>4. ASSUME NEW x \in Range(scrape.extracts) PROVE \E e \in Range(roster) : Held(x, e)
    <3>1. PICK i \in R : x = told[i]
      <4>1. PICK at \in Bijection(DOMAIN scrape.extracts, R) :
              \A k \in DOMAIN scrape.extracts : scrape.extracts[k] = told[at[k]]
        BY <2>3 DEF Matches
      <4>2. \A k \in DOMAIN scrape.extracts : at[k] \in R
        BY <4>1 DEF Bijection, Injection
      <4> QED
        BY <4>1, <4>2 DEF Range
    <3>2. CASE i \in OwnRead(roster, pages)
      <4>1. i \in OwnPlaces(roster) /\ i \in DOMAIN roster /\ roster[i].url # Absent
        BY <3>2 DEF OwnRead, OwnPlaces, Scrapeable
      <4>2. x = PageAspectsOf(roster[i], pages[roster[i].url])
        BY <3>1, <4>1 DEF ToldOf
      <4>3. x.name = roster[i].name /\ x.closures = Closures(roster[i], pages[roster[i].url])
        BY <4>2 DEF PageAspectsOf
      <4>4. pages[roster[i].url] \in Page
        BY <2>1, <4>1, PoolsHaveSites
      <4>5. Held(x, roster[i])
        BY <4>3, <4>4, ClosuresTold
      <4>6. roster[i] \in Range(roster)
        BY <4>1 DEF Range
      <4> HIDE DEF Held
      <4> QED
        BY <4>5, <4>6
    <3>3. CASE i \in SharedRead(roster, pages)
      <4>7. i \in SharedPlaces(roster) /\ i \notin OwnPlaces(roster)
        BY <2>2, <3>3, PagesAreWhole DEF SharedRead
      <4>8. i \in DOMAIN roster /\ Seen(roster, roster[i].url) > 1
        BY <4>7 DEF SharedPlaces
      <4>9. \A n : n = 1 => ~(n > 1)
        OBVIOUS
      <4>1. i \in DOMAIN roster /\ i \notin OwnPlaces(roster) /\ Seen(roster, roster[i].url) # 1
        BY <4>7, <4>8, <4>9
      <4>2. x = SharedAspects(roster[i], SharedFacts(pages[roster[i].url]).value)
        BY <3>1, <4>1 DEF ToldOf
      <4>3. x.name = roster[i].name /\ x.closures = <<>>
        BY <4>2 DEF SharedAspects
      <4>4. Range(<<>>) = {}
        BY DEF Range
      <4>5. Held(x, roster[i])
        BY <4>1, <4>3, <4>4
      <4>6. roster[i] \in Range(roster)
        BY <4>1 DEF Range
      <4> HIDE DEF Held
      <4> QED
        BY <4>5, <4>6
    <3> QED
      BY <3>1, <3>2, <3>3 DEF ReadPlaces
  <2>5. \A x \in Range(scrape.extracts) : \E e \in Range(roster) : Held(x, e)
    <3> HIDE DEF Held
    <3> QED
      BY <2>4
  <2> HIDE DEF scrape
  <2>6. ShutdownsArrive(layers, pages, result)
    BY <2>5 DEF ShutdownsArrive, scrape, roster
  <2> QED
    BY <2>6 DEF result
<1>2. CASE ~result.ok
  BY <1>2 DEF ShutdownsArrive
<1> QED
  BY <1>1, <1>2

-----------------------------------------------------------------------------
(* What a page states                                                     *)

(* What FirstThat returns: the default, or the first of those it looks for. *)
LEMMA FirstPlace ==
  ASSUME NEW s, List(s), NEW I \in SUBSET DOMAIN s, I # {}
  PROVE  Min(I) \in I
<1>1. I \in SUBSET Nat
  BY Listing
<1> QED
  BY <1>1, Least

(* A sentence and a row of a table are not a refusal.                      *)
LEMMA SentenceIsRead == ASSUME NEW s \in Sentence PROVE s # Refusal
  BY DEF Sentence, Refusal

(* The sentences that state a season, outside the accordions.              *)
THEOREM BlurbsAreUnread ==
  ASSUME NEW sentences \in Seq(Sentence)
  PROVE  BlurbsUnread(sentences, ParsePlanschbecken(sentences))
<1> DEFINE I == {i \in DOMAIN sentences : ~sentences[i].inItem}
           text == PageLevel(sentences)
           found == {k \in DOMAIN text : text[k].months # NoMonths}
           season == IF found = {} THEN Refusal ELSE text[Min(found)]
           result == ParsePlanschbecken(sentences)
           general == {s \in Range(sentences) : ~s.inItem}
<1>1. List(sentences) /\ \A i \in DOMAIN sentences : sentences[i] \in Sentence
  BY SequenceIsList
<1>2. text = Arranged(sentences, {<<0, i>> : i \in I}) /\ I \in SUBSET DOMAIN sentences
  BY DEF PageLevel, Kept
<1>3. result = IF season = Refusal THEN Refusal
               ELSE Read([season |-> season.months,
                          weather |-> IF season.weather THEN "fair_only" ELSE "any",
                          admission |-> IF \E s \in Range(text) : s.free THEN "free" ELSE "unknown"])
  BY DEF ParsePlanschbecken, FirstThat
<1> HIDE DEF text, I, result
<1>4. Draws(text, sentences, I)
  <2>1. Keeps(text, sentences, I)
    BY <1>1, <1>2, KeptPlaces
  <2> QED
    BY <1>1, <1>2, <2>1, KeptIsDrawn
<1>5. Range(text) = general
  <2>1. \A i \in I : sentences[i] \in general
    BY <1>2 DEF Range, I
  <2>2. \A s \in general : \E i \in I : s = sentences[i]
    BY DEF Range, I
  <2>3. \A k \in DOMAIN text : text[k] \in general
    BY <1>4, <2>1 DEF Draws
  <2>4. \A s \in general : \E k \in DOMAIN text : s = text[k]
    BY <1>4, <2>2 DEF Draws
  <2> HIDE DEF general
  <2> QED
    BY <2>3, <2>4 DEF Range
<1>6. \A k \in DOMAIN text : text[k] \in Range(text) /\ text[k] \in Sentence
  BY <1>1, <1>4 DEF Draws, DrawnFrom, Range
<1>7. ASSUME found = {} PROVE BlurbsUnread(sentences, result)
  <2>1. result = Refusal
    BY <1>3, <1>7
  <2>2. \A s \in general : s.months = NoMonths
    BY <1>5, <1>7 DEF Range
  <2> QED
    BY <2>1, <2>2 DEF BlurbsUnread, Refusal
<1>8. ASSUME found # {} PROVE BlurbsUnread(sentences, result)
  <2>1. Min(found) \in found
    <3>1. List(text)
      BY <1>4 DEF Draws, DrawnFrom
    <3> QED
      BY <1>8, <3>1, FirstPlace
  <2>2. season \in general /\ season.months # NoMonths /\ season \in Sentence
    BY <1>5, <1>6, <1>8, <2>1
  <2>3. season # Refusal
    BY <2>2, SentenceIsRead
  <2> HIDE DEF season, found
  <2>4. /\ result.ok
        /\ result.value.season = season.months
        /\ result.value.weather = IF season.weather THEN "fair_only" ELSE "any"
        /\ result.value.admission = IF \E s \in Range(text) : s.free THEN "free" ELSE "unknown"
    BY <1>3, <2>3 DEF Read
  <2>5. season.weather \in BOOLEAN
    BY <2>2 DEF Sentence
  <2>6. season.weather <=> result.value.weather = "fair_only"
    BY <2>4, <2>5
  <2>7. result.value.admission = "free" <=> \E s \in general : s.free
    BY <1>5, <2>4
  <2> QED
    BY <2>2, <2>4, <2>6, <2>7 DEF BlurbsUnread
<1>9. BlurbsUnread(sentences, result)
  BY <1>7, <1>8
<1> QED
  BY <1>9 DEF result

(* A price cell, clause by clause.                                         *)
Cell == Seq([is : STRING, amount : {Garbled} \cup Nat])

(* The first amount of one kind is one that is printed.                    *)
LEMMA FirstAmountPrinted ==
  ASSUME NEW cell, List(cell), NEW is
  PROVE  /\ (\E c \in Range(cell) : c.is = is) =>
              \E c \in Range(cell) : c.is = is /\ FirstAmount(cell, is) = c.amount
         /\ (~ \E c \in Range(cell) : c.is = is) => FirstAmount(cell, is) = Blank
<1> DEFINE I == {i \in DOMAIN cell : cell[i].is = is}
           t == Amounts(cell, is)
<1>1. t = Arranged(cell, {<<0, i>> : i \in I}) /\ I \in SUBSET DOMAIN cell
  BY DEF Amounts, Kept
<1>2. FirstAmount(cell, is) = IF t = <<>> THEN Blank ELSE t[1].amount
  BY DEF FirstAmount
<1>3. I = {} <=> ~ \E c \in Range(cell) : c.is = is
  BY DEF Range
<1>4. \A i \in I : cell[i] \in Range(cell) /\ cell[i].is = is
  BY DEF Range
<1> HIDE DEF t, I
<1>5. Keeps(t, cell, I)
  BY <1>1, KeptPlaces
<1>6. Draws(t, cell, I)
  BY <1>1, <1>5, KeptIsDrawn
<1>7. (t = <<>> <=> I = {}) /\ List(t)
  BY <1>5 DEF Keeps
<1>8. t # <<>> => 1 \in DOMAIN t
  BY <1>7, NotEmpty
<1>9. t # <<>> => \E i \in I : t[1] = cell[i]
  BY <1>6, <1>8 DEF Draws
<1> QED
  BY <1>2, <1>3, <1>4, <1>7, <1>9

(* A fee is what is printed of it.                                         *)
FeeTold(cell) ==
  LET fee == Cost(cell).value.fee
  IN /\ fee.kind \in {"priced", "gratis", "unstated"}
     /\ fee.kind = "priced" <=> \E c \in Range(cell) : c.is = "fr"
     /\ fee.kind = "priced" => \E c \in Range(cell) : c.is = "fr" /\ c.amount = fee.amount
     /\ fee.kind = "gratis" => \E c \in Range(cell) : c.is = "gratis"

(* What _cost returns.                                                     *)
LEMMA CostTold ==
  ASSUME NEW cell \in Cell
  PROVE  /\ Cost(cell).ok \in BOOLEAN
         /\ ~Cost(cell).ok => \E c \in Range(cell) : c.amount = Garbled
         /\ Cost(cell).ok => FeeTold(cell)
<1> DEFINE amount == FirstAmount(cell, "fr")
           fee == Cost(cell).value.fee
           Torn == \E c \in Range(cell) : c.is \in {"fr", "depot"} /\ c.amount = Garbled
<1>1. List(cell) /\ \A i \in DOMAIN cell : cell[i] \in [is : STRING, amount : {Garbled} \cup Nat]
  BY SequenceIsList DEF Cell
<1>2. \A c \in Range(cell) : c.amount \in {Garbled} \cup Nat
  BY <1>1 DEF Range
<1>3. Torn => Cost(cell) = Refusal
  BY DEF Cost
<1>4. ~Torn => Cost(cell) = Read([fee |-> FeeStated(amount, cell), deposit |-> FirstAmount(cell, "depot")])
  BY DEF Cost
<1>5. ASSUME ~Torn PROVE FeeTold(cell)
  <2>1. fee = FeeStated(amount, cell)
    BY <1>4, <1>5 DEF Read
  <2>2. /\ (\E c \in Range(cell) : c.is = "fr") => \E c \in Range(cell) : c.is = "fr" /\ amount = c.amount
        /\ (~ \E c \in Range(cell) : c.is = "fr") => amount = Blank
    BY <1>1, FirstAmountPrinted
  <2>3. \A c \in Range(cell) : c.is = "fr" => c.amount \in Nat
    BY <1>2, <1>5
  <2>4. cell # <<>> => cell[1] \in Range(cell)
    BY <1>1, NotEmpty DEF Range
  <2> HIDE DEF amount, fee
  <2>5. CASE \E c \in Range(cell) : c.is = "fr"
    <3>1. amount # Blank
      BY <2>2, <2>3, <2>5 DEF Blank
    <3>2. fee.kind = "priced" /\ fee.amount = amount
      BY <2>1, <3>1 DEF FeeStated, Fee
    <3> QED
      BY <2>2, <2>5, <3>2 DEF FeeTold, fee
  <2>6. CASE ~ \E c \in Range(cell) : c.is = "fr"
    <3>1. amount = Blank
      BY <2>2, <2>6
    <3>2. fee.kind = IF cell # <<>> /\ cell[1].is = "gratis" THEN "gratis" ELSE "unstated"
      BY <2>1, <3>1 DEF FeeStated, Fee
    <3> QED
      BY <2>4, <2>6, <3>2 DEF FeeTold, fee
  <2> QED
    BY <2>5, <2>6
<1>6. Torn => \E c \in Range(cell) : c.amount = Garbled
  OBVIOUS
<1>7. Torn => Cost(cell).ok = FALSE
  BY <1>3 DEF Refusal
<1>8. ~Torn => Cost(cell).ok = TRUE
  BY <1>4 DEF Read
<1> HIDE DEF Torn
<1> QED
  BY <1>5, <1>6, <1>7, <1>8

(* What is rented out is what its row says.                                *)
ItemTold(x) ==
  /\ x.fee.kind = "priced" <=> \E c \in Range(x.raw.cell) : c.is = "fr"
  /\ x.fee.kind = "priced" => \E c \in Range(x.raw.cell) : c.is = "fr" /\ c.amount = x.fee.amount
  /\ x.fee.kind = "gratis" => \E c \in Range(x.raw.cell) : c.is = "gratis"

LEMMA ItemIsTold ==
  ASSUME NEW row, row.cell \in Cell, Cost(row.cell).ok
  PROVE  ItemTold(Item(row)) /\ Item(row).raw = row
<1> DEFINE fee == Cost(row.cell).value.fee
<1>1. FeeTold(row.cell)
  BY CostTold
<1>2. /\ fee.kind \in {"priced", "gratis", "unstated"}
      /\ fee.kind = "priced" <=> \E c \in Range(row.cell) : c.is = "fr"
      /\ fee.kind = "priced" => \E c \in Range(row.cell) : c.is = "fr" /\ c.amount = fee.amount
      /\ fee.kind = "gratis" => \E c \in Range(row.cell) : c.is = "gratis"
  BY <1>1 DEF FeeTold
<1>3. Item(row).raw = row /\ Item(row).fee = FeeOf(row)
  BY DEF Item
<1>4. FeeOf(row) = IF row.noun \in LockerNouns /\ fee.kind # "priced" THEN Fee("free", Blank) ELSE fee
  BY DEF FeeOf
<1> HIDE DEF fee
<1>5. FeeOf(row) = fee \/ (FeeOf(row).kind = "free" /\ fee.kind # "priced")
  BY <1>4 DEF Fee
<1>6. ItemTold(Item(row))
  BY <1>2, <1>3, <1>5 DEF ItemTold
<1> QED
  BY <1>3, <1>6

LEMMA MatchedMembers ==
  ASSUME NEW t, List(t), NEW E, NEW I, Matches(t, E, I), NEW T
  PROVE  MembersAlike(t, E, I, T)
<1> DEFINE J == {k \in DOMAIN t : t[k] \in T}
           K == {i \in I : E[i] \in T}
<1>1. PICK at \in Bijection(DOMAIN t, I) : \A k \in DOMAIN t : t[k] = E[at[k]]
  BY DEF Matches
<1>2. DOMAIN t = 1..Len(t) /\ Len(t) \in Nat
  BY Listing
<1>3. IsFiniteSet(J)
  <2>1. IsFiniteSet(1..Len(t))
    BY <1>2, Numbered
  <2>2. J \in SUBSET (1..Len(t))
    BY <1>2
  <2> QED
    BY <2>1, <2>2, FS_Subset
<1> DEFINE f == [k \in J |-> at[k]]
<1>4. at \in [DOMAIN t -> I] /\ (\A i \in I : \E k \in DOMAIN t : at[k] = i)
      /\ \A j, k \in DOMAIN t : at[j] = at[k] => j = k
  BY <1>1 DEF Bijection, Injection, Surjection, IsInjective
<1>5. f \in [J -> K]
  BY <1>1, <1>4
<1>6. \A i \in K : \E k \in J : f[k] = i
  BY <1>1, <1>4
<1>7. \A j, k \in J : f[j] = f[k] => j = k
  BY <1>4
<1> HIDE DEF f, J, K
<1>8. f \in Bijection(J, K)
  BY <1>5, <1>6, <1>7 DEF Bijection, Injection, Surjection, IsInjective
<1>9. Cardinality(J) = Cardinality(K)
  BY <1>3, <1>8, FS_Bijection DEF ExistsBijection
<1> QED
  BY <1>9 DEF J, K, MembersAlike

(* What is kept of the rows, each turned into an item.                     *)
LEMMA RowsTurned ==
  ASSUME NEW rows, List(rows), NEW I \in SUBSET DOMAIN rows, NEW t, Keeps(t, rows, I),
         NEW E, E = [i \in DOMAIN rows |-> Item(rows[i])],
         NEW items, items = [k \in DOMAIN t |-> Item(t[k])]
  PROVE  List(items) /\ Matches(items, E, I)
<1>1. PICK at \in Bijection(DOMAIN t, I) : \A k \in DOMAIN t : t[k] = rows[at[k]]
  BY KeepsMatch DEF Matches
<1>2. \A k \in DOMAIN t : at[k] \in I
  BY <1>1 DEF Bijection, Injection
<1>3. \A k \in DOMAIN t : items[k] = E[at[k]]
  BY <1>1, <1>2
<1>4. List(t)
  BY DEF Keeps
<1>5. List(items) /\ DOMAIN items = DOMAIN t
  BY <1>4, MappedList
<1> QED
  BY <1>1, <1>3, <1>5 DEF Matches

(* A list is as long as the places it was matched with are many.           *)
LEMMA MatchedLength ==
  ASSUME NEW t, List(t), NEW E, NEW I, Matches(t, E, I)
  PROVE  Len(t) = Cardinality(I)
<1>1. DOMAIN t = 1..Len(t) /\ Len(t) \in Nat
  BY Listing
<1>2. PICK at \in Bijection(1..Len(t), I) : TRUE
  BY <1>1 DEF Matches
<1>3. IsFiniteSet(1..Len(t)) /\ Cardinality(1..Len(t)) = Len(t)
  BY <1>1, Numbered
<1> QED
  BY <1>1, <1>2, <1>3, FS_Bijection DEF ExistsBijection

(* The rows of all tables.                                                 *)
AllRows(tables) == FlattenSeq(Mapped(tables, LAMBDA t : t.rows))
LabelledOf(rows) == {i \in DOMAIN rows : rows[i].noun # "none"}

LEMMA RowsRead ==
  ASSUME NEW tables \in Seq(RentalTable)
  PROVE  List(AllRows(tables)) /\ \A i \in DOMAIN AllRows(tables) : AllRows(tables)[i].cell \in Cell
<1> DEFINE seqs == Mapped(tables, LAMBDA t : t.rows)
           rows == AllRows(tables)
<1>1. List(tables) /\ \A a \in DOMAIN tables : tables[a] \in RentalTable
  BY SequenceIsList
<1>2. seqs = [a \in DOMAIN tables |-> tables[a].rows] /\ rows = FlattenSeq(seqs)
  BY DEF Mapped, AllRows
<1> HIDE DEF seqs, rows
<1>3. \A a \in DOMAIN tables : tables[a].rows \in Seq([noun : STRING, suffix : STRING, cell : Cell])
  BY <1>1 DEF RentalTable, Cell
<1>4. \A a \in DOMAIN tables : /\ List(tables[a].rows)
                               /\ \A k \in DOMAIN tables[a].rows : tables[a].rows[k].cell \in Cell
  <2> SUFFICES ASSUME NEW a \in DOMAIN tables
               PROVE /\ List(tables[a].rows)
                     /\ \A k \in DOMAIN tables[a].rows : tables[a].rows[k].cell \in Cell
    OBVIOUS
  <2>1. /\ List(tables[a].rows)
        /\ \A k \in DOMAIN tables[a].rows : tables[a].rows[k] \in [noun : STRING, suffix : STRING, cell : Cell]
    BY <1>3, SequenceIsList
  <2> QED
    BY <2>1
<1>5. List(seqs) /\ DOMAIN seqs = DOMAIN tables /\ \A a \in DOMAIN seqs : seqs[a] = tables[a].rows
  BY <1>1, <1>2, MappedList
<1>6. Flattens(rows, seqs, Len(seqs))
  BY <1>2, <1>4, <1>5, Flattened
<1>7. PICK at \in [DOMAIN rows -> Spots(seqs, Len(seqs))] :
        \A k \in DOMAIN rows : rows[k] = seqs[at[k][1]][at[k][2]]
  BY <1>6 DEF Flattens
<1>8. DOMAIN seqs = 1..Len(seqs) /\ Len(seqs) \in Nat
  BY <1>5, Listing
<1>9. \A k \in DOMAIN rows : at[k][1] \in DOMAIN seqs /\ at[k][2] \in DOMAIN seqs[at[k][1]]
  BY <1>7, <1>8, SpotsRead
<1>10. \A k \in DOMAIN rows : rows[k].cell \in Cell
  BY <1>4, <1>5, <1>7, <1>9
<1> QED
  BY <1>6, <1>10 DEF Flattens, rows

(* What is listed is the labelled rows, each once, as items.               *)
Sorted(rows, want) ==
  LET kept == Kept(rows, LAMBDA r : r.noun # "none")
  IN Mapped(Kept(kept, LAMBDA r : r.noun \in LockerNouns <=> want), Item)

Turned(rows) == [i \in DOMAIN rows |-> Item(rows[i])]
Nouns(rows, want) == {i \in LabelledOf(rows) : rows[i].noun \in LockerNouns <=> want}

LEMMA RowsSorted ==
  ASSUME NEW rows, List(rows), NEW want \in BOOLEAN
  PROVE  List(Sorted(rows, want)) /\ Matches(Sorted(rows, want), Turned(rows), Nouns(rows, want))
<1> DEFINE kept == Kept(rows, LAMBDA r : r.noun # "none")
           I == LabelledOf(rows)
           T == {r \in Range(rows) : r.noun \in LockerNouns <=> want}
           J == {k \in DOMAIN kept : kept[k].noun \in LockerNouns <=> want}
           again == Kept(kept, LAMBDA r : r.noun \in LockerNouns <=> want)
           items == Sorted(rows, want)
           E == Turned(rows)
<1>1. kept = Arranged(rows, {<<0, i>> : i \in I}) /\ I \in SUBSET DOMAIN rows
  BY DEF Kept, LabelledOf
<1>2. again = Arranged(kept, {<<0, k>> : k \in J}) /\ J \in SUBSET DOMAIN kept
  BY DEF Kept
<1>3. items = [k \in DOMAIN again |-> Item(again[k])]
  BY DEF Sorted, Mapped
<1>4. E = [i \in DOMAIN rows |-> Item(rows[i])]
  BY DEF Turned
<1>5. Nouns(rows, want) = {i \in I : rows[i] \in T}
  BY <1>1 DEF Nouns, Range
<1> HIDE DEF kept, I, again, items, E
<1>6. Keeps(kept, rows, I)
  BY <1>1, KeptPlaces
<1>7. List(kept) /\ \A k \in DOMAIN kept : kept[k] \in Range(rows)
  <2>1. Draws(kept, rows, I)
    BY <1>1, <1>6, KeptIsDrawn
  <2> QED
    BY <2>1 DEF Draws, DrawnFrom, Range
<1>8. J = {k \in DOMAIN kept : kept[k] \in T}
  BY <1>7
<1> HIDE DEF J, T
<1>9. Keeps(again, kept, J)
  BY <1>2, <1>7, KeptPlaces
<1>10. Keeps(again, rows, Nouns(rows, want))
  BY <1>1, <1>5, <1>6, <1>8, <1>9, KeptAgain
<1>11. Nouns(rows, want) \in SUBSET DOMAIN rows
  BY DEF Nouns, LabelledOf
<1>12. List(items) /\ Matches(items, E, Nouns(rows, want))
  BY <1>3, <1>4, <1>10, <1>11, RowsTurned
<1> QED
  BY <1>12 DEF items, E

(* What parse_mietobjekte returns: a refusal, or the labelled rows sorted.  *)
Unreadable(tables) ==
  \/ \E t \in Range(tables) : ~t.decodes
  \/ \E r \in Range(Kept(AllRows(tables), LAMBDA r : r.noun # "none")) : ~Cost(r.cell).ok

LEMMA RentalsParsed ==
  ASSUME NEW tables
  PROVE  LET result == ParseMietobjekte(tables)
         IN /\ Unreadable(tables) => result.ok = FALSE
            /\ ~Unreadable(tables) => /\ result.ok = TRUE
                                      /\ result.value.lockers = Sorted(AllRows(tables), TRUE)
                                      /\ result.value.rentals = Sorted(AllRows(tables), FALSE)
<1> DEFINE rows == AllRows(tables)
           kept == Kept(rows, LAMBDA r : r.noun # "none")
           lockers == Mapped(Kept(kept, LAMBDA r : r.noun \in LockerNouns), Item)
           rentals == Mapped(Kept(kept, LAMBDA r : r.noun \notin LockerNouns), Item)
           torn == \E t \in Range(tables) : ~t.decodes
           unread == \E r \in Range(kept) : ~Cost(r.cell).ok
           result == ParseMietobjekte(tables)
<1>1. result = IF torn THEN Refusal ELSE IF unread THEN Refusal ELSE Read([lockers |-> lockers, rentals |-> rentals])
  BY Zenon DEF ParseMietobjekte, AllRows
<1>2. Unreadable(tables) <=> torn \/ unread
  BY Zenon DEF Unreadable
<1>3. lockers = Sorted(rows, TRUE)
  <2>1. {k \in DOMAIN kept : kept[k].noun \in LockerNouns <=> TRUE} = {k \in DOMAIN kept : kept[k].noun \in LockerNouns}
    OBVIOUS
  <2> QED
    BY <2>1, Zenon DEF Sorted, Kept, Mapped
<1>4. rentals = Sorted(rows, FALSE)
  <2>1. {k \in DOMAIN kept : kept[k].noun \in LockerNouns <=> FALSE} = {k \in DOMAIN kept : kept[k].noun \notin LockerNouns}
    OBVIOUS
  <2> QED
    BY <2>1, Zenon DEF Sorted, Kept, Mapped
<1> HIDE DEF rows, kept, lockers, rentals, torn, unread, result
<1>5. torn \/ unread => result.ok = FALSE
  BY <1>1 DEF Refusal
<1>6. ~(torn \/ unread) => result.ok = TRUE /\ result.value.lockers = lockers /\ result.value.rentals = rentals
  BY <1>1 DEF Read
<1> QED
  BY <1>2, <1>3, <1>4, <1>5, <1>6 DEF result, rows

LEMMA RentalsRead ==
  ASSUME NEW tables \in Seq(RentalTable), ParseMietobjekte(tables).ok
  PROVE  LET rows == AllRows(tables)
             items == ParseMietobjekte(tables).value.lockers \o ParseMietobjekte(tables).value.rentals
         IN /\ List(items) /\ Matches(items, Turned(rows), LabelledOf(rows))
            /\ \A i \in LabelledOf(rows) : Cost(rows[i].cell).ok
<1> DEFINE rows == AllRows(tables)
           kept == Kept(rows, LAMBDA r : r.noun # "none")
           I == LabelledOf(rows)
           result == ParseMietobjekte(tables)
           lockers == Sorted(rows, TRUE)
           rentals == Sorted(rows, FALSE)
<1>1. ~Unreadable(tables)
  BY RentalsParsed
<1>2. result.value.lockers = lockers /\ result.value.rentals = rentals
  BY <1>1, RentalsParsed
<1>3. \A r \in Range(kept) : Cost(r.cell).ok
  BY <1>1, Zenon DEF Unreadable
<1>4. kept = Arranged(rows, {<<0, i>> : i \in I}) /\ I \in SUBSET DOMAIN rows
  BY DEF Kept, LabelledOf
<1>5. List(rows)
  BY RowsRead
<1>6. /\ List(lockers) /\ Matches(lockers, Turned(rows), Nouns(rows, TRUE))
      /\ List(rentals) /\ Matches(rentals, Turned(rows), Nouns(rows, FALSE))
  BY <1>5, RowsSorted
<1> HIDE DEF rows, kept, I, result, lockers, rentals
<1>7. \A i \in I : Cost(rows[i].cell).ok
  <2>1. Keeps(kept, rows, I)
    BY <1>4, <1>5, KeptPlaces
  <2>2. Draws(kept, rows, I)
    BY <1>4, <1>5, <2>1, KeptIsDrawn
  <2> QED
    BY <1>3, <2>2 DEF Draws, Range
<1>8. Nouns(rows, TRUE) \cap Nouns(rows, FALSE) = {} /\ Nouns(rows, TRUE) \cup Nouns(rows, FALSE) = I
  BY DEF Nouns, I
<1>9. Matches(lockers \o rentals, Turned(rows), Nouns(rows, TRUE) \cup Nouns(rows, FALSE))
  BY <1>6, <1>8, MatchesJoined
<1>10. List(lockers \o rentals)
  BY <1>6, Joined DEF Joins
<1> QED
  BY <1>2, <1>7, <1>8, <1>9, <1>10 DEF rows, I, result

(* A page that is refused cannot be read.                                  *)
LEMMA RentalsRefused ==
  ASSUME NEW tables \in Seq(RentalTable)
  PROVE  /\ ParseMietobjekte(tables).ok \in BOOLEAN
         /\ ~ParseMietobjekte(tables).ok =>
              \/ \E t \in Range(tables) : ~t.decodes
              \/ \E i \in LabelledOf(AllRows(tables)) :
                   \E c \in Range(AllRows(tables)[i].cell) : c.amount = Garbled
<1> DEFINE rows == AllRows(tables)
           kept == Kept(rows, LAMBDA r : r.noun # "none")
           I == LabelledOf(rows)
           torn == \E t \in Range(tables) : ~t.decodes
           unread == \E r \in Range(kept) : ~Cost(r.cell).ok
<1>1. Unreadable(tables) <=> torn \/ unread
  BY Zenon DEF Unreadable
<1>2. kept = Arranged(rows, {<<0, i>> : i \in I}) /\ I \in SUBSET DOMAIN rows
  BY DEF Kept, LabelledOf
<1>3. List(rows) /\ \A i \in DOMAIN rows : rows[i].cell \in Cell
  BY RowsRead
<1> HIDE DEF rows, kept, I
<1>4. unread => \E i \in I : \E c \in Range(rows[i].cell) : c.amount = Garbled
  <2>1. Keeps(kept, rows, I)
    BY <1>2, <1>3, KeptPlaces
  <2>2. Draws(kept, rows, I)
    BY <1>2, <1>3, <2>1, KeptIsDrawn
  <2>3. \A r \in Range(kept) : \E i \in I : r = rows[i]
    BY <2>2 DEF Draws, Range
  <2>4. ASSUME NEW i \in I, ~Cost(rows[i].cell).ok PROVE \E c \in Range(rows[i].cell) : c.amount = Garbled
    BY <1>2, <1>3, <2>4, CostTold
  <2> QED
    BY <2>3, <2>4
<1> HIDE DEF torn, unread
<1>5. ParseMietobjekte(tables).ok \in BOOLEAN /\ (~ParseMietobjekte(tables).ok => torn \/ unread)
  BY <1>1, RentalsParsed
<1> QED
  BY <1>4, <1>5 DEF torn, rows, I

(* Every labelled row is one item, no deposit a fee, and only an           *)
(* unreadable page is refused.                                             *)
THEOREM RowsAreKept ==
  ASSUME NEW tables \in Seq(RentalTable)
  PROVE  RowsKept(tables, ParseMietobjekte(tables))
<1> DEFINE rows == AllRows(tables)
           I == LabelledOf(rows)
           result == ParseMietobjekte(tables)
           items == result.value.lockers \o result.value.rentals
           E == Turned(rows)
<1>1. List(rows) /\ \A i \in DOMAIN rows : rows[i].cell \in Cell
  BY RowsRead
<1>2. I \in SUBSET DOMAIN rows
  BY DEF LabelledOf
<1>3. ASSUME result.ok
      PROVE /\ Len(items) = Cardinality(I)
            /\ \A row \in {rows[i] : i \in I} :
                 Cardinality({k \in DOMAIN items : items[k].raw = row}) = Cardinality({i \in I : rows[i] = row})
            /\ \A x \in Range(items) : ItemTold(x)
  <2>1. List(items) /\ Matches(items, E, I) /\ \A i \in I : Cost(rows[i].cell).ok
    BY <1>3, RentalsRead
  <2>2. \A i \in I : E[i] = Item(rows[i])
    BY <1>2 DEF Turned
  <2> HIDE DEF rows, I, result, items, E
  <2>3. \A i \in I : ItemTold(E[i]) /\ E[i].raw = rows[i]
    BY <1>1, <1>2, <2>1, <2>2, ItemIsTold
  <2>4. \A k \in DOMAIN items : \E i \in I : items[k] = E[i]
    <3>1. PICK at \in Bijection(DOMAIN items, I) : \A k \in DOMAIN items : items[k] = E[at[k]]
      BY <2>1 DEF Matches
    <3>2. \A k \in DOMAIN items : at[k] \in I
      BY <3>1 DEF Bijection, Injection
    <3> QED
      BY <3>1, <3>2
  <2>5. Len(items) = Cardinality(I)
    BY <2>1, MatchedLength
  <2>6. ASSUME NEW row
        PROVE Cardinality({k \in DOMAIN items : items[k].raw = row}) = Cardinality({i \in I : rows[i] = row})
    <3> DEFINE T == {E[i] : i \in {j \in I : rows[j] = row}}
    <3>1. \A k \in DOMAIN items : items[k] \in T <=> items[k].raw = row
      BY <2>3, <2>4
    <3>2. \A i \in I : E[i] \in T <=> rows[i] = row
      BY <2>3
    <3> HIDE DEF T
    <3>3. {k \in DOMAIN items : items[k] \in T} = {k \in DOMAIN items : items[k].raw = row}
      BY <3>1
    <3>4. {i \in I : E[i] \in T} = {i \in I : rows[i] = row}
      BY <3>2
    <3>5. MembersAlike(items, E, I, T)
      BY <2>1, MatchedMembers
    <3> QED
      BY <3>3, <3>4, <3>5 DEF MembersAlike
  <2>7. \A x \in Range(items) : ItemTold(x)
    BY <2>3, <2>4 DEF Range
  <2> QED
    BY <2>5, <2>6, <2>7
<1>4. ~result.ok => \/ \E t \in Range(tables) : ~t.decodes
                    \/ \E i \in I : \E c \in Range(rows[i].cell) : c.amount = Garbled
  BY RentalsRefused
<1>5. result.ok \in BOOLEAN
  BY RentalsRefused
<1> HIDE DEF result
<1> QED
  BY <1>3, <1>4, <1>5, Zenon DEF RowsKept, ItemTold, LabelledOf, AllRows, result

(* What holds of none, and of one more, holds of any number.               *)
LEMMA Climbing ==
  ASSUME NEW n \in Nat, NEW S, 0 \in S, \A k \in 1..n : k - 1 \in S => k \in S
  PROVE  \A k \in 0..n : k \in S
<1> DEFINE Bad == {k \in 0..n : k \notin S}
           m == Min(Bad)
<1> SUFFICES ASSUME Bad # {} PROVE FALSE
  OBVIOUS
<1>1. m \in Bad /\ \A k \in Bad : m <= k
  <2>1. Bad \in SUBSET Nat
    OBVIOUS
  <2> HIDE DEF Bad
  <2> QED
    BY <2>1, Least
<1> HIDE DEF m
<1>2. m \in 1..n /\ m - 1 \in 0..n /\ ~(m <= m - 1)
  BY <1>1
<1>3. m - 1 \in S
  BY <1>1, <1>2
<1> QED
  BY <1>1, <1>2, <1>3

(* The section a row of a table is in.                                     *)
Heads(rows, i) == {j \in 1..i : \A c \in 1..3 : rows[j].cells[c] = Blank}
Heading(rows, i) ==
  IF Heads(rows, i) = {} THEN NoSection
  ELSE rows[CHOOSE j \in Heads(rows, i) : \A k \in Heads(rows, i) : k <= j].label

(* A row read after others, and all of them in turn.                       *)
ReadNext(read, row) ==
  IF HasPrices(row) THEN [read EXCEPT !.out = Append(@, [section |-> read.section, row |-> row])]
  ELSE [read EXCEPT !.section = row.label]

NoneRead == [section |-> NoSection, out |-> <<>>]
InTurn(f, rows, n) == f = [k \in 0..n |-> IF k = 0 THEN NoneRead ELSE ReadNext(f[k - 1], rows[k])]

LEMMA RowsInTurn == ASSUME NEW rows, NEW n \in Nat PROVE \E f : InTurn(f, rows, n)
<1> DEFINE S == {m \in Nat : \E f : InTurn(f, rows, m)}
<1>1. 0 \in S
  <2> DEFINE f == [k \in 0..0 |-> NoneRead]
  <2>1. InTurn(f, rows, 0)
    BY DEF InTurn
  <2> QED
    BY <2>1
<1>2. ASSUME NEW m \in 1..n, m - 1 \in S PROVE m \in S
  <2>1. PICK f : InTurn(f, rows, m - 1)
    BY <1>2
  <2> DEFINE g == [k \in 0..m |-> IF k = m THEN ReadNext(f[m - 1], rows[m]) ELSE f[k]]
  <2>2. ASSUME NEW k \in 0..m PROVE g[k] = IF k = 0 THEN NoneRead ELSE ReadNext(g[k - 1], rows[k])
    <3>1. k # 0 => k - 1 \in 0..m /\ k - 1 # m /\ g[k - 1] = f[k - 1]
      OBVIOUS
    <3>2. CASE k = m
      BY <3>1, <3>2
    <3>3. CASE k # m
      <4>1. k \in 0..(m - 1)
        BY <3>3
      <4>2. f[k] = IF k = 0 THEN NoneRead ELSE ReadNext(f[k - 1], rows[k])
        BY <2>1, <4>1 DEF InTurn
      <4> QED
        BY <3>1, <3>3, <4>2
    <3> QED
      BY <3>2, <3>3
  <2>3. InTurn(g, rows, m)
    BY <2>2 DEF InTurn
  <2> QED
    BY <2>3
<1> HIDE DEF S
<1>3. n \in S
  BY <1>1, <1>2, Climbing
<1> QED
  BY <1>3 DEF S

(* What is listed of the first k rows: each priced row under its heading.  *)
Under(entry, rows, k) ==
  \E i \in 1..k : HasPrices(rows[i]) /\ entry = [section |-> Heading(rows, i), row |-> rows[i]]
SoFar(read, rows, k) ==
  /\ DOMAIN read = {"section", "out"}
  /\ read.section = Heading(rows, k)
  /\ List(read.out)
  /\ \A x \in DOMAIN read.out : Under(read.out[x], rows, k)

LEMMA OneRowMore ==
  ASSUME NEW rows, NEW k \in Nat \ {0}, NEW read, SoFar(read, rows, k - 1)
  PROVE  SoFar(ReadNext(read, rows[k]), rows, k)
<1> DEFINE row == rows[k]
           next == ReadNext(read, row)
           entry == [section |-> read.section, row |-> row]
<1>1. 1..k = (1..(k - 1)) \cup {k} /\ \A i \in 1..(k - 1) : i < k
  OBVIOUS
<1>2. /\ DOMAIN read = {"section", "out"}
      /\ read.section = Heading(rows, k - 1)
      /\ List(read.out)
      /\ \A x \in DOMAIN read.out : Under(read.out[x], rows, k - 1)
  BY DEF SoFar
<1>3. \A e : Under(e, rows, k - 1) => Under(e, rows, k)
  BY <1>1 DEF Under
<1>4. CASE HasPrices(row)
  <2>1. /\ DOMAIN next = {"section", "out"}
        /\ next.section = read.section
        /\ next.out = Append(read.out, entry)
    BY <1>2, <1>4 DEF ReadNext
  <2>2. Heads(rows, k) = Heads(rows, k - 1)
    BY <1>1, <1>4 DEF Heads, HasPrices
  <2>3. next.section = Heading(rows, k)
    BY <1>2, <2>1, <2>2 DEF Heading
  <2>4. Under(entry, rows, k)
    BY <1>1, <1>4, <2>1, <2>3 DEF Under
  <2> DEFINE S == Range(read.out) \cup {entry}
  <2>5. read.out \in Seq(S) /\ entry \in S /\ Len(read.out) \in Nat /\ DOMAIN read.out = 1..Len(read.out)
    BY <1>2, Listing, SeqMonotonic
  <2> HIDE DEF S, entry, next
  <2>6. /\ next.out \in Seq(S) /\ Len(next.out) = Len(read.out) + 1
        /\ \A x \in 1..Len(read.out) : next.out[x] = read.out[x]
        /\ next.out[Len(read.out) + 1] = entry
    BY <2>1, <2>5, AppendProperties
  <2>7. List(next.out) /\ DOMAIN next.out = 1..(Len(read.out) + 1)
    BY <2>6, SequenceIsList, LenProperties
  <2>8. \A x \in DOMAIN next.out : Under(next.out[x], rows, k)
    BY <1>2, <1>3, <2>4, <2>5, <2>6, <2>7
  <2> QED
    BY <2>1, <2>3, <2>7, <2>8 DEF SoFar, next
<1>5. CASE ~HasPrices(row)
  <2>1. /\ DOMAIN next = {"section", "out"}
        /\ next.section = row.label
        /\ next.out = read.out
    BY <1>2, <1>5 DEF ReadNext
  <2>2. k \in Heads(rows, k) /\ \A j \in Heads(rows, k) : j <= k /\ j \in Nat
    BY <1>5 DEF Heads, HasPrices
  <2>3. (CHOOSE j \in Heads(rows, k) : \A i \in Heads(rows, k) : i <= j) = k
    <3> DEFINE last == CHOOSE j \in Heads(rows, k) : \A i \in Heads(rows, k) : i <= j
    <3>1. last \in Heads(rows, k) /\ \A i \in Heads(rows, k) : i <= last
      BY <2>2
    <3>2. k <= last /\ last <= k /\ last \in Nat
      BY <2>2, <3>1
    <3> QED
      BY <3>2
  <2>4. next.section = Heading(rows, k)
    BY <2>1, <2>2, <2>3 DEF Heading
  <2> QED
    BY <1>2, <1>3, <2>1, <2>4 DEF SoFar
<1> QED
  BY <1>4, <1>5

(* What _sectioned returns.                                                *)
LEMMA RowsAreSectioned ==
  ASSUME NEW rows, List(rows)
  PROVE  List(Sectioned(rows)) /\ \A x \in DOMAIN Sectioned(rows) : Under(Sectioned(rows)[x], rows, Len(rows))
<1> DEFINE n == Len(rows)
           f == CHOOSE g : InTurn(g, rows, n)
           S == {k \in 0..n : SoFar(f[k], rows, k)}
<1>1. n \in Nat
  BY Listing
<1>2. Sectioned(rows) = f[n].out
  BY DEF Sectioned, InTurn, NoneRead, ReadNext
<1>3. InTurn(f, rows, n)
  BY <1>1, RowsInTurn
<1> HIDE DEF f
<1>4. \A k \in 0..n : f[k] = IF k = 0 THEN NoneRead ELSE ReadNext(f[k - 1], rows[k])
  BY <1>3 DEF InTurn
<1> HIDE DEF n
<1>5. 0 \in S
  <2>1. f[0] = NoneRead /\ 0 \in 0..n
    BY <1>1, <1>4
  <2>2. Heads(rows, 0) = {} /\ Heading(rows, 0) = NoSection
    BY DEF Heads, Heading
  <2>3. List(<<>>) /\ DOMAIN <<>> = {}
    <3>1. <<>> \in Seq({}) /\ DOMAIN <<>> = {}
      OBVIOUS
    <3> QED
      BY <3>1, SequenceIsList
  <2>4. SoFar(NoneRead, rows, 0)
    BY <2>2, <2>3 DEF SoFar, NoneRead
  <2> QED
    BY <2>1, <2>4
<1>6. ASSUME NEW k \in 1..n, k - 1 \in S PROVE k \in S
  <2>1. k \in Nat \ {0} /\ k \in 0..n /\ k - 1 \in 0..n
    BY <1>1
  <2>2. f[k] = ReadNext(f[k - 1], rows[k])
    BY <1>4, <2>1
  <2>3. SoFar(f[k], rows, k)
    BY <1>6, <2>1, <2>2, OneRowMore
  <2> QED
    BY <2>1, <2>3
<1> HIDE DEF S
<1>7. n \in S
  <2>1. n \in Nat /\ n \in 0..n
    BY <1>1
  <2>2. \A k \in 0..n : k \in S
    BY <1>5, <1>6, <2>1, Climbing
  <2> QED
    BY <2>1, <2>2
<1>8. SoFar(f[n], rows, n)
  BY <1>7 DEF S
<1> QED
  BY <1>2, <1>8 DEF SoFar, n

(* The row a rate is taken from.                                           *)
RateRow(row, rows, section) ==
  \E i \in DOMAIN rows : /\ row = rows[i] /\ HasPrices(rows[i])
                         /\ rows[i].label = SingleEntry /\ Heading(rows, i) = section

LEMMA RateIsOfSection ==
  ASSUME NEW rows, List(rows), NEW section, SingleEntryRow(rows, section) # Refusal
  PROVE  RateRow(SingleEntryRow(rows, section), rows, section)
<1> DEFINE s == Sectioned(rows)
           I == {x \in DOMAIN s : s[x].section = section /\ s[x].row.label = SingleEntry}
           found == IF I = {} THEN Refusal ELSE s[Min(I)]
<1>1. SingleEntryRow(rows, section) = IF found = Refusal THEN Refusal ELSE found.row
  BY DEF SingleEntryRow, FirstThat
<1>2. List(s) /\ \A x \in DOMAIN s : Under(s[x], rows, Len(rows))
  BY RowsAreSectioned
<1>3. I # {} /\ SingleEntryRow(rows, section) = s[Min(I)].row
  BY <1>1
<1>4. Min(I) \in I
  <2>1. I \in SUBSET DOMAIN s
    OBVIOUS
  <2>2. DOMAIN s \in SUBSET Nat
    BY <1>2, Listing
  <2> HIDE DEF I, s
  <2> QED
    BY <1>3, <2>1, <2>2, Least
<1>5. PICK x \in DOMAIN s : /\ SingleEntryRow(rows, section) = s[x].row
                            /\ s[x].section = section /\ s[x].row.label = SingleEntry
  BY <1>3, <1>4
<1> HIDE DEF s, I, found
<1>6. PICK i \in 1..Len(rows) : HasPrices(rows[i]) /\ s[x] = [section |-> Heading(rows, i), row |-> rows[i]]
  BY <1>2, <1>5 DEF Under
<1>7. i \in DOMAIN rows
  BY Listing
<1>8. s[x].row = rows[i] /\ s[x].section = Heading(rows, i)
  BY <1>6
<1> QED
  BY <1>5, <1>6, <1>7, <1>8 DEF RateRow

(* What parse_prices takes its two rates from.                             *)
Charged(tables, result) ==
  \E t \in Range(tables) : \E g, s :
    /\ RateRow(g, t.rows, NoSection) /\ RateRow(s, t.rows, SchoolSection)
    /\ result.value.general = PriceTable(t.bounds, g)
    /\ result.value.school = PriceTable(t.bounds, s)

LEMMA RatesRead ==
  ASSUME NEW tables \in Seq(TariffSheet), ParsePrices(tables).ok
  PROVE  Charged(tables, ParsePrices(tables))
<1> DEFINE General(t) == SingleEntryRow(t.rows, NoSection)
           School(t) == SingleEntryRow(t.rows, SchoolSection)
           I == {a \in DOMAIN tables : General(tables[a]) # Refusal /\ School(tables[a]) # Refusal}
           table == IF I = {} THEN Refusal ELSE tables[Min(I)]
           found == TariffTable(tables)
           t == found.value
           result == ParsePrices(tables)
<1>1. found = IF table = Refusal THEN Refusal
              ELSE Read([bounds |-> table.bounds, general |-> General(table), school |-> School(table)])
  BY DEF TariffTable, FirstThat
<1>2. result = IF ~found.ok THEN Refusal
               ELSE IF Priceable(t.bounds, t.general) /\ Priceable(t.bounds, t.school)
                 THEN Read([general |-> PriceTable(t.bounds, t.general), school |-> PriceTable(t.bounds, t.school)])
                 ELSE Refusal
  BY DEF ParsePrices
<1>3. List(tables) /\ \A a \in DOMAIN tables : tables[a] \in TariffSheet
  BY SequenceIsList
<1>4. I \in SUBSET DOMAIN tables
  OBVIOUS
<1>5. \A a \in I : General(tables[a]) # Refusal /\ School(tables[a]) # Refusal
  OBVIOUS
<1> HIDE DEF I, General, School, found, result
<1>6. /\ found.ok
      /\ result.value.general = PriceTable(t.bounds, t.general)
      /\ result.value.school = PriceTable(t.bounds, t.school)
  <2>1. result.ok
    BY DEF result
  <2>2. result # Refusal
    BY <2>1 DEF Refusal
  <2> QED
    BY <1>2, <2>2 DEF Read
<1>7. table # Refusal
  BY <1>1, <1>6 DEF Refusal
<1>8. I # {} /\ Min(I) \in I
  <2>1. I # {}
    BY <1>7
  <2>2. DOMAIN tables \in SUBSET Nat
    BY <1>3, Listing
  <2> QED
    BY <1>4, <2>1, <2>2, Least
<1>9. PICK a \in DOMAIN tables : table = tables[a] /\ General(tables[a]) # Refusal /\ School(tables[a]) # Refusal
  BY <1>4, <1>5, <1>8
<1> HIDE DEF table
<1>10. t.bounds = table.bounds /\ t.general = General(table) /\ t.school = School(table)
  BY <1>1, <1>7 DEF Read
<1>11. List(table.rows)
  <2>1. table.rows \in Seq(TariffRow)
    BY <1>3, <1>9 DEF TariffSheet
  <2> QED
    BY <2>1, SequenceIsList
<1>12. RateRow(General(table), table.rows, NoSection) /\ RateRow(School(table), table.rows, SchoolSection)
  BY <1>9, <1>11, RateIsOfSection DEF General, School
<1>13. table \in Range(tables)
  BY <1>9 DEF Range
<1> QED
  BY <1>6, <1>10, <1>12, <1>13 DEF Charged, result

(* Each rate is from its own section of one table.                         *)
THEOREM RatesAreOfSections ==
  ASSUME NEW tables \in Seq(TariffSheet)
  PROVE  RatesFromTheirSections(tables, ParsePrices(tables))
<1> DEFINE result == ParsePrices(tables)
           Printed(t, i, section, table) ==
             /\ t.rows[i].label = SingleEntry /\ HasPrices(t.rows[i]) /\ Heading(t.rows, i) = section
             /\ \A c \in 1..3 : table[c] = [amount |-> t.rows[i].cells[c], minAge |-> t.bounds[c]]
<1>1. ASSUME result.ok
      PROVE \E t \in Range(tables) : \E i, j \in DOMAIN t.rows :
              /\ Printed(t, i, NoSection, result.value.general)
              /\ Printed(t, j, SchoolSection, result.value.school)
  <2>1. Charged(tables, result)
    BY <1>1, RatesRead
  <2> HIDE DEF result
  <2>2. PICK t \in Range(tables) : \E g, s :
          /\ RateRow(g, t.rows, NoSection) /\ RateRow(s, t.rows, SchoolSection)
          /\ result.value.general = PriceTable(t.bounds, g)
          /\ result.value.school = PriceTable(t.bounds, s)
    BY <2>1 DEF Charged
  <2>3. PICK i \in DOMAIN t.rows : /\ HasPrices(t.rows[i]) /\ t.rows[i].label = SingleEntry
                                   /\ Heading(t.rows, i) = NoSection
                                   /\ result.value.general = PriceTable(t.bounds, t.rows[i])
    BY <2>2 DEF RateRow
  <2>4. PICK j \in DOMAIN t.rows : /\ HasPrices(t.rows[j]) /\ t.rows[j].label = SingleEntry
                                   /\ Heading(t.rows, j) = SchoolSection
                                   /\ result.value.school = PriceTable(t.bounds, t.rows[j])
    BY <2>2 DEF RateRow
  <2>5. Printed(t, i, NoSection, result.value.general) /\ Printed(t, j, SchoolSection, result.value.school)
    BY <2>3, <2>4 DEF PriceTable
  <2> QED
    BY <2>5
<1> HIDE DEF result
<1>2. RatesFromTheirSections(tables, result)
  BY <1>1, Zenon DEF RatesFromTheirSections, Heading, Heads
<1> QED
  BY <1>2 DEF result

-----------------------------------------------------------------------------
(* Places and lists, once more                                              *)

(* A set of places has a last one.                                         *)
LEMMA Latest ==
  ASSUME NEW n \in Nat, NEW S \in SUBSET (1..n), S # {}
  PROVE  Max(S) \in S /\ \A k \in S : k <= Max(S)
<1> DEFINE T == {n - k : k \in S}
           m == Min(T)
<1>1. T \in SUBSET Nat /\ T # {}
  <2>1. \A k \in S : n - k \in Nat
    OBVIOUS
  <2> QED
    BY <2>1
<1>2. m \in T /\ \A k \in T : m <= k
  <2> HIDE DEF T
  <2> QED
    BY <1>1, Least
<1>3. PICK k \in S : m = n - k
  BY <1>2
<1>4. \A j \in S : j <= k
  BY <1>2, <1>3
<1> QED
  BY <1>4 DEF Max

(* What keeps every place keeps the list.                                  *)
LEMMA KeptWhole ==
  ASSUME NEW s, List(s), NEW t, Keeps(t, s, DOMAIN s)
  PROVE  t = s
<1>1. PICK at \in [DOMAIN t -> DOMAIN s] :
        /\ \A k \in DOMAIN t : t[k] = s[at[k]]
        /\ \A i \in DOMAIN s : \E k \in DOMAIN t : at[k] = i
        /\ \A j, k \in DOMAIN t : j < k => at[j] < at[k]
  BY DEF Keeps
<1> DEFINE m == Len(t)
           n == Len(s)
<1>2. List(t) /\ DOMAIN t = 1..m /\ m \in Nat /\ DOMAIN s = 1..n /\ n \in Nat
  BY Listing DEF Keeps
<1> DEFINE S == {0} \cup {k \in 1..m : at[k] = k}
<1>3. ASSUME NEW k \in 1..m, k - 1 \in S PROVE k \in S
  <2> SUFFICES ASSUME at[k] # k PROVE FALSE
    OBVIOUS
  <2>1. at[k] \in 1..n /\ \A j \in 1..m : at[j] \in 1..n
    BY <1>1, <1>2
  <2>2. at[k] > k
    <3>1. k - 1 # 0 => k - 1 \in 1..m /\ at[k - 1] = k - 1 /\ at[k - 1] < at[k]
      BY <1>1, <1>2, <1>3
    <3> QED
      BY <1>2, <2>1, <3>1
  <2>3. k \in 1..n
    BY <1>2, <2>1, <2>2
  <2>4. PICK j \in 1..m : at[j] = k
    BY <1>1, <1>2, <2>3
  <2>5. CASE j < k
    <3>1. k - 1 \in 1..m /\ at[k - 1] = k - 1 /\ (j = k - 1 \/ at[j] < at[k - 1])
      BY <1>1, <1>2, <1>3, <2>5
    <3> QED
      BY <1>2, <2>4, <2>5, <3>1
  <2>6. CASE j > k
    <3>1. at[k] < at[j]
      BY <1>1, <1>2, <2>6
    <3> QED
      BY <1>2, <2>1, <2>2, <2>4, <3>1
  <2>7. j # k
    BY <2>2, <2>4
  <2> QED
    BY <1>2, <2>5, <2>6, <2>7
<1>4. \A k \in 1..m : at[k] = k
  <2>1. 0 \in S
    OBVIOUS
  <2> HIDE DEF S
  <2>2. \A k \in 0..m : k \in S
    BY <1>2, <1>3, <2>1, Climbing
  <2> QED
    BY <1>2, <2>2 DEF S
<1>5. m = n
  <2>1. ASSUME n # 0 PROVE n \in 1..m
    <3>1. n \in DOMAIN s
      BY <1>2, <2>1
    <3>2. PICK k \in DOMAIN t : at[k] = n
      BY <1>1, <3>1
    <3> QED
      BY <1>2, <1>4, <3>2
  <2>2. ASSUME m # 0 PROVE m \in 1..n
    <3>1. m \in DOMAIN t /\ at[m] = m
      BY <1>2, <1>4, <2>2
    <3> QED
      BY <1>1, <1>2, <3>1
  <2>3. m \in Nat /\ n \in Nat
    BY <1>2
  <2> HIDE DEF m, n
  <2> QED
    BY <2>1, <2>2, <2>3
<1>6. t = [k \in DOMAIN t |-> t[k]] /\ s = [k \in DOMAIN s |-> s[k]]
  BY <1>2 DEF List
<1>7. DOMAIN t = DOMAIN s /\ \A k \in DOMAIN t : t[k] = s[k]
  BY <1>1, <1>2, <1>4, <1>5
<1> QED
  BY <1>6, <1>7

(* The elements of flattened lists are those of the lists.                 *)
LEMMA FlattenedRange ==
  ASSUME NEW seqs, List(seqs), \A i \in DOMAIN seqs : List(seqs[i])
  PROVE  List(FlattenSeq(seqs)) /\ Range(FlattenSeq(seqs)) = UNION {Range(seqs[i]) : i \in DOMAIN seqs}
<1> DEFINE t == FlattenSeq(seqs)
<1>1. Flattens(t, seqs, Len(seqs))
  BY Flattened
<1> HIDE DEF t
<1>2. PICK at \in [DOMAIN t -> Spots(seqs, Len(seqs))] :
        /\ \A k \in DOMAIN t : t[k] = seqs[at[k][1]][at[k][2]]
        /\ \A p \in Spots(seqs, Len(seqs)) : \E k \in DOMAIN t : at[k] = p
  BY <1>1 DEF Flattens
<1>3. DOMAIN seqs = 1..Len(seqs) /\ Len(seqs) \in Nat
  BY Listing
<1>4. \A k \in DOMAIN t : at[k][1] \in DOMAIN seqs /\ at[k][2] \in DOMAIN seqs[at[k][1]]
  BY <1>2, <1>3, SpotsRead
<1>5. ASSUME NEW i \in DOMAIN seqs, NEW j \in DOMAIN seqs[i] PROVE \E k \in DOMAIN t : t[k] = seqs[i][j]
  <2>1. DOMAIN seqs[i] = 1..Len(seqs[i]) /\ Len(seqs[i]) \in Nat
    BY Listing
  <2>2. <<i, j>> \in Spots(seqs, Len(seqs))
    BY <1>3, <2>1 DEF Spots
  <2>3. PICK k \in DOMAIN t : at[k] = <<i, j>>
    BY <1>2, <2>2
  <2>4. t[k] = seqs[i][j]
    BY <1>2, <2>3
  <2> QED
    BY <2>4
<1>6. Range(t) = UNION {Range(seqs[i]) : i \in DOMAIN seqs}
  <2>1. \A x \in Range(t) : \E i \in DOMAIN seqs : x \in Range(seqs[i])
    BY <1>2, <1>4 DEF Range
  <2>2. \A i \in DOMAIN seqs : \A x \in Range(seqs[i]) : x \in Range(t)
    BY <1>5 DEF Range
  <2> QED
    BY <2>1, <2>2
<1>7. List(t)
  BY <1>1 DEF Flattens
<1> QED
  BY <1>6, <1>7 DEF t

-----------------------------------------------------------------------------
(* Timetables                                                              *)

(* A span read to its end, past Sunday or not.                             *)
LEMMA SpansWrap ==
  ASSUME NEW a \in Weekdays, NEW b \in Weekdays
  PROVE  {d \in Weekdays : \E n \in 0..6 : (a + n) % 7 = d /\ \A m \in 0..(n - 1) : (a + m) % 7 # b}
           = SpanDays(a, b)
<1> DEFINE Comes(d) == \E n \in 0..6 : (a + n) % 7 = d /\ \A m \in 0..(n - 1) : (a + m) % 7 # b
           gap(x) == IF x >= a THEN x - a ELSE x - a + 7
<1>1. a \in 0..6 /\ b \in 0..6
  BY DEF Weekdays
<1>2. ASSUME NEW n \in 0..6 PROVE (a + n) % 7 = IF a + n <= 6 THEN a + n ELSE a + n - 7
  BY <1>1
<1>3. ASSUME NEW x \in 0..6 PROVE gap(x) \in 0..6 /\ (a + gap(x)) % 7 = x /\ \A n \in 0..6 : (a + n) % 7 = x => n = gap(x)
  BY <1>1, <1>2
<1>4. ASSUME NEW d \in 0..6 PROVE Comes(d) <=> gap(d) <= gap(b)
  <2>1. ASSUME gap(d) <= gap(b) PROVE \A m \in 0..(gap(d) - 1) : (a + m) % 7 # b
    BY <1>1, <1>3, <2>1
  <2>2. ASSUME NEW n \in 0..6, (a + n) % 7 = d, \A m \in 0..(n - 1) : (a + m) % 7 # b PROVE n = gap(d) /\ gap(d) <= gap(b)
    BY <1>1, <1>3, <2>2
  <2> QED
    BY <1>3, <2>1, <2>2
<1>5. ASSUME NEW d \in 0..6 PROVE gap(d) <= gap(b) <=> IF a <= b THEN a <= d /\ d <= b ELSE d >= a \/ d <= b
  BY <1>1
<1> HIDE DEF Comes, gap
<1>6. \A d \in Weekdays : Comes(d) <=> d \in SpanDays(a, b)
  BY <1>4, <1>5 DEF Weekdays, SpanDays
<1>7. SpanDays(a, b) \subseteq Weekdays
  BY DEF SpanDays
<1> QED
  BY <1>6, <1>7 DEF Comes

(* The weekdays a cell names, as a person reads it.                        *)
NamedBy(cell) ==
  {d \in Weekdays :
     \/ ~cell.span /\ d \in Range(cell.tokens)
     \/ /\ cell.span
        /\ \E n \in 0..6 : /\ (cell.tokens[1] + n) % 7 = d
                           /\ \A m \in 0..(n - 1) : (cell.tokens[1] + m) % 7 # cell.tokens[2]}

LEMMA DaysParsed ==
  ASSUME NEW cell \in Days
  PROVE  ParseDays(cell) = NamedBy(cell) /\ (ParseDays(cell) = {} <=> cell.tokens = <<>>)
<1>1. cell.tokens \in Seq(Weekdays) /\ cell.span \in BOOLEAN /\ (cell.span => Len(cell.tokens) = 2)
  BY DEF Days
<1>2. List(cell.tokens) /\ \A k \in DOMAIN cell.tokens : cell.tokens[k] \in Weekdays
  BY <1>1, SequenceIsList
<1>3. DOMAIN cell.tokens = 1..Len(cell.tokens) /\ Len(cell.tokens) \in Nat
  BY <1>2, Listing
<1>4. Range(cell.tokens) \subseteq Weekdays /\ NoDay \notin Weekdays
  BY <1>2 DEF Range, NoDay, Weekdays
<1>5. CASE cell.span
  <2>1. 1 \in DOMAIN cell.tokens /\ 2 \in DOMAIN cell.tokens
    <3>1. DOMAIN cell.tokens = 1..2
      BY <1>1, <1>3, <1>5
    <3> QED
      BY <3>1
  <2>2. cell.tokens[1] \in Weekdays /\ cell.tokens[2] \in Weekdays /\ cell.tokens # <<>>
    <3>1. Len(<<>>) = 0
      BY EmptySeq
    <3> QED
      BY <1>1, <1>2, <1>5, <2>1, <3>1
  <2>3. ParseDays(cell) = SpanDays(cell.tokens[1], cell.tokens[2])
    BY <1>4, <1>5 DEF ParseDays
  <2>4. NamedBy(cell) = SpanDays(cell.tokens[1], cell.tokens[2])
    BY <1>5, <2>2, SpansWrap DEF NamedBy
  <2>5. cell.tokens[1] \in SpanDays(cell.tokens[1], cell.tokens[2])
    BY <2>2 DEF SpanDays, Weekdays
  <2> QED
    BY <2>2, <2>3, <2>4, <2>5
<1>6. CASE ~cell.span
  <2>1. ParseDays(cell) = Range(cell.tokens)
    BY <1>4, <1>6 DEF ParseDays
  <2>2. NamedBy(cell) = Range(cell.tokens)
    BY <1>4, <1>6 DEF NamedBy
  <2>3. Range(cell.tokens) = {} <=> cell.tokens = <<>>
    <3>1. Range(cell.tokens) = {} <=> Len(cell.tokens) = 0
      <4>1. Len(cell.tokens) # 0 => 1 \in DOMAIN cell.tokens
        BY <1>3
      <4>2. Len(cell.tokens) = 0 => DOMAIN cell.tokens = {}
        BY <1>3
      <4> QED
        BY <4>1, <4>2 DEF Range
    <3>2. Len(<<>>) = 0 /\ (cell.tokens # <<>> => Len(cell.tokens) # 0)
      BY <1>1, EmptySeq
    <3> QED
      BY <3>1, <3>2
  <2> QED
    BY <2>1, <2>2, <2>3
<1> QED
  BY <1>1, <1>5, <1>6

(* The day of a row is the last one named, for the parser and a person.    *)
LEMMA DaysCarried ==
  ASSUME NEW rows \in Seq(WeeklyRow), NEW i \in DOMAIN rows
  PROVE  CarriedDays(rows, i) = DayOf(rows, i)
<1> DEFINE named == {j \in 1..i : ParseDays(rows[j].day) # {}}
<1>1. List(rows) /\ \A j \in DOMAIN rows : rows[j] \in WeeklyRow
  BY SequenceIsList
<1>2. DOMAIN rows = 1..Len(rows) /\ Len(rows) \in Nat
  BY <1>1, Listing
<1>3. i \in Nat /\ 1..i \subseteq DOMAIN rows /\ i \in 1..i
  BY <1>2
<1>4. ASSUME NEW j \in 1..i
      PROVE /\ ParseDays(rows[j].day) = NamedBy(rows[j].day)
            /\ ParseDays(rows[j].day) = {} <=> rows[j].day.tokens = <<>>
  <2>1. rows[j].day \in Days
    BY <1>1, <1>3 DEF WeeklyRow
  <2> QED
    BY <2>1, DaysParsed
<1>5. \A d : d \in DayOf(rows, i) <=>
        \E j \in 1..i : (\A k \in (j + 1)..i : rows[k].day.tokens = <<>>) /\ d \in NamedBy(rows[j].day)
  BY DEF DayOf, NamedBy
<1>6. CASE named = {}
  <2>1. CarriedDays(rows, i) = {}
    BY <1>6 DEF CarriedDays
  <2>2. \A d : d \notin DayOf(rows, i)
    BY <1>4, <1>5, <1>6
  <2> QED
    BY <2>1, <2>2
<1>7. CASE named # {}
  <2> DEFINE m == Max(named)
  <2>1. m \in named /\ \A k \in named : k <= m
    <3> HIDE DEF named
    <3>1. named \in SUBSET (1..i)
      BY DEF named
    <3> QED
      BY <1>3, <1>7, <3>1, Latest
  <2>2. CarriedDays(rows, i) = ParseDays(rows[m].day)
    BY <1>7 DEF CarriedDays
  <2> HIDE DEF m
  <2>3. m \in 1..i /\ ParseDays(rows[m].day) # {} /\ rows[m].day.tokens # <<>>
    BY <1>4, <2>1
  <2>4. ASSUME NEW k \in (m + 1)..i PROVE k \in 1..i /\ rows[k].day.tokens = <<>>
    <3>1. k \in 1..i /\ ~(k <= m)
      BY <1>3, <2>3
    <3> QED
      BY <1>4, <2>1, <3>1
  <2>5. ASSUME NEW d, NEW j \in 1..i, \A k \in (j + 1)..i : rows[k].day.tokens = <<>>,
               d \in NamedBy(rows[j].day)
        PROVE j = m
    <3>1. ~(j < m)
      <4>1. j < m => m \in (j + 1)..i
        BY <1>3, <2>3
      <4> QED
        BY <2>3, <2>5, <4>1
    <3>2. j \in named
      BY <1>4, <2>5
    <3>3. j <= m
      BY <2>1, <3>2
    <3> QED
      BY <2>3, <3>1, <3>3
  <2>6. \A d : d \in DayOf(rows, i) <=> d \in NamedBy(rows[m].day)
    BY <1>5, <2>3, <2>4, <2>5
  <2> QED
    BY <1>4, <2>2, <2>3, <2>6
<1> QED
  BY <1>6, <1>7

(* The offer beside a line, or above it.                                   *)
LEMMA OffersBeside ==
  ASSUME NEW row, row.offer \in Seq(SUBSET STRING), NEW l \in Nat \ {0}
  PROVE  CategoryAt(row.offer, l) = OfferOf(row, l)
<1> DEFINE offer == row.offer
<1>1. List(offer) /\ (offer # <<>> => Len(offer) # 0) /\ Len(<<>>) = 0
  BY SequenceIsList, EmptySeq
<1>2. DOMAIN offer = 1..Len(offer) /\ Len(offer) \in Nat
  BY <1>1, Listing
<1>3. l \in DOMAIN offer <=> l <= Len(offer)
  BY <1>2
<1>4. CASE offer = <<>>
  <2>1. l \notin DOMAIN offer
    BY <1>1, <1>3, <1>4
  <2> QED
    BY <1>4, <2>1 DEF CategoryAt, OfferOf
<1>5. CASE offer # <<>>
  BY <1>3, <1>5 DEF CategoryAt, OfferOf, Last
<1> QED
  BY <1>4, <1>5

(* The lines that read as hours are the slots of their days, each under    *)
(* its offer.                                                              *)
SlotOf(days, row, l) ==
  ScheduleRule(days, row.hours[l], ParseCategory(OfferOf(row, l)), row.hours[l].season, "any")

LEMMA SlotsRead ==
  ASSUME NEW days, NEW row \in WeeklyRow
  PROVE  /\ List(Slots(days, row.hours, row.offer))
         /\ Range(Slots(days, row.hours, row.offer)) = {SlotOf(days, row, l) : l \in HoursIn(row)}
<1> DEFINE lines == row.hours
           hours == Kept(lines, LAMBDA l : l # BlankLine)
           ids == [i \in DOMAIN hours |-> i]
           I == {i \in DOMAIN ids : ReadableAlone(hours[ids[i]])}
           places == Kept(ids, LAMBDA i : ReadableAlone(hours[i]))
           slots == Slots(days, lines, row.offer)
           SlotAt(i) == ScheduleRule(days, hours[i], ParseCategory(CategoryAt(row.offer, i)), hours[i].season, "any")
<1>1. List(lines) /\ \A l \in DOMAIN lines : lines[l] # BlankLine
  <2>1. lines \in Seq(HoursLine)
    BY DEF WeeklyRow
  <2>2. List(lines) /\ \A l \in DOMAIN lines : lines[l] \in HoursLine
    BY <2>1, SequenceIsList
  <2> QED
    BY <2>2 DEF HoursLine
<1>2. hours = lines
  <2>1. {j \in DOMAIN lines : lines[j] # BlankLine} = DOMAIN lines
    BY <1>1
  <2>2. hours = Arranged(lines, {<<0, i>> : i \in DOMAIN lines})
    BY <2>1 DEF Kept
  <2>3. Keeps(hours, lines, DOMAIN lines)
    BY <1>1, <2>2, KeptPlaces
  <2> QED
    BY <1>1, <2>3, KeptWhole
<1>3. slots = [k \in DOMAIN places |-> SlotAt(places[k])]
  BY DEF Slots, Mapped
<1>4. places = Arranged(ids, {<<0, i>> : i \in I})
  BY DEF Kept
<1> HIDE DEF slots, places, hours
<1>5. List(ids) /\ I \in SUBSET DOMAIN ids /\ DOMAIN ids = DOMAIN lines /\ \A i \in DOMAIN ids : ids[i] = i
  BY <1>1, <1>2 DEF List
<1>6. I = HoursIn(row)
  BY <1>2, <1>5 DEF HoursIn
<1> HIDE DEF ids, I
<1>7. Draws(places, ids, I)
  <2>1. Keeps(places, ids, I)
    BY <1>4, <1>5, KeptPlaces
  <2> QED
    BY <1>5, <2>1, KeptIsDrawn
<1>8. List(places) /\ Range(places) = I
  BY <1>5, <1>7 DEF Draws, DrawnFrom, Range
<1>9. List(slots) /\ DOMAIN slots = DOMAIN places
  BY <1>3, <1>8, MappedList
<1>10. ASSUME NEW l \in I PROVE SlotAt(l) = SlotOf(days, row, l)
  <2>1. l \in Nat \ {0}
    BY <1>1, <1>5, Listing
  <2>2. row.offer \in Seq(SUBSET STRING)
    BY DEF WeeklyRow
  <2> QED
    BY <1>2, <2>1, <2>2, OffersBeside DEF SlotOf
<1>11. Range(slots) = {SlotAt(l) : l \in I}
  <2> HIDE DEF SlotAt
  <2> QED
    BY <1>3, <1>8, <1>9 DEF Range
<1> QED
  BY <1>6, <1>9, <1>10, <1>11 DEF slots

(* Every printed session is served on its weekday, under its category.     *)
THEOREM SessionsAreKept ==
  ASSUME NEW rows \in Seq(WeeklyRow)
  PROVE  EverySessionKept(rows, RulesFromRows(rows))
<1> DEFINE rules == RulesFromRows(rows)
           SlotsOf(i) == Slots(DayOf(rows, i), rows[i].hours, rows[i].offer)
           seqs == [i \in DOMAIN rows |-> IF DayOf(rows, i) = {} THEN <<>> ELSE SlotsOf(i)]
           served == UNION {{[day |-> d, time |-> r.time, season |-> r.season, access |-> r.access] : d \in r.weekdays} :
                              r \in Range(rules)}
<1>1. List(rows) /\ \A i \in DOMAIN rows : rows[i] \in WeeklyRow
  BY SequenceIsList
<1>2. rules = FlattenSeq(seqs)
  BY DaysCarried DEF RulesFromRows
<1>3. List(seqs) /\ DOMAIN seqs = DOMAIN rows
  BY <1>1, MappedList
<1>4. ASSUME NEW i \in DOMAIN rows
      PROVE /\ List(seqs[i])
            /\ \A r : r \in Range(seqs[i]) <=>
                 DayOf(rows, i) # {} /\ \E l \in HoursIn(rows[i]) : r = SlotOf(DayOf(rows, i), rows[i], l)
  <2>1. CASE DayOf(rows, i) = {}
    <3>1. seqs[i] = <<>> /\ List(<<>>) /\ Range(<<>>) = {}
      BY <2>1 DEF List, Range
    <3> HIDE DEF seqs
    <3> QED
      BY <2>1, <3>1
  <2>2. CASE DayOf(rows, i) # {}
    <3>1. seqs[i] = SlotsOf(i)
      BY <2>2
    <3>2. List(SlotsOf(i)) /\ Range(SlotsOf(i)) = {SlotOf(DayOf(rows, i), rows[i], l) : l \in HoursIn(rows[i])}
      BY <1>1, SlotsRead
    <3> HIDE DEF seqs, SlotsOf
    <3> QED
      BY <2>2, <3>1, <3>2
  <2> QED
    BY <2>1, <2>2
<1> HIDE DEF seqs, rules
<1>5. Range(rules) = UNION {Range(seqs[i]) : i \in DOMAIN seqs}
  BY <1>2, <1>3, <1>4, FlattenedRange
<1>6. \A r : r \in Range(rules) <=>
        \E i \in DOMAIN rows : DayOf(rows, i) # {} /\ \E l \in HoursIn(rows[i]) : r = SlotOf(DayOf(rows, i), rows[i], l)
  BY <1>3, <1>4, <1>5
<1>7. ASSUME NEW i \in DOMAIN rows, NEW l \in HoursIn(rows[i]), NEW d,
             NEW r, r = SlotOf(DayOf(rows, i), rows[i], l)
      PROVE /\ r.weekdays = DayOf(rows, i)
            /\ [day |-> d, time |-> r.time, season |-> r.season, access |-> r.access] = SessionAt(rows[i], l, d)
  BY <1>7 DEF SlotOf, ScheduleRule, SessionAt
<1>8. ASSUME NEW x \in served PROVE x \in SessionsPrinted(rows)
  <2>1. PICK r \in Range(rules) :
          \E d \in r.weekdays : x = [day |-> d, time |-> r.time, season |-> r.season, access |-> r.access]
    BY <1>8
  <2>2. PICK d \in r.weekdays : x = [day |-> d, time |-> r.time, season |-> r.season, access |-> r.access]
    BY <2>1
  <2>3. PICK i \in DOMAIN rows : \E l \in HoursIn(rows[i]) : r = SlotOf(DayOf(rows, i), rows[i], l)
    BY <1>6
  <2>4. PICK l \in HoursIn(rows[i]) : r = SlotOf(DayOf(rows, i), rows[i], l)
    BY <2>3
  <2>5. d \in DayOf(rows, i) /\ x = SessionAt(rows[i], l, d)
    BY <1>7, <2>2, <2>4
  <2> QED
    BY <2>5 DEF SessionsPrinted
<1>9. ASSUME NEW x \in SessionsPrinted(rows) PROVE x \in served
  <2>1. PICK i \in DOMAIN rows : \E l \in HoursIn(rows[i]), d \in DayOf(rows, i) : x = SessionAt(rows[i], l, d)
    BY <1>9 DEF SessionsPrinted
  <2>2. PICK l \in HoursIn(rows[i]), d \in DayOf(rows, i) : x = SessionAt(rows[i], l, d)
    BY <2>1
  <2> DEFINE r == SlotOf(DayOf(rows, i), rows[i], l)
  <2>3. r \in Range(rules)
    BY <1>6, <2>2
  <2>4. d \in r.weekdays /\ x = [day |-> d, time |-> r.time, season |-> r.season, access |-> r.access]
    BY <1>7, <2>2
  <2> HIDE DEF r
  <2> QED
    BY <2>3, <2>4
<1> HIDE DEF served
<1>10. served = SessionsPrinted(rows)
  BY <1>8, <1>9
<1> QED
  BY <1>10 DEF EverySessionKept, served, rules

-----------------------------------------------------------------------------

(* The window of a row is the last one named.                              *)
LEMMA WindowCarried ==
  ASSUME NEW rows \in Seq(SeasonalRow), NEW i \in DOMAIN rows
  PROVE  WindowOf(rows, i) = IF CarriedWindow(rows, i) = Nothing THEN {} ELSE {CarriedWindow(rows, i)}
<1> DEFINE named == {j \in 1..i : rows[j].window # Nothing}
<1>1. List(rows) /\ DOMAIN rows = 1..Len(rows) /\ Len(rows) \in Nat
  BY SequenceIsList, Listing
<1>2. i \in Nat /\ 1..i \subseteq DOMAIN rows
  BY <1>1
<1>3. CASE named = {}
  <2>1. CarriedWindow(rows, i) = Nothing
    BY <1>3 DEF CarriedWindow
  <2>2. \A x : x \notin WindowOf(rows, i)
    BY <1>3 DEF WindowOf
  <2> QED
    BY <2>1, <2>2
<1>4. CASE named # {}
  <2> DEFINE m == Max(named)
  <2>1. m \in named /\ \A k \in named : k <= m
    <3> HIDE DEF named
    <3>1. named \in SUBSET (1..i)
      BY DEF named
    <3> QED
      BY <1>2, <1>4, <3>1, Latest
  <2>2. CarriedWindow(rows, i) = rows[m].window
    BY <1>4 DEF CarriedWindow
  <2> HIDE DEF m
  <2>3. m \in 1..i /\ rows[m].window # Nothing
    BY <2>1
  <2>4. ASSUME NEW k \in (m + 1)..i PROVE rows[k].window = Nothing
    <3>1. k \in 1..i /\ ~(k <= m)
      BY <1>2, <2>3
    <3> QED
      BY <2>1, <3>1
  <2>5. ASSUME NEW j \in 1..i, rows[j].window # Nothing, \A k \in (j + 1)..i : rows[k].window = Nothing
        PROVE j = m
    <3>1. j < m => m \in (j + 1)..i
      BY <1>2, <2>3
    <3>2. j \in named
      BY <2>5
    <3>3. j <= m
      BY <2>1, <3>2
    <3> QED
      BY <2>3, <2>5, <3>1, <3>3
  <2>6. \A x : x \in WindowOf(rows, i) <=> x = rows[m].window
    BY <2>3, <2>4, <2>5 DEF WindowOf
  <2> QED
    BY <2>2, <2>3, <2>6
<1> QED
  BY <1>3, <1>4

(* The rules of a cell are its lines that read as hours.                   *)
LEMMA CellsRead ==
  ASSUME NEW cell \in Seq(HoursLine), NEW window, NEW weather
  PROVE  /\ List(SeasonRules(cell, window, weather))
         /\ Range(SeasonRules(cell, window, weather)) = CellPrinted(cell, window, weather)
<1> DEFINE kept == Kept(cell, Readable)
           rules == SeasonRules(cell, window, weather)
           I == {i \in DOMAIN cell : Readable(cell[i])}
           RuleOf(l) == ScheduleRule(DaysOf(l), l, "public", window, weather)
<1>1. List(cell)
  BY SequenceIsList
<1>2. kept = Arranged(cell, {<<0, i>> : i \in I}) /\ I \in SUBSET DOMAIN cell
  BY DEF Kept
<1>3. rules = [k \in DOMAIN kept |-> RuleOf(kept[k])]
  BY DEF SeasonRules, Mapped, DaysOf
<1> HIDE DEF kept, I, rules
<1>4. Draws(kept, cell, I)
  <2>1. Keeps(kept, cell, I)
    BY <1>1, <1>2, KeptPlaces
  <2> QED
    BY <1>1, <1>2, <2>1, KeptIsDrawn
<1>5. Range(kept) = {x \in Range(cell) : Readable(x)}
  <2>1. Range(kept) = {cell[i] : i \in I}
    BY <1>4 DEF Draws, Range
  <2> QED
    BY <2>1 DEF I, Range
<1>6. List(kept)
  BY <1>4 DEF Draws, DrawnFrom
<1>7. List(rules) /\ DOMAIN rules = DOMAIN kept
  BY <1>3, <1>6, MappedList
<1>8. Range(rules) = {RuleOf(l) : l \in Range(kept)}
  <2> HIDE DEF RuleOf
  <2> QED
    BY <1>3, <1>7 DEF Range
<1> QED
  BY <1>5, <1>7, <1>8 DEF CellPrinted, rules

(* The rules of a row are those of its cells, under its window.            *)
CellRules(weathers, row, window) ==
  [c \in DOMAIN row.cells |-> IF c \in DOMAIN weathers THEN SeasonRules(row.cells[c], window, weathers[c]) ELSE <<>>]

LEMMA SeasonRowRead ==
  ASSUME NEW weathers, NEW row \in SeasonalRow, NEW window
  PROVE  /\ List(FlattenSeq(CellRules(weathers, row, window)))
         /\ Range(FlattenSeq(CellRules(weathers, row, window)))
              = UNION {CellPrinted(row.cells[c], window, weathers[c]) : c \in DOMAIN row.cells \cap DOMAIN weathers}
<1> DEFINE seqs == CellRules(weathers, row, window)
<1>1. List(row.cells) /\ \A c \in DOMAIN row.cells : row.cells[c] \in Seq(HoursLine)
  <2>1. row.cells \in Seq(Seq(HoursLine))
    BY DEF SeasonalRow
  <2> QED
    BY <2>1, SequenceIsList
<1>2. List(seqs) /\ DOMAIN seqs = DOMAIN row.cells
  BY <1>1, MappedList DEF CellRules
<1>3. ASSUME NEW c \in DOMAIN row.cells
      PROVE /\ List(seqs[c])
            /\ Range(seqs[c]) = IF c \in DOMAIN weathers THEN CellPrinted(row.cells[c], window, weathers[c]) ELSE {}
  <2>1. CASE c \in DOMAIN weathers
    <3>1. seqs[c] = SeasonRules(row.cells[c], window, weathers[c])
      BY <2>1 DEF CellRules
    <3> HIDE DEF seqs
    <3> QED
      BY <1>1, <2>1, <3>1, CellsRead
  <2>2. CASE c \notin DOMAIN weathers
    <3>1. seqs[c] = <<>> /\ List(<<>>) /\ Range(<<>>) = {}
      BY <2>2 DEF CellRules, List, Range
    <3> HIDE DEF seqs
    <3> QED
      BY <2>2, <3>1
  <2> QED
    BY <2>1, <2>2
<1> HIDE DEF seqs
<1>4. List(FlattenSeq(seqs)) /\ Range(FlattenSeq(seqs)) = UNION {Range(seqs[c]) : c \in DOMAIN seqs}
  BY <1>2, <1>3, FlattenedRange
<1>5. UNION {Range(seqs[c]) : c \in DOMAIN seqs}
        = UNION {CellPrinted(row.cells[c], window, weathers[c]) : c \in DOMAIN row.cells \cap DOMAIN weathers}
  <2> DEFINE Cells(c) == CellPrinted(row.cells[c], window, weathers[c])
  <2>1. \A c \in DOMAIN seqs : Range(seqs[c]) = IF c \in DOMAIN weathers THEN Cells(c) ELSE {}
    BY <1>2, <1>3
  <2> HIDE DEF Cells
  <2>2. UNION {Range(seqs[c]) : c \in DOMAIN seqs} = UNION {Cells(c) : c \in DOMAIN row.cells \cap DOMAIN weathers}
    BY <1>2, <2>1
  <2> QED
    BY <2>2 DEF Cells
<1> QED
  BY <1>4, <1>5 DEF seqs

(* Every published window runs the hours beside it, in their weather.      *)
THEOREM WeatherIsSaid ==
  ASSUME NEW weathers, NEW rows \in Seq(SeasonalRow)
  PROVE  WeatherSaid(weathers, rows, RulesFromSeasonRows(weathers, rows))
<1> DEFINE rules == RulesFromSeasonRows(weathers, rows)
           At(i) == CarriedWindow(rows, i)
           RowRules(i) == FlattenSeq(CellRules(weathers, rows[i], At(i)))
           seqs == [i \in DOMAIN rows |-> IF At(i) = Nothing THEN <<>> ELSE RowRules(i)]
           Of(i, window) == UNION {CellPrinted(rows[i].cells[c], window, weathers[c]) :
                                     c \in DOMAIN rows[i].cells \cap DOMAIN weathers}
           Beside(i) == UNION {CellPrinted(rows[i].cells[c], window, weathers[c]) :
                                c \in DOMAIN rows[i].cells \cap DOMAIN weathers, window \in WindowOf(rows, i)}
<1>1. List(rows) /\ \A i \in DOMAIN rows : rows[i] \in SeasonalRow
  BY SequenceIsList
<1>2. rules = FlattenSeq(seqs)
  BY DEF RulesFromSeasonRows, CellRules
<1>3. List(seqs) /\ DOMAIN seqs = DOMAIN rows
  BY <1>1, MappedList
<1>4. ASSUME NEW i \in DOMAIN rows PROVE List(seqs[i]) /\ Range(seqs[i]) = Beside(i)
  <2>1. WindowOf(rows, i) = IF At(i) = Nothing THEN {} ELSE {At(i)}
    BY WindowCarried
  <2>2. CASE At(i) = Nothing
    <3>1. seqs[i] = <<>> /\ List(<<>>) /\ Range(<<>>) = {}
      BY <2>2 DEF List, Range
    <3>2. Beside(i) = {}
      <4>1. WindowOf(rows, i) = {}
        BY <2>1, <2>2
      <4> QED
        BY <4>1
    <3> HIDE DEF seqs, Beside
    <3> QED
      BY <3>1, <3>2
  <2>3. CASE At(i) # Nothing
    <3>1. seqs[i] = RowRules(i)
      BY <2>3
    <3>2. List(RowRules(i)) /\ Range(RowRules(i)) = Of(i, At(i))
      BY <1>1, SeasonRowRead
    <3>3. Beside(i) = Of(i, At(i))
      <4> HIDE DEF At
      <4>1. WindowOf(rows, i) = {At(i)}
        BY <2>1, <2>3
      <4> QED
        BY <4>1
    <3> HIDE DEF seqs, RowRules, Beside, Of
    <3> QED
      BY <3>1, <3>2, <3>3
  <2> QED
    BY <2>2, <2>3
<1> HIDE DEF seqs, rules, Beside
<1>5. Range(rules) = UNION {Range(seqs[i]) : i \in DOMAIN seqs}
  BY <1>2, <1>3, <1>4, FlattenedRange
<1>6. UNION {Range(seqs[i]) : i \in DOMAIN seqs} = UNION {Beside(i) : i \in DOMAIN rows}
  BY <1>3, <1>4
<1>7. UNION {Beside(i) : i \in DOMAIN rows} = WindowsPrinted(weathers, rows)
  BY DEF Beside, WindowsPrinted
<1> QED
  BY <1>5, <1>6, <1>7 DEF WeatherSaid, rules

(* A section opens, closes, and holds one heading and one table at most.   *)
PrintedAs(piece, section) ==
  /\ List(piece)
  /\ 1 < Len(piece)
  /\ \A b \in DOMAIN piece : piece[b].is = "open" <=> b = 1
  /\ \A b \in DOMAIN piece : piece[b].is = "close" <=> b = Len(piece)
  /\ \A b \in DOMAIN piece : piece[b].is = "heading" => section.label # "none" /\ piece[b].label = section.label
  /\ section.label # "none" => \E b \in DOMAIN piece : piece[b].is = "heading"
  /\ \A b \in DOMAIN piece : piece[b].is = "table" => section.tables # <<>> /\ piece[b].table = section.tables[1]
  /\ section.tables # <<>> => \E b \in DOMAIN piece : piece[b].is = "table"
  /\ \A b, c \in DOMAIN piece : piece[b].is = "table" /\ piece[c].is = "table" => b = c

LEMMA AtMostOne == ASSUME NEW s, NEW e, s = <<>> \/ s = <<e>> PROVE AtMost(s, e)
<1>1. List(<<>>) /\ Len(<<>>) = 0 /\ DOMAIN <<>> = {}
  BY DEF List
<1>2. List(<<e>>) /\ Len(<<e>>) = 1 /\ DOMAIN <<e>> = {1} /\ <<e>>[1] = e
  BY DEF List
<1> QED
  BY <1>1, <1>2 DEF AtMost

(* A list of one element at most.                                          *)
LEMMA OneOrNone ==
  ASSUME NEW s, List(s), Len(s) <= 1
  PROVE  \/ s = <<>> /\ Len(s) = 0 /\ DOMAIN s = {}
         \/ s # <<>> /\ Len(s) = 1 /\ DOMAIN s = {1}
<1>1. Len(s) \in Nat /\ DOMAIN s = 1..Len(s) /\ s \in Seq(Range(s))
  BY Listing
<1>2. Len(s) = 0 => s = <<>>
  BY <1>1, EmptySeq
<1>3. Len(<<>>) = 0
  OBVIOUS
<1>4. 1..0 = {} /\ 1..1 = {1}
  OBVIOUS
<1>5. Len(s) = 0 \/ Len(s) = 1
  BY <1>1
<1> HIDE DEF List
<1> QED
  BY <1>1, <1>2, <1>3, <1>4, <1>5

(* What stands between the two marks of a section.                         *)
LEMMA Framed ==
  ASSUME NEW o, NEW c, NEW s, NEW t, NEW x, NEW y, AtMost(s, x), AtMost(t, y)
  PROVE  LET u == <<o>> \o (s \o t) \o <<c>>
         IN /\ List(u)
            /\ Len(u) = 2 + Len(s) + Len(t)
            /\ u[1] = o /\ u[Len(u)] = c
            /\ Len(s) = 1 => u[2] = x
            /\ Len(t) = 1 => u[2 + Len(s)] = y
<1> DEFINE body == s \o t
           front == <<o>> \o body
           u == front \o <<c>>
<1>1. List(s) /\ List(t) /\ Len(s) \in {0, 1} /\ Len(t) \in {0, 1}
      /\ DOMAIN s = 1..Len(s) /\ DOMAIN t = 1..Len(t)
  BY DEF AtMost
<1>2. /\ List(<<o>>) /\ Len(<<o>>) = 1 /\ DOMAIN <<o>> = {1} /\ <<o>>[1] = o
      /\ List(<<c>>) /\ Len(<<c>>) = 1 /\ DOMAIN <<c>> = {1} /\ <<c>>[1] = c
  BY DEF List
<1>3. Joins(body, s, t)
  BY <1>1, Joined
<1> HIDE DEF body
<1>4. List(body) /\ Len(body) = Len(s) + Len(t)
  BY <1>3 DEF Joins
<1>5. Joins(front, <<o>>, body)
  BY <1>2, <1>4, Joined
<1> HIDE DEF front
<1>6. List(front) /\ Len(front) = 1 + Len(body) /\ front[1] = o /\ 1 \in DOMAIN front
      /\ \A k \in DOMAIN body : 1 + k \in DOMAIN front /\ front[1 + k] = body[k]
  BY <1>2, <1>5 DEF Joins
<1>7. Joins(u, front, <<c>>)
  BY <1>2, <1>6, Joined
<1> HIDE DEF u
<1>8. /\ List(u) /\ Len(u) = Len(front) + 1
      /\ \A k \in DOMAIN front : u[k] = front[k]
      /\ u[Len(front) + 1] = c
  BY <1>2, <1>7 DEF Joins
<1>9. ASSUME Len(s) = 1 PROVE u[2] = x
  <2>1. 1 \in DOMAIN s /\ s[1] = x
    BY <1>9 DEF AtMost
  <2>2. 1 \in DOMAIN body /\ body[1] = x
    BY <1>3, <2>1 DEF Joins
  <2>3. 1 + 1 \in DOMAIN front /\ front[1 + 1] = x
    BY <1>6, <2>2
  <2> QED
    BY <1>8, <2>3
<1>10. ASSUME Len(t) = 1 PROVE u[2 + Len(s)] = y
  <2>1. 1 \in DOMAIN t /\ t[1] = y
    BY <1>10 DEF AtMost
  <2>2. Len(s) + 1 \in DOMAIN body /\ body[Len(s) + 1] = y
    BY <1>3, <2>1 DEF Joins
  <2>3. 1 + (Len(s) + 1) \in DOMAIN front /\ front[1 + (Len(s) + 1)] = y
    BY <1>6, <2>2
  <2>4. 1 + (Len(s) + 1) = 2 + Len(s)
    BY <1>1
  <2> QED
    BY <1>8, <2>3, <2>4
<1>11. Len(u) = 2 + Len(s) + Len(t) /\ u[1] = o /\ u[Len(u)] = c
  BY <1>1, <1>4, <1>6, <1>8
<1> QED
  BY <1>8, <1>9, <1>10, <1>11 DEF u, front, body

(* i and j are the places inside u of the m of x and the n of y.           *)
StandsBetween(u, m, n, x, y, i, j) ==
  /\ m = 1 => 1 < i /\ i < Len(u) /\ u[i] = x /\ i \in Nat
  /\ n = 1 => 1 < j /\ j < Len(u) /\ u[j] = y /\ j \in Nat
  /\ i # j
  /\ \A b \in 1..Len(u) : 1 < b /\ b < Len(u) => (m = 1 /\ b = i) \/ (n = 1 /\ b = j)

LEMMA SetBetween ==
  ASSUME NEW u, NEW m \in {0, 1}, NEW n \in {0, 1}, NEW x, NEW y, Len(u) = 2 + m + n
  PROVE  /\ (m = 1 => u[2] = x) /\ (n = 1 => u[2 + m] = y)
            => StandsBetween(u, m, n, x, y, IF m = 1 THEN 2 ELSE 0, 2 + m)
         /\ (m = 1 => u[2 + n] = x) /\ (n = 1 => u[2] = y)
            => StandsBetween(u, m, n, x, y, 2 + n, IF n = 1 THEN 2 ELSE 0)
<1>1. CASE m = 0 /\ n = 0
  BY <1>1 DEF StandsBetween
<1>2. CASE m = 0 /\ n = 1
  BY <1>2 DEF StandsBetween
<1>3. CASE m = 1 /\ n = 0
  BY <1>3 DEF StandsBetween
<1>4. CASE m = 1 /\ n = 1
  BY <1>4 DEF StandsBetween
<1> QED
  BY <1>1, <1>2, <1>3, <1>4

(* What a section prints.                                                  *)
LEMMA SectionPrinted ==
  ASSUME NEW section \in Section, Len(section.tables) <= 1
  PROVE  PrintedAs(PrintedSection(section), section)
<1> DEFINE heading == [is |-> "heading", label |-> section.label]
           table == [is |-> "table", table |-> section.tables[1]]
           h == IF section.label = "none" THEN <<>> ELSE <<heading>>
           t == Mapped(section.tables, LAMBDA x : [is |-> "table", table |-> x])
           o == [is |-> "open"]
           c == [is |-> "close"]
           piece == PrintedSection(section)
<1>1. /\ List(section.tables)
      /\ \/ section.tables = <<>> /\ Len(section.tables) = 0 /\ DOMAIN section.tables = {}
         \/ section.tables # <<>> /\ Len(section.tables) = 1 /\ DOMAIN section.tables = {1}
  <2>1. section.tables \in Seq(DataTable)
    BY DEF Section
  <2> QED
    BY <2>1, SequenceIsList, OneOrNone
<1>2. AtMost(h, heading) /\ (Len(h) = 1 <=> section.label # "none")
  <2>1. h = <<>> \/ h = <<heading>>
    OBVIOUS
  <2>2. AtMost(h, heading)
    BY <2>1, AtMostOne
  <2>3. Len(<<>>) = 0 /\ Len(<<heading>>) = 1
    OBVIOUS
  <2> QED
    BY <2>2, <2>3
<1>3. t = [k \in DOMAIN section.tables |-> [is |-> "table", table |-> section.tables[k]]]
  BY DEF Mapped
<1>4. AtMost(t, table) /\ (Len(t) = 1 <=> section.tables # <<>>)
  <2>1. List(t) /\ Len(t) = Len(section.tables) /\ DOMAIN t = DOMAIN section.tables
    BY <1>1, <1>3, MappedList
  <2>2. 1 \in DOMAIN section.tables => t[1] = table
    BY <1>3
  <2> HIDE DEF t, table
  <2> QED
    BY <1>1, <2>1, <2>2 DEF AtMost
<1>5. piece = IF section.headed THEN <<o>> \o (h \o t) \o <<c>> ELSE <<o>> \o (t \o h) \o <<c>>
  BY DEF PrintedSection
<1>6. /\ o.is = "open" /\ c.is = "close" /\ heading.is = "heading" /\ table.is = "table"
      /\ heading.label = section.label /\ table.table = section.tables[1]
  OBVIOUS
<1> HIDE DEF piece, h, t, o, c, heading, table
<1>7. Len(h) \in {0, 1} /\ Len(t) \in {0, 1}
  BY <1>2, <1>4 DEF AtMost
<1>8. /\ List(piece) /\ Len(piece) = 2 + Len(h) + Len(t)
      /\ piece[1] = o /\ piece[Len(piece)] = c
      /\ \E i, j : StandsBetween(piece, Len(h), Len(t), heading, table, i, j)
  <2>1. CASE section.headed
    <3>1. piece = <<o>> \o (h \o t) \o <<c>>
      BY <1>5, <2>1
    <3>2. /\ List(piece) /\ Len(piece) = 2 + Len(h) + Len(t)
          /\ piece[1] = o /\ piece[Len(piece)] = c
          /\ Len(h) = 1 => piece[2] = heading
          /\ Len(t) = 1 => piece[2 + Len(h)] = table
      BY <1>2, <1>4, <3>1, Framed
    <3>3. StandsBetween(piece, Len(h), Len(t), heading, table, IF Len(h) = 1 THEN 2 ELSE 0, 2 + Len(h))
      BY <1>7, <3>2, SetBetween
    <3> QED
      BY <3>2, <3>3
  <2>2. CASE ~section.headed
    <3>1. piece = <<o>> \o (t \o h) \o <<c>>
      BY <1>5, <2>2
    <3>2. /\ List(piece) /\ Len(piece) = 2 + Len(t) + Len(h)
          /\ piece[1] = o /\ piece[Len(piece)] = c
          /\ Len(t) = 1 => piece[2] = table
          /\ Len(h) = 1 => piece[2 + Len(t)] = heading
      BY <1>2, <1>4, <3>1, Framed
    <3>3. Len(piece) = 2 + Len(h) + Len(t)
      BY <1>7, <3>2
    <3>4. StandsBetween(piece, Len(h), Len(t), heading, table, 2 + Len(t), IF Len(t) = 1 THEN 2 ELSE 0)
      BY <1>7, <3>2, <3>3, SetBetween
    <3> QED
      BY <3>2, <3>3, <3>4
  <2> QED
    BY <2>1, <2>2
<1>9. PICK i, j : StandsBetween(piece, Len(h), Len(t), heading, table, i, j)
  BY <1>8
<1>10. DOMAIN piece = 1..Len(piece) /\ Len(piece) \in Nat /\ 1 < Len(piece)
  BY <1>7, <1>8, Listing
<1>11. ASSUME NEW b \in DOMAIN piece
       PROVE \/ b = 1 /\ piece[b] = o
             \/ b = Len(piece) /\ piece[b] = c
             \/ b # 1 /\ b # Len(piece) /\ Len(h) = 1 /\ b = i /\ piece[b] = heading
             \/ b # 1 /\ b # Len(piece) /\ Len(t) = 1 /\ b = j /\ piece[b] = table
  <2>1. b \in 1..Len(piece) /\ (b = 1 \/ b = Len(piece) \/ (1 < b /\ b < Len(piece) /\ b # 1 /\ b # Len(piece)))
    BY <1>10
  <2> QED
    BY <1>8, <1>9, <2>1 DEF StandsBetween
<1>12. ASSUME NEW b \in DOMAIN piece
       PROVE /\ piece[b].is = "open" <=> b = 1
             /\ piece[b].is = "close" <=> b = Len(piece)
             /\ piece[b].is = "heading" => Len(h) = 1 /\ piece[b] = heading
             /\ piece[b].is = "table" => Len(t) = 1 /\ piece[b] = table /\ b = j
  BY <1>6, <1>10, <1>11
<1>13. (Len(h) = 1 => i \in DOMAIN piece) /\ (Len(t) = 1 => j \in DOMAIN piece)
       /\ (Len(h) = 1 => piece[i] = heading) /\ (Len(t) = 1 => piece[j] = table)
  BY <1>9, <1>10 DEF StandsBetween
<1>14. \A b \in DOMAIN piece : piece[b].is = "heading" => section.label # "none" /\ piece[b].label = section.label
  BY <1>2, <1>6, <1>12
<1>15. section.label # "none" => \E b \in DOMAIN piece : piece[b].is = "heading"
  BY <1>2, <1>6, <1>13
<1>16. \A b \in DOMAIN piece : piece[b].is = "table" => section.tables # <<>> /\ piece[b].table = section.tables[1]
  BY <1>4, <1>6, <1>12
<1>17. section.tables # <<>> => \E b \in DOMAIN piece : piece[b].is = "table"
  BY <1>4, <1>6, <1>13
<1>18. \A b, d \in DOMAIN piece : piece[b].is = "table" /\ piece[d].is = "table" => b = d
  BY <1>12
<1>19. PrintedAs(piece, section)
  BY <1>8, <1>10, <1>12, <1>14, <1>15, <1>16, <1>17, <1>18 DEF PrintedAs
<1> QED
  BY <1>19 DEF piece

(* The marks of the sections of a page, o where they open, c where they    *)
(* close, and what stands between.                                         *)
StandsIn(o, c, x, i) == o[x] <= i /\ i <= c[x]
Marked(page, sections, o, c) ==
  /\ List(page)
  /\ o \in [1..Len(sections) -> 1..Len(page)]
  /\ c \in [1..Len(sections) -> 1..Len(page)]
  /\ \A x \in 1..Len(sections) : o[x] < c[x]
  /\ \A x, y \in 1..Len(sections) : x < y => c[x] < o[y]
  /\ \A i \in 1..Len(page) : \E x \in 1..Len(sections) : StandsIn(o, c, x, i)
Written(page, sections, o, c) ==
  \A x \in 1..Len(sections) :
    /\ \A i \in 1..Len(page) : StandsIn(o, c, x, i) =>
         /\ page[i].is = "open" <=> i = o[x]
         /\ page[i].is = "close" <=> i = c[x]
         /\ page[i].is = "heading" => sections[x].label # "none" /\ page[i].label = sections[x].label
         /\ page[i].is = "table" => sections[x].tables # <<>> /\ page[i].table = sections[x].tables[1]
         /\ page[i].is = "table" => \A j \in 1..Len(page) : StandsIn(o, c, x, j) /\ page[j].is = "table" => i = j
    /\ sections[x].label # "none" => \E i \in 1..Len(page) : StandsIn(o, c, x, i) /\ page[i].is = "heading"
    /\ sections[x].tables # <<>> => \E i \in 1..Len(page) : StandsIn(o, c, x, i) /\ page[i].is = "table"

(* A printed page, section by section.                                     *)
LEMMA PagePrinted ==
  ASSUME NEW sections \in Seq(Section), \A x \in DOMAIN sections : Len(sections[x].tables) <= 1
  PROVE  \E o, c : Marked(PrintedPage(sections), sections, o, c) /\ Written(PrintedPage(sections), sections, o, c)
<1> DEFINE seqs == Mapped(sections, PrintedSection)
           page == FlattenSeq(seqs)
           m == Len(sections)
<1>1. List(sections) /\ DOMAIN sections = 1..m /\ m \in Nat /\ \A x \in 1..m : sections[x] \in Section
  BY SequenceIsList, Listing
<1>2. seqs = [x \in 1..m |-> PrintedSection(sections[x])]
  BY <1>1 DEF Mapped
<1> HIDE DEF seqs
<1>3. \A x \in 1..m : PrintedAs(seqs[x], sections[x])
  BY <1>1, <1>2, SectionPrinted
<1>4. List(seqs) /\ Len(seqs) = m /\ DOMAIN seqs = 1..m
  BY <1>1, <1>2, MappedList
<1>5. \A x \in 1..m : List(seqs[x]) /\ 1 < Len(seqs[x]) /\ Len(seqs[x]) \in Nat /\ DOMAIN seqs[x] = 1..Len(seqs[x])
  BY <1>3, Listing DEF PrintedAs
<1>6. Flattens(page, seqs, m)
  BY <1>4, <1>5, Flattened
<1> HIDE DEF page
<1> DEFINE n == Len(page)
<1>7. List(page) /\ DOMAIN page = 1..n /\ n \in Nat
  BY <1>6, Listing DEF Flattens
<1>8. PICK at \in [1..n -> Spots(seqs, m)] :
        /\ \A k \in 1..n : page[k] = seqs[at[k][1]][at[k][2]]
        /\ \A p \in Spots(seqs, m) : \E k \in 1..n : at[k] = p
        /\ \A j, k \in 1..n : j < k => Before(at[j], at[k])
  BY <1>6, <1>7 DEF Flattens
<1>9. \A k \in 1..n : /\ at[k][1] \in 1..m /\ at[k][2] \in 1..Len(seqs[at[k][1]])
                      /\ at[k] = <<at[k][1], at[k][2]>>
  BY <1>1, <1>5, <1>8, SpotsRead
<1> DEFINE sec == [k \in 1..n |-> at[k][1]]
           off == [k \in 1..n |-> at[k][2]]
<1>20. \A k \in 1..n : /\ sec[k] \in 1..m /\ off[k] \in 1..Len(seqs[sec[k]])
                       /\ at[k] = <<sec[k], off[k]>> /\ page[k] = seqs[sec[k]][off[k]]
                       /\ sec[k] \in Nat /\ off[k] \in Nat
  BY <1>1, <1>5, <1>8, <1>9
<1>21. \A j, k \in 1..n : Before(at[j], at[k]) <=> sec[j] < sec[k] \/ (sec[j] = sec[k] /\ off[j] < off[k])
  BY DEF Before
<1> HIDE DEF sec, off
<1>10. \A x \in 1..m : \A b \in 1..Len(seqs[x]) : \E k \in 1..n : sec[k] = x /\ off[k] = b
  <2> SUFFICES ASSUME NEW x \in 1..m, NEW b \in 1..Len(seqs[x]) PROVE \E k \in 1..n : sec[k] = x /\ off[k] = b
    OBVIOUS
  <2>1. <<x, b>> \in Spots(seqs, m)
    BY <1>5 DEF Spots
  <2>2. PICK k \in 1..n : at[k] = <<x, b>>
    BY <1>8, <2>1
  <2> QED
    BY <1>20, <2>2
<1> DEFINE o == [x \in 1..m |-> CHOOSE k \in 1..n : sec[k] = x /\ off[k] = 1]
           c == [x \in 1..m |-> CHOOSE k \in 1..n : sec[k] = x /\ off[k] = Len(seqs[x])]
<1>11. \A x \in 1..m : o[x] \in 1..n /\ sec[o[x]] = x /\ off[o[x]] = 1
  <2> SUFFICES ASSUME NEW x \in 1..m PROVE o[x] \in 1..n /\ sec[o[x]] = x /\ off[o[x]] = 1
    OBVIOUS
  <2>1. \E k \in 1..n : sec[k] = x /\ off[k] = 1
    BY <1>5, <1>10
  <2> QED
    BY <2>1
<1>12. \A x \in 1..m : c[x] \in 1..n /\ sec[c[x]] = x /\ off[c[x]] = Len(seqs[x])
  <2> SUFFICES ASSUME NEW x \in 1..m PROVE c[x] \in 1..n /\ sec[c[x]] = x /\ off[c[x]] = Len(seqs[x])
    OBVIOUS
  <2>1. Len(seqs[x]) \in 1..Len(seqs[x])
    BY <1>5
  <2>2. \E k \in 1..n : sec[k] = x /\ off[k] = Len(seqs[x])
    BY <1>10, <2>1
  <2> QED
    BY <2>2
<1>13. o \in [1..m -> 1..n] /\ c \in [1..m -> 1..n]
  BY <1>11, <1>12
<1> HIDE DEF o, c
<1>14. \A j, k \in 1..n : sec[j] = sec[k] /\ off[j] = off[k] => j = k
  <2> SUFFICES ASSUME NEW j \in 1..n, NEW k \in 1..n, sec[j] = sec[k], off[j] = off[k] PROVE j = k
    OBVIOUS
  <2>1. ~Before(at[j], at[k]) /\ ~Before(at[k], at[j])
    BY <1>20, <1>21
  <2> QED
    BY <1>8, <2>1
<1>15. \A j, k \in 1..n : sec[j] < sec[k] \/ (sec[j] = sec[k] /\ off[j] < off[k]) => j < k
  <2> SUFFICES ASSUME NEW j \in 1..n, NEW k \in 1..n, sec[j] < sec[k] \/ (sec[j] = sec[k] /\ off[j] < off[k])
               PROVE  j < k
    OBVIOUS
  <2>1. ~Before(at[k], at[j]) /\ j # k
    BY <1>20, <1>21
  <2> QED
    BY <1>8, <2>1
<1>16. \A i \in 1..n : \A x \in 1..m : StandsIn(o, c, x, i) <=> sec[i] = x
  <2> SUFFICES ASSUME NEW i \in 1..n, NEW x \in 1..m PROVE StandsIn(o, c, x, i) <=> sec[i] = x
    OBVIOUS
  <2>1. ASSUME sec[i] = x PROVE o[x] <= i /\ i <= c[x]
    <3>1. off[i] \in 1..Len(seqs[x])
      BY <1>20, <2>1
    <3>2. off[i] = 1 \/ 1 < off[i]
      BY <1>5, <3>1
    <3>3. off[i] = Len(seqs[x]) \/ off[i] < Len(seqs[x])
      BY <1>5, <3>1
    <3>4. o[x] = i \/ o[x] < i
      <4>1. o[x] \in 1..n /\ sec[o[x]] = sec[i] /\ (off[o[x]] = off[i] \/ off[o[x]] < off[i])
        BY <1>11, <2>1, <3>2
      <4> QED
        BY <1>14, <1>15, <4>1
    <3>5. i = c[x] \/ i < c[x]
      <4>1. c[x] \in 1..n /\ sec[c[x]] = sec[i] /\ (off[i] = off[c[x]] \/ off[i] < off[c[x]])
        BY <1>12, <2>1, <3>3
      <4> QED
        BY <1>14, <1>15, <4>1
    <3> QED
      BY <1>11, <1>12, <3>4, <3>5
  <2>2. ASSUME sec[i] # x PROVE ~(o[x] <= i /\ i <= c[x])
    <3>1. sec[i] < x \/ x < sec[i]
      BY <1>1, <1>20, <2>2
    <3>2. i < o[x] \/ c[x] < i
      <4>1. o[x] \in 1..n /\ sec[o[x]] = x /\ c[x] \in 1..n /\ sec[c[x]] = x
        BY <1>11, <1>12
      <4> QED
        BY <1>15, <3>1, <4>1
    <3> QED
      BY <1>11, <1>12, <3>2
  <2> QED
    BY <2>1, <2>2 DEF StandsIn
<1>17. Marked(page, sections, o, c)
  <2>1. ASSUME NEW x \in 1..m PROVE o[x] < c[x]
    <3>1. o[x] \in 1..n /\ c[x] \in 1..n /\ sec[o[x]] = sec[c[x]] /\ off[o[x]] < off[c[x]]
      BY <1>5, <1>11, <1>12
    <3> QED
      BY <1>15, <3>1
  <2>2. ASSUME NEW x \in 1..m, NEW y \in 1..m, x < y PROVE c[x] < o[y]
    <3>1. c[x] \in 1..n /\ o[y] \in 1..n /\ sec[c[x]] < sec[o[y]]
      BY <1>11, <1>12, <2>2
    <3> QED
      BY <1>15, <3>1
  <2>3. \A i \in 1..n : \E x \in 1..m : StandsIn(o, c, x, i)
    BY <1>16, <1>20
  <2> QED
    BY <1>7, <1>13, <2>1, <2>2, <2>3 DEF Marked
<1>18. Written(page, sections, o, c)
  <2> SUFFICES ASSUME NEW x \in 1..m
               PROVE  /\ \A i \in 1..n : StandsIn(o, c, x, i) =>
                           /\ page[i].is = "open" <=> i = o[x]
                           /\ page[i].is = "close" <=> i = c[x]
                           /\ page[i].is = "heading" => sections[x].label # "none" /\ page[i].label = sections[x].label
                           /\ page[i].is = "table" => sections[x].tables # <<>> /\ page[i].table = sections[x].tables[1]
                           /\ page[i].is = "table" => \A j \in 1..n : StandsIn(o, c, x, j) /\ page[j].is = "table" => i = j
                      /\ sections[x].label # "none" => \E i \in 1..n : StandsIn(o, c, x, i) /\ page[i].is = "heading"
                      /\ sections[x].tables # <<>> => \E i \in 1..n : StandsIn(o, c, x, i) /\ page[i].is = "table"
    BY DEF Written
  <2> DEFINE piece == seqs[x]
  <2>1. PrintedAs(piece, sections[x]) /\ DOMAIN piece = 1..Len(piece)
    BY <1>3, <1>5
  <2>2. ASSUME NEW i \in 1..n, StandsIn(o, c, x, i)
        PROVE /\ sec[i] = x /\ off[i] \in DOMAIN piece /\ page[i] = piece[off[i]]
              /\ off[i] = 1 <=> i = o[x]
              /\ off[i] = Len(piece) <=> i = c[x]
    <3>1. sec[i] = x
      BY <1>16, <2>2
    <3>2. off[i] \in DOMAIN piece /\ page[i] = piece[off[i]]
      BY <1>20, <2>1, <3>1
    <3>3. off[i] = 1 <=> i = o[x]
      BY <1>11, <1>14, <3>1
    <3>4. off[i] = Len(piece) <=> i = c[x]
      BY <1>12, <1>14, <3>1
    <3> QED
      BY <3>1, <3>2, <3>3, <3>4
  <2>3. \A b \in DOMAIN piece : \E i \in 1..n : StandsIn(o, c, x, i) /\ page[i] = piece[b]
    <3> SUFFICES ASSUME NEW b \in DOMAIN piece PROVE \E i \in 1..n : StandsIn(o, c, x, i) /\ page[i] = piece[b]
      OBVIOUS
    <3>1. PICK i \in 1..n : sec[i] = x /\ off[i] = b
      BY <1>10, <2>1
    <3>2. StandsIn(o, c, x, i)
      BY <1>16, <3>1
    <3> QED
      BY <1>20, <3>1, <3>2
  <2> HIDE DEF piece
  <2>4. ASSUME NEW i \in 1..n, StandsIn(o, c, x, i)
        PROVE /\ page[i].is = "open" <=> i = o[x]
              /\ page[i].is = "close" <=> i = c[x]
              /\ page[i].is = "heading" => sections[x].label # "none" /\ page[i].label = sections[x].label
              /\ page[i].is = "table" => sections[x].tables # <<>> /\ page[i].table = sections[x].tables[1]
    BY <2>1, <2>2, <2>4 DEF PrintedAs
  <2>5. ASSUME NEW i \in 1..n, NEW j \in 1..n, StandsIn(o, c, x, i), StandsIn(o, c, x, j),
               page[i].is = "table", page[j].is = "table"
        PROVE i = j
    <3>1. off[i] = off[j] /\ sec[i] = sec[j]
      BY <2>1, <2>2, <2>5 DEF PrintedAs
    <3> QED
      BY <1>14, <3>1
  <2>6. sections[x].label # "none" => \E i \in 1..n : StandsIn(o, c, x, i) /\ page[i].is = "heading"
    BY <2>1, <2>3 DEF PrintedAs
  <2>7. sections[x].tables # <<>> => \E i \in 1..n : StandsIn(o, c, x, i) /\ page[i].is = "table"
    BY <2>1, <2>3 DEF PrintedAs
  <2> QED
    BY <2>4, <2>5, <2>6, <2>7
<1>19. PrintedPage(sections) = page
  BY DEF PrintedPage, page, seqs
<1> QED
  BY <1>17, <1>18, <1>19

(* As many values as places that differ.                                   *)
LEMMA AsManyAs ==
  ASSUME NEW k \in Nat, NEW S, NEW f,
         \A y \in 1..k : f[y] \in S, \A z \in S : \E y \in 1..k : z = f[y],
         \A y, z \in 1..k : f[y] = f[z] => y = z
  PROVE  Cardinality(S) = k
<1> DEFINE g == [y \in 1..k |-> f[y]]
<1>1. g \in Bijection(1..k, S)
  BY DEF Bijection, Injection, Surjection, IsInjective
<1>2. IsFiniteSet(1..k) /\ Cardinality(1..k) = k
  BY Numbered
<1> HIDE DEF g
<1>3. Cardinality(S) = Cardinality(1..k)
  BY <1>1, <1>2, FS_Bijection DEF ExistsBijection
<1> QED
  BY <1>2, <1>3

(* The order of the marks.                                                 *)
LEMMA MarksInOrder ==
  ASSUME NEW page, NEW sections \in Seq(Section), NEW o, NEW c, Marked(page, sections, o, c),
         NEW x \in 1..Len(sections), NEW i \in 1..Len(page), StandsIn(o, c, x, i)
  PROVE  /\ Len(sections) \in Nat /\ Len(page) \in Nat /\ DOMAIN page = 1..Len(page)
         /\ \A y \in 1..Len(sections) : /\ o[y] \in 1..Len(page) /\ c[y] \in 1..Len(page)
                                        /\ o[y] <= i <=> y <= x
                                        /\ c[y] <= i <=> (y < x \/ (y = x /\ i = c[x]))
         /\ \A y, z \in 1..Len(sections) : (o[y] = o[z] => y = z) /\ (c[y] = c[z] => y = z)
<1> DEFINE m == Len(sections)
           n == Len(page)
<1>1. m \in Nat
  BY SequenceIsList, Listing
<1>2. n \in Nat /\ DOMAIN page = 1..n
  BY Listing DEF Marked
<1>3. \A y \in 1..m : o[y] \in 1..n /\ c[y] \in 1..n /\ o[y] < c[y]
  BY DEF Marked
<1>4. \A y, z \in 1..m : y < z => c[y] < o[z]
  BY DEF Marked
<1>5. o[x] <= i /\ i <= c[x]
  BY DEF StandsIn
<1> HIDE DEF m, n
<1>6. ASSUME NEW y \in 1..m
      PROVE  (o[y] <= i <=> y <= x) /\ (c[y] <= i <=> (y < x \/ (y = x /\ i = c[x])))
  <2>0. x \in 1..m /\ i \in 1..n
    BY DEF m, n
  <2>1. CASE y < x
    <3>1. o[y] < c[y] /\ c[y] < o[x]
      BY <1>3, <1>4, <2>0, <2>1
    <3> QED
      BY <1>1, <1>2, <1>3, <1>5, <2>0, <2>1, <3>1
  <2>2. CASE y = x
    BY <1>1, <1>2, <1>3, <1>5, <2>0, <2>2
  <2>3. CASE x < y
    <3>1. c[x] < o[y] /\ o[y] < c[y]
      BY <1>3, <1>4, <2>0, <2>3
    <3> QED
      BY <1>1, <1>2, <1>3, <1>5, <2>0, <2>3, <3>1
  <2> QED
    BY <1>1, <2>0, <2>1, <2>2, <2>3
<1>7. ASSUME NEW y \in 1..m, NEW z \in 1..m, y < z PROVE o[y] # o[z] /\ c[y] # c[z]
  <2>1. o[y] < c[y] /\ c[y] < o[z] /\ o[z] < c[z]
    BY <1>3, <1>4, <1>7
  <2> QED
    BY <1>2, <1>3, <2>1
<1>8. ASSUME NEW y \in 1..m, NEW z \in 1..m PROVE (o[y] = o[z] => y = z) /\ (c[y] = c[z] => y = z)
  <2>1. y < z \/ y = z \/ z < y
    BY <1>1
  <2> QED
    BY <1>7, <2>1
<1> QED
  BY <1>1, <1>2, <1>3, <1>6, <1>8 DEF m, n

(* Every token but a closing mark is inside one section.                   *)
LEMMA DepthInside ==
  ASSUME NEW page, NEW sections \in Seq(Section), NEW o, NEW c,
         Marked(page, sections, o, c), Written(page, sections, o, c),
         NEW x \in 1..Len(sections), NEW i \in 1..Len(page), StandsIn(o, c, x, i)
  PROVE  Depth(page, i) = IF i = c[x] THEN 0 ELSE 1
<1> DEFINE m == Len(sections)
           n == Len(page)
           shut == IF i = c[x] THEN x ELSE x - 1
           opens == {j \in 1..i : page[j].is = "open"}
           closes == {j \in 1..i : page[j].is = "close"}
<1>1. /\ m \in Nat /\ n \in Nat /\ DOMAIN page = 1..n
      /\ \A y \in 1..m : /\ o[y] \in 1..n /\ c[y] \in 1..n
                         /\ o[y] <= i <=> y <= x
                         /\ c[y] <= i <=> (y < x \/ (y = x /\ i = c[x]))
      /\ \A y, z \in 1..m : (o[y] = o[z] => y = z) /\ (c[y] = c[z] => y = z)
  BY MarksInOrder
<1>2. \A j \in 1..n : \E y \in 1..m : StandsIn(o, c, y, j)
  BY DEF Marked
<1>3. \A j \in 1..n : (page[j].is = "open" <=> \E y \in 1..m : j = o[y]) /\ (page[j].is = "close" <=> \E y \in 1..m : j = c[y])
  <2> SUFFICES ASSUME NEW j \in 1..n
               PROVE  (page[j].is = "open" <=> \E y \in 1..m : j = o[y]) /\ (page[j].is = "close" <=> \E y \in 1..m : j = c[y])
    OBVIOUS
  <2>1. \A y \in 1..m : StandsIn(o, c, y, j) => (page[j].is = "open" <=> j = o[y]) /\ (page[j].is = "close" <=> j = c[y])
    BY DEF Written
  <2>2. \A y \in 1..m : o[y] < c[y]
    BY DEF Marked
  <2>3. \A y \in 1..m : j = o[y] \/ j = c[y] => StandsIn(o, c, y, j)
    BY <1>1, <2>2 DEF StandsIn
  <2> QED
    BY <1>2, <2>1, <2>3
<1> HIDE DEF m, n
<1>4. x \in 1..m /\ i \in 1..n
  BY DEF m, n
<1>5. shut \in Nat /\ 1..shut \subseteq 1..m /\ x \in Nat /\ 1..x \subseteq 1..m /\ 1..i \subseteq 1..n
  BY <1>1, <1>4
<1>6. opens = {o[y] : y \in 1..x}
  <2>1. \A j \in opens : \E y \in 1..x : j = o[y]
    <3> SUFFICES ASSUME NEW j \in 1..i, page[j].is = "open" PROVE \E y \in 1..x : j = o[y]
      OBVIOUS
    <3>1. PICK y \in 1..m : j = o[y]
      BY <1>3, <1>5
    <3>2. y <= x
      BY <1>1, <3>1
    <3> QED
      BY <1>1, <3>1, <3>2
  <2>2. \A y \in 1..x : o[y] \in opens
    <3> SUFFICES ASSUME NEW y \in 1..x PROVE o[y] \in 1..i /\ page[o[y]].is = "open"
      OBVIOUS
    <3>1. y \in 1..m /\ y <= x
      BY <1>5
    <3>2. o[y] \in 1..n /\ o[y] <= i
      BY <1>1, <3>1
    <3> QED
      BY <1>3, <1>4, <3>1, <3>2
  <2> QED
    BY <2>1, <2>2
<1>7. \A y \in 1..m : c[y] <= i <=> y \in 1..shut
  BY <1>1, <1>4
<1>8. closes = {c[y] : y \in 1..shut}
  <2> HIDE DEF shut
  <2>1. \A j \in closes : \E y \in 1..shut : j = c[y]
    <3> SUFFICES ASSUME NEW j \in 1..i, page[j].is = "close" PROVE \E y \in 1..shut : j = c[y]
      OBVIOUS
    <3>1. PICK y \in 1..m : j = c[y]
      BY <1>3, <1>5
    <3>2. c[y] <= i
      BY <3>1
    <3> QED
      BY <1>7, <3>1, <3>2
  <2>2. \A y \in 1..shut : c[y] \in closes
    <3> SUFFICES ASSUME NEW y \in 1..shut PROVE c[y] \in 1..i /\ page[c[y]].is = "close"
      OBVIOUS
    <3>1. y \in 1..m /\ c[y] <= i
      BY <1>5, <1>7
    <3>2. c[y] \in 1..n
      BY <1>1, <3>1
    <3> QED
      BY <1>3, <1>4, <3>1, <3>2
  <2> QED
    BY <2>1, <2>2
<1>9. Cardinality(opens) = x
  <2> HIDE DEF opens
  <2>1. \A y, z \in 1..x : o[y] = o[z] => y = z
    <3>1. \A y \in 1..x : y \in 1..m
      BY <1>5
    <3> QED
      BY <1>1, <3>1
  <2>2. (\A y \in 1..x : o[y] \in opens) /\ \A z \in opens : \E y \in 1..x : z = o[y]
    BY <1>6
  <2>3. x \in Nat
    BY <1>5
  <2> QED
    BY <2>1, <2>2, <2>3, AsManyAs
<1>10. Cardinality(closes) = shut
  <2> HIDE DEF closes, shut
  <2>1. \A y, z \in 1..shut : c[y] = c[z] => y = z
    <3>1. \A y \in 1..shut : y \in 1..m
      BY <1>5
    <3> QED
      BY <1>1, <3>1
  <2>2. (\A y \in 1..shut : c[y] \in closes) /\ \A z \in closes : \E y \in 1..shut : z = c[y]
    BY <1>8
  <2>3. shut \in Nat
    BY <1>5
  <2> QED
    BY <2>1, <2>2, <2>3, AsManyAs
<1>11. Depth(page, i) = Cardinality(opens) - Cardinality(closes)
  BY DEF Depth
<1> HIDE DEF opens, closes
<1> QED
  BY <1>4, <1>9, <1>10, <1>11

(* A table's heading is sought to the end of its section.                  *)
LEMMA BoundIsItsEnd ==
  ASSUME NEW page, NEW sections \in Seq(Section), NEW o, NEW c,
         Marked(page, sections, o, c), Written(page, sections, o, c),
         NEW x \in 1..Len(sections), NEW i \in 1..Len(page), StandsIn(o, c, x, i), page[i].is = "table"
  PROVE  HeadingBound(page, i) = c[x]
<1> DEFINE n == Len(page)
           ends == {k \in (i + 1)..n : Depth(page, k) < Depth(page, i)}
<1>1. n \in Nat /\ c[x] \in 1..n /\ o[x] <= i /\ i <= c[x]
  BY MarksInOrder DEF StandsIn
<1>2. i # c[x]
  <2>1. page[i].is = "close" <=> i = c[x]
    BY DEF Written
  <2> QED
    BY <2>1
<1>3. Depth(page, i) = 1
  BY <1>2, DepthInside
<1>4. StandsIn(o, c, x, c[x])
  <2>1. o[x] \in 1..n /\ o[x] < c[x]
    BY DEF Marked
  <2>2. o[x] <= c[x] /\ c[x] <= c[x]
    BY <1>1, <2>1
  <2> QED
    BY <2>2 DEF StandsIn
<1>5. Depth(page, c[x]) = 0
  BY <1>1, <1>4, DepthInside
<1>6. \A k \in (i + 1)..n : k < c[x] => Depth(page, k) = 1
  <2> SUFFICES ASSUME NEW k \in (i + 1)..n, k < c[x] PROVE Depth(page, k) = 1
    OBVIOUS
  <2>1. k \in 1..n /\ k # c[x] /\ StandsIn(o, c, x, k)
    <3>1. o[x] \in 1..n
      BY DEF Marked
    <3> QED
      BY <1>1, <3>1 DEF StandsIn
  <2> QED
    BY <2>1, DepthInside
<1>7. c[x] \in ends
  BY <1>1, <1>2, <1>3, <1>5
<1>8. \A k \in ends : c[x] <= k
  BY <1>1, <1>3, <1>6
<1>9. Min(ends) \in ends /\ \A k \in ends : Min(ends) <= k
  <2>1. ends \in SUBSET Nat
    BY <1>1
  <2> HIDE DEF ends
  <2> QED
    BY <1>7, <2>1, Least
<1>10. Min(ends) = c[x]
  <2>1. ends \in SUBSET Nat
    BY <1>1
  <2> HIDE DEF ends
  <2>2. Min(ends) <= c[x] /\ c[x] <= Min(ends) /\ Min(ends) \in Nat /\ c[x] \in Nat
    BY <1>7, <1>8, <1>9, <2>1
  <2> QED
    BY <2>2
<1>11. HeadingBound(page, i) = Min(ends)
  <2>1. Depth(page, i) > 0 /\ ends # {}
    BY <1>3, <1>7
  <2> QED
    BY <2>1 DEF HeadingBound
<1> QED
  BY <1>10, <1>11

(* The places of the tables, in their order.                               *)
LEMMA TablesFound ==
  ASSUME NEW page, List(page)
  PROVE  LET tables == TablesAt(page)
         IN /\ List(tables)
            /\ \A k \in DOMAIN tables : tables[k] \in DOMAIN page /\ page[tables[k]].is = "table"
            /\ \A i \in DOMAIN page : page[i].is = "table" => \E k \in DOMAIN tables : tables[k] = i
            /\ \A j, k \in DOMAIN tables : j < k => tables[j] < tables[k]
<1> DEFINE places == [i \in DOMAIN page |-> i]
           tables == TablesAt(page)
           I == {j \in DOMAIN places : page[places[j]].is = "table"}
<1>1. List(places) /\ DOMAIN places = DOMAIN page /\ \A i \in DOMAIN page : places[i] = i
  BY MappedList
<1>2. tables = Arranged(places, {<<0, i>> : i \in I}) /\ I \in SUBSET DOMAIN places
  BY DEF TablesAt, Kept
<1> HIDE DEF tables
<1>3. Keeps(tables, places, I)
  BY <1>1, <1>2, KeptPlaces
<1>4. \A i \in I : i \in DOMAIN page /\ page[i].is = "table" /\ places[i] = i
  BY <1>1
<1>5. \A i \in DOMAIN page : page[i].is = "table" => i \in I
  BY <1>1
<1> HIDE DEF I, places
<1>6. PICK at \in [DOMAIN tables -> I] :
        /\ \A k \in DOMAIN tables : tables[k] = places[at[k]]
        /\ \A i \in I : \E k \in DOMAIN tables : at[k] = i
        /\ \A j, k \in DOMAIN tables : j < k => at[j] < at[k]
  BY <1>3 DEF Keeps
<1>7. \A k \in DOMAIN tables : at[k] \in I /\ tables[k] = at[k]
  BY <1>4, <1>6
<1>8. List(tables)
  BY <1>3 DEF Keeps
<1> QED
  BY <1>4, <1>5, <1>6, <1>7, <1>8 DEF tables

(* The nearest heading of a table is its own section's.                    *)
LEMMA HeadingIsItsOwn ==
  ASSUME NEW page, NEW sections \in Seq(Section), NEW o, NEW c,
         Marked(page, sections, o, c), Written(page, sections, o, c), SectionsApart(sections),
         NEW k \in DOMAIN TablesAt(page), NEW x \in 1..Len(sections), StandsIn(o, c, x, TablesAt(page)[k])
  PROVE  NearestHeading(page, TablesAt(page), k) = sections[x].label
<1> DEFINE tables == TablesAt(page)
           m == Len(sections)
           n == Len(page)
           i == tables[k]
           from == IF k = 1 THEN 0 ELSE HeadingBound(page, tables[k - 1])
           inside == {j \in (from + 1)..c[x] : page[j].is = "heading"}
<1>1. List(page) /\ DOMAIN page = 1..n /\ n \in Nat /\ m \in Nat /\ DOMAIN sections = 1..m
  BY SequenceIsList, Listing DEF Marked
<1>2. /\ List(tables)
      /\ \A j \in DOMAIN tables : tables[j] \in 1..n /\ page[tables[j]].is = "table"
      /\ \A j \in 1..n : page[j].is = "table" => \E l \in DOMAIN tables : tables[l] = j
      /\ \A j, l \in DOMAIN tables : j < l => tables[j] < tables[l]
  BY <1>1, TablesFound
<1> HIDE DEF tables, m, n
<1>3. DOMAIN tables = 1..Len(tables) /\ Len(tables) \in Nat /\ k \in DOMAIN tables
  BY <1>2, Listing DEF tables
<1>4. x \in 1..m /\ i \in 1..n /\ page[i].is = "table" /\ StandsIn(o, c, x, i)
  BY <1>2, <1>3 DEF m, tables
<1>5. \A j \in 1..n : \A y \in 1..m : StandsIn(o, c, y, j) /\ page[j].is = "table" => HeadingBound(page, j) = c[y]
  BY BoundIsItsEnd DEF m, n
<1>6. NearestHeading(page, tables, k) = IF inside = {} THEN "none" ELSE page[Max(inside)].label
  <2>1. HeadingBound(page, tables[k]) = c[x]
    BY <1>4, <1>5
  <2> QED
    BY <2>1 DEF NearestHeading
<1>7. /\ \A y \in 1..m : o[y] \in 1..n /\ c[y] \in 1..n /\ o[y] < c[y]
      /\ \A y, z \in 1..m : y < z => c[y] < o[z]
      /\ \A j \in 1..n : \E y \in 1..m : StandsIn(o, c, y, j)
  BY DEF Marked, m, n
<1>8. \A y \in 1..m : \A j \in 1..n : StandsIn(o, c, y, j) <=> o[y] <= j /\ j <= c[y]
  BY DEF StandsIn
<1>9. \A y \in 1..m :
        /\ \A j \in 1..n : StandsIn(o, c, y, j) =>
             /\ page[j].is = "heading" => sections[y].label # "none" /\ page[j].label = sections[y].label
             /\ page[j].is = "table" => sections[y].tables # <<>>
             /\ page[j].is = "table" => \A l \in 1..n : StandsIn(o, c, y, l) /\ page[l].is = "table" => j = l
        /\ sections[y].label # "none" => \E j \in 1..n : StandsIn(o, c, y, j) /\ page[j].is = "heading"
        /\ sections[y].tables # <<>> => \E j \in 1..n : StandsIn(o, c, y, j) /\ page[j].is = "table"
  BY DEF Written, m, n
(* The table before stands in an earlier section.                          *)
<1>10. ASSUME k # 1
       PROVE  \E w \in 1..m : w < x /\ from = c[w] /\ StandsIn(o, c, w, tables[k - 1])
  <2>1. k - 1 \in DOMAIN tables /\ k - 1 < k
    BY <1>3, <1>10
  <2>2. tables[k - 1] \in 1..n /\ page[tables[k - 1]].is = "table" /\ tables[k - 1] < i
    BY <1>2, <1>3, <2>1
  <2>3. PICK w \in 1..m : StandsIn(o, c, w, tables[k - 1])
    BY <1>7, <2>2
  <2>4. w # x
    BY <1>4, <1>9, <2>2, <2>3
  <2>5. ~(x < w)
    <3>1. ASSUME x < w PROVE FALSE
      <4>1. c[x] < o[w] /\ o[w] <= tables[k - 1] /\ i <= c[x]
        BY <1>4, <1>7, <1>8, <2>2, <2>3, <3>1
      <4> QED
        BY <1>1, <1>4, <1>7, <2>2, <4>1
    <3> QED
      BY <3>1
  <2>6. from = c[w]
    BY <1>5, <1>10, <2>2, <2>3
  <2> QED
    BY <1>1, <1>4, <2>3, <2>4, <2>5, <2>6
<1>11. from \in Nat /\ from < o[x] /\ o[x] \in 1..n /\ c[x] \in 1..n
  <2>1. CASE k = 1
    BY <1>4, <1>7, <2>1
  <2>2. CASE k # 1
    <3>1. PICK w \in 1..m : w < x /\ from = c[w]
      BY <1>10, <2>2
    <3> HIDE DEF from
    <3>2. c[w] < o[x] /\ c[w] \in 1..n
      BY <1>4, <1>7, <3>1
    <3> QED
      BY <1>4, <1>7, <3>1, <3>2
  <2> QED
    BY <2>1, <2>2
<1>12. CASE sections[x].label # "none"
  <2> HIDE DEF from
  <2>1. PICK h \in 1..n : StandsIn(o, c, x, h) /\ page[h].is = "heading"
    BY <1>4, <1>9, <1>12
  <2>2. o[x] <= h /\ h <= c[x]
    BY <1>4, <1>8, <2>1
  <2>3. h \in inside
    BY <1>11, <2>1, <2>2
  <2>4. inside \in SUBSET (1..c[x]) /\ inside # {} /\ c[x] \in Nat
    BY <1>11, <2>3
  <2> HIDE DEF inside
  <2>5. Max(inside) \in inside /\ h <= Max(inside)
    BY <2>3, <2>4, Latest
  <2>6. Max(inside) \in 1..c[x] /\ page[Max(inside)].is = "heading"
    BY <2>4, <2>5 DEF inside
  <2>7. Max(inside) \in 1..n /\ o[x] <= Max(inside) /\ Max(inside) <= c[x]
    BY <1>1, <1>11, <2>2, <2>5, <2>6
  <2>8. page[Max(inside)].label = sections[x].label
    BY <1>4, <1>8, <1>9, <2>6, <2>7
  <2> QED
    BY <1>6, <2>4, <2>8 DEF tables
<1>13. CASE sections[x].label = "none"
  (* Everything after the table before is the section's own.               *)
  <2>1. ASSUME NEW j \in (from + 1)..c[x], NEW y \in 1..m, StandsIn(o, c, y, j), y # x PROVE FALSE
    <3>1. j \in 1..n /\ j <= c[x] /\ from < j
      BY <1>1, <1>11, <2>1
    <3>2. o[y] <= j /\ j <= c[y]
      BY <1>8, <2>1, <3>1
    <3>3. y < x
      <4>1. ASSUME x < y PROVE FALSE
        <5>1. c[x] < o[y] /\ o[y] \in 1..n
          BY <1>4, <1>7, <4>1
        <5> QED
          BY <1>11, <3>1, <3>2, <5>1
      <4> QED
        BY <1>1, <1>4, <2>1, <4>1
    <3>4. x > 1 /\ sections[x - 1].tables # <<>> /\ x - 1 \in 1..m
      <4>1. x > 1 /\ x - 1 \in 1..m
        BY <1>1, <1>4, <3>3
      <4>2. x \in DOMAIN sections
        BY <1>1, <1>4
      <4> QED
        BY <1>13, <4>1, <4>2 DEF SectionsApart
    <3>5. PICK p \in 1..n : StandsIn(o, c, x - 1, p) /\ page[p].is = "table"
      BY <1>9, <3>4
    <3>6. p <= c[x - 1] /\ c[x - 1] < o[x] /\ c[x - 1] \in 1..n
      <4>1. x - 1 < x
        BY <1>4
      <4> QED
        BY <1>4, <1>7, <1>8, <3>4, <3>5, <4>1
    <3>7. PICK l \in DOMAIN tables : tables[l] = p
      BY <1>2, <3>5
    <3>8. p < i
      <4>1. o[x] <= i
        BY <1>4, <1>8
      <4> QED
        BY <1>4, <1>11, <3>6, <4>1
    <3>9. l < k
      <4>1. ASSUME k < l PROVE FALSE
        <5>1. tables[k] < tables[l]
          BY <1>2, <1>3, <4>1
        <5> QED
          BY <1>4, <3>7, <3>8, <5>1
      <4>2. l # k
        BY <1>4, <3>7, <3>8
      <4> QED
        BY <1>3, <4>1, <4>2
    <3>10. k # 1 /\ k - 1 \in DOMAIN tables /\ (l = k - 1 \/ l < k - 1)
      BY <1>3, <3>9
    <3>11. PICK w \in 1..m : w < x /\ from = c[w] /\ StandsIn(o, c, w, tables[k - 1])
      BY <1>10, <3>10
    <3>12. tables[k - 1] \in 1..n /\ p <= tables[k - 1]
      <4>1. tables[k - 1] \in 1..n
        BY <1>2, <3>10
      <4>2. tables[l] = tables[k - 1] \/ tables[l] < tables[k - 1]
        BY <1>2, <3>10
      <4> QED
        BY <3>7, <4>1, <4>2
    <3>13. w = x - 1
      <4>1. ASSUME w < x - 1 PROVE FALSE
        <5>1. c[w] < o[x - 1] /\ tables[k - 1] <= c[w] /\ o[x - 1] <= p /\ c[w] \in 1..n /\ o[x - 1] \in 1..n
          BY <1>7, <1>8, <3>4, <3>5, <3>11, <3>12, <4>1
        <5> QED
          BY <3>12, <5>1
      <4> QED
        BY <1>4, <3>4, <3>11, <4>1
    <3>14. y <= x - 1
      BY <1>4, <3>3
    <3>15. c[y] <= c[x - 1]
      <4>1. CASE y = x - 1
        <5>1. c[x - 1] \in Nat
          BY <3>6
        <5> QED
          BY <4>1, <5>1
      <4>2. CASE y < x - 1
        <5>1. c[y] < o[x - 1] /\ o[x - 1] < c[x - 1] /\ c[y] \in 1..n /\ o[x - 1] \in 1..n
          BY <1>7, <3>4, <4>2
        <5> QED
          BY <3>6, <5>1
      <4> QED
        BY <1>4, <3>14, <4>1, <4>2
    <3>16. from = c[x - 1]
      BY <3>11, <3>13
    <3> HIDE DEF from
    <3>17. c[y] \in 1..n
      BY <1>7
    <3> QED
      BY <1>11, <3>1, <3>2, <3>6, <3>15, <3>16, <3>17
  <2>2. inside = {}
    <3> SUFFICES ASSUME NEW j \in inside PROVE FALSE
      OBVIOUS
    <3>1. j \in (from + 1)..c[x] /\ page[j].is = "heading"
      OBVIOUS
    <3>2. j \in 1..n
      <4> HIDE DEF from
      <4> QED
        BY <1>1, <1>11, <3>1
    <3>3. PICK y \in 1..m : StandsIn(o, c, y, j)
      BY <1>7, <3>2
    <3>4. y = x
      BY <2>1, <3>1, <3>3
    <3> QED
      BY <1>4, <1>9, <1>13, <3>1, <3>2, <3>3, <3>4
  <2> HIDE DEF inside
  <2> QED
    BY <1>6, <1>13, <2>2 DEF tables
<1> QED
  BY <1>12, <1>13

(* The rules of a table are a list.                                        *)
LEMMA RulesListed == ASSUME NEW t \in DataTable PROVE List(TableRules(t))
<1> DEFINE weekly == [i \in DOMAIN t.rows |->
             IF CarriedDays(t.rows, i) = {} THEN <<>>
             ELSE Slots(CarriedDays(t.rows, i), t.rows[i].hours, t.rows[i].offer)]
           RowRules(i) == FlattenSeq(CellRules(t.weathers, t.rows[i], CarriedWindow(t.rows, i)))
           seasonal == [i \in DOMAIN t.rows |-> IF CarriedWindow(t.rows, i) = Nothing THEN <<>> ELSE RowRules(i)]
<1>1. List(<<>>)
  BY DEF List
<1>2. CASE t.kind = "weekly"
  <2>1. t.rows \in Seq(WeeklyRow)
    BY <1>2 DEF DataTable
  <2>2. List(t.rows) /\ \A i \in DOMAIN t.rows : t.rows[i] \in WeeklyRow
    BY <2>1, SequenceIsList
  <2>3. List(weekly) /\ DOMAIN weekly = DOMAIN t.rows
    BY <2>2, MappedList
  <2>4. ASSUME NEW i \in DOMAIN t.rows PROVE List(weekly[i])
    <3>1. List(Slots(CarriedDays(t.rows, i), t.rows[i].hours, t.rows[i].offer))
      BY <2>2, SlotsRead
    <3> QED
      BY <1>1, <3>1
  <2>5. TableRules(t) = FlattenSeq(weekly)
    BY <1>2 DEF TableRules, RulesFromRows
  <2> HIDE DEF weekly
  <2> QED
    BY <2>3, <2>4, <2>5, FlattenedRange
<1>3. CASE t.kind = "seasonal"
  <2>1. t.rows \in Seq(SeasonalRow)
    BY <1>3 DEF DataTable
  <2>2. List(t.rows) /\ \A i \in DOMAIN t.rows : t.rows[i] \in SeasonalRow
    BY <2>1, SequenceIsList
  <2>3. List(seasonal) /\ DOMAIN seasonal = DOMAIN t.rows
    BY <2>2, MappedList
  <2>4. ASSUME NEW i \in DOMAIN t.rows PROVE List(seasonal[i])
    <3>1. List(RowRules(i))
      BY <2>2, SeasonRowRead
    <3> HIDE DEF RowRules
    <3> QED
      BY <1>1, <3>1
  <2>5. TableRules(t) = FlattenSeq(seasonal)
    BY <1>3 DEF TableRules, RulesFromSeasonRows, CellRules
  <2> HIDE DEF seasonal
  <2> QED
    BY <2>3, <2>4, <2>5, FlattenedRange
<1>4. CASE t.kind = "prose"
  BY <1>1, <1>4 DEF TableRules
<1>5. t.kind \in {"weekly", "seasonal", "prose"}
  BY DEF DataTable
<1> QED
  BY <1>2, <1>3, <1>4, <1>5

(* The pool's tables are those of the sections that are not the sauna's.   *)
LEMMA PoolTablesFound ==
  ASSUME NEW sections \in Seq(Section), SectionsApart(sections)
  PROVE  LET served == PoolTables(PrintedPage(sections))
         IN /\ List(served)
            /\ Range(served) = UNION {Range(s.tables) : s \in {x \in Range(sections) : x.label # "sauna"}}
<1> DEFINE page == PrintedPage(sections)
           tables == TablesAt(page)
           ids == [k \in DOMAIN tables |-> k]
           I == {j \in DOMAIN ids : NearestHeading(page, tables, ids[j]) # "sauna"}
           admitted == Kept(ids, LAMBDA k : NearestHeading(page, tables, k) # "sauna")
           served == PoolTables(page)
           m == Len(sections)
<1>1. DOMAIN sections = 1..m /\ \A x \in 1..m : sections[x] \in Section
  BY SequenceIsList, Listing
<1>2. PICK o, c : Marked(page, sections, o, c) /\ Written(page, sections, o, c)
  <2>1. \A x \in DOMAIN sections : Len(sections[x].tables) <= 1
    BY DEF SectionsApart
  <2> QED
    BY <2>1, PagePrinted
<1> HIDE DEF page
<1>3. List(page) /\ DOMAIN page = 1..Len(page) /\ \A i \in 1..Len(page) : \E x \in 1..m : StandsIn(o, c, x, i)
  BY <1>2, Listing DEF Marked
<1>4. /\ List(tables)
      /\ \A k \in DOMAIN tables : tables[k] \in DOMAIN page /\ page[tables[k]].is = "table"
      /\ \A i \in DOMAIN page : page[i].is = "table" => \E k \in DOMAIN tables : tables[k] = i
  BY <1>3, TablesFound
<1>5. ASSUME NEW k \in DOMAIN tables, NEW x \in 1..m, StandsIn(o, c, x, tables[k])
      PROVE  /\ NearestHeading(page, tables, k) = sections[x].label
             /\ sections[x].tables # <<>>
             /\ page[tables[k]].table = sections[x].tables[1]
  <2>1. NearestHeading(page, tables, k) = sections[x].label
    BY <1>2, <1>5, HeadingIsItsOwn
  <2>2. tables[k] \in 1..Len(page) /\ page[tables[k]].is = "table"
    BY <1>3, <1>4
  <2> HIDE DEF tables
  <2>3. sections[x].tables # <<>> /\ page[tables[k]].table = sections[x].tables[1]
    BY <1>2, <1>5, <2>2 DEF Written
  <2> QED
    BY <2>1, <2>3
<1>6. \A x \in 1..m : sections[x].tables # <<>> => \E k \in DOMAIN tables : StandsIn(o, c, x, tables[k])
  <2> SUFFICES ASSUME NEW x \in 1..m, sections[x].tables # <<>> PROVE \E k \in DOMAIN tables : StandsIn(o, c, x, tables[k])
    OBVIOUS
  <2>1. PICK i \in 1..Len(page) : StandsIn(o, c, x, i) /\ page[i].is = "table"
    BY <1>2 DEF Written
  <2>2. PICK k \in DOMAIN tables : tables[k] = i
    BY <1>3, <1>4, <2>1
  <2> QED
    BY <2>1, <2>2
<1>7. served = [k \in DOMAIN admitted |-> page[tables[admitted[k]]].table]
  BY DEF PoolTables, Mapped
<1>8. admitted = Arranged(ids, {<<0, i>> : i \in I})
  BY DEF Kept
<1> HIDE DEF tables, served, admitted
<1>9. List(ids) /\ DOMAIN ids = DOMAIN tables /\ \A k \in DOMAIN tables : ids[k] = k
  BY <1>4, MappedList
<1>10. I \in SUBSET DOMAIN ids /\ \A k : k \in I <=> k \in DOMAIN tables /\ NearestHeading(page, tables, k) # "sauna"
  BY <1>9
<1> HIDE DEF ids, I
<1>11. Draws(admitted, ids, I)
  <2>1. Keeps(admitted, ids, I)
    BY <1>8, <1>9, <1>10, KeptPlaces
  <2> QED
    BY <1>9, <1>10, <2>1, KeptIsDrawn
<1>12. List(admitted) /\ (\A k \in DOMAIN admitted : admitted[k] \in I) /\ \A i \in I : \E k \in DOMAIN admitted : admitted[k] = i
  <2>1. I \subseteq DOMAIN tables
    BY <1>10
  <2> QED
    BY <1>9, <1>11, <2>1 DEF Draws, DrawnFrom
<1>13. List(served) /\ DOMAIN served = DOMAIN admitted
  BY <1>7, <1>12, MappedList
<1>14. Range(served) = {page[tables[k]].table : k \in I}
  <2>1. \A k \in DOMAIN admitted : served[k] = page[tables[admitted[k]]].table
    BY <1>7
  <2>2. Range(served) = {served[k] : k \in DOMAIN admitted}
    BY <1>13 DEF Range
  <2> QED
    BY <1>12, <2>1, <2>2
<1>15. ASSUME NEW x \in 1..m, sections[x].tables # <<>> PROVE Range(sections[x].tables) = {sections[x].tables[1]}
  <2>1. sections[x].tables \in Seq(DataTable)
    BY <1>1 DEF Section
  <2>2. List(sections[x].tables)
    BY <2>1, SequenceIsList
  <2>3. Len(sections[x].tables) <= 1
    BY <1>1 DEF SectionsApart
  <2>4. DOMAIN sections[x].tables = {1}
    BY <1>15, <2>2, <2>3, OneOrNone
  <2> QED
    BY <2>4 DEF Range
<1>16. ASSUME NEW x \in 1..m, sections[x].tables = <<>> PROVE Range(sections[x].tables) = {}
  BY <1>16 DEF Range
<1> DEFINE others == {x \in Range(sections) : x.label # "sauna"}
<1>17. \A s : s \in others <=> \E x \in 1..m : s = sections[x] /\ sections[x].label # "sauna"
  BY <1>1 DEF Range
<1>18. ASSUME NEW t \in Range(served) PROVE \E s \in others : t \in Range(s.tables)
  <2>1. PICK k \in I : t = page[tables[k]].table
    BY <1>14
  <2>2. k \in DOMAIN tables /\ tables[k] \in 1..Len(page) /\ NearestHeading(page, tables, k) # "sauna"
    BY <1>3, <1>4, <1>10
  <2>3. PICK x \in 1..m : StandsIn(o, c, x, tables[k])
    BY <1>3, <2>2
  <2>4. t = sections[x].tables[1] /\ sections[x].tables # <<>> /\ sections[x].label # "sauna"
    BY <1>5, <2>1, <2>2, <2>3
  <2>5. t \in Range(sections[x].tables)
    BY <1>15, <2>4
  <2> QED
    BY <1>17, <2>4, <2>5
<1>19. ASSUME NEW s \in others, NEW t \in Range(s.tables) PROVE t \in Range(served)
  <2>1. PICK x \in 1..m : s = sections[x] /\ sections[x].label # "sauna"
    BY <1>17
  <2>2. sections[x].tables # <<>>
    BY <1>16, <1>19, <2>1
  <2>3. t = sections[x].tables[1]
    BY <1>15, <1>19, <2>1, <2>2
  <2>4. PICK k \in DOMAIN tables : StandsIn(o, c, x, tables[k])
    BY <1>6, <2>2
  <2>5. k \in I /\ page[tables[k]].table = t
    BY <1>5, <1>10, <2>1, <2>3, <2>4
  <2> QED
    BY <1>14, <2>5
<1> HIDE DEF others
<1>20. Range(served) = UNION {Range(s.tables) : s \in others}
  BY <1>18, <1>19
<1> QED
  BY <1>13, <1>20 DEF others, served, page

(* The hours served are those of the tables that are not the sauna's.      *)
THEOREM SaunaIsKeptOut ==
  ASSUME NEW sections \in Seq(Section), SectionsApart(sections)
  PROVE  SaunaNeverServed(sections, ParseSchedule(PrintedPage(sections), "city").rules)
<1> DEFINE served == PoolTables(PrintedPage(sections))
           seqs == Mapped(served, TableRules)
           rules == ParseSchedule(PrintedPage(sections), "city").rules
           others == {x \in Range(sections) : x.label # "sauna"}
<1>1. List(served) /\ Range(served) = UNION {Range(s.tables) : s \in others}
  BY PoolTablesFound
<1>2. rules = FlattenSeq(seqs)
  BY DEF ParseSchedule, ParseCity
<1> HIDE DEF rules, served
<1>3. seqs = [k \in DOMAIN served |-> TableRules(served[k])]
  BY DEF Mapped
<1> HIDE DEF seqs
<1>4. List(seqs) /\ DOMAIN seqs = DOMAIN served
  BY <1>1, <1>3, MappedList
<1>5. \A s \in others : \A t \in Range(s.tables) : t \in DataTable
  <2> SUFFICES ASSUME NEW s \in others, NEW t \in Range(s.tables) PROVE t \in DataTable
    OBVIOUS
  <2>1. s \in Section
    <3>1. \A x \in DOMAIN sections : sections[x] \in Section
      BY SequenceIsList
    <3> QED
      BY <3>1 DEF Range
  <2>2. s.tables \in Seq(DataTable)
    BY <2>1 DEF Section
  <2>3. \A k \in DOMAIN s.tables : s.tables[k] \in DataTable
    BY <2>2, SequenceIsList
  <2> QED
    BY <2>3 DEF Range
<1>6. \A k \in DOMAIN served : served[k] \in DataTable
  <2>1. \A k \in DOMAIN served : served[k] \in Range(served)
    BY DEF Range
  <2> HIDE DEF others
  <2> QED
    BY <1>1, <1>5, <2>1
<1>7. \A k \in DOMAIN seqs : List(seqs[k])
  BY <1>3, <1>4, <1>6, RulesListed
<1>8. Range(rules) = UNION {Range(seqs[k]) : k \in DOMAIN seqs}
  BY <1>2, <1>4, <1>7, FlattenedRange
<1>9. \A k \in DOMAIN seqs : seqs[k] = TableRules(served[k])
  BY <1>3, <1>4
<1>10. Range(rules) = UNION {Range(TableRules(t)) : t \in Range(served)}
  <2>1. \A t : t \in Range(served) <=> \E k \in DOMAIN seqs : t = served[k]
    BY <1>4 DEF Range
  <2> DEFINE Served(t) == Range(TableRules(t))
  <2>2. \A k \in DOMAIN seqs : Range(seqs[k]) = Served(served[k])
    BY <1>9
  <2> HIDE DEF Served
  <2>3. UNION {Range(seqs[k]) : k \in DOMAIN seqs} = UNION {Served(t) : t \in Range(served)}
    BY <2>1, <2>2
  <2> QED
    BY <1>8, <2>3 DEF Served
<1>11. UNION {Range(TableRules(t)) : t \in Range(served)}
         = UNION {UNION {Range(TableRules(t)) : t \in Range(s.tables)} : s \in others}
  <2> DEFINE Served(t) == Range(TableRules(t))
  <2> HIDE DEF Served, others
  <2>1. UNION {Served(t) : t \in Range(served)} = UNION {UNION {Served(t) : t \in Range(s.tables)} : s \in others}
    BY <1>1
  <2> QED
    BY <2>1 DEF Served
<1> QED
  BY <1>10, <1>11 DEF SaunaNeverServed, rules, others

-----------------------------------------------------------------------------
(* Every request                                                           *)

(* A request stays what it is, and the answer to it is what the function   *)
(* of its kind makes of it.                                                *)
AnswersTheAsk ==
  /\ ask \in Asks
  /\ Answered("day") =>
       Given = FindSwimOptions(ask.query, ask.world.facilities, Calendar, Roster(ask.world))
  /\ Answered("lanes") => Given = LanePhase(ask.basins, ask.pages, ask.sheets)
  /\ Answered("scrape") => Given = Scrape(ask.layers, ask.pages)
  /\ Answered("tariffs") => Given = ParsePrices(ask.tables)
  /\ Answered("rentals") => Given = ParseMietobjekte(ask.tables)
  /\ Answered("prose") => Given = ParseMaintenanceClosures(ask.tokens)
  /\ Answered("paddling") => Given = ParsePlanschbecken(ask.sentences)
  /\ Answered("weekly") => Given = RulesFromRows(ask.rows)
  /\ Answered("seasonal") => Given = RulesFromSeasonRows(ask.table.weathers, ask.table.rows)
  /\ Answered("sections") => Given = ParseSchedule(PrintedPage(ask.sections), "city")

(* The kinds of the answers that the invariant speaks of.                  *)
Kinds ==
  {"day", "lanes", "scrape", "tariffs", "rentals", "prose", "paddling", "weekly", "seasonal", "sections"}

(* Only a request of its own kind is answered.                             *)
LEMMA OthersUnanswered ==
  ASSUME NEW kind, ask' = ask, ask.kind = kind
  PROVE  \A other \in Kinds \ {kind} : ~Answered(other)'
  BY DEF Answered

(* The inductive invariant of every request.                               *)
LEMMA AsksAreAnswered == Spec => []AnswersTheAsk
<1>1. Init => AnswersTheAsk
  BY DEF Init, AnswersTheAsk, Answered, Pending
<1>2. AnswersTheAsk /\ [Next]_vars => AnswersTheAsk'
  <2> SUFFICES ASSUME AnswersTheAsk, [Next]_vars PROVE AnswersTheAsk'
    OBVIOUS
  <2>0. ask' = ask => ask' \in Asks'
    BY DEF AnswersTheAsk, Asks, DayAsks, AccessAsks, PriceAsks, WindowAsks, LaneAsks, ScrapeAsks, SheetAsks, TimeAsks
  <2>1. CASE AnswerDay
    <3> DEFINE value == FindSwimOptions(ask.query, ask.world.facilities, Calendar, Roster(ask.world))
    <3>1. answer' = <<value>> /\ ask' = ask /\ ask.kind = "day"
      BY <2>1 DEF AnswerDay, Reply
    <3>2. Given' = (FindSwimOptions(ask.query, ask.world.facilities, Calendar, Roster(ask.world)))'
      BY <3>1 DEF Given
    <3> QED
      BY <2>0, <3>1, <3>2, OthersUnanswered DEF AnswersTheAsk, Kinds
  <2>2. CASE BindLanes
    <3> DEFINE value == LanePhase(ask.basins, ask.pages, ask.sheets)
    <3>1. answer' = <<value>> /\ ask' = ask /\ ask.kind = "lanes"
      BY <2>2 DEF BindLanes, Reply
    <3>2. Given' = (LanePhase(ask.basins, ask.pages, ask.sheets))'
      BY <3>1 DEF Given
    <3> QED
      BY <2>0, <3>1, <3>2, OthersUnanswered DEF AnswersTheAsk, Kinds
  <2>3. CASE ScrapeAll
    <3> DEFINE value == Scrape(ask.layers, ask.pages)
    <3>1. answer' = <<value>> /\ ask' = ask /\ ask.kind = "scrape"
      BY <2>3 DEF ScrapeAll, Reply
    <3>2. Given' = (Scrape(ask.layers, ask.pages))'
      BY <3>1 DEF Given
    <3> QED
      BY <2>0, <3>1, <3>2, OthersUnanswered DEF AnswersTheAsk, Kinds
  <2>4. CASE ReadTariffs
    <3> DEFINE value == ParsePrices(ask.tables)
    <3>1. answer' = <<value>> /\ ask' = ask /\ ask.kind = "tariffs"
      BY <2>4 DEF ReadTariffs, Reply
    <3>2. Given' = (ParsePrices(ask.tables))'
      BY <3>1 DEF Given
    <3> QED
      BY <2>0, <3>1, <3>2, OthersUnanswered DEF AnswersTheAsk, Kinds
  <2>5. CASE ReadRentals
    <3> DEFINE value == ParseMietobjekte(ask.tables)
    <3>1. answer' = <<value>> /\ ask' = ask /\ ask.kind = "rentals"
      BY <2>5 DEF ReadRentals, Reply
    <3>2. Given' = (ParseMietobjekte(ask.tables))'
      BY <3>1 DEF Given
    <3> QED
      BY <2>0, <3>1, <3>2, OthersUnanswered DEF AnswersTheAsk, Kinds
  <2>6. CASE ReadProse
    <3> DEFINE value == ParseMaintenanceClosures(ask.tokens)
    <3>1. answer' = <<value>> /\ ask' = ask /\ ask.kind = "prose"
      BY <2>6 DEF ReadProse, Reply
    <3>2. Given' = (ParseMaintenanceClosures(ask.tokens))'
      BY <3>1 DEF Given
    <3> QED
      BY <2>0, <3>1, <3>2, OthersUnanswered DEF AnswersTheAsk, Kinds
  <2>7. CASE ReadPaddling
    <3> DEFINE value == ParsePlanschbecken(ask.sentences)
    <3>1. answer' = <<value>> /\ ask' = ask /\ ask.kind = "paddling"
      BY <2>7 DEF ReadPaddling, Reply
    <3>2. Given' = (ParsePlanschbecken(ask.sentences))'
      BY <3>1 DEF Given
    <3> QED
      BY <2>0, <3>1, <3>2, OthersUnanswered DEF AnswersTheAsk, Kinds
  <2>8. CASE ReadWeekly
    <3> DEFINE value == RulesFromRows(ask.rows)
    <3>1. answer' = <<value>> /\ ask' = ask /\ ask.kind = "weekly"
      BY <2>8 DEF ReadWeekly, Reply
    <3>2. Given' = (RulesFromRows(ask.rows))'
      BY <3>1 DEF Given
    <3> QED
      BY <2>0, <3>1, <3>2, OthersUnanswered DEF AnswersTheAsk, Kinds
  <2>9. CASE ReadSeasonal
    <3> DEFINE value == RulesFromSeasonRows(ask.table.weathers, ask.table.rows)
    <3>1. answer' = <<value>> /\ ask' = ask /\ ask.kind = "seasonal"
      BY <2>9 DEF ReadSeasonal, Reply
    <3>2. Given' = (RulesFromSeasonRows(ask.table.weathers, ask.table.rows))'
      BY <3>1 DEF Given
    <3> QED
      BY <2>0, <3>1, <3>2, OthersUnanswered DEF AnswersTheAsk, Kinds
  <2>10. CASE ReadSections
    <3> DEFINE value == ParseSchedule(PrintedPage(ask.sections), "city")
    <3>1. answer' = <<value>> /\ ask' = ask /\ ask.kind = "sections"
      BY <2>10 DEF ReadSections, Reply
    <3>2. Given' = (ParseSchedule(PrintedPage(ask.sections), "city"))'
      BY <3>1 DEF Given
    <3> QED
      BY <2>0, <3>1, <3>2, OthersUnanswered DEF AnswersTheAsk, Kinds
  <2>11. CASE AdmitPerson \/ QuotePrice \/ ReadWindow
    <3>1. ask' = ask /\ ask.kind \notin Kinds
      BY <2>11 DEF AdmitPerson, QuotePrice, ReadWindow, Reply, Kinds
    <3> QED
      BY <2>0, <3>1 DEF AnswersTheAsk, Answered, Kinds
  <2>12. CASE UNCHANGED vars
    <3>1. ask' = ask /\ answer' = answer
      BY <2>12 DEF vars
    <3>2. \A kind \in Kinds : Answered(kind)' <=> Answered(kind)
      BY <3>1 DEF Answered, Pending
    <3>3. Given' = Given
      BY <3>1 DEF Given
    <3> QED
      BY <2>0, <3>1, <3>2, <3>3 DEF AnswersTheAsk, Kinds
  <2> QED
    BY <2>1, <2>2, <2>3, <2>4, <2>5, <2>6, <2>7, <2>8, <2>9, <2>10, <2>11, <2>12 DEF Next
<1> QED
  BY <1>1, <1>2, PTL DEF Spec

(* The kind of a request tells what else it names.                         *)
LEMMA KindTells ==
  ASSUME ask \in Asks
  PROVE  /\ ask.kind = "day" => ask \in DayAsks
         /\ ask.kind = "access" => ask \in AccessAsks
         /\ ask.kind = "price" => ask \in PriceAsks
         /\ ask.kind = "window" => ask \in WindowAsks
         /\ ask.kind = "lanes" => ask \in LaneAsks
         /\ ask.kind = "scrape" => ask \in ScrapeAsks
         /\ ask.kind \in {"tariffs", "rentals", "prose", "paddling"} => ask \in SheetAsks
         /\ ask.kind \in {"weekly", "seasonal", "sections"} => ask \in TimeAsks
  BY DEF Asks, DayAsks, AccessAsks, PriceAsks, WindowAsks, LaneAsks, ScrapeAsks, SheetAsks, TimeAsks

(* What the request for a day is about.                                    *)
LEMMA DayIsAsked ==
  ASSUME AnswersTheAsk, Answered("day")
  PROVE  /\ ask.world \in World /\ ask.query \in Query
         /\ Given = FindSwimOptions(ask.query, ask.world.facilities, Calendar, Roster(ask.world))
<1>1. ask \in DayAsks
  BY KindTells DEF AnswersTheAsk, Answered
<1>2. ask.world \in Worlds /\ ask.query \in Queries
  BY <1>1 DEF DayAsks
<1> QED
  BY <1>2, StoresAssumption DEF AnswersTheAsk

(* What the request for lane plans is about.                               *)
LEMMA LanesAreAsked ==
  ASSUME AnswersTheAsk, Answered("lanes")
  PROVE  /\ Keyed(ask.basins) /\ Linked(ask.pages, ask.sheets)
         /\ Given = LanePhase(ask.basins, ask.pages, ask.sheets)
<1>1. ask \in LaneAsks
  BY KindTells DEF AnswersTheAsk, Answered
<1>2. ask.basins \in Declared /\ ask.pages \in Linking /\ ask.sheets \in Printings
  BY <1>1 DEF LaneAsks
<1>3. /\ ask.basins \in Seq(DeclaredBasin)
      /\ \A i, j \in DOMAIN ask.basins : Ref(ask.basins[i]) = Ref(ask.basins[j]) => i = j
      /\ ask.pages \in Seq(LinkPage)
      /\ ask.sheets \in [Addresses -> Seq(SUBSET STRING)]
  BY <1>2, LanesAssumption
<1>4. Keyed(ask.basins)
  BY <1>3, SequenceIsList DEF Keyed
<1>5. List(ask.pages) /\ \A i \in DOMAIN ask.pages : ask.pages[i] \in LinkPage
  BY <1>3, SequenceIsList
<1>6. ASSUME NEW i \in DOMAIN ask.pages
      PROVE /\ List(ask.pages[i].hrefs)
            /\ \A k \in DOMAIN ask.pages[i].hrefs : List(ask.sheets[ask.pages[i].hrefs[k]])
  <2>1. ask.pages[i].hrefs \in Seq(Addresses)
    BY <1>5 DEF LinkPage
  <2>2. List(ask.pages[i].hrefs) /\ \A k \in DOMAIN ask.pages[i].hrefs : ask.pages[i].hrefs[k] \in Addresses
    BY <2>1, SequenceIsList
  <2>3. \A a \in Addresses : ask.sheets[a] \in Seq(SUBSET STRING)
    BY <1>3
  <2>4. \A a \in Addresses : List(ask.sheets[a])
    BY <2>3, SequenceIsList
  <2> QED
    BY <2>2, <2>4
<1>7. Linked(ask.pages, ask.sheets)
  BY <1>5, <1>6 DEF Linked
<1>8. Given = LanePhase(ask.basins, ask.pages, ask.sheets)
  BY DEF AnswersTheAsk
<1> QED
  BY <1>4, <1>7, <1>8

(* What the request for a scrape is about.                                 *)
LEMMA ScrapeIsAsked ==
  ASSUME AnswersTheAsk, Answered("scrape")
  PROVE  /\ ask.layers \in Seq(Layer) /\ ask.pages \in [Sites -> Page]
         /\ Given = Scrape(ask.layers, ask.pages)
<1>1. ask \in ScrapeAsks
  BY KindTells DEF AnswersTheAsk, Answered
<1>2. ask.layers \in LayerReplies /\ ask.pages \in PageReplies
  BY <1>1 DEF ScrapeAsks
<1> QED
  BY <1>2, PagesAssumption DEF AnswersTheAsk

(* What the request for a page is about.                                   *)
LEMMA PagesAreAsked ==
  ASSUME AnswersTheAsk
  PROVE  /\ Answered("tariffs") => ask.tables \in Seq(TariffSheet) /\ Given = ParsePrices(ask.tables)
         /\ Answered("rentals") => ask.tables \in Seq(RentalTable) /\ Given = ParseMietobjekte(ask.tables)
         /\ Answered("prose") => ask.tokens \in Seq(Token) /\ Given = ParseMaintenanceClosures(ask.tokens)
         /\ Answered("paddling") =>
              ask.sentences \in Seq(Sentence) /\ Given = ParsePlanschbecken(ask.sentences)
<1>1. ask.kind \in {"tariffs", "rentals", "prose", "paddling"} => ask \in SheetAsks
  BY KindTells DEF AnswersTheAsk
<1>2. /\ ask.kind = "tariffs" => ask.tables \in TariffPages
      /\ ask.kind = "rentals" => ask.tables \in RentalPages
      /\ ask.kind = "prose" => ask.tokens \in Announcements
      /\ ask.kind = "paddling" => ask.sentences \in Overviews
  BY <1>1 DEF SheetAsks
<1> QED
  BY <1>2, PagesAssumption DEF AnswersTheAsk, Answered

(* What the request for a timetable is about.                              *)
LEMMA TimesAreAsked ==
  ASSUME AnswersTheAsk
  PROVE  /\ Answered("weekly") => ask.rows \in Seq(WeeklyRow) /\ Given = RulesFromRows(ask.rows)
         /\ Answered("seasonal") =>
              /\ ask.table.rows \in Seq(SeasonalRow)
              /\ Given = RulesFromSeasonRows(ask.table.weathers, ask.table.rows)
         /\ Answered("sections") =>
              ask.sections \in Seq(Section) /\ Given = ParseSchedule(PrintedPage(ask.sections), "city")
<1>1. ask.kind \in {"weekly", "seasonal", "sections"} => ask \in TimeAsks
  BY KindTells DEF AnswersTheAsk
<1>2. /\ ask.kind = "weekly" => ask.rows \in WeeklyTables
      /\ ask.kind = "seasonal" => ask.table \in SeasonalTables
      /\ ask.kind = "sections" => ask.sections \in SectionedPages
  BY <1>1 DEF TimeAsks
<1>3. \A table \in SeasonalTables : table.rows \in Seq(SeasonalRow)
  BY PagesAssumption DEF SeasonalTable
<1> QED
  BY <1>2, <1>3, PagesAssumption DEF AnswersTheAsk, Answered

(* Closures win, public holidays are vouched for and windows wrap, in      *)
(* every answer.                                                           *)
THEOREM DaysAreDecided == Spec => []DaysDecided
<1>1. AnswersTheAsk => DaysDecided
  <2> SUFFICES ASSUME AnswersTheAsk PROVE DaysDecided
    OBVIOUS
  <2>1. ClosuresWin
    BY DayIsAsked, ClosuresDecide DEF ClosuresWin
  <2>2. HolidaysVouched
    BY DayIsAsked, HolidaysSpokenFor DEF HolidaysVouched
  <2>3. ASSUME Answered("window") PROVE WindowsAreCyclic(LastMonth, ask.start, ask.end)
    <3>1. ask \in WindowAsks
      BY <2>3, KindTells DEF AnswersTheAsk, Answered
    <3>2. ask.start \in 0..LastMonth /\ ask.end \in 0..LastMonth
      BY <3>1 DEF WindowAsks
    <3> QED
      BY <3>2, YearAssumption, WindowsWrapAnyYear
  <2> QED
    BY <2>1, <2>2, <2>3 DEF DaysDecided, WindowsWrap
<1> QED
  BY <1>1, AsksAreAnswered, PTL

(* Every pool in reach answers in one way, and the board is ranked, in     *)
(* every answer.                                                           *)
THEOREM BoardsAnswer == Spec => []BoardAnswered
<1>1. AnswersTheAsk => BoardAnswered
  <2> SUFFICES ASSUME AnswersTheAsk PROVE BoardAnswered
    OBVIOUS
  <2>1. EachPoolOnce
    BY DayIsAsked, EveryPoolAnswersOnce DEF EachPoolOnce
  <2>2. BoardRanked
    BY DayIsAsked, BoardKeepsTheMap DEF BoardRanked
  <2> QED
    BY <2>1, <2>2 DEF BoardAnswered
<1> QED
  BY <1>1, AsksAreAnswered, PTL

(* Nothing is assumed of a visitor, and no silence is charged for, in      *)
(* every answer.                                                           *)
THEOREM VisitorsAreTaken == Spec => []VisitorsTaken
<1>1. AnswersTheAsk => VisitorsTaken
  <2> SUFFICES ASSUME AnswersTheAsk PROVE VisitorsTaken
    OBVIOUS
  <2>1. ASSUME Answered("access") PROVE NothingAssumed(ask.person, ask.access, Ages)
    <3>1. ask \in AccessAsks
      BY <2>1, KindTells DEF AnswersTheAsk, Answered
    <3>2. ask.person \in People(Ages) /\ ask.access \in SessionAccess(Bounds)
      BY <3>1 DEF AccessAsks
    <3> QED
      BY <3>2, VisitorsAssumption, NobodyIsGuessed
  <2>2. ASSUME Answered("price") PROVE NeverUndercharged(ask.entries, Ages)
    <3>1. ask \in PriceAsks
      BY <2>2, KindTells DEF AnswersTheAsk, Answered
    <3>2. ask.entries \in Seq(Band)
      BY <3>1, VisitorsAssumption DEF PriceAsks
    <3> QED
      BY <3>2, VisitorsAssumption, NobodyIsUndercharged
  <2> QED
    BY <2>1, <2>2 DEF VisitorsTaken, PersonsTaken, PricesMonotone
<1> QED
  BY <1>1, AsksAreAnswered, PTL

(* A basin has its own lanes, every plan is somebody's or reported, and no *)
(* basin is without one unsaid, after every lane phase that succeeds.      *)
THEOREM LanesAreKept == Spec => []LanesKept
<1>1. AnswersTheAsk => LanesKept
  <2> SUFFICES ASSUME AnswersTheAsk PROVE LanesKept
    OBVIOUS
  <2>1. LanesOwn
    BY LanesAreAsked, LanesAreOwn DEF LanesOwn
  <2>2. PlansSaid
    BY LanesAreAsked, PlansAreAccountedFor DEF PlansSaid, Keyed
  <2>3. HolesSaid
    BY LanesAreAsked, NoHoleIsSilent DEF HolesSaid
  <2> QED
    BY <2>1, <2>2, <2>3 DEF LanesKept
<1> QED
  BY <1>1, AsksAreAnswered, PTL

(* No kind of pool is missing, each page is read once and accounted for    *)
(* once, drift leaves a trace and shutdowns stay with their pool, in every *)
(* scrape.                                                                 *)
THEOREM ScrapesAreAccounted == Spec => []ScrapeAccounted
<1>1. AnswersTheAsk => ScrapeAccounted
  <2> SUFFICES ASSUME AnswersTheAsk PROVE ScrapeAccounted
    OBVIOUS
  <2>1. RosterWhole
    BY ScrapeIsAsked, RostersAreWhole DEF RosterWhole
  <2>2. PagesOnce
    BY ScrapeIsAsked, PagesAreReadOnce DEF PagesOnce
  <2>3. DriftLeavesTrace
    BY ScrapeIsAsked, DriftIsNoted DEF DriftLeavesTrace
  <2>4. ShutdownsOwn
    BY ScrapeIsAsked, ShutdownsAreOwn DEF ShutdownsOwn
  <2> QED
    BY <2>1, <2>2, <2>3, <2>4 DEF ScrapeAccounted
<1> QED
  BY <1>1, AsksAreAnswered, PTL

(* Rates, rentals, shutdowns and the paddling pools' season are what their *)
(* own rows and sentences say, in every reading of a page.                 *)
THEOREM PagesAreServed == Spec => []PagesServed
<1>1. AnswersTheAsk => PagesServed
  <2> SUFFICES ASSUME AnswersTheAsk PROVE PagesServed
    OBVIOUS
  <2>1. RatesKeptApart
    BY PagesAreAsked, RatesAreOfSections DEF RatesKeptApart
  <2>2. RentalsKept
    BY PagesAreAsked, RowsAreKept DEF RentalsKept
  <2>3. ShutdownsNear
    BY PagesAreAsked, ClosuresAreAnnounced DEF ShutdownsNear
  <2>4. BlurbsApart
    BY PagesAreAsked, BlurbsAreUnread DEF BlurbsApart
  <2> QED
    BY <2>1, <2>2, <2>3, <2>4 DEF PagesServed
<1> QED
  BY <1>1, AsksAreAnswered, PTL

(* Every printed session is served under its offer and its weather, and    *)
(* none of the sauna's, in every reading of a timetable.                   *)
THEOREM TimetablesAreServed == Spec => []TimetablesServed
<1>1. AnswersTheAsk => TimetablesServed
  <2> SUFFICES ASSUME AnswersTheAsk PROVE TimetablesServed
    OBVIOUS
  <2>1. SessionsServed
    BY TimesAreAsked, SessionsAreKept DEF SessionsServed
  <2>2. WeatherKept
    BY TimesAreAsked, WeatherIsSaid DEF WeatherKept
  <2>3. SaunaKeptOut
    BY TimesAreAsked, SaunaIsKeptOut DEF SaunaKeptOut
  <2> QED
    BY <2>1, <2>2, <2>3 DEF TimetablesServed
<1> QED
  BY <1>1, AsksAreAnswered, PTL
=============================================================================
