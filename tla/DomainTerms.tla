----------------------------- MODULE DomainTerms -----------------------------
(***************************************************************************)
(* The words DomainProofs states its lemmas in: what it is for one list to *)
(* be made of another, by the places its elements come from, and what a    *)
(* scrape of pages accounts for.                                           *)
(***************************************************************************)
EXTENDS SwimRequests

-----------------------------------------------------------------------------
(* Lists                                                                   *)

(* Pairs of a key and a place, in their order, and the rank of each.       *)
Precedes(d, e) == d[1] < e[1] \/ (d[1] = e[1] /\ d[2] < e[2])
UpTo(keyed, e) == {d \in keyed : d[1] < e[1] \/ (d[1] = e[1] /\ d[2] <= e[2])}
Ranked(keyed) == {<<Cardinality(UpTo(keyed, e)), e[2]>> : e \in keyed}

(* Places of a sequence, each with its key.                                *)
Keys(n) == {keyed \in SUBSET (Int \X (1..n)) : \A d, e \in keyed : d[2] = e[2] => d = e}

(* What Arranged returns: the places in the order of their keys, those of  *)
(* one key as they stood.                                                  *)
InPlaces(t, s, keyed) ==
  \E at \in [1..Cardinality(keyed) -> keyed] :
    /\ t = [k \in 1..Cardinality(keyed) |-> s[at[k][2]]]
    /\ \A e \in keyed : \E k \in 1..Cardinality(keyed) : at[k] = e
    /\ \A j, k \in 1..Cardinality(keyed) : j < k => Precedes(at[j], at[k])

(* A sequence, of whatever.                                                *)
List(s) == (\E n \in Nat : DOMAIN s = 1..n) /\ s = [k \in DOMAIN s |-> s[k]]

(* u is s and then t.                                                      *)
Joins(u, s, t) ==
  /\ List(u)
  /\ Len(u) = Len(s) + Len(t)
  /\ \A k \in DOMAIN s : k \in DOMAIN u /\ u[k] = s[k]
  /\ \A k \in DOMAIN t : Len(s) + k \in DOMAIN u /\ u[Len(s) + k] = t[k]
  /\ \A k \in DOMAIN u : k \in DOMAIN s \/ \E j \in DOMAIN t : k = Len(s) + j

(* t holds the elements of s at the places in I, in their order.           *)
Keeps(t, s, I) ==
  /\ List(t)
  /\ t = <<>> <=> I = {}
  /\ \E at \in [DOMAIN t -> I] :
       /\ \A k \in DOMAIN t : t[k] = s[at[k]]
       /\ \A i \in I : \E k \in DOMAIN t : at[k] = i
       /\ \A j, k \in DOMAIN t : j < k => at[j] < at[k]

(* t holds the elements of s, the lesser key first and those of one key in *)
(* their order.                                                            *)
Sorts(t, s, key) ==
  /\ List(t)
  /\ DOMAIN t = DOMAIN s
  /\ \E at \in [DOMAIN s -> DOMAIN s] :
       /\ \A k \in DOMAIN s : t[k] = s[at[k]]
       /\ \A i \in DOMAIN s : \E k \in DOMAIN s : at[k] = i
       /\ \A j, k \in DOMAIN s : j < k =>
            key[at[j]] < key[at[k]] \/ (key[at[j]] = key[at[k]] /\ at[j] < at[k])

(* The places of the first m of some sequences.                            *)
Spots(seqs, m) == {p \in Nat \X Nat : p[1] \in 1..m /\ p[2] \in DOMAIN seqs[p[1]]}

(* t holds what stands at these places, each once, in their order.         *)
Before(p, q) == p[1] < q[1] \/ (p[1] = q[1] /\ p[2] < q[2])
Flattens(t, seqs, m) ==
  /\ List(t)
  /\ \E at \in [DOMAIN t -> Spots(seqs, m)] :
       /\ \A k \in DOMAIN t : t[k] = seqs[at[k][1]][at[k][2]]
       /\ \A p \in Spots(seqs, m) : \E k \in DOMAIN t : at[k] = p
       /\ \A j, k \in DOMAIN t : at[j] = at[k] => j = k
       /\ \A j, k \in DOMAIN t : j < k => Before(at[j], at[k])

(* The running concatenations of some sequences.                           *)
Turn(seqs, f, i) == IF i = 1 THEN seqs[i] ELSE f[i - 1] \o seqs[i]
Unrolls(seqs, f, m) == f = [i \in 1..m |-> Turn(seqs, f, i)]

(* t holds each element of s once.                                         *)
Permutes(t, s) ==
  /\ List(t) /\ List(s)
  /\ DOMAIN t = DOMAIN s
  /\ \E at \in [DOMAIN s -> DOMAIN s] :
       /\ \A k \in DOMAIN s : t[k] = s[at[k]]
       /\ \A i \in DOMAIN s : \E k \in DOMAIN s : at[k] = i
       /\ \A j, k \in DOMAIN s : at[j] = at[k] => j = k

(* t holds what s holds, each once.                                        *)
Onces(t, s) ==
  /\ List(t)
  /\ \A k \in DOMAIN t : \E i \in DOMAIN s : t[k] = s[i]
  /\ \A i \in DOMAIN s : \E k \in DOMAIN t : t[k] = s[i]
  /\ \A j, k \in DOMAIN t : t[j] = t[k] => j = k

(* t holds the elements of s at the places in I.                           *)
Matches(t, s, I) ==
  \E at \in Bijection(DOMAIN t, I) : \A k \in DOMAIN t : t[k] = s[at[k]]

(* x stands in t as often as at the places in I of s.                      *)
AsOften(t, s, I, x) ==
  Cardinality({k \in DOMAIN t : t[k] = x}) = Cardinality({i \in I : s[i] = x})

(* t holds the members of S, the lesser first.                             *)
Ascends(t, S) ==
  /\ List(t)
  /\ \A k \in DOMAIN t : t[k] \in S
  /\ \A x \in S : \E k \in DOMAIN t : t[k] = x
  /\ \A j, k \in DOMAIN t : j < k => t[j] < t[k]

(* Every element of t is one of s.                                         *)
DrawnFrom(t, s) == List(t) /\ \A k \in DOMAIN t : \E i \in DOMAIN s : t[k] = s[i]

(* It is all of what stands at these places.                               *)
Draws(t, s, I) ==
  /\ DrawnFrom(t, s)
  /\ \A i \in I : \E k \in DOMAIN t : t[k] = s[i]
  /\ \A k \in DOMAIN t : \E i \in I : t[k] = s[i]

(* The first of each key: no two of one key, and none left out.            *)
FirstOfEach(t, s, key) ==
  /\ List(t)
  /\ \E at \in [DOMAIN t -> DOMAIN s] :
       /\ \A k \in DOMAIN t : t[k] = s[at[k]]
       /\ \A i \in DOMAIN s : \E k \in DOMAIN t : key[at[k]] = key[i]
       /\ \A j, k \in DOMAIN t : key[at[j]] = key[at[k]] => j = k

(* What FirstSeen returns.                                                 *)
FirstPlaces(s, key) == {j \in DOMAIN s : \A k \in 1..(j - 1) : key[k] # key[j]}

(* As many of t are in T as of the places it was matched with.             *)
MembersAlike(t, E, I, T) == Cardinality({k \in DOMAIN t : t[k] \in T}) = Cardinality({i \in I : E[i] \in T})

(* One list of one element, or of none.                                    *)
AtMost(s, e) == \/ List(s) /\ Len(s) = 0 /\ DOMAIN s = {}
                \/ List(s) /\ Len(s) = 1 /\ DOMAIN s = {1} /\ s[1] = e

-----------------------------------------------------------------------------
(* Pages of a roster                                                       *)

(* The pools with a page of their own, and those of a page they share.     *)
OwnPlaces(roster) == {i \in DOMAIN roster : Scrapeable(roster[i]) /\ Seen(roster, roster[i].url) = 1}
OwnRead(roster, pages) == {i \in OwnPlaces(roster) : PageReads(pages[roster[i].url])}
SharedPlaces(roster) == {i \in DOMAIN roster : roster[i].url \in Registered /\ Seen(roster, roster[i].url) > 1}
SharedRead(roster, pages) == {i \in SharedPlaces(roster) : SharedFacts(pages[roster[i].url]).ok}

(* What each is told if its page is read.                                  *)
ToldOf(roster, pages) ==
  [i \in DOMAIN roster |->
     IF i \in OwnPlaces(roster) THEN PageAspectsOf(roster[i], pages[roster[i].url])
     ELSE SharedAspects(roster[i], SharedFacts(pages[roster[i].url]).value)]

(* A scrape of the pages of the pools at I, of which those of R are read.  *)
Accounted(scrape, roster, I, R, told) ==
  /\ List(scrape.extracts) /\ Matches(scrape.extracts, told, R)
  /\ List(scrape.fetched) /\ IsInjective(scrape.fetched)
  /\ Range(scrape.fetched) = {roster[i].url : i \in I}
  /\ List(scrape.failures) /\ IsInjective(scrape.failures)
  /\ Range(scrape.failures) = {roster[i].url : i \in I \ R}

(* The URLs of pools no two of which share one.                            *)
Apart(s, I) == \A i, j \in I : s[i].url = s[j].url => i = j
ListsUrls(urls, s, I) == List(urls) /\ IsInjective(urls) /\ Range(urls) = {s[i].url : i \in I}

(* What a page of its own leaves unsaid of a pool is noted.                *)
OwnNoted(scrape, roster, pages) ==
  \A i \in OwnRead(roster, pages) : NotesOf(roster[i], pages[roster[i].url]) \subseteq scrape.notes

(* The pools that have one of these pages, page by page.                   *)
Having(s, urls) == {i \in DOMAIN s : s[i].url \in Range(urls)}
EachFans(seqs, s, urls, told) ==
  \A a \in DOMAIN urls : List(seqs[a]) /\ Matches(seqs[a], told, {i \in DOMAIN s : s[i].url = urls[a]})

(* A page without its members, and one without an admission, is noted.     *)
SharedNoted(scrape, roster, pages) ==
  /\ \A u \in Registered : Seen(roster, u) < 2 => <<"inert", u>> \in scrape.notes
  /\ \A i \in SharedRead(roster, pages) :
       SharedFacts(pages[roster[i].url]).value.admission = "unknown" =>
         <<"no admission stated", roster[i].url>> \in scrape.notes

(* The places of the pools whose pages a scrape reads, and those it told.  *)
Places(roster) == OwnPlaces(roster) \cup SharedPlaces(roster)
ReadPlaces(roster, pages) == OwnRead(roster, pages) \cup SharedRead(roster, pages)

(* A page is read for all the pools that have it, or for none.             *)
AllOrNone(roster, I) ==
  \A i \in I, j \in DOMAIN roster : roster[j].url = roster[i].url => j \in I

(* A scrape of a roster in full.                                           *)
Scraped(scrape, roster, pages) ==
  /\ Accounted(scrape, roster, Places(roster), ReadPlaces(roster, pages), ToldOf(roster, pages))
  /\ OwnNoted(scrape, roster, pages) /\ SharedNoted(scrape, roster, pages)

(* t has as many of a name as the places it was matched with.              *)
NamedAlike(t, told, I, name) ==
  Cardinality({k \in DOMAIN t : t[k].name = name}) = Cardinality({i \in I : told[i].name = name})
=============================================================================
