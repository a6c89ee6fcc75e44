------------------------- MODULE SilverRefreshProofs -------------------------
(***************************************************************************)
(* The age bounds of SilverRefresh for every number of pages, retry        *)
(* budget, TTL, max_stale and set of cache modes.                          *)
(*                                                                         *)
(* ServedBytesBounded is not inductive: a served document's bytes are      *)
(* bounded because its header is within a cache TTL of them, which holds   *)
(* because a run parses only bytes younger than the cache TTL, which holds *)
(* because the cache answers only with entries that have not expired.      *)
(* IInv is that chain.                                                     *)
(***************************************************************************)
EXTENDS SilverRefresh, TLAPS

EntriesYoung == \A p \in Pages : cache[p].age < CacheTtl

PageInRange == pc = "fetching" => page \in Pages

IInv ==
  /\ TypeOK
  /\ PageInRange
  /\ EntriesYoung
  /\ oldest < CacheTtl
  /\ HeaderWithinCacheTtl
  /\ ServedBytesBounded

(* The verdict is a reason to abort or "keep", and a kept document exists  *)
(* and is at most max_stale old (refresh.py:129-136).                      *)
LEMMA VerdictRange ==
  ASSUME NEW status \in Status, NEW age \in Nat, NEW error, NEW maxStale \in Nat
  PROVE  /\ Verdict(status, age, error, maxStale) \in Reason \cup {"keep"}
         /\ Verdict(status, age, error, maxStale) = "keep"
              => status # "absent" /\ age <= maxStale
BY DEF Verdict, Reason, Status, Transient, Retriable

(* An age that grows stays an age.                                         *)
LEMMA OlderRange ==
  ASSUME NEW age \in Ages
  PROVE  Older(age, AgeCap) \in Ages
BY RefreshAssumption DEF Older, Ages

LEMMA InitIInv == Init => IInv
<1> SUFFICES ASSUME Init PROVE IInv
  OBVIOUS
<1> USE RefreshAssumption DEF Init
<1>1. TypeOK
  <2>1. city \in [Pages -> Answer]
    OBVIOUS
  <2>2. cache \in [Pages -> [answer : Answer \cup {"none"}, age : Ages]]
    BY DEF NoEntry, Ages
  <2>3. silver \in [status : Status, age : Ages, bytes : Ages]
    BY DEF NoSilver, Ages, Status
  <2>4. outcome \in [kind : Served \cup Reason \cup {"none", "killed"}, age : Ages, bytes : Ages]
    BY DEF NoOutcome, Ages
  <2>5. failures \in [Pages -> Answer \cup {"none"}] /\ oldest \in Ages
    BY DEF Ages, NoFailures
  <2>6. page \in 1..(NPages + 1) /\ attempt \in 1..MaxAttempts /\ crashes \in 0..MaxCrashes
    OBVIOUS
  <2> QED
    BY <2>1, <2>2, <2>3, <2>4, <2>5, <2>6 DEF TypeOK
<1>2. EntriesYoung
  BY DEF EntriesYoung, NoEntry
<1>3. PageInRange /\ HeaderWithinCacheTtl /\ ServedBytesBounded
  BY DEF PageInRange, HeaderWithinCacheTtl, ServedBytesBounded, NoSilver, NoOutcome, Served
<1> QED
  BY <1>1, <1>2, <1>3 DEF IInv

(* What Take may do to the run's own variables.                            *)
LEMMA TakeRange ==
  ASSUME TypeOK, oldest < CacheTtl, pc = "fetching", page \in Pages,
         NEW a \in Answer, NEW age \in Ages, age < CacheTtl, Take(a, age)
  PROVE  /\ pc' \in {"fetching", "settling"}
         /\ mode' = mode
         /\ page' \in 1..(NPages + 1)
         /\ attempt' \in 1..MaxAttempts
         /\ failures' \in [Pages -> Answer \cup {"none"}]
         /\ oldest' \in Ages
         /\ oldest' < CacheTtl
         /\ pc' = "fetching" => page' \in Pages
<1> USE RefreshAssumption DEF TypeOK, Pages, Ages
<1>1. CASE Retriable(a) /\ attempt < MaxAttempts
  BY <1>1 DEF Take
<1>2. CASE ~(Retriable(a) /\ attempt < MaxAttempts)
  <2>1. failures' \in [Pages -> Answer \cup {"none"}]
    BY <1>2 DEF Take
  <2>2. /\ pc' \in {"fetching", "settling"} /\ mode' = mode
        /\ page' \in 1..(NPages + 1) /\ (pc' = "fetching" => page' \in Pages)
        /\ attempt' \in 1..MaxAttempts
    BY <1>2 DEF Take
  <2>3. oldest' \in Ages /\ oldest' < CacheTtl
    BY <1>2 DEF Take
  <2> QED
    BY <2>1, <2>2, <2>3
<1> QED
  BY <1>1, <1>2

(* What the end of a process leaves of its own variables.                  *)
LEMMA GoneRange ==
  ASSUME Gone
  PROVE  /\ pc' = "idle" /\ mode' = "use" /\ back' = FALSE
         /\ page' \in 1..(NPages + 1) /\ attempt' \in 1..MaxAttempts
         /\ failures' \in [Pages -> Answer \cup {"none"}]
         /\ oldest' \in Ages /\ oldest' < CacheTtl
BY RefreshAssumption DEF Gone, NoFailures, Ages

(* A settled run: the document and the outcome it leaves.                  *)
LEMMA SettleIInv ==
  ASSUME IInv, NEW doc \in [status : Status, age : Ages, bytes : Ages],
         NEW kind \in Served \cup Reason, Settle(doc, kind),
         doc.status # "absent" => doc.bytes < doc.age + CacheTtl,
         kind \in Served => doc.age <= MaxStale /\ doc.bytes < MaxStale + CacheTtl
  PROVE  IInv'
<1> USE DEF IInv, Settle
<1>1. TypeOK'
  <2>1. outcome' \in [kind : Served \cup Reason \cup {"none", "killed"}, age : Ages, bytes : Ages]
    BY DEF Ended
  <2> QED
    BY <2>1, GoneRange DEF TypeOK
<1>2. EntriesYoung' /\ PageInRange' /\ (oldest < CacheTtl)'
  BY GoneRange DEF EntriesYoung, PageInRange
<1>3. HeaderWithinCacheTtl' /\ ServedBytesBounded'
  BY DEF HeaderWithinCacheTtl, ServedBytesBounded, Ended
<1> QED
  BY <1>1, <1>2, <1>3

LEMMA NextIInv == IInv /\ [Next]_vars => IInv'
<1> SUFFICES ASSUME IInv, [Next]_vars PROVE IInv'
  OBVIOUS
<1> USE RefreshAssumption
<1>1. ASSUME NEW p \in Pages, NEW a \in CityAnswers, CityChanges(p, a)
      PROVE  IInv'
  BY <1>1 DEF IInv, TypeOK, CityChanges, runVars, PageInRange, EntriesYoung,
              HeaderWithinCacheTtl, ServedBytesBounded
<1>2. CASE Tick
  <2> USE <1>2 DEF IInv, Tick, runVars
  <2>1. cache' \in [Pages -> [answer : Answer \cup {"none"}, age : Ages]] /\ EntriesYoung'
    BY DEF TypeOK, EntriesYoung, AgedEntry, NoEntry, Ages
  <2>2. silver' \in [status : Status, age : Ages, bytes : Ages]
    BY OlderRange DEF TypeOK, AgedSilver
  <2>3. HeaderWithinCacheTtl'
    <3>1. CASE silver.status = "absent"
      BY <3>1 DEF AgedSilver, HeaderWithinCacheTtl
    <3>2. CASE silver.status # "absent"
      <4>1. silver' = [silver EXCEPT !.age = Older(silver.age, AgeCap),
                                     !.bytes = Older(silver.bytes, AgeCap)]
        BY <3>2 DEF AgedSilver
      <4>2. silver'.age = Older(silver.age, AgeCap) /\ silver'.bytes = Older(silver.bytes, AgeCap)
        BY <4>1 DEF TypeOK
      <4>3. silver.bytes < silver.age + CacheTtl /\ silver.age \in Ages /\ silver.bytes \in Ages
        BY <3>2 DEF TypeOK, HeaderWithinCacheTtl
      <4>4. Older(silver.bytes, AgeCap) < Older(silver.age, AgeCap) + CacheTtl
        BY <4>3 DEF Older, Ages
      <4> QED
        BY <4>2, <4>4 DEF HeaderWithinCacheTtl
    <3> QED
      BY <3>1, <3>2
  <2>4. PageInRange' /\ (oldest < CacheTtl)' /\ ServedBytesBounded'
    BY DEF PageInRange, ServedBytesBounded
  <2> QED
    BY <2>1, <2>2, <2>3, <2>4 DEF TypeOK
<1>3. ASSUME NEW force \in BOOLEAN, Reuse(force)
      PROVE  IInv'
  <2> USE <1>3 DEF IInv, Reuse, runVars
  <2>1. silver.status # "absent" /\ silver.age < Ttl
    BY DEF Due, TypeOK, Status, Ages
  <2>2. TypeOK'
    BY DEF TypeOK, Ended, Served
  <2>3. ServedBytesBounded'
    BY <2>1 DEF TypeOK, Ages, ServedBytesBounded, HeaderWithinCacheTtl, Ended
  <2> QED
    BY <2>2, <2>3 DEF PageInRange, EntriesYoung, HeaderWithinCacheTtl
<1>4. ASSUME NEW force \in BOOLEAN, NEW m \in Modes, StartFetch(force, m)
      PROVE  IInv'
  <2> USE <1>4 DEF IInv, StartFetch
  <2>1. TypeOK' /\ PageInRange'
    BY DEF TypeOK, PageInRange, Pages, Ages, NoFailures, NoOutcome
  <2> QED
    BY <2>1 DEF EntriesYoung, HeaderWithinCacheTtl, ServedBytesBounded, NoOutcome, Served
<1>5. CASE CacheHit
  <2> USE <1>5 DEF IInv, CacheHit
  <2>1. /\ cache[page].answer \in Answer /\ cache[page].age \in Ages
        /\ cache[page].age < CacheTtl /\ page \in Pages
    BY DEF TypeOK, PageInRange, EntriesYoung
  <2>2. /\ pc' \in {"fetching", "settling"} /\ mode' = mode /\ page' \in 1..(NPages + 1)
        /\ attempt' \in 1..MaxAttempts /\ failures' \in [Pages -> Answer \cup {"none"}]
        /\ oldest' \in Ages /\ oldest' < CacheTtl /\ (pc' = "fetching" => page' \in Pages)
    BY <2>1, TakeRange
  <2> QED
    BY <2>2 DEF TypeOK, PageInRange, EntriesYoung, HeaderWithinCacheTtl, ServedBytesBounded
<1>6. ASSUME NEW stored \in BOOLEAN, Ask(stored)
      PROVE  IInv'
  <2> USE <1>6 DEF IInv, Ask
  <2>1. city[page] \in Answer /\ page \in Pages /\ 0 \in Ages /\ 0 < CacheTtl
    BY DEF TypeOK, PageInRange, Ages
  <2>2. /\ pc' \in {"fetching", "settling"} /\ mode' = mode /\ page' \in 1..(NPages + 1)
        /\ attempt' \in 1..MaxAttempts /\ failures' \in [Pages -> Answer \cup {"none"}]
        /\ oldest' \in Ages /\ oldest' < CacheTtl /\ (pc' = "fetching" => page' \in Pages)
    BY <2>1, TakeRange
  <2>3. cache' \in [Pages -> [answer : Answer \cup {"none"}, age : Ages]] /\ EntriesYoung'
    BY <2>1 DEF TypeOK, EntriesYoung
  <2> QED
    BY <2>2, <2>3 DEF TypeOK, PageInRange, HeaderWithinCacheTtl, ServedBytesBounded
<1>7. CASE WriteFresh
  BY <1>7, SettleIInv DEF WriteFresh, IInv, TypeOK, Status, Served, Ages
<1>8. CASE MarkStale
  <2> DEFINE doc == [silver EXCEPT !.status = "stale"]
  <2>1. silver.status # "absent" /\ silver.age <= MaxStale
    BY <1>8, VerdictRange DEF MarkStale, IInv, TypeOK, Ages
  <2>2. doc \in [status : Status, age : Ages, bytes : Ages]
        /\ doc.age = silver.age /\ doc.bytes = silver.bytes
    BY DEF IInv, TypeOK, Status
  <2>3. silver.bytes < silver.age + CacheTtl /\ silver.age \in Nat /\ silver.bytes \in Nat
    BY <2>1 DEF IInv, TypeOK, HeaderWithinCacheTtl, Ages
  <2>4. doc.age <= MaxStale /\ doc.bytes < doc.age + CacheTtl /\ doc.bytes < MaxStale + CacheTtl
    BY <2>1, <2>2, <2>3
  <2>5. Settle(doc, "kept")
    BY <1>8 DEF MarkStale
  <2> QED
    BY <2>2, <2>4, <2>5, SettleIInv DEF Served
<1>9. CASE Fail
  <2> DEFINE verdict == Verdict(silver.status, silver.age, FirstFailure, MaxStale)
  <2>1. verdict \in Reason /\ Settle(silver, verdict)
    BY <1>9, VerdictRange DEF Fail, IInv, TypeOK, Ages
  <2>2. verdict \notin Served
    BY <2>1 DEF Reason, Served
  <2> HIDE DEF verdict
  <2> QED
    BY <2>1, <2>2, SettleIInv DEF IInv, TypeOK, HeaderWithinCacheTtl
<1>10. CASE Killed
  <2> USE <1>10 DEF Killed, IInv
  <2>1. TypeOK'
    <3>1. outcome' \in [kind : Served \cup Reason \cup {"none", "killed"}, age : Ages, bytes : Ages]
      BY DEF Ended, TypeOK
    <3>2. crashes' \in 0..MaxCrashes
      BY DEF TypeOK
    <3> QED
      BY <3>1, <3>2, GoneRange DEF TypeOK
  <2>2. PageInRange' /\ EntriesYoung' /\ (oldest < CacheTtl)' /\ HeaderWithinCacheTtl'
    BY GoneRange DEF PageInRange, EntriesYoung, HeaderWithinCacheTtl
  <2>3. ServedBytesBounded'
    BY DEF ServedBytesBounded, Ended, Served
  <2> QED
    BY <2>1, <2>2, <2>3
<1>11. CASE UNCHANGED vars
  BY <1>11 DEF IInv, TypeOK, vars, runVars, PageInRange, EntriesYoung,
               HeaderWithinCacheTtl, ServedBytesBounded
<1> QED
  BY <1>1, <1>2, <1>3, <1>4, <1>5, <1>6, <1>7, <1>8, <1>9, <1>10, <1>11 DEF Next, Run

(* Every behaviour keeps the chain of age bounds.                          *)
THEOREM SpecIInv == Spec => []IInv
BY InitIInv, NextIInv, PTL DEF Spec

(* The variables keep their types, for every configuration of the source.  *)
THEOREM TypeCorrect == Spec => []TypeOK
<1>1. IInv => TypeOK
  BY DEF IInv
<1> QED
  BY <1>1, SpecIInv, PTL

(* Whatever the runs, kills, cache modes, lost cache writes and outages: a *)
(* run serves facts at most max_stale old by their header and less than    *)
(* max_stale plus one cache TTL old in truth (refresh.py:115-136).         *)
THEOREM BoundedStaleness == Spec => []ServedBytesBounded
<1>1. IInv => ServedBytesBounded
  BY DEF IInv
<1> QED
  BY <1>1, SpecIInv, PTL

(* A document's header is never wrong by a cache TTL or more (lake.py).    *)
THEOREM HonestHeader == Spec => []HeaderWithinCacheTtl
<1>1. IInv => HeaderWithinCacheTtl
  BY DEF IInv
<1> QED
  BY <1>1, SpecIInv, PTL
------------------------------------------------------------------------------
(* A payload and the cache it came through.  While every good answer has   *)
(* reached the cache, no entry is older than the document's bytes, nor is  *)
(* one that a run has used older than the oldest byte it has parsed; so    *)
(* what a later run parses is never older than what the lake holds.        *)
EntriesBehindPayload ==
  silver.status # "absent" =>
    /\ \A p \in Pages : cache[p].age <= silver.bytes
    /\ oldest <= silver.bytes

EntriesBehindRun ==
  pc # "idle" => \A p \in Pages : p < page /\ failures[p] = "none" => cache[p].age <= oldest

AllAsked == pc = "settling" => page = NPages + 1

PayloadInv == AllAsked /\ (~bypassed => EntriesBehindPayload /\ EntriesBehindRun)

(* One answer taken: an error, or bytes that count towards the oldest.     *)
LEMMA TakeAges ==
  ASSUME IInv, pc = "fetching", NEW a \in Answer, NEW age \in Ages, Take(a, age)
  PROVE  /\ oldest' \in {oldest, age} /\ oldest <= oldest'
         /\ \A p \in Pages : p < page' /\ failures'[p] = "none" =>
              (p < page /\ failures[p] = "none") \/ (p = page /\ a = "ok" /\ age <= oldest')
         /\ pc' = "settling" => page' = NPages + 1
<1> USE DEF IInv, TypeOK, PageInRange, Pages, Ages
<1>1. CASE Retriable(a) /\ attempt < MaxAttempts
  BY <1>1 DEF Take
<1>2. CASE ~(Retriable(a) /\ attempt < MaxAttempts)
  <2>1. /\ page' = page + 1 /\ pc' = IF page = NPages THEN "settling" ELSE "fetching"
        /\ failures' = [failures EXCEPT ![page] = IF a = "ok" THEN "none" ELSE a]
        /\ oldest' = IF a = "ok" /\ age > oldest THEN age ELSE oldest
    BY <1>2 DEF Take
  <2>2. oldest' \in {oldest, age} /\ oldest <= oldest' /\ (a = "ok" => age <= oldest')
    BY <2>1
  <2>3. ASSUME NEW p \in Pages, p < page', failures'[p] = "none"
        PROVE  (p < page /\ failures[p] = "none") \/ (p = page /\ a = "ok" /\ age <= oldest')
    <3>1. CASE p = page
      <4>1. a = "ok"
        BY <2>1, <2>3, <3>1 DEF Answer
      <4> QED
        BY <2>2, <3>1, <4>1
    <3>2. CASE p # page
      BY <2>1, <2>3, <3>2
    <3> QED
      BY <3>1, <3>2
  <2> QED
    BY <2>1, <2>2, <2>3, RefreshAssumption
<1> QED
  BY <1>1, <1>2

LEMMA NextPayloadInv == IInv /\ PayloadInv /\ [Next]_vars => PayloadInv'
<1> SUFFICES ASSUME IInv, PayloadInv, [Next]_vars PROVE PayloadInv'
  OBVIOUS
<1> USE RefreshAssumption DEF PayloadInv
<1>1. CASE CacheHit
  <2>1. /\ cache[page].answer \in Answer /\ cache[page].age \in Ages /\ page \in Pages
        /\ UNCHANGED <<cache, silver, bypassed>>
    BY <1>1 DEF CacheHit, IInv, TypeOK, PageInRange
  <2>2. /\ oldest' \in {oldest, cache[page].age} /\ oldest <= oldest'
        /\ \A p \in Pages : p < page' /\ failures'[p] = "none" =>
             (p < page /\ failures[p] = "none") \/ (p = page /\ cache[page].age <= oldest')
        /\ pc' = "settling" => page' = NPages + 1
    BY <1>1, <2>1, TakeAges DEF CacheHit
  <2>3. ASSUME ~bypassed PROVE EntriesBehindPayload'
    BY <2>1, <2>2, <2>3 DEF EntriesBehindPayload
  <2>4. ASSUME ~bypassed PROVE EntriesBehindRun'
    <3> SUFFICES ASSUME NEW p \in Pages, p < page', failures'[p] = "none" PROVE cache[p].age <= oldest'
      BY <2>1 DEF EntriesBehindRun
    <3>1. CASE p = page
      BY <2>2, <3>1, RefreshAssumption DEF Pages
    <3>2. CASE p < page /\ failures[p] = "none"
      <4>1. cache[p].age <= oldest /\ cache[p].age \in Nat /\ oldest \in Nat /\ oldest' \in Nat
        BY <1>1, <2>1, <2>2, <2>4, <3>2 DEF EntriesBehindRun, CacheHit, IInv, TypeOK, Ages
      <4> QED
        BY <2>2, <4>1
    <3> QED
      BY <2>2, <3>1, <3>2
  <2> QED
    BY <2>1, <2>2, <2>3, <2>4 DEF AllAsked
<1>2. ASSUME NEW stored \in BOOLEAN, Ask(stored) PROVE PayloadInv'
  <2>1. /\ city[page] \in Answer /\ 0 \in Ages /\ page \in Pages /\ UNCHANGED silver
        /\ ~bypassed' => ~bypassed
    BY <1>2 DEF Ask, IInv, TypeOK, PageInRange, Ages
  <2>2. /\ oldest' \in {oldest, 0} /\ oldest <= oldest'
        /\ \A p \in Pages : p < page' /\ failures'[p] = "none" =>
             (p < page /\ failures[p] = "none") \/ (p = page /\ city[page] = "ok" /\ 0 <= oldest')
        /\ pc' = "settling" => page' = NPages + 1
    BY <1>2, <2>1, TakeAges DEF Ask
  <2>3. oldest \in Nat /\ oldest' = oldest
    BY <2>2 DEF IInv, TypeOK, Ages
  <2>4. \A p \in Pages : cache'[p] = cache[p] \/ (p = page /\ cache'[p].age = 0)
    BY <1>2, <2>1 DEF Ask, IInv, TypeOK
  <2>5. ~bypassed' /\ city[page] = "ok" => cache'[page].age = 0
    BY <1>2, <2>1 DEF Ask, IInv, TypeOK
  <2>6. ASSUME ~bypassed' PROVE EntriesBehindPayload'
    BY <2>1, <2>3, <2>4, <2>6 DEF EntriesBehindPayload, IInv, TypeOK, Ages
  <2>7. ASSUME ~bypassed' PROVE EntriesBehindRun'
    <3> SUFFICES ASSUME NEW p \in Pages, p < page', failures'[p] = "none" PROVE cache'[p].age <= oldest'
      BY DEF EntriesBehindRun
    <3>1. CASE p = page /\ city[page] = "ok"
      BY <2>3, <2>5, <2>7, <3>1
    <3>2. CASE p < page /\ failures[p] = "none"
      <4>1. cache[p].age <= oldest
        BY <1>2, <2>1, <2>7, <3>2 DEF EntriesBehindRun, Ask
      <4>2. p # page
        BY <2>1, <3>2 DEF Pages
      <4> QED
        BY <2>3, <2>4, <4>1, <4>2
    <3> QED
      BY <2>2, <3>1, <3>2
  <2> QED
    BY <2>2, <2>6, <2>7 DEF AllAsked
<1>3. CASE WriteFresh
  <2>1. page = NPages + 1 /\ \A p \in Pages : p < page /\ failures[p] = "none"
    BY <1>3 DEF WriteFresh, Failed, AllAsked, Pages
  <2>2. /\ silver' = [status |-> "fresh", age |-> 0, bytes |-> oldest]
        /\ oldest' = 0 /\ pc' = "idle" /\ UNCHANGED <<cache, bypassed>>
    BY <1>3 DEF WriteFresh, Settle, Gone
  <2>3. ~bypassed => \A p \in Pages : cache[p].age <= oldest
    BY <1>3, <2>1 DEF EntriesBehindRun, WriteFresh
  <2>4. oldest \in Nat
    BY DEF IInv, TypeOK, Ages
  <2> QED
    BY <2>2, <2>3, <2>4 DEF AllAsked, EntriesBehindPayload, EntriesBehindRun
<1>4. CASE MarkStale \/ Fail \/ Killed
  <2>1. /\ silver'.bytes = silver.bytes /\ (silver'.status # "absent" => silver.status # "absent")
        /\ oldest' = 0 /\ pc' = "idle" /\ UNCHANGED <<cache, bypassed>>
    BY <1>4, VerdictRange DEF MarkStale, Fail, Killed, Settle, Gone, IInv, TypeOK, Ages
  <2>2. silver.bytes \in Nat
    BY DEF IInv, TypeOK, Ages
  <2> QED
    BY <2>1, <2>2 DEF AllAsked, EntriesBehindPayload, EntriesBehindRun
<1>5. ASSUME NEW force \in BOOLEAN, Reuse(force) PROVE PayloadInv'
  BY <1>5 DEF Reuse, runVars, AllAsked, EntriesBehindPayload, EntriesBehindRun
<1>6. ASSUME NEW force \in BOOLEAN, NEW m \in Modes, StartFetch(force, m) PROVE PayloadInv'
  <2>1. silver.bytes \in Nat
    BY DEF IInv, TypeOK, Ages
  <2> QED
    BY <1>6, <2>1 DEF StartFetch, AllAsked, EntriesBehindPayload, EntriesBehindRun, Pages
<1>7. CASE Tick
  <2>1. AllAsked' /\ EntriesBehindRun' /\ UNCHANGED bypassed
    BY <1>7 DEF Tick, runVars, AllAsked, EntriesBehindRun
  <2>2. ASSUME ~bypassed, silver'.status # "absent"
        PROVE  (\A p \in Pages : cache'[p].age <= silver'.bytes) /\ oldest' <= silver'.bytes
    <3>1. silver.status # "absent" /\ silver'.bytes = Older(silver.bytes, AgeCap)
      BY <1>7, <2>2 DEF Tick, AgedSilver, IInv, TypeOK
    <3>2. silver.bytes \in Ages /\ oldest \in Ages /\ oldest <= silver.bytes /\ oldest' = oldest
      BY <1>7, <2>2, <3>1 DEF Tick, runVars, IInv, TypeOK, EntriesBehindPayload
    <3>3. ASSUME NEW p \in Pages PROVE cache'[p].age <= silver'.bytes
      <4>1. cache[p].age \in Ages /\ cache[p].age <= silver.bytes
        BY <2>2, <3>1 DEF IInv, TypeOK, EntriesBehindPayload
      <4>2. cache'[p].age = 0 \/ (cache'[p].age = cache[p].age + 1 /\ cache[p].age + 1 < CacheTtl)
        BY <1>7, <4>1 DEF Tick, AgedEntry, NoEntry, IInv, TypeOK, Ages
      <4> QED
        BY <3>1, <3>2, <4>1, <4>2 DEF Older, Ages
    <3> QED
      BY <3>1, <3>2, <3>3 DEF Older, Ages
  <2> QED
    BY <2>1, <2>2 DEF EntriesBehindPayload
<1>8. ASSUME NEW p \in Pages, NEW a \in CityAnswers, CityChanges(p, a) PROVE PayloadInv'
  BY <1>8 DEF CityChanges, runVars, AllAsked, EntriesBehindPayload, EntriesBehindRun
<1>9. CASE UNCHANGED vars
  BY <1>9 DEF vars, runVars, AllAsked, EntriesBehindPayload, EntriesBehindRun
<1> QED
  BY <1>1, <1>2, <1>3, <1>4, <1>5, <1>6, <1>7, <1>8, <1>9 DEF Next, Run

(* As long as every good answer has reached the cache, no run, forced or   *)
(* replayed, puts older bytes where newer ones were (httpcache.py:350).    *)
THEOREM PayloadForward == Spec => PayloadNeverGoesBack
<1>1. Init => PayloadInv
  BY DEF Init, NoSilver, PayloadInv, AllAsked, EntriesBehindPayload, EntriesBehindRun
<1>2. IInv /\ PayloadInv /\ [Next]_vars
        => [pc = "settling" /\ silver.status # "absent" /\ ~bypassed
              => silver'.bytes <= silver.bytes]_vars
  <2> SUFFICES ASSUME IInv, PayloadInv, Next, pc = "settling", silver.status # "absent", ~bypassed
               PROVE  silver'.bytes <= silver.bytes
    OBVIOUS
  <2>1. silver.bytes \in Nat /\ oldest <= silver.bytes
    BY DEF IInv, TypeOK, Ages, PayloadInv, EntriesBehindPayload
  <2>2. CASE WriteFresh
    BY <2>1, <2>2 DEF WriteFresh, Settle
  <2>3. CASE MarkStale
    BY <2>1, <2>3 DEF MarkStale, Settle, IInv, TypeOK
  <2>4. CASE UNCHANGED silver
    BY <2>1, <2>4
  <2> QED
    BY <2>2, <2>3, <2>4 DEF Next, Run, Reuse, StartFetch, CacheHit, Ask, Fail, Settle, Killed, Tick, CityChanges
<1> QED
  BY <1>1, <1>2, NextPayloadInv, SpecIInv, PTL DEF Spec, PayloadNeverGoesBack

------------------------------------------------------------------------------
(* A failed, kept or killed run neither empties the lake nor touches the   *)
(* payload or its age (lake.py:166).                                       *)
THEOREM NothingLost == Spec => FailureKeepsPayload
<1>1. IInv /\ [Next]_vars
        => [pc # "idle" /\ pc' = "idle" /\ outcome'.kind # "fetched"
              => /\ silver'.bytes = silver.bytes /\ silver'.age = silver.age
                 /\ silver'.status = "absent" => silver.status = "absent"]_vars
  <2> SUFFICES ASSUME IInv, Next, pc # "idle", pc' = "idle", outcome'.kind # "fetched"
               PROVE  /\ silver'.bytes = silver.bytes /\ silver'.age = silver.age
                      /\ silver'.status = "absent" => silver.status = "absent"
    OBVIOUS
  <2>1. CASE MarkStale
    BY <2>1 DEF MarkStale, Settle, IInv, TypeOK
  <2>2. ~WriteFresh
    BY DEF WriteFresh, Settle, Ended
  <2> QED
    BY <2>1, <2>2 DEF Next, Run, Reuse, StartFetch, CacheHit, Ask, Fail, Settle, Killed, Tick, CityChanges
<1> QED
  BY <1>1, SpecIInv, PTL DEF Spec, FailureKeepsPayload

(* A run past the cache that every page would have answered has no failure *)
(* to its name.                                                            *)
BackInv ==
  /\ back => \A p \in Pages : city[p] = "ok"
  /\ back /\ mode # "use" => ~Failed

LEMMA NextBackInv == IInv /\ BackInv /\ [Next]_vars => BackInv'
<1> SUFFICES ASSUME IInv, BackInv, [Next]_vars PROVE BackInv'
  OBVIOUS
<1> USE DEF BackInv
<1>1. CASE CacheHit
  <2>1. mode' = mode /\ mode = "use" /\ UNCHANGED <<city, back>>
    BY <1>1 DEF CacheHit, Take
  <2> QED
    BY <2>1
<1>2. ASSUME NEW stored \in BOOLEAN, Ask(stored) PROVE BackInv'
  <2>1. page \in Pages /\ mode' = mode /\ UNCHANGED <<city, back>>
    BY <1>2 DEF Ask, Take, IInv, PageInRange
  <2>2. ASSUME back, ~Failed PROVE ~Failed'
    <3>1. city[page] = "ok" /\ ~Retriable("ok")
      BY <2>1, <2>2 DEF Retriable
    <3>2. failures' = [failures EXCEPT ![page] = "none"]
      BY <1>2, <3>1 DEF Ask, Take
    <3> QED
      BY <2>2, <3>2 DEF Failed, IInv, TypeOK
  <2> QED
    BY <2>1, <2>2
<1>3. ASSUME NEW force \in BOOLEAN, NEW m \in Modes, StartFetch(force, m) PROVE BackInv'
  BY <1>3 DEF StartFetch, Failed, NoFailures
<1>4. ASSUME NEW p \in Pages, NEW a \in CityAnswers, CityChanges(p, a) PROVE BackInv'
  BY <1>4 DEF CityChanges, runVars, Failed, IInv, TypeOK
<1>5. CASE WriteFresh \/ MarkStale \/ Fail \/ Killed
  BY <1>5 DEF WriteFresh, MarkStale, Fail, Killed, Settle, Gone
<1>6. CASE Tick \/ (\E force \in BOOLEAN : Reuse(force)) \/ UNCHANGED vars
  BY <1>6 DEF Tick, Reuse, vars, runVars, Failed
<1> QED
  BY <1>1, <1>2, <1>3, <1>4, <1>5, <1>6 DEF Next, Run

(* A stale keep of a run past the cache means that some page really was    *)
(* down during it, through retries and failing pages (refresh.py:116).     *)
THEOREM UncachedHeals == Spec => HealsUncached
<1>1. Init => BackInv
  BY DEF Init, BackInv
<1>2. BackInv /\ [Next]_vars => [MarkStale => ~back \/ mode = "use"]_vars
  BY DEF BackInv, MarkStale
<1> QED
  BY <1>1, <1>2, NextBackInv, SpecIInv, PTL DEF Spec, HealsUncached

------------------------------------------------------------------------------
(* The source's document as the ledger sees it.                            *)
Doc == [status |-> silver.status, age |-> silver.age]

(* One run, over cache, retries, kills and failing pages, is one step of   *)
(* the lake's promise or none (refresh.py:100-143).                        *)
THEOREM RefreshKeepsLedger == Spec => LedgerKept
<1>1. Init => Ledger!LedgerInit
  BY DEF Init, NoSilver, Ledger!LedgerInit, Ledger!Unfetched
<1>2. IInv /\ [Next]_vars => [Ledger!LedgerNext]_[s \in {"source"} |-> [status |-> silver.status, age |-> silver.age]]
  <2> SUFFICES ASSUME IInv, [Next]_vars, Doc' # Doc PROVE Ledger!LedgerNext
    BY DEF Doc
  <2>1. silver.status \in Status /\ silver.age \in Nat
    BY DEF IInv, TypeOK, Ages
  <2>2. CASE Tick
    <3>1. Doc' = IF silver.status = "absent" THEN Doc
                 ELSE [status |-> silver.status, age |-> Older(silver.age, AgeCap)]
      BY <2>2 DEF Tick, AgedSilver, Doc, IInv, TypeOK
    <3>2. Ledger!GrowOlder
      BY <3>1 DEF Ledger!GrowOlder, Ledger!Grown, Ledger!Older, Older, Doc
    <3> QED
      BY <3>2 DEF Ledger!LedgerNext
  <2>3. CASE WriteFresh
    <3>1. Doc' = [status |-> "fresh", age |-> 0]
      BY <2>3 DEF WriteFresh, Settle, Doc
    <3>2. Ledger!Renew("source")
      BY <3>1 DEF Ledger!Renew, Doc
    <3> QED
      BY <3>2 DEF Ledger!LedgerNext
  <2>4. CASE MarkStale
    <3>1. silver.status # "absent" /\ silver.age <= MaxStale
      BY <2>1, <2>4, VerdictRange, RefreshAssumption DEF MarkStale
    <3>2. Doc' = [status |-> "stale", age |-> silver.age]
      BY <2>4 DEF MarkStale, Settle, Doc, IInv, TypeOK
    <3>3. Ledger!Keep("source")
      BY <3>1, <3>2 DEF Ledger!Keep, Doc
    <3> QED
      BY <3>3 DEF Ledger!LedgerNext
  <2>5. CASE UNCHANGED silver
    BY <2>5 DEF Doc
  <2> QED
    BY <2>2, <2>3, <2>4, <2>5 DEF Next, Run, Reuse, StartFetch, CacheHit, Ask, Fail, Settle, Killed, CityChanges, vars
<1> QED
  BY <1>1, <1>2, SpecIInv, PTL DEF Spec, LedgerKept, Ledger!LedgerSpec
==============================================================================
