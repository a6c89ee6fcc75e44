-------------------------- MODULE BaditickerProofs --------------------------
(***************************************************************************)
(* Proofs about Baditicker, for any threads, baths, answers of the feed,   *)
(* TTL and longest fetch.                                                  *)
(*                                                                         *)
(* The two fields are written one after the other, so that the readings of *)
(* one thread may stand under the stamp of another.  What bounds how far   *)
(* the two can differ is that a thread that still has to stamp has fetched *)
(* within Patience, and so has whoever stored beside it.                   *)
(***************************************************************************)
EXTENDS Baditicker, SequenceTheorems, WellFoundedInduction, TLAPS

(* A thread's clock runs while it fetches and until it has stamped.        *)
Busy == {"fetching", "storing", "stamping"}
Clocks ==
  /\ now \in [Threads -> 0..Patience]
  /\ \A t \in Threads : pc[t] \notin Busy => now[t] = 0

(* What is about to be stored is as old as its request, what stands        *)
(* unstamped no older than a fetch.                                        *)
Storing ==
  /\ \A t \in Threads : pc[t] = "storing" => local[t].age = now[t]
  /\ \A t \in Threads : pc[t] = "stamping" => cached.age <= Patience

Aged(snapshot) == "age" \in DOMAIN snapshot /\ snapshot.age \in Nat
Shapes ==
  /\ pc \in [Threads -> {"idle", "clocked", "loaded"} \cup Busy]
  /\ DOMAIN local = Threads /\ DOMAIN told = Threads
  /\ Aged(cached) /\ \A t \in Threads : Aged(local[t])
  /\ cachedAt \in {Never} \cup 0..AgeCap

IInv == Shapes /\ Clocks /\ Storing /\ StampTellsAge

(* The numbers compared.                                                   *)
LEMMA Numbers == Ttl \in Nat /\ Ttl >= 1 /\ Patience \in Nat /\ AgeCap \in Nat /\ AgeCap = Ttl + Patience
  BY BaditickerAssumption DEF AgeCap

(* Time adds at most one to an age, and none to one that is at its bound.  *)
LEMMA Ages ==
  ASSUME NEW age \in Nat, NEW cap \in Nat
  PROVE  Older(age, cap) \in Nat /\ Older(age, cap) <= age + 1 /\ (age < cap => Older(age, cap) = age + 1)
  BY DEF Older

(* The end of an answer, as far as the clocks go.                          *)
LEMMA Tells ==
  ASSUME IInv, NEW t \in Threads, NEW code, NEW reading, NEW of, NEW age,
         Tell(t, code, reading, of, age)
  PROVE  /\ pc' = [pc EXCEPT ![t] = "idle"]
         /\ now' = [now EXCEPT ![t] = 0]
         /\ DOMAIN local' = Threads /\ DOMAIN told' = Threads
         /\ local'[t] = Empty /\ \A u \in Threads \ {t} : local'[u] = local[u]
         /\ told'[t].age = age
  BY DEF Tell, At, IInv, Shapes

LEMMA Answers ==
  ASSUME IInv, NEW t \in Threads, NEW snapshot, Answer(t, snapshot)
  PROVE  /\ pc' = [pc EXCEPT ![t] = "idle"]
         /\ now' = [now EXCEPT ![t] = 0]
         /\ DOMAIN local' = Threads /\ DOMAIN told' = Threads
         /\ local'[t] = Empty /\ \A u \in Threads \ {t} : local'[u] = local[u]
         /\ told'[t].age = snapshot.age
<1>1. CASE asked[t] \in DOMAIN snapshot.readings
  BY <1>1, Tells DEF Answer
<1>2. CASE asked[t] \notin DOMAIN snapshot.readings
  BY <1>2, Tells DEF Answer
<1> QED BY <1>1, <1>2

LEMMA InitIInv == Init => IInv
  BY Numbers DEF Init, IInv, Shapes, Aged, Clocks, Storing, StampTellsAge, Busy, Empty, Never

(* A thread that begins, loads or is told holds nothing that is to be      *)
(* stored, and leaves the snapshot alone.                                  *)
LEMMA Aside ==
  ASSUME IInv, NEW t \in Threads, NEW place \in {"idle", "clocked", "loaded", "fetching"},
         pc' = [pc EXCEPT ![t] = place],
         now' = [now EXCEPT ![t] = 0],
         DOMAIN local' = Threads, DOMAIN told' = Threads,
         Aged(local'[t]), \A u \in Threads \ {t} : local'[u] = local[u],
         UNCHANGED <<cached, cachedAt>>
  PROVE  IInv'
<1>1. Shapes'
  BY DEF IInv, Shapes, Busy
<1>2. Clocks'
  BY Numbers DEF IInv, Clocks, Shapes, Busy
<1>3. Storing'
  BY DEF IInv, Storing, Shapes, Busy
<1> QED BY <1>1, <1>2, <1>3 DEF IInv, StampTellsAge

LEMMA StepIInv == IInv /\ [Next]_vars => IInv'
<1> SUFFICES ASSUME IInv, [Next]_vars PROVE IInv'
  OBVIOUS
<1> USE Numbers
<1>E. Aged(Empty)
  BY DEF Empty, Aged
<1>1. ASSUME NEW t \in Threads, NEW poiid \in Poiids \cup {Blank}, Ask(t, poiid)
      PROVE  IInv'
  <2>1. CASE ~wired
    BY <1>1, <2>1, Tells, Aside, <1>E DEF Ask
  <2>2. CASE wired /\ poiid = Blank
    BY <1>1, <2>2, Tells, Aside, <1>E DEF Ask
  <2>3. CASE wired /\ poiid # Blank
    <3>1. now[t] = 0 /\ now' = [now EXCEPT ![t] = 0] /\ local' = local
      BY <1>1, <2>3 DEF Ask, IInv, Clocks, Shapes, Busy
    <3>2. DOMAIN told' = Threads /\ DOMAIN local = Threads /\ Aged(local[t]) /\ pc' = [pc EXCEPT ![t] = "clocked"]
      BY <1>1, <2>3 DEF Ask, At, IInv, Shapes
    <3> QED BY <1>1, <3>1, <3>2, Aside DEF Ask
  <2> QED BY <2>1, <2>2, <2>3
<1>2. ASSUME NEW t \in Threads, LoadMap(t)
      PROVE  IInv'
  <2>1. /\ now' = [now EXCEPT ![t] = 0] /\ Aged(cached)
        /\ DOMAIN local' = Threads /\ DOMAIN told' = Threads
        /\ local'[t] = cached /\ \A u \in Threads \ {t} : local'[u] = local[u]
    BY <1>2 DEF LoadMap, IInv, Clocks, Shapes, Busy
  <2> QED BY <1>2, <2>1, Aside DEF LoadMap, At
<1>3. ASSUME NEW t \in Threads, LoadStamp(t)
      PROVE  IInv'
  <2>1. CASE Fresh(t)
    BY <1>3, <2>1, Answers, Aside, <1>E DEF LoadStamp
  <2>2. CASE ~Fresh(t)
    <3>1. now' = [now EXCEPT ![t] = 0] /\ local' = local
      BY <1>3, <2>2 DEF LoadStamp, IInv, Clocks, Shapes, Busy
    <3>2. DOMAIN told' = Threads /\ DOMAIN local = Threads /\ Aged(local[t]) /\ pc' = [pc EXCEPT ![t] = "fetching"]
      BY <1>3, <2>2 DEF LoadStamp, At, IInv, Shapes
    <3> QED BY <1>3, <3>1, <3>2, Aside DEF LoadStamp
  <2> QED BY <2>1, <2>2
<1>4. ASSUME NEW t \in Threads, Fetched(t)
      PROVE  IInv'
  <2>1. CASE ~(feed # Down /\ Parse(feed).ok)
    BY <1>4, <2>1, Tells, Aside, <1>E DEF Fetched
  <2>2. CASE feed # Down /\ Parse(feed).ok
    <3> DEFINE held == [readings |-> Parse(feed).value, of |-> feed, age |-> now[t]]
    <3>1. /\ pc[t] = "fetching" /\ pc' = [pc EXCEPT ![t] = "storing"]
          /\ local' = [local EXCEPT ![t] = held]
          /\ UNCHANGED <<cached, cachedAt, now, told>>
      BY <1>4, <2>2 DEF Fetched, At
    <3>2. Aged(held) /\ held.age = now[t]
      BY DEF IInv, Clocks, Aged
    <3> HIDE DEF held
    <3>3. Shapes'
      BY <3>1, <3>2 DEF IInv, Shapes, Busy
    <3>4. Clocks'
      BY <3>1 DEF IInv, Clocks, Shapes, Busy
    <3>5. Storing'
      BY <3>1, <3>2 DEF IInv, Storing, Shapes
    <3> QED BY <3>1, <3>3, <3>4, <3>5 DEF IInv, StampTellsAge
  <2> QED BY <2>1, <2>2
<1>5. ASSUME NEW t \in Threads, StoreMap(t)
      PROVE  IInv'
  <2>1. /\ pc[t] = "storing" /\ pc' = [pc EXCEPT ![t] = "stamping"]
        /\ cached' = local[t]
        /\ UNCHANGED <<cachedAt, now, local, told>>
    BY <1>5 DEF StoreMap, At
  <2>2. local[t].age = now[t] /\ now[t] \in 0..Patience
    BY <2>1 DEF IInv, Storing, Clocks
  <2>3. Shapes'
    BY <2>1, <2>2 DEF IInv, Shapes, Busy
  <2>4. Clocks'
    BY <2>1 DEF IInv, Clocks, Shapes, Busy
  <2>5. Storing'
    BY <2>1, <2>2 DEF IInv, Storing, Shapes
  <2>6. StampTellsAge'
    BY <2>1, <2>2 DEF StampTellsAge
  <2> QED BY <2>3, <2>4, <2>5, <2>6 DEF IInv
<1>6. ASSUME NEW t \in Threads, StoreStamp(t)
      PROVE  IInv'
  <2>1. /\ pc[t] = "stamping" /\ cachedAt' = now[t] /\ cached' = cached
        /\ pc' = [pc EXCEPT ![t] = "idle"] /\ now' = [now EXCEPT ![t] = 0]
        /\ DOMAIN local' = Threads /\ DOMAIN told' = Threads
        /\ local'[t] = Empty /\ \A u \in Threads \ {t} : local'[u] = local[u]
    BY <1>6, Answers DEF StoreStamp
  <2>2. cached.age \in Nat /\ cached.age <= Patience /\ now[t] \in 0..Patience
    BY <2>1 DEF IInv, Storing, Clocks, Shapes, Aged
  <2>3. Shapes'
    BY <2>1, <2>2, <1>E DEF IInv, Shapes, Busy
  <2>4. Clocks'
    BY <2>1 DEF IInv, Clocks, Shapes, Busy
  <2>5. Storing'
    BY <2>1 DEF IInv, Storing, Shapes
  <2>6. StampTellsAge'
    BY <2>1, <2>2 DEF StampTellsAge
  <2> QED BY <2>3, <2>4, <2>5, <2>6 DEF IInv
<1>7. ASSUME Tick PROVE IInv'
  <2>1. /\ pc' = pc /\ told' = told
        /\ "age" \in DOMAIN cached' /\ cached'.age = Older(cached.age, AgeCap)
        /\ cachedAt' = IF cachedAt = Never THEN Never ELSE Older(cachedAt, Ttl)
        /\ DOMAIN local' = Threads
        /\ \A t \in Threads : "age" \in DOMAIN local'[t] /\ local'[t].age = Older(local[t].age, AgeCap)
    BY <1>7 DEF Tick, IInv, Shapes, Aged
  <2>2. /\ \A t \in Threads : pc[t] \notin {"storing", "stamping"}
        /\ \A t \in Threads : pc[t] = "fetching" => now[t] < Patience
        /\ now' = [t \in Threads |-> IF pc[t] = "fetching" THEN now[t] + 1 ELSE now[t]]
    BY <1>7 DEF Tick
  <2>3. cached.age \in Nat /\ Aged(cached') /\ cached'.age <= cached.age + 1
    BY <2>1, Ages, Numbers DEF IInv, Shapes, Aged
  <2>4. /\ cachedAt = Never => cachedAt' = Never
        /\ cachedAt # Never => cachedAt \in 0..AgeCap /\ cachedAt' \in 0..AgeCap
        /\ cachedAt # Never /\ cachedAt' < Ttl => cachedAt' = cachedAt + 1
    BY <2>1, Numbers DEF IInv, Shapes, Older, Never
  <2>5. \A t \in Threads : Aged(local'[t])
    BY <2>1, Ages, Numbers DEF IInv, Shapes, Aged
  <2>6. Shapes'
    BY <2>1, <2>3, <2>4, <2>5 DEF IInv, Shapes
  <2>7. Clocks'
    BY <2>1, <2>2 DEF IInv, Clocks, Busy
  <2>8. Storing'
    BY <2>1, <2>2 DEF Storing
  <2>9. StampTellsAge'
    BY <2>3, <2>4, Numbers DEF IInv, StampTellsAge, Never, Aged
  <2> QED BY <2>6, <2>7, <2>8, <2>9 DEF IInv
<1>8. ASSUME UNCHANGED <<cached, cachedAt, pc, now, local, told>> PROVE IInv'
  BY <1>8 DEF IInv, Shapes, Clocks, Storing, StampTellsAge
<1> QED
  BY <1>1, <1>2, <1>3, <1>4, <1>5, <1>6, <1>7, <1>8 DEF Next, FeedChanges, vars

(* A snapshot is whole: its readings, the body they are of, an age.        *)
Snapshot(s) ==
  /\ s = [readings |-> s.readings, of |-> s.of, age |-> s.age]
  /\ s.of \in Bodies \cup {Down} /\ s.age \in 0..AgeCap
Whole ==
  /\ wired \in BOOLEAN /\ feed \in Bodies \cup {Down}
  /\ asked \in [Threads -> Poiids \cup {Blank}]
  /\ Snapshot(cached) /\ \A t \in Threads : Snapshot(local[t])

LEMMA NothingIsWhole == Snapshot(Empty)
  BY Numbers DEF Empty, Snapshot

LEMMA InitWhole == Init => Whole
  BY NothingIsWhole DEF Init, Whole

LEMMA StepWhole == IInv /\ Whole /\ [Next]_vars => Whole'
<1> SUFFICES ASSUME IInv, Whole, [Next]_vars PROVE Whole'
  OBVIOUS
<1>0. DOMAIN local = Threads
  BY DEF IInv, Shapes
<1>1. ASSUME NEW t \in Threads, UNCHANGED <<wired, feed, cached>>,
             asked' = asked \/ \E poiid \in Poiids \cup {Blank} : asked' = [asked EXCEPT ![t] = poiid],
             \A u \in Threads \ {t} : local'[u] = local[u],
             Snapshot(local'[t])
      PROVE  Whole'
  BY <1>1 DEF Whole, Snapshot
<1>2. ASSUME NEW t \in Threads, NEW poiid \in Poiids \cup {Blank}, Ask(t, poiid) PROVE Whole'
  <2>1. (local'[t] = Empty \/ local'[t] = local[t]) /\ \A u \in Threads \ {t} : local'[u] = local[u]
    BY <1>2, Tells DEF Ask
  <2>2. Snapshot(local'[t])
    BY <2>1, NothingIsWhole DEF Whole
  <2> QED BY <1>1, <1>2, <2>1, <2>2 DEF Ask
<1>3. ASSUME NEW t \in Threads, LoadMap(t) PROVE Whole'
  <2>1. local'[t] = cached /\ \A u \in Threads \ {t} : local'[u] = local[u]
    BY <1>0, <1>3 DEF LoadMap
  <2>2. Snapshot(local'[t])
    BY <2>1 DEF Whole
  <2> QED BY <1>1, <1>3, <2>1, <2>2 DEF LoadMap
<1>4. ASSUME NEW t \in Threads, LoadStamp(t) PROVE Whole'
  <2>1. (local'[t] = Empty \/ local'[t] = local[t]) /\ \A u \in Threads \ {t} : local'[u] = local[u]
    BY <1>4, Answers DEF LoadStamp
  <2>2. Snapshot(local'[t])
    BY <2>1, NothingIsWhole DEF Whole
  <2> QED BY <1>1, <1>4, <2>1, <2>2 DEF LoadStamp
<1>5. ASSUME NEW t \in Threads, Fetched(t) PROVE Whole'
  <2>1. CASE ~(feed # Down /\ Parse(feed).ok)
    <3>1. local'[t] = Empty /\ \A u \in Threads \ {t} : local'[u] = local[u]
      BY <1>5, <2>1, Tells DEF Fetched
    <3> QED BY <1>1, <1>5, <3>1, NothingIsWhole DEF Fetched
  <2>2. CASE feed # Down /\ Parse(feed).ok
    <3>1. PICK readings : local' = [local EXCEPT ![t] = [readings |-> readings, of |-> feed, age |-> now[t]]]
      BY <1>5, <2>2 DEF Fetched
    <3>2. now[t] \in 0..AgeCap
      BY Numbers DEF IInv, Clocks
    <3>3. Snapshot([readings |-> readings, of |-> feed, age |-> now[t]])
      BY <3>2 DEF Snapshot, Whole
    <3>4. Snapshot(local'[t]) /\ \A u \in Threads \ {t} : local'[u] = local[u]
      BY <1>0, <3>1, <3>3
    <3> QED BY <1>1, <1>5, <3>4 DEF Fetched
  <2> QED BY <2>1, <2>2
<1>6. ASSUME NEW t \in Threads, StoreMap(t) PROVE Whole'
  BY <1>6 DEF StoreMap, Whole, Snapshot
<1>7. ASSUME NEW t \in Threads, StoreStamp(t) PROVE Whole'
  <2>1. local'[t] = Empty /\ \A u \in Threads \ {t} : local'[u] = local[u]
    BY <1>7, Answers DEF StoreStamp
  <2> QED BY <1>1, <1>7, <2>1, NothingIsWhole DEF StoreStamp
<1>8. ASSUME Tick PROVE Whole'
  <2>1. ASSUME NEW s, NEW old, Snapshot(s), old = Older(s.age, AgeCap)
        PROVE  Snapshot([s EXCEPT !.age = old])
    <3>1. old \in 0..AgeCap
      BY <2>1, Numbers DEF Snapshot, Older
    <3>2. [s EXCEPT !.age = old] = [readings |-> s.readings, of |-> s.of, age |-> old]
      BY <2>1 DEF Snapshot
    <3> QED BY <2>1, <3>1, <3>2 DEF Snapshot
  <2>2. Snapshot(cached')
    BY <1>8, <2>1 DEF Tick, Whole
  <2>3. ASSUME NEW t \in Threads PROVE Snapshot(local'[t])
    BY <1>8, <2>1 DEF Tick, Whole
  <2> QED BY <1>8, <2>2, <2>3 DEF Tick, Whole, Snapshot
<1>9. CASE FeedChanges \/ UNCHANGED vars
  BY <1>9 DEF FeedChanges, vars, Whole, Snapshot
<1> QED
  BY <1>2, <1>3, <1>4, <1>5, <1>6, <1>7, <1>8, <1>9 DEF Next

(* Type correctness.                                                       *)
THEOREM TypeCorrect == Spec => []TypeOK
<1>1. IInv /\ Whole => TypeOK
  BY DEF IInv, Whole, Shapes, Clocks, Busy, Snapshot, TypeOK
<1> QED BY <1>1, InitIInv, StepIInv, InitWhole, StepWhole, PTL DEF Spec

(* A snapshot is as old as its stamp says, but for the time a fetch takes, *)
(* in whatever order the threads store (baditicker.py:214).                *)
THEOREM StampHonest == Spec => []StampTellsAge
<1>1. IInv => StampTellsAge
  BY DEF IInv
<1> QED BY <1>1, InitIInv, StepIInv, PTL DEF Spec

(* Whoever stores in what order, a reading from the cache is younger than  *)
(* the window and the fetch it came with, unless another thread stored     *)
(* between the two loads (baditicker.py:203).                              *)
THEOREM Served == Spec => ServedWithinTtl
<1> DEFINE Told(t) == pc[t] = "loaded" /\ pc'[t] = "idle" /\ local[t] = cached => told'[t].age < Ttl + Patience
<1>1. ASSUME IInv, [Next]_vars, NEW t \in Threads PROVE Told(t)
  <2> SUFFICES ASSUME pc[t] = "loaded", pc'[t] = "idle", local[t] = cached
               PROVE  told'[t].age < Ttl + Patience
    OBVIOUS
  <2>1. LoadStamp(t)
    <3>1. PICK u \in Threads : (\E poiid \in Poiids \cup {Blank} : Ask(u, poiid)) \/ LoadMap(u)
                                 \/ LoadStamp(u) \/ Fetched(u) \/ StoreMap(u) \/ StoreStamp(u)
      BY <1>1 DEF Next, Tick, FeedChanges, vars
    <3>2. \E place : pc' = [pc EXCEPT ![u] = place]
      BY <1>1, <3>1, Tells, Answers DEF Ask, LoadMap, LoadStamp, Fetched, StoreMap, StoreStamp, At
    <3>3. u = t
      BY <3>2
    <3> QED BY <3>1, <3>3 DEF Ask, LoadMap, Fetched, StoreMap, StoreStamp
  <2>2. Fresh(t)
    BY <1>1, <2>1 DEF LoadStamp, At, IInv, Shapes
  <2>3. told'[t].age = cached.age
    BY <1>1, <2>1, <2>2, Answers DEF LoadStamp
  <2>4. now[t] = 0 /\ cachedAt \in 0..Ttl - 1
    BY <1>1, <2>2, Numbers DEF Fresh, IInv, Clocks, Shapes, Busy, Never
  <2> QED BY <1>1, <2>3, <2>4, Numbers DEF IInv, Shapes, Aged, StampTellsAge
<1>2. IInv /\ [Next]_vars => [\A t \in Threads : Told(t)]_vars
  BY <1>1
<1> QED BY <1>2, InitIInv, StepIInv, PTL DEF Spec, ServedWithinTtl

-----------------------------------------------------------------------------
(* What is read of a feed                                                  *)

(* What holds of none, and of one more, holds of any number.               *)
LEMMA Climbing ==
  ASSUME NEW n \in Nat, NEW S, 0 \in S, \A k \in 1..n : k - 1 \in S => k \in S
  PROVE  \A k \in 0..n : k \in S
<1> DEFINE Less == {ss \in Nat \X Nat : ss[1] < ss[2]}
           Bad == {k \in 0..n : k \notin S}
<1> SUFFICES ASSUME Bad # {} PROVE FALSE
  OBVIOUS
<1>1. IsWellFoundedOn(Less, Nat)
  BY NatLessThanWellFounded DEF OpToRel
<1>2. Bad \in SUBSET Nat
  OBVIOUS
<1>3. PICK m \in Bad : \A k \in Bad : ~(<<k, m>> \in Less)
  <2> HIDE DEF Bad, Less
  <2> QED
    BY <1>1, <1>2, WFMin
<1>4. m \in 1..n /\ m - 1 \in 0..n /\ <<m - 1, m>> \in Less
  BY <1>3
<1>5. m - 1 \in S
  BY <1>3, <1>4
<1> QED
  BY <1>3, <1>4, <1>5

Malformed(bath) == bath.poiid = Blank \/ bath.temperature = "junk" \/ bath.dated = Blank

(* The entry of a bath that counts is the last of the first k.             *)
Counts(baths, k, poiid, i) ==
  /\ i \in 1..k /\ baths[i].poiid = poiid
  /\ \A j \in 1..k : baths[j].poiid = poiid => j <= i

(* What the first k baths are read as.                                     *)
ReadAs(parsed, baths, k) ==
  IF \E i \in 1..k : Malformed(baths[i]) THEN parsed.ok = FALSE
  ELSE /\ parsed.ok = TRUE
       /\ \A i \in 1..k : baths[i].poiid \in DOMAIN parsed.value
       /\ \A poiid \in DOMAIN parsed.value : \E i \in 1..k :
            Counts(baths, k, poiid, i) /\ parsed.value[poiid] = Reading(baths[i])

(* One bath more.                                                          *)
LEMMA OneBathMore ==
  ASSUME NEW baths, NEW k \in Nat \ {0}, NEW parsed, ReadAs(parsed, baths, k - 1)
  PROVE  ReadAs(AddBath(parsed, baths[k]), baths, k)
<1> DEFINE bath == baths[k]
           one == ParseBath(bath)
           next == AddBath(parsed, bath)
<1>1. 1..k = (1..(k - 1)) \cup {k} /\ \A i \in 1..(k - 1) : i < k
  OBVIOUS
<1>2. CASE \E i \in 1..(k - 1) : Malformed(baths[i])
  <2>1. parsed.ok = FALSE
    BY <1>2 DEF ReadAs
  <2>2. next = parsed
    BY <2>1 DEF AddBath
  <2>3. \E i \in 1..k : Malformed(baths[i])
    BY <1>1, <1>2
  <2> QED
    BY <2>1, <2>2, <2>3 DEF ReadAs
<1>3. CASE (~ \E i \in 1..(k - 1) : Malformed(baths[i])) /\ Malformed(bath)
  <2>1. parsed.ok = TRUE
    BY <1>3 DEF ReadAs
  <2>2. one.ok = FALSE
    BY <1>3 DEF ParseBath, Malformed, Err
  <2>3. next = one
    BY <2>1, <2>2 DEF AddBath
  <2>4. \E i \in 1..k : Malformed(baths[i])
    BY <1>1, <1>3
  <2> QED
    BY <2>2, <2>3, <2>4 DEF ReadAs
<1>4. CASE (~ \E i \in 1..(k - 1) : Malformed(baths[i])) /\ ~Malformed(bath)
  <2> DEFINE old == parsed.value
             new == Recorded(old, bath.poiid, Reading(bath))
  <2>1. /\ parsed.ok = TRUE
        /\ \A i \in 1..(k - 1) : baths[i].poiid \in DOMAIN old
        /\ \A poiid \in DOMAIN old : \E i \in 1..(k - 1) :
             Counts(baths, k - 1, poiid, i) /\ old[poiid] = Reading(baths[i])
    BY <1>4 DEF ReadAs
  <2>2. one = Ok(Reading(bath))
    BY <1>4 DEF ParseBath, Malformed
  <2>3. one.ok = TRUE /\ one.value = Reading(bath)
    BY <2>2 DEF Ok
  <2>4. next = Ok(new)
    BY <2>1, <2>3 DEF AddBath
  <2>5. next.ok = TRUE /\ next.value = new
    BY <2>4 DEF Ok
  <2>6. /\ DOMAIN new = {bath.poiid} \cup DOMAIN old
        /\ new[bath.poiid] = Reading(bath)
        /\ \A poiid \in DOMAIN old : poiid # bath.poiid => new[poiid] = old[poiid]
    BY DEF Recorded
  <2> HIDE DEF new, old
  <2>7. \A i \in 1..k : baths[i].poiid \in DOMAIN new
    BY <1>1, <2>1, <2>6
  <2>8. ASSUME NEW poiid \in DOMAIN new
        PROVE \E i \in 1..k : Counts(baths, k, poiid, i) /\ new[poiid] = Reading(baths[i])
    <3>1. CASE poiid = bath.poiid
      <4>1. Counts(baths, k, poiid, k)
        BY <1>1, <3>1 DEF Counts
      <4> QED
        BY <1>1, <2>6, <3>1, <4>1
    <3>2. CASE poiid # bath.poiid
      <4>1. PICK i \in 1..(k - 1) : Counts(baths, k - 1, poiid, i) /\ old[poiid] = Reading(baths[i])
        BY <2>1, <2>6, <3>2
      <4>2. Counts(baths, k, poiid, i)
        BY <1>1, <3>2, <4>1 DEF Counts
      <4> QED
        BY <1>1, <2>6, <3>2, <4>1, <4>2
    <3> QED
      BY <3>1, <3>2
  <2>9. ~ \E i \in 1..k : Malformed(baths[i])
    BY <1>1, <1>4
  <2> HIDE DEF next
  <2>10. ReadAs(next, baths, k)
    BY <2>5, <2>7, <2>8, <2>9 DEF ReadAs
  <2> QED
    BY <2>10 DEF next
<1> QED
  BY <1>2, <1>3, <1>4

Reads(f, baths, n) == f = [k \in 0..n |-> IF k = 0 THEN Ok(<<>>) ELSE AddBath(f[k - 1], baths[k])]

(* The readings of the first, the first two, ... exist.                    *)
LEMMA ReadingInTurn == ASSUME NEW baths, NEW n \in Nat PROVE \E f : Reads(f, baths, n)
<1> DEFINE S == {m \in Nat : \E f : Reads(f, baths, m)}
<1>1. 0 \in S
  <2> DEFINE f == [k \in 0..0 |-> Ok(<<>>)]
  <2>1. Reads(f, baths, 0)
    BY DEF Reads
  <2> QED
    BY <2>1
<1>2. ASSUME NEW m \in 1..n, m - 1 \in S PROVE m \in S
  <2>1. PICK f : Reads(f, baths, m - 1)
    BY <1>2
  <2> DEFINE g == [k \in 0..m |-> IF k = m THEN AddBath(f[m - 1], baths[m]) ELSE f[k]]
  <2>2. ASSUME NEW k \in 0..m PROVE g[k] = IF k = 0 THEN Ok(<<>>) ELSE AddBath(g[k - 1], baths[k])
    <3>1. k # 0 => k - 1 \in 0..m /\ k - 1 # m /\ g[k - 1] = f[k - 1]
      OBVIOUS
    <3>2. CASE k = m
      BY <3>1, <3>2
    <3>3. CASE k # m
      <4>1. k \in 0..(m - 1)
        BY <3>3
      <4>2. f[k] = IF k = 0 THEN Ok(<<>>) ELSE AddBath(f[k - 1], baths[k])
        BY <2>1, <4>1 DEF Reads
      <4> QED
        BY <3>1, <3>3, <4>2
    <3> QED
      BY <3>2, <3>3
  <2>3. Reads(g, baths, m)
    BY <2>2 DEF Reads
  <2> QED
    BY <2>3
<1> HIDE DEF S
<1>3. n \in S
  BY <1>1, <1>2, Climbing
<1> QED
  BY <1>3 DEF S

(* What a whole feed is read as.                                           *)
LEMMA FeedIsRead ==
  ASSUME NEW body \in Body, body.text = "utf-8"
  PROVE  ReadAs(Parse(body), body.baths, Len(body.baths))
<1> DEFINE baths == body.baths
           n == Len(baths)
           f == CHOOSE g : Reads(g, baths, n)
           S == {k \in 0..n : ReadAs(f[k], baths, k)}
<1>1. baths \in Seq(Bath) /\ n \in Nat
  BY LenProperties DEF Body
<1>2. Parse(body) = f[n]
  BY DEF Parse, Reads
<1>3. Reads(f, baths, n)
  BY <1>1, ReadingInTurn
<1> HIDE DEF f
<1>4. \A k \in 0..n : f[k] = IF k = 0 THEN Ok(<<>>) ELSE AddBath(f[k - 1], baths[k])
  BY <1>3 DEF Reads
<1> HIDE DEF baths, n
<1>5. 0 \in S
  <2>1. f[0] = Ok(<<>>) /\ 0 \in 0..n
    BY <1>1, <1>4
  <2>2. 1..0 = {} /\ DOMAIN <<>> = {}
    OBVIOUS
  <2>3. ReadAs(f[0], baths, 0)
    BY <2>1, <2>2 DEF ReadAs, Ok
  <2> QED
    BY <2>1, <2>3
<1>6. ASSUME NEW k \in 1..n, k - 1 \in S PROVE k \in S
  <2>1. k \in Nat \ {0} /\ k \in 0..n /\ k - 1 \in 0..n
    BY <1>1
  <2>2. f[k] = AddBath(f[k - 1], baths[k])
    BY <1>4, <2>1
  <2>3. ReadAs(f[k], baths, k)
    BY <1>6, <2>1, <2>2, OneBathMore
  <2> QED
    BY <2>1, <2>3
<1> HIDE DEF S
<1>7. n \in S
  <2>1. n \in Nat /\ n \in 0..n
    BY <1>1
  <2>2. \A k \in 0..n : k \in S
    BY <1>5, <1>6, <2>1, Climbing
  <2> QED
    BY <2>1, <2>2
<1>8. ReadAs(f[n], baths, n)
  BY <1>7 DEF S
<1> QED
  BY <1>2, <1>8 DEF baths, n

(* What an answer of the parser is worth: the last entry of the bath.      *)
Told(reading, body, poiid) ==
  /\ Entries(body, poiid) # {}
  /\ reading = Reading(body.baths[Max(Entries(body, poiid))])

LEMMA ParsedTells ==
  ASSUME NEW body \in Body
  PROVE  /\ Parse(body).ok <=> Legible(body)
         /\ Legible(body) => \A poiid :
              IF poiid \in DOMAIN Parse(body).value THEN Told(Parse(body).value[poiid], body, poiid)
              ELSE Entries(body, poiid) = {}
<1> DEFINE baths == body.baths
           n == Len(baths)
<1>1. CASE body.text # "utf-8"
  <2>1. ~Legible(body)
    BY <1>1 DEF Legible
  <2>2. Parse(body) = Err("parse") \/ Parse(body) = Err("schema")
    BY <1>1 DEF Parse, Body
  <2>3. ~Parse(body).ok
    BY <2>2 DEF Err
  <2> QED
    BY <2>1, <2>3
<1>2. CASE body.text = "utf-8"
  <2>1. ReadAs(Parse(body), baths, n)
    BY <1>2, FeedIsRead
  <2>2. DOMAIN baths = 1..n /\ n \in Nat
    BY LenProperties DEF Body
  <2>3. Legible(body) <=> ~ \E i \in 1..n : Malformed(baths[i])
    BY <1>2, <2>2 DEF Legible, Malformed, Range
  <2>4. Parse(body).ok <=> Legible(body)
    BY <2>1, <2>3 DEF ReadAs
  <2> HIDE DEF baths, n
  <2>5. ASSUME Legible(body), NEW poiid \in DOMAIN Parse(body).value
        PROVE  Told(Parse(body).value[poiid], body, poiid)
    <3>1. PICK i \in 1..n : Counts(baths, n, poiid, i) /\ Parse(body).value[poiid] = Reading(baths[i])
      BY <2>1, <2>3, <2>5 DEF ReadAs
    <3>2. i \in Entries(body, poiid)
      BY <2>2, <3>1 DEF Entries, Counts, baths
    <3>3. \A j \in Entries(body, poiid) : i >= j /\ (j >= i => j = i)
      BY <2>2, <3>1 DEF Entries, Counts, baths
    <3>4. Max(Entries(body, poiid)) = i
      BY <3>2, <3>3 DEF Max
    <3> QED
      BY <3>1, <3>2, <3>4 DEF Told, baths
  <2>6. ASSUME Legible(body), NEW poiid, poiid \notin DOMAIN Parse(body).value
        PROVE  Entries(body, poiid) = {}
    BY <2>1, <2>2, <2>3, <2>6 DEF ReadAs, Entries, baths
  <2> QED
    BY <2>4, <2>5, <2>6
<1> QED
  BY <1>1, <1>2

(* A snapshot's readings are those of its body, an answer is what they say *)
(* of the bath, or that they say nothing.                                  *)
Faithful(s) == IF s.of = Down THEN s.readings = <<>> ELSE Parse(s.of).ok /\ s.readings = Parse(s.of).value
Says(answer, poiid) ==
  /\ answer.code = "live" =>
       /\ answer.of \in Bodies /\ Parse(answer.of).ok
       /\ poiid \in DOMAIN Parse(answer.of).value
       /\ answer.reading = Parse(answer.of).value[poiid]
  /\ answer.code = "provider_error" =>
       \/ answer.of = Down
       \/ answer.of \in Bodies /\ (Parse(answer.of).ok => poiid \notin DOMAIN Parse(answer.of).value)
Telling ==
  /\ Faithful(cached)
  /\ \A t \in Threads : Faithful(local[t]) /\ Says(told[t], asked[t])

LEMMA NothingIsFaithful == Faithful(Empty)
  BY DEF Faithful, Empty

LEMMA InitTelling == Init => Telling
  BY NothingIsFaithful DEF Init, Telling, Says, Untold

(* An answer from a faithful snapshot says what that says.                 *)
LEMMA AnswersSay ==
  ASSUME IInv, NEW t \in Threads, NEW snapshot, Answer(t, snapshot), Faithful(snapshot),
         snapshot.of \in Bodies \cup {Down}
  PROVE  /\ Says(told'[t], asked[t])
         /\ \A u \in Threads \ {t} : told'[u] = told[u]
<1>0. DOMAIN told = Threads
  BY DEF IInv, Shapes
<1>1. CASE asked[t] \in DOMAIN snapshot.readings
  <2>1. /\ told'[t].code = "live" /\ told'[t].of = snapshot.of
        /\ told'[t].reading = snapshot.readings[asked[t]]
        /\ \A u \in Threads \ {t} : told'[u] = told[u]
    BY <1>0, <1>1 DEF Answer, Tell
  <2>2. snapshot.of # Down
    <3>1. DOMAIN <<>> = {}
      OBVIOUS
    <3> QED
      BY <1>1, <3>1 DEF Faithful
  <2> QED
    BY <1>1, <2>1, <2>2 DEF Says, Faithful
<1>2. CASE asked[t] \notin DOMAIN snapshot.readings
  <2>1. /\ told'[t].code = "provider_error" /\ told'[t].of = snapshot.of
        /\ \A u \in Threads \ {t} : told'[u] = told[u]
    BY <1>0, <1>2 DEF Answer, Tell
  <2> QED
    BY <1>2, <2>1 DEF Says, Faithful
<1> QED
  BY <1>1, <1>2

LEMMA StepTelling == IInv /\ Whole /\ Telling /\ [Next]_vars => Telling'
<1> SUFFICES ASSUME IInv, Whole, Telling, [Next]_vars PROVE Telling'
  OBVIOUS
<1>0. DOMAIN local = Threads /\ DOMAIN told = Threads /\ DOMAIN asked = Threads
  BY DEF IInv, Shapes, Whole
<1>1. ASSUME NEW t \in Threads, cached' = cached, Faithful(local'[t]), Says(told'[t], asked'[t]),
             \A u \in Threads \ {t} : local'[u] = local[u] /\ told'[u] = told[u] /\ asked'[u] = asked[u]
      PROVE  Telling'
  <2>1. ASSUME NEW u \in Threads PROVE Faithful(local'[u]) /\ Says(told'[u], asked'[u])
    BY <1>1 DEF Telling
  <2> QED BY <1>1, <2>1 DEF Telling, Faithful, Says
<1>2. ASSUME NEW t \in Threads, NEW poiid \in Poiids \cup {Blank}, Ask(t, poiid) PROVE Telling'
  <2>1. /\ local'[t] = Empty \/ local'[t] = local[t]
        /\ told'[t].code \in {"none", "no_key", "not_configured"}
        /\ \A u \in Threads \ {t} : local'[u] = local[u] /\ told'[u] = told[u] /\ asked'[u] = asked[u]
    BY <1>0, <1>2 DEF Ask, Tell, Untold
  <2>2. Faithful(local'[t]) /\ Says(told'[t], asked'[t])
    BY <2>1, NothingIsFaithful DEF Telling, Says
  <2> QED BY <1>1, <1>2, <2>1, <2>2 DEF Ask
<1>3. ASSUME NEW t \in Threads, LoadMap(t) PROVE Telling'
  <2>1. local'[t] = cached /\ \A u \in Threads \ {t} : local'[u] = local[u]
    BY <1>0, <1>3 DEF LoadMap
  <2>2. Faithful(local'[t]) /\ Says(told'[t], asked'[t])
    BY <1>3, <2>1 DEF Telling, LoadMap
  <2> QED BY <1>1, <1>3, <2>1, <2>2 DEF LoadMap
<1>4. ASSUME NEW t \in Threads, LoadStamp(t) PROVE Telling'
  <2>1. local[t].of \in Bodies \cup {Down} /\ Faithful(local[t])
    BY DEF Whole, Snapshot, Telling
  <2>2. CASE Fresh(t)
    <3>1. Answer(t, local[t])
      BY <1>4, <2>2 DEF LoadStamp
    <3>2. Says(told'[t], asked[t]) /\ \A u \in Threads \ {t} : told'[u] = told[u]
      BY <2>1, <3>1, AnswersSay
    <3>3. local'[t] = Empty /\ \A u \in Threads \ {t} : local'[u] = local[u]
      BY <3>1, Answers
    <3> QED BY <1>1, <1>4, <3>2, <3>3, NothingIsFaithful DEF LoadStamp
  <2>3. CASE ~Fresh(t)
    <3>1. local' = local /\ told' = told /\ asked' = asked /\ cached' = cached
      BY <1>4, <2>3 DEF LoadStamp
    <3> QED BY <3>1 DEF Telling, Faithful, Says
  <2> QED BY <2>2, <2>3
<1>5. ASSUME NEW t \in Threads, Fetched(t) PROVE Telling'
  <2>1. CASE ~(feed # Down /\ Parse(feed).ok)
    <3>1. Tell(t, "provider_error", NoReading, feed, 0)
      BY <1>5, <2>1 DEF Fetched
    <3>2. local'[t] = Empty /\ \A u \in Threads \ {t} : local'[u] = local[u]
      BY <3>1, Tells
    <3>3. told'[t].code = "provider_error" /\ told'[t].of = feed /\ \A u \in Threads \ {t} : told'[u] = told[u]
      BY <1>0, <3>1 DEF Tell
    <3>4. Says(told'[t], asked'[t])
      BY <2>1, <3>3 DEF Says, Whole
    <3> QED BY <1>1, <1>5, <3>2, <3>3, <3>4, NothingIsFaithful DEF Fetched
  <2>2. CASE feed # Down /\ Parse(feed).ok
    <3> DEFINE snapshot == [readings |-> Parse(feed).value, of |-> feed, age |-> now[t]]
    <3>1. local' = [local EXCEPT ![t] = snapshot] /\ told' = told
      BY <1>5, <2>2 DEF Fetched
    <3>2. Faithful(snapshot)
      BY <2>2 DEF Faithful
    <3>3. Faithful(local'[t]) /\ Says(told'[t], asked'[t]) /\ \A u \in Threads \ {t} : local'[u] = local[u]
      <4> HIDE DEF snapshot
      <4> QED BY <1>0, <1>5, <3>1, <3>2 DEF Fetched, Telling
    <3> QED BY <1>1, <1>5, <3>1, <3>3 DEF Fetched
  <2> QED BY <2>1, <2>2
<1>6. ASSUME NEW t \in Threads, StoreMap(t) PROVE Telling'
  BY <1>6 DEF StoreMap, Telling, Faithful, Says
<1>7. ASSUME NEW t \in Threads, StoreStamp(t) PROVE Telling'
  <2>1. local[t].of \in Bodies \cup {Down} /\ Faithful(local[t]) /\ Answer(t, local[t])
    BY <1>7 DEF Whole, Snapshot, Telling, StoreStamp
  <2>2. Says(told'[t], asked[t]) /\ \A u \in Threads \ {t} : told'[u] = told[u]
    BY <2>1, AnswersSay
  <2>3. local'[t] = Empty /\ \A u \in Threads \ {t} : local'[u] = local[u]
    BY <2>1, Answers
  <2> QED BY <1>1, <1>7, <2>2, <2>3, NothingIsFaithful DEF StoreStamp
<1>8. ASSUME Tick PROVE Telling'
  <2>1. ASSUME NEW s, NEW old, Snapshot(s), Faithful(s) PROVE Faithful([s EXCEPT !.age = old])
    <3>1. [s EXCEPT !.age = old] = [readings |-> s.readings, of |-> s.of, age |-> old]
      BY <2>1 DEF Snapshot
    <3> QED BY <2>1, <3>1 DEF Faithful
  <2>2. Faithful(cached')
    BY <1>8, <2>1 DEF Tick, Whole, Telling
  <2>3. ASSUME NEW t \in Threads PROVE Faithful(local'[t]) /\ Says(told'[t], asked'[t])
    BY <1>8, <2>1 DEF Tick, Whole, Telling
  <2> QED BY <2>2, <2>3 DEF Telling, Faithful, Says
<1>9. CASE FeedChanges \/ UNCHANGED vars
  BY <1>9 DEF FeedChanges, vars, Telling, Faithful, Says
<1> QED
  BY <1>2, <1>3, <1>4, <1>5, <1>6, <1>7, <1>8, <1>9 DEF Next

(* Of every feed, in whatever order two threads load and store it, a live  *)
(* answer is the last entry of its bath in a feed without a malformed one, *)
(* and an error means that there is none (baditicker.py:131).              *)
THEOREM TemperaturesTold == Spec => []TemperatureTold
<1>1. IInv /\ Whole /\ Telling => TemperatureTold
  <2> SUFFICES ASSUME IInv, Whole, Telling, NEW t \in Threads
               PROVE
                 LET answer == told[t]
                     entries == IF answer.of # Down /\ Legible(answer.of) THEN Entries(answer.of, asked[t]) ELSE {}
                 IN /\ answer.code = "provider_error" => entries = {}
                    /\ answer.code = "live" =>
                         /\ entries # {}
                         /\ LET bath == answer.of.baths[Max(entries)]
                             IN /\ answer.reading.celsius = bath.temperature
                                /\ answer.reading.stale <=> bath.dated = "last year"
                                /\ answer.reading.open = "yes" <=> bath.open = "offen"
                                /\ answer.reading.open = "unknown" <=> bath.open = Blank
    BY DEF TemperatureTold
  <2> DEFINE answer == told[t]
             entries == IF answer.of # Down /\ Legible(answer.of) THEN Entries(answer.of, asked[t]) ELSE {}
  <2>1. Says(answer, asked[t])
    BY DEF Telling
  <2>2. CASE answer.code = "provider_error"
    <3>1. CASE answer.of = Down
      BY <2>2, <3>1
    <3>2. CASE answer.of # Down
      <4>1. answer.of \in Body /\ (Parse(answer.of).ok => asked[t] \notin DOMAIN Parse(answer.of).value)
        BY <2>1, <2>2, <3>2, BaditickerAssumption DEF Says
      <4>2. Legible(answer.of) => Entries(answer.of, asked[t]) = {}
        BY <4>1, ParsedTells
      <4> QED BY <2>2, <4>2
    <3> QED BY <3>1, <3>2
  <2>3. CASE answer.code = "live"
    <3>1. /\ answer.of \in Body /\ answer.of # Down /\ Parse(answer.of).ok
          /\ asked[t] \in DOMAIN Parse(answer.of).value
          /\ answer.reading = Parse(answer.of).value[asked[t]]
      BY <2>1, <2>3, BaditickerAssumption DEF Says
    <3>2. Legible(answer.of) /\ Told(answer.reading, answer.of, asked[t])
      BY <3>1, ParsedTells
    <3>3. entries = Entries(answer.of, asked[t])
      BY <3>1, <3>2
    <3> DEFINE bath == answer.of.baths[Max(entries)]
    <3>4. entries # {} /\ answer.reading = Reading(bath)
      BY <3>2, <3>3 DEF Told
    <3> HIDE DEF bath, entries, answer
    <3>5. /\ answer.reading.celsius = bath.temperature
          /\ answer.reading.stale <=> bath.dated = "last year"
          /\ answer.reading.open = "yes" <=> bath.open = "offen"
          /\ answer.reading.open = "unknown" <=> bath.open = Blank
      <4> DEFINE r == Reading(bath)
      <4>1. r.celsius = bath.temperature
        BY DEF Reading
      <4>2. r.stale <=> bath.dated = "last year"
        BY Zenon DEF Reading
      <4>3. r.open = IF bath.open = Blank THEN "unknown" ELSE IF bath.open = "offen" THEN "yes" ELSE "no"
        BY DEF Reading
      <4>4. r.open = "yes" <=> bath.open = "offen"
        BY <4>3, BaditickerAssumption
      <4>5. r.open = "unknown" <=> bath.open = Blank
        BY <4>3
      <4> HIDE DEF r
      <4> QED BY <3>4, <4>1, <4>2, <4>4, <4>5 DEF r
    <3> QED BY <2>3, <3>4, <3>5 DEF bath, entries, answer
  <2>4. CASE answer.code \notin {"provider_error", "live"}
    BY <2>4
  <2> QED BY <2>2, <2>3, <2>4
<1> QED
  BY <1>1, InitIInv, StepIInv, InitWhole, StepWhole, InitTelling, StepTelling, PTL DEF Spec
=============================================================================
