--------------------------- MODULE LiveClientProofs ---------------------------
(***************************************************************************)
(* Proofs about LiveClient, for any set of sheets, TTL and timeout.        *)
(***************************************************************************)
EXTENDS LiveClient, TLAPS

(* A stamp that may still be used does not flatter its bytes.              *)
HonestStamp == snapshot.age # Future /\ snapshot.age < Ttl => snapshot.bytes <= snapshot.age

(* How old a screen may be, by where its sheet is in its minute.           *)
Bound(s) ==
  IF waiting[s] # Idle THEN Ttl + waiting[s] ELSE IF s \in asked THEN Ttl - 1 ELSE Ttl

ShownAges == \A s \in Sheets : shown[s].age <= Bound(s)

IInv == TypeOK /\ HonestStamp /\ ShownAges

(* The numbers compared.                                                   *)
LEMMA Numbers ==
  /\ Ttl \in Nat /\ Ttl >= 1 /\ Patience \in Nat /\ Limit \in Nat /\ AgeCap \in Nat
  /\ Limit = Ttl + Patience /\ AgeCap = Ttl + Patience + 1
BY LiveAssumption DEF Limit, AgeCap

(* The types of the parts.                                                 *)
LEMMA Parts ==
  ASSUME TypeOK, NEW s \in Sheets
  PROVE  /\ waiting[s] \in -1..Patience
         /\ shown[s] \in [value : Value, age : 0..AgeCap]
         /\ snapshot.age \in -1..Ttl /\ snapshot.bytes \in 0..AgeCap /\ snapshot.value \in Value
BY DEF TypeOK

(* Initially.                                                              *)
LEMMA InitIInv == Init => IInv
<1> SUFFICES ASSUME Init PROVE IInv
  OBVIOUS
<1>1. 0 \in -1..Ttl /\ 0 \in 0..AgeCap /\ Idle \in -1..Patience
  BY Numbers DEF Idle
<1>2. TypeOK
  BY <1>1 DEF Init, TypeOK, Value
<1>3. HonestStamp
  BY DEF Init, HonestStamp
<1>4. ShownAges
  BY Numbers DEF Init, ShownAges, Bound
<1> QED BY <1>2, <1>3, <1>4 DEF IInv

(* Rendering something younger than the TTL.                               *)
LEMMA RenderKeeps ==
  ASSUME IInv, NEW s \in Sheets, NEW value \in Value, NEW age \in 0..AgeCap, age < Ttl,
         Render(s, value, age), waiting'[s] = Idle,
         \A t \in Sheets : t # s => waiting'[t] = waiting[t]
  PROVE  /\ shown' \in [Sheets -> [value : Value, age : 0..AgeCap]]
         /\ asked' \in SUBSET Sheets
         /\ ShownAges'
<1>1. [value |-> value, age |-> age] \in [value : Value, age : 0..AgeCap]
  OBVIOUS
<1>2. shown' = [shown EXCEPT ![s] = [value |-> value, age |-> age]] /\ asked' = asked \cup {s}
  BY DEF Render
<1>3. shown' \in [Sheets -> [value : Value, age : 0..AgeCap]]
  BY <1>1, <1>2 DEF IInv, TypeOK
<1>4. ASSUME NEW t \in Sheets PROVE shown'[t].age <= Bound(t)'
  <2>1. CASE t = s
    <3>1. shown'[t] = [value |-> value, age |-> age]
      BY <1>2, <2>1 DEF IInv, TypeOK
    <3>2. Bound(t)' = Ttl - 1
      BY <1>2, <2>1 DEF Bound
    <3> QED BY <3>1, <3>2, Numbers
  <2>2. CASE t # s
    <3>1. shown'[t] = shown[t] /\ Bound(t)' = Bound(t)
      BY <1>2, <2>2 DEF IInv, TypeOK, Bound
    <3> QED BY <3>1 DEF IInv, ShownAges
  <2> QED BY <2>1, <2>2
<1>5. asked' \in SUBSET Sheets
  BY <1>2 DEF IInv, TypeOK
<1> QED BY <1>3, <1>4, <1>5 DEF ShownAges

(* An interval passes.                                                     *)
LEMMA TickIInv == IInv /\ Tick => IInv'
<1> SUFFICES ASSUME IInv, Tick PROVE IInv'
  OBVIOUS
<1>1. Stamped(snapshot.age) \in -1..Ttl /\ Older(snapshot.bytes) \in 0..AgeCap
  BY Numbers DEF IInv, TypeOK, Stamped, Older, Future
<1>2. snapshot' = [snapshot EXCEPT !.age = Stamped(@), !.bytes = Older(@)]
  BY DEF Tick
<1>3. snapshot' \in [value : Value, age : -1..Ttl, bytes : 0..AgeCap]
  BY <1>1, <1>2 DEF IInv, TypeOK
<1>4. snapshot'.age = Stamped(snapshot.age) /\ snapshot'.bytes = Older(snapshot.bytes)
  BY <1>2 DEF IInv, TypeOK
<1>5. HonestStamp'
  BY <1>4, Numbers DEF IInv, TypeOK, HonestStamp, Stamped, Older, Future
<1>6. ASSUME NEW s \in Sheets
      PROVE /\ (IF waiting[s] = Idle THEN Idle ELSE waiting[s] + 1) \in -1..Patience
            /\ [shown[s] EXCEPT !.age = Older(@)] \in [value : Value, age : 0..AgeCap]
            /\ shown'[s].age <= Bound(s)'
  <2>1. waiting[s] \in -1..Patience /\ shown[s] \in [value : Value, age : 0..AgeCap]
    BY Parts DEF IInv
  <2>2. IF waiting[s] = Idle THEN s \in asked ELSE waiting[s] < Patience
    BY DEF Tick
  <2>3. waiting'[s] = (IF waiting[s] = Idle THEN Idle ELSE waiting[s] + 1) /\ asked' = {}
    BY DEF Tick
  <2>4. Older(shown[s].age) \in 0..AgeCap /\ Older(shown[s].age) <= shown[s].age + 1
    BY <2>1, Numbers DEF Older
  <2>5. shown'[s].age = Older(shown[s].age)
    BY <2>1 DEF Tick
  <2>6. shown[s].age <= Bound(s)
    BY DEF IInv, ShownAges
  <2>7. CASE waiting[s] = Idle
    <3>1. Bound(s) = Ttl - 1 /\ Bound(s)' = Ttl
      BY <2>2, <2>3, <2>7 DEF Bound
    <3> QED BY <2>1, <2>4, <2>5, <2>6, <2>7, <3>1, Numbers
  <2>8. CASE waiting[s] # Idle
    <3>1. waiting[s] \in Nat /\ waiting[s] + 1 \in -1..Patience /\ waiting[s] + 1 # Idle
      BY <2>1, <2>2, <2>8, Numbers DEF Idle
    <3>2. Bound(s) = Ttl + waiting[s] /\ Bound(s)' = Ttl + (waiting[s] + 1)
      BY <2>3, <2>8, <3>1 DEF Bound
    <3> QED BY <2>1, <2>4, <2>5, <2>6, <2>8, <3>1, <3>2, Numbers
  <2> QED BY <2>7, <2>8
<1>7. waiting' \in [Sheets -> -1..Patience] /\ shown' \in [Sheets -> [value : Value, age : 0..AgeCap]]
  BY <1>6 DEF Tick
<1>8. TypeOK'
  BY <1>3, <1>7 DEF Tick, IInv, TypeOK
<1>9. ShownAges'
  BY <1>6 DEF ShownAges
<1> QED BY <1>5, <1>8, <1>9 DEF IInv

(* Every step keeps the invariant.                                         *)
LEMMA NextIInv == IInv /\ [Next]_vars => IInv'
<1> SUFFICES ASSUME IInv, [Next]_vars PROVE IInv'
  OBVIOUS
<1>1. CASE FeedChanges
  BY <1>1 DEF FeedChanges, IInv, TypeOK, HonestStamp, ShownAges, Bound
<1>2. CASE Tick
  BY <1>2, TickIInv
<1>3. CASE ClockSetBack
  <2>1. Future \in -1..Ttl
    BY Numbers DEF Future
  <2>2. snapshot' = [snapshot EXCEPT !.age = Future]
    BY <1>3 DEF ClockSetBack
  <2>3. snapshot' \in [value : Value, age : -1..Ttl, bytes : 0..AgeCap] /\ snapshot'.age = Future
    BY <2>1, <2>2 DEF IInv, TypeOK
  <2> QED BY <1>3, <2>3 DEF ClockSetBack, IInv, TypeOK, HonestStamp, ShownAges, Bound
<1>4. ASSUME NEW s \in Sheets, ServeCached(s) PROVE IInv'
  <2>1. /\ snapshot.age \in -1..Ttl /\ snapshot.bytes \in 0..AgeCap /\ snapshot.value \in Value
        /\ Usable
    BY <1>4, Parts DEF ServeCached, IInv
  <2>2. snapshot.bytes < Ttl
    BY <2>1, Numbers DEF Usable, IInv, HonestStamp
  <2>3. Render(s, snapshot.value, snapshot.bytes) /\ waiting' = waiting /\ waiting[s] = Idle
        /\ snapshot' = snapshot /\ feed' = feed
    BY <1>4 DEF ServeCached
  <2>4. /\ shown' \in [Sheets -> [value : Value, age : 0..AgeCap]]
        /\ asked' \in SUBSET Sheets
        /\ ShownAges'
    BY <2>1, <2>2, <2>3, RenderKeeps
  <2> QED BY <2>3, <2>4 DEF IInv, TypeOK, HonestStamp
<1>5. ASSUME NEW s \in Sheets, StartRead(s) PROVE IInv'
  <2>1. waiting' = [waiting EXCEPT ![s] = 0] /\ waiting[s] = Idle
        /\ UNCHANGED <<feed, snapshot, asked, shown>>
    BY <1>5 DEF StartRead
  <2>2. waiting' \in [Sheets -> -1..Patience]
    BY <2>1, Numbers DEF IInv, TypeOK
  <2>3. ASSUME NEW t \in Sheets PROVE shown'[t].age <= Bound(t)'
    <3>1. shown[t].age <= Bound(t) /\ shown[t].age \in 0..AgeCap
      BY Parts DEF IInv, ShownAges
    <3>2. CASE t = s
      <4>1. waiting'[t] = 0 /\ 0 # Idle
        BY <2>1, <3>2 DEF IInv, TypeOK, Idle
      <4>2. Bound(t)' = Ttl + 0
        BY <4>1 DEF Bound
      <4>3. Bound(t) = Ttl \/ Bound(t) = Ttl - 1
        BY <2>1, <3>2 DEF Bound
      <4> QED BY <2>1, <3>1, <4>2, <4>3, Numbers
    <3>3. CASE t # s
      BY <2>1, <3>1, <3>3 DEF IInv, TypeOK, Bound
    <3> QED BY <3>2, <3>3
  <2> QED BY <2>1, <2>2, <2>3 DEF IInv, TypeOK, HonestStamp, ShownAges
<1>6. ASSUME NEW s \in Sheets, FinishRead(s) PROVE IInv'
  <2> DEFINE value == IF feed = "up" THEN "readings" ELSE "failed"
             age == IF waiting[s] < Ttl THEN waiting[s] ELSE Ttl
  <2>1. value \in Value
    BY DEF Value
  <2>2. waiting[s] \in 0..Patience
    BY <1>6, Parts DEF FinishRead, IInv, Idle
  <2>3. age \in 0..Ttl /\ 0 \in 0..AgeCap /\ 0 < Ttl
    BY <2>2, Numbers
  <2>4. /\ snapshot' = [value |-> value, age |-> age, bytes |-> 0]
        /\ Render(s, value, 0)
        /\ waiting' = [waiting EXCEPT ![s] = Idle]
        /\ feed' = feed
    BY <1>6 DEF FinishRead
  <2>5. snapshot' \in [value : Value, age : -1..Ttl, bytes : 0..AgeCap]
    BY <2>1, <2>3, <2>4
  <2>6. HonestStamp'
    BY <2>3, <2>4 DEF HonestStamp
  <2>7. Idle \in -1..Patience
    BY Numbers DEF Idle
  <2>8. waiting' \in [Sheets -> -1..Patience] /\ waiting'[s] = Idle
        /\ \A t \in Sheets : t # s => waiting'[t] = waiting[t]
    BY <2>4, <2>7 DEF IInv, TypeOK
  <2>9. /\ shown' \in [Sheets -> [value : Value, age : 0..AgeCap]]
        /\ asked' \in SUBSET Sheets
        /\ ShownAges'
    BY <2>1, <2>3, <2>4, <2>8, RenderKeeps
  <2> QED BY <2>4, <2>5, <2>6, <2>8, <2>9 DEF IInv, TypeOK
<1>7. CASE UNCHANGED vars
  BY <1>7 DEF vars, IInv, TypeOK, HonestStamp, ShownAges, Bound
<1> QED BY <1>1, <1>2, <1>3, <1>4, <1>5, <1>6, <1>7 DEF Next, Reask

(* The invariant holds for ever.                                           *)
THEOREM SpecIInv == Spec => []IInv
BY InitIInv, NextIInv, PTL DEF Spec

(* The types.                                                              *)
THEOREM TypeCorrect == Spec => []TypeOK
<1>1. IInv => TypeOK
  BY DEF IInv
<1> QED BY <1>1, SpecIInv, PTL

(* What an open sheet shows is never older than the TTL and one timeout.   *)
THEOREM ScreensStayYoung == Spec => []ShownNeverOld
<1>1. IInv => ShownNeverOld
  <2> SUFFICES ASSUME IInv, NEW s \in Sheets PROVE shown[s].age <= Limit
    BY DEF ShownNeverOld
  <2>1. waiting[s] \in -1..Patience /\ shown[s].age \in 0..AgeCap /\ shown[s].age <= Bound(s)
    BY Parts DEF IInv, ShownAges
  <2> QED BY <2>1, Numbers DEF Bound
<1> QED BY <1>1, SpecIInv, PTL
==============================================================================
