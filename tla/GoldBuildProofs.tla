--------------------------- MODULE GoldBuildProofs ---------------------------
(***************************************************************************)
(* GoldBuild for every TTL and max_stale table, every set of forced        *)
(* sources and every pattern of failing sites.                             *)
(*                                                                         *)
(* That the live store is replaced only by a complete build is a statement *)
(* about the commit step; it needs PhaseOrder, the invariant that a build  *)
(* at a given phase has been through every source before it.               *)
(***************************************************************************)
EXTENDS GoldBuild, TLAPS

(* The sources a build has behind it at each phase.                        *)
Done(phase) ==
  CASE phase \in {"curated", "prices"} -> {"roster"}
    [] phase = "schedules" -> {"roster", "prices"}
    [] phase \in {"compose", "lane_plans"} -> {"roster", "prices", "schedules"}
    [] phase \in {"attach", "commit"} -> Source
    [] OTHER -> {}

PhaseOrder == \A s \in Done(pc) : refreshed[s] # "absent"

(* Between commands nothing is held in memory.                             *)
NothingHeld == pc = "idle" => refreshed = NoHeaders

IInv == TypeOK /\ PhaseOrder /\ NothingHeld /\ ExitZeroIsFresh /\ BuiltWithinMaxStale

(* The verdict keeps only a document that exists and is young enough.      *)
LEMMA KeepImpliesYoung ==
  ASSUME NEW status \in Status, NEW age \in Nat, NEW error, NEW maxStale \in Nat,
         Verdict(status, age, error, maxStale) = "keep"
  PROVE  status # "absent" /\ age <= maxStale
BY DEF Verdict, Status

(* One more source done is what the next phase asks for.                   *)
LEMMA DoneAfter ==
  ASSUME NEW s \in Source
  PROVE  /\ After[s] \in Phase
         /\ Done(After[s]) \subseteq Done(s) \cup {s}
<1>1. CASE s = "roster"
  BY <1>1 DEF After, Done, Source, Phase
<1>2. CASE s = "prices"
  BY <1>2 DEF After, Done, Source, Phase
<1>3. CASE s = "schedules"
  BY <1>3 DEF After, Done, Source, Phase
<1>4. CASE s = "lane_plans"
  <2>1. After[s] = "attach" /\ Done("attach") = Source
    BY <1>4 DEF After, Done
  <2>2. Done(s) = {"roster", "prices", "schedules"}
    BY <1>4 DEF Done
  <2> QED
    BY <1>4, <2>1, <2>2 DEF Source, Phase
<1> QED
  BY <1>1, <1>2, <1>3, <1>4 DEF Source

(* Initially.                                                              *)
LEMMA InitIInv == Init => IInv
<1> SUFFICES ASSUME Init PROVE IInv
  OBVIOUS
<1>1. TypeOK
  <2>1. silver \in [Source -> [status : Status, age : Ages]]
    BY BuildAssumption DEF Init, NoSilver, Status, Ages
  <2>2. gold \in [stored : BOOLEAN, stale : BOOLEAN, behind : BOOLEAN]
    BY DEF Init, NoGold
  <2>3. refreshed \in [Source -> Status]
    BY DEF Init, NoHeaders, Status
  <2> QED
    BY <2>1, <2>2, <2>3 DEF Init, TypeOK, Phase, ExitCode
<1>2. PhaseOrder /\ NothingHeld /\ ExitZeroIsFresh /\ BuiltWithinMaxStale
  BY DEF Init, PhaseOrder, NothingHeld, Done, Source, ExitZeroIsFresh, BuiltWithinMaxStale
<1> QED
  BY <1>1, <1>2 DEF IInv

(* The abort of a build: nothing but the phase and the exit code.          *)
LEMMA AbortIInv ==
  ASSUME IInv, Abort, UNCHANGED lakeVars
  PROVE  IInv'
<1>1. TypeOK'
  BY DEF IInv, Abort, Ended, NoHeaders, lakeVars, TypeOK, Phase, ExitCode, Status
<1> QED
  BY <1>1 DEF IInv, Abort, Ended, lakeVars, PhaseOrder, NothingHeld, Done, ExitZeroIsFresh, BuiltWithinMaxStale

(* A source's refresh that succeeds: its header joins the others.          *)
LEMMA RefreshedIInv ==
  ASSUME IInv, NEW s \in Source, pc = s, NEW doc \in [status : Status, age : Ages],
         doc.status # "absent", doc.age <= MaxStale[s],
         silver' = [silver EXCEPT ![s] = doc],
         refreshed' = [refreshed EXCEPT ![s] = doc.status],
         unresolved' \in BOOLEAN, behind' \in BOOLEAN,
         pc' = After[s], UNCHANGED <<gold, force, exit>>
  PROVE  IInv'
<1> USE DEF IInv
<1>1. TypeOK'
  BY DoneAfter DEF TypeOK, Phase, Source
<1>2. PhaseOrder'
  <2> SUFFICES ASSUME NEW q \in Done(After[s]) PROVE refreshed'[q] # "absent"
    BY DEF PhaseOrder
  <2>1. q \in Source
    BY DEF Done, After, Source
  <2>2. CASE q = s
    BY <2>2 DEF TypeOK
  <2>3. CASE q # s
    BY <2>1, <2>3, DoneAfter DEF TypeOK, PhaseOrder
  <2> QED
    BY <2>2, <2>3
<1>3. ExitZeroIsFresh'
  BY DEF ExitZeroIsFresh
<1>4. BuiltWithinMaxStale'
  <2> SUFFICES ASSUME NEW q \in Source, refreshed'[q] # "absent"
               PROVE  silver'[q].status = refreshed'[q] /\ silver'[q].age <= MaxStale[q]
    BY DEF BuiltWithinMaxStale
  <2>1. pc # "idle"
    BY DEF Source
  <2>2. CASE q = s
    BY <2>2 DEF TypeOK
  <2>3. CASE q # s
    BY <2>1, <2>3 DEF TypeOK, BuiltWithinMaxStale
  <2> QED
    BY <2>2, <2>3
<1>5. NothingHeld'
  BY DEF NothingHeld, After, Source
<1> QED
  BY <1>1, <1>2, <1>3, <1>4, <1>5

(* Every step keeps the invariant.                                         *)
LEMMA NextIInv == IInv /\ [Next]_vars => IInv'
<1> SUFFICES ASSUME IInv, [Next]_vars PROVE IInv'
  OBVIOUS
<1> USE BuildAssumption
<1>1. CASE Tick
  <2>1. silver' \in [Source -> [status : Status, age : Ages]]
    BY <1>1 DEF Tick, IInv, TypeOK, Aged, Older, Ages
  <2> QED
    BY <1>1, <2>1 DEF Tick, IInv, TypeOK, PhaseOrder, NothingHeld, ExitZeroIsFresh, BuiltWithinMaxStale
<1>2. ASSUME NEW forced \in ForcedSets, Begin(forced)
      PROVE  IInv'
  BY <1>2 DEF Begin, IInv, lakeVars, TypeOK, Phase, Source, ExitCode, Status, NoHeaders,
              PhaseOrder, NothingHeld, Done, ExitZeroIsFresh, BuiltWithinMaxStale
<1>3. CASE RejectCacheMode
  BY <1>3 DEF RejectCacheMode, IInv, lakeVars, TypeOK, ExitCode, PhaseOrder, NothingHeld, ExitZeroIsFresh,
              BuiltWithinMaxStale
<1>4. ASSUME NEW s \in Source, Reuse(s)
      PROVE  IInv'
  <2>1. /\ silver[s] \in [status : Status, age : Ages] /\ silver[s].status # "absent"
        /\ silver[s].age <= MaxStale[s]
    BY <1>4 DEF Reuse, IsDue, Due, IInv, TypeOK, Ages
  <2>2. silver' = [silver EXCEPT ![s] = silver[s]]
    BY <1>4 DEF Reuse, lakeVars, IInv, TypeOK
  <2> QED
    BY <1>4, <2>1, <2>2, RefreshedIInv DEF Reuse, lakeVars, IInv, TypeOK
<1>5. ASSUME NEW s \in Source, NEW miss \in BOOLEAN, Fetch(s, miss)
      PROVE  IInv'
  <2> DEFINE doc == [status |-> "fresh", age |-> 0]
  <2>1. doc \in [status : Status, age : Ages] /\ doc.status = "fresh" /\ doc.age <= MaxStale[s]
    BY DEF Status, Ages
  <2>2. unresolved' \in BOOLEAN
    BY <1>5 DEF Fetch, IInv, TypeOK
  <2>3. behind' \in BOOLEAN
    BY <1>5 DEF Fetch, IInv, TypeOK
  <2>4. /\ silver' = [silver EXCEPT ![s] = doc]
        /\ refreshed' = [refreshed EXCEPT ![s] = doc.status]
        /\ pc = s /\ pc' = After[s] /\ UNCHANGED <<gold, force, exit>>
    BY <1>5 DEF Fetch
  <2> HIDE DEF doc
  <2> QED
    BY <2>1, <2>2, <2>3, <2>4, RefreshedIInv
<1>6. ASSUME NEW s \in Source, NEW error \in Errors, FailedFetch(s, error)
      PROVE  IInv'
  <2>1. CASE Verdict(silver[s].status, silver[s].age, error, MaxStale[s]) = "keep"
    <3> DEFINE doc == [silver[s] EXCEPT !.status = "stale"]
    <3>1. silver[s] \in [status : Status, age : Ages] /\ silver[s].age \in Nat
      BY DEF IInv, TypeOK, Ages
    <3>2. silver[s].age <= MaxStale[s]
      BY <2>1, <3>1, KeepImpliesYoung
    <3>3. doc \in [status : Status, age : Ages] /\ doc.status = "stale" /\ doc.age <= MaxStale[s]
      BY <3>1, <3>2 DEF Status
    <3>4. /\ silver' = [silver EXCEPT ![s] = doc]
          /\ refreshed' = [refreshed EXCEPT ![s] = doc.status]
      BY <1>6, <2>1, <3>3 DEF FailedFetch, IInv, TypeOK
    <3>5. /\ pc = s /\ pc' = After[s] /\ UNCHANGED <<gold, force, exit>>
          /\ unresolved' \in BOOLEAN /\ behind' \in BOOLEAN
      BY <1>6, <2>1 DEF FailedFetch, IInv, TypeOK
    <3> HIDE DEF doc
    <3> QED
      BY <3>3, <3>4, <3>5, RefreshedIInv
  <2>2. CASE Verdict(silver[s].status, silver[s].age, error, MaxStale[s]) # "keep"
    BY <1>6, <2>2, AbortIInv DEF FailedFetch
  <2> QED
    BY <2>1, <2>2
<1>7. ASSUME NEW ok \in BOOLEAN, AssembleCurated(ok)
      PROVE  IInv'
  <2>1. CASE ok
    BY <1>7, <2>1 DEF AssembleCurated, IInv, lakeVars, TypeOK, Phase, Source, PhaseOrder, NothingHeld,
                      Done, ExitZeroIsFresh, BuiltWithinMaxStale
  <2>2. CASE ~ok
    BY <1>7, <2>2, AbortIInv DEF AssembleCurated
  <2> QED
    BY <2>1, <2>2
<1>8. CASE ComposeSchedules
  BY <1>8 DEF ComposeSchedules, IInv, lakeVars, TypeOK, Phase, Source, PhaseOrder, NothingHeld,
              Done, ExitZeroIsFresh, BuiltWithinMaxStale
<1>9. ASSUME NEW fatal \in BOOLEAN, AttachLanes(fatal)
      PROVE  IInv'
  <2>1. CASE ~fatal
    BY <1>9, <2>1 DEF AttachLanes, IInv, lakeVars, TypeOK, Phase, Source, PhaseOrder, NothingHeld,
                      Done, ExitZeroIsFresh, BuiltWithinMaxStale
  <2>2. CASE fatal
    BY <1>9, <2>2, AbortIInv DEF AttachLanes
  <2> QED
    BY <2>1, <2>2
<1>10. CASE Commit
  <2>1. TypeOK'
    BY <1>10 DEF Commit, Ended, NoHeaders, Status, IInv, lakeVars, TypeOK, Phase, ExitCode
  <2>2. ExitZeroIsFresh'
    BY <1>10 DEF Commit, IInv, TypeOK, ExitZeroIsFresh
  <2> QED
    BY <1>10, <2>1, <2>2 DEF Commit, Ended, IInv, PhaseOrder, NothingHeld, Done, Source,
                             BuiltWithinMaxStale
<1>11. CASE Killed
  <2>1. TypeOK'
    BY <1>11 DEF Killed, Ended, NoHeaders, IInv, lakeVars, TypeOK, Phase, ExitCode, Status
  <2> QED
    BY <1>11, <2>1 DEF Killed, Ended, IInv, lakeVars, PhaseOrder, NothingHeld, Done, ExitZeroIsFresh,
                       BuiltWithinMaxStale
<1>12. CASE PullAny
  <2> PICK one \in Origin, miss \in BOOLEAN, older \in BOOLEAN : Pull(one.source, one.doc, miss, older)
    BY <1>12 DEF PullAny
  <2>1. one.source \in Source /\ one.doc \in [status : Status, age : Ages]
    BY DEF Status, Ages
  <2>2. TypeOK'
    BY <2>1 DEF Pull, IInv, TypeOK
  <2> QED
    BY <2>2 DEF Pull, IInv, PhaseOrder, NothingHeld, ExitZeroIsFresh, BuiltWithinMaxStale
<1>13. CASE UNCHANGED vars
  BY <1>13 DEF vars, lakeVars, IInv, TypeOK, PhaseOrder, NothingHeld, ExitZeroIsFresh, BuiltWithinMaxStale
<1> QED
  BY <1>1, <1>2, <1>3, <1>4, <1>5, <1>6, <1>7, <1>8, <1>9, <1>10, <1>11, <1>12, <1>13 DEF Next, Phases

(* Every behaviour keeps the phase order and the age bounds.               *)
THEOREM SpecIInv == Spec => []IInv
BY InitIInv, NextIInv, PTL DEF Spec

(* The variables keep their types.                                         *)
THEOREM TypeCorrect == Spec => []TypeOK
<1>1. IInv => TypeOK
  BY DEF IInv
<1> QED
  BY <1>1, SpecIInv, PTL

(* A build never works from facts past their max_stale (cli.py:592-604).   *)
THEOREM NothingTooOld == Spec => []BuiltWithinMaxStale
<1>1. IInv => BuiltWithinMaxStale
  BY DEF IInv
<1> QED
  BY <1>1, SpecIInv, PTL

(* Exit 0 means an all-fresh live store (lake-silver-layer.md:52).         *)
THEOREM ExitZeroTold == Spec => []ExitZeroIsFresh
<1>1. IInv => ExitZeroIsFresh
  BY DEF IInv
<1> QED
  BY <1>1, SpecIInv, PTL

(* The live store is replaced only after every source was refreshed, in    *)
(* this build: an abort in any phase leaves it as it was (cli.py:601).     *)
THEOREM AllOrNothing == Spec => GoldAllOrNothing
<1>1. IInv /\ [Next]_vars
        => [gold' # gold => \A s \in Source : refreshed[s] # "absent"]_vars
  <2> SUFFICES ASSUME IInv, Next, gold' # gold
               PROVE  \A s \in Source : refreshed[s] # "absent"
    OBVIOUS
  <2>1. CASE Commit
    BY <2>1 DEF Commit, IInv, PhaseOrder, Done, Source
  <2>2. CASE ~Commit
    BY <2>2 DEF Next, Phases, Tick, PullAny, Pull, Begin, RejectCacheMode, Reuse, Fetch,
                FailedFetch, AssembleCurated, ComposeSchedules, AttachLanes, Abort, Ended, Killed
  <2> QED
    BY <2>1, <2>2
<1> QED
  BY <1>1, SpecIInv, PTL DEF Spec, GoldAllOrNothing

(* Past the timetables, a forced scrape that succeeded is priced from the  *)
(* prices row of its own build, and no later phase fetches prices again.   *)
Priced ==
  pc \in {"compose", "lane_plans", "attach", "commit"} /\ "schedules" \in force
    /\ refreshed["schedules"] = "fresh" => ~behind

LEMMA NextPriced == IInv /\ Priced /\ [Next]_vars => Priced'
<1> SUFFICES ASSUME IInv, Priced, [Next]_vars PROVE Priced'
  OBVIOUS
<1> USE DEF Priced
<1>1. ASSUME NEW s \in Source, Reuse(s) PROVE Priced'
  <2>1. s = "schedules" => "schedules" \notin force
    BY <1>1 DEF Reuse, IsDue, Due
  <2>2. s = "schedules" \/ pc \notin {"roster", "prices"} \/ pc' \in {"curated", "schedules"}
    BY <1>1 DEF Reuse, After
  <2>3. s # "schedules" => refreshed'["schedules"] = refreshed["schedules"]
    BY <1>1 DEF Reuse, IInv, TypeOK, Source
  <2> QED
    BY <1>1, <2>1, <2>2, <2>3 DEF Reuse, After, Source, lakeVars
<1>2. ASSUME NEW s \in Source, NEW miss \in BOOLEAN, Fetch(s, miss) PROVE Priced'
  <2>1. s = "schedules" => behind' = FALSE
    BY <1>2 DEF Fetch
  <2>2. s \in {"roster", "prices"} => pc' \in {"curated", "schedules"}
    BY <1>2 DEF Fetch, After
  <2>3. s = "lane_plans" => behind' = behind /\ refreshed'["schedules"] = refreshed["schedules"]
    BY <1>2 DEF Fetch, IInv, TypeOK, Source
  <2> QED
    BY <1>2, <2>1, <2>2, <2>3 DEF Fetch, Source
<1>3. ASSUME NEW s \in Source, NEW error \in Errors, FailedFetch(s, error) PROVE Priced'
  <2>1. CASE Verdict(silver[s].status, silver[s].age, error, MaxStale[s]) = "keep"
    <3>1. refreshed' = [refreshed EXCEPT ![s] = "stale"] /\ pc' = After[s] /\ UNCHANGED <<behind, force>>
      BY <1>3, <2>1 DEF FailedFetch
    <3>2. s = "schedules" => refreshed'["schedules"] = "stale"
      BY <3>1 DEF IInv, TypeOK, Source
    <3>3. s # "schedules" => refreshed'["schedules"] = refreshed["schedules"]
      BY <3>1 DEF IInv, TypeOK, Source
    <3> QED
      BY <1>3, <3>1, <3>2, <3>3 DEF FailedFetch, After, Source
  <2>2. CASE Verdict(silver[s].status, silver[s].age, error, MaxStale[s]) # "keep"
    BY <1>3, <2>2 DEF FailedFetch, Abort, Ended
  <2> QED
    BY <2>1, <2>2
<1>4. ASSUME NEW ok \in BOOLEAN, AssembleCurated(ok) PROVE Priced'
  BY <1>4 DEF AssembleCurated, Abort, Ended
<1>5. ASSUME NEW fatal \in BOOLEAN, AttachLanes(fatal) PROVE Priced'
  BY <1>5 DEF AttachLanes, Abort, Ended, lakeVars
<1>6. CASE Tick \/ PullAny \/ RejectCacheMode
  BY <1>6 DEF Tick, PullAny, Pull, RejectCacheMode
<1>7. CASE ComposeSchedules \/ Commit \/ Killed \/ \E forced \in ForcedSets : Begin(forced)
  BY <1>7 DEF ComposeSchedules, Commit, Killed, Begin, Ended, lakeVars
<1>8. CASE UNCHANGED vars
  BY <1>8 DEF vars, lakeVars
<1> QED
  BY <1>1, <1>2, <1>3, <1>4, <1>5, <1>6, <1>7, <1>8 DEF Next, Phases

(* Forced timetables are priced from tariffs as new as the prices row,     *)
(* though the two documents have clocks of their own (cli.py:653-689).     *)
THEOREM TariffsTogether == Spec => []ForcedTariffsMatch
<1>1. Init => Priced
  BY DEF Init, Priced
<1>2. Priced => ForcedTariffsMatch
  BY DEF Priced, ForcedTariffsMatch
<1> QED
  BY <1>1, <1>2, NextPriced, SpecIInv, PTL DEF Spec

(* Every step but a pull is a step of the lake's promise or none, so the   *)
(* lake's promise holds of builds that abort, die or force what they like  *)
(* (refresh.py:100-143, lake.py:191-222).                                  *)
THEOREM BuildKeepsLedger == Spec => LedgerKept
<1>1. Init => Ledger!LedgerInit
  BY DEF Init, NoSilver, Ledger!LedgerInit, Ledger!Unfetched
<1>2. IInv /\ [Next]_vars => [Ledger!LedgerNext \/ PullAny]_silver
  <2> SUFFICES ASSUME IInv, Next, ~PullAny, silver' # silver PROVE Ledger!LedgerNext
    BY DEF vars, lakeVars
  <2> USE DEF Ledger!LedgerNext
  <2>1. CASE Tick
    <3>1. \A s \in Source : Aged(silver[s]) = Ledger!Grown(silver[s])
      BY DEF Aged, Older, Ledger!Grown, Ledger!Older, IInv, TypeOK
    <3> QED
      BY <2>1, <3>1 DEF Tick, Ledger!GrowOlder
  <2>2. ASSUME NEW s \in Source, NEW miss \in BOOLEAN, Fetch(s, miss)
        PROVE  Ledger!LedgerNext
    BY <2>2 DEF Fetch, Ledger!Renew
  <2>3. ASSUME NEW s \in Source, NEW error \in Errors, FailedFetch(s, error)
        PROVE  Ledger!LedgerNext
    <3>1. silver[s] \in [status : Status, age : Ages] /\ silver[s].age \in Nat
      BY DEF IInv, TypeOK, Ages
    <3>2. Verdict(silver[s].status, silver[s].age, error, MaxStale[s]) = "keep"
          /\ silver' = [silver EXCEPT ![s].status = "stale"]
      BY <2>3 DEF FailedFetch, Abort, Ended, lakeVars
    <3>3. silver[s].status # "absent" /\ silver[s].age <= MaxStale[s]
      <4>1. silver[s].status \in Status /\ MaxStale[s] \in Nat
        BY <3>1, BuildAssumption
      <4> QED
        BY <3>1, <3>2, <4>1, KeepImpliesYoung
    <3>4. silver' = [silver EXCEPT ![s] = [status |-> "stale", age |-> silver[s].age]]
      <4>1. [silver[s] EXCEPT !.status = "stale"] = [status |-> "stale", age |-> silver[s].age]
        BY <3>1
      <4> QED
        BY <3>2, <4>1
    <3> QED
      BY <3>3, <3>4 DEF Ledger!Keep
  <2>4. CASE ~Tick /\ (\A s \in Source, miss \in BOOLEAN : ~Fetch(s, miss))
             /\ (\A s \in Source, error \in Errors : ~FailedFetch(s, error))
    BY <2>4 DEF Next, Phases, lakeVars, Begin, RejectCacheMode, Reuse, AssembleCurated,
                ComposeSchedules, AttachLanes, Abort, Ended, Commit, Killed
  <2> QED
    BY <2>1, <2>2, <2>3, <2>4
<1> QED
  BY <1>1, <1>2, SpecIInv, PTL DEF Spec, LedgerKept
==============================================================================
