------------------------------ MODULE GoldBuild ------------------------------
(***************************************************************************)
(* cli.build and its two cadences: four silver sources through the refresh *)
(* policy in pipeline order, composed into a gold store that is swapped in *)
(* at the very end, with the exit code that tells the caller what it got.  *)
(* A run of one source is one step here; SilverRefresh is its inside.      *)
(*                                                                         *)
(* What a lake document says is abstracted to its status and age, and, for *)
(* the scraped timetables, to two facts that outlive the run that wrote    *)
(* them: whether a scraped name resolved to no pool, and whether the city  *)
(* tariffs baked into them are of an older fetch than the lake's prices.   *)
(***************************************************************************)
EXTENDS RefreshPolicy

CONSTANTS
  Ttl,          \* [Source -> Nat], CachePolicy.ttl_s
  MaxStale,     \* [Source -> Nat], CachePolicy.max_stale_s
  ForcedSets,   \* the sets of sources commands force
  SourceFaults, \* the sources whose site may fail
  Origin,       \* the documents an origin of `lake pull` may have, with their sources
  EnvTypos,     \* TRUE when SWIMZH_CACHE may be misspelt
  AgeCap        \* bound: ages stop growing here

Source == {"roster", "prices", "schedules", "lane_plans"}

ASSUME BuildAssumption ==
  /\ Ttl \in [Source -> Nat]
  /\ MaxStale \in [Source -> Nat]
  /\ \A s \in Source : Ttl[s] <= MaxStale[s] /\ MaxStale[s] < AgeCap
  /\ ForcedSets \subseteq SUBSET Source
  /\ SourceFaults \subseteq Source
  /\ Origin \subseteq [source : Source, doc : [status : {"fresh", "stale"}, age : Nat]]
  /\ \A one \in Origin : one.doc.age <= AgeCap
  /\ EnvTypos \in BOOLEAN
  /\ AgeCap \in Nat

VARIABLES
  silver,      \* the lake: one document per source
  unresolved,  \* the schedules document names a pool no alias knows
  behind,      \* ... and is priced from an older fetch than the prices document
  gold,        \* the live store
  pc,          \* the phase the build is in
  force,       \* force / force_sources of the running build
  refreshed,   \* the headers gathered so far, by source
  exit         \* what the last command ended with

lakeVars == <<silver, unresolved, behind>>
vars == <<lakeVars, gold, pc, force, refreshed, exit>>

Ages == 0..AgeCap
NoSilver == [status |-> "absent", age |-> 0]
NoGold == [stored |-> FALSE, stale |-> FALSE, behind |-> FALSE]
NoHeaders == [s \in Source |-> "absent"]

(* EXIT codes 0, 1 and 2 (EXIT_BUILT_STALE).                               *)
ExitCode == {"none", "killed", "ok", "failed", "built_stale"}

(* The phase that follows each source's refresh.                           *)
After == [roster |-> "curated", prices |-> "schedules",
          schedules |-> "compose", lane_plans |-> "attach"]

Phase == {"idle", "curated", "compose", "attach", "commit"} \cup Source

TypeOK ==
  /\ silver \in [Source -> [status : Status, age : Ages]]
  /\ unresolved \in BOOLEAN
  /\ behind \in BOOLEAN
  /\ gold \in [stored : BOOLEAN, stale : BOOLEAN, behind : BOOLEAN]
  /\ pc \in Phase
  /\ force \in SUBSET Source
  /\ refreshed \in [Source -> Status]
  /\ exit \in ExitCode

Init ==
  /\ silver = [s \in Source |-> NoSilver]
  /\ unresolved = FALSE
  /\ behind = FALSE
  /\ gold = NoGold
  /\ pc = "idle"
  /\ force = {}
  /\ refreshed = NoHeaders
  /\ exit = "none"

------------------------------------------------------------------------------

Aged(doc) ==
  IF doc.status = "absent" THEN doc ELSE [doc EXCEPT !.age = Older(@, AgeCap)]

(* Hours go by between commands; a build is short against them.            *)
Tick ==
  /\ pc = "idle"
  /\ silver' = [s \in Source |-> Aged(silver[s])]
  /\ UNCHANGED <<unresolved, behind, gold, pc, force, refreshed, exit>>

(* `lake pull`, one iteration of its loop: a document of an earlier        *)
(* publish replaces the local one whatever their ages.  The origin is any  *)
(* directory or site, its export may be torn (files are copied one by      *)
(* one), and a source it lacks or that will not decode is skipped.         *)
Pull(s, doc, miss, older) ==
  /\ pc = "idle"
  /\ silver' = [silver EXCEPT ![s] = doc]
  /\ unresolved' = IF s = "schedules" THEN miss ELSE unresolved
  /\ behind' = IF s \in {"prices", "schedules"} THEN older ELSE behind
  /\ UNCHANGED <<gold, pc, force, refreshed, exit>>
PullAny == \E one \in Origin, miss \in BOOLEAN, older \in BOOLEAN : Pull(one.source, one.doc, miss, older)

(* build, scrape-gold, scrape-lanes, each with or without --refresh.       *)
Begin(forced) ==
  /\ pc = "idle"
  /\ pc' = "roster"
  /\ force' = forced
  /\ exit' = "none"
  /\ UNCHANGED <<lakeVars, gold, refreshed>>

(* A misspelt SWIMZH_CACHE ends main with code 2 before any phase.         *)
RejectCacheMode ==
  /\ EnvTypos
  /\ pc = "idle"
  /\ exit' = "built_stale"
  /\ UNCHANGED <<lakeVars, gold, pc, force, refreshed>>

IsDue(s) == Due(silver[s].status, silver[s].age, s \in force, Ttl[s])

(* The process is over, and what it held in memory with it.                *)
Ended == pc' = "idle" /\ force' = {} /\ refreshed' = NoHeaders

(* Mutant of Abort: what was written so far goes live.                     *)
AbortSwaps ==
  /\ Ended
  /\ exit' = "failed"
  /\ gold' = [stored |-> TRUE, stale |-> FALSE, behind |-> behind]

(* The end of a build that commits nothing: the temp store is discarded.   *)
Abort ==
  /\ Ended
  /\ exit' = "failed"
  /\ UNCHANGED gold

Reuse(s) ==
  /\ pc = s
  /\ ~IsDue(s)
  /\ refreshed' = [refreshed EXCEPT ![s] = silver[s].status]
  /\ pc' = After[s]
  /\ UNCHANGED <<lakeVars, gold, force, exit>>

(* Mutant of Fetch: the scrape prices from the tariffs the lake held       *)
(* before this build.                                                      *)
FetchOldPrices(s, miss) ==
  /\ pc = s
  /\ IsDue(s)
  /\ silver' = [silver EXCEPT ![s] = [status |-> "fresh", age |-> 0]]
  /\ unresolved' = IF s = "schedules" THEN miss ELSE unresolved
  /\ behind' = CASE s = "prices" -> silver["schedules"].status # "absent"
                 [] OTHER -> behind
  /\ refreshed' = [refreshed EXCEPT ![s] = "fresh"]
  /\ pc' = After[s]
  /\ UNCHANGED <<gold, force, exit>>

(* The lake is written at once, outside the store's swap.  A scrape of the *)
(* timetables bakes in the prices this build holds.                        *)
Fetch(s, miss) ==
  /\ pc = s
  /\ IsDue(s)
  /\ silver' = [silver EXCEPT ![s] = [status |-> "fresh", age |-> 0]]
  /\ unresolved' = IF s = "schedules" THEN miss ELSE unresolved
  /\ behind' = CASE s = "schedules" -> FALSE
                 [] s = "prices" -> silver["schedules"].status # "absent"
                 [] OTHER -> behind
  /\ refreshed' = [refreshed EXCEPT ![s] = "fresh"]
  /\ pc' = After[s]
  /\ UNCHANGED <<gold, force, exit>>

(* Mutant of FailedFetch: a stale keep is stamped as fetched now.          *)
FailedFetchRestamps(s, error) ==
  /\ pc = s
  /\ IsDue(s)
  /\ s \in SourceFaults
  /\ IF Verdict(silver[s].status, silver[s].age, error, MaxStale[s]) = "keep"
       THEN /\ silver' = [silver EXCEPT ![s] = [status |-> "stale", age |-> 0]]
            /\ refreshed' = [refreshed EXCEPT ![s] = "stale"]
            /\ pc' = After[s]
            /\ UNCHANGED <<unresolved, behind, gold, force, exit>>
       ELSE Abort /\ UNCHANGED lakeVars

FailedFetch(s, error) ==
  /\ pc = s
  /\ IsDue(s)
  /\ s \in SourceFaults
  /\ IF Verdict(silver[s].status, silver[s].age, error, MaxStale[s]) = "keep"
       THEN /\ silver' = [silver EXCEPT ![s].status = "stale"]
            /\ refreshed' = [refreshed EXCEPT ![s] = "stale"]
            /\ pc' = After[s]
            /\ UNCHANGED <<unresolved, behind, gold, force, exit>>
       ELSE Abort /\ UNCHANGED lakeVars

(* assemble_curated: the authored data and the roster must fit.            *)
AssembleCurated(ok) ==
  /\ pc = "curated"
  /\ IF ok THEN pc' = "prices" /\ UNCHANGED <<gold, force, refreshed, exit>> ELSE Abort
  /\ UNCHANGED lakeVars

(* _write_scraped_schedules: never fatal.                                  *)
ComposeSchedules ==
  /\ pc = "compose"
  /\ pc' = "lane_plans"
  /\ UNCHANGED <<lakeVars, gold, force, refreshed, exit>>

(* _write_lane_plans: fatal on an ambiguous join or when nothing attached. *)
AttachLanes(fatal) ==
  /\ pc = "attach"
  /\ IF fatal THEN Abort ELSE pc' = "commit" /\ UNCHANGED <<gold, force, refreshed, exit>>
  /\ UNCHANGED lakeVars

(* Mutant of Commit: only the scraped sources decide the exit code.        *)
CommitForgetsSources ==
  /\ pc = "commit"
  /\ gold' = [stored |-> TRUE,
              stale |-> \E s \in Source : refreshed[s] = "stale",
              behind |-> behind]
  /\ exit' = CASE unresolved -> "failed"
               [] ~unresolved /\ refreshed["schedules"] = "stale" -> "built_stale"
               [] OTHER -> "ok"
  /\ Ended
  /\ UNCHANGED lakeVars

(* write_source_freshness, staging.commit(), os.replace, the exit code.    *)
Commit ==
  /\ pc = "commit"
  /\ gold' = [stored |-> TRUE,
              stale |-> \E s \in Source : refreshed[s] = "stale",
              behind |-> behind]
  /\ exit' = CASE unresolved -> "failed"
               [] ~unresolved /\ (\E s \in Source : refreshed[s] = "stale") -> "built_stale"
               [] OTHER -> "ok"
  /\ Ended
  /\ UNCHANGED lakeVars

(* The process dies, or a document that will not decode raises.            *)
Killed ==
  /\ pc # "idle"
  /\ Ended
  /\ exit' = "killed"
  /\ UNCHANGED <<lakeVars, gold>>

Errors == {"server_error", "garbled"}

Phases ==
  \/ \E s \in Source : Reuse(s)
  \/ \E s \in Source, miss \in BOOLEAN : Fetch(s, miss)
  \/ \E s \in Source, error \in Errors : FailedFetch(s, error)
  \/ \E ok \in BOOLEAN : AssembleCurated(ok)
  \/ ComposeSchedules
  \/ \E fatal \in BOOLEAN : AttachLanes(fatal)
  \/ Commit

Next ==
  \/ Tick
  \/ PullAny
  \/ \E forced \in ForcedSets : Begin(forced)
  \/ RejectCacheMode
  \/ Phases
  \/ Killed

Spec == Init /\ [][Next]_vars

------------------------------------------------------------------------------
(* Properties                                                              *)

(* All or nothing: the live store is replaced only at the end of a build   *)
(* in which every source was reused, fetched or kept; an abort or a kill   *)
(* in any phase leaves it as it was (cli.py:601).                          *)
GoldAllOrNothing ==
  [][gold' # gold => \A s \in Source : refreshed[s] # "absent"]_vars

(* Exit 0 means every source fresh, and the live store is that build's     *)
(* (lake-silver-layer.md:52).                                              *)
ExitZeroIsFresh == exit = "ok" => gold.stored /\ ~gold.stale

(* No store is built on facts past max_stale, however they were obtained   *)
(* and whatever happened in the phases since (cli.py:592-604).             *)
BuiltWithinMaxStale ==
  pc # "idle" => \A s \in Source :
    refreshed[s] # "absent" => /\ silver[s].status = refreshed[s]
                               /\ silver[s].age <= MaxStale[s]

(* A command that forces the timetables and gets them is never priced from *)
(* tariffs older than its own prices row, though the two are separate      *)
(* documents with clocks of their own (cli.py:563-566, 653-689).           *)
ForcedTariffsMatch ==
  pc = "commit" /\ "schedules" \in force /\ refreshed["schedules"] = "fresh" => ~behind

(* The lake of a build obeys the lake's promise, whatever aborts it and    *)
(* whatever was pulled before: only a pull itself is free of it.           *)
Ledger == INSTANCE SilverLedger
  WITH Sources <- Source, KeepLimit <- MaxStale, Cap <- AgeCap, docs <- silver
LedgerKept == Ledger!LedgerInit /\ [][Ledger!LedgerNext \/ PullAny]_silver
==============================================================================
