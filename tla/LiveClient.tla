----------------------------- MODULE LiveClient -----------------------------
(***************************************************************************)
(* Live.swift's LiveClient: one read of the water-temperature feed serves  *)
(* every pool sheet for two minutes, and every open sheet asks again each  *)
(* minute (FacilitySheetLoader).  An actor, and so reentrant: a sheet that *)
(* asks while another's read is awaited still finds the old snapshot.      *)
(*                                                                         *)
(* Time is the age of things, in re-ask intervals.                         *)
(***************************************************************************)
EXTENDS Integers, FiniteSets

CONSTANTS
  Sheets,   \* pool sheets with a task of their own
  Ttl,      \* LiveClient.ttl
  Patience  \* the transport's timeout

ASSUME LiveAssumption ==
  /\ Sheets # {}
  /\ Ttl \in Nat \ {0} /\ Patience \in Nat

VARIABLES
  feed,     \* whether the feed would answer now
  snapshot, \* LiveClient.snapshot: its value, the age its stamp states, and
            \* the age its bytes really have
  waiting,  \* [Sheets -> intervals since it asked and suspended, or Idle]
  asked,    \* the sheets that asked, or were answered, in this interval
  shown     \* [Sheets -> the value on screen, and the age of its bytes]

vars == <<feed, snapshot, waiting, asked, shown>>

Idle == -1
Future == -1               \* the age of a stamp the clock has been set back before
Limit == Ttl + Patience
AgeCap == Limit + 1        \* bound: ages of bytes stop growing here
Value == {"none", "readings", "failed"}

TypeOK ==
  /\ feed \in {"up", "down"}
  /\ snapshot \in [value : Value, age : -1..Ttl, bytes : 0..AgeCap]
  /\ waiting \in [Sheets -> -1..Patience]
  /\ asked \in SUBSET Sheets
  /\ shown \in [Sheets -> [value : Value, age : 0..AgeCap]]

Init ==
  /\ feed \in {"up", "down"}
  /\ snapshot = [value |-> "none", age |-> 0, bytes |-> 0]
  /\ waiting = [s \in Sheets |-> Idle]
  /\ asked = {}
  /\ shown = [s \in Sheets |-> [value |-> "none", age |-> 0]]

------------------------------------------------------------------------------

FeedChanges ==
  /\ feed' = IF feed = "up" THEN "down" ELSE "up"
  /\ UNCHANGED <<snapshot, waiting, asked, shown>>

(* A stamp past the TTL stays past it.                                     *)
Stamped(age) == IF age = Future \/ age = Ttl THEN age ELSE age + 1

Older(age) == IF age < AgeCap THEN age + 1 ELSE age

(* A read is over within its timeout, and a sheet asks again within an     *)
(* interval of its last answer.                                            *)
Tick ==
  /\ \A s \in Sheets : IF waiting[s] = Idle THEN s \in asked ELSE waiting[s] < Patience
  /\ snapshot' = [snapshot EXCEPT !.age = Stamped(@), !.bytes = Older(@)]
  /\ waiting' = [s \in Sheets |-> IF waiting[s] = Idle THEN Idle ELSE waiting[s] + 1]
  /\ asked' = {}
  /\ shown' = [s \in Sheets |-> [shown[s] EXCEPT !.age = Older(@)]]
  /\ UNCHANGED feed

(* Set back too far to catch up with the stamp again.                      *)
ClockSetBack ==
  /\ snapshot.value # "none"
  /\ snapshot' = [snapshot EXCEPT !.age = Future]
  /\ UNCHANGED <<feed, waiting, asked, shown>>

(* Mutants of Usable: a TTL one interval too long; a stamp in the future   *)
(* passes for a young one.                                                 *)
UsableAtTtl == snapshot.value # "none" /\ snapshot.age <= Ttl /\ snapshot.age # Future

UsableAhead == snapshot.value # "none" /\ snapshot.age < Ttl

(* now.timeIntervalSince(snapshot.at) < ttl, now >= snapshot.at            *)
Usable == snapshot.value # "none" /\ snapshot.age < Ttl /\ snapshot.age # Future

Render(s, value, age) ==
  /\ shown' = [shown EXCEPT ![s] = [value |-> value, age |-> age]]
  /\ asked' = asked \cup {s}

ServeCached(s) ==
  /\ waiting[s] = Idle
  /\ Usable
  /\ Render(s, snapshot.value, snapshot.bytes)
  /\ UNCHANGED <<feed, snapshot, waiting>>

StartRead(s) ==
  /\ waiting[s] = Idle
  /\ ~Usable
  /\ waiting' = [waiting EXCEPT ![s] = 0]
  /\ UNCHANGED <<feed, snapshot, asked, shown>>

(* read() returns, and the snapshot is stamped with the instant the sheet  *)
(* ASKED, whatever another sheet's read has put there since.  A failure is *)
(* kept like a reading.                                                    *)
FinishRead(s) ==
  /\ waiting[s] # Idle
  /\ LET value == IF feed = "up" THEN "readings" ELSE "failed"
     IN /\ snapshot' = [value |-> value,
                        age |-> IF waiting[s] < Ttl THEN waiting[s] ELSE Ttl,
                        bytes |-> 0]
        /\ Render(s, value, 0)
  /\ waiting' = [waiting EXCEPT ![s] = Idle]
  /\ UNCHANGED feed

Reask(s) == ServeCached(s) \/ StartRead(s)

Next ==
  \/ FeedChanges
  \/ Tick
  \/ ClockSetBack
  \/ \E s \in Sheets : Reask(s) \/ FinishRead(s)

(* An open sheet re-asks for as long as it is open; reads end (URLSession  *)
(* times out); time passes (SF: between two reads a tick is possible).     *)
Fairness ==
  /\ SF_vars(Tick)
  /\ \A s \in Sheets : WF_vars(Reask(s)) /\ WF_vars(FinishRead(s))

Spec == Init /\ [][Next]_vars
FairSpec == Spec /\ Fairness

------------------------------------------------------------------------------
(* Properties                                                              *)

(* What an open sheet shows is never older than the TTL and one timeout,   *)
(* whichever sheet's slow read wrote the snapshot last, whatever the clock *)
(* was set to, and for as long as it stays open (Live.swift:270-281, 317). *)
ShownNeverOld == \A s \in Sheets : shown[s].value = "readings" => shown[s].age <= Limit

(* A failure, cached on purpose, is not a trap: with the feed back for     *)
(* good every open sheet ends up showing readings, and so it does when the *)
(* clock has been set back under the snapshot (Live.swift:257-259, 318).   *)
FailureHeals ==
  <>[](feed = "up") => \A s \in Sheets : <>[](shown[s].value = "readings")

(* "two sheets opened at once must not become two fetches"                 *)
(* (Live.swift:254-255).                                                   *)
OneFetch == Cardinality({s \in Sheets : waiting[s] # Idle}) <= 1
==============================================================================
