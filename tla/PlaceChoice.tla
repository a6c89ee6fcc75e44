----------------------------- MODULE PlaceChoice -----------------------------
(***************************************************************************)
(* Where the phone's distances are measured from: TodayModel's choice of   *)
(* origin over LocationSource, which waits for a fix.  Both run on the     *)
(* main actor and suspend in one place only, the wait for the first usable *)
(* update (LocationSource.listen); whatever the reader does meanwhile runs *)
(* in between.                                                             *)
(*                                                                         *)
(* placeGeneration only ever answers whether the caller's ticket is still  *)
(* the newest, and one caller at most is suspended: `listener` says whose  *)
(* ticket it holds.                                                        *)
(***************************************************************************)
EXTENDS Integers

CONSTANTS
  Named,    \* the named places, "anywhere" among them
  MaxFixes  \* bound: fixes taken in one process

ASSUME PlaceAssumption ==
  /\ Named # {}
  /\ MaxFixes \in Nat \ {0}

VARIABLES
  permission, \* what iOS answers: not asked yet, granted, denied
  preferred,  \* LocationSource.preferred, kept across launches
  state,      \* LocationSource.state
  fix,        \* the fix `state` carries when it is fixed, by number
  fixedAt,    \* the fix LocationSource.fixedAt was stamped by, 0 for none
  listener,   \* LocationSource.isListening, and whether its ticket is current
  place,      \* Filters.place: a named one, or the device at some fix
  fixes,      \* fixes taken so far
  launched    \* the launch has run locateIfChosenBefore

source == <<preferred, state, fix, fixedAt, listener>>
vars == <<permission, source, place, fixes, launched>>

FixId == 0..MaxFixes
At(n) == [source |-> "device", where |-> n]
NamedPlace(p) == [source |-> "named", where |-> p]
Default == NamedPlace(CHOOSE p \in Named : TRUE)
OnDevice == place.source = "device"

TypeOK ==
  /\ permission \in {"unasked", "granted", "denied"}
  /\ preferred \in BOOLEAN
  /\ state \in {"idle", "locating", "fixed", "refused"}
  /\ fix \in FixId /\ fixedAt \in FixId /\ fixes \in FixId
  /\ listener \in {"none", "current", "superseded"}
  /\ place \in {At(n) : n \in FixId} \cup {NamedPlace(p) : p \in Named}
  /\ launched \in BOOLEAN
  /\ state = "locating" => listener # "none"

Init ==
  /\ permission \in {"unasked", "granted", "denied"}
  /\ preferred \in BOOLEAN
  /\ state = "idle"
  /\ fix = 0
  /\ fixedAt = 0
  /\ listener = "none"
  /\ place = Default
  /\ fixes = 0
  /\ launched = FALSE

------------------------------------------------------------------------------
(* The pieces                                                              *)

(* LocationSource.locate up to its wait; a call while one waits is ignored *)
(* and its caller, whose ticket is now the newest, goes straight on.       *)
Locate ==
  IF listener = "none"
    THEN listener' = "current" /\ state' = "locating" /\ fix' = 0
    ELSE listener' = "superseded" /\ UNCHANGED <<state, fix>>

(* A new ticket: whoever waits no longer holds the newest.                 *)
Supersede == listener' = IF listener = "none" THEN "none" ELSE "superseded"

(* devicePlace(location.state), installed by the caller that goes on.      *)
InstallDevice == place' = IF state = "fixed" THEN At(fix) ELSE place

------------------------------------------------------------------------------
(* The reader                                                              *)

(* useMyLocation; its row is disabled while a fix is being waited for.  A  *)
(* caller that does not wait finds no fix to install: state is never fixed *)
(* while somebody listens.                                                 *)
UseMyLocation ==
  /\ state # "locating"
  /\ preferred' = TRUE
  /\ Locate
  /\ UNCHANGED <<permission, fixedAt, place, fixes, launched>>

(* useNamedPlace, stopUsing in it.                                         *)
UseNamedPlace(p) ==
  /\ Supersede
  /\ preferred' = FALSE
  /\ state' = "idle"
  /\ fix' = 0
  /\ fixedAt' = 0
  /\ place' = NamedPlace(p)
  /\ UNCHANGED <<permission, fixes, launched>>

(* refreshLocation: a fix is refreshed only if there is one and the reader *)
(* is measured from it, and no prompt is shown; the caller then installs   *)
(* whatever state says.                                                    *)
MayRefresh == preferred /\ permission = "granted" /\ state = "fixed"

ReturnToForeground ==
  /\ IF MayRefresh
       THEN Locate /\ UNCHANGED place
       ELSE Supersede /\ UNCHANGED <<state, fix>> /\ InstallDevice
  /\ UNCHANGED <<permission, preferred, fixedAt, fixes, launched>>

(* Mutant of MayLocateAtLaunch: the preference alone.                      *)
LocateIfPreferred == preferred

(* locateIfChosenBefore, at launch.                                        *)
MayLocateAtLaunch == preferred /\ permission = "granted"

Launch ==
  /\ ~launched
  /\ launched' = TRUE
  /\ IF MayLocateAtLaunch THEN Locate ELSE UNCHANGED <<listener, state, fix>>
  /\ UNCHANGED <<permission, preferred, fixedAt, place, fixes>>

(* The process dies; only the preference is kept.                          *)
Relaunch ==
  /\ launched' = FALSE
  /\ state' = "idle"
  /\ fix' = 0
  /\ fixedAt' = 0
  /\ listener' = "none"
  /\ place' = Default
  /\ fixes' = 0
  /\ UNCHANGED <<permission, preferred>>

------------------------------------------------------------------------------
(* The phone                                                               *)

(* A dialog shown by the listener, or the Settings app.                    *)
PermissionBecomes(answer) ==
  /\ permission = "unasked" => listener # "none"
  /\ permission' = answer
  /\ UNCHANGED <<source, place, fixes, launched>>

(* Mutants of Resume: any waiting caller installs its fix; the fix is not  *)
(* dated.                                                                  *)
ResumeAnyTicket(outcome, n) ==
  /\ listener # "none"
  /\ state' = outcome
  /\ fix' = n
  /\ fixedAt' = IF outcome = "fixed" THEN n ELSE fixedAt
  /\ place' = IF outcome = "fixed" THEN At(n) ELSE place
  /\ listener' = "none"
  /\ UNCHANGED <<permission, preferred, launched>>

ResumeUndated(outcome, n) ==
  /\ listener # "none"
  /\ state' = outcome
  /\ fix' = n
  /\ place' = IF listener = "current" /\ outcome = "fixed" THEN At(n) ELSE place
  /\ listener' = "none"
  /\ UNCHANGED <<permission, preferred, fixedAt, launched>>

(* listen() returns, then locate(), then the caller that waited: the state *)
(* is installed whoever asked, the place only for the newest ticket.       *)
Resume(outcome, n) ==
  /\ listener # "none"
  /\ state' = outcome
  /\ fix' = n
  /\ fixedAt' = IF outcome = "fixed" THEN n ELSE fixedAt
  /\ place' = IF listener = "current" /\ outcome = "fixed" THEN At(n) ELSE place
  /\ listener' = "none"
  /\ UNCHANGED <<permission, preferred, launched>>

FixArrives ==
  /\ permission = "granted"
  /\ fixes < MaxFixes
  /\ fixes' = fixes + 1
  /\ Resume("fixed", fixes + 1)

Denied == permission = "denied" /\ Resume("refused", 0) /\ UNCHANGED fixes

(* Mutant of Deadline: looked at inside the loop, which may never spin.    *)
DeadlineInLoop ==
  permission = "granted" /\ fixes < MaxFixes /\ Resume("refused", 0) /\ UNCHANGED fixes

(* The loser of the race in listen(): twelve seconds are over.             *)
Deadline == Resume("refused", 0) /\ UNCHANGED fixes

Next ==
  \/ Launch
  \/ Relaunch
  \/ UseMyLocation
  \/ \E p \in Named : UseNamedPlace(p)
  \/ ReturnToForeground
  \/ \E answer \in {"granted", "denied"} : PermissionBecomes(answer)
  \/ FixArrives
  \/ Denied
  \/ Deadline

(* Satellites promise nothing; the deadline does.                          *)
Spec == Init /\ [][Next]_vars
FairSpec == Spec /\ WF_vars(Deadline)

------------------------------------------------------------------------------
(* Properties                                                              *)

(* Measured from the phone only while the reader wants to be, whatever was *)
(* tapped while the fix was coming (TodayModel.swift:132-137).             *)
ControlsAgree == OnDevice => preferred

(* Nothing but a return to the foreground ever parts the two controls:     *)
(* while a fix is awaited, no order of taps, refusals, late fixes and      *)
(* launches installs it for a reader who has turned away.                  *)
AgreeInForeground == [][ControlsAgree => ControlsAgree' \/ ReturnToForeground]_vars

(* Once nothing is awaited, a reader who last chose the phone and got a    *)
(* fix is measured from it (TodayModel.swift:139).                         *)
NewestChoiceWins == (listener = "none" /\ preferred /\ state = "fixed") => OnDevice

(* A device place always has a date to be caveated by, never one before    *)
(* the fix it came from, whatever was refused or superseded since          *)
(* (LocationSource.swift:81-87).                                           *)
DevicePlaceIsDated == OnDevice => place.where >= 1 /\ place.where <= fixedAt

(* Only a tap may put a permission dialog up: never a launch or a return   *)
(* to the foreground (TodayModel.swift:271, LocationSource.swift:133).     *)
NoPromptUnasked ==
  [][permission = "unasked" /\ listener = "none" /\ listener' # "none"
       => launched' = launched /\ state # "fixed"]_vars

(* A wait ends, with no help from the sky: a control that cannot place the *)
(* reader says so (LocationSource.swift:37).                               *)
WaitEnds == (listener # "none") ~> (listener = "none")
==============================================================================
