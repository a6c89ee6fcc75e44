-------------------------- MODULE PlaceChoiceProofs --------------------------
(***************************************************************************)
(* Proofs about PlaceChoice, for every set of named places and any number  *)
(* of fixes.                                                               *)
(***************************************************************************)
EXTENDS PlaceChoice, TLAPS

(* Every fix anybody holds is a dated one of this process, and a fix held  *)
(* means the permission question has been answered.                        *)
FixesAreDated ==
  /\ fixedAt <= fixes
  /\ state = "fixed" => fix >= 1 /\ fix <= fixedAt
  /\ permission = "unasked" => state # "fixed"

IInv == TypeOK /\ FixesAreDated /\ DevicePlaceIsDated

(* The default place is a named one.                                       *)
LEMMA DefaultIsNamed == Default \in {NamedPlace(p) : p \in Named} /\ Default.source = "named"
<1>1. (CHOOSE p \in Named : TRUE) \in Named
  BY PlaceAssumption
<1> QED BY <1>1 DEF Default, NamedPlace

(* Initially.                                                              *)
LEMMA InitIInv == Init => IInv
<1> SUFFICES ASSUME Init PROVE IInv
  OBVIOUS
<1>1. 0 \in FixId
  BY PlaceAssumption DEF FixId
<1>2. TypeOK
  BY <1>1, DefaultIsNamed DEF Init, TypeOK
<1>3. FixesAreDated
  BY DEF Init, FixesAreDated
<1>4. DevicePlaceIsDated
  BY DefaultIsNamed DEF Init, DevicePlaceIsDated, OnDevice
<1> QED BY <1>2, <1>3, <1>4 DEF IInv

(* A listener that resumes, with a fix of its own or without one.          *)
LEMMA ResumeIInv ==
  ASSUME NEW outcome \in {"fixed", "refused"}, NEW n \in FixId,
         IInv, Resume(outcome, n), fixes' \in FixId, fixes' >= fixes,
         outcome = "fixed" => permission = "granted" /\ n = fixes + 1 /\ fixes' = n
  PROVE IInv'
<1> USE DEF IInv
<1>0. fixes \in Nat /\ fixedAt \in Nat /\ fix \in Nat /\ n \in Nat /\ fixes' \in Nat
  BY PlaceAssumption DEF TypeOK, FixId
<1>1. permission' = permission /\ preferred' = preferred /\ launched' = launched
      /\ listener' = "none" /\ state' = outcome /\ fix' = n
  BY DEF Resume
<1>2. CASE outcome = "fixed"
  <2>1. fixedAt' = n
    BY <1>2 DEF Resume
  <2>2. CASE listener = "current"
    <3>1. place' = At(n)
      BY <1>2, <2>2 DEF Resume
    <3>2. TypeOK'
      BY <1>1, <1>2, <2>1, <3>1 DEF TypeOK
    <3>3. FixesAreDated'
      BY <1>0, <1>1, <1>2, <2>1 DEF FixesAreDated
    <3>4. DevicePlaceIsDated'
      BY <1>0, <1>2, <2>1, <3>1 DEF DevicePlaceIsDated, OnDevice, At
    <3> QED BY <3>2, <3>3, <3>4
  <2>3. CASE listener # "current"
    <3>1. place' = place
      BY <2>3 DEF Resume
    <3>2. TypeOK'
      BY <1>1, <1>2, <2>1, <3>1 DEF TypeOK
    <3>3. FixesAreDated'
      BY <1>0, <1>1, <1>2, <2>1 DEF FixesAreDated
    <3>4. OnDevice => place.where \in Nat
      BY PlaceAssumption DEF TypeOK, OnDevice, At, NamedPlace, FixId
    <3>5. DevicePlaceIsDated'
      BY <1>0, <1>2, <2>1, <3>1, <3>4 DEF DevicePlaceIsDated, OnDevice, FixesAreDated
    <3> QED BY <3>2, <3>3, <3>5
  <2> QED BY <2>2, <2>3
<1>3. CASE outcome # "fixed"
  <2>1. fixedAt' = fixedAt /\ place' = place /\ state' = "refused"
    BY <1>3 DEF Resume
  <2>2. TypeOK'
    BY <1>1, <2>1 DEF TypeOK
  <2>3. FixesAreDated'
    BY <1>0, <1>1, <2>1 DEF FixesAreDated
  <2>4. DevicePlaceIsDated'
    BY <2>1 DEF DevicePlaceIsDated, OnDevice
  <2> QED BY <2>2, <2>3, <2>4
<1> QED BY <1>2, <1>3

(* A fix begins to be waited for.                                          *)
LEMMA LocateIInv ==
  ASSUME IInv, Locate, preferred' \in BOOLEAN, launched' \in BOOLEAN,
         UNCHANGED <<permission, fixedAt, place, fixes>>
  PROVE IInv'
<1> USE DEF IInv
<1>0. 0 \in FixId
  BY PlaceAssumption DEF FixId
<1>1. \/ listener' = "current" /\ state' = "locating" /\ fix' = 0
      \/ listener' = "superseded" /\ state' = state /\ fix' = fix
  BY DEF Locate
<1>2. TypeOK'
  BY <1>0, <1>1 DEF TypeOK
<1>3. FixesAreDated'
  BY <1>1 DEF FixesAreDated
<1>4. DevicePlaceIsDated'
  BY DEF DevicePlaceIsDated, OnDevice
<1> QED BY <1>2, <1>3, <1>4

(* Every step keeps the invariant.                                         *)
LEMMA NextIInv == IInv /\ [Next]_vars => IInv'
<1> SUFFICES ASSUME IInv, [Next]_vars PROVE IInv'
  OBVIOUS
<1>0. 0 \in FixId
  BY PlaceAssumption DEF FixId
<1>1. CASE Launch
  <2>1. CASE MayLocateAtLaunch
    BY <1>1, <2>1, LocateIInv DEF Launch, IInv, TypeOK
  <2>2. CASE ~MayLocateAtLaunch
    BY <1>1, <2>2 DEF Launch, IInv, TypeOK, FixesAreDated, DevicePlaceIsDated, OnDevice
  <2> QED BY <2>1, <2>2
<1>2. CASE Relaunch
  <2>1. TypeOK'
    BY <1>0, <1>2, DefaultIsNamed DEF Relaunch, IInv, TypeOK
  <2>2. FixesAreDated'
    BY <1>2 DEF Relaunch, FixesAreDated
  <2>3. DevicePlaceIsDated'
    BY <1>2, DefaultIsNamed DEF Relaunch, DevicePlaceIsDated, OnDevice
  <2> QED BY <2>1, <2>2, <2>3 DEF IInv
<1>3. CASE UseMyLocation
  BY <1>3, LocateIInv DEF UseMyLocation, IInv, TypeOK
<1>4. ASSUME NEW p \in Named, UseNamedPlace(p) PROVE IInv'
  <2>1. TypeOK'
    BY <1>0, <1>4 DEF UseNamedPlace, Supersede, IInv, TypeOK
  <2>2. FixesAreDated'
    <3>1. fixes \in Nat
      BY PlaceAssumption DEF IInv, TypeOK, FixId
    <3> QED BY <1>4, <3>1 DEF UseNamedPlace, FixesAreDated
  <2>3. DevicePlaceIsDated'
    BY <1>4 DEF UseNamedPlace, DevicePlaceIsDated, OnDevice, NamedPlace
  <2> QED BY <2>1, <2>2, <2>3 DEF IInv
<1>5. CASE ReturnToForeground
  <2>1. CASE MayRefresh
    BY <1>5, <2>1, LocateIInv DEF ReturnToForeground, IInv, TypeOK
  <2>2. CASE ~MayRefresh
    <3>1. place' = IF state = "fixed" THEN At(fix) ELSE place
      BY <1>5, <2>2 DEF ReturnToForeground, InstallDevice
    <3>2. listener' \in {"none", "superseded"} /\ (listener # "none" => listener' # "none")
      BY <1>5, <2>2 DEF ReturnToForeground, Supersede
    <3>3. UNCHANGED <<permission, preferred, state, fix, fixedAt, fixes, launched>>
      BY <1>5, <2>2 DEF ReturnToForeground
    <3>4. TypeOK'
      <4>1. place' \in {At(n) : n \in FixId} \cup {NamedPlace(p) : p \in Named}
        BY <3>1 DEF IInv, TypeOK
      <4> QED BY <3>2, <3>3, <4>1 DEF IInv, TypeOK
    <3>5. FixesAreDated'
      BY <3>3 DEF IInv, FixesAreDated
    <3>6. DevicePlaceIsDated'
      <4>1. CASE state = "fixed"
        BY <3>1, <3>3, <4>1 DEF IInv, FixesAreDated, DevicePlaceIsDated, OnDevice, At
      <4>2. CASE state # "fixed"
        BY <3>1, <3>3, <4>2 DEF IInv, DevicePlaceIsDated, OnDevice
      <4> QED BY <4>1, <4>2
    <3> QED BY <3>4, <3>5, <3>6 DEF IInv
  <2> QED BY <2>1, <2>2
<1>6. ASSUME NEW answer \in {"granted", "denied"}, PermissionBecomes(answer) PROVE IInv'
  <2>1. TypeOK'
    BY <1>6 DEF PermissionBecomes, source, IInv, TypeOK
  <2>2. FixesAreDated'
    BY <1>6 DEF PermissionBecomes, source, IInv, FixesAreDated
  <2>3. DevicePlaceIsDated'
    BY <1>6 DEF PermissionBecomes, source, IInv, DevicePlaceIsDated, OnDevice
  <2> QED BY <2>1, <2>2, <2>3 DEF IInv
<1>7. CASE FixArrives
  <2>1. fixes \in Nat /\ fixes + 1 \in FixId
    BY <1>7, PlaceAssumption DEF FixArrives, IInv, TypeOK, FixId
  <2>2. fixes' = fixes + 1 /\ permission = "granted" /\ Resume("fixed", fixes + 1)
    BY <1>7 DEF FixArrives
  <2> QED BY <2>1, <2>2, ResumeIInv
<1>8. CASE Denied \/ Deadline
  <2>1. fixes' = fixes /\ Resume("refused", 0)
    BY <1>8 DEF Denied, Deadline
  <2>2. fixes \in FixId /\ fixes >= fixes
    BY PlaceAssumption DEF IInv, TypeOK, FixId
  <2> QED BY <1>0, <2>1, <2>2, ResumeIInv
<1>9. CASE UNCHANGED vars
  <2>1. TypeOK'
    BY <1>9 DEF vars, source, IInv, TypeOK
  <2>2. FixesAreDated'
    BY <1>9 DEF vars, source, IInv, FixesAreDated
  <2>3. DevicePlaceIsDated'
    BY <1>9 DEF vars, source, IInv, DevicePlaceIsDated, OnDevice
  <2> QED BY <2>1, <2>2, <2>3 DEF IInv
<1> QED BY <1>1, <1>2, <1>3, <1>4, <1>5, <1>6, <1>7, <1>8, <1>9 DEF Next

(* The invariant, and the state's types with it.                           *)
THEOREM SpecIInv == Spec => []IInv
BY InitIInv, NextIInv, PTL DEF Spec

(* The types.                                                              *)
THEOREM TypeCorrect == Spec => []TypeOK
<1>1. IInv => TypeOK
  BY DEF IInv
<1> QED BY <1>1, SpecIInv, PTL

(* A device place always has a date, never one before its fix.             *)
THEOREM DevicePlaceDated == Spec => []DevicePlaceIsDated
<1>1. IInv => DevicePlaceIsDated
  BY DEF IInv
<1> QED BY <1>1, SpecIInv, PTL

(* Only a tap may put a permission dialog up.                              *)
THEOREM NeverPromptsUnasked == Spec => NoPromptUnasked
<1>1. IInv /\ [Next]_vars =>
        [permission = "unasked" /\ listener = "none" /\ listener' # "none"
           => launched' = launched /\ state # "fixed"]_vars
  <2> SUFFICES ASSUME IInv, Next, permission = "unasked", listener = "none", listener' # "none"
               PROVE launched' = launched /\ state # "fixed"
    OBVIOUS
  <2>1. state # "fixed"
    BY DEF IInv, FixesAreDated
  <2>2. ~MayLocateAtLaunch /\ ~MayRefresh
    BY DEF MayLocateAtLaunch, MayRefresh
  <2>3. launched' = launched
    BY <2>2 DEF Next, Launch, Relaunch, UseMyLocation, UseNamedPlace, Supersede,
                ReturnToForeground, PermissionBecomes, source, FixArrives, Denied, Deadline, Resume
  <2> QED BY <2>1, <2>3
<1> QED BY <1>1, SpecIInv, PTL DEF Spec, NoPromptUnasked

------------------------------------------------------------------------------
(* Who is measured from.                                                   *)

(* A ticket still current is that of a reader who wants the phone.         *)
TicketWanted == listener = "current" => preferred

(* Every step keeps it, a return to the foreground included.               *)
LEMMA NextTicketWanted == IInv /\ TicketWanted /\ [Next]_vars => TicketWanted'
<1> SUFFICES ASSUME IInv, TicketWanted, [Next]_vars PROVE TicketWanted'
  OBVIOUS
<1> USE DEF TicketWanted
<1>1. CASE Launch
  BY <1>1 DEF Launch, Locate, MayLocateAtLaunch
<1>2. CASE Relaunch
  BY <1>2 DEF Relaunch
<1>3. CASE UseMyLocation
  BY <1>3 DEF UseMyLocation
<1>4. ASSUME NEW p \in Named, UseNamedPlace(p) PROVE TicketWanted'
  BY <1>4 DEF UseNamedPlace, Supersede
<1>5. CASE ReturnToForeground
  BY <1>5 DEF ReturnToForeground, Locate, Supersede, MayRefresh
<1>6. ASSUME NEW answer \in {"granted", "denied"}, PermissionBecomes(answer) PROVE TicketWanted'
  BY <1>6 DEF PermissionBecomes, source
<1>7. CASE FixArrives \/ Denied \/ Deadline
  BY <1>7 DEF FixArrives, Denied, Deadline, Resume
<1>8. CASE UNCHANGED vars
  BY <1>8 DEF vars, source
<1> QED BY <1>1, <1>2, <1>3, <1>4, <1>5, <1>6, <1>7, <1>8 DEF Next

(* A step that parts the place list from the distances is a return to the  *)
(* foreground.                                                             *)
LEMMA NextAgrees ==
  IInv /\ TicketWanted /\ [Next]_vars
    => [ControlsAgree => ControlsAgree' \/ ReturnToForeground]_vars
<1> SUFFICES ASSUME TicketWanted, Next, ControlsAgree, ~ReturnToForeground
             PROVE  ControlsAgree'
  OBVIOUS
<1> USE DEF ControlsAgree, OnDevice
<1>1. CASE Launch
  BY <1>1 DEF Launch
<1>2. CASE Relaunch
  BY <1>2, DefaultIsNamed DEF Relaunch
<1>3. CASE UseMyLocation
  BY <1>3 DEF UseMyLocation
<1>4. ASSUME NEW p \in Named, UseNamedPlace(p) PROVE ControlsAgree'
  BY <1>4 DEF UseNamedPlace, NamedPlace
<1>5. ASSUME NEW answer \in {"granted", "denied"}, PermissionBecomes(answer) PROVE ControlsAgree'
  BY <1>5 DEF PermissionBecomes, source
<1>6. ASSUME NEW outcome, NEW n, Resume(outcome, n) PROVE ControlsAgree'
  <2>1. place' = place \/ listener = "current"
    BY <1>6 DEF Resume
  <2>2. preferred' = preferred
    BY <1>6 DEF Resume
  <2> QED BY <2>1, <2>2 DEF TicketWanted
<1>7. CASE FixArrives \/ Denied \/ Deadline
  BY <1>6, <1>7 DEF FixArrives, Denied, Deadline
<1> QED BY <1>1, <1>2, <1>3, <1>4, <1>5, <1>7 DEF Next

(* While the app stays in the foreground the place list and the distances  *)
(* agree about who is measured from.                                       *)
THEOREM ControlsNeverPart == Spec => AgreeInForeground
<1>1. Init => TicketWanted
  BY DEF Init, TicketWanted
<1>2. Spec => []TicketWanted
  BY <1>1, NextTicketWanted, SpecIInv, PTL DEF Spec
<1> QED BY <1>2, NextAgrees, SpecIInv, PTL DEF Spec, AgreeInForeground
==============================================================================
