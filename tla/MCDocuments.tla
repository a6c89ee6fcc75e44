----------------------------- MODULE MCDocuments -----------------------------
(***************************************************************************)
(* Whatever is asked of the pure code, asked once and answered once: of a  *)
(* small store, its lane plans and its pages (MCDomain), of the rosters a  *)
(* build reads (MCSources), and of the lane sheets among them (MCSheets).  *)
(***************************************************************************)
EXTENDS MCDomain

Papers == INSTANCE MCSources
Sheets == INSTANCE MCSheets

DocumentsInit == Init \/ Papers!Init \/ Sheets!Init

DocumentsNext == Next \/ Papers!Next \/ Sheets!Next

Documents == DocumentsInit /\ [][DocumentsNext]_vars

(* What a page or a person states of a pool is served of that pool, in the *)
(* name of who stated it, or is reported (compose.py:259).                 *)
FactsKept == Papers!FactsKept

(* A lane sheet is read back as it was printed, a plan that calls itself   *)
(* complete leaves no lane without an owner, and lanes that no day prints  *)
(* keep it from being complete (belegungsplan.py:687, 732).                *)
SheetsReadBack == Sheets!SheetsReadBack

(* Segments, "public until", counts, strips and best time are readings of  *)
(* one plan (lane_plan.py:192), and the split a board shows for a session  *)
(* is the plan's at a moment of that session (query.py:524).               *)
PlansReadAlike == Sheets!PlansReadAlike /\ SplitsInside

(* "Unfilled columns [stay] unresolved, counted honestly in coverage"      *)
(* (belegungsplan.py:589): not in a plan that calls itself complete.       *)
UnfilledColumnsCounted == Sheets!UnfilledColumnsCounted
=============================================================================
