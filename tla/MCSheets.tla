------------------------------ MODULE MCSheets ------------------------------
(***************************************************************************)
(* Printed lane plans, each read once: alone or beside another basin's,    *)
(* whatever is blank, out of place or below the table.                     *)
(***************************************************************************)
EXTENDS Belegungsplan, LanePlans

VARIABLES ask, answer
vars == <<ask, answer>>

(* What has been read: nothing, or one result.                             *)
Pending == <<>>

(* A table of two lanes and four half hours, the last blank label printed  *)
(* as 24.00: Monday's and Sunday's lanes vary and the other days are alike, *)
(* or every day prints the same lane and leaves the other blank.           *)
Legend == (1 :> "oeffentlich" @@ 2 :> "Kantonsschule" @@ 3 :> "Limmat")
Blank == <<0, 0, 0, 0>>
Columns == {<<a, b, c, 0>> : a \in {0, 1, 2}, b \in {0, 1, 9}, c \in {1, 2, 3}}
Labels == [k \in 1..4 |-> [top |-> 20 * k, time |-> IF k < 4 THEN Span(k, k + 1) ELSE NoSlot]]

Tables ==
  {[d \in Weekday |-> CASE d = 0 -> <<m, s>> [] d = 6 -> <<rest, s>> [] OTHER -> <<rest, rest>>] :
     m \in Columns, s \in Columns \cup {Blank},
     rest \in {<<1, 1, 1, 0>>, <<0, 0, 2, 0>>}}
    \cup {[d \in Weekday |-> <<c, Blank>>] : c \in Columns}

(* How it is typeset: the cells' drop under their labels, a digit out of   *)
(* its column, a digit in the footer and one in the header.                *)
Typeset(table, left, drop, stray) ==
  LET cells == {<<d, l, k>> : d \in Weekday, l \in 1..2, k \in 1..4}
      printed == Listed({c \in cells : table[c[1]][c[2]][c[3]] # 0})
  IN Mapped(printed, LAMBDA c :
       [x |-> left + 50 * c[1] + 20 * (c[2] - 1) + (IF stray /\ c = <<0, 2, 3>> THEN 8 ELSE 0),
        y |-> 20 * c[3] + drop, code |-> table[c[1]][c[2]][c[3]]])

Sheet(table, drop, stray) ==
  [readable |-> TRUE, anchors |-> [d \in 1..7 |-> 110 + 50 * (d - 1)], counts |-> {2}, bahnen |-> 0, title |-> TRUE,
   legend |-> Legend, labels |-> Labels, named |-> FALSE,
   words |-> Typeset(table, 100, drop, stray) \o <<[x |-> 150, y |-> 122, code |-> 2], [x |-> 160, y |-> 0, code |-> 2]>>]

(* Two basins side by side, the second the plain week.                     *)
Stacked(table, plain, named) ==
  [readable |-> TRUE, anchors |-> [d \in 1..14 |-> 110 + 50 * (d - 1) + (IF d > 7 THEN 20 ELSE 0)],
   counts |-> {}, bahnen |-> 0, title |-> TRUE, legend |-> Legend, labels |-> Labels, named |-> named,
   words |-> Typeset(table, 100, 8, FALSE) \o Typeset(plain, 470, 8, FALSE)
               \o <<[x |-> 160, y |-> 10, code |-> 2]>>]
Plainly(column) == [d \in Weekday |-> <<column, column>>]

SheetAsks ==
  [kind : {"sheet"}, table : Tables, drop : {2, 8}, stray : BOOLEAN]
StackedAsks ==
  [kind : {"stacked"}, table : Tables, plain : {<<3, 3, 0, 0>>}, named : BOOLEAN]

-----------------------------------------------------------------------------

Init ==
  /\ ask \in SheetAsks \cup StackedAsks
  /\ answer = Pending

Reply(kind, value) ==
  /\ ask.kind = kind
  /\ answer = Pending
  /\ answer' = <<value>>
  /\ UNCHANGED ask

ReadSheet == Reply("sheet", ParseSheet(Sheet(ask.table, ask.drop, ask.stray)))
ReadStacked == Reply("stacked", ParseSheet(Stacked(ask.table, Plainly(ask.plain), ask.named)))

Next == ReadSheet \/ ReadStacked

-----------------------------------------------------------------------------

Answered(kind) == ask.kind = kind /\ answer # Pending
Given == answer[1]

Tells(result, table) == result.ok /\ SplitIsTheSheets(table, Labels, Legend, result.plan)

(* A printed table is read back as it stands, whatever is blank, out of    *)
(* place or below it, alone or beside another basin's (Belegungsplan).     *)
TablesReadBack ==
  /\ Answered("sheet") => Len(Given) = 1 /\ Tells(Given[1], ask.table)
  /\ Answered("stacked") =>
       /\ Tells(Last(Given), Plainly(ask.plain))
       /\ Len(Given) = 2 => Tells(Given[1], ask.table)

Plans == IF ask.kind \in {"sheet", "stacked"} /\ answer # Pending
           THEN {Given[i].plan : i \in {j \in DOMAIN Given : Given[j].ok}} ELSE {}
OnPlans(Holds(_, _, _)) ==
  \A p \in Plans, d \in {0, 6}, within \in {Span(1, 4), Span(2, 3)} : Holds(p, d, within)

(* A complete plan leaves no lane of its days without an owner             *)
(* (Belegungsplan).                                                        *)
CompletePlans == \A p \in Plans : CompleteIsWhole(p)

(* The split of a segment holds throughout it (LanePlans).                 *)
SegmentsHold == OnPlans(TimelineHolds)

(* "Public until" is when the last public lane goes (LanePlans).           *)
UntilHolds == OnPlans(PublicUntilHolds)

(* Counts, strips and roster are readings of one plan (LanePlans).         *)
ReadingsOfOnePlan == OnPlans(ReadingsAgree)

(* The best time is the peak of the timeline (LanePlans).                  *)
BestTimes == OnPlans(BestIsPeak)

(* Lanes that no day prints keep a plan from being complete (Belegungsplan). *)
ShortSheetsPartial ==
  Answered("sheet") => \A p \in Plans : EvenShortfallCounted(ask.table, 2, p)

(* A lane sheet is read back as it was printed, a plan that calls itself   *)
(* complete leaves no lane without an owner, and lanes that no day prints  *)
(* keep it from being complete (belegungsplan.py:687, 732).                *)
SheetsReadBack == TablesReadBack /\ CompletePlans /\ ShortSheetsPartial

(* Segments, "public until", counts, strips and best time are readings of  *)
(* one plan (lane_plan.py:192).                                            *)
PlansReadAlike == SegmentsHold /\ UntilHolds /\ ReadingsOfOnePlan /\ BestTimes

(* "Unfilled columns [stay] unresolved, counted honestly in coverage"      *)
(* (belegungsplan.py:589).                                                 *)
UnfilledColumnsCounted ==
  Answered("sheet") => \A p \in Plans : UnfilledCounted({2}, p)
=============================================================================
