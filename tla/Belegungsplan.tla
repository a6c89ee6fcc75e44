---------------------------- MODULE Belegungsplan ----------------------------
(***************************************************************************)
(* providers/belegungsplan.py: the words of a printed lane plan, by their  *)
(* place on the page, become reservations of lanes.                        *)
(*                                                                         *)
(* A sheet is [readable, anchors, counts, bahnen, title, legend, labels,   *)
(* named, words]: the x of the weekday cells, the lane counts printed      *)
(* beside "Bahnen" and the y of that row, the legend (code to owner, ""    *)
(* for a blank name), the gutter's time labels in page order (NoSlot for   *)
(* one that ends at 24.00) and the digits of the page as [x, y, code].     *)
(* Positions are whole units; a sheet has seven weekday cells, or seven a  *)
(* basin.                                                                  *)
(***************************************************************************)
EXTENDS LanePlans, FiniteSetsExt

XTol == 5
YTol == 6
BahnenGap == 5
Gutter == 70                         \* grid_margin_ratio of the page
GroupGap(gap, median) == 10 * gap > 13 * median
Weekday == 0..6
NoSlot == Span(0, 0)

Refused(detail) == [ok |-> FALSE, detail |-> detail]
Parsed(plan) == [ok |-> TRUE, plan |-> plan]

-----------------------------------------------------------------------------
(* Words into columns, rows and slots                                      *)

(* _cluster_counts: sorted values, a new group where the gap is too wide.  *)
ClusterCounts(values, tol) ==
  LET Place(groups, v) ==
        IF groups # <<>> /\ v - Last(groups).last <= tol
          THEN [groups EXCEPT ![Len(groups)] = [sum |-> @.sum + v, n |-> @.n + 1, last |-> v]]
          ELSE Append(groups, [sum |-> v, n |-> 1, last |-> v])
  IN FoldLeft(Place, <<>>, SortedBy(values, LAMBDA v : v))

Cluster(values, tol) == Mapped(ClusterCounts(values, tol), LAMBDA g : g.sum \div g.n)

Apart(a, b) == IF a > b THEN a - b ELSE b - a

(* The first of the nearest centres.                                       *)
Nearest(value, centres) == 
  CHOOSE i \in DOMAIN centres :
    /\ \A j \in DOMAIN centres : Apart(centres[i], value) <= Apart(centres[j], value)
    /\ \A j \in 1..(i - 1) : Apart(centres[i], value) < Apart(centres[j], value)

Median(gaps) == SortedBy(gaps, LAMBDA g : g)[(Len(gaps) \div 2) + 1]
Gaps(xs) == [i \in 1..(Len(xs) - 1) |-> xs[i + 1] - xs[i]]

(* _lane_columns: a fragment under half a pitch from its neighbour is that *)
(* neighbour, weighted by support.                                         *)
LaneColumns(values) ==
  LET columns == ClusterCounts(values, XTol)
      centres == Cluster(values, XTol)
      pitch == Median(Gaps(centres))
      Merge(merged, c) ==
        IF merged # <<>> /\ 2 * ((c.sum \div c.n) - (Last(merged).sum \div Last(merged).n)) < pitch
          THEN [merged EXCEPT ![Len(merged)] = [sum |-> @.sum + c.sum, n |-> @.n + c.n, last |-> c.last]]
          ELSE Append(merged, c)
  IN IF Len(columns) < 3 THEN centres
     ELSE Mapped(FoldLeft(Merge, <<>>, columns), LAMBDA g : g.sum \div g.n)

(* _grid_band: half a day beyond the outer weekdays, clear of the gutter.  *)
GridBand(anchors) ==
  LET half == IF Len(anchors) > 1
                THEN (Last(anchors) - anchors[1]) \div (2 * (Len(anchors) - 1)) ELSE 0
  IN Span(IF anchors[1] - half > Gutter THEN anchors[1] - half ELSE Gutter, Last(anchors) + half)

(* _grid_bottom: one label pitch under the last label, printed 24.00 or    *)
(* not; what is lower is prose.                                            *)
AboveBottom(labels, y) ==
  Len(labels) < 2 \/ (y - Last(labels).top) * (Len(labels) - 1) < Last(labels).top - labels[1].top

(* The digits of the grid: those of the header's rows are above its first. *)
CellWords(sheet, band, first) ==
  SelectSeq(sheet.words, LAMBDA w : /\ band.start < w.x /\ w.x < band.end
                                    /\ first <= w.y /\ AboveBottom(sheet.labels, w.y))

(* Clear of the "Bahnen" row, or by the first time label (_first_data_top) *)
(* in a stacked basin, which has no such row.                              *)
BelowBahnen(sheet) == sheet.bahnen + BahnenGap + 1
FirstDataTop(sheet) == sheet.labels[1].top - YTol

(* Mutant of PairRows: the k-th row takes the k-th label.                  *)
PairRowsByRank(rows, labels) ==
  IF Len(rows) > Len(labels) THEN <<>> ELSE [k \in DOMAIN rows |-> labels[k].time]

(* _pair_rows_to_labels: each row its nearest label, within half a pitch   *)
(* and no label twice; <<>> is a SchemaMismatch.  One label alone gives no *)
(* pitch, and pairs by rank.                                               *)
PairRows(rows, labels) ==
  LET tops == Mapped(labels, LAMBDA l : l.top)
      own == [k \in DOMAIN rows |-> Nearest(rows[k], tops)]
      InReach(k) == 2 * Apart(tops[own[k]], rows[k]) * (Len(tops) - 1) <= Last(tops) - tops[1]
  IN IF Len(labels) < 2 THEN IF Len(rows) > Len(labels) THEN <<>> ELSE <<labels[1].time>>
     ELSE IF /\ \A k \in DOMAIN rows : InReach(k)
             /\ IsInjective(own)
       THEN [k \in DOMAIN rows |-> labels[own[k]].time]
       ELSE <<>>

-----------------------------------------------------------------------------
(* A grid is [codes, slots, lanes, byWeekday]: codes maps the printed      *)
(* cells, as <<weekday, lane, row>>, to their codes.                       *)

Codes(cells, Cell(_)) == FoldLeft(LAMBDA f, w : (Cell(w) :> w.code) @@ f, <<>>, cells)

UniformGrid(cells, columns, slots, lanes) ==
  LET rows == Cluster(Mapped(cells, LAMBDA w : w.y), YTol)
      Cell(w) == LET column == Nearest(w.x, columns) - 1
                 IN <<column \div lanes, (column % lanes) + 1, Nearest(w.y, rows)>>
  IN [codes |-> Codes(cells, Cell), slots |-> slots, lanes |-> lanes,
      byWeekday |-> [d \in Weekday |-> lanes]]

(* Mutant of RaggedGrid's count: days that agree count what they print.    *)
DayLanesPrinted(counts, lanes) == counts

(* The lanes in force on each day: days that agree have the sheet's, which *)
(* may be more than any of them prints (_lanes_on without an override).    *)
DayLanes(counts, lanes) ==
  IF Cardinality(Range(counts)) > 1 THEN counts ELSE [d \in Weekday |-> lanes]

(* _weekday_bounds and _ragged_grid: each day clusters its own lanes       *)
(* inside the band round its own anchor.                                   *)
RaggedGrid(cells, slots, lanes, anchors, band) ==
  LET rows == Cluster(Mapped(cells, LAMBDA w : w.y), YTol)
      Cut(d) == IF d = 0 THEN band.start ELSE IF d = 7 THEN band.end
                ELSE (anchors[d] + anchors[d + 1]) \div 2
      On7(w) == CHOOSE d \in Weekday : Cut(d) <= w.x /\ w.x < Cut(d + 1)
      columns == [d \in Weekday |->
                    LaneColumns(Mapped(SelectSeq(cells, LAMBDA w : On7(w) = d), LAMBDA w : w.x))]
      counts == [d \in Weekday |-> Len(columns[d])]
      most == Max({lanes} \cup Range(counts))
      Cell(w) == <<On7(w), Nearest(w.x, columns[On7(w)]), Nearest(w.y, rows)>>
  IN [codes |-> Codes(cells, Cell), slots |-> slots,
      lanes |-> most, byWeekday |-> DayLanes(counts, most)]

-----------------------------------------------------------------------------
(* Columns of cells into reservations                                      *)

(* _code_to_access: every school is the school; a swimming school is a     *)
(* club, and a club is itself.                                             *)
CodeToAccess(name) ==
  CASE name = "oeffentlich" -> Public
    [] name \in {"Kantonsschule", "Tagesschule"} -> "school"
    [] OTHER -> name

(* "" where no cell is printed or its code has no name in the legend.      *)
Owner(grid, legend, cell) ==
  IF cell \in DOMAIN grid.codes /\ grid.codes[cell] \in DOMAIN legend
    THEN CodeToAccess(legend[grid.codes[cell]]) ELSE ""

(* _column_runs: a run goes on over a slot of the same owner that touches  *)
(* the one before it.                                                      *)
ColumnRuns(grid, legend, weekday, lane) ==
  LET Step(acc, row) ==
        LET owner == Owner(grid, legend, <<weekday, lane, row>>)
            slot == grid.slots[row]
        IN IF owner = "" THEN [acc EXCEPT !.running = FALSE]
           ELSE IF acc.running /\ Last(acc.runs).access = owner /\ Last(acc.runs).time.end = slot.start
             THEN [acc EXCEPT !.runs[Len(acc.runs)].time.end = slot.end]
             ELSE [runs |-> Append(acc.runs, [time |-> slot, access |-> owner]), running |-> TRUE]
  IN FoldLeft(Step, [runs |-> <<>>, running |-> FALSE], [k \in DOMAIN grid.slots |-> k]).runs

(* Mutant of Total: only what is printed is counted.                       *)
TotalPrinted(grid, cells) == Cardinality(cells \cap DOMAIN grid.codes)

(* cells_total: a weekday counts as many lanes as it has.                  *)
Total(grid, cells) == Cardinality(cells)

(* _resolve: equal blocks of one day gather their lanes, unless a section  *)
(* keeps them apart; equal blocks of several days gather their weekdays.   *)
Resolve(grid, legend, named) ==
  LET cells == {<<d, l, k>> : d \in Weekday, l \in 1..grid.lanes, k \in DOMAIN grid.slots}
      counted == {c \in cells : c[2] <= grid.byWeekday[c[1]]}
      held == UNION {{[weekday |-> d, lane |-> l, time |-> r.time, access |-> r.access,
                       section |-> IF named THEN l ELSE 0] :
                        r \in Range(ColumnRuns(grid, legend, d, l))} :
                          <<d, l>> \in {<<c[1], c[2]>> : c \in counted}}
      Same(a, b) == a.time = b.time /\ a.access = b.access /\ a.section = b.section
      LanesWith(h) == {k.lane : k \in {o \in held : Same(o, h) /\ o.weekday = h.weekday}}
      DaysWith(h) == {k.weekday : k \in {o \in held : Same(o, h) /\ LanesWith(o) = LanesWith(h)}}
  IN [reservations |-> {[weekdays |-> DaysWith(h), time |-> h.time, lanes |-> LanesWith(h),
                         access |-> h.access, section |-> h.section] : h \in held},
      total |-> Total(grid, counted),
      resolved |-> Cardinality({c \in counted : Owner(grid, legend, c) # ""}),
      unresolved |-> {c[2] : c \in {c \in counted \cap DOMAIN grid.codes : Owner(grid, legend, c) = ""}}]

(* _check_invariants                                                       *)
InvariantsHold(reservations, lanes) ==
  /\ \A r \in reservations : r.lanes \subseteq 1..lanes
  /\ \A a, b \in reservations :
       a # b /\ a.weekdays \cap b.weekdays # {} /\ a.lanes \cap b.lanes # {} =>
         a.time.end <= b.time.start \/ b.time.end <= a.time.start

(* _plan_from_resolved                                                     *)
PlanOf(grid, legend, named) ==
  LET resolved == Resolve(grid, legend, named)
  IN IF ~InvariantsHold(resolved.reservations, grid.lanes) THEN Refused("overlap")
     ELSE Parsed([lanes |-> grid.lanes, reservations |-> Listed(resolved.reservations),
                  unresolved |-> resolved.unresolved, byWeekday |-> grid.byWeekday,
                  complete |-> resolved.resolved = resolved.total /\ resolved.unresolved = {}])

-----------------------------------------------------------------------------
(* Sheets                                                                  *)

Slots(labels) == SelectSeq(labels, LAMBDA l : l.time # NoSlot)
RowsOf(cells) == Cluster(Mapped(cells, LAMBDA w : w.y), YTol)
ColumnsOf(cells) == Cluster(Mapped(cells, LAMBDA w : w.x), XTol)

(* _lane_count: the digits beside "Bahnen" must agree; 0 when they do not. *)
LaneCount(sheet) ==
  IF Cardinality(sheet.counts) = 1 THEN CHOOSE n \in sheet.counts : TRUE ELSE 0

(* _parse_header                                                           *)
HeaderReads(sheet) == LaneCount(sheet) > 0 /\ sheet.title

(* _parse_legend: names left blank are no entries.                         *)
LegendReads(sheet) == ~(Range(sheet.legend) \subseteq {""})

(* _segment_grid: a clean rectangle of 7 x lanes columns is cut evenly,    *)
(* anything else day by day.                                               *)
SegmentGrid(sheet, cells, slots) ==
  LET columns == ColumnsOf(cells)
      lanes == LaneCount(sheet)
  IN IF Len(columns) = 7 * lanes
       THEN UniformGrid(cells, columns, slots, lanes)
       ELSE RaggedGrid(cells, slots, lanes, sheet.anchors, GridBand(sheet.anchors))

ParseSingleBasin(sheet) ==
  LET cells == CellWords(sheet, GridBand(sheet.anchors), BelowBahnen(sheet))
      slots == PairRows(RowsOf(cells), Slots(sheet.labels))
  IN IF ~HeaderReads(sheet) THEN Refused("header")
     ELSE IF ~LegendReads(sheet) THEN Refused("legend")
     ELSE IF cells = <<>> THEN Refused("no cells")
     ELSE IF slots = <<>> THEN Refused("time labels")
     ELSE PlanOf(SegmentGrid(sheet, cells, slots), sheet.legend, FALSE)

(* _weekday_groups: a gap well above the day pitch starts another basin.   *)
WeekdayGroups(anchors) ==
  LET median == Median(Gaps(anchors))
      Place(groups, i) ==
        IF i > 1 /\ GroupGap(anchors[i] - anchors[i - 1], median)
          THEN Append(groups, <<anchors[i]>>)
          ELSE [groups EXCEPT ![Len(groups)] = Append(@, anchors[i])]
  IN IF Len(anchors) < 2 THEN <<anchors>>
     ELSE FoldLeft(Place, << <<>> >>, [i \in DOMAIN anchors |-> i])

(* _parse_sectioned_basin: one stacked basin, its lanes read off its own   *)
(* columns.                                                                *)
ParseSectionedBasin(sheet, anchors) ==
  LET cells == CellWords(sheet, GridBand(anchors), FirstDataTop(sheet))
      columns == ColumnsOf(cells)
      slots == PairRows(RowsOf(cells), Slots(sheet.labels))
  IN IF cells = <<>> THEN Refused("no cells")
     ELSE IF Len(columns) % Len(anchors) # 0 THEN Refused("section columns")
     ELSE IF slots = <<>> THEN Refused("time labels")
     ELSE IF ~sheet.title THEN Refused("no basin title")
     ELSE PlanOf(UniformGrid(cells, columns, slots, Len(columns) \div Len(anchors)),
                 sheet.legend, sheet.named)

(* parse_belegungsplan_sheet: one result a basin; a stacked basin that     *)
(* cannot be read is dropped while another can.                            *)
ParseSheet(sheet) ==
  LET groups == WeekdayGroups(sheet.anchors)
      results == Mapped(groups, LAMBDA g : ParseSectionedBasin(sheet, g))
      good == SelectSeq(results, LAMBDA r : r.ok)
  IN IF ~sheet.readable THEN <<Refused("no words")>>
     ELSE IF sheet.anchors = <<>> THEN <<Refused("header")>>
     ELSE IF Len(groups) < 2 THEN <<ParseSingleBasin(sheet)>>
     ELSE IF ~LegendReads(sheet) THEN <<Refused("legend")>>
     ELSE IF Slots(sheet.labels) = <<>> THEN <<Refused("time labels")>>
     ELSE IF good # <<>> THEN good ELSE <<results[1]>>
-----------------------------------------------------------------------------
(* Properties of what is read off one printed table.  The table gives each *)
(* weekday's lanes, each the codes printed beside the labels, 0 for none.  *)

OwnerPrinted(table, legend, d, l, k) ==
  IF table[d][l][k] \in DOMAIN legend THEN CodeToAccess(legend[table[d][l][k]]) ELSE ""

Printed(table, d, l) == \E k \in DOMAIN table[d][l] : table[d][l][k] # 0

(* What a visitor is told of a half hour is what stands in its row of the  *)
(* sheet: as many lanes public and as many held as are printed, none in a  *)
(* half hour left blank, and each lane its own owner where no lane before  *)
(* it was left out (belegungsplan.py:454, 687).                            *)
SplitIsTheSheets(table, labels, legend, plan) ==
  \A d \in Weekday : \A k \in {j \in DOMAIN labels : labels[j].time # NoSlot} :
    LET t == labels[k].time.start
        now == AvailabilityAt(plan, d, t)
        With(owners) == {l \in DOMAIN table[d] : OwnerPrinted(table, legend, d, l, k) \in owners}
        all == {OwnerPrinted(table, legend, d, l, k) : l \in DOMAIN table[d]} \ {""}
        Holding(o) == LanesOf(SelectSeq(Active(plan, d, t), LAMBDA r : r.access = o))
    IN /\ now.public = Cardinality(With({Public}))
       /\ now.reserved = Cardinality(With(all \ {Public}))
       /\ now.owners = all \ {Public}
       /\ (\A l \in DOMAIN table[d] : Printed(table, d, l)) => \A o \in all : Holding(o) = With({o})

(* A plan called complete says who has each of a weekday's lanes at every  *)
(* half hour it names on any day, and says it is not sure of none          *)
(* (lane_plan.py:57).                                                      *)
CompleteIsWhole(plan) ==
  plan.complete =>
    \A d \in Weekday : \A r \in Range(plan.reservations) : \A t \in Moments(r.time) :
      /\ LanesOf(Active(plan, d, t)) = 1..plan.byWeekday[d]
      /\ ~AvailabilityAt(plan, d, t).partial

(* Days that print equally many lanes cannot make a plan complete unless   *)
(* they print as many as stand beside "Bahnen": the ones no day prints are *)
(* counted as cells of no owner (belegungsplan.py:588, 687).               *)
EvenShortfallCounted(table, lanes, plan) ==
  LET days == [d \in Weekday |-> Cardinality({l \in DOMAIN table[d] : Printed(table, d, l)})]
  IN plan.complete /\ Cardinality(Range(days)) = 1 => days[0] >= lanes

(* "Unfilled columns [stay] unresolved, counted honestly in coverage"      *)
(* (belegungsplan.py:589): a plan is complete only if every lane printed   *)
(* beside "Bahnen" has an owner on every weekday.                          *)
UnfilledCounted(counts, plan) ==
  plan.complete =>
    \A d \in Weekday, r \in Range(plan.reservations) :
      \A n \in counts : Cardinality(LanesOf(Active(plan, d, r.time.start))) >= n
=============================================================================
