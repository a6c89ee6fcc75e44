----------------------------- MODULE Timetables -----------------------------
(***************************************************************************)
(* The opening hours a pool's page publishes, read into schedule rules     *)
(* (providers/schedule_scraper.py).  A cell is what its words say: a day   *)
(* cell the days it names, an hours cell its lines, an offer cell the set  *)
(* of its words; markup and spelling are abstracted.                       *)
(***************************************************************************)
EXTENDS Ordering, FiniteSets

Weekdays == 0..6
Nothing == 0            \* no season, no category, no policy, no window
ClockHours == 0..23     \* datetime.time knows no 24 o'clock

-----------------------------------------------------------------------------
(* Cells                                                                   *)

(* A day cell: the tokens it names (NoDay for one that is no weekday),     *)
(* whether they are the ends of a span, whether holidays are mentioned.    *)
NoDay == 7
DayCell(tokens, span, holidays) == [tokens |-> tokens, span |-> span, holidays |-> holidays]

(* _span_days: a span read backwards wraps past Sunday.                    *)
SpanDays(start, end) ==
  IF start <= end THEN {w \in Weekdays : start <= w /\ w <= end}
  ELSE {w \in Weekdays : w >= start \/ w <= end}

ParseDays(cell) ==
  IF cell.span /\ NoDay \notin Range(cell.tokens)
    THEN SpanDays(cell.tokens[1], cell.tokens[2])
    ELSE IF cell.span THEN {} ELSE Range(cell.tokens) \ {NoDay}

(* An hours line: what it says after its season and its weekdays are       *)
(* peeled off.                                                             *)
Line(lo, hi, season, days) == [lo |-> lo, hi |-> hi, season |-> season, days |-> days]
BlankLine == Line(-1, -1, Nothing, {})

(* _parse_time_range: an empty or backward range is none.                  *)
Readable(line) == line.lo \in ClockHours /\ line.hi \in ClockHours /\ line.lo < line.hi

(* _parse_category: the longest phrase first, for the vocabulary nests.    *)
ParseCategory(words) ==
  IF "frauen" \in words THEN "women-only"
  ELSE IF "senioren" \in words THEN "seniors-only"
  ELSE IF "schule" \in words THEN "school"
  ELSE IF {"kinder", "nur", "mit", "erwachsene"} \subseteq words THEN "family"
  ELSE IF {"kinder", "und", "erwachsene"} \subseteq words THEN "public"
  ELSE IF "maedchen" \in words THEN "girls-only"
  ELSE IF {"trans", "ab 16"} \subseteq words THEN "gender-diverse"
  ELSE IF "erwachsene" \in words THEN "adults-only" ELSE "public"

(* A line's category stands at its place; the last serves all that follow. *)
CategoryAt(categories, i) ==
  CASE i \in DOMAIN categories -> categories[i]
    [] i \notin DOMAIN categories /\ categories # <<>> -> Last(categories)
    [] OTHER -> {}

ScheduleRule(days, line, access, season, weather) ==
  [weekdays |-> days, time |-> Span(line.lo, line.hi), access |-> access,
   season |-> season, weather |-> weather]

(* A weekday behind the hours is peeled off in a seasonal table only: in a *)
(* weekly one the line does not read as hours.                             *)
ReadableAlone(line) == Readable(line) /\ line.days = {}

(* _slots: the lines that read as hours.                                   *)
Slots(days, lines, categories) ==
  LET hours == Kept(lines, LAMBDA l : l # BlankLine)
      places == Kept([i \in DOMAIN hours |-> i], LAMBDA i : ReadableAlone(hours[i]))
  IN Mapped(places, LAMBDA i :
       ScheduleRule(days, hours[i], ParseCategory(CategoryAt(categories, i)), hours[i].season, "any"))

-----------------------------------------------------------------------------
(* A weekly table: rows of [day, hours, offer], those that say "Uhr"       *)

(* Mutant of CarriedDays: a row without a weekday is dropped.              *)
CarriedDaysNot(rows, i) == ParseDays(rows[i].day)

(* The weekdays of a row: its own, or those of the last row that named     *)
(* any.                                                                    *)
CarriedDays(rows, i) ==
  LET named == {j \in 1..i : ParseDays(rows[j].day) # {}}
  IN IF named = {} THEN {} ELSE ParseDays(rows[Max(named)].day)

RulesFromRows(rows) ==
  FlattenSeq([i \in DOMAIN rows |->
    IF CarriedDays(rows, i) = {} THEN <<>>
    ELSE Slots(CarriedDays(rows, i), rows[i].hours, rows[i].offer)])

(* _holiday_policy: only a Sunday's row speaks for the holidays.           *)
HolidayPolicy(rows) ==
  IF \E r \in Range(rows) : r.day.holidays /\ 6 \in ParseDays(r.day)
    THEN "sunday_schedule" ELSE "unstated"

-----------------------------------------------------------------------------
(* A seasonal table: rows of [window, cells], a cell per weather column    *)

CarriedWindow(rows, i) ==
  LET named == {j \in 1..i : rows[j].window # Nothing}
  IN IF named = {} THEN Nothing ELSE rows[Max(named)].window

(* _split_weekdays: a line without weekdays is daily.                      *)
SeasonRules(lines, window, weather) ==
  Mapped(Kept(lines, Readable), LAMBDA l :
    ScheduleRule(IF l.days = {} THEN Weekdays ELSE l.days, l, "public", window, weather))

(* Mutant of RulesFromSeasonRows: the weather is not read off the header.  *)
RulesFromSeasonRowsAny(weathers, rows) ==
  FlattenSeq([i \in DOMAIN rows |->
    IF CarriedWindow(rows, i) = Nothing THEN <<>>
    ELSE FlattenSeq([c \in DOMAIN rows[i].cells |->
           SeasonRules(rows[i].cells[c], CarriedWindow(rows, i), "any")])])

RulesFromSeasonRows(weathers, rows) ==
  FlattenSeq([i \in DOMAIN rows |->
    IF CarriedWindow(rows, i) = Nothing THEN <<>>
    ELSE FlattenSeq([c \in DOMAIN rows[i].cells |->
           IF c \in DOMAIN weathers
             THEN SeasonRules(rows[i].cells[c], CarriedWindow(rows, i), weathers[c])
             ELSE <<>>])])

-----------------------------------------------------------------------------
(* The page: a sequence of tokens, [is "open"], [is "close"] (a section),  *)
(* [is "heading", label] and [is "table", table].                          *)

Depth(page, i) ==
  Cardinality({j \in 1..i : page[j].is = "open"}) - Cardinality({j \in 1..i : page[j].is = "close"})

(* Mutant of HeadingBound: a heading is sought only before its table.      *)
HeadingBoundBefore(page, at) == at

(* _heading_bound: where the innermost section around the table ends, else *)
(* the next table's place.                                                 *)
HeadingBound(page, at) ==
  LET ends == {i \in (at + 1)..Len(page) : Depth(page, i) < Depth(page, at)}
      next == {i \in (at + 1)..Len(page) : page[i].is = "table"} \cup {Len(page) + 1}
  IN IF Depth(page, at) > 0 /\ ends # {} THEN Min(ends) ELSE Min(next) - 1

TablesAt(page) == Kept([i \in DOMAIN page |-> i], LAMBDA i : page[i].is = "table")

(* _nearest_heading: the last heading since the bound of the table before. *)
NearestHeading(page, tables, k) ==
  LET from == IF k = 1 THEN 0 ELSE HeadingBound(page, tables[k - 1])
      inside == {i \in (from + 1)..HeadingBound(page, tables[k]) : page[i].is = "heading"}
  IN IF inside = {} THEN "none" ELSE page[Max(inside)].label

(* The tables that are the pool's, or nobody's in particular.              *)
PoolTables(page) ==
  LET tables == TablesAt(page)
      admitted == Kept([k \in DOMAIN tables |-> k],
                       LAMBDA k : NearestHeading(page, tables, k) # "sauna")
  IN Mapped(admitted, LAMBDA k : page[tables[k]].table)

TableRules(table) ==
  CASE table.kind = "weekly" -> RulesFromRows(table.rows)
    [] table.kind = "seasonal" -> RulesFromSeasonRows(table.weathers, table.rows)
    [] OTHER -> <<>>

(* _parse_stadtzurich: every table of the pool's counts.                   *)
ParseCity(page) ==
  LET tables == PoolTables(page)
      rules == FlattenSeq(Mapped(tables, TableRules))
      weekly == FlattenSeq(Mapped(Kept(tables, LAMBDA t : t.kind = "weekly"), LAMBDA t : t.rows))
  IN [ok |-> rules # <<>>, rules |-> rules, policy |-> HolidayPolicy(weekly)]

LabelRank(label) == IF label = "pool" THEN 0 ELSE 1

(* _parse_html_table: the best labelled table that has hours, of the rows  *)
(* that name a day and print a time; the heading stands between a table    *)
(* and the one before.                                                     *)
ParsePlain(page) ==
  LET tables == TablesAt(page)
      LabelOf(k) ==
        LET from == IF k = 1 THEN 0 ELSE tables[k - 1]
            inside == {i \in (from + 1)..tables[k] : page[i].is = "heading"}
        IN IF \E i \in inside : page[i].label = "pool" THEN "pool"
           ELSE IF \E i \in inside : page[i].label = "sauna" THEN "sauna" ELSE "none"
      RowsOf(k) == Kept(page[tables[k]].table.rows, LAMBDA r :
                     ParseDays(r.day) # {} /\ \E l \in Range(r.hours) : l # BlankLine)
      fit == Kept([k \in DOMAIN tables |-> k], LAMBDA k :
               LabelOf(k) # "sauna" /\ RulesFromRows(RowsOf(k)) # <<>>)
  IN IF fit = <<>> THEN [ok |-> FALSE, rules |-> <<>>, policy |-> "unstated"]
     ELSE LET best == SortedBy(fit, LAMBDA k : LabelRank(LabelOf(k)))[1]
          IN [ok |-> TRUE, rules |-> RulesFromRows(RowsOf(best)), policy |-> HolidayPolicy(RowsOf(best))]

(* parse_schedule: the city's format first; its tables are elements of     *)
(* their own, which the plain format does not see, nor the other way.      *)
ParseSchedule(page, format) == IF format = "city" THEN ParseCity(page) ELSE ParsePlain(page)

-----------------------------------------------------------------------------
(* What a page's reading promises.                                         *)

(* The sessions of a weekly table for a person, who looks up for the day   *)
(* from a row that leaves it blank, and beside a line, or above that, for  *)
(* the offer.                                                              *)
DayOf(rows, i) ==
  {d \in Weekdays : \E j \in 1..i :
     /\ \A k \in (j + 1)..i : rows[k].day.tokens = <<>>
     /\ \/ ~rows[j].day.span /\ d \in Range(rows[j].day.tokens)
        \/ /\ rows[j].day.span
           /\ \E n \in 0..6 :
                /\ (rows[j].day.tokens[1] + n) % 7 = d
                /\ \A m \in 0..(n - 1) : (rows[j].day.tokens[1] + m) % 7 # rows[j].day.tokens[2]}
OfferOf(row, l) == IF row.offer = <<>> THEN {} ELSE row.offer[IF l <= Len(row.offer) THEN l ELSE Len(row.offer)]
SessionAt(row, l, d) ==
  [day |-> d, time |-> Span(row.hours[l].lo, row.hours[l].hi), season |-> row.hours[l].season,
   access |-> ParseCategory(OfferOf(row, l))]
HoursIn(row) == {l \in DOMAIN row.hours : ReadableAlone(row.hours[l])}
SessionsPrinted(rows) ==
  UNION {{SessionAt(rows[i], l, d) : l \in HoursIn(rows[i]), d \in DayOf(rows, i)} : i \in DOMAIN rows}

(* Every printed session is served on its weekday, under its category, and *)
(* nothing else is (schedule_scraper.py:363).                              *)
EverySessionKept(rows, rules) ==
  UNION {{[day |-> d, time |-> r.time, season |-> r.season, access |-> r.access] : d \in r.weekdays} :
           r \in Range(rules)}
    = SessionsPrinted(rows)

(* Every published window runs the hours printed beside it or beside a row *)
(* that continues it, on the days printed behind them, in the weather of   *)
(* their column, and nothing else is served: no hours are guaranteed that  *)
(* depend on the weather (:414, :442).                                     *)
WindowOf(rows, i) ==
  {rows[j].window : j \in {x \in 1..i : rows[x].window # Nothing /\ \A k \in (x + 1)..i : rows[k].window = Nothing}}
DaysOf(line) == IF line.days = {} THEN Weekdays ELSE line.days
CellPrinted(cell, window, weather) ==
  {ScheduleRule(DaysOf(l), l, "public", window, weather) : l \in {x \in Range(cell) : Readable(x)}}
WindowsPrinted(weathers, rows) ==
  UNION {UNION {CellPrinted(rows[i].cells[c], window, weathers[c]) :
                  c \in DOMAIN rows[i].cells \cap DOMAIN weathers, window \in WindowOf(rows, i)} :
           i \in DOMAIN rows}
WeatherSaid(weathers, rows, rules) == Range(rules) = WindowsPrinted(weathers, rows)

(* How a section prints its label and its tables: the heading first or     *)
(* last, or none.                                                          *)
PrintedSection(section) ==
  LET heading == IF section.label = "none" THEN <<>> ELSE <<[is |-> "heading", label |-> section.label]>>
      tables == Mapped(section.tables, LAMBDA t : [is |-> "table", table |-> t])
  IN <<[is |-> "open"]>> \o (IF section.headed THEN heading \o tables ELSE tables \o heading) \o <<[is |-> "close"]>>
PrintedPage(sections) == FlattenSeq(Mapped(sections, PrintedSection))

(* A section holds one table at most, and a table without a heading does   *)
(* not follow a section without a table, whose heading is the nearest.     *)
SectionsApart(sections) ==
  \A i \in DOMAIN sections :
    /\ Len(sections[i].tables) <= 1
    /\ sections[i].label = "none" /\ i > 1 => sections[i - 1].tables # <<>>

(* "A table headed 'Sauna' is not this pool's timetable under any          *)
(* ordering" (schedule_scraper.py:505): the hours served are those of the  *)
(* other sections' tables, all of them.                                    *)
SaunaNeverServed(sections, rules) ==
  Range(rules) =
    UNION {UNION {Range(TableRules(t)) : t \in Range(s.tables)} : s \in {x \in Range(sections) : x.label # "sauna"}}
=============================================================================
