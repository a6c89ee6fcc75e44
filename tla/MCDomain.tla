------------------------------ MODULE MCDomain ------------------------------
(***************************************************************************)
(* A small store and what is asked of it, the lane sheets of two of its    *)
(* basins, a roster with its pages, and pages of one kind each.            *)
(***************************************************************************)
EXTENDS SwimRequests

(* A year of four dates: an ordinary term Monday in May, a school-holiday  *)
(* Monday in July, a public holiday (a Thursday) in November, and a Sunday *)
(* in January of a year the calendar does not know.                        *)
Date(date, year, month, dom, weekday) ==
  [date |-> date, year |-> year, month |-> month, dom |-> dom, weekday |-> weekday]
MCDays == {Date(1, 1, 5, 30, 0), Date(2, 1, 7, 15, 0), Date(3, 1, 11, 1, 3), Date(4, 2, 1, 2, 6)}
MCCalendar == [public |-> {3}, school |-> {[start |-> 2, end |-> 2]}, years |-> {1}]

SeasonOf(start, end, precision, weather) ==
  [start |-> start, end |-> end, precision |-> precision, weather |-> weather]
Summer == SeasonOf(MonthDay(5, 30), MonthDay(8, 16), "day", "fair_only")
Winter == SeasonOf(MonthDay(10, 1), MonthDay(4, 30), "month", "any")

RuleOf(weekdays, lo, hi, arm, scope, season) ==
  [weekdays |-> weekdays, time |-> Span(lo, hi), access |-> [arm |-> arm, minAge |-> 0],
   scope |-> scope, season |-> season, weather |-> "any"]
Daily(season) == RuleOf(0..6, 1, 4, "public", "always", season)
Mondays == RuleOf({0}, 2, 5, "women-only", "school_term", NoSeason)
Sundays == RuleOf({6}, 0, 2, "public", "always", NoSeason)
Holidays == RuleOf({0}, 0, 3, "family", "school_holiday", NoSeason)

(* Both lanes public to 3 o'clock, then a club on one and the public on    *)
(* the other.                                                              *)
Evening ==
  LET Held(lo, hi, lanes, access) ==
        [weekdays |-> {0, 1}, time |-> Span(lo, hi), lanes |-> lanes, access |-> access]
  IN [lanes |-> 2, unresolved |-> {},
      reservations |-> <<Held(0, 3, {1, 2}, Public), Held(3, 5, {1}, "Limmat"), Held(3, 4, {2}, Public)>>]
BasinOf(id, rules, exceptions) ==
  [id |-> id, rules |-> rules, exceptions |-> exceptions,
   plan |-> IF id = 2 THEN Evening ELSE NoPlan]

Timetables == {<<>>, <<Mondays, Sundays>>, <<Holidays, Daily(Winter), Mondays>>, <<Daily(Summer)>>}
Special(closed, sessions) == [date |-> 3, closed |-> closed, reason |-> "gala", sessions |-> sessions]
Gala == <<[time |-> Span(3, 4), access |-> [arm |-> "public", minAge |-> 0], weather |-> "any"]>>
Shut(start, end) == [start |-> start, end |-> end, reason |-> "maintenance"]

(* A season is stated only by a pool without a timetable (models.py:226).  *)
Pools ==
  {f \in [id : {2}, kind : {"indoor", "outdoor"}, geo : {Unknown, 2},
          closures : {<<>>, <<Shut(2, 3)>>}, season : {NoSeason, Summer}, policy : Policies,
          basins : {<<BasinOf(1, r1, e), BasinOf(2, r2, <<>>)>> :
                      r1 \in Timetables, r2 \in Timetables,
                      e \in {<<>>, <<Special(TRUE, Gala)>>, <<Special(FALSE, Gala)>>,
                              <<Special(FALSE, <<>>)>>}},
          sauna : {<<Daily(NoSeason)>>},
          admission : {[kind |-> "unknown"]},
          notices : {<<[from |-> 2, to |-> 3]>>}] :
     f.season # NoSeason => ~Scheduled(f)}

(* Its neighbours: a paddling pool with a season, a pool not yet scraped,  *)
(* one without a facility.                                                 *)
Plain(id, kind, geo, season) ==
  [id |-> id, kind |-> kind, geo |-> geo, closures |-> <<>>, season |-> season,
   policy |-> "unstated", basins |-> <<BasinOf(1, <<>>, <<>>)>>, sauna |-> <<>>,
   admission |-> [kind |-> "free"], notices |-> <<>>]
Neighbours == <<Plain(1, "paddling", 1, Winter), Plain(3, "indoor", 2, NoSeason)>>

MCWorlds ==
  {[facilities |-> <<pool>> \o Neighbours, bare |-> <<[id |-> 4, geo |-> Unknown]>>] : pool \in Pools}
MCQueries ==
  {q \in [person : {[gender |-> "female", age |-> NoAge]}, day : MCDays, time : {2, 5},
          near : {Unknown, 0}, radius : {Unknown, 2}] :
     q.time = 5 => q.near = Unknown /\ q.radius = Unknown}

MCBands == {[minAge |-> a, amount |-> a] : a \in {NoAge, 0, 6, 16}}
MCTariffs == {<<x, y, z>> : x \in MCBands, y \in MCBands, z \in MCBands}

(* Two basins of one pool, or of two, and the sheets at two addresses; one *)
(* token is blank.                                                         *)
Sections == {Whole, {"gross"}, {"klein"}, {}}
Headers == {<<>>, <<Whole>>, <<{"gross"}>>, <<{"gross"}, {"klein"}>>,
            <<{"gross", "klein"}, {"klein"}>>, <<{"gross"}, {"gross"}>>}
MCDeclared ==
  {<<[pool |-> 1, basin |-> 1, url |-> 1, section |-> s],
     [pool |-> p, basin |-> 2, url |-> u, section |-> t]>> :
     s \in Sections, p \in {1, 2}, u \in {1, 2}, t \in Sections}
MCLinking ==
  {<<[pool |-> 1, ok |-> TRUE, hrefs |-> h], [pool |-> 2, ok |-> ok, hrefs |-> <<2>>]>> :
     h \in {<<1>>, <<2, 1, 1>>}, ok \in BOOLEAN}
MCPrintings == [1..2 -> Headers]

-----------------------------------------------------------------------------
(* A roster of two layers, the second the paddling pools', and its pages:  *)
(* 1 and 2 are pools' own, 3 is the registered overview, 4 is 2 written    *)
(* with the broken host, and is not served.                                *)

FeatureOf(name, id, url, prose) ==
  [name |-> name, id |-> id, poi |-> id, address |-> id, url |-> url, prose |-> prose]
MCLayers ==
  {<<[kind |-> kind, ok |-> TRUE, features |-> <<FeatureOf(1, 1, u, prose), FeatureOf(2, 2, v, prose)>>],
     [kind |-> "paddling", ok |-> ok, features |-> <<FeatureOf(5, 5, 3, Absent), FeatureOf(n, 6, w, Absent)>>]>> :
     kind \in {"indoor", "school"}, ok \in BOOLEAN, u \in {1, 2, Null}, v \in {2, 3, 4}, w \in {1, 3},
     n \in {2, 6}, prose \in {Null, 31}}
MCRepairs == [url \in {4} |-> 2]

BannerOf(text, from, to) == [text |-> text, from |-> from, to |-> to]
Disturbers == <<BannerOf("geschlossen", 11, 12), BannerOf("geschlossen", 11, 12),
                BannerOf("fest", 13, 14), BannerOf("geschlossen", 15, Blank)>>
OwnPage(ok, rules, tariff, gratis, cell, banners) ==
  [ok |-> ok, rules |-> rules, tariff |-> tariff, gratis |-> gratis, banners |-> banners,
   mieten |-> <<[decodes |-> TRUE, rows |-> <<[noun |-> "lounge", suffix |-> "none", cell |-> cell]>>]>>,
   prose |-> <<[is |-> "revision"], [is |-> "range", day1 |-> 3, year1 |-> Blank, day2 |-> 5, year2 |-> 2]>>,
   sentences |-> <<>>]
OwnPages ==
  {OwnPage(TRUE, 5, t, g, <<>>, b) : t \in BOOLEAN, g \in BOOLEAN, b \in {<<>>, Disturbers}} \cup
  {OwnPage(FALSE, 5, TRUE, FALSE, <<>>, <<>>), OwnPage(TRUE, Blank, TRUE, FALSE, <<>>, <<>>),
   OwnPage(TRUE, 5, TRUE, FALSE, <<[is |-> "fr", amount |-> Garbled]>>, <<>>)}
Overview(ok, free) ==
  [OwnPage(ok, Blank, FALSE, FALSE, <<>>, <<>>) EXCEPT
     !.sentences = <<[inItem |-> FALSE, months |-> <<5, 9>>, weather |-> TRUE, free |-> free]>>]
MCPages ==
  {<<own, OwnPage(TRUE, 6, TRUE, FALSE, <<>>, <<>>), shared, OwnPage(FALSE, Blank, FALSE, FALSE, <<>>, <<>>)>> :
     own \in OwnPages, shared \in {Overview(TRUE, TRUE), Overview(TRUE, FALSE), Overview(FALSE, TRUE)}}

-----------------------------------------------------------------------------
(* Tariffs, rentals, announcements, the paddling pools' page               *)

RowOf(label, a, b, c) == [label |-> label, cells |-> <<a, b, c>>]
Heading(label) == RowOf(label, Blank, Blank, Blank)
TariffRows ==
  {RowOf(SingleEntry, 8, 6, 4), RowOf(SingleEntry, 5, 5, 0), RowOf(SingleEntry, 5, Garbled, 2),
   RowOf("abo", 80, 60, 40), Heading(SchoolSection), Heading("winter")}
MCTariffPages ==
  {<<[bounds |-> b, rows |-> rows],
     [bounds |-> <<18, 14, 0>>, rows |-> <<RowOf(SingleEntry, 9, 7, 3), Heading(SchoolSection), last>>]>> :
     b \in {<<20, 16, 6>>, <<20, Blank, 6>>}, rows \in SeqOf(TariffRows, 3),
     last \in {RowOf(SingleEntry, 4, 3, 1), RowOf("abo", 70, 50, 30)}}

Clause(is, amount) == [is |-> is, amount |-> amount]
RentalRows ==
  [noun : {"garderobenkasten", "monatskabine", "lounge", "none"}, suffix : {"none", "halbjahr"},
   cell : {<<>>, <<Clause("gratis", 0)>>, <<Clause("fr", 0)>>, <<Clause("gratis", 0), Clause("depot", 5)>>,
           <<Clause("depot", 5), Clause("fr", 2)>>, <<Clause("words", 0), Clause("gratis", 0)>>,
           <<Clause("fr", Garbled)>>}]
MCRentalPages ==
  {<<[decodes |-> d, rows |-> <<r, s>>]>> : d \in BOOLEAN, r \in RentalRows, s \in RentalRows}

RangeOf(day1, year1, day2, year2) ==
  [is |-> "range", day1 |-> day1, year1 |-> year1, day2 |-> day2, year2 |-> year2]
MCAnnouncements ==
  SeqOf({[is |-> "revision"], [is |-> "betriebsferien"], [is |-> "prose"],
         RangeOf(3, Blank, 5, 2), RangeOf(7, 1, 2, 2), RangeOf(7, Blank, 2, 2)}, 4)

MCOverviews ==
  SeqOf([inItem : BOOLEAN, months : {NoMonths, <<5, 9>>, <<6, 8>>}, weather : BOOLEAN, free : BOOLEAN], 2)

-----------------------------------------------------------------------------
(* Timetables: rows that name a day, a span, a Sunday with the holidays or *)
(* none; windows and cells of one line or two; sections of up to two       *)
(* tables, their headings first or last.                                   *)

Rows ==
  LET DayCells == {DayCell(<<0>>, FALSE, FALSE), DayCell(<<5, 1>>, TRUE, FALSE),
                   DayCell(<<2, 6>>, FALSE, TRUE), DayCell(<<>>, FALSE, FALSE)}
      Early == Line(6, 8, Nothing, {})
      Late == Line(18, 22, Nothing, {})
      Backward == Line(9, 9, Nothing, {})
      Qualified == Line(9, 18, Nothing, {5})
  IN [day : DayCells, hours : {<<Early>>, <<Early, Late>>, <<Backward, Late>>, <<Qualified, Late>>},
      offer : {<<>>, <<{"frauen"}>>, <<{}, {"kinder", "und", "erwachsene"}>>}]
MCWeeklyTables == {<<r, s>> : r \in Rows, s \in Rows}

SeasonCells == {<<>>, <<Line(9, 20, Nothing, {})>>, <<Line(9, 18, Nothing, {0, 1}), Line(10, 20, Nothing, {5, 6})>>}
MCSeasonalTables ==
  [weathers : {<<"any">>, <<"any", "fair_only">>},
   rows : {<<[window |-> v, cells |-> <<a, b>>], [window |-> w, cells |-> <<c>>]>> :
             v \in {Nothing, 1}, w \in {Nothing, 2}, a \in SeasonCells, b \in SeasonCells, c \in SeasonCells}]

TableAt(hour) ==
  [kind |-> "weekly",
   rows |-> <<[day |-> DayCell(<<0>>, FALSE, FALSE), hours |-> <<Line(hour, hour + 1, Nothing, {})>>, offer |-> <<>>]>>]
SectionOf(label, headed, tables) == [label |-> label, headed |-> headed, tables |-> tables]
MCSectionedPages ==
  {<<SectionOf(l, h, a), SectionOf(m, h, b), SectionOf(n, h, <<TableAt(5)>>)>> :
     h \in BOOLEAN, l \in {"pool", "sauna", "none"}, m \in {"pool", "sauna"}, n \in {"sauna", "none"},
     a \in {<<>>, <<TableAt(1)>>}, b \in {<<TableAt(3)>>, <<TableAt(3), TableAt(4)>>}}
=============================================================================
