---------------------------- MODULE SwimRequests ----------------------------
(***************************************************************************)
(* Requests to the code that keeps nothing, each asked once and answered   *)
(* once: a day of some pools, a person at a session, a price, a part of    *)
(* the year, the lane plans of a store's basins, the pages of a roster, a  *)
(* page alone.                                                             *)
(*                                                                         *)
(* Worlds are the stores a build may leave, each the facilities it wrote   *)
(* (domain/models.py) and the pools it knows no facility of; the rest is   *)
(* what may be asked of one, and what a lane phase and a scrape may read.  *)
(***************************************************************************)
EXTENDS SwimDay, LaneBinding, Sources, Timetables

CONSTANTS
  Worlds,      \* what may be stored
  Queries,     \* what may be asked of a day
  Calendar,    \* the public and the school holidays, and the years they are known of
  Ages,        \* what a visitor may turn out to be
  Bounds,      \* the ages printed on sessions
  Tariffs,     \* sequences of price entries
  LastMonth,   \* the last month of the year, counted from 0
  Addresses,   \* where lane sheets may be
  Declared,    \* sequences of basins that declare a sheet
  Linking,     \* sequences of pools' pages
  Printings,   \* what is read at each address
  Sites,       \* where pages may be
  LayerReplies, \* sequences of what the roster's layers answer
  PageReplies, \* what is read at each site
  TariffPages, \* sequences of the tables of a tariff page
  RentalPages, \* sequences of the tables of what is rented out
  Announcements, \* sequences of what an operator's prose names
  Overviews,   \* sequences of the sentences of the paddling pools' page
  WeeklyTables, \* sequences of the rows of a weekly timetable
  SeasonalTables, \* the columns and the rows of a seasonal timetable
  SectionedPages \* sequences of the sections of a pool's page

VARIABLES ask, answer
vars == <<ask, answer>>

-----------------------------------------------------------------------------
(* What is stored of a facility                                            *)

Hours == {span \in [start : Nat, end : Nat] : span.start < span.end}
Weathers == {"any", "fair_only"}
Session == [time : Hours, access : SessionAccess(Nat), weather : Weathers]

Season ==
  {NoSeason} \cup [start : Nat, end : Nat, precision : {"day", "month"}, weather : Weathers]
Rule ==
  [weekdays : SUBSET (0..Sunday), time : Hours, access : SessionAccess(Nat), scope : Scopes,
   season : Season, weather : Weathers]

(* A date that overrides its weekday; it may be open and name no session.  *)
Exception == [date : Nat, closed : BOOLEAN, reason : STRING, sessions : Seq(Session)]
Closure == [start : Nat, end : Nat, reason : STRING]
Notice == [from : Nat, to : Nat]

Reservation == [weekdays : SUBSET (0..Sunday), time : Hours, lanes : SUBSET Nat, access : STRING]
Plan == [lanes : Nat, reservations : Seq(Reservation), unresolved : SUBSET Nat]
Basin == [id : Nat, rules : Seq(Rule), exceptions : Seq(Exception), plan : Plan]

Band == [minAge : {NoAge} \cup Nat, amount : Int]
Admission == [kind : {"free", "unknown"}] \cup [kind : {"tariff"}, entries : Seq(Band)]

Facility ==
  [id : Nat, kind : {"indoor", "outdoor", "river", "lake", "school", "paddling", "thermal"},
   geo : {Unknown} \cup Nat, closures : Seq(Closure), season : Season, policy : Policies,
   basins : Seq(Basin), sauna : Seq(Rule), admission : Admission, notices : Seq(Notice)]

Day == [date : Nat, year : Nat, month : 1..12, dom : 1..31, weekday : 0..Sunday]
Query ==
  [person : People(Nat), day : Day, time : Nat, near : {Unknown} \cup Nat, radius : {Unknown} \cup Nat]

(* load_roster: every pool of the store, with its freshness; that of a     *)
(* pool without a facility is "no source".                                 *)
Roster(world) ==
  Mapped(world.facilities, LAMBDA f : [id |-> f.id, geo |-> f.geo, freshness |-> Freshness(f)])
    \o Mapped(world.bare, LAMBDA p : [id |-> p.id, geo |-> p.geo, freshness |-> "no_source"])

(* A store has one pool of an id: the primary key of its table.            *)
World ==
  {w \in [facilities : Seq(Facility), bare : Seq([id : Nat, geo : {Unknown} \cup Nat])] :
     \A i, j \in DOMAIN Roster(w) : Roster(w)[i].id = Roster(w)[j].id => i = j}

ASSUME StoresAssumption ==
  /\ Worlds \subseteq World
  /\ Queries \subseteq Query

(* A gate prints an age somebody is under; somebody else has reached it.   *)
ASSUME VisitorsAssumption ==
  /\ Ages \subseteq Nat /\ 0 \in Ages
  /\ Bounds \subseteq Nat \ {0}
  /\ \A bound \in Bounds : \E age \in Ages : age >= bound
  /\ Tariffs \subseteq Seq(Band)

ASSUME YearAssumption == LastMonth \in Nat

(* A store has one basin of a pool and an id, and what cannot be read is   *)
(* no plan.                                                                *)
DeclaredBasin == [pool : Nat, basin : Nat, url : Addresses, section : SUBSET STRING]
LinkPage == [pool : Nat, ok : BOOLEAN, hrefs : Seq(Addresses)]

ASSUME LanesAssumption ==
  /\ Declared \subseteq {s \in Seq(DeclaredBasin) : \A i, j \in DOMAIN s : Ref(s[i]) = Ref(s[j]) => i = j}
  /\ Linking \subseteq Seq(LinkPage)
  /\ Printings \subseteq [Addresses -> Seq(SUBSET STRING)]

(* What the roster's service and a page may say.                           *)
Feature == [name : Nat, id : Nat, poi : Nat, address : Nat, url : Sites \cup {Absent, Null}, prose : Nat]
Layer == [kind : STRING, ok : BOOLEAN, features : Seq(Feature)]

Banner == [text : STRING, from : {Blank} \cup Nat, to : {Blank} \cup Nat]
RentalTable ==
  [decodes : BOOLEAN,
   rows : Seq([noun : STRING, suffix : STRING,
               cell : Seq([is : STRING, amount : {Garbled} \cup Nat])])]
Token ==
  [is : Keywords \cup {"prose"}]
    \cup [is : {"range"}, day1 : Nat, year1 : {Blank} \cup Nat, day2 : Nat, year2 : Nat]
Sentence == [inItem : BOOLEAN, months : {NoMonths} \cup (Nat \X Nat), weather : BOOLEAN, free : BOOLEAN]
Page ==
  [ok : BOOLEAN, rules : {Blank} \cup Nat, tariff : BOOLEAN, gratis : BOOLEAN, banners : Seq(Banner),
   mieten : Seq(RentalTable), prose : Seq(Token), sentences : Seq(Sentence)]

(* A heading is a text: it is not the absence of one.                      *)
TariffRow == [label : STRING \ {NoSection}, cells : [1..3 -> {Blank, Garbled} \cup Nat]]
TariffSheet == [bounds : [1..3 -> {Blank} \cup Nat], rows : Seq(TariffRow)]

(* A day cell names weekdays, or is blank; a span has two ends.  The lines  *)
(* of an hours cell are not blank.                                         *)
Days == {d \in [tokens : Seq(Weekdays), span : BOOLEAN, holidays : BOOLEAN] : d.span => Len(d.tokens) = 2}
HoursLine == [lo : Int, hi : Int, season : Nat, days : SUBSET Weekdays] \ {BlankLine}
WeeklyRow == [day : Days, hours : Seq(HoursLine), offer : Seq(SUBSET STRING)]
SeasonalRow == [window : Nat, cells : Seq(Seq(HoursLine))]
SeasonalTable == [weathers : Seq(Weathers), rows : Seq(SeasonalRow)]

DataTable ==
  [kind : {"weekly"}, rows : Seq(WeeklyRow)]
    \cup [kind : {"seasonal"}, weathers : Seq(Weathers), rows : Seq(SeasonalRow)]
    \cup [kind : {"prose"}]
Section == [label : STRING, headed : BOOLEAN, tables : Seq(DataTable)]

ASSUME PagesAssumption ==
  /\ Sites \subseteq Nat \ {Absent, Null}
  /\ \A url \in Sites \cap DOMAIN Repairs : Repairs[url] \in Sites
  /\ LayerReplies \subseteq Seq(Layer)
  /\ PageReplies \subseteq [Sites -> Page]
  /\ TariffPages \subseteq Seq(TariffSheet)
  /\ RentalPages \subseteq Seq(RentalTable)
  /\ Announcements \subseteq Seq(Token)
  /\ Overviews \subseteq Seq(Sentence)
  /\ WeeklyTables \subseteq Seq(WeeklyRow)
  /\ SeasonalTables \subseteq SeasonalTable
  /\ SectionedPages \subseteq Seq(Section)

-----------------------------------------------------------------------------

DayAsks == [kind : {"day"}, world : Worlds, query : Queries]
AccessAsks == [kind : {"access"}, person : People(Ages), access : SessionAccess(Bounds)]
PriceAsks == [kind : {"price"}, entries : Tariffs]
WindowAsks == [kind : {"window"}, start : 0..LastMonth, end : 0..LastMonth]
LaneAsks == [kind : {"lanes"}, basins : Declared, pages : Linking, sheets : Printings]
ScrapeAsks == [kind : {"scrape"}, layers : LayerReplies, pages : PageReplies]
SheetAsks ==
  [kind : {"tariffs"}, tables : TariffPages] \cup [kind : {"rentals"}, tables : RentalPages]
    \cup [kind : {"prose"}, tokens : Announcements] \cup [kind : {"paddling"}, sentences : Overviews]
TimeAsks ==
  [kind : {"weekly"}, rows : WeeklyTables] \cup [kind : {"seasonal"}, table : SeasonalTables]
    \cup [kind : {"sections"}, sections : SectionedPages]
Asks ==
  DayAsks \cup AccessAsks \cup PriceAsks \cup WindowAsks \cup LaneAsks \cup ScrapeAsks \cup SheetAsks
    \cup TimeAsks

(* What has been answered: nothing, or one value.                          *)
Pending == <<>>

Init ==
  /\ ask \in Asks
  /\ answer = Pending

Reply(kind, value) ==
  /\ ask.kind = kind
  /\ answer = Pending
  /\ answer' = <<value>>
  /\ UNCHANGED ask

AnswerDay == Reply("day", FindSwimOptions(ask.query, ask.world.facilities, Calendar, Roster(ask.world)))
AdmitPerson == Reply("access", Eligibility(ask.person, ask.access))
QuotePrice == Reply("price", EntryFor(ask.entries, NoAge))
ReadWindow == Reply("window", {m \in 0..LastMonth : Within(m, ask.start, ask.end)})
BindLanes == Reply("lanes", LanePhase(ask.basins, ask.pages, ask.sheets))
ScrapeAll == Reply("scrape", Scrape(ask.layers, ask.pages))
ReadTariffs == Reply("tariffs", ParsePrices(ask.tables))
ReadRentals == Reply("rentals", ParseMietobjekte(ask.tables))
ReadProse == Reply("prose", ParseMaintenanceClosures(ask.tokens))
ReadPaddling == Reply("paddling", ParsePlanschbecken(ask.sentences))
ReadWeekly == Reply("weekly", RulesFromRows(ask.rows))
ReadSeasonal == Reply("seasonal", RulesFromSeasonRows(ask.table.weathers, ask.table.rows))
ReadSections == Reply("sections", ParseSchedule(PrintedPage(ask.sections), "city"))

Next ==
  \/ AnswerDay \/ AdmitPerson \/ QuotePrice \/ ReadWindow \/ BindLanes \/ ScrapeAll
  \/ ReadTariffs \/ ReadRentals \/ ReadProse \/ ReadPaddling
  \/ ReadWeekly \/ ReadSeasonal \/ ReadSections

Spec == Init /\ [][Next]_vars

-----------------------------------------------------------------------------

Answered(kind) == ask.kind = kind /\ answer # Pending
Given == answer[1]

(* Every pool in reach answers in exactly one way (SwimDay).               *)
EachPoolOnce == Answered("day") =>
  OneAnswerEach(ask.query, ask.world.facilities, Roster(ask.world), Given)

(* Hours on a public holiday are the pool's own or said to be unconfirmed  *)
(* (SwimDay).                                                              *)
HolidaysVouched == Answered("day") =>
  HolidayHoursVouched(ask.query, ask.world.facilities, Calendar, Given)

(* A closure beats every other rule, for pools and features (SwimDay).     *)
ClosuresWin == Answered("day") => ClosureWins(ask.query, ask.world.facilities, Calendar, Given)

(* Options and statuses are ranked on the same geography (SwimDay).        *)
BoardRanked == Answered("day") => RankedAlike(Given)

(* A session's lanes are those of a moment inside it (SwimDay).            *)
SplitsInside == Answered("day") => SplitInsideSession(ask.query, Given)

(* "The facility's whole timetable is seasonal" (SwimDay).                 *)
WholePoolsOutOfSeason ==
  Answered("day") => OutOfSeasonIsWholePool(ask.query, ask.world.facilities, Given)

(* A window across New Year is the rest of the year (SwimDay).             *)
WindowsWrap == Answered("window") => WindowsAreCyclic(LastMonth, ask.start, ask.end)

(* What a person does not say is never assumed (Access).                   *)
PersonsTaken == Answered("access") => NothingAssumed(ask.person, ask.access, Ages)

(* Nobody pays a band they have not reached, or less by keeping quiet      *)
(* (Access).                                                               *)
PricesMonotone == Answered("price") => NeverUndercharged(ask.entries, Ages)

(* No basin is given another's lanes (LaneBinding).                        *)
LanesOwn == Answered("lanes") => OwnPlansOnly(Given, ask.basins, ask.sheets)

(* No parsed plan is dropped unsaid (LaneBinding).                         *)
PlansSaid == Answered("lanes") => PlansAccountedFor(Given, ask.pages, ask.sheets)

(* No declared basin is left without a plan unsaid (LaneBinding).          *)
HolesSaid == Answered("lanes") => NoSilentHole(Given, ask.basins, ask.pages, ask.sheets)

(* No category is missing, no null is a text (Sources).                    *)
RosterWhole == Answered("scrape") => WholeRoster(ask.layers, FetchAllPools(ask.layers))

(* One reading and one account per page (Sources).                         *)
PagesOnce == Answered("scrape") => PagesReadOnce(ask.layers, Given)

(* A drifting roster leaves a trace (Sources).                             *)
DriftLeavesTrace == Answered("scrape") => DriftNoted(ask.layers, Given)

(* A pool's own shutdowns, and no other's (Sources).                       *)
ShutdownsOwn == Answered("scrape") => ShutdownsArrive(ask.layers, ask.pages, Given)

(* Both rates come from their own sections of one table (PageFacts).       *)
RatesKeptApart == Answered("tariffs") => RatesFromTheirSections(ask.tables, Given)

(* Every row for rent is kept, its deposit no fee (PageFacts).             *)
RentalsKept == Answered("rentals") => RowsKept(ask.tables, Given)

(* Shutdowns are what stands near a keyword (PageFacts).                   *)
ShutdownsNear == Answered("prose") => ClosuresAnnounced(ask.tokens, Given)

(* A pool's blurb says nothing of the other twelve (PageFacts).            *)
BlurbsApart == Answered("paddling") => BlurbsUnread(ask.sentences, Given)

(* Every printed session is served, under its offer (Timetables).          *)
SessionsServed == Answered("weekly") => EverySessionKept(ask.rows, Given)

(* Hours of fair weather are never promised for all (Timetables).          *)
WeatherKept == Answered("seasonal") => WeatherSaid(ask.table.weathers, ask.table.rows, Given)

(* A section of one table is served if it is the pool's, not if it is the  *)
(* sauna's, wherever its heading stands (Timetables).                      *)
SaunaKeptOut ==
  Answered("sections") /\ SectionsApart(ask.sections) => SaunaNeverServed(ask.sections, Given.rules)

(* "Never served, however early it appears on the page, and under any      *)
(* ordering" (schedule_scraper.py:504): the same of sections of several    *)
(* tables.                                                                 *)
SaunaKeptOutAlways == Answered("sections") => SaunaNeverServed(ask.sections, Given.rules)

(* A closure beats every other rule, for pools and features; hours on a    *)
(* public holiday are the pool's own or said to be unconfirmed; a window   *)
(* across New Year is the rest of the year (resolver.py:101).              *)
DaysDecided == ClosuresWin /\ HolidaysVouched /\ WindowsWrap

(* Every pool in reach answers in exactly one way, and options and         *)
(* statuses are ranked on one geography (query.py:667).                    *)
BoardAnswered == EachPoolOnce /\ BoardRanked

(* What a visitor does not say is neither assumed nor charged for          *)
(* (access.py:267, pricing.py:41).                                         *)
VisitorsTaken == PersonsTaken /\ PricesMonotone

(* A basin is given its own lanes, and whatever is left over, sheet or     *)
(* basin, is said (silver.py:173).                                         *)
LanesKept == LanesOwn /\ PlansSaid /\ HolesSaid

(* No kind of pool is missing, each page is read once and accounted for    *)
(* once, drift leaves a trace, and shutdowns stay with their pool          *)
(* (scrape.py:346).                                                        *)
ScrapeAccounted == RosterWhole /\ PagesOnce /\ DriftLeavesTrace /\ ShutdownsOwn

(* Tariffs, rentals, announced shutdowns and the paddling pools' season    *)
(* are what their own rows and sentences say (price_scraper.py:256).       *)
PagesServed == RatesKeptApart /\ RentalsKept /\ ShutdownsNear /\ BlurbsApart

(* Every printed session of the pool is served under its offer and its     *)
(* weather, and none of the sauna's (schedule_scraper.py:363).             *)
TimetablesServed == SessionsServed /\ WeatherKept /\ SaunaKeptOut
=============================================================================
