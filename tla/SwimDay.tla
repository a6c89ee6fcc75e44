------------------------------- MODULE SwimDay -------------------------------
(***************************************************************************)
(* "Where can I swim?": which rule decides a day (domain/resolver.py over  *)
(* domain/schedule.py, calendar.py, closure.py, holiday.py) and the answer *)
(* a query gets (domain/query.py, domain/catalog.py).                      *)
(*                                                                         *)
(* A day is [date, year, month, dom, weekday]; date only orders the days.  *)
(***************************************************************************)
EXTENDS Access, LanePlans

Sunday == 6
Known == {"seasonal_break", "maintenance"}      \* phrases with a code of their own
NoSeason == [start |-> 0, end |-> 0, precision |-> "none", weather |-> "any"]
Scopes == {"always", "school_term", "school_holiday"}
NoPlan == [lanes |-> 0, reservations |-> <<>>, unresolved |-> {}]
Policies == {"normal", "sunday_schedule", "closed", "unstated"}

-----------------------------------------------------------------------------
(* Windows of the year and the calendar                                    *)

MonthDay(month, dom) == 32 * month + dom

(* Mutant of Within: a window that wraps New Year is read as empty.        *)
WithinUnwrapped(key, start, end) == start <= key /\ key <= end

(* A year-free axis: a start after the end wraps New Year.                 *)
Within(key, start, end) ==
  IF start <= end THEN start <= key /\ key <= end ELSE key >= start \/ key <= end

(* AnnualWindow.contains: whole months when only months were published.    *)
InWindow(window, day) ==
  IF window.precision = "month"
    THEN Within(day.month, window.start \div 32, window.end \div 32)
    ELSE Within(MonthDay(day.month, day.dom), window.start, window.end)

CalendarCovers(calendar, day) == day.year \in calendar.years

Context(calendar, day) ==
  [holiday |-> day.date \in calendar.public,
   school |-> \E r \in calendar.school : r.start <= day.date /\ day.date <= r.end]

(* classify_closure: a phrase without a code travels with its text.        *)
ClassifyClosure(reason) ==
  CASE reason = "" -> [code |-> "special", text |-> ""]
    [] reason \in Known -> [code |-> reason, text |-> ""]
    [] OTHER -> [code |-> "unmapped", text |-> reason]

-----------------------------------------------------------------------------
(* resolve_hours: five layers, each of which decides the day or passes it  *)
(* on.                                                                     *)

Pass == [kind |-> "pass"]
OpenDay(sessions, unverified) ==
  [kind |-> "open", sessions |-> sessions, unverified |-> unverified]
Unscheduled(weather) == [kind |-> "unscheduled", weather |-> weather]
ClosedDay(reason) == [kind |-> "closed", reason |-> reason]
Code(code) == [code |-> code, text |-> ""]

ByClosure(facility, day) ==
  LET shut == Kept(facility.closures, LAMBDA c : c.start <= day.date /\ day.date <= c.end)
  IN IF shut = <<>> THEN Pass ELSE ClosedDay(ClassifyClosure(shut[1].reason))

ByException(exceptions, day) ==
  LET dated == Kept(exceptions, LAMBDA e : e.date = day.date)
  IN IF dated = <<>> THEN Pass
     ELSE IF dated[1].closed THEN ClosedDay(ClassifyClosure(dated[1].reason))
     ELSE OpenDay(dated[1].sessions, FALSE)

BySeason(facility, rules, day) ==
  IF facility.season = NoSeason THEN Pass
  ELSE IF ~InWindow(facility.season, day) THEN ClosedDay(Code("out_of_season"))
  ELSE IF rules = <<>> THEN Unscheduled(facility.season.weather)
  ELSE Pass

ByHoliday(facility, day, calendar) ==
  IF Context(calendar, day).holiday /\ facility.policy = "closed"
    THEN ClosedDay(Code("public_holiday"))
    ELSE Pass

ScopeApplies(scope, context) ==
  scope = "always" \/ context.school = (scope = "school_holiday")

InSeason(rule, day) == rule.season = NoSeason \/ InWindow(rule.season, day)

(* _sessions_for_weekday                                                   *)
SessionsFor(rules, weekday, context, day) ==
  SortedBy(Mapped(Kept(rules, LAMBDA r : /\ weekday \in r.weekdays
                                              /\ ScopeApplies(r.scope, context)
                                              /\ InSeason(r, day)),
                  LAMBDA r : [time |-> r.time, access |-> r.access, weather |-> r.weather]),
           LAMBDA s : s.time.start)

(* _empty_day: out of season only when the whole timetable is.             *)
EmptyReason(rules, day) ==
  IF rules # <<>> /\ \A i \in DOMAIN rules : rules[i].season # NoSeason /\ ~InSeason(rules[i], day)
    THEN Code("out_of_season") ELSE Code("no_sessions")

(* Mutant of ByRules: an unstated holiday policy is taken for normal.      *)
ByRulesNormal(facility, rules, day, calendar) ==
  LET context == Context(calendar, day)
      weekday == IF context.holiday /\ facility.policy = "sunday_schedule" THEN Sunday ELSE day.weekday
      sessions == SessionsFor(rules, weekday, context, day)
  IN IF sessions = <<>> THEN ClosedDay(EmptyReason(rules, day)) ELSE OpenDay(sessions, FALSE)

ByRules(facility, rules, day, calendar) ==
  LET context == Context(calendar, day)
      weekday == IF context.holiday /\ facility.policy = "sunday_schedule" THEN Sunday ELSE day.weekday
      sessions == SessionsFor(rules, weekday, context, day)
  IN IF sessions = <<>> THEN ClosedDay(EmptyReason(rules, day))
     ELSE OpenDay(sessions, context.holiday /\ facility.policy = "unstated")

(* Mutant of Layers: a dated exception is asked before a closure.          *)
LayersExceptionFirst(facility, rules, exceptions, day, calendar) ==
  <<ByException(exceptions, day), ByClosure(facility, day), BySeason(facility, rules, day),
    ByHoliday(facility, day, calendar), ByRules(facility, rules, day, calendar)>>

Layers(facility, rules, exceptions, day, calendar) ==
  <<ByClosure(facility, day), ByException(exceptions, day), BySeason(facility, rules, day),
    ByHoliday(facility, day, calendar), ByRules(facility, rules, day, calendar)>>

ResolveHours(facility, rules, exceptions, day, calendar) ==
  FirstThat(Layers(facility, rules, exceptions, day, calendar), LAMBDA d : d # Pass, Pass)

-----------------------------------------------------------------------------
(* find_swim_options                                                       *)

Unknown == -1        \* no distance, when either end has no position
Far == 1000          \* float("inf") in the sort keys

Distance(query, geo) ==
  IF query.near = Unknown \/ geo = Unknown THEN Unknown
  ELSE IF query.near > geo THEN query.near - geo ELSE geo - query.near

Rank(distance) == IF distance = Unknown THEN Far ELSE distance

Scheduled(facility) == \E i \in DOMAIN facility.basins : facility.basins[i].rules # <<>>

(* freshness_of, for a pool without a rule: only of indoor pools is every  *)
(* one a declared source.                                                  *)
Freshness(facility) ==
  IF Scheduled(facility) THEN "scraped"
  ELSE IF facility.kind \in {"indoor", "thermal"} THEN "awaiting_scrape" ELSE "no_source"

(* Mutant of SplitTime: the queried time, in the session or not.           *)
SplitTimeQueried(query, session) == query.time

(* The lanes are split at the queried time, outside the session at its     *)
(* start.                                                                  *)
SplitTime(query, session) ==
  IF Covers(session.time, query.time) THEN query.time ELSE session.time.start

SessionOption(query, facility, basin, session) ==
  [pool |-> facility.id, basin |-> basin.id, session |-> session,
   eligibility |-> Eligibility(query.person, session.access),
   openNow |-> Covers(session.time, query.time),
   price |-> PriceOf(facility.admission, query.person.age),
   distance |-> Distance(query, facility.geo),
   lanes |-> IF basin.plan = NoPlan THEN <<>>
             ELSE <<[split |-> AvailabilityAt(basin.plan, query.day.weekday, SplitTime(query, session)),
                     timeline |-> Timeline(basin.plan, query.day.weekday, session.time),
                     day |-> DayView(basin.plan, query.day.weekday),
                     best |-> BestPublic(basin.plan, query.day.weekday, session.time)]>>]

Status(facility, status, reason, distance) ==
  [pool |-> facility, status |-> status, reason |-> reason, distance |-> distance]

(* _seasonal_status_for: a facility without a rule whose page states a     *)
(* season answers for itself.                                              *)
SeasonalStatus(query, facility, calendar) ==
  IF facility.season = NoSeason \/ Scheduled(facility) THEN <<>>
  ELSE LET day == ResolveHours(facility, <<>>, <<>>, query.day, calendar)
           distance == Distance(query, facility.geo)
       IN IF day.kind = "closed" THEN <<Status(facility.id, "closed", day.reason, distance)>>
          ELSE <<Status(facility.id, "open_unscheduled", Code(day.weather), distance)>>

(* A pool none of whose basins has a session is closed, for the reason its *)
(* last closed basin gives.                                                *)
ClosedStatus(query, facility, days) ==
  LET closed == Kept(days, LAMBDA d : d.day.kind = "closed")
      produced == \E i \in DOMAIN days : days[i].day.kind = "open" /\ days[i].day.sessions # <<>>
  IN IF produced \/ closed = <<>> THEN <<>>
     ELSE <<Status(facility.id, "closed", Last(closed).day.reason, Distance(query, facility.geo))>>

(* One turn of the facility loop; a basin without a rule is not asked.     *)
PoolAnswer(query, facility, calendar) ==
  LET basins == Kept(facility.basins, LAMBDA b : b.rules # <<>>)
      days == Mapped(basins, LAMBDA b :
                [basin |-> b, day |-> ResolveHours(facility, b.rules, b.exceptions, query.day, calendar)])
      open == Kept(days, LAMBDA d : d.day.kind = "open")
  IN [options |-> FlattenSeq(Mapped(open, LAMBDA d :
                    Mapped(d.day.sessions, LAMBDA s : SessionOption(query, facility, d.basin, s)))),
      statuses |-> SeasonalStatus(query, facility, calendar) \o ClosedStatus(query, facility, days),
      unverified |-> \E i \in DOMAIN open : open[i].day.unverified,
      notices |-> Kept(facility.notices, LAMBDA n : n.from <= query.day.date /\ query.day.date <= n.to)]

InRadius(query, facility) ==
  LET distance == Distance(query, facility.geo)
  IN query.radius = Unknown \/ distance = Unknown \/ distance <= query.radius

(* Mutant of ScheduleLess: a season does not take its pool off the roster. *)
ScheduleLessGhosts(query, facilities, roster) ==
  LET answered == {facilities[i].id : i \in {j \in DOMAIN facilities : Scheduled(facilities[j])}}
      rest == Kept(roster, LAMBDA e : e.id \notin answered /\ e.freshness # "scraped")
  IN Mapped(rest, LAMBDA e : Status(e.id, e.freshness, Code(e.freshness), Distance(query, e.geo)))

(* _schedule_less_statuses: the roster less what the loop has answered.    *)
ScheduleLess(query, facilities, roster) ==
  LET answered == {facilities[i].id : i \in {j \in DOMAIN facilities :
                     Scheduled(facilities[j]) \/ facilities[j].season # NoSeason}}
      rest == Kept(roster, LAMBDA e : e.id \notin answered /\ e.freshness # "scraped")
  IN Mapped(rest, LAMBDA e : Status(e.id, e.freshness, Code(e.freshness), Distance(query, e.geo)))

(* _option_order: nearest first, then the earliest, then the name; a       *)
(* pool's number is its place among the names.                             *)
OptionOrder(options) ==
  LET named == SortedBy(options, LAMBDA o : o.pool)
  IN SortedBy(SortedBy(named, LAMBDA o : o.session.time.start), LAMBDA o : Rank(o.distance))

(* Mutant of StatusOrder: statuses stay in the order the loop met them.    *)
StatusOrderNone(statuses) == statuses

(* _status_order: the same geography, then the name.                       *)
StatusOrder(statuses) ==
  SortedBy(SortedBy(statuses, LAMBDA s : s.pool), LAMBDA s : Rank(s.distance))

FindSwimOptions(query, facilities, calendar, roster) ==
  LET near == Kept(facilities, LAMBDA f : InRadius(query, f))
      answers == Mapped(near, LAMBDA f : PoolAnswer(query, f, calendar))
  IN [options |-> OptionOrder(FlattenSeq(Mapped(answers, LAMBDA a : a.options))),
      statuses |-> StatusOrder(FlattenSeq(Mapped(answers, LAMBDA a : a.statuses))
                                 \o ScheduleLess(query, facilities, roster)),
      notices |-> FlattenSeq(Mapped(answers, LAMBDA a : a.notices)),
      uncovered |-> ~CalendarCovers(calendar, query.day),
      unconfirmed |-> {near[i].id : i \in {j \in DOMAIN near : answers[j].unverified}}]

(* _feature_status: a feature without hours of its own is left open.       *)
FeatureOpen(facility, hours, query, calendar) ==
  IF hours = <<>> THEN "unstated"
  ELSE LET day == ResolveHours(facility, hours, <<>>, query.day, calendar)
       IN CASE day.kind = "closed" -> "no"
            [] day.kind = "unscheduled" -> "unstated"
            [] OTHER -> IF \E i \in DOMAIN day.sessions : Covers(day.sessions[i].time, query.time)
                          THEN "yes" ELSE "no"

-----------------------------------------------------------------------------
(* Properties of an answer                                                 *)

(* Every pool in reach answers in exactly one way: by options, or by one   *)
(* status, and no pool is both open and closed (query.py:820).  The only   *)
(* pool that may say nothing is one whose dated exception opens it and     *)
(* names no session (resolver.py:112).                                     *)
OneAnswerEach(query, facilities, roster, answer) ==
  \A i \in DOMAIN roster :
    LET id == roster[i].id
        offered == \E k \in DOMAIN answer.options : answer.options[k].pool = id
        told == {k \in DOMAIN answer.statuses : answer.statuses[k].pool = id}
        own == {j \in DOMAIN facilities : facilities[j].id = id}
        silent == \E j \in own : \E b \in Range(facilities[j].basins) : \E e \in Range(b.exceptions) :
                    e.date = query.day.date /\ ~e.closed /\ e.sessions = <<>>
    IN (\A j \in own : InRadius(query, facilities[j])) =>
         IF offered THEN told = {} ELSE Cardinality(told) = 1 \/ (silent /\ told = {})

(* Hours on a public holiday are the facility's own, or are said to be     *)
(* unconfirmed: no session of the ordinary week is offered on a holiday    *)
(* without a stated policy or a warning, none at all under "closed", and   *)
(* nothing is called unconfirmed on a day that is none (query.py:655).     *)
HolidayHoursVouched(query, facilities, calendar, answer) ==
  \A i \in DOMAIN facilities :
    LET f == facilities[i]
        special == \E b \in Range(f.basins) : \E e \in Range(b.exceptions) : e.date = query.day.date
        offered == {k \in DOMAIN answer.options : answer.options[k].pool = f.id}
    IN /\ f.id \in answer.unconfirmed =>
            Context(calendar, query.day).holiday /\ f.policy = "unstated" /\ offered # {}
       /\ Context(calendar, query.day).holiday /\ offered # {} /\ ~special =>
            /\ f.policy # "closed"
            /\ f.policy = "unstated" => f.id \in answer.unconfirmed

(* What a closure says beats everything below it: on a day inside one, a   *)
(* pool offers nothing and none of its features is open, whatever dated    *)
(* exception, season or rule it has (resolver.py:116, query.py:722).       *)
ClosureWins(query, facilities, calendar, answer) ==
  \A i \in DOMAIN facilities :
    ByClosure(facilities[i], query.day) # Pass =>
      /\ \A k \in DOMAIN answer.options : answer.options[k].pool # facilities[i].id
      /\ FeatureOpen(facilities[i], facilities[i].sauna, query, calendar) # "yes"

(* "The facility's whole timetable is seasonal" (resolver.py:75): out of   *)
(* season is said only of a pool each of whose rules is out of season.     *)
OutOfSeasonIsWholePool(query, facilities, answer) ==
  \A k \in DOMAIN answer.statuses :
    answer.statuses[k].reason.code = "out_of_season" =>
      \A i \in DOMAIN facilities : facilities[i].id = answer.statuses[k].pool =>
        \A b \in Range(facilities[i].basins) : \A r \in Range(b.rules) : ~InSeason(r, query.day)

(* A window that wraps New Year is the rest of the year: turning a window  *)
(* round and stepping inside its ends leaves exactly the days outside it   *)
(* (schedule.py:139).                                                      *)
WindowsAreCyclic(last, start, end) ==
  LET After(day) == IF day = last THEN 0 ELSE day + 1
      Before(day) == IF day = 0 THEN last ELSE day - 1
  IN After(end) # start =>
       \A day \in 0..last : Within(day, start, end) = ~Within(day, After(end), Before(start))

(* A pool's place on the board is its place on the map, open or shut: the  *)
(* nearer of two statuses comes first, an unknown position last, and two   *)
(* at one distance in the order of their names; so do the options that     *)
(* start together (query.py:667).                                          *)
RankedAlike(answer) ==
  LET Before(a, b) == Rank(a.distance) < Rank(b.distance)
                      \/ (Rank(a.distance) = Rank(b.distance) /\ a.pool <= b.pool)
  IN /\ \A i, j \in DOMAIN answer.statuses :
          i < j => Before(answer.statuses[i], answer.statuses[j])
     /\ \A i, j \in DOMAIN answer.options :
          i < j => \/ Before(answer.options[i], answer.options[j])
                   \/ answer.options[i].session.time.start < answer.options[j].session.time.start

(* The lanes shown with a session are those of a moment inside it: the     *)
(* queried one if it is on, its start if not, as its own timeline says     *)
(* (query.py:513).                                                         *)
SplitInsideSession(query, answer) ==
  \A k \in DOMAIN answer.options :
    LET option == answer.options[k]
    IN option.lanes # <<>> =>
         LET line == option.lanes[1].timeline
             shown == Kept(line, LAMBDA seg : Covers(seg.time, query.time))
         IN option.lanes[1].split = (IF shown = <<>> THEN line[1].split ELSE shown[1].split)
=============================================================================
