----------------------------- MODULE LanePlans ------------------------------
(***************************************************************************)
(* What is read out of a stored Belegungsplan (domain/lane_plan.py): the   *)
(* split at a moment, its course through a session, each lane's day, the   *)
(* best time to come and the club roster.                                  *)
(*                                                                         *)
(* A plan is [lanes, reservations, unresolved]; a reservation holds a set  *)
(* of lanes for a span of time on a set of weekdays.                       *)
(***************************************************************************)
EXTENDS Ordering

Public == "public"
NoTime == -1
NoWindow == [time |-> Span(0, 0), lanes |-> 0]

On(plan, weekday) == SelectSeq(plan.reservations, LAMBDA r : weekday \in r.weekdays)
OfPublic(rs) == SelectSeq(rs, LAMBDA r : r.access = Public)
LanesOf(rs) == UNION {rs[i].lanes : i \in DOMAIN rs}

Active(plan, weekday, t) == SelectSeq(On(plan, weekday), LAMBDA r : Covers(r.time, t))

(* Mutant of PublicRunEnd: runs that only touch are not joined.            *)
PublicRunEndUnjoined(plan, weekday, t) ==
  LET spans == Mapped(OfPublic(On(plan, weekday)), LAMBDA r : r.time)
      now == SelectSeq(SortedBy(spans, LAMBDA s : s.start), LAMBDA s : Covers(s, t))
  IN IF now = <<>> THEN NoTime ELSE now[1].end

(* The end of the public run through t, over blocks that touch or overlap. *)
PublicRunEnd(plan, weekday, t) ==
  LET spans == SortedBy(Mapped(OfPublic(On(plan, weekday)), LAMBDA r : r.time),
                        LAMBDA s : s.start)
      Join(runs, s) ==
        IF runs # <<>> /\ s.start <= Last(runs).end
          THEN [runs EXCEPT ![Len(runs)].end = IF s.end > @ THEN s.end ELSE @]
          ELSE Append(runs, s)
      through == SelectSeq(FoldLeft(Join, <<>>, spans), LAMBDA s : Covers(s, t))
  IN IF through = <<>> THEN NoTime ELSE through[1].end

(* lane_availability_at                                                    *)
AvailabilityAt(plan, weekday, t) ==
  LET active == Active(plan, weekday, t)
      held == SelectSeq(active, LAMBDA r : r.access # Public)
  IN [public |-> Cardinality(LanesOf(OfPublic(active))),
      reserved |-> Cardinality(LanesOf(held)),
      owners |-> {held[i].access : i \in DOMAIN held},
      until |-> PublicRunEnd(plan, weekday, t),
      partial |-> plan.unresolved \ LanesOf(active) # {}]

(* Mutant of Cuts: cut at the starts of reservations only.                 *)
CutsAtStarts(plan, weekday, within) ==
  LET rs == On(plan, weekday)
      edges == {rs[i].time.start : i \in DOMAIN rs}
  IN Ascending({within.start, within.end} \cup {e \in edges : within.start < e /\ e < within.end})

(* Where a session is cut: at its ends and at every edge inside it.        *)
Cuts(plan, weekday, within) ==
  LET rs == On(plan, weekday)
      edges == UNION {{rs[i].time.start, rs[i].time.end} : i \in DOMAIN rs}
  IN Ascending({within.start, within.end} \cup {e \in edges : within.start < e /\ e < within.end})

(* lane_availability_timeline: the split at the start of each piece.       *)
Timeline(plan, weekday, within) ==
  LET cuts == Cuts(plan, weekday, within)
  IN [k \in 1..(Len(cuts) - 1) |->
        [time |-> Span(cuts[k], cuts[k + 1]), split |-> AvailabilityAt(plan, weekday, cuts[k])]]

(* Mutant of DayView: a lane's strip is every reservation of the weekday.  *)
DayViewAllLanes(plan, weekday) ==
  [lane \in 1..plan.lanes |->
     SortedBy(Mapped(On(plan, weekday), LAMBDA r : [time |-> r.time, access |-> r.access]),
              LAMBDA s : s.time.start)]

(* lane_day_view: one strip a lane, in time; a gap is left a gap.          *)
DayView(plan, weekday) ==
  [lane \in 1..plan.lanes |->
     SortedBy(Mapped(SelectSeq(On(plan, weekday), LAMBDA r : lane \in r.lanes),
                     LAMBDA r : [time |-> r.time, access |-> r.access]),
              LAMBDA s : s.time.start)]

(* club_roster: one slot a weekday and reservation that is not public.  A  *)
(* club is a member of a finite set, its label's order left out.           *)
ClubRoster(plan) ==
  LET held == SelectSeq(plan.reservations, LAMBDA r : r.access # Public)
  IN UNION {{[club |-> held[i].access, weekday |-> w, time |-> held[i].time, lanes |-> held[i].lanes] :
                w \in held[i].weekdays} : i \in DOMAIN held}

(* _clipped_to: what of a span lies inside another.                        *)
Clipped(span, within) ==
  Span(IF span.start > within.start THEN span.start ELSE within.start,
       IF span.end < within.end THEN span.end ELSE within.end)

(* The day cut at the public edges inside a session; cuts of equal count   *)
(* that touch are joined, those without a public lane left out.            *)
PublicWindows(plan, weekday, within) ==
  LET public == Mapped(OfPublic(On(plan, weekday)),
                       LAMBDA r : [time |-> Clipped(r.time, within), lanes |-> r.lanes])
      inside == SelectSeq(public, LAMBDA p : p.time.start < p.time.end)
      bounds == Ascending(UNION {{inside[i].time.start, inside[i].time.end} : i \in DOMAIN inside})
      Free(k) == Cardinality(LanesOf(SelectSeq(inside, LAMBDA p : Covers(p.time, bounds[k]))))
      Extend(windows, k) ==
        IF Free(k) = 0 THEN windows
        ELSE IF windows # <<>> /\ Last(windows).lanes = Free(k) /\ Last(windows).time.end = bounds[k]
          THEN [windows EXCEPT ![Len(windows)].time.end = bounds[k + 1]]
          ELSE Append(windows, [time |-> Span(bounds[k], bounds[k + 1]), lanes |-> Free(k)])
  IN FoldLeft(Extend, <<>>, [k \in 1..(Len(bounds) - 1) |-> k])

(* Mutant of BestPublic: the last of equally good windows.                 *)
BestPublicLatest(plan, weekday, within) ==
  LET windows == Reverse(PublicWindows(plan, weekday, within))
  IN IF windows = <<>> THEN NoWindow ELSE FirstGreatest(windows, LAMBDA w : w.lanes)

(* best_public_time: the earliest of the windows with most lanes.          *)
BestPublic(plan, weekday, within) ==
  LET windows == PublicWindows(plan, weekday, within)
  IN IF windows = <<>> THEN NoWindow ELSE FirstGreatest(windows, LAMBDA w : w.lanes)

-----------------------------------------------------------------------------
(* Properties of one plan and one session on it.                           *)

Moments(span) == span.start..(span.end - 1)

(* The split a segment states holds at every moment of it, and the         *)
(* segments are the session, without a hole (lane_plan.py:185).            *)
TimelineHolds(plan, weekday, within) ==
  LET line == Timeline(plan, weekday, within)
  IN \A t \in Moments(within) :
       Cardinality({k \in DOMAIN line :
          Covers(line[k].time, t) /\ line[k].split = AvailabilityAt(plan, weekday, t)}) = 1

(* "Public until": up to that time some lane is public at every moment,    *)
(* and at it none is (lane_plan.py:121).                                   *)
PublicUntilHolds(plan, weekday, within) ==
  \A t \in Moments(within) :
    LET now == AvailabilityAt(plan, weekday, t)
    IN IF now.public = 0 THEN now.until = NoTime
       ELSE /\ \A u \in t..(now.until - 1) : AvailabilityAt(plan, weekday, u).public > 0
            /\ AvailabilityAt(plan, weekday, now.until).public = 0

(* The three readings of one plan agree: at every moment the strips that   *)
(* show the public are as many as the lanes counted public, those that     *)
(* show a club as many as the roster's lanes, and no strip shows two       *)
(* owners (lane_plan.py:288, 307).                                         *)
ReadingsAgree(plan, weekday, within) ==
  LET view == DayView(plan, weekday)
      ShownAt(lane, t) == {view[lane][i].access :
                             i \in {j \in DOMAIN view[lane] : Covers(view[lane][j].time, t)}}
  IN \A t \in Moments(within) :
       LET now == AvailabilityAt(plan, weekday, t)
       IN /\ \A lane \in DOMAIN view : Cardinality(ShownAt(lane, t)) <= 1
          /\ Cardinality({l \in DOMAIN view : ShownAt(l, t) = {Public}}) = now.public
          /\ {l \in DOMAIN view : ShownAt(l, t) \notin {{}, {Public}}}
               = UNION {s.lanes : s \in {c \in ClubRoster(plan) :
                                           c.weekday = weekday /\ Covers(c.time, t)}}

(* The best time inside a session is the peak of that session's own        *)
(* timeline, the earliest such stretch and the whole of it                 *)
(* (lane_plan.py:344).                                                     *)
BestIsPeak(plan, weekday, within) ==
  LET best == BestPublic(plan, weekday, within)
      Free(t) == AvailabilityAt(plan, weekday, t).public
  IN IF \A t \in Moments(within) : Free(t) = 0 THEN best = NoWindow
     ELSE /\ best.time.start >= within.start /\ best.time.end <= within.end
          /\ \A t \in Moments(within) : Free(t) <= best.lanes
          /\ \A t \in Moments(best.time) : Free(t) = best.lanes
          /\ \A t \in within.start..(best.time.start - 1) : Free(t) < best.lanes
          /\ best.time.end < within.end => Free(best.time.end) # best.lanes
=============================================================================
