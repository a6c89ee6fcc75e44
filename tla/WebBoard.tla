------------------------------ MODULE WebBoard ------------------------------
(* The desktop page of the web application: app.ts's main(), a filter, the toolbar that edits    *)
(* a snapshot of it, the address bar and its history, the board, and the panel beside it.        *)
(*                                                                                               *)
(* render() and onRowClick() each await one answer of the server and carry no generation, so     *)
(* answers in flight come back in any order and each finishes what its caller began, with the    *)
(* filter as it is by then. Not modelled: the phone's list, the shared cursor, what is asked     *)
(* besides the day (place, gender, age travel with it) and the failed hydration of the pools.    *)
EXTENDS Integers, FiniteSets, SequencesExt

CONSTANTS Pools,      \* numbered in the order the API serves them, nearest first
          Programme,  \* what a pool publishes for a day: "lap", "fun" (no lap swimming) or "shut"
          Acts,       \* bound: what a patient reader does in one visit
          HastyActs   \* and one who does not wait for answers

\* Weeks of two days; today is the second of its week, so its Monday is past.
Days == 0..3

ASSUME PoolsAssumption ==
    /\ Programme \in Seq([Days -> {"lap", "fun", "shut"}]) /\ Programme # <<>>
    /\ Pools = 1..Len(Programme)
    /\ {Acts, HastyActs} \subseteq Nat

Today == 1
Monday(d) == d - (d % 2)
WeekDays(d) == <<Monday(d), Monday(d) + 1>>

NoDay == -1
NoPool == 0
Weekday == -1     \* a day's label where a pool's name should be
Unknown == -2     \* a slug of the address bar that names no pool
NoSel == [id |-> NoPool, name |-> NoPool]
Sel(p) == [id |-> p, name |-> p]

VARIABLES filter,   \* main()'s filter
          tool,     \* the toolbar's own
          hist,     \* the entries of the session history, as parameters of the page
          pos,      \* the current one
          board,    \* the last board made: its rows, what it was made for, whether its loop runs
          shown,    \* the rows of the boards in the host, oldest first
          strays,   \* boards nobody can stop: their loops run and main() has forgotten them
          renders,  \* render() calls that wait for an answer
          opens,    \* onRowClick() calls that wait for a pool's detail
          panel,    \* what the panel is about, and whether the reader opened it
          seed,     \* the nearest pool with a session on the day the page was opened for
          booted,   \* the first render is done and popstate is listened to
          patient,  \* this reader waits until the page is at rest
          left,     \* acts this reader may still do
          threw,    \* observer: the last thing asked for threw
          overlaps, \* observer: renders begun while another was awaited
          mixed     \* observer: the last one was

awaited == <<overlaps, mixed>>
vars == <<filter, tool, hist, pos, board, shown, strays, renders, opens, panel, seed, booted, patient, left, threw, awaited>>

NoBoard == [rows |-> <<>>, live |-> FALSE, of |-> [mode |-> "day", date |-> NoDay, lap |-> FALSE, pool |-> NoPool]]
NoPanel == [pool |-> NoPool, day |-> NoDay, week |-> FALSE, user |-> FALSE]

-----------------------------------------------------------------------------
(* urlstate.ts. A day is left out where it is today, and a week is written by its Monday. *)

WrittenDate(f) == LET d == IF f.mode = "pool" THEN Monday(f.date) ELSE f.date IN IF d = Today THEN NoDay ELSE d
ToSearch(f) == [view |-> f.mode, date |-> WrittenDate(f), lap |-> f.lap, pool |-> f.sel.id]

\* Mutant of BackfillPoolName: a slug of the address bar is believed.
BackfillPoolNameAny(p) == IF p = NoPool THEN NoSel ELSE Sel(p)

BackfillPoolName(p) == IF p \in Pools THEN Sel(p) ELSE NoSel

FromSearch(u) == [mode |-> u.view, date |-> IF u.date >= Today THEN u.date ELSE Today,
                  lap |-> u.lap, sel |-> BackfillPoolName(u.pool)]

IsStructuralUrlChange(u, v) == u.view # v.view \/ u.pool # v.pool

\* Mutant of SyncUrl: every edit is a step of its own.
SyncUrlPushes(f) ==
    IF ToSearch(f) # hist[pos]
    THEN hist' = Append(SubSeq(hist, 1, pos), ToSearch(f)) /\ pos' = pos + 1
    ELSE UNCHANGED <<hist, pos>>
SyncUrl(f) ==
    LET u == ToSearch(f) IN
    IF IsStructuralUrlChange(hist[pos], u)
    THEN hist' = Append(SubSeq(hist, 1, pos), u) /\ pos' = pos + 1
    ELSE hist' = [hist EXCEPT ![pos] = u] /\ UNCHANGED pos

-----------------------------------------------------------------------------
(* The rows of a board. An answer that failed is an empty one. *)

Open(p, d, lap) == Programme[p][d] = "lap" \/ (Programme[p][d] = "fun" /\ ~lap)
Shut(p, d) == Programme[p][d] = "shut"

Nearest(d) == LET plannable == {p \in Pools : ~Shut(p, d)} IN IF plannable = {} THEN NoPool ELSE Min(plannable)

\* The open ones first, each group with the nearest first.
DayRows(d, lap) ==
    LET listed == {p \in Pools : Open(p, d, lap) \/ Shut(p, d)}
        place(p) == IF Open(p, d, lap) THEN p ELSE Len(Programme) + p
        at(i) == CHOOSE p \in listed : Cardinality({q \in listed : place(q) <= place(p)}) = i
    IN  [i \in 1..Cardinality(listed) |-> [pool |-> at(i), day |-> NoDay, open |-> Open(at(i), d, lap)]]

\* The week of one pool, or of every pool when none is named: a day is then the first that has
\* a session, or else a status.
WeekRows(d, lap, focus, ok) ==
    LET at(day) == {p \in Pools : ok /\ focus \in {NoPool, p} /\ Open(p, day, lap)}
        said(day) == {p \in Pools : ok /\ focus \in {NoPool, p} /\ Shut(p, day)}
        first(S) == IF S = {} THEN NoPool ELSE Min(S)
        row(day) == [day |-> day, open |-> at(day) # {},
                     pool |-> IF focus # NoPool THEN focus
                              ELSE IF at(day) # {} THEN first(at(day)) ELSE first(said(day))]
    IN  [i \in 1..Len(WeekDays(d)) |-> row(WeekDays(d)[i])]

\* The question `r` was asked with a filter, its answer is drawn with the filter `f` of now.
BoardRows(r, f, ok) ==
    CASE r.mode = "day" -> IF ok THEN DayRows(r.date, f.lap) ELSE <<>>
      [] r.mode = "pool" /\ f.mode = "pool" ->
            WeekRows(r.date, f.lap, IF f.sel.name # NoPool THEN f.sel.name ELSE r.pool, ok)
      [] OTHER -> <<>>

-----------------------------------------------------------------------------
(* What several handlers do *)

Idle == renders = <<>> /\ opens = <<>>

Overlapped ==
    /\ mixed' = (renders # <<>>)
    /\ overlaps' = overlaps + (IF renders # <<>> THEN 1 ELSE 0)

\* Mutant of StartRender: the old board is cleared away but not destroyed.
StartRenderLeaves(f) ==
    /\ Overlapped
    /\ UNCHANGED board
    /\ shown' = <<>>
    /\ renders' = Append(renders, [mode |-> f.mode, date |-> f.date, pool |-> f.sel.name, boot |-> FALSE])
    /\ threw' = FALSE

\* render() up to its await.
StartRender(f) ==
    /\ Overlapped
    /\ board' = [board EXCEPT !.live = FALSE]
    /\ shown' = <<>>
    /\ renders' = Append(renders, [mode |-> f.mode, date |-> f.date, pool |-> f.sel.name, boot |-> FALSE])
    /\ threw' = FALSE

\* Mutant of RowFacilityName: a week's row is named by its label.
RowFacilityNameLabel(row, f) == IF f.mode = "pool" \/ row.pool = NoPool THEN Weekday ELSE row.pool

RowFacilityName(row, f) ==
    IF f.mode = "pool" /\ f.sel.name # NoPool THEN f.sel.name
    ELSE IF row.pool # NoPool THEN row.pool ELSE Weekday

RowDate(row, f) == IF row.day # NoDay THEN row.day ELSE f.date

\* onRowClick() up to its await: the selection, and the question about it.
Chosen(row, f) ==
    LET name == RowFacilityName(row, f)
    IN  [id |-> IF row.open THEN row.pool ELSE IF name \in Pools THEN name ELSE NoPool, name |-> name]
Asked(row, f, user, boot) ==
    [pool |-> Chosen(row, f).id, day |-> RowDate(row, f), user |-> user, boot |-> boot]

\* Mutant of RowToOpen: a week opens on its first day with a session.
RowToOpenPlannable(rows, f) ==
    LET own == {i \in DOMAIN rows : f.mode = "day" /\ f.sel.name # NoPool /\ rows[i].pool = f.sel.name}
        open == {i \in DOMAIN rows : rows[i].open}
    IN  IF own # {} THEN Min(own) ELSE IF open # {} THEN Min(open) ELSE 0

\* Mutant of RowToOpen: a selection is not looked for among the rows of a day.
RowToOpenNearest(rows, f) ==
    LET first(S) == IF S = {} THEN 0 ELSE Min(S)
        own == {i \in DOMAIN rows : f.mode = "pool" /\ rows[i].day = f.date}
    IN  IF own # {} THEN first(own) ELSE first({i \in DOMAIN rows : rows[i].open})

\* The row the panel opens on by itself; 0 when there is none.
RowToOpen(rows, f) ==
    LET where(P(_)) == {i \in DOMAIN rows : P(rows[i])}
        first(S) == IF S = {} THEN 0 ELSE Min(S)
        own == IF f.mode = "pool" THEN where(LAMBDA r : r.day = f.date)
               ELSE IF f.sel.name # NoPool THEN where(LAMBDA r : r.pool = f.sel.name) ELSE {}
    IN  IF own # {} THEN first(own) ELSE first(where(LAMBDA r : r.open))

-----------------------------------------------------------------------------
(* A page is opened by a link: bare, or naming a view, a day, a pool. *)

Link == [view : {"day", "pool"}, date : {NoDay} \cup Days, lap : BOOLEAN, pool : {NoPool, Unknown} \cup Pools]
Bare == [view |-> "day", date |-> NoDay, lap |-> FALSE, pool |-> NoPool]
Links == {Bare, [Bare EXCEPT !.view = "pool", !.pool = 1], [Bare EXCEPT !.pool = Unknown, !.date = 0],
          [Bare EXCEPT !.view = "pool", !.date = 2, !.pool = Len(Programme)]}

Init ==
    \E u \in Links :
        /\ filter = FromSearch(u)
        /\ tool = filter
        /\ hist = <<u>>
        /\ pos = 1
        /\ board = NoBoard
        /\ shown = <<>>
        /\ strays = 0
        /\ renders = <<[mode |-> filter.mode, date |-> filter.date, pool |-> filter.sel.name, boot |-> TRUE]>>
        /\ opens = <<>>
        /\ panel = NoPanel
        /\ seed = Nearest(filter.date)
        /\ booted = FALSE
        /\ patient \in BOOLEAN
        /\ left = IF patient THEN Acts ELSE HastyActs
        /\ threw = FALSE
        /\ overlaps = 0
        /\ mixed = FALSE

\* The reader does something, if he is patient only when nothing is awaited.
Act == left > 0 /\ left' = left - 1 /\ (patient => Idle)

\* What the toolbar's controls can change.
Edits ==
    {[tool EXCEPT !.mode = m] : m \in {"day", "pool"}}
    \cup {[tool EXCEPT !.lap = ~@]}
    \cup (IF tool.mode = "day" THEN {[tool EXCEPT !.date = d] : d \in {e \in Days : e >= Today}}
          ELSE {[tool EXCEPT !.date = d] : d \in {Monday(e) : e \in {f \in Days : f >= Today}}}
               \cup {[tool EXCEPT !.sel = Sel(p)] : p \in Pools})

\* The toolbar emits its own whole filter; entering the pool view with none chosen seeds one.
Emit(next) ==
    /\ filter' = IF next.mode = "pool" /\ next.sel = NoSel /\ seed # NoPool THEN [next EXCEPT !.sel = Sel(seed)] ELSE next
    /\ tool' = filter'
    /\ StartRender(filter')
    /\ SyncUrl(filter')

EditToolbar ==
    /\ Act
    /\ \E next \in Edits \ {tool} : Emit(next)
    /\ UNCHANGED <<strays, opens, panel, seed, booted, patient>>

\* A click on a row of the host. Every board that is in it counts, and the newest answers.
ClickRow ==
    /\ Act
    /\ \E i \in 1..Len(FlattenSeq(shown)) :
        IF i \in DOMAIN board.rows
        THEN /\ filter' = [filter EXCEPT !.sel = Chosen(board.rows[i], filter)]
             /\ opens' = Append(opens, Asked(board.rows[i], filter, TRUE, FALSE))
        ELSE UNCHANGED <<filter, opens>>
    /\ threw' = FALSE
    /\ UNCHANGED <<tool, hist, pos, board, shown, strays, renders, panel, seed, booted, patient, awaited>>

\* Mutant of OpenWeek: the view is left out of the address bar.
OpenWeekUnsynced ==
    /\ Act
    /\ panel.week
    /\ filter' = [filter EXCEPT !.mode = "pool"]
    /\ tool' = filter'
    /\ StartRender(filter')
    /\ UNCHANGED <<hist, pos, strays, opens, panel, seed, booted, patient>>

\* The panel's button, offered when it was opened in the day view.
OpenWeek ==
    /\ Act
    /\ panel.week
    /\ filter' = [filter EXCEPT !.mode = "pool"]
    /\ tool' = filter'
    /\ StartRender(filter')
    /\ SyncUrl(filter')
    /\ UNCHANGED <<strays, opens, panel, seed, booted, patient>>

\* Back and forward. A page still booting does not listen; here the reader does not try.
PopState ==
    /\ Act
    /\ booted
    /\ pos' \in DOMAIN hist \ {pos}
    /\ filter' = FromSearch(hist[pos'])
    /\ tool' = filter'
    /\ StartRender(filter')
    /\ UNCHANGED <<hist, strays, opens, panel, seed, booted, patient>>

\* render() from its await: a new board in the host, the empty panel, and the row that opens itself.
Draw(i, ok) ==
    LET r    == renders[i]
        rows == BoardRows(r, filter, ok)
        k    == RowToOpen(rows, filter)
    IN  /\ renders' = RemoveAt(renders, i)
        /\ strays' = strays + (IF board.live THEN 1 ELSE 0)
        /\ board' = [rows |-> rows, live |-> TRUE,
                     of |-> [mode |-> r.mode, date |-> r.date, lap |-> filter.lap,
                             pool |-> IF filter.sel.name # NoPool THEN filter.sel.name ELSE r.pool]]
        /\ shown' = Append(shown, rows)
        /\ panel' = NoPanel
        /\ IF k = 0
           THEN booted' = (booted \/ r.boot) /\ UNCHANGED <<filter, opens>>
           ELSE /\ filter' = [filter EXCEPT !.sel = Chosen(rows[k], filter)]
                /\ opens' = Append(opens, Asked(rows[k], filter, FALSE, r.boot))
                /\ UNCHANGED booted

AnswerArrives ==
    /\ \E i \in DOMAIN renders, ok \in BOOLEAN : Draw(i, ok)
    /\ UNCHANGED <<tool, hist, pos, seed, patient, left, threw, awaited>>

\* The request throws, and render() with it: nothing is drawn.
AnswerLost ==
    /\ \E i \in DOMAIN renders : renders' = RemoveAt(renders, i)
    /\ threw' = TRUE
    /\ UNCHANGED <<filter, tool, hist, pos, board, shown, strays, opens, panel, seed, booted, patient, left, awaited>>

\* onRowClick() from its await: the panel, and the address bar if the reader clicked.
Opened(o) ==
    /\ panel' = [pool |-> o.pool, day |-> o.day, week |-> filter.mode = "day", user |-> o.user]
    /\ booted' = (booted \/ o.boot)
    /\ IF o.user THEN SyncUrl(filter) ELSE UNCHANGED <<hist, pos>>

DetailArrives ==
    /\ \E i \in DOMAIN opens : Opened(opens[i]) /\ opens' = RemoveAt(opens, i)
    /\ UNCHANGED <<filter, tool, board, shown, strays, renders, seed, patient, left, threw, awaited>>

DetailLost ==
    /\ \E i \in DOMAIN opens : opens' = RemoveAt(opens, i)
    /\ threw' = TRUE
    /\ UNCHANGED <<filter, tool, hist, pos, board, shown, strays, renders, panel, seed, booted, patient, left, awaited>>

Next == EditToolbar \/ ClickRow \/ OpenWeek \/ PopState \/ AnswerArrives \/ AnswerLost \/ DetailArrives \/ DetailLost

Spec == Init /\ [][Next]_vars

-----------------------------------------------------------------------------
Filters == [mode : {"day", "pool"}, date : Days, lap : BOOLEAN,
            sel : [id : {NoPool} \cup Pools, name : {NoPool, Weekday} \cup Pools]]

\* Type correctness.
TypeOK ==
    /\ {filter, tool} \subseteq Filters
    /\ pos \in DOMAIN hist /\ Range(hist) \subseteq Link
    /\ Len(shown) <= HastyActs + 1 /\ strays \in 0..HastyActs
    /\ overlaps \in 0..HastyActs /\ mixed \in BOOLEAN

\* The address bar describes the page at every moment, answers awaited or not: reading it back gives
\* the view, the restriction and the day that are set (in the pool view, a day of the week). A day of
\* this week that is past is the exception: it is written, and read back as today.
UrlTellsPage ==
    LET f == FromSearch(hist[pos]) IN
    /\ f.mode = filter.mode
    /\ f.lap = filter.lap
    /\ IF filter.mode = "pool" THEN Monday(f.date) = Monday(filter.date) ELSE filter.date >= Today => f.date = filter.date

\* Back is never a step to the same view of the same pool.
EveryBackMatters == \A i \in 1..(Len(hist) - 1) : IsStructuralUrlChange(hist[i], hist[i + 1])

\* Whoever acts, and whenever: a loop is left to draw for a board that is gone only by a render begun
\* while another was awaited, one at most by each; and where the last one was not, a page at rest has
\* one board, made for the filter that is set.
RestingBoard ==
    /\ strays <= overlaps
    /\ (Idle /\ ~mixed /\ ~threw) =>
        /\ board.live /\ shown = <<board.rows>>
        /\ board.of.mode = filter.mode /\ board.of.date = filter.date /\ board.of.lap = filter.lap
        /\ filter.mode = "pool" => board.of.pool \in {NoPool, filter.sel.name}

\* A reader who waits finds a panel about the pool that is selected, on a day of the board beside it;
\* the panel that opened by itself is about the day the header names.
RestingPanel ==
    (patient /\ Idle /\ ~threw /\ panel # NoPanel) =>
        /\ panel.pool = filter.sel.id
        /\ panel.day = filter.date \/ (panel.user /\ panel.day \in {row.day : row \in Range(board.rows)})

\* The selection's id and its name are one pool's, for a reader who waits, unless the board is the
\* week of every pool, whose days are of different ones.
SelectionIsOnePool ==
    patient => \/ filter.sel.id \in {NoPool, filter.sel.name}
               \/ filter.mode = "pool" /\ board.of.mode = "pool" /\ board.of.pool = NoPool

\* What is found at rest: the board of the filter, a panel about the pool selected, and one pool
\* selected (app.ts:338, app.ts:572).
RestingPage == RestingBoard /\ RestingPanel /\ SelectionIsOnePool

\* What is drawn takes a selected pool from nobody, whatever answers are late, lost or out of order:
\* but in a day whose rows the restriction to lap swimming has rid of that pool (app.ts:431). The
\* comment above that line says never.
SelectionKept ==
    [][left' = left /\ filter.sel.name \in Pools /\ filter'.sel.name # filter.sel.name =>
         filter.mode = "day" /\ filter.lap /\ Programme[filter.sel.name][board'.of.date] = "fun"]_vars

-----------------------------------------------------------------------------
(* What the code does not keep. *)

\* "A non-null selectedPool is NEVER overridden" when the toolbar enters the pool view: least of all
\* the pool a reader clicked, that the address bar names.
ChosenPoolKept ==
    [][(EditToolbar /\ filter'.mode # filter.mode /\ patient /\ hist[pos].pool \in Pools
        /\ filter.sel = Sel(hist[pos].pool)) => filter'.sel = filter.sel]_vars
\* "`selectedPool` is left untouched (it is already the clicked pool)" (app.ts:263), where the panel's
\* button opens the week: not when an edit took the selection back and its answer was lost.
WeekIsOfPanel == [][OpenWeek /\ patient => filter.sel.id = panel.pool]_vars

\* "Out-of-range keeps `selectedPool` in state ... the selection is never silently cleared"
\* (app.ts:429): what is drawn replaces no selected pool, where SelectionKept has an exception.
SelectionNeverReplaced ==
    [][left' = left /\ filter.sel.name \in Pools => filter'.sel.name = filter.sel.name]_vars

\* "Tear down the previous board FIRST so its shared RAF loop stops": no loop is left over.
NoOrphanedLoop == strays = 0
=============================================================================
