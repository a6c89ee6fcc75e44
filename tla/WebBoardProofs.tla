---------------------------- MODULE WebBoardProofs ----------------------------
(* The address bar and the history of the page, for any pools and programme, any number of acts, *)
(* and any order of answers: no bound of the runs is used.                                        *)
EXTENDS WebBoard, FiniteSetTheorems, SequenceTheorems, WellFoundedInduction, TLAPS

Views == {"day", "pool"}

\* A filter is a record of these fields. Nothing is asked of its selection.
IsFilter(f) ==
    /\ f = [mode |-> f.mode, date |-> f.date, lap |-> f.lap, sel |-> f.sel]
    /\ f.mode \in Views /\ f.date \in Days /\ f.lap \in BOOLEAN

\* Addresses whose pool is taken from U.
Urls(U) == [view : Views, date : {NoDay} \cup Days, lap : BOOLEAN, pool : U]

\* `f` shows what the address `u` says, as UrlTellsPage has it.
Tells(u, f) ==
    LET g == FromSearch(u) IN
    /\ g.mode = f.mode
    /\ g.lap = f.lap
    /\ IF f.mode = "pool" THEN Monday(g.date) = Monday(f.date) ELSE f.date >= Today => g.date = f.date

History == \E U : hist \in Seq(Urls(U)) /\ pos \in 1..Len(hist)

IInv == IsFilter(filter) /\ IsFilter(tool) /\ History /\ UrlTellsPage /\ EveryBackMatters

-----------------------------------------------------------------------------
(* Writing a filter and reading it back. *)

\* The Monday of a day is a day of the model, and its own Monday.
LEMMA Mondays == ASSUME NEW d \in Days PROVE Monday(d) \in {0, 2} /\ Monday(Monday(d)) = Monday(d)
<1>1. d \in {0, 1, 2, 3}
  BY DEF Days
<1> QED
  BY <1>1 DEF Monday

\* toSearch and fromSearch: the view, the restriction and the day come back, a week by its Monday.
LEMMA RoundTrip == ASSUME NEW f, IsFilter(f) PROVE Tells(ToSearch(f), f)
<1>1. f.date \in {0, 1, 2, 3}
  BY DEF IsFilter, Days
<1>2. CASE f.mode = "pool"
  BY <1>1, <1>2 DEF Tells, ToSearch, FromSearch, WrittenDate, Monday, Today, NoDay
<1>3. CASE f.mode = "day"
  BY <1>1, <1>3 DEF Tells, ToSearch, FromSearch, WrittenDate, Monday, Today, NoDay
<1> QED
  BY <1>2, <1>3 DEF IsFilter, Views

\* What is written is an address, what is read is a filter.
LEMMA Written == ASSUME NEW f, IsFilter(f), NEW U, f.sel.id \in U PROVE ToSearch(f) \in Urls(U)
<1>1. WrittenDate(f) \in {NoDay} \cup Days
  <2>1. Monday(f.date) \in {0, 2}
    BY Mondays DEF IsFilter
  <2> QED
    BY <2>1 DEF WrittenDate, IsFilter, Days
<1> QED
  BY <1>1 DEF ToSearch, Urls, IsFilter

LEMMA ReadBack == ASSUME NEW U, NEW u \in Urls(U) PROVE IsFilter(FromSearch(u)) /\ Tells(u, FromSearch(u))
  BY DEF Urls, FromSearch, IsFilter, Tells, Days, Today, NoDay

\* Every address fits into a larger set of pools.
LEMMA Wider == ASSUME NEW U, NEW V, U \subseteq V, NEW h \in Seq(Urls(U)) PROVE h \in Seq(Urls(V))
<1>1. Urls(U) \subseteq Urls(V)
  BY DEF Urls
<1> QED
  BY <1>1

-----------------------------------------------------------------------------
(* syncUrl: after it the current entry is the filter's address, and steps stay steps. *)

LEMMA Synced ==
    ASSUME NEW f, IsFilter(f), History, EveryBackMatters, SyncUrl(f)
    PROVE  History' /\ hist'[pos'] = ToSearch(f) /\ EveryBackMatters'
<1>1. PICK U : hist \in Seq(Urls(U)) /\ pos \in 1..Len(hist)
  BY DEF History
<1> DEFINE V == U \cup {f.sel.id}
           u == ToSearch(f)
<1>2. hist \in Seq(Urls(V)) /\ u \in Urls(V)
  BY <1>1, Wider, Written
<1> HIDE DEF u, V
<1>3. CASE IsStructuralUrlChange(hist[pos], u)
  <2>1. hist' = Append(SubSeq(hist, 1, pos), u) /\ pos' = pos + 1
    BY <1>3 DEF SyncUrl, u
  <2>2. SubSeq(hist, 1, pos) \in Seq(Urls(V)) /\ Len(SubSeq(hist, 1, pos)) = pos
        /\ \A i \in 1..pos : SubSeq(hist, 1, pos)[i] = hist[i]
    BY <1>1, <1>2
  <2>3. hist' \in Seq(Urls(V)) /\ Len(hist') = pos + 1 /\ hist'[pos + 1] = u
        /\ \A i \in 1..pos : hist'[i] = hist[i]
    BY <1>1, <1>2, <2>1, <2>2
  <2>4. History'
    BY <1>1, <2>1, <2>3 DEF History
  <2>5. ASSUME NEW i \in 1..(Len(hist') - 1) PROVE IsStructuralUrlChange(hist'[i], hist'[i + 1])
    <3>1. CASE i = pos
      BY <1>1, <1>3, <2>3, <3>1
    <3>2. CASE i # pos
      <4>1. i \in 1..pos /\ i + 1 \in 1..pos /\ i \in 1..(Len(hist) - 1)
        BY <1>1, <2>3, <3>2
      <4> QED
        BY <2>3, <4>1 DEF EveryBackMatters
    <3> QED
      BY <3>1, <3>2
  <2> QED
    BY <2>1, <2>3, <2>4, <2>5 DEF EveryBackMatters, IsStructuralUrlChange, u
<1>4. CASE ~IsStructuralUrlChange(hist[pos], u)
  <2>1. hist' = [hist EXCEPT ![pos] = u] /\ pos' = pos
    BY <1>4 DEF SyncUrl, u
  <2>2. hist' \in Seq(Urls(V)) /\ Len(hist') = Len(hist) /\ hist'[pos] = u
        /\ \A i \in 1..Len(hist) : i # pos => hist'[i] = hist[i]
    BY <1>1, <1>2, <2>1
  <2>3. History'
    BY <1>1, <2>1, <2>2 DEF History
  <2>4. \A i \in 1..Len(hist) : hist'[i].view = hist[i].view /\ hist'[i].pool = hist[i].pool
    BY <1>1, <1>4, <2>2 DEF IsStructuralUrlChange
  <2>5. EveryBackMatters'
    BY <2>2, <2>4 DEF EveryBackMatters, IsStructuralUrlChange
  <2> QED
    BY <2>1, <2>2, <2>3, <2>5 DEF u
<1> QED
  BY <1>3, <1>4

\* A handler that sets a filter and writes it leaves the invariant's parts about the address.
LEMMA Wrote ==
    ASSUME IsFilter(filter)', History, EveryBackMatters, SyncUrl(filter')
    PROVE  History' /\ UrlTellsPage' /\ EveryBackMatters'
<1>1. History' /\ hist'[pos'] = ToSearch(filter') /\ EveryBackMatters'
  BY Synced DEF IsFilter
<1>2. Tells(ToSearch(filter'), filter')
  BY RoundTrip DEF IsFilter
<1> QED
  BY <1>1, <1>2 DEF Tells, UrlTellsPage

\* A handler that leaves the address and touches only the selection keeps all of it.
LEMMA OnlySelected ==
    ASSUME IInv, UNCHANGED <<hist, pos, tool>>, filter' = filter \/ \E s : filter' = [filter EXCEPT !.sel = s]
    PROVE  IInv'
<1>1. IsFilter(filter)' /\ filter'.mode = filter.mode /\ filter'.date = filter.date /\ filter'.lap = filter.lap
  BY DEF IInv, IsFilter
<1>2. UrlTellsPage'
  BY <1>1 DEF IInv, UrlTellsPage
<1>3. History' /\ EveryBackMatters' /\ IsFilter(tool)'
  BY DEF IInv, History, EveryBackMatters, IsFilter
<1> QED
  BY <1>1, <1>2, <1>3 DEF IInv

-----------------------------------------------------------------------------
LEMMA Initial == ASSUME Init PROVE IInv
<1>1. PICK u \in Links : filter = FromSearch(u) /\ tool = filter /\ hist = <<u>> /\ pos = 1
  BY DEF Init
<1>2. u \in Urls({u.pool})
  <2>1. \E v \in Views, d \in {NoDay, 0, 2} : \E p : u = [view |-> v, date |-> d, lap |-> FALSE, pool |-> p]
    BY DEF Links, Bare, Views
  <2>2. {NoDay, 0, 2} \subseteq {NoDay} \cup Days
    BY DEF Days
  <2> QED
    BY <2>1, <2>2 DEF Urls
<1>3. History
  <2>1. <<u>> \in Seq(Urls({u.pool})) /\ Len(<<u>>) = 1
    BY <1>2
  <2> QED
    BY <1>1, <2>1 DEF History
<1>4. EveryBackMatters
  BY <1>1 DEF EveryBackMatters
<1>5. IsFilter(filter) /\ Tells(u, filter)
  BY <1>1, <1>2, ReadBack
<1> QED
  BY <1>1, <1>3, <1>4, <1>5 DEF IInv, Tells, UrlTellsPage, IsFilter

\* The toolbar's controls and the pool it seeds leave it a filter.
LEMMA Edited == ASSUME IsFilter(tool), NEW next \in Edits, Emit(next) PROVE IsFilter(filter)' /\ IsFilter(tool)'
<1>1. \A e \in Days : Monday(e) \in Days
  BY Mondays DEF Days
<1>2. IsFilter(next)
  BY <1>1 DEF Edits, IsFilter, Views
<1> QED
  BY <1>2 DEF Emit, IsFilter

LEMMA Step == ASSUME IInv, [Next]_vars PROVE IInv'
<1>1. CASE EditToolbar
  <2>1. PICK next \in Edits : Emit(next)
    BY <1>1 DEF EditToolbar
  <2>2. IsFilter(filter)' /\ IsFilter(tool)'
    BY <2>1, Edited DEF IInv
  <2>3. SyncUrl(filter')
    BY <2>1 DEF Emit
  <2> QED
    BY <2>2, <2>3, Wrote DEF IInv
<1>2. CASE ClickRow
  <2>1. filter' = filter \/ \E s : filter' = [filter EXCEPT !.sel = s]
    BY <1>2 DEF ClickRow
  <2> QED
    BY <1>2, <2>1, OnlySelected DEF ClickRow
<1>3. CASE OpenWeek
  <2>1. IsFilter(filter)' /\ IsFilter(tool)'
    BY <1>3 DEF OpenWeek, IInv, IsFilter, Views
  <2>2. SyncUrl(filter')
    BY <1>3 DEF OpenWeek
  <2> QED
    BY <2>1, <2>2, Wrote DEF IInv
<1>4. CASE PopState
  <2>1. PICK U : hist \in Seq(Urls(U))
    BY DEF IInv, History
  <2>2. pos' \in 1..Len(hist) /\ hist[pos'] \in Urls(U)
    BY <1>4, <2>1 DEF PopState
  <2>3. hist' = hist /\ filter' = FromSearch(hist[pos']) /\ tool' = filter'
    BY <1>4 DEF PopState
  <2>4. IsFilter(filter') /\ Tells(hist[pos'], filter')
    BY <2>2, <2>3, ReadBack
  <2>5. History' /\ EveryBackMatters'
    BY <2>1, <2>2, <2>3 DEF IInv, History, EveryBackMatters
  <2> QED
    BY <2>3, <2>4, <2>5 DEF IInv, Tells, UrlTellsPage, IsFilter
<1>5. CASE AnswerArrives
  <2>1. PICK i \in DOMAIN renders, ok \in BOOLEAN : Draw(i, ok)
    BY <1>5 DEF AnswerArrives
  <2>2. filter' = filter \/ \E s : filter' = [filter EXCEPT !.sel = s]
    BY <2>1 DEF Draw
  <2> QED
    BY <1>5, <2>2, OnlySelected DEF AnswerArrives
<1>6. CASE DetailArrives
  <2>1. UNCHANGED <<filter, tool>> /\ (UNCHANGED <<hist, pos>> \/ SyncUrl(filter))
    BY <1>6 DEF DetailArrives, Opened
  <2>2. CASE UNCHANGED <<hist, pos>>
    BY <2>1, <2>2, OnlySelected
  <2>3. CASE SyncUrl(filter)
    BY <2>1, <2>3, Wrote DEF IInv, IsFilter
  <2> QED
    BY <2>1, <2>2, <2>3
<1>7. CASE AnswerLost \/ DetailLost \/ UNCHANGED vars
  BY <1>7, OnlySelected DEF AnswerLost, DetailLost, vars
<1> QED
  BY <1>1, <1>2, <1>3, <1>4, <1>5, <1>6, <1>7 DEF Next

\* Whatever is awaited and in whatever order it is answered, the address bar tells what the page is
\* set to, and every step back is to another view or another pool.
THEOREM AddressTellsPage == Spec => []UrlTellsPage
<1>1. IInv => UrlTellsPage
  BY DEF IInv
<1> QED
  BY <1>1, Initial, Step, PTL DEF Spec

THEOREM StepsAreSteps == Spec => []EveryBackMatters
<1>1. IInv => EveryBackMatters
  BY DEF IInv
<1> QED
  BY <1>1, Initial, Step, PTL DEF Spec

-----------------------------------------------------------------------------
(* Rows, and the one that opens itself. *)

\* There is a least number in every set of naturals that is not empty.
LEMMA Least == ASSUME NEW S \in SUBSET Nat, S # {} PROVE Min(S) \in S /\ \A n \in S : Min(S) <= n
<1> DEFINE Less == {ss \in Nat \X Nat : ss[1] < ss[2]}
<1>1. IsWellFoundedOn(Less, Nat)
  BY NatLessThanWellFounded DEF OpToRel
<1>2. PICK n \in S : \A m \in S : ~(<<m, n>> \in Less)
  BY <1>1, WFMin
<1>3. ASSUME NEW m \in S PROVE n <= m
  <2>1. m \in Nat /\ n \in Nat
    OBVIOUS
  <2>2. ~(m < n)
    <3>1. m < n => <<m, n>> \in Less
      BY <2>1
    <3> QED
      BY <1>2, <3>1
  <2> QED
    BY <2>1, <2>2
<1> QED
  BY <1>3 DEF Min

LEMMA Amounts == Len(Programme) \in Nat /\ Pools \subseteq Nat /\ IsFiniteSet(Pools)
<1>1. Len(Programme) \in Nat
  BY PoolsAssumption
<1> QED
  BY <1>1, FS_Interval, PoolsAssumption

\* A board's rows are numbered from the first.
Numbered(rows) == DOMAIN rows = 1..Len(rows)

LEMMA DayRowsAre ==
    ASSUME NEW d, NEW lap
    PROVE  Numbered(DayRows(d, lap)) /\ \A i \in DOMAIN DayRows(d, lap) : DayRows(d, lap)[i].day = NoDay
<1> DEFINE listed == {p \in Pools : Open(p, d, lap) \/ Shut(p, d)}
<1>1. Cardinality(listed) \in Nat
  BY Amounts, FS_Subset, FS_CardinalityType
<1> HIDE DEF listed
<1>2. \E e : DayRows(d, lap) = [i \in 1..Cardinality(listed) |-> [pool |-> e[i][1], day |-> NoDay, open |-> e[i][2]]]
  <2> DEFINE place(p) == IF Open(p, d, lap) THEN p ELSE Len(Programme) + p
             at(i) == CHOOSE p \in listed : Cardinality({q \in listed : place(q) <= place(p)}) = i
  <2>1. DayRows(d, lap) = [i \in 1..Cardinality(listed) |-> [pool |-> at(i), day |-> NoDay, open |-> Open(at(i), d, lap)]]
    BY DEF DayRows, listed
  <2> HIDE DEF at
  <2> WITNESS [i \in 1..Cardinality(listed) |-> <<at(i), Open(at(i), d, lap)>>]
  <2> QED
    BY <2>1
<1> QED
  BY <1>1, <1>2 DEF Numbered

LEMMA WeekRowsAre ==
    ASSUME NEW d \in Days, NEW lap, NEW focus, NEW ok
    PROVE  LET rows == WeekRows(d, lap, focus, ok) IN
           /\ Numbered(rows)
           /\ \E i \in DOMAIN rows : rows[i].day = d
           /\ focus # NoPool => \A i \in DOMAIN rows : rows[i].pool = focus
<1>1. Len(WeekDays(d)) = 2 /\ WeekDays(d)[1] = Monday(d) /\ WeekDays(d)[2] = Monday(d) + 1
  BY DEF WeekDays
<1>2. d \in {Monday(d), Monday(d) + 1}
  <2>1. d \in {0, 1, 2, 3}
    BY DEF Days
  <2> QED
    BY <2>1 DEF Monday
<1>3. DOMAIN WeekRows(d, lap, focus, ok) = 1..2
  BY <1>1 DEF WeekRows
<1>4. Numbered(WeekRows(d, lap, focus, ok))
  BY <1>1 DEF WeekRows, Numbered
<1>5. \A i \in 1..2 : WeekRows(d, lap, focus, ok)[i].day = WeekDays(d)[i]
  BY <1>1 DEF WeekRows
<1>6. focus # NoPool => \A i \in 1..2 : WeekRows(d, lap, focus, ok)[i].pool = focus
  BY <1>1 DEF WeekRows
<1> QED
  BY <1>1, <1>2, <1>3, <1>4, <1>5, <1>6

\* The row that opens itself is one of the rows, and in the pool view the day of the filter if it is there.
LEMMA RowToOpenIs ==
    ASSUME NEW rows, NEW f, Numbered(rows)
    PROVE  /\ RowToOpen(rows, f) # 0 => RowToOpen(rows, f) \in DOMAIN rows
           /\ f.mode = "pool" /\ (\E i \in DOMAIN rows : rows[i].day = f.date) =>
                RowToOpen(rows, f) \in DOMAIN rows /\ rows[RowToOpen(rows, f)].day = f.date
<1> DEFINE own == IF f.mode = "pool" THEN {i \in DOMAIN rows : rows[i].day = f.date}
                  ELSE IF f.sel.name # NoPool THEN {i \in DOMAIN rows : rows[i].pool = f.sel.name} ELSE {}
           open == {i \in DOMAIN rows : rows[i].open}
<1>1. DOMAIN rows \subseteq Nat
  BY DEF Numbered
<1>2. own \in SUBSET Nat /\ open \in SUBSET Nat /\ own \subseteq DOMAIN rows /\ open \subseteq DOMAIN rows
  BY <1>1
<1>3. RowToOpen(rows, f) = IF own # {} THEN Min(own) ELSE IF open # {} THEN Min(open) ELSE 0
  BY DEF RowToOpen
<1>4. f.mode = "pool" => own = {i \in DOMAIN rows : rows[i].day = f.date}
  OBVIOUS
<1> HIDE DEF own, open
<1>5. (own # {} => Min(own) \in own) /\ (open # {} => Min(open) \in open)
  BY <1>2, Least
<1> QED
  BY <1>2, <1>3, <1>4, <1>5

-----------------------------------------------------------------------------
(* A reader who waits. One answer at most is awaited: of the board, which is then gone from the    *)
(* host, or of a pool's detail, about the pool just selected. What is drawn is drawn for the       *)
(* filter that is set. The selection that an act starts from is one pool's even beside the week of *)
(* every pool: the toolbar never takes a clicked selection over, and the panel offers the week     *)
(* only beside the board of a day.                                                                 *)

OnePool(f) == f.sel.id \in {NoPool, f.sel.name}
EveryPool == board.of.mode = "pool" /\ board.of.pool = NoPool

BoardRead ==
    /\ board = [rows |-> board.rows, live |-> board.live, of |-> board.of]
    /\ Numbered(board.rows)
    /\ board.of.mode = "pool" /\ board.of.pool # NoPool =>
         \A i \in DOMAIN board.rows : board.rows[i].pool = board.of.pool

Gone == ~board.live /\ shown = <<>> /\ opens = <<>>
Drawn ==
    /\ board.live /\ shown = <<board.rows>> /\ renders = <<>>
    /\ board.of.mode = filter.mode /\ board.of.date = filter.date /\ board.of.lap = filter.lap
    /\ filter.mode = "pool" => board.of.pool \in {NoPool, filter.sel.name}

\* `o` is about the pool that is selected, on a day of the board.
AboutSelected(o) ==
    /\ o.pool = filter.sel.id
    /\ o.day = filter.date \/ (o.user /\ o.day \in {row.day : row \in Range(board.rows)})

AwaitsBoard ==
    /\ Gone /\ OnePool(filter)
    /\ \E boot \in BOOLEAN :
         renders = <<[mode |-> filter.mode, date |-> filter.date, pool |-> filter.sel.name, boot |-> boot]>>
LostBoard == Gone /\ renders = <<>> /\ threw /\ OnePool(filter)
AwaitsDetail == Drawn /\ \E o : opens = <<o>> /\ AboutSelected(o)
Rests == Drawn /\ opens = <<>> /\ (threw \/ panel = NoPanel \/ AboutSelected(panel))

Waits ==
    /\ strays = 0 /\ overlaps = 0 /\ OnePool(tool) /\ BoardRead
    /\ OnePool(filter) \/ (filter.mode = "pool" /\ EveryPool)
    /\ panel.week => board.of.mode = "day"
    /\ AwaitsBoard \/ LostBoard \/ AwaitsDetail \/ Rests

PatientInv == patient => Waits

LEMMA PatientInitially == ASSUME Init PROVE PatientInv
<1>1. PICK u \in Links :
        /\ filter = FromSearch(u) /\ tool = filter
        /\ board = NoBoard /\ shown = <<>> /\ opens = <<>> /\ panel = NoPanel /\ strays = 0
        /\ overlaps = 0
        /\ renders = <<[mode |-> filter.mode, date |-> filter.date, pool |-> filter.sel.name, boot |-> TRUE]>>
  BY DEF Init
<1>2. OnePool(filter) /\ OnePool(tool)
  BY <1>1 DEF FromSearch, BackfillPoolName, OnePool, Sel, NoSel
<1>3. BoardRead
  BY <1>1 DEF NoBoard, BoardRead, Numbered
<1>4. AwaitsBoard
  BY <1>1, <1>2 DEF AwaitsBoard, Gone, NoBoard
<1> QED
  BY <1>1, <1>2, <1>3, <1>4 DEF PatientInv, Waits, NoPanel

\* An act that sets a filter whose selection is one pool's, and asks for its board.
LEMMA AsksBoard ==
    ASSUME Waits, renders = <<>>, opens = <<>>, StartRender(filter'), OnePool(filter)', tool' = filter',
           UNCHANGED <<strays, opens, panel>>
    PROVE  Waits'
<1>1. board' = [rows |-> board.rows, live |-> FALSE, of |-> board.of]
  <2>1. board = [rows |-> board.rows, live |-> board.live, of |-> board.of]
    BY DEF Waits, BoardRead
  <2>2. board' = [board EXCEPT !.live = FALSE]
    BY DEF StartRender
  <2> QED
    BY <2>1, <2>2
<1>2. AwaitsBoard'
  <2>1. renders' = <<[mode |-> filter'.mode, date |-> filter'.date, pool |-> filter'.sel.name, boot |-> FALSE]>>
    BY DEF StartRender
  <2>2. Gone'
    BY <1>1 DEF StartRender, Gone
  <2> QED
    BY <2>1, <2>2 DEF AwaitsBoard
<1>3. overlaps' = 0
  BY DEF Waits, StartRender, Overlapped
<1> QED
  BY <1>1, <1>2, <1>3 DEF Waits, BoardRead, OnePool

\* A row's selection is one pool's in the day view, and on the board of one pool's week; there its name
\* stays.
LEMMA ChoosesOne ==
    ASSUME NEW row, NEW f
    PROVE  /\ f.mode = "day" => Chosen(row, f).id \in {NoPool, Chosen(row, f).name}
           /\ f.mode = "pool" /\ f.sel.name # NoPool => Chosen(row, f).name = f.sel.name
           /\ f.mode = "pool" /\ f.sel.name # NoPool /\ row.pool = f.sel.name =>
                Chosen(row, f).id \in {NoPool, Chosen(row, f).name}
<1> DEFINE name == RowFacilityName(row, f)
<1>1. Chosen(row, f).name = name /\ Chosen(row, f).id \in {NoPool, name} \cup (IF row.open THEN {row.pool} ELSE {})
  BY DEF Chosen
<1>2. CASE f.mode = "day"
  <2>1. row.pool # NoPool => name = row.pool
    BY <1>2 DEF RowFacilityName
  <2> QED
    BY <1>1, <1>2, <2>1
<1>3. CASE f.mode = "pool"
  <2>1. f.sel.name # NoPool => name = f.sel.name
    BY <1>3 DEF RowFacilityName
  <2> QED
    BY <1>1, <1>3, <2>1
<1> QED
  BY <1>2, <1>3

\* What a row asks is about the pool it selects.
LEMMA AsksSelected ==
    ASSUME NEW row, IsFilter(filter), NEW user, NEW boot, filter' = [filter EXCEPT !.sel = Chosen(row, filter)]
    PROVE  LET o == Asked(row, filter, user, boot) IN
           /\ o.pool = filter'.sel.id /\ o.user = user /\ o.day = RowDate(row, filter)
           /\ filter'.sel = Chosen(row, filter) /\ filter'.mode = filter.mode
           /\ filter'.date = filter.date /\ filter'.lap = filter.lap
<1>1. filter = [mode |-> filter.mode, date |-> filter.date, lap |-> filter.lap, sel |-> filter.sel]
  BY DEF IsFilter
<1>2. filter' = [mode |-> filter.mode, date |-> filter.date, lap |-> filter.lap, sel |-> Chosen(row, filter)]
  BY <1>1
<1> QED
  BY <1>2 DEF Asked

\* Rows and selection of a board drawn for the filter that is set.
LEMMA BoardRowsAre ==
    ASSUME IsFilter(filter), NEW r, r.mode = filter.mode, r.date = filter.date, r.pool = filter.sel.name, NEW ok \in BOOLEAN
    PROVE  LET rows == BoardRows(r, filter, ok) IN
           /\ Numbered(rows)
           /\ filter.mode = "day" => \A i \in DOMAIN rows : rows[i].day = NoDay
           /\ filter.mode = "pool" => \E i \in DOMAIN rows : rows[i].day = filter.date
           /\ filter.mode = "pool" /\ filter.sel.name # NoPool => \A i \in DOMAIN rows : rows[i].pool = filter.sel.name
<1>1. CASE filter.mode = "day"
  <2>1. BoardRows(r, filter, ok) \in {DayRows(filter.date, filter.lap), <<>>}
    BY <1>1 DEF BoardRows
  <2>2. Numbered(<<>>) /\ DOMAIN <<>> = {}
    BY DEF Numbered
  <2> QED
    BY <1>1, <2>1, <2>2, DayRowsAre
<1>2. CASE filter.mode = "pool"
  <2>1. BoardRows(r, filter, ok) = WeekRows(filter.date, filter.lap, filter.sel.name, ok)
    BY <1>2 DEF BoardRows
  <2> QED
    BY <1>2, <2>1, WeekRowsAre DEF IsFilter
<1> QED
  BY <1>1, <1>2 DEF IsFilter, Views

\* The host's rows are those of its only board.
LEMMA FlatOne == ASSUME NEW rows PROVE FlattenSeq(<<rows>>) = rows
<1> DEFINE Flat(f) == f = [i \in 1..1 |-> IF i = 1 THEN <<rows>>[i] ELSE f[i - 1] \o <<rows>>[i]]
<1>1. Flat([i \in 1..1 |-> rows])
  OBVIOUS
<1>2. ASSUME NEW f, Flat(f) PROVE f[1] = rows
  BY <1>2
<1>3. FlattenSeq(<<rows>>) = (CHOOSE f : Flat(f))[1]
  <2>1. Len(<<rows>>) = 1
    OBVIOUS
  <2> QED
    BY <2>1 DEF FlattenSeq
<1> QED
  BY <1>1, <1>2, <1>3

LEMMA PatientClick == ASSUME IInv, Waits, Idle, ClickRow PROVE Waits'
<1>1. PICK i \in 1..Len(FlattenSeq(shown)) :
        IF i \in DOMAIN board.rows
        THEN /\ filter' = [filter EXCEPT !.sel = Chosen(board.rows[i], filter)]
             /\ opens' = Append(opens, Asked(board.rows[i], filter, TRUE, FALSE))
        ELSE UNCHANGED <<filter, opens>>
  BY DEF ClickRow
<1>2. shown # <<>>
  <2>1. FlattenSeq(<<>>) = <<>>
    BY DEF FlattenSeq
  <2> QED
    BY <1>1, <2>1
<1>3. Rests
  BY <1>2 DEF Waits, AwaitsBoard, LostBoard, AwaitsDetail, Gone, Idle
<1>4. i \in DOMAIN board.rows
  <2>1. FlattenSeq(<<board.rows>>) = board.rows
    BY FlatOne
  <2> QED
    BY <1>1, <1>3, <2>1 DEF Rests, Drawn, Waits, BoardRead, Numbered
<1>a. PICK row, o : row = board.rows[i] /\ o = Asked(row, filter, TRUE, FALSE)
  OBVIOUS
<1>5. filter' = [filter EXCEPT !.sel = Chosen(row, filter)] /\ opens' = <<o>>
  <2>1. opens = <<>> /\ opens' = Append(opens, o)
    BY <1>1, <1>3, <1>4, <1>a DEF Rests
  <2> QED
    BY <1>1, <1>4, <1>a, <2>1
<1>6. IsFilter(filter)
  BY DEF IInv
<1>7. /\ o.pool = filter'.sel.id /\ o.user = TRUE /\ o.day = RowDate(row, filter)
      /\ filter'.sel = Chosen(row, filter) /\ filter'.mode = filter.mode
      /\ filter'.date = filter.date /\ filter'.lap = filter.lap
  <2> DEFINE made == Asked(row, filter, TRUE, FALSE)
  <2>1. /\ made.pool = filter'.sel.id /\ made.user = TRUE /\ made.day = RowDate(row, filter)
        /\ filter'.sel = Chosen(row, filter) /\ filter'.mode = filter.mode
        /\ filter'.date = filter.date /\ filter'.lap = filter.lap
    BY <1>5, <1>6, AsksSelected
  <2> QED
    BY <1>a, <2>1
<1>8. UNCHANGED <<tool, board, shown, strays, renders, panel, overlaps>>
  BY DEF ClickRow, awaited
<1>9. row \in Range(board.rows)
  BY <1>4, <1>a DEF Range
<1>10. o.day = filter'.date \/ o.day \in {w.day : w \in Range(board.rows)}
  BY <1>7, <1>9 DEF RowDate
<1>11. AboutSelected(o)'
  BY <1>7, <1>8, <1>10 DEF AboutSelected
<1>12. filter.mode = "pool" => board.of.mode = "pool" /\ board.of.pool \in {NoPool, filter.sel.name}
  BY <1>3 DEF Rests, Drawn
<1>13. OnePool(filter)' \/ (filter'.mode = "pool" /\ EveryPool')
  <2>1. CASE filter.mode = "day"
    BY <1>7, <2>1, ChoosesOne DEF OnePool
  <2>2. CASE filter.mode = "pool" /\ board.of.pool = NoPool
    BY <1>7, <1>8, <1>12, <2>2 DEF EveryPool
  <2>3. CASE filter.mode = "pool" /\ board.of.pool # NoPool
    <3>1. filter.sel.name # NoPool /\ row.pool = filter.sel.name
      BY <1>4, <1>a, <1>12, <2>3 DEF Waits, BoardRead
    <3> QED
      BY <1>7, <2>3, <3>1, ChoosesOne DEF OnePool
  <2> QED
    BY <1>6, <2>1, <2>2, <2>3 DEF IsFilter, Views
<1>14. Drawn'
  <2>1. filter.mode = "pool" => board.of.pool \in {NoPool, filter'.sel.name}
    BY <1>7, <1>12, ChoosesOne
  <2> QED
    BY <1>3, <1>7, <1>8, <2>1 DEF Rests, Drawn
<1>15. AwaitsDetail'
  BY <1>5, <1>11, <1>14 DEF AwaitsDetail
<1> QED
  BY <1>8, <1>13, <1>15 DEF Waits, BoardRead, OnePool

\* The board arrives: it is drawn for the filter that is set, and the row that opens itself is asked about.
LEMMA PatientDraws == ASSUME IInv, Waits, AnswerArrives PROVE Waits'
<1>1. PICK i \in DOMAIN renders, ok \in BOOLEAN : Draw(i, ok)
  BY DEF AnswerArrives
<1>2. AwaitsBoard
  <2>1. renders # <<>>
    BY <1>1
  <2> QED
    BY <2>1 DEF Waits, LostBoard, AwaitsDetail, Rests, Drawn
<1>3. PICK boot \in BOOLEAN :
        renders = <<[mode |-> filter.mode, date |-> filter.date, pool |-> filter.sel.name, boot |-> boot]>>
  BY <1>2 DEF AwaitsBoard
<1>4. PICK r : r = renders[1] /\ r.mode = filter.mode /\ r.date = filter.date /\ r.pool = filter.sel.name
  BY <1>3
<1>5. i = 1
  BY <1>1, <1>3
<1>6. PICK rows : rows = BoardRows(r, filter, ok)
  OBVIOUS
<1>7. PICK k : k = RowToOpen(rows, filter)
  OBVIOUS
<1>8. /\ renders' = <<>> /\ strays' = 0 /\ overlaps' = 0 /\ panel' = NoPanel /\ tool' = tool
      /\ shown' = <<rows>> /\ board'.rows = rows /\ board'.live
      /\ board'.of.mode = filter.mode /\ board'.of.date = filter.date /\ board'.of.lap = filter.lap
      /\ board'.of.pool = filter.sel.name
      /\ board' = [rows |-> board'.rows, live |-> board'.live, of |-> board'.of]
  <2>1. RemoveAt(renders, 1) = <<>>
    BY <1>3 DEF RemoveAt
  <2>2. strays' = 0 /\ shown' = <<rows>>
    BY <1>1, <1>2, <1>4, <1>5, <1>6 DEF Draw, Waits, AwaitsBoard, Gone
  <2>3. board' = [rows |-> rows, live |-> TRUE,
                  of |-> [mode |-> filter.mode, date |-> filter.date, lap |-> filter.lap, pool |-> filter.sel.name]]
    BY <1>1, <1>4, <1>5, <1>6 DEF Draw
  <2>4. renders' = <<>> /\ panel' = NoPanel /\ tool' = tool /\ overlaps' = 0
    BY <1>1, <1>5, <2>1 DEF Draw, AnswerArrives, awaited, Waits
  <2>5. /\ board'.rows = rows /\ board'.live
        /\ board'.of = [mode |-> filter.mode, date |-> filter.date, lap |-> filter.lap, pool |-> filter.sel.name]
    BY <2>3
  <2>6. /\ board'.of.mode = filter.mode /\ board'.of.date = filter.date /\ board'.of.lap = filter.lap
        /\ board'.of.pool = filter.sel.name
    BY <2>5
  <2>7. board' = [rows |-> board'.rows, live |-> board'.live, of |-> board'.of]
    BY <2>3, <2>5
  <2> QED
    BY <2>2, <2>4, <2>5, <2>6, <2>7
<1>9. IsFilter(filter) /\ filter.mode \in {"day", "pool"}
  BY DEF IInv, IsFilter, Views
<1>10. /\ Numbered(rows)
       /\ filter.mode = "day" => \A j \in DOMAIN rows : rows[j].day = NoDay
       /\ filter.mode = "pool" => \E j \in DOMAIN rows : rows[j].day = filter.date
       /\ filter.mode = "pool" /\ filter.sel.name # NoPool => \A j \in DOMAIN rows : rows[j].pool = filter.sel.name
  BY <1>4, <1>6, <1>9, BoardRowsAre
<1>11. BoardRead'
  BY <1>8, <1>10 DEF BoardRead
<1>12. CASE k = 0
  <2>1. UNCHANGED <<filter, opens>>
    BY <1>1, <1>4, <1>5, <1>6, <1>7, <1>12 DEF Draw
  <2>2. opens' = <<>> /\ OnePool(filter)'
    BY <1>2, <2>1 DEF AwaitsBoard, Gone, OnePool
  <2>3. Rests'
    BY <1>8, <2>1, <2>2 DEF Rests, Drawn
  <2> QED
    BY <1>8, <1>11, <2>2, <2>3 DEF Waits, OnePool, NoPanel
<1>13. CASE k # 0
  <2>1. k \in DOMAIN rows /\ (filter.mode = "pool" => rows[k].day = filter.date)
    BY <1>7, <1>10, <1>13, RowToOpenIs
  <2>2. PICK row, o : row = rows[k] /\ o = Asked(row, filter, FALSE, r.boot)
    OBVIOUS
  <2>3. filter' = [filter EXCEPT !.sel = Chosen(row, filter)] /\ opens' = <<o>>
    <3>1. opens = <<>> /\ opens' = Append(opens, o)
      BY <1>1, <1>2, <1>4, <1>5, <1>6, <1>7, <1>13, <2>2 DEF Draw, AwaitsBoard, Gone
    <3> QED
      BY <1>1, <1>4, <1>5, <1>6, <1>7, <1>13, <2>2, <3>1 DEF Draw
  <2>4. /\ o.pool = filter'.sel.id /\ o.day = RowDate(row, filter)
        /\ filter'.sel = Chosen(row, filter) /\ filter'.mode = filter.mode
        /\ filter'.date = filter.date /\ filter'.lap = filter.lap
    <3>1. IsFilter(filter) /\ filter' = [filter EXCEPT !.sel = Chosen(row, filter)]
      BY <1>9, <2>3
    <3>2. PICK user, itself : user = FALSE /\ itself = r.boot
      OBVIOUS
    <3> DEFINE made == Asked(row, filter, user, itself)
    <3>3. /\ made.pool = filter'.sel.id /\ made.day = RowDate(row, filter)
          /\ filter'.sel = Chosen(row, filter) /\ filter'.mode = filter.mode
          /\ filter'.date = filter.date /\ filter'.lap = filter.lap
      BY <3>1, AsksSelected
    <3> QED
      BY <2>2, <3>2, <3>3
  <2>5. o.day = filter'.date
    BY <1>9, <1>10, <2>1, <2>2, <2>4 DEF RowDate
  <2>6. AboutSelected(o)'
    BY <2>4, <2>5 DEF AboutSelected
  <2>7. OnePool(filter)' \/ (filter'.mode = "pool" /\ EveryPool')
    <3>1. CASE filter.mode = "day"
      BY <2>4, <3>1, ChoosesOne DEF OnePool
    <3>2. CASE filter.mode = "pool" /\ filter.sel.name = NoPool
      BY <1>8, <2>4, <3>2 DEF EveryPool
    <3>3. CASE filter.mode = "pool" /\ filter.sel.name # NoPool
      <4>1. row.pool = filter.sel.name
        BY <1>10, <2>1, <2>2, <3>3
      <4> QED
        BY <2>4, <3>3, <4>1, ChoosesOne DEF OnePool
    <3> QED
      BY <1>9, <3>1, <3>2, <3>3
  <2>8. Drawn'
    <3>1. filter.mode = "pool" => board'.of.pool \in {NoPool, filter'.sel.name}
      BY <1>8, <2>4, ChoosesOne
    <3> QED
      BY <1>8, <2>4, <3>1 DEF Drawn
  <2>9. AwaitsDetail'
    BY <2>3, <2>6, <2>8 DEF AwaitsDetail
  <2>10. OnePool(tool)'
    BY <1>8 DEF Waits, OnePool
  <2> QED
    BY <1>8, <1>11, <2>7, <2>9, <2>10 DEF Waits, NoPanel
<1> QED
  BY <1>12, <1>13

LEMMA PatientEdits == ASSUME IInv, Waits, Idle, EditToolbar PROVE Waits'
<1>1. PICK next \in Edits : Emit(next)
  BY DEF EditToolbar
<1>2. tool = [mode |-> tool.mode, date |-> tool.date, lap |-> tool.lap, sel |-> tool.sel]
  BY DEF IInv, IsFilter
<1>3. next.sel = tool.sel \/ \E p \in Pools : next.sel = Sel(p)
  BY <1>2 DEF Edits
<1>4. OnePool(next)
  <2>1. OnePool(tool)
    BY DEF Waits
  <2>2. CASE next.sel = tool.sel
    BY <2>1, <2>2 DEF OnePool
  <2>3. CASE \E p \in Pools : next.sel = Sel(p)
    BY <2>3 DEF OnePool, Sel
  <2> QED
    BY <1>3, <2>2, <2>3
<1>5. next = [mode |-> next.mode, date |-> next.date, lap |-> next.lap, sel |-> next.sel]
  BY <1>2 DEF Edits
<1>6. filter' = next \/ filter' = [next EXCEPT !.sel = Sel(seed)]
  BY <1>1 DEF Emit
<1>7. OnePool(filter)'
  BY <1>4, <1>5, <1>6 DEF OnePool, Sel
<1> QED
  BY <1>1, <1>7, AsksBoard DEF EditToolbar, Emit, Idle

LEMMA PatientOpensWeek == ASSUME IInv, Waits, Idle, OpenWeek PROVE Waits'
<1>1. OnePool(filter)
  BY DEF OpenWeek, Waits, EveryPool
<1>2. OnePool(filter)'
  BY <1>1 DEF OpenWeek, OnePool, IInv, IsFilter
<1> QED
  BY <1>2, AsksBoard DEF OpenWeek, Idle

LEMMA PatientGoesBack == ASSUME IInv, Waits, Idle, PopState PROVE Waits'
<1>1. OnePool(filter)'
  BY DEF PopState, FromSearch, BackfillPoolName, Sel, NoSel, OnePool
<1> QED
  BY <1>1, AsksBoard DEF PopState, Idle

\* The board is lost: the old one stays gone, and the panel beside it is told apart by `threw`.
LEMMA PatientLosesBoard == ASSUME Waits, AnswerLost PROVE Waits'
<1>1. PICK i \in DOMAIN renders : renders' = RemoveAt(renders, i)
  BY DEF AnswerLost
<1>2. AwaitsBoard
  <2>1. renders # <<>>
    BY <1>1
  <2> QED
    BY <2>1 DEF Waits, LostBoard, AwaitsDetail, Rests, Drawn
<1>3. PICK r : renders = <<r>>
  BY <1>2 DEF AwaitsBoard
<1>4. renders' = <<>>
  BY <1>1, <1>3 DEF RemoveAt
<1>5. LostBoard'
  BY <1>2, <1>4 DEF AnswerLost, AwaitsBoard, LostBoard, Gone, OnePool
<1> QED
  BY <1>5 DEF AnswerLost, awaited, Waits, BoardRead, OnePool, EveryPool

LEMMA PatientReads == ASSUME Waits, DetailArrives \/ DetailLost PROVE Waits'
<1>1. PICK i \in DOMAIN opens : opens' = RemoveAt(opens, i) /\ (Opened(opens[i]) \/ (threw' /\ panel' = panel))
  BY DEF DetailArrives, DetailLost
<1>2. AwaitsDetail
  <2>1. opens # <<>>
    BY <1>1
  <2> QED
    BY <2>1 DEF Waits, AwaitsBoard, LostBoard, Rests, Gone
<1>3. PICK o : opens = <<o>> /\ AboutSelected(o)
  BY <1>2 DEF AwaitsDetail
<1>4. opens' = <<>> /\ i = 1
  BY <1>1, <1>3 DEF RemoveAt
<1>5. UNCHANGED <<filter, tool, board, shown, strays, renders, overlaps>>
  BY DEF DetailArrives, DetailLost, awaited
<1>6. Drawn'
  BY <1>2, <1>5 DEF AwaitsDetail, Drawn
<1>7. (threw' /\ panel' = panel)
      \/ panel' = [pool |-> o.pool, day |-> o.day, week |-> filter.mode = "day", user |-> o.user]
  BY <1>1, <1>3, <1>4 DEF Opened
<1>8. Rests'
  <2>1. CASE threw'
    BY <1>4, <1>6, <2>1 DEF Rests
  <2>2. CASE panel' = [pool |-> o.pool, day |-> o.day, week |-> filter.mode = "day", user |-> o.user]
    <3>1. AboutSelected(panel)'
      BY <1>3, <1>5, <2>2 DEF AboutSelected
    <3> QED
      BY <1>4, <1>6, <3>1 DEF Rests
  <2> QED
    BY <1>7, <2>1, <2>2
<1>9. panel'.week => board'.of.mode = "day"
  <2>1. filter.mode = board.of.mode /\ board' = board /\ (panel.week => board.of.mode = "day")
    BY <1>2, <1>5 DEF Waits, AwaitsDetail, Drawn
  <2>2. CASE panel' = panel
    BY <2>1, <2>2
  <2>3. CASE panel' = [pool |-> o.pool, day |-> o.day, week |-> filter.mode = "day", user |-> o.user]
    <3>1. panel'.week = (filter.mode = "day")
      BY <2>3
    <3> QED
      BY <2>1, <3>1
  <2> QED
    BY <1>7, <2>2, <2>3
<1> QED
  BY <1>5, <1>8, <1>9 DEF Waits, BoardRead, OnePool, EveryPool

LEMMA PatientStep == ASSUME IInv, PatientInv, [Next]_vars PROVE PatientInv'
<1> SUFFICES ASSUME patient' PROVE Waits'
  BY DEF PatientInv
<1>1. patient /\ Waits
  BY DEF PatientInv, Next, vars, EditToolbar, ClickRow, OpenWeek, PopState, AnswerArrives, AnswerLost,
         DetailArrives, DetailLost
<1>2. EditToolbar \/ ClickRow \/ OpenWeek \/ PopState => Idle
  BY <1>1 DEF EditToolbar, ClickRow, OpenWeek, PopState, Act
<1>3. CASE UNCHANGED vars
  BY <1>1, <1>3 DEF vars, awaited, Waits, BoardRead, OnePool, EveryPool, AwaitsBoard, LostBoard, AwaitsDetail, Rests,
                    Gone, Drawn, AboutSelected
<1> QED
  BY <1>1, <1>2, <1>3, PatientEdits, PatientClick, PatientOpensWeek, PatientGoesBack, PatientDraws,
     PatientLosesBoard, PatientReads DEF Next

-----------------------------------------------------------------------------
(* Types, and what the acts of a reader bound. *)

\* How many of S are placed no later than p.
Rank(S, place, p) == Cardinality({q \in S : place[q] <= place[p]})

\* Of places all different and none beyond `top`, one is the i-th.
LEMMA Ranked ==
    ASSUME NEW S, IsFiniteSet(S), NEW place \in [S -> Nat], \A p, q \in S : place[p] = place[q] => p = q,
           NEW top \in Nat, \A q \in S : place[q] <= top, NEW i \in 1..Cardinality(S)
    PROVE  \E p \in S : Rank(S, place, p) = i
<1> DEFINE upTo(n) == {q \in S : place[q] <= n}
           enough == {n \in Nat : Cardinality(upTo(n)) >= i}
           before(n) == {q \in S : place[q] < n}
<1>1. \A T \in SUBSET S : IsFiniteSet(T) /\ Cardinality(T) \in Nat
  BY FS_Subset, FS_CardinalityType
<1>2. top \in enough
  <2>1. upTo(top) = S
    OBVIOUS
  <2> QED
    BY <1>1, <2>1
<1>3. PICK n \in enough : \A m \in enough : n <= m
  <2>1. enough \in SUBSET Nat
    OBVIOUS
  <2> HIDE DEF enough
  <2> QED
    BY <1>2, <2>1, Least
<1>4. n \in Nat /\ Cardinality(upTo(n)) >= i /\ i \in Nat \ {0}
  BY <1>1
<1>5. Cardinality(before(n)) < i
  <2>1. CASE n = 0
    <3>1. before(n) = {}
      BY <2>1
    <3> QED
      BY <1>4, <3>1, FS_EmptySet
  <2>2. CASE n # 0
    <3>1. n - 1 \in Nat /\ ~(n <= n - 1)
      BY <1>4, <2>2
    <3>2. n - 1 \notin enough
      BY <1>3, <3>1
    <3>3. before(n) = upTo(n - 1)
      BY <1>4, <3>1
    <3>4. Cardinality(upTo(n - 1)) \in Nat
      BY <1>1
    <3> QED
      BY <1>4, <3>1, <3>2, <3>3, <3>4
  <2> QED
    BY <2>1, <2>2
<1>6. PICK p \in S : place[p] = n
  <2>1. upTo(n) # before(n)
    BY <1>1, <1>4, <1>5
  <2> QED
    BY <1>4, <2>1
<1>7. upTo(n) = before(n) \cup {p} /\ p \notin before(n)
  BY <1>4, <1>6
<1>8. Cardinality(upTo(n)) = Cardinality(before(n)) + 1
  BY <1>1, <1>7, FS_AddElement
<1>9. Cardinality(upTo(n)) = i
  <2>1. Cardinality(before(n)) \in Nat
    BY <1>1
  <2> QED
    BY <1>4, <1>5, <1>8, <2>1
<1> QED
  BY <1>6, <1>9 DEF Rank

Names == {NoPool, Weekday} \cup Pools
Rows == {row \in [pool : Names, day : {NoDay} \cup Days, open : BOOLEAN] : row.open => row.pool \in Pools}
Boards == [rows : Seq(Rows), live : BOOLEAN,
           of : [mode : Views, date : {NoDay} \cup Days, lap : BOOLEAN, pool : Names]]
Renders == [mode : Views, date : Days, pool : Names, boot : BOOLEAN]

\* A row that says it is open names a pool, on the board of a day ...
LEMMA DayRowsTyped == ASSUME NEW d \in Days, NEW lap \in BOOLEAN PROVE DayRows(d, lap) \in Seq(Rows)
<1> DEFINE listed == {p \in Pools : Open(p, d, lap) \/ Shut(p, d)}
           place(p) == IF Open(p, d, lap) THEN p ELSE Len(Programme) + p
           places == [p \in listed |-> place(p)]
           at(i) == CHOOSE p \in listed : Cardinality({q \in listed : place(q) <= place(p)}) = i
           row(i) == [pool |-> at(i), day |-> NoDay, open |-> Open(at(i), d, lap)]
<1>1. IsFiniteSet(listed) /\ Cardinality(listed) \in Nat /\ listed \subseteq 1..Len(Programme) /\ Len(Programme) \in Nat
  BY Amounts, FS_Subset, FS_CardinalityType, PoolsAssumption
<1>2. /\ places \in [listed -> Nat]
      /\ \A p, q \in listed : places[p] = places[q] => p = q
      /\ \A q \in listed : places[q] <= 2 * Len(Programme)
  BY <1>1
<1>3. ASSUME NEW i \in 1..Cardinality(listed) PROVE at(i) \in listed
  <2>1. \E p \in listed : Rank(listed, places, p) = i
    <3>1. PICK top \in Nat : \A q \in listed : places[q] <= top
      <4>1. 2 * Len(Programme) \in Nat
        BY <1>1
      <4> HIDE DEF places, listed
      <4> QED
        BY <1>2, <4>1
    <3> HIDE DEF places, listed, place, at, row
    <3> QED
      BY <1>1, <1>2, <3>1, Ranked
  <2>2. \A p \in listed : Rank(listed, places, p) = Cardinality({q \in listed : place(q) <= place(p)})
    BY DEF Rank
  <2>3. \E p \in listed : Cardinality({q \in listed : place(q) <= place(p)}) = i
    <3> HIDE DEF places, place, listed
    <3> QED
      BY <2>1, <2>2
  <2> QED
    BY <2>3
<1>4. ASSUME NEW i \in 1..Cardinality(listed) PROVE row(i) \in Rows
  <2>1. at(i) \in Pools
    BY <1>3
  <2>2. Open(at(i), d, lap) \in BOOLEAN
    BY DEF Open
  <2> HIDE DEF at
  <2> QED
    BY <2>1, <2>2 DEF Rows, Names
<1>5. DayRows(d, lap) = [i \in 1..Cardinality(listed) |-> row(i)]
  BY DEF DayRows
<1> HIDE DEF row, listed
<1> QED
  BY <1>1, <1>4, <1>5

\* ... and on the board of a week.
LEMMA WeekRowsTyped ==
    ASSUME NEW d \in Days, NEW lap \in BOOLEAN, NEW focus \in Names, NEW ok \in BOOLEAN
    PROVE  WeekRows(d, lap, focus, ok) \in Seq(Rows)
<1> DEFINE at(day) == {p \in Pools : ok /\ focus \in {NoPool, p} /\ Open(p, day, lap)}
           said(day) == {p \in Pools : ok /\ focus \in {NoPool, p} /\ Shut(p, day)}
           first(S) == IF S = {} THEN NoPool ELSE Min(S)
           row(day) == [day |-> day, open |-> at(day) # {},
                        pool |-> IF focus # NoPool THEN focus
                                 ELSE IF at(day) # {} THEN first(at(day)) ELSE first(said(day))]
<1>1. Len(WeekDays(d)) = 2 /\ \A i \in 1..2 : WeekDays(d)[i] \in Days
  <2>1. Monday(d) \in {0, 2}
    BY Mondays
  <2> QED
    BY <2>1 DEF WeekDays, Days
<1>2. ASSUME NEW day \in Days PROVE row(day) \in Rows
  <2>1. at(day) \in SUBSET Pools /\ said(day) \in SUBSET Pools /\ (at(day) # {} /\ focus # NoPool => focus \in Pools)
    OBVIOUS
  <2> HIDE DEF at, said
  <2>2. \A S \in SUBSET Pools : S # {} => Min(S) \in Pools
    BY Amounts, Least
  <2>3. first(at(day)) \in Names /\ first(said(day)) \in Names /\ (at(day) # {} => first(at(day)) \in Pools)
    BY <2>1, <2>2 DEF Names
  <2> HIDE DEF first
  <2> QED
    BY <2>1, <2>3 DEF Rows, Names
<1>3. WeekRows(d, lap, focus, ok) = [i \in 1..Len(WeekDays(d)) |-> row(WeekDays(d)[i])]
  BY DEF WeekRows
<1> HIDE DEF row
<1> QED
  BY <1>1, <1>2, <1>3

LEMMA BoardRowsTyped ==
    ASSUME NEW r \in Renders, NEW f \in Filters, NEW ok \in BOOLEAN
    PROVE  BoardRows(r, f, ok) \in Seq(Rows)
<1>1. r.date \in Days /\ r.pool \in Names /\ f.lap \in BOOLEAN /\ f.sel.name \in Names
  BY DEF Renders, Filters, Names
<1>2. (IF f.sel.name # NoPool THEN f.sel.name ELSE r.pool) \in Names
  BY <1>1
<1> QED
  BY <1>1, <1>2, DayRowsTyped, WeekRowsTyped DEF BoardRows

\* What a row selects is a selection.
LEMMA ChosenTyped ==
    ASSUME NEW f \in Filters, NEW row \in Rows
    PROVE  [f EXCEPT !.sel = Chosen(row, f)] \in Filters
<1>1. RowFacilityName(row, f) \in Names
  BY DEF RowFacilityName, Filters, Rows, Names
<1>2. Chosen(row, f) \in [id : {NoPool} \cup Pools, name : Names]
  BY <1>1 DEF Chosen, Rows, Names
<1> QED
  BY <1>2 DEF Filters, Names

LEMMA Removed ==
    ASSUME NEW R, NEW s \in Seq(R), NEW i \in DOMAIN s
    PROVE  RemoveAt(s, i) \in Seq(R) /\ Len(RemoveAt(s, i)) = Len(s) - 1
<1>1. i \in 1..Len(s) /\ Len(s) \in Nat
  OBVIOUS
<1>2. SubSeq(s, 1, i - 1) \in Seq(R) /\ Len(SubSeq(s, 1, i - 1)) = i - 1
  BY <1>1
<1>3. SubSeq(s, i + 1, Len(s)) \in Seq(R) /\ Len(SubSeq(s, i + 1, Len(s))) = Len(s) - i
  BY <1>1
<1>4. PICK a, b : a = SubSeq(s, 1, i - 1) /\ b = SubSeq(s, i + 1, Len(s)) /\ RemoveAt(s, i) = a \o b
  BY DEF RemoveAt
<1>5. a \in Seq(R) /\ b \in Seq(R) /\ Len(a) = i - 1 /\ Len(b) = Len(s) - i
  BY <1>2, <1>3, <1>4
<1>6. a \o b \in Seq(R) /\ Len(a \o b) = Len(a) + Len(b)
  BY <1>5, ConcatProperties
<1> HIDE DEF RemoveAt
<1>7. RemoveAt(s, i) \in Seq(R) /\ Len(RemoveAt(s, i)) = Len(a) + Len(b)
  BY <1>4, <1>6
<1> QED
  BY <1>1, <1>5, <1>7

Typed ==
    /\ filter \in Filters /\ tool \in Filters
    /\ hist \in Seq(Link) /\ pos \in 1..Len(hist)
    /\ board \in Boards /\ shown \in Seq(Seq(Rows)) /\ renders \in Seq(Renders)
    /\ seed \in {NoPool} \cup Pools

\* Acts done by now. Each asks at most once, and each answer leaves one board in the host; it loses a
\* loop only where another board was drawn since its render began.
Done == (IF patient THEN Acts ELSE HastyActs) - left
Live == IF board.live THEN 1 ELSE 0
Counted ==
    /\ patient \in BOOLEAN /\ left \in Nat /\ Done \in Nat
    /\ overlaps \in Nat /\ overlaps <= Done /\ mixed \in BOOLEAN
    /\ strays \in Nat /\ strays <= overlaps
    /\ strays + Live + Len(renders) <= 1 + overlaps
    /\ Len(shown) + Len(renders) <= 1 + Done
TInv == Typed /\ Counted

LEMMA Linked == Link = Urls({NoPool, Unknown} \cup Pools) /\ Links \subseteq Link
<1>1. Link = Urls({NoPool, Unknown} \cup Pools)
  BY DEF Link, Urls, Views
<1>2. 1 \in Pools /\ Len(Programme) \in Pools
  <2>1. Len(Programme) \in Nat \ {0}
    BY PoolsAssumption
  <2> QED
    BY <2>1, PoolsAssumption
<1>3. Bare \in Link
  BY DEF Bare, Link
<1>4. Links \subseteq Link
  <2>1. ASSUME NEW u \in Link, NEW v \in {"day", "pool"}, NEW d \in {NoDay} \cup Days, NEW p \in {NoPool, Unknown} \cup Pools
        PROVE  [u EXCEPT !.view = v, !.pool = p] \in Link /\ [u EXCEPT !.pool = p, !.date = d] \in Link
               /\ [u EXCEPT !.view = v, !.date = d, !.pool = p] \in Link
    BY DEF Link
  <2>2. 0 \in Days /\ 2 \in Days
    BY DEF Days
  <2>3. [Bare EXCEPT !.view = "pool", !.pool = 1] \in Link
    BY <1>2, <1>3, <2>1, Zenon
  <2>4. [Bare EXCEPT !.pool = Unknown, !.date = 0] \in Link
    BY <1>3, <2>1, <2>2, Zenon
  <2>5. [Bare EXCEPT !.view = "pool", !.date = 2, !.pool = Len(Programme)] \in Link
    BY <1>2, <1>3, <2>1, <2>2, Zenon
  <2> QED
    BY <1>3, <2>3, <2>4, <2>5, Zenon DEF Links
<1> QED
  BY <1>1, <1>4

\* The filters of an address, and the address of a filter.
LEMMA ReadTyped == ASSUME NEW u \in Link PROVE FromSearch(u) \in Filters
  BY DEF Link, FromSearch, BackfillPoolName, Sel, NoSel, Filters, Days, Today, NoDay

LEMMA WrittenTyped == ASSUME NEW f \in Filters PROVE ToSearch(f) \in Link
<1>1. IsFilter(f) /\ f.sel.id \in {NoPool, Unknown} \cup Pools
  BY DEF Filters, IsFilter, Views
<1> QED
  BY <1>1, Written, Linked

LEMMA SyncTyped ==
    ASSUME Typed, NEW f \in Filters, SyncUrl(f)
    PROVE  hist' \in Seq(Link) /\ pos' \in 1..Len(hist')
<1>1. ToSearch(f) \in Link
  BY WrittenTyped
<1>2. CASE hist' = Append(SubSeq(hist, 1, pos), ToSearch(f)) /\ pos' = pos + 1
  <2>1. SubSeq(hist, 1, pos) \in Seq(Link) /\ Len(SubSeq(hist, 1, pos)) = pos
    BY DEF Typed
  <2> QED
    BY <1>1, <1>2, <2>1 DEF Typed
<1>3. CASE hist' = [hist EXCEPT ![pos] = ToSearch(f)] /\ pos' = pos
  BY <1>1, <1>3 DEF Typed
<1> QED
  BY <1>2, <1>3 DEF SyncUrl

\* An act that sets a filter and asks for its board.
LEMMA AsksTyped ==
    ASSUME TInv, Act, patient' = patient, filter' \in Filters, StartRender(filter'), UNCHANGED strays
    PROVE  Counted' /\ board' \in Boards /\ shown' \in Seq(Seq(Rows)) /\ renders' \in Seq(Renders)
<1> DEFINE r == [mode |-> filter'.mode, date |-> filter'.date, pool |-> filter'.sel.name, boot |-> FALSE]
<1>1. r \in Renders
  BY DEF Filters, Renders, Views, Names
<1>2. renders' = Append(renders, r) /\ shown' = <<>> /\ board' = [board EXCEPT !.live = FALSE]
  BY DEF StartRender
<1> HIDE DEF r
<1>3. renders' \in Seq(Renders) /\ Len(renders') = Len(renders) + 1
  BY <1>1, <1>2 DEF TInv, Typed
<1>4. board' \in Boards /\ ~board'.live
  BY <1>2 DEF TInv, Typed, Boards
<1>5. shown' \in Seq(Seq(Rows)) /\ Len(shown') = 0
  BY <1>2
<1>6. left' \in Nat /\ Done' = Done + 1 /\ patient' \in BOOLEAN
  BY PoolsAssumption DEF TInv, Counted, Done, Act
<1>7. Len(renders) \in Nat /\ Len(shown) \in Nat /\ Live \in {0, 1} /\ (renders = <<>> <=> Len(renders) = 0)
  BY DEF TInv, Typed, Live
<1>8. mixed' \in BOOLEAN /\ overlaps' = overlaps + (IF Len(renders) = 0 THEN 0 ELSE 1)
  BY <1>7 DEF StartRender, Overlapped
<1>9. Counted'
  BY <1>3, <1>4, <1>5, <1>6, <1>7, <1>8 DEF TInv, Counted, Live
<1> QED
  BY <1>3, <1>4, <1>5, <1>9

LEMMA TypesInitially == ASSUME Init PROVE TInv
<1>1. PICK u \in Links :
        /\ filter = FromSearch(u) /\ tool = filter /\ hist = <<u>> /\ pos = 1 /\ board = NoBoard /\ shown = <<>>
        /\ renders = <<[mode |-> filter.mode, date |-> filter.date, pool |-> filter.sel.name, boot |-> TRUE]>>
  BY DEF Init
<1>2. filter \in Filters /\ u \in Link
  BY <1>1, Linked, ReadTyped
<1>3. hist \in Seq(Link) /\ Len(hist) = 1
  BY <1>1, <1>2
<1>4. renders \in Seq(Renders) /\ Len(renders) = 1
  <2>1. [mode |-> filter.mode, date |-> filter.date, pool |-> filter.sel.name, boot |-> TRUE] \in Renders
    BY <1>2 DEF Filters, Renders, Views, Names
  <2> QED
    BY <1>1, <2>1
<1>5. board \in Boards /\ ~board.live
  BY <1>1 DEF NoBoard, Boards, Views, Names
<1>6. shown \in Seq(Seq(Rows)) /\ Len(shown) = 0
  BY <1>1
<1>7. seed \in {NoPool} \cup Pools
  <2>1. \A S \in SUBSET Pools : S # {} => Min(S) \in Pools
    BY Amounts, Least
  <2>2. seed = Nearest(filter.date)
    BY <1>1 DEF Init
  <2> QED
    BY <2>1, <2>2 DEF Nearest
<1>8. Counted
  <2>1. left = (IF patient THEN Acts ELSE HastyActs) /\ patient \in BOOLEAN /\ strays = 0
        /\ overlaps = 0 /\ mixed = FALSE
    BY DEF Init
  <2>2. left \in Nat /\ Done = 0
    BY <2>1, PoolsAssumption DEF Done
  <2>3. mixed \in BOOLEAN
    BY <2>1, Zenon
  <2>4. strays + Live + Len(renders) <= 1 + overlaps /\ Len(shown) + Len(renders) <= 1 + Done
    BY <1>4, <1>5, <1>6, <2>1, <2>2 DEF Live
  <2> QED
    BY <2>1, <2>2, <2>3, <2>4 DEF Counted
<1> QED
  BY <1>1, <1>2, <1>3, <1>4, <1>5, <1>6, <1>7, <1>8 DEF TInv, Typed

LEMMA EditTyped == ASSUME TInv, EditToolbar PROVE TInv'
<1>1. PICK next \in Edits : Emit(next)
  BY DEF EditToolbar
<1>2. next \in Filters
  <2>1. \A e \in Days : Monday(e) \in Days
    BY Mondays DEF Days
  <2>2. tool \in Filters
    BY DEF TInv, Typed
  <2>3. \/ \E m \in {"day", "pool"} : next = [tool EXCEPT !.mode = m]
        \/ next = [tool EXCEPT !.lap = ~@]
        \/ \E d \in Days : next = [tool EXCEPT !.date = d]
        \/ \E p \in Pools : next = [tool EXCEPT !.sel = Sel(p)]
    BY <2>1 DEF Edits
  <2>4. CASE \E m \in {"day", "pool"} : next = [tool EXCEPT !.mode = m]
    BY <2>2, <2>4 DEF Filters
  <2>5. CASE next = [tool EXCEPT !.lap = ~@]
    BY <2>2, <2>5 DEF Filters
  <2>6. CASE \E d \in Days : next = [tool EXCEPT !.date = d]
    BY <2>2, <2>6 DEF Filters
  <2>7. CASE \E p \in Pools : next = [tool EXCEPT !.sel = Sel(p)]
    BY <2>2, <2>7 DEF Filters, Sel
  <2> QED
    BY <2>3, <2>4, <2>5, <2>6, <2>7
<1>3. filter' \in Filters /\ tool' = filter' /\ StartRender(filter') /\ SyncUrl(filter')
  BY <1>1, <1>2 DEF Emit, Filters, Sel, TInv, Typed
<1>4. Counted' /\ board' \in Boards /\ shown' \in Seq(Seq(Rows)) /\ renders' \in Seq(Renders)
  BY <1>3, AsksTyped DEF EditToolbar
<1>5. hist' \in Seq(Link) /\ pos' \in 1..Len(hist')
  BY <1>3, SyncTyped DEF TInv
<1> QED
  BY <1>3, <1>4, <1>5 DEF EditToolbar, TInv, Typed

LEMMA WeekTyped == ASSUME TInv, OpenWeek PROVE TInv'
<1>1. filter' \in Filters /\ tool' = filter' /\ StartRender(filter') /\ SyncUrl(filter')
  BY DEF OpenWeek, TInv, Typed, Filters
<1>2. Counted' /\ board' \in Boards /\ shown' \in Seq(Seq(Rows)) /\ renders' \in Seq(Renders)
  BY <1>1, AsksTyped DEF OpenWeek
<1>3. hist' \in Seq(Link) /\ pos' \in 1..Len(hist')
  BY <1>1, SyncTyped DEF TInv
<1> QED
  BY <1>1, <1>2, <1>3 DEF OpenWeek, TInv, Typed

LEMMA BackTyped == ASSUME TInv, PopState PROVE TInv'
<1>1. pos' \in 1..Len(hist) /\ hist[pos'] \in Link
  BY DEF PopState, TInv, Typed
<1>2. filter' \in Filters /\ tool' = filter' /\ StartRender(filter')
  BY <1>1, ReadTyped DEF PopState
<1>3. Counted' /\ board' \in Boards /\ shown' \in Seq(Seq(Rows)) /\ renders' \in Seq(Renders)
  BY <1>2, AsksTyped DEF PopState
<1> QED
  BY <1>1, <1>2, <1>3 DEF PopState, TInv, Typed

LEMMA ClickTyped == ASSUME TInv, ClickRow PROVE TInv'
<1>1. filter' \in Filters
  <2>1. PICK i : filter' = filter \/ (i \in DOMAIN board.rows /\ filter' = [filter EXCEPT !.sel = Chosen(board.rows[i], filter)])
    BY DEF ClickRow
  <2>2. board.rows \in Seq(Rows) /\ filter \in Filters
    BY DEF TInv, Typed, Boards
  <2>3. i \in DOMAIN board.rows => board.rows[i] \in Rows
    BY <2>2
  <2> QED
    BY <2>1, <2>2, <2>3, ChosenTyped
<1>2. UNCHANGED <<tool, hist, pos, board, shown, strays, renders, seed, patient, overlaps, mixed>> /\ left' = left - 1 /\ left > 0
  BY DEF ClickRow, Act, awaited
<1>3. left' \in Nat /\ Done' = Done + 1
  BY <1>2, PoolsAssumption DEF TInv, Counted, Done
<1>4. Len(renders) \in Nat /\ Len(shown) \in Nat /\ Live' = Live /\ Live \in {0, 1}
  BY <1>2 DEF TInv, Typed, Live
<1>5. Counted'
  BY <1>2, <1>3, <1>4 DEF TInv, Counted
<1> QED
  BY <1>1, <1>2, <1>5 DEF TInv, Typed

\* A board is drawn: one answer less is awaited, and one board more is in the host.
LEMMA DrawTyped == ASSUME TInv, AnswerArrives PROVE TInv'
<1>1. PICK i \in DOMAIN renders, ok \in BOOLEAN : Draw(i, ok)
  BY DEF AnswerArrives
<1>2. PICK r, rows : r = renders[i] /\ rows = BoardRows(r, filter, ok)
  OBVIOUS
<1>3. r \in Renders /\ rows \in Seq(Rows)
  <2>1. renders \in Seq(Renders) /\ filter \in Filters
    BY DEF TInv, Typed
  <2>2. r \in Renders
    BY <1>2, <2>1
  <2> QED
    BY <1>2, <2>1, <2>2, BoardRowsTyped
<1>4. filter' \in Filters
  <2>1. PICK k : k = RowToOpen(rows, filter)
    OBVIOUS
  <2>2. filter' = filter \/ (k # 0 /\ filter' = [filter EXCEPT !.sel = Chosen(rows[k], filter)])
    BY <1>1, <1>2, <2>1 DEF Draw
  <2>3. k # 0 => rows[k] \in Rows
    <3>1. Numbered(rows)
      BY <1>3 DEF Numbered
    <3>2. k # 0 => k \in DOMAIN rows
      BY <2>1, <3>1, RowToOpenIs
    <3> QED
      BY <1>3, <3>2
  <2> QED
    BY <2>2, <2>3, ChosenTyped DEF TInv, Typed
<1>5. board' \in Boards /\ board'.live
  <2> DEFINE of == [mode |-> r.mode, date |-> r.date, lap |-> filter.lap,
                    pool |-> IF filter.sel.name # NoPool THEN filter.sel.name ELSE r.pool]
  <2>1. board' = [rows |-> rows, live |-> TRUE, of |-> of]
    BY <1>1, <1>2 DEF Draw
  <2>2. of \in [mode : Views, date : {NoDay} \cup Days, lap : BOOLEAN, pool : Names]
    BY <1>3 DEF Renders, TInv, Typed, Filters, Names
  <2> HIDE DEF of
  <2> QED
    BY <1>3, <2>1, <2>2 DEF Boards
<1>6. shown' \in Seq(Seq(Rows)) /\ Len(shown') = Len(shown) + 1 /\ Len(shown) \in Nat
  <2>1. shown' = Append(shown, rows)
    BY <1>1, <1>2 DEF Draw
  <2> QED
    BY <1>3, <2>1 DEF TInv, Typed
<1>7. renders' \in Seq(Renders) /\ Len(renders') = Len(renders) - 1 /\ Len(renders') \in Nat
  <2>1. renders' = RemoveAt(renders, i)
    BY <1>1 DEF Draw
  <2>2. renders' \in Seq(Renders) /\ Len(renders') = Len(renders) - 1
    BY <2>1, Removed DEF TInv, Typed
  <2> QED
    BY <2>2
<1>8. UNCHANGED <<tool, hist, pos, seed, patient, left, overlaps, mixed>> /\ strays' = strays + Live
  BY <1>1 DEF AnswerArrives, Draw, Live, awaited
<1>9. Counted'
  <2>1. Done' = Done /\ Live' = 1 /\ Live \in {0, 1}
    BY <1>5, <1>8 DEF Done, Live
  <2> QED
    BY <1>6, <1>7, <1>8, <2>1 DEF TInv, Counted
<1> QED
  BY <1>4, <1>5, <1>6, <1>7, <1>8, <1>9 DEF TInv, Typed

LEMMA LostTyped == ASSUME TInv, AnswerLost PROVE TInv'
<1>1. renders' \in Seq(Renders) /\ Len(renders') = Len(renders) - 1 /\ Len(renders') \in Nat
  <2>1. PICK i \in DOMAIN renders : renders' = RemoveAt(renders, i)
    BY DEF AnswerLost
  <2>2. renders' \in Seq(Renders) /\ Len(renders') = Len(renders) - 1
    BY <2>1, Removed DEF TInv, Typed
  <2> QED
    BY <2>2
<1>2. UNCHANGED <<filter, tool, hist, pos, board, shown, strays, seed, patient, left, overlaps, mixed>>
  BY DEF AnswerLost, awaited
<1>3. Done' = Done /\ Live' = Live /\ Live \in {0, 1} /\ Len(shown) \in Nat
  BY <1>2 DEF Done, Live, TInv, Typed
<1>4. Counted'
  BY <1>1, <1>2, <1>3 DEF TInv, Counted
<1> QED
  BY <1>1, <1>2, <1>4 DEF TInv, Typed

LEMMA DetailTyped == ASSUME TInv, DetailArrives \/ DetailLost PROVE TInv'
<1>1. UNCHANGED <<filter, tool, board, shown, strays, renders, seed, patient, left, overlaps, mixed>>
      /\ (UNCHANGED <<hist, pos>> \/ SyncUrl(filter))
  BY DEF DetailArrives, DetailLost, Opened, awaited
<1>2. hist' \in Seq(Link) /\ pos' \in 1..Len(hist')
  BY <1>1, SyncTyped DEF TInv, Typed
<1>3. Counted'
  BY <1>1 DEF TInv, Counted, Done, Live
<1> QED
  BY <1>1, <1>2, <1>3 DEF TInv, Typed

LEMMA TypesStep == ASSUME TInv, [Next]_vars PROVE TInv'
<1>1. CASE UNCHANGED vars
  BY <1>1 DEF vars, awaited, TInv, Typed, Counted, Done, Live
<1> QED
  BY <1>1, EditTyped, WeekTyped, BackTyped, ClickTyped, DrawTyped, LostTyped, DetailTyped DEF Next

\* The page's types, and how far a reader who does not wait can clutter it: no more boards in the host
\* than acts and the first, no more loops nobody can stop than acts (app.ts:572).
THEOREM PageTypes == Spec => []TypeOK
<1>1. TInv /\ PatientInv => TypeOK
  <2> SUFFICES ASSUME TInv, PatientInv PROVE TypeOK
    OBVIOUS
  <2>1. {filter, tool} \subseteq Filters /\ pos \in DOMAIN hist /\ Range(hist) \subseteq Link
    BY DEF TInv, Typed, Range
  <2>2. CASE patient
    <3>1. strays = 0 /\ overlaps = 0 /\ (shown = <<>> \/ shown = <<board.rows>>)
      BY <2>2 DEF PatientInv, Waits, AwaitsBoard, LostBoard, AwaitsDetail, Rests, Gone, Drawn
    <3>2. Len(<<>>) = 0 /\ Len(<<board.rows>>) = 1
      OBVIOUS
    <3>3. HastyActs \in Nat
      BY PoolsAssumption
    <3>4. Len(shown) \in {0, 1}
      BY <3>1, <3>2
    <3>5. Len(shown) <= HastyActs + 1 /\ strays \in 0..HastyActs
      <4>1. PICK n \in {0, 1} : n = Len(shown)
        BY <3>4
      <4>2. n <= HastyActs + 1 /\ 0 \in 0..HastyActs
        BY <3>3
      <4> QED
        BY <3>1, <4>1, <4>2
    <3> QED
      BY <2>1, <3>1, <3>3, <3>5 DEF TypeOK, TInv, Counted
  <2>3. CASE ~patient
    <3>1. Done \in 0..HastyActs
      BY <2>3, PoolsAssumption DEF TInv, Counted, Done
    <3>2. Len(shown) \in Nat /\ Len(renders) \in Nat
      BY DEF TInv, Typed
    <3> QED
      BY <2>1, <3>1, <3>2, PoolsAssumption DEF TypeOK, TInv, Counted
  <2> QED
    BY <2>2, <2>3
<1> QED
  BY <1>1, TypesInitially, TypesStep, Initial, Step, PatientInitially, PatientStep, PTL DEF Spec
-----------------------------------------------------------------------------
(* Any reader. While no two renders overlapped, the board that is awaited or drawn is the filter's: *)
(* a click finds no row while one is awaited, and keeps what the board was made for once it is      *)
(* drawn. What is drawn over another board takes its loop along, which is what Counted counts.      *)

Unmixed ==
    \/ /\ ~board.live /\ shown = <<>>
       /\ \E boot \in BOOLEAN :
            renders = <<[mode |-> filter.mode, date |-> filter.date, pool |-> filter.sel.name, boot |-> boot]>>
    \/ ~board.live /\ shown = <<>> /\ renders = <<>> /\ threw
    \/ Drawn

BoardInv == mixed \/ Unmixed

\* Drawn is kept by what touches the selection as a row does.
LEMMA DrawnStays ==
    ASSUME IsFilter(filter), Drawn, UNCHANGED <<board, shown, renders>>, NEW row,
           filter' = filter \/ filter' = [filter EXCEPT !.sel = Chosen(row, filter)]
    PROVE  Drawn'
<1>1. filter'.mode = filter.mode /\ filter'.date = filter.date /\ filter'.lap = filter.lap
      /\ filter'.sel \in {filter.sel, Chosen(row, filter)}
  BY DEF IsFilter
<1>2. filter.mode = "pool" => board.of.pool \in {NoPool, filter'.sel.name}
  <2>1. filter.mode = "pool" /\ filter.sel.name # NoPool => Chosen(row, filter).name = filter.sel.name
    BY ChoosesOne
  <2> QED
    BY <1>1, <2>1 DEF Drawn
<1> QED
  BY <1>1, <1>2 DEF Drawn

\* An act that asks for the board of the filter it sets.
LEMMA AsksUnmixed == ASSUME StartRender(filter'), board.live \in BOOLEAN, board = [rows |-> board.rows, live |-> board.live, of |-> board.of]
                     PROVE  BoardInv'
<1>1. CASE renders # <<>>
  BY <1>1 DEF StartRender, Overlapped, BoardInv
<1>2. CASE renders = <<>>
  <2>1. renders' = <<[mode |-> filter'.mode, date |-> filter'.date, pool |-> filter'.sel.name, boot |-> FALSE]>>
    BY <1>2 DEF StartRender
  <2>2. ~board'.live /\ shown' = <<>>
    BY DEF StartRender
  <2> QED
    BY <2>1, <2>2 DEF BoardInv, Unmixed
<1> QED
  BY <1>1, <1>2

LEMMA BoardClicked == ASSUME IInv, BoardInv, ClickRow PROVE BoardInv'
<1>1. UNCHANGED <<board, shown, renders, mixed>>
  BY DEF ClickRow, awaited
<1>2. PICK row : filter' = filter \/ filter' = [filter EXCEPT !.sel = Chosen(row, filter)]
  BY DEF ClickRow
<1>3. shown # <<>>
  <2>1. FlattenSeq(<<>>) = <<>> /\ Len(<<>>) = 0
    BY DEF FlattenSeq
  <2> QED
    BY <2>1 DEF ClickRow
<1>4. mixed \/ Drawn
  BY <1>3 DEF BoardInv, Unmixed
<1>5. Drawn => Drawn'
  BY <1>1, <1>2, DrawnStays DEF IInv
<1> QED
  BY <1>1, <1>4, <1>5 DEF BoardInv, Unmixed

LEMMA BoardDrawn == ASSUME IInv, BoardInv, AnswerArrives PROVE BoardInv'
<1> SUFFICES ASSUME ~mixed PROVE Drawn'
  BY DEF AnswerArrives, awaited, BoardInv, Unmixed
<1>1. PICK i \in DOMAIN renders, ok \in BOOLEAN : Draw(i, ok)
  BY DEF AnswerArrives
<1>2. ~board.live /\ shown = <<>>
      /\ \E boot \in BOOLEAN :
           renders = <<[mode |-> filter.mode, date |-> filter.date, pool |-> filter.sel.name, boot |-> boot]>>
  BY <1>1 DEF BoardInv, Unmixed, Drawn
<1>3. PICK r : renders = <<r>> /\ r.mode = filter.mode /\ r.date = filter.date /\ r.pool = filter.sel.name
  BY <1>2
<1>4. i = 1 /\ renders' = <<>> /\ renders[i] = r
  <2>1. i = 1 /\ renders[i] = r
    BY <1>1, <1>3
  <2>2. RemoveAt(renders, 1) = <<>>
    BY <1>3 DEF RemoveAt
  <2> QED
    BY <1>1, <2>1, <2>2 DEF Draw
<1>5. PICK rows : rows = BoardRows(r, filter, ok)
  OBVIOUS
<1>6. board' = [rows |-> rows, live |-> TRUE,
                of |-> [mode |-> filter.mode, date |-> filter.date, lap |-> filter.lap, pool |-> filter.sel.name]]
  BY <1>1, <1>3, <1>4, <1>5 DEF Draw
<1>7. /\ board'.live /\ shown' = <<board'.rows>>
      /\ board'.of.mode = filter.mode /\ board'.of.date = filter.date /\ board'.of.lap = filter.lap
      /\ board'.of.pool = filter.sel.name
  <2>1. shown' = <<rows>>
    BY <1>1, <1>2, <1>4, <1>5 DEF Draw
  <2>2. /\ board'.rows = rows /\ board'.live
        /\ board'.of = [mode |-> filter.mode, date |-> filter.date, lap |-> filter.lap, pool |-> filter.sel.name]
    BY <1>6
  <2>3. /\ board'.of.mode = filter.mode /\ board'.of.date = filter.date /\ board'.of.lap = filter.lap
        /\ board'.of.pool = filter.sel.name
    BY <2>2
  <2> QED
    BY <2>1, <2>2, <2>3
<1>8. PICK row : filter' = filter \/ filter' = [filter EXCEPT !.sel = Chosen(row, filter)]
  BY <1>1 DEF Draw
<1>9. filter'.mode = filter.mode /\ filter'.date = filter.date /\ filter'.lap = filter.lap
      /\ filter'.sel \in {filter.sel, Chosen(row, filter)}
  BY <1>8 DEF IInv, IsFilter
<1>10. filter.mode = "pool" => board'.of.pool \in {NoPool, filter'.sel.name}
  <2>1. filter.mode = "pool" /\ filter.sel.name # NoPool => Chosen(row, filter).name = filter.sel.name
    BY ChoosesOne
  <2> QED
    BY <1>7, <1>9, <2>1
<1> QED
  BY <1>4, <1>7, <1>9, <1>10 DEF Drawn

LEMMA BoardLost == ASSUME BoardInv, AnswerLost PROVE BoardInv'
<1> SUFFICES ASSUME ~mixed PROVE Unmixed'
  BY DEF AnswerLost, awaited, BoardInv
<1>1. PICK i \in DOMAIN renders : renders' = RemoveAt(renders, i)
  BY DEF AnswerLost
<1>2. ~board.live /\ shown = <<>> /\ \E r : renders = <<r>>
  BY <1>1 DEF BoardInv, Unmixed, Drawn
<1>3. renders' = <<>>
  BY <1>1, <1>2 DEF RemoveAt
<1> QED
  BY <1>2, <1>3 DEF AnswerLost, Unmixed

LEMMA BoardInitially == ASSUME Init PROVE BoardInv
<1>1. ~board.live /\ shown = <<>>
  BY DEF Init, NoBoard
<1> QED
  BY <1>1 DEF Init, BoardInv, Unmixed

LEMMA BoardStep == ASSUME IInv, TInv, BoardInv, [Next]_vars PROVE BoardInv'
<1>1. board = [rows |-> board.rows, live |-> board.live, of |-> board.of] /\ board.live \in BOOLEAN
  BY DEF TInv, Typed, Boards
<1>2. CASE EditToolbar
  <2>1. StartRender(filter')
    BY <1>2 DEF EditToolbar, Emit
  <2> QED
    BY <1>1, <2>1, AsksUnmixed
<1>3. CASE OpenWeek \/ PopState
  <2>1. StartRender(filter')
    BY <1>3 DEF OpenWeek, PopState
  <2> QED
    BY <1>1, <2>1, AsksUnmixed
<1>4. CASE DetailArrives \/ DetailLost
  <2>1. UNCHANGED <<board, shown, renders, filter, mixed>> /\ (threw => threw')
    BY <1>4 DEF DetailArrives, DetailLost, awaited
  <2> QED
    BY <2>1 DEF BoardInv, Unmixed, Drawn
<1>5. CASE UNCHANGED vars
  BY <1>5 DEF vars, awaited, BoardInv, Unmixed, Drawn
<1> QED
  BY <1>2, <1>3, <1>4, <1>5, BoardClicked, BoardDrawn, BoardLost DEF Next

\* Whoever acts and whatever is late or lost: a loop is left over only by a render begun while another
\* was awaited, and where the last one was not, a page at rest has one board, made for the filter that
\* is set. A reader who waits finds a panel about the pool that is selected, on a day of that board,
\* and a selection whose id and name are one pool's, but beside the week of every pool (app.ts:338,
\* app.ts:572).
THEOREM ReaderFindsOnePage == Spec => []RestingPage
<1>1. TInv /\ BoardInv => RestingBoard
  BY DEF TInv, Counted, BoardInv, Unmixed, Drawn, RestingBoard, Idle
<1>2. PatientInv => RestingPanel /\ SelectionIsOnePool
  <2> SUFFICES ASSUME PatientInv, patient PROVE RestingPanel /\ SelectionIsOnePool
    BY DEF RestingPanel, SelectionIsOnePool
  <2>1. Waits
    BY DEF PatientInv
  <2>2. Idle => LostBoard \/ Rests
    BY <2>1 DEF Waits, AwaitsBoard, AwaitsDetail, Idle
  <2>3. RestingPanel
    BY <2>2 DEF RestingPanel, LostBoard, Rests, AboutSelected
  <2>4. SelectionIsOnePool
    BY <2>1 DEF SelectionIsOnePool, Waits, OnePool, EveryPool
  <2> QED
    BY <2>3, <2>4
<1> QED
  BY <1>1, <1>2, Initial, Step, PatientInitially, PatientStep, TypesInitially, TypesStep, BoardInitially,
     BoardStep, PTL DEF Spec, RestingPage
-----------------------------------------------------------------------------
(* A selection is kept. The row that opens itself is the selected pool's wherever its board has one, *)
(* and the board of a day lists every pool that is open or shut: all but those the restriction hides. *)

\* Two of different places do not rank alike.
LEMMA RankedApart ==
    ASSUME NEW S, IsFiniteSet(S), NEW place \in [S -> Nat], \A p, q \in S : place[p] = place[q] => p = q,
           NEW p \in S, NEW q \in S, Rank(S, place, p) = Rank(S, place, q)
    PROVE  p = q
<1> DEFINE upTo(x) == {y \in S : place[y] <= place[x]}
<1>1. ASSUME NEW a \in S, NEW b \in S, place[a] < place[b]
      PROVE  Cardinality(upTo(a)) < Cardinality(upTo(b))
  <2>1. IsFiniteSet(upTo(b)) /\ upTo(a) \subseteq upTo(b) /\ upTo(a) # upTo(b)
    <3>1. b \in upTo(b) /\ b \notin upTo(a)
      BY <1>1
    <3>2. upTo(b) \subseteq S
      OBVIOUS
    <3>3. IsFiniteSet(upTo(b))
      BY <3>2, FS_Subset
    <3>4. upTo(a) \subseteq upTo(b)
      BY <1>1
    <3> QED
      BY <3>1, <3>3, <3>4
  <2> HIDE DEF upTo
  <2>2. Cardinality(upTo(a)) < Cardinality(upTo(b))
    <3>1. /\ IsFiniteSet(upTo(a)) /\ Cardinality(upTo(a)) \in Nat /\ Cardinality(upTo(b)) \in Nat
          /\ Cardinality(upTo(a)) <= Cardinality(upTo(b))
          /\ Cardinality(upTo(a)) = Cardinality(upTo(b)) => upTo(a) = upTo(b)
      BY <2>1, FS_Subset, FS_CardinalityType
    <3> QED
      BY <2>1, <3>1
  <2> QED
    BY <2>2
<1>2. Cardinality(upTo(p)) = Cardinality(upTo(q)) /\ Cardinality(upTo(p)) \in Nat
  <2>1. upTo(p) \subseteq S
    OBVIOUS
  <2> QED
    BY <2>1, FS_Subset, FS_CardinalityType DEF Rank
<1>3. place[p] \in Nat /\ place[q] \in Nat
  OBVIOUS
<1>4. ~(place[p] < place[q]) /\ ~(place[q] < place[p])
  <2> HIDE DEF upTo
  <2>1. Cardinality(upTo(p)) \in Nat /\ Cardinality(upTo(q)) \in Nat
    BY <1>2
  <2> QED
    BY <1>1, <1>2, <2>1
<1> QED
  BY <1>3, <1>4

LEMMA DayListsPool ==
    ASSUME NEW d \in Days, NEW lap \in BOOLEAN, NEW p \in Pools, Open(p, d, lap) \/ Shut(p, d)
    PROVE  \E i \in DOMAIN DayRows(d, lap) : DayRows(d, lap)[i].pool = p
<1> DEFINE listed == {q \in Pools : Open(q, d, lap) \/ Shut(q, d)}
           place(q) == IF Open(q, d, lap) THEN q ELSE Len(Programme) + q
           places == [q \in listed |-> place(q)]
           at(i) == CHOOSE x \in listed : Cardinality({q \in listed : place(q) <= place(x)}) = i
           rank(x) == Cardinality({q \in listed : place(q) <= place(x)})
<1>1. IsFiniteSet(listed) /\ Cardinality(listed) \in Nat /\ listed \subseteq 1..Len(Programme) /\ Len(Programme) \in Nat
  BY Amounts, FS_Subset, FS_CardinalityType, PoolsAssumption
<1>2. places \in [listed -> Nat] /\ \A x, y \in listed : places[x] = places[y] => x = y
  BY <1>1
<1>3. p \in listed
  OBVIOUS
<1>4. \A x \in listed : Rank(listed, places, x) = rank(x)
  BY DEF Rank
<1>5. rank(p) \in 1..Cardinality(listed)
  <2> DEFINE below == {q \in listed : place(q) <= place(p)}
  <2>1. below \subseteq listed /\ p \in below
    BY <1>1, <1>3
  <2> HIDE DEF below, listed, place
  <2>2. IsFiniteSet(below) /\ Cardinality(below) \in Nat /\ Cardinality(below) <= Cardinality(listed)
    BY <1>1, <2>1, FS_Subset, FS_CardinalityType
  <2>3. Cardinality(below) # 0
    BY <2>1, <2>2, FS_EmptySet
  <2>4. Cardinality(below) \in 1..Cardinality(listed)
    BY <1>1, <2>2, <2>3
  <2> QED
    BY <2>4 DEF below
<1>6. at(rank(p)) = p
  <2>1. \E x \in listed : rank(x) = rank(p)
    BY <1>3
  <2>2. PICK it : it = at(rank(p))
    OBVIOUS
  <2>3. it \in listed /\ rank(it) = rank(p)
    <3> HIDE DEF listed, place
    <3> QED
      BY <2>1, <2>2
  <2>4. Rank(listed, places, it) = Rank(listed, places, p)
    BY <1>3, <1>4, <2>3
  <2>5. it = p
    <3> HIDE DEF listed, places, at, rank
    <3> QED
      BY <1>1, <1>2, <1>3, <2>3, <2>4, RankedApart
  <2> QED
    BY <2>2, <2>5
<1>7. DayRows(d, lap) = [i \in 1..Cardinality(listed) |-> [pool |-> at(i), day |-> NoDay, open |-> Open(at(i), d, lap)]]
  BY DEF DayRows
<1> HIDE DEF listed, at, rank
<1> QED
  BY <1>5, <1>6, <1>7

LEMMA OwnRowOpens ==
    ASSUME NEW rows, NEW f, Numbered(rows), Len(rows) \in Nat, f.mode = "day", f.sel.name # NoPool,
           \E i \in DOMAIN rows : rows[i].pool = f.sel.name
    PROVE  RowToOpen(rows, f) \in DOMAIN rows /\ rows[RowToOpen(rows, f)].pool = f.sel.name
<1> DEFINE own == {i \in DOMAIN rows : rows[i].pool = f.sel.name}
<1>1. RowToOpen(rows, f) = Min(own)
  BY DEF RowToOpen
<1>2. own \in SUBSET Nat /\ own # {}
  BY DEF Numbered
<1>3. Min(own) \in own
  <2> HIDE DEF own
  <2> QED
    BY <1>2, Least
<1> QED
  BY <1>1, <1>3

LEMMA DrawKeeps ==
    ASSUME TInv, AnswerArrives, filter.sel.name \in Pools, filter'.sel.name # filter.sel.name
    PROVE  filter.mode = "day" /\ filter.lap /\ Programme[filter.sel.name][board'.of.date] = "fun"
<1>1. PICK i \in DOMAIN renders, ok \in BOOLEAN : Draw(i, ok)
  BY DEF AnswerArrives
<1>2. PICK r, rows : r = renders[i] /\ rows = BoardRows(r, filter, ok)
  OBVIOUS
<1>3. filter \in Filters /\ r \in Renders /\ rows \in Seq(Rows)
  <2>1. renders \in Seq(Renders) /\ filter \in Filters
    BY DEF TInv, Typed
  <2>2. r \in Renders
    BY <1>2, <2>1
  <2> QED
    BY <1>2, <2>1, <2>2, BoardRowsTyped
<1>4. PICK k : k = RowToOpen(rows, filter)
  OBVIOUS
<1>5. k # 0 /\ filter' = [filter EXCEPT !.sel = Chosen(rows[k], filter)]
  BY <1>1, <1>2, <1>4 DEF Draw
<1>6. filter'.sel.name = Chosen(rows[k], filter).name
  BY <1>3, <1>5 DEF Filters
<1>7. filter.sel.name # NoPool /\ filter.mode \in {"day", "pool"} /\ filter.lap \in BOOLEAN /\ filter.sel.name \in 1..Len(Programme)
  BY <1>3, PoolsAssumption DEF Filters, NoPool
<1>8. filter.mode = "day"
  BY <1>6, <1>7, ChoosesOne
<1>9. Numbered(rows) /\ Len(rows) \in Nat
  BY <1>3 DEF Numbered
<1>10. k \in DOMAIN rows
  BY <1>4, <1>5, <1>9, RowToOpenIs
<1>11. rows = DayRows(r.date, filter.lap)
  <2>1. rows # <<>>
    BY <1>10
  <2> QED
    BY <1>2, <1>8, <2>1 DEF BoardRows
<1>12. rows[k].pool # filter.sel.name
  <2>1. rows[k].pool = filter.sel.name => Chosen(rows[k], filter).name = filter.sel.name
    BY <1>7, <1>8 DEF Chosen, RowFacilityName
  <2> QED
    BY <1>6, <2>1
<1>13. ~(\E j \in DOMAIN rows : rows[j].pool = filter.sel.name)
  BY <1>4, <1>7, <1>8, <1>9, <1>12, OwnRowOpens
<1>14. r.date \in Days
  BY <1>3 DEF Renders
<1>15. ~Open(filter.sel.name, r.date, filter.lap) /\ ~Shut(filter.sel.name, r.date)
  BY <1>7, <1>11, <1>13, <1>14, DayListsPool
<1>16. Programme[filter.sel.name][r.date] \in {"lap", "fun", "shut"}
  <2>1. Programme[filter.sel.name] \in [Days -> {"lap", "fun", "shut"}]
    BY <1>7, PoolsAssumption
  <2> QED
    BY <1>14, <2>1
<1>17. board'.of.date = r.date
  BY <1>1, <1>2 DEF Draw
<1> QED
  BY <1>7, <1>8, <1>15, <1>16, <1>17 DEF Open, Shut

\* For any pools, programme, reader and order of answers: what is drawn takes a selected pool from
\* nobody, but in a day whose rows the restriction to lap swimming has rid of it (app.ts:431).
THEOREM SelectionIsKept == Spec => SelectionKept
<1> DEFINE Keeps == left' = left /\ filter.sel.name \in Pools /\ filter'.sel.name # filter.sel.name =>
                      filter.mode = "day" /\ filter.lap /\ Programme[filter.sel.name][board'.of.date] = "fun"
<1>1. ASSUME TInv, [Next]_vars PROVE Keeps
  <2>1. Act => left' # left
    BY DEF Act, TInv, Counted
  <2>2. CASE EditToolbar \/ ClickRow \/ OpenWeek \/ PopState
    BY <2>1, <2>2 DEF EditToolbar, ClickRow, OpenWeek, PopState
  <2>3. CASE AnswerLost \/ DetailArrives \/ DetailLost \/ UNCHANGED vars
    BY <2>3 DEF AnswerLost, DetailArrives, DetailLost, vars
  <2>4. CASE AnswerArrives
    BY <1>1, <2>4, DrawKeeps
  <2> QED
    BY <1>1, <2>2, <2>3, <2>4 DEF Next
<1>2. SelectionKept <=> [][Keeps]_vars
  BY DEF SelectionKept
<1> HIDE DEF Keeps
<1> QED
  BY <1>1, <1>2, TypesInitially, TypesStep, PTL DEF Spec
=============================================================================
