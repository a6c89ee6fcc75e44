------------------------------ MODULE PageFacts ------------------------------
(***************************************************************************)
(* What a city or operator page states beside its timetable: the tariff    *)
(* (providers/price_scraper.py), what is rented out (mietobjekt.py), the   *)
(* shutdowns announced in prose (operator_pages.py, the notices of         *)
(* schedule_scraper.py) and the paddling pools' season (planschbecken.py). *)
(* Markup is abstracted: a table is its rows, a cell its clauses, prose    *)
(* the sequence of what it names.                                          *)
(***************************************************************************)
EXTENDS Ordering, FiniteSets

Refusal == [ok |-> FALSE]
Read(value) == [ok |-> TRUE, value |-> value]
Garbled == -1            \* a cell or an attribute that does not decode
Blank == -2              \* an empty cell, an absent number
NoMonths == <<>>         \* a sentence that states no season

-----------------------------------------------------------------------------
(* The tariff: a table is [bounds, rows], the ages its three columns print *)
(* and rows of [label, cells].                                             *)

SchoolSection == "eintritte schulschwimmanlagen"
SingleEntry == "einzeleintritt"
NoSection == "none"
HasPrices(row) == \E i \in 1..3 : row.cells[i] # Blank

(* _sectioned: a row of blank cells heads the section below it.            *)
Sectioned(rows) ==
  LET Under(read, row) ==
        IF HasPrices(row) THEN [read EXCEPT !.out = Append(@, [section |-> read.section, row |-> row])]
        ELSE [read EXCEPT !.section = row.label]
      upTo[n \in 0..Len(rows)] ==
        IF n = 0 THEN [section |-> NoSection, out |-> <<>>] ELSE Under(upTo[n - 1], rows[n])
  IN upTo[Len(rows)].out

(* _single_entry_row: the first of exactly this section.                   *)
SingleEntryRow(rows, section) ==
  LET found == FirstThat(Sectioned(rows),
                         LAMBDA r : r.section = section /\ r.row.label = SingleEntry, Refusal)
  IN IF found = Refusal THEN Refusal ELSE found.row

(* Mutant of TariffTable: each rate from the first table that prints it.   *)
TariffTableEach(tables) ==
  LET With(section) == FirstThat(tables, LAMBDA t : SingleEntryRow(t.rows, section) # Refusal, Refusal)
      general == With(NoSection)
      school == With(SchoolSection)
  IN IF general = Refusal \/ school = Refusal THEN Refusal
     ELSE Read([bounds |-> general.bounds, general |-> SingleEntryRow(general.rows, NoSection),
                school |-> SingleEntryRow(school.rows, SchoolSection)])

(* _tariff_table: the first table that prints both rates.                  *)
TariffTable(tables) ==
  LET table == FirstThat(tables, LAMBDA t : /\ SingleEntryRow(t.rows, NoSection) # Refusal
                                            /\ SingleEntryRow(t.rows, SchoolSection) # Refusal, Refusal)
  IN IF table = Refusal THEN Refusal
     ELSE Read([bounds |-> table.bounds, general |-> SingleEntryRow(table.rows, NoSection),
                school |-> SingleEntryRow(table.rows, SchoolSection)])

(* _price_table: an amount without its age, or an age without its amount,  *)
(* is no price.                                                            *)
Priceable(bounds, row) == \A i \in 1..3 : row.cells[i] \notin {Blank, Garbled} /\ bounds[i] # Blank
PriceTable(bounds, row) == [i \in 1..3 |-> [amount |-> row.cells[i], minAge |-> bounds[i]]]

ParsePrices(tables) ==
  LET found == TariffTable(tables)
  IN IF ~found.ok THEN Refusal
     ELSE LET t == found.value
          IN IF Priceable(t.bounds, t.general) /\ Priceable(t.bounds, t.school)
               THEN Read([general |-> PriceTable(t.bounds, t.general),
                          school |-> PriceTable(t.bounds, t.school)])
               ELSE Refusal

-----------------------------------------------------------------------------
(* Lockers and rentals: a row is [noun, suffix, cell], a cell a sequence   *)
(* of clauses [is "fr" or "depot" or "gratis" or "words", amount].         *)

Amounts(cell, is) == Kept(cell, LAMBDA c : c.is = is)
FirstAmount(cell, is) == IF Amounts(cell, is) = <<>> THEN Blank ELSE Amounts(cell, is)[1].amount

(* RentalFee: so much, nothing, or nothing said.                           *)
Fee(kind, amount) == [kind |-> kind, amount |-> amount]
FeeStated(amount, cell) ==
  CASE amount # Blank -> Fee("priced", amount)
    [] amount = Blank /\ cell # <<>> /\ cell[1].is = "gratis" -> Fee("gratis", Blank)
    [] OTHER -> Fee("unstated", Blank)

(* Mutant of Cost: a deposit is money too.                                 *)
CostAnyAmount(cell) ==
  LET money == SelectSeq(cell, LAMBDA c : c.is \in {"fr", "depot"})
  IN IF \E c \in Range(money) : c.amount = Garbled THEN Refusal
     ELSE Read([fee |-> FeeStated(IF money = <<>> THEN Blank ELSE money[1].amount, cell),
                deposit |-> FirstAmount(cell, "depot")])

(* _cost: the first amount that is no deposit, else gratis if the cell     *)
(* opens with it, else nothing stated.                                     *)
Cost(cell) ==
  IF \E c \in Range(cell) : c.is \in {"fr", "depot"} /\ c.amount = Garbled THEN Refusal
  ELSE Read([fee |-> FeeStated(FirstAmount(cell, "fr"), cell), deposit |-> FirstAmount(cell, "depot")])

LockerNouns == {"garderobenkasten", "monatskasten", "wertsachenfach"}
RentalNouns == {"badetuch", "monatskabine"}
TermNouns == {"monatskasten", "monatskabine"}     \* the noun carries the rental term

(* _split_label, _locker and _rental: the term a label states; an unknown  *)
(* noun's suffix is no term.                                               *)
Period(row) ==
  IF row.noun \notin LockerNouns \cup RentalNouns THEN "none"
  ELSE IF row.suffix # "none" THEN row.suffix
  ELSE IF row.noun \in TermNouns THEN "monat" ELSE "none"

(* _fee_chf: a locker without an amount is free.                           *)
FeeOf(row) ==
  LET fee == Cost(row.cell).value.fee
  IN IF row.noun \in LockerNouns /\ fee.kind # "priced" THEN Fee("free", Blank) ELSE fee

Item(row) ==
  [noun |-> IF row.noun \in LockerNouns \cup RentalNouns THEN row.noun ELSE "other",
   fee |-> FeeOf(row), deposit |-> Cost(row.cell).value.deposit, period |-> Period(row), raw |-> row]

(* parse_mietobjekte: every labelled row of every such table, or a refusal *)
(* if one table or one price cannot be read.                               *)
ParseMietobjekte(tables) ==
  LET rows == Kept(FlattenSeq(Mapped(tables, LAMBDA t : t.rows)), LAMBDA r : r.noun # "none")
  IN IF \E t \in Range(tables) : ~t.decodes THEN Refusal
     ELSE IF \E r \in Range(rows) : ~Cost(r.cell).ok THEN Refusal
     ELSE Read([lockers |-> Mapped(Kept(rows, LAMBDA r : r.noun \in LockerNouns), Item),
                rentals |-> Mapped(Kept(rows, LAMBDA r : r.noun \notin LockerNouns), Item)])

-----------------------------------------------------------------------------
(* Shutdowns: prose is a sequence of tokens, a keyword "revision" or       *)
(* "betriebsferien", a printed range or something else; a date is          *)
(* 10 * year + day of the year.                                            *)

CONSTANT Reach          \* _WINDOW, in tokens
ASSUME ReachAssumption == Reach \in Nat

Keywords == {"revision", "betriebsferien"}
Around(at, prose) == {j \in DOMAIN prose : at - Reach <= j /\ j <= at + Reach}

(* The year printed at the end governs the start too, unless it prints one. *)
Start(range) == 10 * (IF range.year1 # Blank THEN range.year1 ELSE range.year2) + range.day1
End(range) == 10 * range.year2 + range.day2

(* Mutant of Windows: the whole page is one window.                        *)
WindowsWhole(prose) ==
  IF \E i \in DOMAIN prose : prose[i].is \in Keywords THEN <<DOMAIN prose>> ELSE <<>>

(* _windows: those of the one keyword, then those of the other.            *)
Windows(prose) ==
  LET At(word) == Kept([i \in DOMAIN prose |-> i], LAMBDA i : prose[i].is = word)
  IN Mapped(At("revision") \o At("betriebsferien"), LAMBDA i : Around(i, prose))

(* A backward range is none.                                               *)
Forward(token) == token.is = "range" /\ Start(token) <= End(token)

Reason(window, prose) ==
  IF \E j \in window : prose[j].is = "betriebsferien" THEN "betriebsferien" ELSE "revision"

RangesIn(window, prose) ==
  Mapped(Kept(Ascending(window), LAMBDA i : Forward(prose[i])),
         LAMBDA i : [start |-> Start(prose[i]), end |-> End(prose[i]), reason |-> Reason(window, prose)])

(* parse_maintenance_closures: the ranges in a window, each once under its *)
(* first window's reason, oldest first.                                    *)
ParseMaintenanceClosures(prose) ==
  LET all == FlattenSeq(Mapped(Windows(prose), LAMBDA window : RangesIn(window, prose)))
  IN SortedBy(SortedBy(FirstSeen(all, LAMBDA c : <<c.start, c.end>>), LAMBDA c : c.end), LAMBDA c : c.start)

(* parse_notices: the banners with a text, each once.                      *)
ParseNotices(banners) ==
  FirstSeen(Kept(banners, LAMBDA b : b.text # "none"), LAMBDA b : b)

(* _closures_from_notices: those that speak of a closure and bound it.     *)
Closing(notice) == notice.text = "geschlossen" /\ notice.from # Blank /\ notice.to # Blank

ClosuresFromNotices(notices) ==
  Mapped(Kept(notices, Closing), LAMBDA n : [start |-> n.from, end |-> n.to, reason |-> n.text])

-----------------------------------------------------------------------------
(* The paddling pools' page: sentences, some inside a pool's accordion.    *)

(* Mutant of PageLevel: the accordions are read too.                       *)
PageLevelAll(sentences) == sentences

PageLevel(sentences) == Kept(sentences, LAMBDA s : ~s.inItem)

(* parse_planschbecken: the first season sentence, with its own weather.   *)
ParsePlanschbecken(sentences) ==
  LET text == PageLevel(sentences)
      season == FirstThat(text, LAMBDA s : s.months # NoMonths, Refusal)
  IN IF season = Refusal THEN Refusal
     ELSE Read([season |-> season.months,
                weather |-> IF season.weather THEN "fair_only" ELSE "any",
                admission |-> IF \E s \in Range(text) : s.free THEN "free" ELSE "unknown"])

-----------------------------------------------------------------------------
(* What the pages' readings promise.                                       *)

(* A school pool is never charged the other rate: both rates come from one *)
(* printed table, the school's from below its own heading, the general     *)
(* from above every heading, every amount under the age of its column      *)
(* (price_scraper.py:269, :210).                                           *)
RatesFromTheirSections(tables, result) ==
  LET HeadingOf(rows, i) ==
        LET heads == {j \in 1..i : \A c \in 1..3 : rows[j].cells[c] = Blank}
        IN IF heads = {} THEN NoSection ELSE rows[CHOOSE j \in heads : \A k \in heads : k <= j].label
      Printed(t, i, section, table) ==
        /\ t.rows[i].label = SingleEntry /\ HasPrices(t.rows[i]) /\ HeadingOf(t.rows, i) = section
        /\ \A c \in 1..3 : table[c] = [amount |-> t.rows[i].cells[c], minAge |-> t.bounds[c]]
  IN result.ok =>
       \E t \in Range(tables) : \E i, j \in DOMAIN t.rows :
         /\ Printed(t, i, NoSection, result.value.general)
         /\ Printed(t, j, SchoolSection, result.value.school)

(* Nothing rented out is dropped or made up: every labelled row is one     *)
(* locker or one rental, a deposit is never its fee, and free is said only *)
(* of what prints no fee; the page is refused only for an unreadable table *)
(* or amount (mietobjekt.py:28, :43).                                      *)
RowsKept(tables, result) ==
  LET rows == FlattenSeq(Mapped(tables, LAMBDA t : t.rows))
      labelled == {i \in DOMAIN rows : rows[i].noun # "none"}
  IN IF result.ok
       THEN LET items == result.value.lockers \o result.value.rentals
            IN /\ Len(items) = Cardinality(labelled)
               /\ \A row \in {rows[i] : i \in labelled} :
                    Cardinality({k \in DOMAIN items : items[k].raw = row})
                      = Cardinality({i \in labelled : rows[i] = row})
               /\ \A x \in Range(items) :
                    /\ x.fee.kind = "priced" <=> \E c \in Range(x.raw.cell) : c.is = "fr"
                    /\ x.fee.kind = "priced" =>
                         \E c \in Range(x.raw.cell) : c.is = "fr" /\ c.amount = x.fee.amount
                    /\ x.fee.kind = "gratis" => \E c \in Range(x.raw.cell) : c.is = "gratis"
       ELSE \/ \E t \in Range(tables) : ~t.decodes
            \/ \E i \in labelled : \E c \in Range(rows[i].cell) : c.amount = Garbled

(* A date range is a closure only near a maintenance keyword, and every    *)
(* such range that runs forward is one, once, in order                     *)
(* (operator_pages.py:16, :106).                                           *)
ClosuresAnnounced(prose, closures) ==
  LET Near(i) == \E k \in DOMAIN prose : prose[k].is \in Keywords /\ k - i \in (-Reach)..Reach
      announced == {<<Start(prose[i]), End(prose[i])>> :
                      i \in {j \in DOMAIN prose : /\ prose[j].is = "range" /\ Near(j)
                                                  /\ Start(prose[j]) <= End(prose[j])}}
  IN /\ {<<c.start, c.end>> : c \in Range(closures)} = announced
     /\ Len(closures) = Cardinality(announced)
     /\ \A i \in 1..(Len(closures) - 1) : closures[i].start <= closures[i + 1].start
     /\ \A c \in Range(closures) : \E i \in DOMAIN prose : prose[i].is = c.reason

(* Thirteen pools are told only what the page says of them all: a pool's   *)
(* own blurb neither supplies nor spoils a fact (planschbecken.py:10).     *)
BlurbsUnread(sentences, result) ==
  LET general == {s \in Range(sentences) : ~s.inItem}
  IN /\ result.ok <=> \E s \in general : s.months # NoMonths
     /\ result.ok =>
          /\ (result.value.admission = "free" <=> \E s \in general : s.free)
          /\ \E s \in general : /\ s.months = result.value.season
                                /\ s.weather <=> result.value.weather = "fair_only"
=============================================================================
