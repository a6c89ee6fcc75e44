# Swimming in Zürich: models, checks and proofs

This directory is a verification development of the repository: TLA+ modules that model its
stateful parts, TLC configurations that check them on small instances, and TLAPS proofs of the
properties that matter most for every instance. Paths below are relative to the repository.

## The system

A Python pipeline fetches the city's pages and feeds, keeps what each source said as a *silver*
document in a *lake*, and builds one *gold* SQLite store from them. A web application and an iOS
application read exports of that store; the phone also fetches newer stores by itself, and asks a
live feed for water temperatures.

| component | state it keeps | operations | what makes it correct |
|---|---|---|---|
| refresh policy (`etl/refresh.py`) | none; decides over the lake's document | reuse, fetch, keep stale, abort | bounded staleness, healing, nothing lost on failure |
| HTTP client, disk cache (`core/http.py`, `core/httpcache.py`) | stored responses and their ages | get with retries; USE, REFRESH, OFF | a replay is never older than its TTL |
| lake (`storage/lake.py`, `storage/atomic.py`) | one document per source | read, write, mark_stale, pull, export | whole-file atomicity; headers that tell the age |
| gold build (`cli.py`) | the live store | build, scrape-gold, scrape-lanes | all or nothing; honest exit codes |
| domain (`domain/`) | none | resolve a day, admit a person, price a ticket, read a lane plan, answer a query | which rule decides a day; every pool answered once; nothing assumed of a visitor |
| roster, scrape, composition (`etl/`, `build/`) | none | read every page a roster names, resolve names, fold scraped over authored | a fact lands on its pool or is reported; nothing dropped unsaid |
| page and sheet parsers (`providers/`) | none | rows and words to rules, prices, rentals, lane plans | what is printed is what is served |
| phone: `StoreHost` (`Refresh.swift`) | the installed file, the open connection | store, refresh, install | one file, one connection; forward only |
| phone: `TodayModel` | the store in use, filters, the rows on screen | load, refresh, checkForUpdates, place choice | late answers lose; controls agree |
| phone: `LocationSource` | permission, preference, fix | locate, refreshIfUsing, stopUsing | no prompt unasked; a wait ends |
| phone: `LiveClient` | one snapshot of the feed | temperature | nothing old on screen; failures heal |
| phone: kit algorithms (`Eligibility`, `LanePlan`, `ListModel`, ...) | none | pure functions | agree with the server's answers |
| server: `BaditickerProvider` (`providers/baditicker.py`) | one snapshot of the feed and its stamp, shared by request threads | read | old is said to be old; the window bounds the cache |
| web API (`apps/web`) | an open gold store | GET handlers | stateless but for the provider above |
| web board (`app.ts` and blocks) | filter, address bar and history, board, panel | render, toolbar edits, row clicks, Back | the address tells the page; the board shows the filter's answer |

How they interact. The gold build calls the refresh policy once per source, in the order roster,
prices, schedules, lane plans; the policy reads and writes the lake and calls a provider, which
asks `HttpClient`, which asks the cache, which asks the network. The publish workflow uploads a
store and a manifest. On the phone `TodayModel` (main actor) holds a `Store` it got from
`StoreHost` (an actor), which alone may exchange the file under it; views start tasks and
scene-phase callbacks that all run between any two awaits of another. `LiveClient` is an actor of
its own.

What is hard. Runs that are killed half way; errors that are cached; documents of different ages
in one build; actors that are reentrant at every `await`; a file exchanged under an open
connection; an answer that comes after the question was replaced; releases published in the
middle of a download; a satellite that never answers; two renders of one page in flight; two threads
over two fields without a lock; and, where
nothing runs concurrently, documents written by people: a blank cell, a heading in the wrong place,
a name that two pools share. `PROJECT.json` lists these as hazards, each
at its line.

## The modules

| module | what it models | how it corresponds |
|---|---|---|
| `RefreshPolicy` | `refresh_source`'s decisions and the error taxonomy | operators without state, used by the next three |
| `SilverLedger` | what the lake promises (abstract) | renew, keep, grow older: nothing else happens to a document |
| `SilverRefresh` | one source, one run after another | `StartFetch`..`Settle` are `refresh_source`; `Take` is `HttpClient.get`; `CacheHit` and `Ask` are `DiskCacheTransport`; `Killed` is the process dying |
| `GoldBuild`, `MCGoldBuild` | `cli.build` and its exit codes | one action per phase; a source's whole run is one step (`SilverRefresh` is its inside) |
| `StoreSwap`, `MCStoreSwap` | `StoreHost` and the part of `TodayModel` that uses it | three tasks (launch, check, reader), one program point per `await`; a connection by the file it reads and whether the host still remembers it, which is all the host can close |
| `PlaceChoice` | `TodayModel`'s place entry points over `LocationSource` | one `await` only, so one action per entry point and one per way a wait ends |
| `LiveClient` | `LiveClient.snapshot` and the re-asking sheets | `StartRead` and `FinishRead` are the two sides of the actor's `await` |
| `Ordering` | the orders and half-open times the Python code takes from its language | `sorted`, comprehensions with a condition, `max`, `next`, with their tie rules: a list is told by the places its elements are taken from |
| `Access` | `access.py`, `pricing.py` | one operator per arm of `SessionAccess` |
| `LanePlans` | `lane_plan.py` | split, timeline, lane strips, best time and roster of a plan |
| `SwimDay` | `resolver.py` over schedule, calendar, closures and holidays; `query.py` | the layers in their order, then one answer per pool and the two orders of the board |
| `Belegungsplan` | `providers/belegungsplan.py` | words at places on a page to reservations, one basin or two |
| `Timetables` | `providers/schedule_scraper.py` | rows and sections of a page to rules |
| `PageFacts` | `price_scraper.py`, `mietobjekt.py`, `operator_pages.py`, `planschbecken.py` | tables and prose to facts |
| `PoolFold` | `etl/catalog.py`, `build/seed.py`, `reconcile.py`, `compose.py` | roster ids, aliases, resolution, the fold |
| `LaneBinding` | `page_provider.py`, `etl/lane_plans.py`, `etl/silver.py` | links, sheets, sections, bindings, and what is reported |
| `Sources` | `etl/scrape.py`, `etl/roster.py`, `geo_sport.py` | which page is read for whom, and the account of each |
| `SwimRequests` | what may be stored of a pool, asked of the store, printed of its lanes and its pages, and read for its roster | one step from a request (a day, a visitor, a ticket, a part of the year, a lane phase, a scrape, a page alone, a timetable) to its answer, by the operators of `SwimDay`, `Access`, `LaneBinding`, `Sources`, `PageFacts` and `Timetables` |
| `MCDomain`, `MCSources`, `MCSheets`, `MCDocuments` | | values for `SwimRequests`: a small store, its visitors, lane sheets, a roster, its pages and timetables; what a build folds; printed lane sheets; all of them in one run: one step from a request to its answer |
| `Baditicker`, `MCBaditicker` | `BaditickerProvider` and the request that reads it | one action per statement of `_snapshot` that touches a shared field, and one for the fetch |
| `WebBoard`, `MCWebBoard` | `app.ts`'s `main()`, `toolbar.ts`, `urlstate.ts`, `appdata.ts` | one action per handler; `AnswerArrives` and `DetailArrives` are the code after the two awaits |
| `SilverRefreshProofs`, `GoldBuildProofs`, `StoreSwapProofs`, `PlaceChoiceProofs`, `LiveClientProofs`, `WebBoardProofs`, `BaditickerProofs`, `DomainProofs` | theorems about the module named (`DomainProofs`: `SwimRequests`, hence `SwimDay`, `Access`, `LaneBinding`, `Sources`, `PageFacts` and `Timetables`) | |
| `DomainTerms` | the words `DomainProofs` states its lemmas in: what it is for one list to be made of another, and what a scrape accounts for | |

How they compose. `GoldBuild` takes a source's whole run as one step, `SilverRefresh` is its inside,
and both answer to `SilverLedger`. `Sources` reads the pages of a roster by the operators of
`PageFacts`; `MCSources` asks `PoolFold`; `MCSheets` reads what `Belegungsplan` makes of
a sheet with `LanePlans`, as a query does; `SwimRequests` asks `SwimDay`, whose sessions are split by
`LanePlans` too, `LaneBinding`, `Sources`, `PageFacts` and `Timetables`; `MCDocuments` asks all of them in one run. `StoreSwap`'s publisher is the end of that
pipeline.

`SilverRefresh` and `GoldBuild` both implement `SilverLedger` (`LedgerKept`, by `INSTANCE ...
WITH`): the one keeps its promise from inside a run, over cache and retries; the other for four
sources at a time, whatever aborts the build.

Two modelling choices recur. Time is the *age* of things, growing by `Tick` and stopping at a cap
above every limit the code compares with, so that the state is finite although time is not. And
data are abstracted to what the properties tell apart: a page's answer is one of six outcomes, a
document its status, its header's age and the true age of its bytes (which no code keeps, and
which is the point), a store file its build number and whether it can be read, a cell of a table
the things it names, a word of a lane sheet its place and its digit.

## The runs

| run | bounds | shows |
|---|---|---|
| `SilverCached` | 2 pages, 2 attempts, cache TTL 2, max_stale 2, one kill, every cache mode in any order, lost cache writes | served bytes are no older than max_stale plus one cache TTL; a header understates by less than one cache TTL; payloads never go back while the cache gets every answer; failures keep the facts; a run past the cache heals at once, any run in the end; the ledger is implemented |
| `GoldBuildPhases` | ages 0..2 for each of 4 sources, every cadence, aborts and kills in every phase, a pull between runs of documents that are fresh, stale or too old | the live store changes only as a whole; never built on too-old facts; exit 0 means fresh; a forced scrape of timetables is priced from tariffs as new as the prices row; nothing is renewed but by a run or a pull |
| `StoreSwap` | builds 0 to 2, the bundled one 1, one relaunch, every kind of file found installed and of upload, update checks beside the launch, swaps that throw | what is installed is only ever replaced by a readable and newer store; in a process that was not `torn`, at rest the model reads the installed file through an open connection and shows it, late answers lose, and the phone ends up current |
| `PlaceRaces` | 2 named places, 3 fixes a process | only a return to the foreground can part the place list from the distances; a device place is dated; no dialog unasked; every wait ends |
| `LiveSheets` | 2 sheets, TTL 2, timeout 1 | nothing on screen is older than TTL plus timeout; a cached failure or a clock set back heals |
| `Documents` | three pools, four dates (a term Monday, a holiday Monday, a public holiday, a year the calendar does not know), two lanes and four half hours a day, ages 0, 15, 16, 65, three price bands, windows over twelve months; catalogues of two to three pools with clashing names, two pages and a shared overview, a sheet of two sections, rows of three, prose of four tokens | every pool in reach is answered once; closures win; unvouched holidays are said; options and statuses agree on the geography; sheets read back as printed; segments, strips, "public until" and best time are readings of one plan; nobody is guessed at or undercharged; facts land at home or are reported; no plan, page or hole is dropped unsaid; provenance is honest; printed sessions, rates, rentals and shutdowns are what is served |
| `Baditicker` | two threads, a window of two intervals, a fetch of one, eight bodies of the feed (every cell empty once, a bath twice, every malformed one) | a live answer is the last row of its bath in a legible feed, its age and its empty cells are told; a cached answer is younger than the window and one fetch, unless another thread stored between two loads |
| `WebBoard` | two pools, two weeks of two days, four acts of a reader who waits and two of one who does not | the address bar describes the page at every moment; no Back is idle; no more loops are left over than renders were begun over another, and a page at rest whose last render was awaited alone has one board, of the filter set; a reader who waits finds a panel about the pool selected; what is drawn replaces a selected pool only where the lap restriction hides it |

Why the bounds are enough. Two pages are what an order of failures, or a run half answered from
the cache, needs; two attempts what a retry that meets its own stored error needs; one kill per
behaviour may fall anywhere. Three ages per source (inside the TTL, keepable, too old) are all
that `GoldBuild`'s comparisons tell apart; `AgeCap` reaches `MaxStale + CacheTtl` in
`SilverRefresh` for the same reason. Builds in `StoreSwap` are numbered: the bundled store is 1, what an
earlier binary left may be 0, the manifest names 1 at first and 2 later, so that a release can appear
between a manifest and its payload; the
proofs are for any number of builds. Nothing bounds the connections: one is told from another only
by its file and by whether the host remembers it. The network comes and goes where it is asked
something, and an hour passes where no check runs; at other moments either would be noticed by nobody.
In `LiveClient` a tick is the re-ask
interval of 60 s, the TTL of 120 s is two of them, and a timeout of 10 s is rounded up to one.

The properties of the run over documents, and `RestingPage` of `WebBoard`, are conjunctions of
named parts, each stated beside the operators it is about (`DaysDecided` of `ClosuresWin`,
`HolidaysVouched` and `WindowsWrap`, `BoardAnswered` of `EachPoolOnce` and `BoardRanked`, and so on);
`PROJECT.json` has a mutant of the code for each part. `TypeOK` of every module with a state is proved; those of `WebBoard` and `StoreSwap` are checked
by a run too.

The run over documents enumerates every request the `...Asks` sets of `SwimRequests` (with the values
of `MCDomain`), `MCSources` and `MCSheets` name, each a state of its own: what matters there is that the sets hold the shapes people print (a second session on a blank
day cell, a label at 24.00, a digit out of its column or between the header and the first slot, seven days that print one
lane of two, hours with a weekday behind them, an alias that is another pool's name), not
that they are long. Two pools and two weeks are what a wrong selection and a wrong Monday need;
four acts reach a pool, a week, the next week and Back, and two acts of a
hasty reader are three renders at once, of which two leave a board behind each.

`StoreSwap`'s `MCDiskAtStart` includes a readable store older than the bundled one: the state
after an update of the application.

Assumptions. The fault switches `DiskFaults` (a cache write may fail) and `EnvTypos` have their values in the runs. `StoreSwap` assumes no order of launch
and check and no disk that works: an observer, `torn`, is set when a process exchanges the file
before its launch has read the store, or when an exchange throws, and three properties speak of
the other processes. It is sticky until the process dies, because what such a process holds is not
mended before (next section). `WebBoard` has two observers: `overlaps` counts the renders begun while another
was awaited, and `mixed` says that the last one was.
`PayloadNeverGoesBack` is stated up to the first good answer that went past the cache (the observer
`bypassed`: an OFF run, or a cache write that failed), since from there older bytes may return; the
age bounds do not depend on it and are proved for every mode.

Fairness. Suspended tasks are resumed and a started run goes on (weak fairness: the event loop,
the Swift executors). Runs are started for ever by a schedule or a person, between other runs, so
starting one and time passing are only *repeatedly* enabled: strong fairness. A reader who types
without pause may replace every question but does not stop the main actor from showing an answer
(strong fairness of `Show`). A satellite promises nothing: in `PlaceChoice` only the twelve-second
deadline is fair. The feed, the city and the network are never assumed to come back; the liveness
properties begin with "once it stays up". `WebBoard`, `Baditicker` and the run over
documents assume none.

### What the code does not keep

Four runs check a sentence of the repository that the code does not keep, and end in the
counterexample (`findings` in `PROJECT.json` quotes each sentence):

* `SilverHealViolated`: a stored 5xx is replayed to a run that starts after the source is back.
* `PlaceForegroundViolated`: a return to the foreground installs a fix the reader turned away from.
* `ConnectionsViolated`: `StoreHost.store()` is reentrant at `adoptable`. A check started beside the
  launch (`TodayView.swift:86`) opens a second connection, the host remembers one of the two, and
  the exchange leaves the other open on the old file, where `Refresh.swift:26` has every one closed.
* `WebChosenViolated`: the toolbar's snapshot of the filter puts the default pool over the one that
  was clicked.

Others are stated in the modules and checked by no run; name the property in the run's `.cfg` to see
the counterexample:

* `QuietIsCurrent` and `ScreenNeverGoesBack` without `~torn` (`StoreSwap`): where the exchange came before the
  launch's read, the launch may take its own connection to the old file over the new one, and answers
  from it until the process ends. Where the exchange throws, the store in use is closed under the
  model, which keeps it: `Refresh.swift:394` says of every failure that "the store in use is untouched".
* `SelectionNeverReplaced` (`WebBoard`): `app.ts:429` says that a pool out of range stays selected, "never
  silently cleared". With the restriction to lap swimming on, a selected pool that has none that day has no
  row; the nearest plannable row opens itself, and opening a row selects its pool. `SelectionKept`, which
  the run checks, says that this is the only way.
* `WeekIsOfPanel` (`WebBoard`): `app.ts:263` says of the panel's week button that the selected pool "is
  already the clicked pool"; an edit whose board is lost takes the selection back and leaves the panel
  with its button, and the week drawn is the one of the toolbar's own selection, or of every pool.
* `NewestChoiceWins` (`PlaceRaces`): a return to the foreground during the wait loses the choice.
* `OneFetch` (`LiveSheets`): two sheets opened at once are two fetches. It costs a request and nothing
  else: `ShownNeverOld` holds nevertheless.
* `SaunaKeptOutAlways` (`Documents`): of a section of several tables only the first is under its
  heading; the others count as nobody's in particular, and so as the pool's.
* `WholePoolsOutOfSeason`, `UnfilledColumnsCounted` (`Documents`): a pool is called out of season
  for the last of its basins; a plan may call itself complete although a lane printed beside "Bahnen"
  has no owner on some weekday, if the days print different numbers of lanes (`belegungsplan.py:589`).
  Where they all print equally few, the missing ones are counted: `ShortSheetsPartial`.
* Without a property: `query.py:8` says that an empty answer is never ambiguous, but a dated exception
  that is open and names no session (the default of `ScheduleException.sessions`) leaves its pool
  with neither an option nor a status (`resolver.py:112`). `EachPoolOnce` names that exception, and
  `Documents` meets it.
* `NoOrphanedLoop` (`WebBoard`): two renders that overlap at `app.ts:572-577` leave the first one's
  board behind, its loop running. `RestingPage` bounds how many: one at most by each overlap.

Noticed while modelling, without a property of their own.

In the pipeline: `Refreshed.fetched` is set by a run that was
answered wholly from the cache (`refresh.py:127` against `:66`); a page that will not parse behind
one that failed transiently is a stale keep where the table of
`docs/concepts/lake-silver-layer.md` says abort (`cli.py:334`); a fresh, merely *reused* schedules
document can carry tariffs older than the prices row with exit 0, where the same page (79-80) has
exit 2 make it visible; a misspelt `SWIMZH_CACHE` ends with exit 2, the code of a shippable stale
store (`cli.py:1040`).

In the documents: a "Feiertage" row with its own weekday cell is carried onto the weekday before it,
against the docstring at `schedule_scraper.py:364-369`; a blank line among the hours moves the
categories beside it; a shared name resolves to the first pool that has it (`reconcile.py:150`), and
an alias of the registry can take another pool's page; of three pools of one name where one is called
"... 2", two get the same id; bindings with and without a section on one sheet leave the one without
silent; `lane_plans.py` takes a sheet linked from any pool's page for one linked from its own; a
locker whose fee is not stated is free of charge; an operator's shutdown across New Year that prints
one year has the other dropped.

In the clients: `LocationSource.fixedAt` is stamped also by a fix nobody installs
(`LocationSource.swift:160`); on the web page a click on an older board is answered with the newer
board's rows, a past Monday reached by the week stepper is
read back as today, a slug no pool has together with a failed week answer names the selection by a
weekday, Back resets the place, and `popstate` is never listened to if the first request throws.

On the server: the two fields of `BaditickerProvider` are loaded one after the other
(`baditicker.py:203`). `Baditicker` lets another thread store between the loads, and then an old map
is served under a new stamp; `ServedWithinTtl` says so (`local[t] = cached`). CPython with its global
lock does not switch threads between those two loads; a free-threaded build may. A burst of reads,
which `baditicker.py:163` says "collapses to a single fetch", is one fetch per thread that finds the
snapshot expired, and a slow fetch may overwrite a newer one; neither serves past the window.

## What is proved

TLAPS checks the following for every value of the constants that the modules' named assumptions
allow, so for any number of pages, sheets, places and any TTLs; TLC evaluates the assumptions.

* `SilverRefreshProofs`: `TypeCorrect`, `BoundedStaleness`, `HonestHeader`, `PayloadForward`,
  `NothingLost`, `UncachedHeals`, `RefreshKeepsLedger`. The bound on served
  bytes is not inductive by itself. The invariant adds where the bytes come from: a cache entry is
  younger than the cache TTL, hence so is the oldest byte a run has parsed, hence a header written
  from it understates by less than that TTL; and a mark or a reuse keeps the difference. With the
  policy's comparison against `MaxStale` the bound follows. That a payload never goes back needs one
  more relation, of every cache entry to the document: as long as the cache gets every answer, no
  entry is older than the document's bytes, and none that a run has used is older than the oldest
  byte it has parsed. That an uncached run heals needs that while every page is up no failure is
  noted, through retries; then the policy has nothing to keep. `RefreshKeepsLedger` is the refinement:
  initial states map to initial states, and each of a run's steps renews the document, keeps it
  with its bytes, lets it grow older, or maps to a stutter.
* `GoldBuildProofs`: `TypeCorrect`, `NothingTooOld`, `ExitZeroTold`, `AllOrNothing`,
  `TariffsTogether`, `BuildKeepsLedger`. The invariant says which sources are behind the build at each phase, that
  their gathered headers are the lake's, and that none is past its `MaxStale`; between runs nothing
  is held, so a pull of any documents disturbs none of it. `BuildKeepsLedger` is the refinement:
  initial states map to initial states, every step to a ledger step, a pull, or none.
* `StoreSwapProofs`: `TypeCorrect` and `InstallsForward`, also when checks overlap the launch and swaps
  throw. That the refresh decision compares builds is not enough, since the connection it asks may
  be an old one. The invariant is a choice of two: nothing has been installed under the open
  connections, and they read the file a new process would choose; or the installed file is one that
  was published, and no later manifest names an older one. A download is then newer than the file
  in place, or is that file.
  `RestShowsTheStore` and `ScreenForward` rest on `SpecQInv`, an invariant of the whole hand-over in a
  process that is not `torn`: the host's connection reads the file a new
  process would choose, and is closed exactly while that file is about to be exchanged; whoever is about to
  read through a connection has an open one on that file, the host's or a second one beside it; the model
  holds such a one, or is about to get it, or holds one closed for the exchange; an answer that will be
  shown is no older than the screen, and the newest
  question is put to an open connection on that file. None of these holds without the others, since
  each is what a step of another task relies on. A second connection does no harm before an exchange
  that comes after the launch's read: it is on the same file, and the reload that follows the exchange
  replaces whichever the model held.
* `PlaceChoiceProofs`: `TypeCorrect`, `DevicePlaceDated`, `NeverPromptsUnasked`,
  `ControlsNeverPart`. Invariants: a held fix is dated and of this process, and implies that the
  permission question has been answered; a ticket still current belongs to a reader who wants the
  phone's position. The last is what a return to the foreground respects and yet is not enough for
  it, which is `PlaceForegroundViolated`.
* `LiveClientProofs`: `TypeCorrect`, `ScreensStayYoung`. The invariant ties three ages: a
  snapshot's stamp never makes its bytes look younger than they are (unless it lies in the future
  and is unusable), and a shown reading is bounded by what its sheet has done since: it re-asks
  each interval, and may wait for one timeout.
* `WebBoardProofs`: `PageTypes`, `AddressTellsPage`, `StepsAreSteps`, `ReaderFindsOnePage`,
  `SelectionIsKept`, for any pools, programme and number of acts, with answers in any order or lost. `PageTypes` needs how the
  strays, the boards and the renders in flight count the acts so far, and of the ranking that every
  row of a day has exactly one place (`Ranked`). `RoundTrip` is the lemma they rest on: writing a filter and
  reading it back gives the view, the restriction and the day; a step that leaves the address alone
  may change the selection only. `ReaderFindsOnePage` needs where a visit can stand: a reader who
  waits awaits the board of the filter that is set, or has lost it, or awaits the detail of the pool
  just selected, or rests; and the selection an act starts from is one pool's even beside the week of
  every pool, because the toolbar never takes a clicked selection over and the panel offers the
  week only beside the board of a day. The attempt corrected the property: a week of every pool,
  which is drawn when the panel's button is used after a lost answer or when no pool has a session
  on the first day, has rows whose first pool differs from day to day, so a click there may select
  the id of one and the name of none. `SelectionIsOnePool` names that exception, and the run's
  programme varies within a week so that TLC meets it. Its half about any reader needs `Unmixed`: while no
  render was begun over another, what is awaited or drawn is the filter's, because a click finds no
  row while a board is awaited and touches the selection only. `SelectionIsKept` needs that the board of a
  day lists every pool that is open or shut (`DayListsPool`, by the ranks again), so that a selected pool
  without a row is one whose lap swimming is missing that day.
* `BaditickerProofs`: `TypeCorrect`, `StampHonest`, `Served`, `TemperaturesTold`, for any threads, feeds, windows and
  fetch times. Two threads may leave one's readings under the other's stamp; the invariant bounds how
  far they differ: a thread that still has to stamp has fetched within `Patience`, and so has whoever
  stored beside it. For the readings themselves: the readings after any number of rows are the last
  entry of each bath among them (`Climbing`: what holds of none and of one more holds of any number),
  and every snapshot, stored or answered, is tied to the one body of the feed it was made of.
* `DomainProofs`, for every store, query, calendar, visitor, tariff, lane sheet, roster and page:
  * `EveryPoolAnswersOnce`, `ClosuresDecide`, `HolidaysSpokenFor`, `BoardKeepsTheMap`, about
    `find_swim_options` on any lists of facilities and of the roster;
  * `NobodyIsGuessed`, `NobodyIsUndercharged`, `WindowsWrapAnyYear`, about a visitor, a ticket and a part
    of the year;
  * `DaysAreDecided`, `BoardsAnswer`, `VisitorsAreTaken`: from these, `DaysDecided`, `BoardAnswered` and
    `VisitorsTaken` of the specification `SwimRequests`. The inductive invariant (`AnswersTheAsk`) is
    that a request never changes and that an answer is what the code's functions make of it.

  * `LanesAreKept`, from `LanesAreOwn`, `PlansAreAccountedFor` and `NoHoleIsSilent`, about the lane phase
    on any declared basins, linking pages and sheets;
  * `ScrapesAreAccounted`, from `RostersAreWhole`, `PagesAreReadOnce`, `DriftIsNoted` and
    `ShutdownsAreOwn`, about a scrape of any roster and any pages;
  * `PagesAreServed`, from `RatesAreOfSections`, `RowsAreKept`, `ClosuresAreAnnounced` and
    `BlurbsAreUnread`, about one page of any tables, prose and sentences;
  * `TimetablesAreServed`, from `SessionsAreKept`, `WeatherIsSaid` and `SaunaIsKeptOut`, about a weekly
    or a seasonal table of any rows and a page of any sections.

  The assumptions are the shapes of what is stored, asked and read: `StoresAssumption` (one pool of an
  id, the primary key of its table), `VisitorsAssumption` (for every age that is printed there is a
  visitor who has reached it), `YearAssumption`, `LanesAssumption` (one basin of a pool and an id; what
  a sheet is read as is a list of sections), `PagesAssumption` (a feature's URL is a site, absent or the
  text "NULL"; a repaired site is a site; tables, prose and sentences are lists, a heading is a text and
  an amount a number, which may be zero, or does not decode; a timetable's day cell names weekdays or
  is blank, a span in it has two ends, and a cell of hours holds no blank line: the code drops those from
  the hours and not from the offers, and no page in the repository has one), `RepairsAssumption` and `RegisteredAssumption` (no repair
  makes or mends a URL that is absent; the registered overviews are finitely many URLs). A
  board is a list that was resolved, kept, flattened and sorted
  twice. The lemmas say of each such list which places its elements come from, that none is taken
  twice and none is lost; where that needs induction over the list, a least counterexample among
  the places stands for it. On top of them `Speaks` says who speaks for a pool: its options, the one
  status of its facility, or the one status of its row of the roster; the theorems follow by cases on
  which of them is there.

  For the lane phase: a basin that declares its sheet has one binding, a binding of a section takes
  the one section of that sheet that holds its words, and so a plan is one basin's or, kept by none,
  named among the unbound; a basin left without one is traced to the page that failed, the sheet that
  was not linked, or the section that was not found or not alone. The attempt corrected the property
  about a second basin of one sheet: a section whose words are all blank is part of every heading, so
  such a declaration keeps nobody's plan out (`OwnPlansOnly` names it, and the run declares one).

  For the scrape: the account is two lists, one of the pools' own pages and one of the shared pages.
  Each is a flattened list of which every place belongs to one page (`Spots`); a page is read all or
  not at all, so that the readings and the account of a phase are counted by one bijection, and the
  two phases are apart because a shared page is seen twice in the roster or is registered. A shutdown
  is traced back from the reading to the banner or the printed range on the page of its own pool, and
  forward, through `FirstSeen`, from the range to a closure of the same dates: that the list is
  ascending and each date once needs that a sorted list of a set has one place for every member
  (`Ascending`, by the rank of each). The properties are stated of pools that share a name: they
  count the roster's places, not its names.

  For a page alone: the heading that `_sectioned` carries down a tariff is a function of the number of
  rows read, so a listed row has the heading of the last blank row above it (`Climbing` again), and the
  two rates are rows of one table, each under its own heading. The rentals are the labelled rows, kept,
  turned and parted in two: a bijection of places keeps the count of every row. A closure is a forward
  range in the window around a keyword; each window is drawn with all its ranges, the first of a pair
  of dates is kept, and two stable sorts keep what they order. The season is the first sentence
  outside the accordions that states one.

  For a timetable: the code carries the weekdays down the rows, and pairs hours and offers by their
  places among the lines that read as hours; the property looks up from a row for the day, and beside
  a line or above it for the offer. They meet in the last row that names a day (`DaysCarried`), in the offer
  beside a line (`OffersBeside`) and in a span walked day by day until its end, past Sunday or not
  (`SpansWrap`). For the sauna: the page is the sections' tokens end to end, so that a place of the
  page is a section and a place in it, in that order (`PagePrinted`); counted by two bijections, as many
  sections are open at a token as have opened before it less those closed (`DepthInside`), hence the
  bound of a table is where its own section closes (`BoundIsItsEnd`) and the nearest heading since the
  bound of the table before is that section's own, or none (`HeadingIsItsOwn`). The proof
  asked for a hypothesis the run's pages had met unnoticed: a table without a heading must not
  follow a section that has a heading and no table, whose heading is then the nearest
  (`SectionsApart`).

Where the order of a list matters and no library theorem serves, two devices recur. A property of every
place of a list is proved of the least place that lacks it; a count is compared through a bijection of
places. Both are the induction that the provers cannot be given, for those lists whose elements can
be told from their places.

Only model-checked:

* `FactsKept`, `SheetsReadBack`: the sheet's parser and the fold carry values along facts, words and pages (`FoldLeft`, whose definition is recursive and
  lies in a library module): what such a fold has collected at the end of any document needs
  its equation, step by step, and the theorems that would give it take an operator as a parameter.
* `PlansReadAlike`: the spans and runs of a plan are collected the same way, and so is what the bounds of
  its segments are sorted by.
* `HealsEventually`, `EventuallyCurrent`, `WaitEnds`, `FailureHeals`: liveness under fairness, and
  `ENABLED`, are out of the prover's reach.

Every other property of the passing runs is a theorem. No module declares a `RECURSIVE` operator.

## Not modelled

* The phone kit's algorithms (`Eligibility.swift`, `LanePlan.swift`, `Pricing.swift` and the like) are
  twins of `Access`, `LanePlans` and `SwimDay` in another language. The repository replays generated
  fixtures of the server's answers against them; a second model of the same rules would say nothing
  the first does not.
* Codecs, DTO mappings, the phone's export and the gold repository: conversions between
  representations, one writer into a staging file. What matters of them is the swap, which is in
  `GoldBuild`.
* Formatting, layout, rows and canvases of the phone and of the web page, generated tables: no state,
  and what could be wrong is how they look. Regular expressions, HTML and PDF below the parsers:
  the modules begin where words are words.
* The web API: stateless reads of one finished file, besides the live temperature (`Baditicker`).
* The steps of the publish workflow, which run one after another on one machine; its effects are
  `StoreSwap`'s publisher and `GoldBuild`'s `Pull`. Other workflows, scripts and release tooling.
