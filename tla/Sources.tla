------------------------------- MODULE Sources -------------------------------
(***************************************************************************)
(* Which pages a build reads for which pool, and what one read leaves      *)
(* behind (etl/scrape.py): a pool's own page for its timetable and facts,  *)
(* a shared overview once for all its members; and the roster they are     *)
(* chosen from (providers/geo_sport.py, etl/roster.py).                    *)
(*                                                                         *)
(* A WFS value is 0 if absent; Null is the text the service prints for it. *)
(***************************************************************************)
EXTENDS PageFacts

Absent == 0
Null == 99               \* the string "NULL"

-----------------------------------------------------------------------------
(* The roster's layers                                                     *)

AbsentIfNull(value) == IF value = Null THEN Absent ELSE value

(* _normalize_roster_url: a URL of the broken host is repaired, any other  *)
(* is left as it is.                                                       *)
CONSTANT Repairs         \* the repaired form of each URL that needs it
ASSUME RepairsAssumption ==
  /\ Null \notin DOMAIN Repairs /\ Absent \notin DOMAIN Repairs
  /\ \A url \in DOMAIN Repairs : Repairs[url] \notin {Null, Absent}
NormalizeRosterUrl(url) == IF url \in DOMAIN Repairs THEN Repairs[url] ELSE url

(* _to_geo_pool: the name alone is never absent.                           *)
ToGeoPool(feature, kind) ==
  [name |-> feature.name, kind |-> kind, poi |-> AbsentIfNull(feature.poi),
   address |-> AbsentIfNull(feature.address), url |-> NormalizeRosterUrl(AbsentIfNull(feature.url)),
   prose |-> AbsentIfNull(feature.prose), id |-> feature.id]

LayerPools(layer) == Mapped(layer.features, LAMBDA f : ToGeoPool(f, layer.kind))

(* Mutant of FetchAllPools: a layer that fails is left out.                *)
FetchAllPoolsPartial(layers) ==
  Read(FlattenSeq(Mapped(Kept(layers, LAMBDA l : l.ok), LayerPools)))

(* fetch_all_pools, fetch_roster: all layers or none.                      *)
FetchAllPools(layers) ==
  IF \E l \in Range(layers) : ~l.ok THEN Refusal ELSE Read(FlattenSeq(Mapped(layers, LayerPools)))

-----------------------------------------------------------------------------
(* The sources of a roster                                                 *)

ScrapeableKinds == {"indoor", "thermal", "school", "outdoor", "lake", "river"}
CONSTANTS Unparseable,   \* the pools of _UNPARSEABLE_OPERATOR_PAGES
          OwnOperator,   \* the pools of _OPERATOR_CLOSURES
          Registered     \* the URLs of _SHARED_PAGE_PARSERS
ASSUME RegisteredAssumption == Registered \in SUBSET (Nat \ {Absent}) /\ IsFiniteSet(Registered)

(* Counter(e.url for e in catalog)                                         *)
Seen(roster, url) == Cardinality({i \in DOMAIN roster : roster[i].url = url})

Sharers(roster, url) == Kept(roster, LAMBDA e : e.url = url)

Scrapeable(entry) == entry.kind \in ScrapeableKinds /\ entry.id \notin Unparseable /\ entry.url # Absent

(* Mutant of DeclaredSources: a shared page is a page like any other.      *)
DeclaredSourcesShared(roster) == Kept(roster, Scrapeable)

DeclaredSources(roster) == Kept(roster, LAMBDA e : Scrapeable(e) /\ Seen(roster, e.url) = 1)

SharedUrls(roster) == Ascending({u \in Registered : Seen(roster, u) > 1})

(* admission_for: the link to the tariff first, the page's own sentence    *)
(* second; the kind decides the rate.                                      *)
AdmissionFor(entry, page) ==
  IF page.tariff THEN [kind |-> "tariff", rate |-> IF entry.kind = "school" THEN "school" ELSE "general"]
  ELSE [kind |-> IF page.gratis THEN "free" ELSE "unknown", rate |-> "none"]

(* Mutant of Closures: an operator's page has no banners.                  *)
ClosuresEither(entry, page) ==
  IF entry.id \in OwnOperator THEN ParseMaintenanceClosures(page.prose)
  ELSE ClosuresFromNotices(ParseNotices(page.banners))

(* The two kinds of announcement add up.                                   *)
Closures(entry, page) ==
  ClosuresFromNotices(ParseNotices(page.banners))
    \o (IF entry.id \in OwnOperator THEN ParseMaintenanceClosures(page.prose) ELSE <<>>)

(* _aspects: one basin, with the page's timetable.                         *)
PageAspectsOf(entry, page) ==
  [name |-> entry.name, rules |-> page.rules, admission |-> AdmissionFor(entry, page),
   closures |-> Closures(entry, page), mieten |-> ParseMietobjekte(page.mieten).value,
   season |-> NoMonths]

(* A page that can be fetched, has a timetable and no garbled table.       *)
PageReads(page) == page.ok /\ page.rules # Blank /\ ParseMietobjekte(page.mieten).ok

NotesOf(entry, page) ==
  IF AdmissionFor(entry, page).kind = "unknown" THEN {<<"no tariff stated", entry.id>>}
  ELSE IF page.tariff /\ page.gratis THEN {<<"contradiction", entry.id>>} ELSE {}

(* scrape_declared_sources                                                 *)
ScrapeDeclaredSources(roster, pages) ==
  LET sources == DeclaredSources(roster)
      read == Kept(sources, LAMBDA e : PageReads(pages[e.url]))
  IN [extracts |-> Mapped(read, LAMBDA e : PageAspectsOf(e, pages[e.url])),
      failures |-> Mapped(Kept(sources, LAMBDA e : ~PageReads(pages[e.url])), LAMBDA e : e.url),
      notes |-> UNION {NotesOf(e, pages[e.url]) : e \in Range(read)},
      fetched |-> Mapped(sources, LAMBDA e : e.url)]

SharedFacts(page) == IF page.ok THEN ParsePlanschbecken(page.sentences) ELSE Refusal

(* _shared_aspects: what the page says of them all, and nothing of one.    *)
SharedAspects(entry, facts) ==
  [name |-> entry.name, rules |-> Blank, admission |-> [kind |-> facts.admission, rate |-> "none"],
   closures |-> <<>>, mieten |-> [lockers |-> <<>>, rentals |-> <<>>], season |-> facts.season]

FannedOut(roster, url, pages) ==
  Mapped(Sharers(roster, url), LAMBDA e : SharedAspects(e, SharedFacts(pages[url]).value))

(* Mutant of ScrapeSharedSources: the page is read once per member.        *)
ScrapeSharedSourcesEach(roster, pages) ==
  LET urls == Mapped(Kept(roster, LAMBDA e : e.url \in Registered /\ Seen(roster, e.url) > 1), LAMBDA e : e.url)
      read == Kept(urls, LAMBDA u : SharedFacts(pages[u]).ok)
  IN [extracts |-> FlattenSeq(Mapped(SharedUrls(roster), LAMBDA u : FannedOut(roster, u, pages))),
      failures |-> Kept(urls, LAMBDA u : ~SharedFacts(pages[u]).ok), notes |-> {}, fetched |-> urls]

(* scrape_shared_sources: a page without its members is noted, one that    *)
(* fails is one failure.                                                   *)
ScrapeSharedSources(roster, pages) ==
  LET urls == SharedUrls(roster)
      read == Kept(urls, LAMBDA u : SharedFacts(pages[u]).ok)
  IN [extracts |-> FlattenSeq(Mapped(read, LAMBDA u : FannedOut(roster, u, pages))),
      failures |-> Kept(urls, LAMBDA u : ~SharedFacts(pages[u]).ok),
      notes |-> {<<"inert", u>> : u \in {r \in Registered : Seen(roster, r) < 2}}
                \cup {<<"no admission stated", u>> :
                        u \in {r \in Range(read) : SharedFacts(pages[r]).value.admission = "unknown"}},
      fetched |-> urls]

(* The scrape of a build: the roster or its refusal, then both phases.     *)
Scrape(layers, pages) ==
  LET pools == FetchAllPools(layers)
  IN IF ~pools.ok THEN Refusal
     ELSE LET declared == ScrapeDeclaredSources(pools.value, pages)
              shared == ScrapeSharedSources(pools.value, pages)
          IN Read([extracts |-> declared.extracts \o shared.extracts,
                   failures |-> declared.failures \o shared.failures,
                   notes |-> declared.notes \cup shared.notes,
                   fetched |-> declared.fetched \o shared.fetched])

-----------------------------------------------------------------------------
(* What the scrape promises.                                               *)

(* No category of pools is missing from a roster, and no text of the       *)
(* service's null is taken for a fact (geo_sport.py:210, :77).             *)
WholeRoster(layers, result) ==
  /\ result.ok <=> \A l \in Range(layers) : l.ok
  /\ result.ok =>
       /\ \A l \in Range(layers) : \A f \in Range(l.features) :
            \E p \in Range(result.value) : p.name = f.name /\ p.kind = l.kind
       /\ \A p \in Range(result.value) : Null \notin {p.poi, p.address, p.url, p.prose}

(* One reading per page and one account per page: no page is fetched       *)
(* twice, a fetched page either fails once or leaves one extract for each  *)
(* pool that has it, and no other pool is told anything (scrape.py:346,    *)
(* :387).                                                                  *)
PagesReadOnce(layers, result) ==
  result.ok =>
    LET scrape == result.value
        roster == FetchAllPools(layers).value
        reads == Range(scrape.fetched) \ Range(scrape.failures)
    IN /\ IsInjective(scrape.fetched)
       /\ IsInjective(scrape.failures)
       /\ Range(scrape.failures) \subseteq Range(scrape.fetched)
       /\ \A name \in {e.name : e \in Range(roster)} \cup {x.name : x \in Range(scrape.extracts)} :
            Cardinality({k \in DOMAIN scrape.extracts : scrape.extracts[k].name = name}) =
              Cardinality({i \in DOMAIN roster : roster[i].name = name /\ roster[i].url \in reads})

(* No hole without a trace: a page that would have been read, had the      *)
(* drifting roster not changed who shares it, is noted, and so is a pool   *)
(* that ends up without an admission (scrape.py:143, :401).                *)
DriftNoted(layers, result) ==
  result.ok =>
    LET scrape == result.value
        roster == FetchAllPools(layers).value
    IN /\ \A u \in Registered : u \notin Range(scrape.fetched) => <<"inert", u>> \in scrape.notes
       /\ \A x \in Range(scrape.extracts) : x.admission.kind = "unknown" =>
            \E e \in Range(roster) :
              /\ e.name = x.name
              /\ {<<"no tariff stated", e.id>>, <<"no admission stated", e.url>>} \cap scrape.notes # {}

(* A closure a page's banners announce, or its operator's prose.           *)
Announced(closure, page) ==
  \/ \E b \in Range(page.banners) : b.from = closure.start /\ b.to = closure.end
  \/ \E r \in Range(page.prose) : r.is = "range" /\ Start(r) = closure.start /\ End(r) = closure.end

(* A shutdown of a pool is announced by its own page alone, and everything *)
(* the banners of its own page announce arrives (scrape.py:299).           *)
ShutdownsArrive(layers, pages, result) ==
  result.ok =>
    LET roster == FetchAllPools(layers).value
    IN \A x \in Range(result.value.extracts) :
         \E e \in Range(roster) :
           /\ e.name = x.name
           /\ \A c \in Range(x.closures) : Announced(c, pages[e.url])
           /\ Seen(roster, e.url) = 1 =>
                \A b \in Range(pages[e.url].banners) :
                  Closing(b) => \E c \in Range(x.closures) : c.start = b.from /\ c.end = b.to
=============================================================================
