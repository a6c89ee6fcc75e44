------------------------------ MODULE PoolFold ------------------------------
(***************************************************************************)
(* One facility per pool: the roster's ids (etl/catalog.py), the identity  *)
(* spine with its aliases (build/seed.py), the resolution of a provider's  *)
(* references (build/reconcile.py) and the merge of what was authored with *)
(* what was scraped (build/compose.py).                                    *)
(*                                                                         *)
(* A name is [norm, slug], what normalize() and slug() make of it; 0 is an *)
(* absent value, of any kind.                                              *)
(***************************************************************************)
EXTENDS Ordering, FiniteSets

Aspects == {"admission", "closures", "notices", "geo", "features", "lockers", "rentals",
            "public_holiday_policy", "last_admission_before", "operating_season"}
NoFacts == [a \in Aspects |-> 0]
NoPhysical == [kind |-> "other", dimensions |-> 0, lanes |-> 0, temp |-> 0, platforms |-> 0]

(* The first of those that share a key.                                    *)
FirstByKey(s, Key(_)) ==
  FoldLeft(LAMBDA kept, x : IF \E i \in DOMAIN kept : Key(kept[i]) = Key(x)
                              THEN kept ELSE Append(kept, x), <<>>, s)

-----------------------------------------------------------------------------
(* The roster                                                              *)

Numbered(slug, n) == 10 * slug + n

(* build_catalog: the nth pool of one slug gets the number n.              *)
BuildCatalog(geoPools) ==
  [i \in DOMAIN geoPools |->
     LET slug == geoPools[i].name.slug
         earlier == Cardinality({j \in 1..(i - 1) : geoPools[j].name.slug = slug})
     IN [id |-> IF earlier = 0 THEN slug ELSE Numbered(slug, earlier + 1)] @@ geoPools[i]]

-----------------------------------------------------------------------------
(* Prose about the water and the amenities (providers/infrastruktur.py)    *)

(* A list of board heights ends like a length and is none.                 *)
Physical(segment) ==
  [kind |-> segment.kind, dimensions |-> IF segment.boards # 0 THEN 0 ELSE segment.size,
   lanes |-> segment.lanes, temp |-> segment.temp, platforms |-> segment.boards]

ParseInfrastruktur(prose) == SelectSeq(prose, LAMBDA s : s.what = "basin")
ParseFeatures(prose) == SelectSeq(prose, LAMBDA s : s.what = "amenity")

ProseBasin(segment, id) ==
  [id |-> id, name |-> segment.name, rules |-> 0, physical |-> Physical(segment),
   physicalSource |-> "parsed_prose", url |-> 0]

(* _needs_physicals: authored, and authored without a single fact.         *)
NeedsPhysicals(basin) == basin.physicalSource = "curated" /\ basin.physical = NoPhysical

(* Mutant of Enriched: a basin is matched whatever has been authored.      *)
EnrichedAlways(basin, prose) ==
  LET named == SelectSeq(ParseInfrastruktur(prose), LAMBDA s : s.name = basin.name)
  IN IF named = <<>> THEN basin
     ELSE [basin EXCEPT !.physical = Physical(Last(named)), !.physicalSource = "parsed_prose"]

(* The last segment of exactly the basin's name fills an empty basin.      *)
Enriched(basin, prose) ==
  LET named == SelectSeq(ParseInfrastruktur(prose), LAMBDA s : s.name = basin.name)
  IN IF named = <<>> \/ ~NeedsPhysicals(basin) THEN basin
     ELSE [basin EXCEPT !.physical = Physical(Last(named)), !.physicalSource = "parsed_prose"]

-----------------------------------------------------------------------------
(* The identity spine                                                      *)

IdentityOf(identities, id) == FirstThat(identities, LAMBDA x : x.id = id, [id |-> 0])

Terms(identity) == <<identity.name>> \o identity.aliases

(* Registry: no id twice, no term of two pools.                            *)
RegistryAccepts(identities) ==
  \A i, j \in DOMAIN identities :
    i # j => /\ identities[i].id # identities[j].id
             /\ Range(Terms(identities[i])) \cap Range(Terms(identities[j])) = {}

FeatureFact(prose) == IF ParseFeatures(prose) = <<>> THEN 0 ELSE ParseFeatures(prose)[1].temp

(* _location_only_facility: a pool nobody authored has no rule.            *)
LocationOnly(entry, identity) ==
  LET segments == ParseInfrastruktur(entry.prose)
      basins == [i \in DOMAIN segments |-> ProseBasin(segments[i], Numbered(entry.id, i))]
  IN [id |-> IF identity.id # 0 THEN identity.id ELSE entry.id,
      name |-> IF identity.id # 0 THEN identity.name ELSE entry.name.norm,
      poi |-> entry.poi, address |-> entry.address, curated |-> FALSE,
      source |-> IF basins # <<>> \/ ParseFeatures(entry.prose) # <<>> THEN "infrastruktur" ELSE "catalog",
      basins |-> basins,
      facts |-> [NoFacts EXCEPT !["geo"] = entry.geo, !["features"] = FeatureFact(entry.prose)]]

(* The roster's position and key are stamped onto what was authored.       *)
Stamped(entry, facility) ==
  [facility EXCEPT !.poi = entry.poi,
                   !.address = IF facility.address # 0 THEN facility.address ELSE entry.address,
                   !.facts["geo"] = IF entry.geo # 0 THEN entry.geo ELSE facility.facts["geo"],
                   !.basins = Mapped(facility.basins, LAMBDA b : Enriched(b, entry.prose))]

(* Mutant of AliasTerms: keyed by the slug, so that accents are lost.      *)
AliasTermsSlug(entry, identity) ==
  <<entry.name.slug>> \o (IF identity.id # 0 THEN Terms(identity) ELSE <<>>)

AliasTerms(entry, identity) ==
  <<entry.name.norm>> \o (IF identity.id # 0 THEN Terms(identity) ELSE <<>>)

XrefsOf(entry, identity) ==
  IF identity.id = 0 THEN <<>>
  ELSE (IF entry.poi # 0 THEN <<<<"geo_sport", entry.poi>>>> ELSE <<>>)
         \o Mapped(identity.crowd, LAMBDA k : <<"crowdmonitor", k>>)

(* Mutant of Aliases: the rows are not deduplicated.                       *)
AliasesAll(catalog, identities) ==
  FlattenSeq(Mapped(catalog, LAMBDA e :
    Mapped(AliasTerms(e, IdentityOf(identities, e.id)), LAMBDA t : [norm |-> t, id |-> e.id])))

(* A term two pools claim goes to the one of the smaller id.               *)
Aliases(catalog, identities) ==
  FirstByKey(FlattenSeq(Mapped(catalog, LAMBDA e :
    Mapped(AliasTerms(e, IdentityOf(identities, e.id)), LAMBDA t : [norm |-> t, id |-> e.id]))),
    LAMBDA row : row.norm)

Xrefs(catalog, identities) ==
  FirstByKey(FlattenSeq(Mapped(catalog, LAMBDA e :
    Mapped(XrefsOf(e, IdentityOf(identities, e.id)), LAMBDA x : [key |-> x, id |-> e.id]))),
    LAMBDA row : row.key)

(* build_spine, in the order of the ids.                                   *)
BuildSpine(roster, authored, identities) ==
  LET catalog == SortedBy(roster, LAMBDA e : e.id)
      FacilityOf(e) == FirstThat(authored, LAMBDA f : f.id = e.id, [id |-> 0])
  IN [pools |-> Mapped(catalog, LAMBDA e :
                  IF FacilityOf(e).id # 0 THEN Stamped(e, FacilityOf(e))
                  ELSE LocationOnly(e, IdentityOf(identities, e.id))),
      ids |-> Mapped(catalog, LAMBDA e : e.id),
      aliases |-> Aliases(catalog, identities), xrefs |-> Xrefs(catalog, identities)]

(* write_pools: the tables' keys.                                          *)
Writable(spine) ==
  /\ IsInjective(spine.ids)
  /\ IsInjective(Mapped(spine.aliases, LAMBDA r : r.norm))
  /\ IsInjective(Mapped(spine.xrefs, LAMBDA r : r.key))

-----------------------------------------------------------------------------
(* Reconciliation                                                          *)

NameRef(norm) == [kind |-> "name", key |-> norm]
XrefRef(namespace, ext) == [kind |-> "xref", key |-> <<namespace, ext>>]

(* _classify: the pool a reference names, 0 if none does.                  *)
Resolve(ref, spine) ==
  IF ref.kind = "xref"
    THEN FirstThat(spine.xrefs, LAMBDA r : r.key = ref.key, [id |-> 0]).id
    ELSE FirstThat(spine.aliases, LAMBDA r : r.norm = ref.key, [id |-> 0]).id

ResolveAll(extracts, spine) ==
  [resolved |-> Mapped(SelectSeq(extracts, LAMBDA x : Resolve(x.ref, spine) # 0),
                       LAMBDA x : [id |-> Resolve(x.ref, spine), aspects |-> x.aspects]),
   unresolved |-> Mapped(SelectSeq(extracts, LAMBDA x : Resolve(x.ref, spine) = 0), LAMBDA x : x.ref)]

-----------------------------------------------------------------------------
(* The merge                                                               *)

HasSchedule(basins) == \E i \in DOMAIN basins : basins[i].rules # 0

ScrapedFacility(id, aspects) ==
  [id |-> id, name |-> aspects.name, poi |-> 0, address |-> aspects.address, curated |-> FALSE,
   source |-> "schedule_scraper", basins |-> aspects.basins, facts |-> aspects.facts]

Timed(basins) == SelectSeq(basins, LAMBDA b : b.rules # 0)

(* Mutant of CarryBindings: carried without the timetable.                 *)
CarryBindingsBare(scraped, curated) ==
  scraped \o SelectSeq(curated, LAMBDA b :
               b.url # 0 /\ \A i \in DOMAIN scraped : scraped[i].url # b.url)

(* _carry_bindings: an authored basin with a lane sheet goes on beside the *)
(* scraped one, with the facility's one timetable.                         *)
CarryBindings(scraped, curated) ==
  LET bound == SelectSeq(curated, LAMBDA b :
                 b.url # 0 /\ \A i \in DOMAIN scraped : scraped[i].url # b.url)
  IN scraped \o (IF Timed(scraped) = <<>> THEN bound
                 ELSE Mapped(bound, LAMBDA b : [b EXCEPT !.rules = Timed(scraped)[1].rules]))

MergeBasins(curated, scraped) ==
  CASE HasSchedule(curated) -> curated
    [] ~HasSchedule(curated) /\ HasSchedule(scraped) -> CarryBindings(scraped, curated)
    [] OTHER -> IF curated # <<>> THEN curated ELSE scraped

(* Mutant of Fold: a scraped facility is dropped where one is authored.    *)
FoldDrops(curated, scraped) == curated

(* Mutant of Fold: the base keeps its provenance.                          *)
FoldKeepsSource(curated, scraped) ==
  [curated EXCEPT
     !.basins = MergeBasins(curated.basins, scraped.basins),
     !.facts = [a \in Aspects |-> IF curated.facts[a] # 0 THEN curated.facts[a] ELSE scraped.facts[a]]]

(* _fold: authored first, aspect by aspect; a scraped timetable brings its *)
(* provenance along.                                                       *)
Fold(curated, scraped) ==
  LET fresh == ~HasSchedule(curated.basins) /\ HasSchedule(scraped.basins)
  IN [curated EXCEPT
        !.basins = MergeBasins(curated.basins, scraped.basins),
        !.facts = [a \in Aspects |-> IF curated.facts[a] # 0 THEN curated.facts[a] ELSE scraped.facts[a]],
        !.source = IF fresh THEN scraped.source ELSE @,
        !.curated = IF fresh THEN scraped.curated ELSE @]

OfId(facilities, id) == SelectSeq(facilities, LAMBDA f : f.id = id)

(* _carry_bindings raises where two scraped basins bear a timetable, and   *)
(* which of them a bound basin inherits is ambiguous.                      *)
Composable(curated, scraped) ==
  \A id \in {f.id : f \in Range(scraped)} :
    \/ OfId(curated, id) # <<>> /\ HasSchedule(Last(OfId(curated, id)).basins)
    \/ Len(Timed(Last(OfId(scraped, id)).basins)) <= 1

(* compose_facilities: of two facilities of one id the last counts.        *)
Compose(curated, scraped) ==
  LET ids == Ascending({f.id : f \in Range(curated)} \cup {f.id : f \in Range(scraped)})
  IN Mapped(ids, LAMBDA id :
       LET c == OfId(curated, id)
           x == OfId(scraped, id)
       IN IF c = <<>> THEN Last(x) ELSE IF x = <<>> THEN Last(c) ELSE Fold(Last(c), Last(x)))

(* assemble_curated, resolve_all and compose: the facilities a build       *)
(* serves, or a refusal.                                                   *)
Gold(geoPools, authored, identities, extracts) ==
  LET spine == BuildSpine(BuildCatalog(geoPools), authored, identities)
      outcome == ResolveAll(extracts, spine)
      scraped == Mapped(outcome.resolved, LAMBDA r : ScrapedFacility(r.id, r.aspects))
  IN IF RegistryAccepts(identities) /\ Writable(spine) /\ Composable(spine.pools, scraped)
       THEN [ok |-> TRUE, spine |-> spine, unresolved |-> outcome.unresolved,
             facilities |-> Compose(spine.pools, scraped)]
       ELSE [ok |-> FALSE]

-----------------------------------------------------------------------------
(* What the fold promises, of the gold made of these inputs.               *)

(* The pools that bear what a reference names.                             *)
Bears(entry, ref, identities) ==
  \/ ref = NameRef(entry.name.norm)
  \/ ref.kind = "xref" /\ ref.key \in Range(XrefsOf(entry, IdentityOf(identities, entry.id)))
  \/ \E x \in Range(identities) : x.id = entry.id /\ ref \in {NameRef(t) : t \in Range(Terms(x))}

Bearers(ref, geoPools, identities) ==
  {e.id : e \in {x \in Range(BuildCatalog(geoPools)) : Bears(x, ref, identities)}}

Supplies(x, a) == x.aspects.facts[a]
PageAspects == Aspects \ {"geo", "features"}     \* the roster states these too

(* Facts stay home: what a page states is served at one pool at most, and  *)
(* at one that bears the page's name (reconcile.py:150).                   *)
FactsStayHome(gold, geoPools, identities, extracts) ==
  \A x \in Range(extracts) :
    LET takers == {f.id : f \in {g \in Range(gold.facilities) :
                     \/ \E a \in PageAspects : g.facts[a] # 0 /\ g.facts[a] = Supplies(x, a)
                     \/ \E b \in Range(g.basins) : b \in Range(x.aspects.basins)}}
    IN Cardinality(takers) <= 1 /\ takers \subseteq Bearers(x.ref, geoPools, identities)

(* Facts arrive: a page no other page shares its pool with has every       *)
(* aspect it states served there, unless one was authored; a page nobody   *)
(* bears the name of is reported (compose.py:8, reconcile.py:144).         *)
FactsArrive(gold, geoPools, authored, identities, extracts) ==
  \A i \in DOMAIN extracts :
    LET x == extracts[i]
        home == Bearers(x.ref, geoPools, identities)
    IN /\ home = {} => x.ref \in Range(gold.unresolved)
       /\ Cardinality(home) = 1 /\ (\A j \in DOMAIN extracts : j # i =>
             home \cap Bearers(extracts[j].ref, geoPools, identities) = {}) =>
           \E f \in Range(gold.facilities) :
             /\ f.id \in home
             /\ \A a \in PageAspects :
                  Supplies(x, a) # 0 =>
                    f.facts[a] = Supplies(x, a) \/
                    \E c \in Range(authored) : c.id = f.id /\ c.facts[a] # 0 /\ f.facts[a] = c.facts[a]

(* An authored lane binding is never lost: its basin is served under its   *)
(* own id, name, water and sheet, and with the timetable its facility runs *)
(* on if that was scraped (compose.py:187).                                *)
BindingsSurvive(gold, authored) ==
  \A f \in Range(gold.facilities), c \in Range(authored) : c.id = f.id =>
    \A b \in Range(c.basins) : b.url # 0 =>
      \E s \in Range(f.basins) :
        /\ s.id = b.id /\ s.name = b.name /\ s.url = b.url
        /\ b.physical # NoPhysical => s.physical = b.physical /\ s.physicalSource = "curated"
        /\ f.source = "schedule_scraper" => s.rules = Timed(f.basins)[1].rules

(* "Curated" is said of exactly the timetables a person wrote              *)
(* (compose.py:283).                                                       *)
ProvenanceHonest(gold, authored) ==
  \A f \in Range(gold.facilities) :
    HasSchedule(f.basins) =>
      (f.curated <=> \E c \in Range(authored) : c.id = f.id /\ HasSchedule(c.basins))

(* Prose never overrides what was measured by hand, and one basin's prose  *)
(* is not another's (seed.py:233).                                         *)
PhysicalsKept(gold, geoPools, authored) ==
  \A f \in Range(gold.facilities), c \in Range(authored) : c.id = f.id =>
    \A s \in Range(f.basins), b \in Range(c.basins) : s.id = b.id =>
      /\ b.physical # NoPhysical => s.physical = b.physical
      /\ s.physical # b.physical =>
           \E e \in Range(BuildCatalog(geoPools)) : e.id = f.id /\
             \E p \in Range(ParseInfrastruktur(e.prose)) : p.name = b.name /\ s.physical = Physical(p)

(* Whatever the roster and the registry share, the rows fit the tables'    *)
(* keys, unless two pools have one id or the registry contradicts itself   *)
(* (seed.py:61).                                                           *)
SpineFits(gold, geoPools, identities) ==
  gold.ok <=> /\ IsInjective(Mapped(BuildCatalog(geoPools), LAMBDA e : e.id))
              /\ RegistryAccepts(identities)
=============================================================================
