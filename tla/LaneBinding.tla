----------------------------- MODULE LaneBinding -----------------------------
(***************************************************************************)
(* Which basin a lane sheet is: the links a pool's page advertises         *)
(* (providers/page_provider.py), the sheets fetched (etl/lane_plans.py)    *)
(* and the join of what was parsed onto the basins that declare its URL    *)
(* (etl/silver.py), as cli.py's lane phase drives them.                    *)
(*                                                                         *)
(* A basin is [pool, basin, url, section]; a section is the set of words   *)
(* of its token, Whole if it declares none, and so is a parsed header: a token *)
(* is contained in a header that has all of its words.                     *)
(***************************************************************************)
EXTENDS Ordering, FiniteSets

Whole == {"whole sheet"}
Unbound == <<>>
Ref(b) == <<b.pool, b.basin>>

Once(s) == FirstSeen(s, LAMBDA x : x)

-----------------------------------------------------------------------------
(* Discovery and extraction                                                *)

(* discover_links: a page's sheets, each once, in order; nothing of a page *)
(* that could not be fetched.                                              *)
DiscoverLinks(page) ==
  IF page.ok THEN Mapped(Once(page.hrefs), LAMBDA u : [pool |-> page.pool, url |-> u]) ELSE <<>>

DiscoverPages(pages) == FlattenSeq(Mapped(pages, DiscoverLinks))

(* fetch_set                                                               *)
FetchSet(links) == Once(Mapped(links, LAMBDA l : l.url))

AuthoredUrls(basins) == {b.url : b \in Range(basins)}

(* Mutant of Undiscovered: the sheets are taken as they come.              *)
UndiscoveredNone(basins, links) == {}

(* undiscovered_authored: a declared sheet no page advertises.             *)
Undiscovered(basins, links) == AuthoredUrls(basins) \ {l.url : l \in Range(links)}

(* sheets[u] is what the sheet at u parses to, <<>> if it cannot be read.  *)
ScrapeLanePlans(sheets, links) ==
  FlattenSeq(Mapped(FetchSet(links), LAMBDA u :
    Mapped(sheets[u], LAMBDA h : [url |-> u, hint |-> h])))
Misses(sheets, links) == {u \in Range(FetchSet(links)) : sheets[u] = <<>>}

(* split_misses: only a sheet some basin declares is missed fatally.       *)
BoundMisses(sheets, links, basins) == Misses(sheets, links) \cap AuthoredUrls(basins)

(* _fetch_lane_plans                                                       *)
FetchLanePlans(basins, pages, sheets) ==
  LET links == DiscoverPages(pages)
  IN IF Undiscovered(basins, links) # {} \/ BoundMisses(sheets, links, basins) # {}
       THEN [ok |-> FALSE]
       ELSE [ok |-> TRUE, plans |-> ScrapeLanePlans(sheets, links)]

-----------------------------------------------------------------------------
(* The join                                                                *)

(* build_url_bindings: no section of a sheet is declared twice.            *)
DeclaredOnce(basins) ==
  \A i, j \in DOMAIN basins :
    i # j => basins[i].url # basins[j].url \/ basins[i].section # basins[j].section

(* Mutant of Claims: the first token that fits takes the plan.             *)
ClaimsFirst(plan, declared) ==
  LET fitting == Kept(declared, LAMBDA b :
                   b.section # Whole /\ b.section # {} /\ b.section \subseteq plan.hint)
  IN IF fitting = <<>> THEN <<>> ELSE <<fitting[1]>>

(* _bind_stacked: the declared tokens the plan's header contains.          *)
Claims(plan, declared) ==
  Kept(declared, LAMBDA b :
    b.section # Whole /\ b.section # {} /\ b.section \subseteq plan.hint)

(* bind_plans: a sheet declared as a whole is the basin's if it is one     *)
(* plan; else the one token in the header decides.                         *)
Owner(plan, plans, basins) ==
  LET declared == Kept(basins, LAMBDA b : b.url = plan.url)
      whole == Len(declared) = 1 /\ declared[1].section = Whole
      claims == Claims(plan, declared)
      sheet == Kept(plans, LAMBDA p : p.url = plan.url)
  IN IF whole /\ Len(sheet) = 1 THEN Ref(declared[1])
     ELSE IF ~whole /\ Len(claims) = 1 THEN Ref(claims[1])
     ELSE Unbound

UnboundPlans(plans, basins) == Kept(plans, LAMBDA p : Owner(p, plans, basins) = Unbound)

(* find_unmatched_sections: a token in no header of a sheet that parsed.   *)
UnmatchedSections(plans, basins) ==
  {Ref(b) : b \in {x \in Range(basins) :
     /\ x.section # Whole /\ x.section # {}
     /\ \E p \in Range(plans) : p.url = x.url
     /\ \A p \in Range(plans) : p.url = x.url => ~(x.section \subseteq p.hint)}}

(* Mutant of IndexBound: the later of two plans replaces the earlier.      *)
IndexBoundAny(plans, basins) == TRUE

(* index_bound_plans: two plans of one basin are fatal.                    *)
IndexBound(plans, basins) ==
  \A i, j \in DOMAIN plans :
    i # j /\ Owner(plans[i], plans, basins) # Unbound =>
      Owner(plans[i], plans, basins) # Owner(plans[j], plans, basins)

(* attach_lane_plans and _write_lane_plans: the plan each basin gets, what *)
(* is reported, or the phase's failure.                                    *)
AttachLanePlans(basins, plans) ==
  LET attached == {b \in Range(basins) : \E p \in Range(plans) : Owner(p, plans, basins) = Ref(b)}
      PlanOf(ref) == plans[CHOOSE i \in DOMAIN plans :
                       /\ Owner(plans[i], plans, basins) = ref
                       /\ \A j \in DOMAIN plans : Owner(plans[j], plans, basins) = ref => j <= i]
  IN IF DeclaredOnce(basins) /\ IndexBound(plans, basins) /\ attached # {}
       THEN [ok |-> TRUE, plans |-> [ref \in {Ref(b) : b \in attached} |-> PlanOf(ref)],
             unbound |-> UnboundPlans(plans, basins), unmatched |-> UnmatchedSections(plans, basins)]
       ELSE [ok |-> FALSE]

LanePhase(basins, pages, sheets) ==
  LET fetched == FetchLanePlans(basins, pages, sheets)
  IN IF fetched.ok THEN AttachLanePlans(basins, fetched.plans) ELSE [ok |-> FALSE]

-----------------------------------------------------------------------------
(* What the phase promises, of its result for these inputs.                *)

(* Never a misbind: a basin's plan comes from the sheet it declares; of a  *)
(* sheet it shares, from a header that names it and no other basin of the  *)
(* sheet (a blank token names nothing); of a sheet of its own, it is the   *)
(* only plan (silver.py:173).                                              *)
OwnPlansOnly(result, basins, sheets) ==
  result.ok =>
    \A b \in Range(basins) : Ref(b) \in DOMAIN result.plans =>
      LET plan == result.plans[Ref(b)]
          others == {o \in Range(basins) : o.url = b.url /\ o # b}
      IN /\ plan.url = b.url
         /\ b.section = Whole => others = {} /\ Len(sheets[b.url]) = 1
         /\ b.section # Whole =>
              /\ b.section \subseteq plan.hint
              /\ \A o \in others :
                   o.section \notin {Whole, {}} => ~(o.section \subseteq plan.hint)

(* Every parsed plan is somebody's or is reported: none is dropped, and    *)
(* none is bound and reported at once (silver.py:236).                     *)
PlansAccountedFor(result, pages, sheets) ==
  result.ok =>
    \A u \in Range(FetchSet(DiscoverPages(pages))), h \in UNION {Range(s) : s \in Range(sheets)} :
      h \in Range(sheets[u]) =>
        LET plan == [url |-> u, hint |-> h]
            bound == {r \in DOMAIN result.plans : result.plans[r] = plan}
            reported == {k \in DOMAIN result.unbound : result.unbound[k] = plan}
            printed == {i \in DOMAIN sheets[u] : sheets[u][i] = h}
        IN Cardinality(bound) + Cardinality(reported) = Cardinality(printed)

(* No holes: after a lane phase that succeeds, the sheet of every declared *)
(* basin was advertised and read, and a basin declared by a section or     *)
(* alone has its plan unless its section, or a plan of its sheet, is       *)
(* reported (silver.py:323, lane_plans.py:42).                             *)
NoSilentHole(result, basins, pages, sheets) ==
  result.ok =>
    \A b \in Range(basins) :
      /\ \E l \in Range(DiscoverPages(pages)) : l.url = b.url
      /\ sheets[b.url] # <<>>
      /\ \/ Ref(b) \in DOMAIN result.plans
         \/ Ref(b) \in result.unmatched
         \/ \E p \in Range(result.unbound) : p.url = b.url
         \/ b.section = Whole /\ \E o \in Range(basins) : o # b /\ o.url = b.url
         \/ b.section = {}
=============================================================================
