----------------------------- MODULE MCGoldBuild -----------------------------
(* GoldBuild with every source's life in three ages: within the TTL, due   *)
(* but keepable (age 1), too old to keep (age 2).                          *)
EXTENDS GoldBuild

MCTtl == [s \in Source |-> 1]
MCMaxStale == [s \in Source |-> 1]

(* build, scrape-gold, scrape-lanes, --refresh *)
MCForcedSets == {{}, {"prices", "schedules"}, {"lane_plans"}, Source}
(* One document of each kind: fresh and due, stale and keepable, too old.  *)
MCOrigin ==
  {[source |-> "prices", doc |-> [status |-> "fresh", age |-> 1]],
   [source |-> "schedules", doc |-> [status |-> "stale", age |-> 1]],
   [source |-> "schedules", doc |-> [status |-> "fresh", age |-> 2]],
   [source |-> "lane_plans", doc |-> [status |-> "stale", age |-> 2]]}
==============================================================================
