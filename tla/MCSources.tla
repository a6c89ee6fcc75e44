------------------------------ MODULE MCSources ------------------------------
(***************************************************************************)
(* Rosters a build is given, each with what was authored and scraped for   *)
(* it.                                                                     *)
(***************************************************************************)
EXTENDS PoolFold

VARIABLES ask, answer
vars == <<ask, answer>>

(* What has been read: nothing, or one result.                             *)
Pending == <<>>

-----------------------------------------------------------------------------
(* Pools: "Bad", "Bäd" of the same slug, "Bad 2" whose slug is Bad's       *)
(* second number, and "See".                                               *)

Name(norm, slug) == [norm |-> norm, slug |-> slug]
Bad == Name(1, 1)
BadAccented == Name(2, 1)
Bad2 == Name(3, 12)
See == Name(4, 2)

Prose(what, kind) ==
  [what |-> what, name |-> 21, kind |-> kind, size |-> 25, boards |-> 0, lanes |-> 6, temp |-> 28]
Proses == {<<>>, <<Prose("basin", "lap"), Prose("amenity", "sauna")>>}
PoolsNamed(names, prose) ==
  [i \in DOMAIN names |-> [name |-> names[i], poi |-> 40 + i, geo |-> 50 + i, address |-> 60 + i,
                           prose |-> IF i = 1 THEN prose ELSE <<>>]]
Rosters ==
  {PoolsNamed(names, prose) : prose \in Proses,
     names \in {<<Bad, See>>, <<Bad, BadAccented, See>>, <<See, Bad, Bad>>, <<Bad, Bad, Bad2>>}}

BasinOf(id, name, rules, physical, source, url) ==
  [id |-> id, name |-> name, rules |-> rules, physical |-> physical, physicalSource |-> source, url |-> url]
Measured == [NoPhysical EXCEPT !.kind = "lap", !.lanes = 8]
Authored ==
  {<<>>} \cup
  {<<[id |-> 1, name |-> 1, poi |-> 0, address |-> 0, curated |-> TRUE, source |-> "curated",
      basins |-> <<BasinOf(71, 21, rules, physical, "curated", url), BasinOf(72, 22, 0, NoPhysical, "curated", 0)>>,
      facts |-> [NoFacts EXCEPT !["admission"] = admission]]>> :
     rules \in {0, 81}, physical \in {NoPhysical, Measured}, url \in {0, 5}, admission \in {0, 91}}

IdentityRow(id, name, aliases, crowd) == [id |-> id, name |-> name, aliases |-> aliases, crowd |-> crowd]
Registries ==
  {<<>>, <<IdentityRow(1, 1, <<5>>, <<7>>)>>, <<IdentityRow(1, 1, <<4>>, <<>>)>>,
   <<IdentityRow(1, 1, <<5>>, <<>>), IdentityRow(2, 4, <<5>>, <<>>)>>}

PageOf(n, ref, rules) ==
  [ref |-> ref,
   aspects |-> [name |-> n, address |-> 0,
                basins |-> IF rules = 0 THEN <<>> ELSE <<BasinOf(100 + n, 23, rules, NoPhysical, "curated", 0)>>,
                facts |-> [NoFacts EXCEPT !["admission"] = 110 + n, !["closures"] = 120 + n]]]
Extracts ==
  LET One == {<<PageOf(1, ref, 130)>> : ref \in {NameRef(1), NameRef(2), NameRef(5), XrefRef("crowdmonitor", 7)}}
      Two == {<<PageOf(2, ref, rules)>> : ref \in {NameRef(4), NameRef(99), XrefRef("geo_sport", 42)}, rules \in {0, 131}}
  IN {x \o y : x \in One, y \in Two}

GoldAsks ==
  [kind : {"gold"}, roster : Rosters, authored : Authored, identities : Registries, extracts : Extracts]

-----------------------------------------------------------------------------

Init ==
  /\ ask \in GoldAsks
  /\ answer = Pending

Reply(kind, value) ==
  /\ ask.kind = kind
  /\ answer = Pending
  /\ answer' = <<value>>
  /\ UNCHANGED ask

BuildGold == Reply("gold", Gold(ask.roster, ask.authored, ask.identities, ask.extracts))
Next == BuildGold

-----------------------------------------------------------------------------

Answered(kind) == ask.kind = kind /\ answer # Pending
Given == answer[1]
Built == Answered("gold") /\ Given.ok

(* What a page states is served at home or nowhere (PoolFold).             *)
FactsHome == Built => FactsStayHome(Given, ask.roster, ask.identities, ask.extracts)

(* What a page states is served, or its page is reported (PoolFold).       *)
FactsServed == Built => FactsArrive(Given, ask.roster, ask.authored, ask.identities, ask.extracts)

(* An authored lane binding outlives a scraped timetable (PoolFold).       *)
BindingsKept == Built => BindingsSurvive(Given, ask.authored)

(* What a person wrote is called curated, and nothing else (PoolFold).     *)
CuratedMeansWritten == Built => ProvenanceHonest(Given, ask.authored)

(* A measured basin is not overwritten by prose (PoolFold).                *)
MeasuredKept == Built => PhysicalsKept(Given, ask.roster, ask.authored)

(* A roster's rows fit the store (PoolFold).                               *)
SpineWritable == Answered("gold") => SpineFits(Given, ask.roster, ask.identities)

(* What a page or a person states of a pool is served of that pool, in the *)
(* name of who stated it, or is reported (compose.py:259).                 *)
FactsKept == FactsHome /\ FactsServed /\ SpineWritable /\ BindingsKept /\ CuratedMeansWritten /\ MeasuredKept
=============================================================================
