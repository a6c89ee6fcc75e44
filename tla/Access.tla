------------------------------- MODULE Access -------------------------------
(***************************************************************************)
(* Who may attend a session and what it costs: domain/access.py,           *)
(* domain/pricing.py, domain/admission.py.  A reason code of the source is *)
(* the pair of the access arm and the outcome.                             *)
(***************************************************************************)
EXTENDS Ordering

NoAge == -1                          \* Person.age is None
Gender == {"female", "male", "diverse", "unknown"}
People(ages) == [gender : Gender, age : ages \cup {NoAge}]

Open == {"public", "lane-swim", "family"}
Reserved == {"school-reserved", "club-reserved"}
AgeGated == {"seniors-only", "adults-only"}

(* An arm and the age it prints (0 where the arm has no such field).       *)
SessionAccess(ages) ==
  [arm : Open \cup Reserved \cup {"women-only", "girls-only", "accompanied-children"},
   minAge : {0}]
  \cup [arm : AgeGated \cup {"gender-diverse"}, minAge : ages]

Answer(allowed, access, outcome) ==
  [allowed |-> allowed, rule |-> access.arm, outcome |-> outcome]

WomenOnly(person, access) ==
  Answer(person.gender = "female", access,
         [female |-> "welcome", male |-> "excluded", diverse |-> "confirm",
          unknown |-> "needs_gender"][person.gender])

(* Only the exclusion is decidable: the city prints no age for girls.      *)
GirlsOnly(person, access) ==
  Answer(FALSE, access,
         [female |-> "confirm", male |-> "excluded", diverse |-> "excluded",
          unknown |-> "needs_gender"][person.gender])

(* The printed age alone is checked, never the gender.                     *)
GenderDiverse(person, access) ==
  Answer(FALSE, access,
         IF person.age # NoAge /\ person.age < access.minAge THEN "too_young" ELSE "confirm")

(* Mutant of AgeGate: an unknown age is let in.                            *)
AgeGateTrusts(person, access) ==
  IF person.age # NoAge /\ person.age < access.minAge
    THEN Answer(FALSE, access, "too_young")
    ELSE Answer(TRUE, access, "welcome")

(* _adults_only and _seniors_only, word for word the same.                 *)
AgeGate(person, access) ==
  IF person.age = NoAge THEN Answer(FALSE, access, "needs_age")
  ELSE IF person.age >= access.minAge THEN Answer(TRUE, access, "welcome")
  ELSE Answer(FALSE, access, "too_young")

Eligibility(person, access) ==
  CASE access.arm \in Open -> Answer(TRUE, access, "welcome")
    [] access.arm \in Reserved -> Answer(FALSE, access, "reserved")
    [] access.arm = "women-only" -> WomenOnly(person, access)
    [] access.arm = "girls-only" -> GirlsOnly(person, access)
    [] access.arm = "gender-diverse" -> GenderDiverse(person, access)
    [] access.arm = "accompanied-children" -> Answer(FALSE, access, "confirm")
    [] OTHER -> AgeGate(person, access)

-----------------------------------------------------------------------------
(* Prices: an entry is [minAge, amount]; an entry whose source printed no  *)
(* bound has minAge = NoAge and is never chosen.                           *)

NoPrice == [minAge |-> NoAge, amount |-> 0]

(* Mutant of EntryFor: an unknown age gets the lowest band.                *)
EntryForLowest(entries, age) ==
  LET bounded == Kept(entries, LAMBDA e : e.minAge # NoAge /\ (age = NoAge \/ e.minAge <= age))
      Rank(e) == IF age = NoAge THEN 0 - e.minAge ELSE e.minAge
  IN IF bounded = <<>> THEN NoPrice ELSE FirstGreatest(bounded, Rank)

(* The entry with the greatest printed bound the age clears.               *)
EntryFor(entries, age) ==
  LET bounded == Kept(entries, LAMBDA e : e.minAge # NoAge /\ (age = NoAge \/ e.minAge <= age))
      Rank(e) == e.minAge
  IN IF bounded = <<>> THEN NoPrice ELSE FirstGreatest(bounded, Rank)

(* The admission union: "free" and "unknown" have no tariff table.         *)
PriceOf(admission, age) ==
  IF admission.kind = "tariff" THEN EntryFor(admission.entries, age) ELSE NoPrice

-----------------------------------------------------------------------------
(* Properties of an answer for one person and one session.                 *)

(* Everyone this person could turn out to be.                              *)
Completions(person, ages) ==
  {p \in People(ages) :
     /\ p.age # NoAge /\ person.age \in {NoAge, p.age}
     /\ p.gender # "unknown" /\ person.gender \in {"unknown", p.gender}}

(* What a person does not say is never assumed: an answer is "allowed" or  *)
(* a refusal only if it stays so whatever they turn out to be, and one     *)
(* that asks for a detail does so only where no answer is sure             *)
(* (access.py:267).                                                        *)
NothingAssumed(person, access, ages) ==
  LET now == Eligibility(person, access)
      later == {Eligibility(p, access) : p \in Completions(person, ages)}
  IN /\ now.allowed => \A v \in later : v.allowed
     /\ now.outcome \in {"excluded", "too_young", "reserved"} =>
          \A v \in later : ~v.allowed /\ v.outcome # "welcome"
     /\ now.outcome \in {"needs_age", "needs_gender"} =>
          \E v, w \in later : v.outcome # w.outcome

(* Saying one's age never costs more than keeping quiet, growing older     *)
(* never falls back to a younger band, and nobody pays a band whose bound  *)
(* they have not reached (pricing.py:41).                                  *)
NeverUndercharged(entries, ages) ==
  /\ \A a \in ages :
       /\ EntryFor(entries, a).minAge <= a
       /\ EntryFor(entries, a).minAge <= EntryFor(entries, NoAge).minAge
  /\ \A a, b \in ages :
       a <= b => EntryFor(entries, a).minAge <= EntryFor(entries, b).minAge
=============================================================================
