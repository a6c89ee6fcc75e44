------------------------------ MODULE Baditicker ------------------------------
(***************************************************************************)
(* The server's live water temperature: BaditickerProvider, one snapshot   *)
(* of the city's feed in two fields, _cached and _cached_at, read and      *)
(* written one after the other by the threads that answer requests.        *)
(*                                                                         *)
(* Time is the age of things, in intervals.  A thread is suspended for     *)
(* long by a fetch alone: no interval ends between two of its statements.  *)
(***************************************************************************)
EXTENDS Integers, SequencesExt

CONSTANTS
  Threads,  \* of the server's pool
  Poiids,   \* ids of baths
  Blank,    \* an empty cell, a pool without an id of the feed
  Bodies,   \* what the feed may answer
  Down,     \* it does not answer, or not with 200
  Ttl,      \* of a snapshot
  Patience  \* bound: the longest a fetch may take, over its attempts

Bath == [poiid : Poiids \cup {Blank}, temperature : {"warm", "cold", "junk", Blank},
         dated : {"today", "last year", Blank}, open : {"offen", "geschlossen", Blank}]
Body == [text : {"utf-8", "bytes", "no <baths>"}, baths : Seq(Bath)]

(* An empty cell is not a word.                                            *)
ASSUME BaditickerAssumption ==
  /\ Blank # "offen"
  /\ Bodies \subseteq Body
  /\ Down \notin Bodies
  /\ Ttl \in Nat \ {0} /\ Patience \in Nat

-----------------------------------------------------------------------------
(* parse(): the first malformed bath fails the whole feed, and of two with *)
(* one id the later one counts.                                            *)

Err(error) == [ok |-> FALSE, error |-> error]
Ok(value) == [ok |-> TRUE, value |-> value]

(* Mutant of Reading: an empty cell is closed.                             *)
ReadingOpenOrClosed(bath) ==
  [celsius |-> bath.temperature, stale |-> bath.dated = "last year",
   open |-> IF bath.open = "offen" THEN "yes" ELSE "no"]

(* What is stale (six hours) is so for as long as a snapshot lives.        *)
Reading(bath) ==
  [celsius |-> bath.temperature, stale |-> bath.dated = "last year",
   open |-> IF bath.open = Blank THEN "unknown" ELSE IF bath.open = "offen" THEN "yes" ELSE "no"]

ParseBath(bath) ==
  IF bath.poiid = Blank THEN Err("schema")
  ELSE IF bath.temperature = "junk" \/ bath.dated = Blank THEN Err("parse")
  ELSE Ok(Reading(bath))

(* readings[poiid] = reading                                               *)
Recorded(readings, poiid, reading) ==
  [p \in {poiid} \cup DOMAIN readings |-> IF p = poiid THEN reading ELSE readings[p]]

AddBath(parsed, bath) ==
  LET one == ParseBath(bath)
  IN IF ~parsed.ok THEN parsed
     ELSE IF one.ok THEN Ok(Recorded(parsed.value, bath.poiid, one.value)) ELSE one

Parse(body) ==
  LET upTo[n \in 0..Len(body.baths)] ==
        IF n = 0 THEN Ok(<<>>) ELSE AddBath(upTo[n - 1], body.baths[n])
  IN CASE body.text = "bytes"      -> Err("parse")
       [] body.text = "no <baths>" -> Err("schema")
       [] OTHER                    -> upTo[Len(body.baths)]

-----------------------------------------------------------------------------
VARIABLES
  wired,     \* whether a provider is configured
  feed,      \* what the feed answers now
  cached,    \* _cached: the readings, the body they are of, its age at most
  cachedAt,  \* the age _cached_at states
  pc,        \* [Threads -> where it is in read()]
  asked,     \* [Threads -> the id it was asked for]
  now,       \* [Threads -> the age of the `now` it began with]
  local,     \* [Threads -> the snapshot it has in hand]
  told       \* [Threads -> its answer, and what snapshot that is of]

vars == <<wired, feed, cached, cachedAt, pc, asked, now, local, told>>

Never == -1
AgeCap == Ttl + Patience      \* bound: ages of bytes stop growing here
Empty == [readings |-> <<>>, of |-> Down, age |-> 0]
NoReading == [celsius |-> Blank, stale |-> FALSE, open |-> "unknown"]
Untold == [code |-> "none", reading |-> NoReading, of |-> Down, age |-> 0]

Init ==
  /\ wired \in BOOLEAN
  /\ feed \in Bodies \cup {Down}
  /\ cached = Empty
  /\ cachedAt = Never
  /\ pc = [t \in Threads |-> "idle"]
  /\ asked = [t \in Threads |-> Blank]
  /\ now = [t \in Threads |-> 0]
  /\ local = [t \in Threads |-> Empty]
  /\ told = [t \in Threads |-> Untold]

At(t, place) == pc' = [pc EXCEPT ![t] = place]

(* The end of read(), and of what calls it: an answer is available when it *)
(* is live.                                                                *)
Tell(t, code, reading, of, age) ==
  /\ told' = [told EXCEPT ![t] = [code |-> code, reading |-> reading, of |-> of, age |-> age]]
  /\ local' = [local EXCEPT ![t] = Empty]
  /\ now' = [now EXCEPT ![t] = 0]
  /\ At(t, "idle")

Answer(t, snapshot) ==
  IF asked[t] \in DOMAIN snapshot.readings
    THEN Tell(t, "live", snapshot.readings[asked[t]], snapshot.of, snapshot.age)
    ELSE Tell(t, "provider_error", NoReading, snapshot.of, snapshot.age)

(* A request: without a provider, or an id of the feed, it is answered at  *)
(* once.                                                                   *)
Ask(t, poiid) ==
  /\ pc[t] = "idle"
  /\ asked' = [asked EXCEPT ![t] = poiid]
  /\ IF ~wired THEN Tell(t, "not_configured", NoReading, Down, 0)
     ELSE IF poiid = Blank THEN Tell(t, "no_key", NoReading, Down, 0)
     ELSE /\ told' = [told EXCEPT ![t] = Untold]
          /\ At(t, "clocked")
          /\ UNCHANGED <<local, now>>
  /\ UNCHANGED <<wired, feed, cached, cachedAt>>

LoadMap(t) ==
  /\ pc[t] = "clocked"
  /\ local' = [local EXCEPT ![t] = cached]
  /\ At(t, "loaded")
  /\ UNCHANGED <<wired, feed, cached, cachedAt, asked, now, told>>

(* Mutant of Fresh: one moment too long.                                   *)
FreshAtTtl(t) == local[t].of # Down /\ cachedAt # Never /\ cachedAt - now[t] <= Ttl

Fresh(t) == local[t].of # Down /\ cachedAt # Never /\ cachedAt - now[t] < Ttl

LoadStamp(t) ==
  /\ pc[t] = "loaded"
  /\ IF Fresh(t) THEN Answer(t, local[t]) ELSE At(t, "fetching") /\ UNCHANGED <<local, now, told>>
  /\ UNCHANGED <<wired, feed, cached, cachedAt, asked>>

(* The bytes may be as old as the request for them.  No error is cached.   *)
Fetched(t) ==
  /\ pc[t] = "fetching"
  /\ IF feed # Down /\ Parse(feed).ok
       THEN /\ local' = [local EXCEPT ![t] = [readings |-> Parse(feed).value, of |-> feed, age |-> now[t]]]
            /\ At(t, "storing")
            /\ UNCHANGED <<now, told>>
       ELSE Tell(t, "provider_error", NoReading, feed, 0)
  /\ UNCHANGED <<wired, feed, cached, cachedAt, asked>>

StoreMap(t) ==
  /\ pc[t] = "storing"
  /\ cached' = local[t]
  /\ At(t, "stamping")
  /\ UNCHANGED <<wired, feed, cachedAt, asked, now, local, told>>

StoreStamp(t) ==
  /\ pc[t] = "stamping"
  /\ cachedAt' = now[t]
  /\ Answer(t, local[t])
  /\ UNCHANGED <<wired, feed, cached, asked>>

Older(age, cap) == IF age < cap THEN age + 1 ELSE age

Tick ==
  /\ \A t \in Threads : pc[t] = "idle" \/ (pc[t] = "fetching" /\ now[t] < Patience)
  /\ cached' = [cached EXCEPT !.age = Older(@, AgeCap)]
  /\ cachedAt' = IF cachedAt = Never THEN Never ELSE Older(cachedAt, Ttl)
  /\ now' = [t \in Threads |-> IF pc[t] = "fetching" THEN now[t] + 1 ELSE now[t]]
  /\ local' = [t \in Threads |-> [local[t] EXCEPT !.age = Older(@, AgeCap)]]
  /\ UNCHANGED <<wired, feed, pc, asked, told>>

FeedChanges ==
  /\ feed' \in (Bodies \cup {Down}) \ {feed}
  /\ UNCHANGED <<wired, cached, cachedAt, pc, asked, now, local, told>>

Next ==
  \/ \E t \in Threads :
       \/ \E poiid \in Poiids \cup {Blank} : Ask(t, poiid)
       \/ LoadMap(t) \/ LoadStamp(t) \/ Fetched(t) \/ StoreMap(t) \/ StoreStamp(t)
  \/ Tick
  \/ FeedChanges

Spec == Init /\ [][Next]_vars

-----------------------------------------------------------------------------

TypeOK ==
  /\ wired \in BOOLEAN
  /\ feed \in Bodies \cup {Down}
  /\ cached.of \in Bodies \cup {Down} /\ cached.age \in 0..AgeCap
  /\ cachedAt \in {Never} \cup 0..AgeCap
  /\ pc \in [Threads -> {"idle", "clocked", "loaded", "fetching", "storing", "stamping"}]
  /\ asked \in [Threads -> Poiids \cup {Blank}]
  /\ now \in [Threads -> 0..Patience]
  /\ \A t \in Threads : local[t].of \in Bodies \cup {Down} /\ local[t].age \in 0..AgeCap

(* A snapshot that two threads stored in any order is as old as its stamp  *)
(* says, but for the time a fetch takes.                                   *)
StampTellsAge == cachedAt \in 0..Ttl - 1 => cached.age <= cachedAt + Patience

(* "Reused for the TTL window" (baditicker.py:20): whoever stores in what  *)
(* order, a reading from the cache is younger than the window and the      *)
(* fetch it came with, unless another thread stored between the two loads  *)
(* of :203.                                                                *)
ServedWithinTtl ==
  [][\A t \in Threads :
       pc[t] = "loaded" /\ pc'[t] = "idle" /\ local[t] = cached => told'[t].age < Ttl + Patience]_vars

(* What a body says of a bath, read without parsing it in order.           *)
Legible(body) ==
  /\ body.text = "utf-8"
  /\ \A bath \in Range(body.baths) : bath.poiid # Blank /\ bath.temperature # "junk" /\ bath.dated # Blank
Entries(body, poiid) == {i \in DOMAIN body.baths : body.baths[i].poiid = poiid}

(* A live answer is the last entry of its bath in a feed without a         *)
(* malformed one: an empty temperature is still an answer, an empty        *)
(* "open" cell is not "closed", and old is said to be old.  An error means *)
(* that there was no such entry to read (baditicker.py:131, query.py:230). *)
TemperatureTold ==
  \A t \in Threads :
    LET answer == told[t]
        entries == IF answer.of # Down /\ Legible(answer.of) THEN Entries(answer.of, asked[t]) ELSE {}
    IN /\ answer.code = "provider_error" => entries = {}
       /\ answer.code = "live" =>
            /\ entries # {}
            /\ LET bath == answer.of.baths[Max(entries)]
                IN /\ answer.reading.celsius = bath.temperature
                   /\ answer.reading.stale <=> bath.dated = "last year"
                   /\ answer.reading.open = "yes" <=> bath.open = "offen"
                   /\ answer.reading.open = "unknown" <=> bath.open = Blank
=============================================================================
