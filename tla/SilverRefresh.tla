---------------------------- MODULE SilverRefresh ----------------------------
(***************************************************************************)
(* One silver source through one run after another: refresh_source         *)
(* (etl/refresh.py) deciding over the lake's document, the provider's      *)
(* fetch loop (etl/scrape.py), HttpClient's retries (core/http.py) and the *)
(* disk cache under it (core/httpcache.py), while the city's pages break   *)
(* and heal and runs are killed half way.                                  *)
(*                                                                         *)
(* Time is the age of things.  A run is short against the hours the        *)
(* policies count in, so no age grows during a run.                        *)
(***************************************************************************)
EXTENDS RefreshPolicy

CONSTANTS
  NPages,       \* pages the source is scraped from, in fetch order
  MaxAttempts,  \* RetryPolicy.max_attempts
  Ttl,          \* CachePolicy.ttl_s of the silver source
  CacheTtl,     \* CachePolicy.ttl_s stamped on the pages' requests
  MaxStale,     \* CachePolicy.max_stale_s
  Modes,        \* the cache modes this machine runs with
  DiskFaults,   \* TRUE when a cache write may fail
  CityAnswers,  \* the answers the city is explored with
  AgeCap,       \* bound: ages stop growing here
  MaxCrashes    \* bound: runs that may be killed

ASSUME RefreshAssumption ==
  /\ NPages \in Nat \ {0}
  /\ MaxAttempts \in Nat \ {0}
  /\ CacheTtl \in Nat \ {0}
  /\ Ttl \in Nat /\ MaxStale \in Nat /\ Ttl <= MaxStale
  /\ Modes \subseteq {"use", "refresh", "off"}
  /\ DiskFaults \in BOOLEAN
  /\ CityAnswers \subseteq Answer
  /\ AgeCap \in Nat /\ AgeCap >= MaxStale + CacheTtl
  /\ MaxCrashes \in Nat

VARIABLES
  city,        \* what each page would answer now
  cache,       \* the disk cache: the stored answer of each page and its age
  silver,      \* the lake's document: status, age of fetched_at, age of its bytes
  pc,          \* "idle", "fetching", "settling"
  mode,        \* the running process's CacheMode
  page,        \* the page being fetched
  attempt,     \* HttpClient.get's attempt at it
  failures,    \* the failed pages' causes, in fetch order (ScrapeReport.failures)
  oldest,      \* age of the oldest bytes this run has parsed
  outcome,     \* how the last run ended
  back,        \* observer: every page has answered ok since this run began
  bypassed,    \* observer: some page has been used that the cache never got
  crashes      \* observer: runs killed so far

runVars == <<pc, mode, page, attempt, failures, oldest>>
vars == <<city, cache, silver, runVars, outcome, back, bypassed, crashes>>

Pages == 1..NPages
Ages == 0..AgeCap

NoEntry == [answer |-> "none", age |-> 0]
NoSilver == [status |-> "absent", age |-> 0, bytes |-> 0]
NoFailures == [p \in Pages |-> "none"]
NoOutcome == [kind |-> "none", age |-> 0, bytes |-> 0]
Ended(kind, doc) == [kind |-> kind, age |-> doc.age, bytes |-> doc.bytes]

Served == {"reused", "fetched", "kept"}

TypeOK ==
  /\ city \in [Pages -> Answer]
  /\ cache \in [Pages -> [answer : Answer \cup {"none"}, age : Ages]]
  /\ silver \in [status : Status, age : Ages, bytes : Ages]
  /\ pc \in {"idle", "fetching", "settling"}
  /\ mode \in {"use", "refresh", "off"}
  /\ page \in 1..(NPages + 1)
  /\ attempt \in 1..MaxAttempts
  /\ failures \in [Pages -> Answer \cup {"none"}]
  /\ oldest \in Ages
  /\ outcome \in [kind : Served \cup Reason \cup {"none", "killed"}, age : Ages, bytes : Ages]
  /\ back \in BOOLEAN
  /\ bypassed \in BOOLEAN
  /\ crashes \in 0..MaxCrashes

Init ==
  /\ city \in [Pages -> CityAnswers]
  /\ cache = [p \in Pages |-> NoEntry]
  /\ silver = NoSilver
  /\ pc = "idle"
  /\ mode = "use"
  /\ page = 1
  /\ attempt = 1
  /\ failures = NoFailures
  /\ oldest = 0
  /\ outcome = NoOutcome
  /\ back = FALSE
  /\ bypassed = FALSE
  /\ crashes = 0

------------------------------------------------------------------------------
(* The environment: the city, and the hours between runs.                  *)

CityChanges(p, a) ==
  /\ city[p] # a
  /\ city' = [city EXCEPT ![p] = a]
  /\ back' = (back /\ a = "ok")
  /\ UNCHANGED <<cache, silver, runVars, outcome, bypassed, crashes>>

(* Mutant of AgedEntry: entries outlive their expiry.                      *)
AgedForEver(e) == IF e.answer = "none" THEN NoEntry ELSE [e EXCEPT !.age = Older(@, AgeCap)]

(* An entry past its expiry is a miss, so it need not be told from none.   *)
AgedEntry(e) ==
  IF e.answer = "none" \/ e.age + 1 >= CacheTtl THEN NoEntry
  ELSE [e EXCEPT !.age = e.age + 1]

AgedSilver(s) ==
  IF s.status = "absent" THEN s
  ELSE [s EXCEPT !.age = Older(s.age, AgeCap), !.bytes = Older(s.bytes, AgeCap)]

Tick ==
  /\ pc = "idle"
  /\ cache' = [p \in Pages |-> AgedEntry(cache[p])]
  /\ silver' = AgedSilver(silver)
  /\ UNCHANGED <<city, runVars, outcome, back, bypassed, crashes>>

------------------------------------------------------------------------------
(* refresh_source                                                          *)

(* Inside the TTL the stored document is the answer.                       *)
Reuse(force) ==
  /\ pc = "idle"
  /\ ~Due(silver.status, silver.age, force, Ttl)
  /\ outcome' = Ended("reused", silver)
  /\ UNCHANGED <<city, cache, silver, runVars, back, bypassed, crashes>>

StartFetch(force, m) ==
  /\ pc = "idle"
  /\ Due(silver.status, silver.age, force, Ttl)
  /\ pc' = "fetching"
  /\ mode' = m
  /\ page' = 1
  /\ attempt' = 1
  /\ failures' = NoFailures
  /\ oldest' = 0
  /\ back' = \A p \in Pages : city[p] = "ok"
  /\ outcome' = NoOutcome
  /\ UNCHANGED <<city, cache, silver, bypassed, crashes>>

(* What HttpClient.get makes of one answer (try again, or give it to the   *)
(* scrape) and what the scrape makes of the page: every page is asked, a   *)
(* failed one is noted.                                                    *)
Take(a, age) ==
  IF Retriable(a) /\ attempt < MaxAttempts
    THEN /\ attempt' = attempt + 1
         /\ UNCHANGED <<pc, mode, page, failures, oldest>>
    ELSE /\ attempt' = 1
         /\ page' = page + 1
         /\ pc' = IF page = NPages THEN "settling" ELSE "fetching"
         /\ failures' = [failures EXCEPT ![page] = IF a = "ok" THEN "none" ELSE a]
         /\ oldest' = IF a = "ok" /\ age > oldest THEN age ELSE oldest
         /\ UNCHANGED mode

(* Mutant of CacheHit: a run told to refetch is answered from the disk.    *)
CacheHitAnyMode ==
  /\ pc = "fetching"
  /\ cache[page].answer # "none"
  /\ Take(cache[page].answer, cache[page].age)
  /\ UNCHANGED <<city, cache, silver, outcome, back, bypassed, crashes>>

(* DiskCacheTransport.handle_request, USE: a fresh entry answers, whatever *)
(* status it holds.                                                        *)
CacheHit ==
  /\ pc = "fetching"
  /\ mode = "use"
  /\ cache[page].answer # "none"
  /\ Take(cache[page].answer, cache[page].age)
  /\ UNCHANGED <<city, cache, silver, outcome, back, bypassed, crashes>>

(* Mutant of Ask: a refresh run does not overwrite what is cached.         *)
AskKeepsEntry(stored) ==
  /\ pc = "fetching"
  /\ ~(mode = "use" /\ cache[page].answer # "none")
  /\ stored \in (IF DiskFaults THEN BOOLEAN ELSE {TRUE})
  /\ cache' = IF stored /\ mode = "use" /\ city[page] # "unreachable"
                THEN [cache EXCEPT ![page] = [answer |-> city[page], age |-> 0]]
                ELSE cache
  /\ bypassed' = (bypassed \/ (city[page] = "ok" /\ ~(stored /\ mode # "off")))
  /\ Take(city[page], 0)
  /\ UNCHANGED <<city, silver, outcome, back, crashes>>

(* The network: _fetch_and_store keeps every response, and a disk fault    *)
(* loses the write without a word.  OFF never writes; what httpx raises    *)
(* is never stored.                                                        *)
Ask(stored) ==
  /\ pc = "fetching"
  /\ ~(mode = "use" /\ cache[page].answer # "none")
  /\ stored \in (IF DiskFaults THEN BOOLEAN ELSE {TRUE})
  /\ cache' = IF stored /\ mode # "off" /\ city[page] # "unreachable"
                THEN [cache EXCEPT ![page] = [answer |-> city[page], age |-> 0]]
                ELSE cache
  /\ bypassed' = (bypassed \/ (city[page] = "ok" /\ ~(stored /\ mode # "off")))
  /\ Take(city[page], 0)
  /\ UNCHANGED <<city, silver, outcome, back, crashes>>

(* report.failures[0]                                                      *)
Failed == \E p \in Pages : failures[p] # "none"
FirstFailure ==
  failures[CHOOSE p \in Pages :
             failures[p] # "none" /\ \A q \in 1..(p - 1) : failures[q] = "none"]

(* A process that has ended: what it knew is gone.                         *)
Gone ==
  /\ pc' = "idle"
  /\ mode' = "use"
  /\ page' = 1
  /\ attempt' = 1
  /\ failures' = NoFailures
  /\ oldest' = 0
  /\ back' = FALSE

(* What a settled run leaves in the lake and answers its caller.           *)
Settle(doc, kind) ==
  /\ Gone
  /\ silver' = doc
  /\ outcome' = Ended(kind, doc)
  /\ UNCHANGED <<city, cache, bypassed, crashes>>

WriteFresh ==
  /\ pc = "settling"
  /\ ~Failed
  /\ Settle([status |-> "fresh", age |-> 0, bytes |-> oldest], "fetched")

(* Mutant of MarkStale: the rewritten header is stamped anew.              *)
MarkStaleRestamps ==
  /\ pc = "settling"
  /\ Failed
  /\ Verdict(silver.status, silver.age, FirstFailure, MaxStale) = "keep"
  /\ Settle([silver EXCEPT !.status = "stale", !.age = 0], "kept")

(* Lake.mark_stale rewrites the header only.                               *)
MarkStale ==
  /\ pc = "settling"
  /\ Failed
  /\ Verdict(silver.status, silver.age, FirstFailure, MaxStale) = "keep"
  /\ Settle([silver EXCEPT !.status = "stale"], "kept")

Fail ==
  /\ pc = "settling"
  /\ Failed
  /\ LET verdict == Verdict(silver.status, silver.age, FirstFailure, MaxStale)
     IN verdict # "keep" /\ Settle(silver, verdict)

(* Mutant of Killed: a document truncated half way through its write.      *)
KilledMidWrite ==
  /\ pc = "settling"
  /\ crashes < MaxCrashes
  /\ crashes' = crashes + 1
  /\ Gone
  /\ silver' = NoSilver
  /\ outcome' = Ended("killed", NoSilver)
  /\ UNCHANGED <<city, cache, bypassed>>

(* The process dies; every lake write is whole-file atomic.                *)
Killed ==
  /\ pc # "idle"
  /\ crashes < MaxCrashes
  /\ crashes' = crashes + 1
  /\ Gone
  /\ outcome' = Ended("killed", silver)
  /\ UNCHANGED <<city, cache, silver, bypassed>>

Run ==
  \/ \E force \in BOOLEAN : Reuse(force)
  \/ \E force \in BOOLEAN, m \in Modes : StartFetch(force, m)
  \/ CacheHit
  \/ \E stored \in BOOLEAN : Ask(stored)
  \/ WriteFresh
  \/ MarkStale
  \/ Fail

Next ==
  \/ Run
  \/ Killed
  \/ Tick
  \/ \E p \in Pages, a \in CityAnswers : CityChanges(p, a)

(* Runs are triggered for ever, a run that began goes on, time passes.     *)
Fairness ==
  /\ SF_vars(Tick)
  /\ WF_vars(CacheHit)
  /\ WF_vars(\E stored \in BOOLEAN : Ask(stored))
  /\ WF_vars(WriteFresh \/ MarkStale \/ Fail)
  /\ SF_vars(\E m \in Modes : StartFetch(FALSE, m))

Spec == Init /\ [][Next]_vars
FairSpec == Spec /\ Fairness

------------------------------------------------------------------------------
(* Properties                                                              *)

(* No run hands its caller facts whose BYTES are older than the source's   *)
(* max_stale plus one cache TTL: the age a header states is at most one    *)
(* cache TTL short of the truth, over any chain of keeps, reuses, forced   *)
(* runs and replayed pages (refresh.py:115-136 over httpcache.py:352).     *)
ServedBytesBounded ==
  outcome.kind \in Served =>
    /\ outcome.age <= MaxStale
    /\ outcome.bytes < MaxStale + CacheTtl

(* The document's header never claims bytes to be more than one cache TTL  *)
(* younger than they are, whatever runs have rewritten it (lake.py:191,    *)
(* lake.py:201).                                                           *)
HeaderWithinCacheTtl ==
  silver.status # "absent" => silver.bytes < silver.age + CacheTtl

(* No run puts older facts where newer ones were: a payload is replaced    *)
(* only by one whose oldest byte is at least as young, for as long as      *)
(* every answer reached the cache: an OFF run or a lost cache write leaves *)
(* an older answer behind there (httpcache.py:286, 350).                   *)
PayloadNeverGoesBack ==
  [][pc = "settling" /\ silver.status # "absent" /\ ~bypassed
       => silver'.bytes <= silver.bytes]_vars

(* Nothing a run does loses the one copy of the facts: no failed, kept or  *)
(* killed run empties the lake or touches the payload (lake.py:166).       *)
FailureKeepsPayload ==
  [][pc # "idle" /\ pc' = "idle" /\ outcome'.kind # "fetched"
       => /\ silver'.bytes = silver.bytes /\ silver'.age = silver.age
          /\ silver'.status = "absent" => silver.status = "absent"]_vars

(* A stale keep heals the moment the source is back: a run during which    *)
(* every page would have answered ok does not keep (refresh.py:116).       *)
HealsWhenBack == [][MarkStale => ~back]_vars

(* ... which a run told to go past the cache always does, through retries  *)
(* and failing pages.                                                      *)
HealsUncached == [][MarkStale => ~back \/ mode = "use"]_vars

(* Once the city stays well, the document is in the end fresh for good:    *)
(* neither a stale mark nor a replayed error is a trap.                    *)
CityWell == \A p \in Pages : city[p] = "ok"
HealsEventually == <>[]CityWell => <>[](silver.status = "fresh")

(* One run over cache, retries and failing pages is one step of the lake's *)
(* promise or none (refresh.py:100-143).                                   *)
Ledger == INSTANCE SilverLedger
  WITH Sources <- {"source"}, KeepLimit <- [s \in {"source"} |-> MaxStale], Cap <- AgeCap,
       docs <- [s \in {"source"} |-> [status |-> silver.status, age |-> silver.age]]
LedgerKept == Ledger!LedgerSpec
==============================================================================
