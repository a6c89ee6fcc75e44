---------------------------- MODULE RefreshPolicy ----------------------------
(***************************************************************************)
(* The decisions of src/swimzh/etl/refresh.py and of the error taxonomy it *)
(* rests on (core/errors.py, core/http.py), as operators without state.    *)
(* SilverRefresh runs them for one source over the disk cache, GoldBuild   *)
(* runs them for the four sources of a build.                              *)
(***************************************************************************)
EXTENDS Integers

(* What one GET of one page comes to.  `garbled` is a 200 whose body the   *)
(* provider cannot parse; `missing` stands for every 4xx but 429;          *)
(* `unreachable` for a timeout, a refused connection or a redirect loop,   *)
(* which httpx raises and the disk cache therefore never sees.             *)
Answer == {"ok", "garbled", "missing", "rate_limited", "server_error", "unreachable"}

(* errors.retriable(): the causes HttpClient.get tries again.              *)
Retriable(a) == a \in {"rate_limited", "unreachable"}

(* refresh.transient(): the causes a kept document may stand in for.       *)
Transient(a) == Retriable(a) \/ a = "server_error"

Status == {"absent", "fresh", "stale"}

Reason == {"not_transient", "first_run", "too_stale"}

(* Mutant of Due: a stale keep counts as an answer inside the TTL.         *)
DueForgetsStale(status, age, force, ttl) ==
  status = "absent" \/ force \/ (status = "fresh" /\ age >= ttl)

(* Whether refresh_source has to fetch: nothing stored, forced, a stale    *)
(* keep, or a fresh document at least `ttl` old.                           *)
Due(status, age, force, ttl) ==
  \/ status \in {"absent", "stale"}
  \/ force
  \/ age >= ttl

(* Mutant of Verdict: no max_stale.                                        *)
VerdictNoLimit(status, age, error, maxStale) ==
  IF Transient(error) /\ status # "absent" THEN "keep" ELSE "not_transient"

(* What refresh_source makes of a failed fetch: keep the document, or the  *)
(* reason it may not.                                                      *)
Verdict(status, age, error, maxStale) ==
  CASE ~Transient(error) -> "not_transient"
    [] Transient(error) /\ status = "absent" -> "first_run"
    [] Transient(error) /\ status # "absent" /\ age > maxStale -> "too_stale"
    [] OTHER -> "keep"

(* Ages grow by one per tick and stop at `cap`, past which no comparison   *)
(* of the code tells two ages apart.                                       *)
Older(age, cap) == IF age < cap THEN age + 1 ELSE age
==============================================================================
