----------------------------- MODULE SilverLedger -----------------------------
(***************************************************************************)
(* What the lake promises about its silver documents (storage/lake.py,     *)
(* etl/refresh.py): a source's facts only ever get younger by being        *)
(* fetched anew, a document is kept as stale only while it is young        *)
(* enough, one document changes at a time, and nothing else happens to     *)
(* them but growing older.  SilverRefresh implements it for one source     *)
(* over the HTTP cache, GoldBuild for the four sources of a build.         *)
(***************************************************************************)
EXTENDS RefreshPolicy

CONSTANTS
  Sources,
  KeepLimit,   \* [Sources -> Nat]: the age past which a document is not kept
  Cap          \* ages stop growing here

VARIABLE docs  \* [Sources -> [status, age]]

Unfetched == [status |-> "absent", age |-> 0]

LedgerInit == docs = [s \in Sources |-> Unfetched]

(* A successful fetch: fresh facts, whatever was there.                    *)
Renew(s) == docs' = [docs EXCEPT ![s] = [status |-> "fresh", age |-> 0]]

(* An outage: the same facts, as old as they were, now under a stale mark. *)
Keep(s) ==
  /\ docs[s].status # "absent"
  /\ docs[s].age <= KeepLimit[s]
  /\ docs' = [docs EXCEPT ![s] = [status |-> "stale", age |-> docs[s].age]]

Grown(doc) ==
  IF doc.status = "absent" THEN doc
  ELSE [status |-> doc.status, age |-> Older(doc.age, Cap)]

GrowOlder == docs' = [s \in Sources |-> Grown(docs[s])]

LedgerNext == GrowOlder \/ \E s \in Sources : Renew(s) \/ Keep(s)

LedgerSpec == LedgerInit /\ [][LedgerNext]_docs
==============================================================================
