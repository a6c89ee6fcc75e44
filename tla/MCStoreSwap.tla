----------------------------- MODULE MCStoreSwap -----------------------------
(* StoreSwap over every kind of file an earlier binary may have left:      *)
(* none, a readable one older than the bundled store, one of a newer       *)
(* schema, one that will not read.                                         *)
EXTENDS StoreSwap

MCDiskAtStart ==
  {NoFile, [build |-> 0, kind |-> "good"], [build |-> 2, kind |-> "foreign"],
   [build |-> 0, kind |-> "junk"]}
==============================================================================
