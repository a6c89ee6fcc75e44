---------------------------- MODULE MCBaditicker ----------------------------
(***************************************************************************)
(* Two threads, who store in either order and load what the other stores;  *)
(* a feed with a bath twice and an empty cell of each kind, and one for    *)
(* each thing that is malformed.                                           *)
(***************************************************************************)
EXTENDS Baditicker, TLC

CONSTANTS t1, t2, east, west

MCThreads == {t1, t2}
MCPoiids == {east, west}

Row(poiid, temperature, dated, open) ==
  [poiid |-> poiid, temperature |-> temperature, dated |-> dated, open |-> open]
Warm == Row(east, "warm", "today", "offen")
Utf8(baths) == [text |-> "utf-8", baths |-> baths]

MCBodies ==
  {Utf8(<<Warm, Row(west, "cold", "last year", Blank), Row(east, Blank, "today", "geschlossen")>>),
   Utf8(<<Row(west, Blank, "today", "offen"), Row(east, "cold", "today", Blank)>>),
   Utf8(<<Warm, Row(west, "junk", "today", "offen")>>),
   Utf8(<<Row(east, Blank, Blank, Blank), Warm>>),
   Utf8(<<Warm, Row(Blank, "warm", "today", Blank)>>),
   Utf8(<<>>),
   [text |-> "bytes", baths |-> <<Warm>>],
   [text |-> "no <baths>", baths |-> <<Warm>>]}

Symmetric == Permutations(MCThreads)
=============================================================================
