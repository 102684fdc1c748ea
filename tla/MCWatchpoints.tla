--------------------------- MODULE MCWatchpoints ---------------------------
(***************************************************************************)
(* Instances of Watchpoints for TLC: two slots and two addresses fill the  *)
(* slots, empty them in any order and leave holes before planted points.   *)
(***************************************************************************)
EXTENDS Watchpoints

CONSTANTS a1, a2, none
===========================================================================
