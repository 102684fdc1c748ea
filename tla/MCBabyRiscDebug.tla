--------------------------- MODULE MCBabyRiscDebug ---------------------------
(***************************************************************************)
(* Instances of BabyRiscDebug for TLC: one host thread, and the two        *)
(* threads of a ttexalens process that runs the GDB server.                *)
(***************************************************************************)
EXTENDS BabyRiscDebug

CONSTANTS main, gdb
=============================================================================
