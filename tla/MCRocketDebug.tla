---------------------------- MODULE MCRocketDebug ----------------------------
(***************************************************************************)
(* Instance of RocketDebug for TLC: one hart, two values of a register.    *)
(***************************************************************************)
EXTENDS RocketDebug

CONSTANTS h1, v1, v2
=============================================================================
