---------------------------- MODULE MCGdbSession ----------------------------
(***************************************************************************)
(* Instances of GdbSession for TLC: one or two cores.                    *)
(***************************************************************************)
EXTENDS GdbSession
=============================================================================
