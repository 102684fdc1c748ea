--------------------------- MODULE MCUmdTransport ---------------------------
(***************************************************************************)
(* Instances of UmdTransport for TLC: one device with MMIO, one without,   *)
(* and two Ethernet cores between them.                                    *)
(***************************************************************************)
EXTENDS UmdTransport

CONSTANTS t1, t2, m, r, other, e1, e2

TwoEths == <<e1, e2>>
=============================================================================
