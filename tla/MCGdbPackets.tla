---------------------------- MODULE MCGdbPackets ----------------------------
(***************************************************************************)
(* Instances of GdbPackets for TLC.  "c" stands for the request that       *)
(* resumes cores; "#" has to be escaped, and its escaped form holds the    *)
(* byte of a break.                                                        *)
(***************************************************************************)
EXTENDS GdbPackets

c == <<99>>
Hash == <<HASH>>
BothPayloads == {c, Hash}
=============================================================================
