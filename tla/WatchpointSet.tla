--------------------------- MODULE WatchpointSet ---------------------------
(***************************************************************************)
(* What the GDB server promises of Z and z packets: a core holds a set of  *)
(* at most Limit breakpoints and watchpoints.  An insertion is refused     *)
(* only when the set is full, a removal only when there is nothing to      *)
(* remove, and no packet touches what it does not name.                    *)
(***************************************************************************)
EXTENDS Naturals, FiniteSets

CONSTANTS Points, Limit

VARIABLES planted, reply

Init == planted = {} /\ reply = "none"

Insert(w) ==
  \/ /\ Cardinality(planted \cup {w}) <= Limit
     /\ planted' = planted \cup {w}
     /\ reply' = "OK"
  \/ /\ w \notin planted
     /\ Cardinality(planted) = Limit
     /\ reply' = "E01"
     /\ UNCHANGED planted

Remove(w) ==
  /\ planted' = planted \ {w}
  /\ reply' = IF w \in planted THEN "OK" ELSE "unsupported"

\* The session ends in the middle of a packet, which may have had its effect.
Abandon(w) ==
  /\ planted' \in {planted, planted \ {w}, planted \cup {w}}
  /\ Cardinality(planted') <= Limit
  /\ reply' = "none"

\* The next packet is awaited.
Await == reply' = "none" /\ UNCHANGED planted

Next == Await \/ \E w \in Points : Insert(w) \/ Remove(w) \/ Abandon(w)

Spec == Init /\ [][Next]_<<planted, reply>>
===========================================================================
