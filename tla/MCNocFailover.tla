--------------------------- MODULE MCNocFailover ---------------------------
(***************************************************************************)
(* Instances of NocFailover for TLC.  Two threads share a device with the  *)
(* two NOCs of a Wormhole or Blackhole, and go may name the system NOC,    *)
(* which that device does not have; three NOCs make the rotation of the    *)
(* failover order visible to go.                                           *)
(***************************************************************************)
EXTENDS NocFailover, TLC

CONSTANTS main, gdb, d1, noc0, noc1, system, none

ThreeNocs == 0 :> noc0 @@ 1 :> noc1 @@ 2 :> system
TwoNocs   == 0 :> noc0 @@ 1 :> noc1

OneDevice      == 1 :> d1
OneNumNocs     == d1 :> 3
OneAvailable   == d1 :> ThreeNocs

PairNumNocs    == d1 :> 2
PairAvailable  == d1 :> TwoNocs
===========================================================================
