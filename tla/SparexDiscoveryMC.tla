-------------------------- MODULE SparexDiscoveryMC --------------------------
(***************************************************************************)
(* Small instances of SparexDiscovery for TLC.                             *)
(***************************************************************************)
EXTENDS SparexDiscovery, TLC

CONSTANTS s1, s2, host1, host2

(* The dispatch worker runs on one host, the operator's shell on another.  *)
TwoHosts == s1 :> host1 @@ s2 :> host2
=============================================================================
