------------------------ MODULE MCClusterMembership ------------------------
(***************************************************************************)
(* Instances of ClusterMembership for TLC.                                 *)
(***************************************************************************)
EXTENDS ClusterMembership

CONSTANTS a, b, c, d, e

FiveServers == {a, b, c, d, e}
ThreeKept == {a, b, c}
==============================================================================
