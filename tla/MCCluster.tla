-------------------------------- MODULE MCCluster --------------------------------
(***************************************************************************)
(* Constants for the model-checking runs of Cluster.                       *)
(***************************************************************************)
EXTENDS ClusterInvariant, TLC

CONSTANTS m1, m2, m3, u1, u2, o1

OneEach == (u1 :> m1) @@ (u2 :> m2)
==================================================================================
