-------------------------- MODULE MCClusterManager --------------------------
(* Small instances of ClusterManager for TLC. *)
EXTENDS ClusterManager, TLC

CONSTANTS w1, g1, l1, l2

\* One worker with one GPU, and two claims that compete for it.
MCHost == g1 :> w1
MCOn   == (l1 :> g1) @@ (l2 :> g1)
=============================================================================
