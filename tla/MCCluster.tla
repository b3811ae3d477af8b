----------------------------- MODULE MCCluster ------------------------------
(***************************************************************************)
(* An instance of Cluster for TLC: one store, regions 1 to 3, and keys 0   *)
(* to 3, so that both halves of a split can be split again.                *)
(***************************************************************************)
EXTENDS Cluster, TLC

=============================================================================
