---------------------------- MODULE MCStoreCache ----------------------------
(***************************************************************************)
(* Instances of StoreCache for TLC: two stores, one of which moves twice,  *)
(* back to its first address in the end.                                   *)
(***************************************************************************)
EXTENDS StoreCache, TLC

CONSTANTS s1, s2, a1, a2

MovingTable == <<[s \in Store |-> a1],
                 [s \in Store |-> IF s = s1 THEN a2 ELSE a1],
                 [s \in Store |-> a1]>>

Symmetry == Permutations(Threads)

=============================================================================
