--------------------------- MODULE MCRegionCache ----------------------------
(***************************************************************************)
(* Instances of RegionCache for TLC: scripts for PD over the keys 0..2,    *)
(* where 0 is the empty key, and regions with peers on three stores, one   *)
(* with an id that does not fit a uint16_t of four values.                 *)
(***************************************************************************)
EXTENDS RegionCache, TLC

PeerOn(store) == [id |-> 10 + store, store_id |-> store]

RegionOf(id, ver, start, end, leaderStore) ==
    [ver_id |-> [id |-> id, conf_ver |-> 1, ver |-> ver],
     start_key |-> start, end_key |-> end,
     peers |-> {PeerOn(1), PeerOn(2), PeerOn(6)}, leader |-> PeerOn(leaderStore)]

Leaderless(r) == [r EXCEPT !.leader = [id |-> 0, store_id |-> 0]]

\* A region splits, the right half elects its first leader, and then the halves
\* merge again.
MergeTable ==
    <<{RegionOf(1, 1, 0, 2, 1)},
      {RegionOf(1, 2, 0, 1, 1), Leaderless(RegionOf(3, 2, 1, 2, 6))},
      {RegionOf(1, 2, 0, 1, 1), RegionOf(3, 2, 1, 2, 6)},
      {RegionOf(3, 3, 0, 2, 6)}>>

\* A fresh cluster, as the tests find it: one region, the whole key space.
WholeTable == <<{RegionOf(1, 1, 0, 0, 1)}>>

Symmetry == Permutations(Threads)

=============================================================================
