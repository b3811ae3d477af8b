------------------------ MODULE MCRegionCacheSystem -------------------------
(***************************************************************************)
(* Instances of RegionCacheSystem for TLC: two regions with peers on two   *)
(* stores merge, while the store that leads in the end gets its address.   *)
(***************************************************************************)
EXTENDS RegionCacheSystem, TLC

CONSTANTS none, a1, a2

PeerOn(store) == [id |-> 10 + store, store_id |-> store]

RegionOf(id, ver, start, end, leaderStore) ==
    [ver_id |-> [id |-> id, conf_ver |-> 1, ver |-> ver],
     start_key |-> start, end_key |-> end,
     peers |-> {PeerOn(1), PeerOn(2)}, leader |-> PeerOn(leaderStore)]

\* The two regions become one.
MergeTable == <<{RegionOf(1, 1, 0, 1, 1), RegionOf(2, 1, 1, 2, 1)},
                {RegionOf(2, 2, 0, 2, 2)}>>
StartTable == <<(1 :> a1 @@ 2 :> none), (1 :> a1 @@ 2 :> a2)>>

=============================================================================
