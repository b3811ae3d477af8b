------------------------ MODULE MCRegionCacheDump ---------------------------
(***************************************************************************)
(* An instance of RegionCacheDump for TLC: the whole key space splits, so  *)
(* that its right half takes the place of what is the last region.         *)
(***************************************************************************)
EXTENDS RegionCacheDump, TLC

PeerOn(store) == [id |-> 10 + store, store_id |-> store]

RegionOf(id, ver, start, end) ==
    [ver_id |-> [id |-> id, conf_ver |-> 1, ver |-> ver],
     start_key |-> start, end_key |-> end,
     peers |-> {PeerOn(1)}, leader |-> PeerOn(1)]

SplitTable == <<{RegionOf(1, 1, 0, 0)},
                {RegionOf(1, 2, 0, 1), RegionOf(3, 2, 1, 0)}>>

Symmetry == Permutations(Threads)

=============================================================================
