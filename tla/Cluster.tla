------------------------------ MODULE Cluster -------------------------------
(***************************************************************************)
(* Class Cluster (test/mocktikv.{h,cc}), the stand-in for TiKV and PD that *)
(* the tests of the client use, with the parts of Region (include/meta.h)  *)
(* that only it calls.                                                     *)
(*                                                                         *)
(* Its methods take no lock and one thread calls them: each is one step.   *)
(* They check next to nothing, and callers may do as they like; legal says *)
(* whether they have kept to what the methods tacitly expect.  The two     *)
(* parallel vectors of store ids and peer ids that bootstrap and split     *)
(* take are one function from stores to peer ids.                          *)
(***************************************************************************)
EXTENDS RegionMeta, Sequences, Functions

CONSTANTS
    RegionId, PeerId, StoreId, Addr,
    MaxHistory  \* bound on the calls of bootstrap and split

ASSUME IdAssumption ==
    RegionId \subseteq Nat /\ PeerId \subseteq Nat /\ StoreId \subseteq Nat
ASSUME MaxHistoryAssumption == MaxHistory \in Nat

VARIABLES
    regions,    \* regions_: region id -> Region
    stores,     \* stores_: store id -> address
    table,      \* history: the regions after each call that changed them
    legal       \* history: the cluster was bootstrapped once, and every split
                \* was of a region it has, inside it, under a fresh region id

vars == <<regions, stores, table, legal>>

\* The constructor Region(region_id, store_ids, peer_ids, leader_peer_id)
NewRegion(id, peerIds, leaderId) ==
    SwitchLeaderByPeerId(
        [NoRegion EXCEPT
            !.ver_id = [NoVerID EXCEPT !.id = id],
            !.peers = {[id |-> peerIds[s], store_id |-> s] : s \in DOMAIN peerIds}],
        leaderId)

UpdateKeyRangeBackwards(r, start, end) ==
    [r EXCEPT !.start_key = start, !.end_key = end,
              !.ver_id = [r.ver_id EXCEPT !.ver = r.ver_id.ver - 1]]
UpdateKeyRangeKeepsVer(r, start, end) ==
    [r EXCEPT !.start_key = start, !.end_key = end]
\* Region::update_key_range
UpdateKeyRange(r, start, end) ==
    [r EXCEPT !.start_key = start, !.end_key = end,
              !.ver_id = [r.ver_id EXCEPT !.ver = r.ver_id.ver + 1]]

SplitOffTooLate(r, newId, peerIds, leaderId, key) ==
    UpdateKeyRange(NewRegion(newId, peerIds, leaderId), key, key)
\* What Region::split returns: the right part of r, on the stores of r.
SplitOff(r, newId, peerIds, leaderId, key) ==
    UpdateKeyRange(NewRegion(newId, peerIds, leaderId), key, r.end_key)

\* The key lies inside the region and is not its first.
Inside(r, key) == Contains(r, key) /\ key # r.start_key

Regions == {regions[id] : id \in DOMAIN regions}

-----------------------------------------------------------------------------
\* Cluster::bootstrap
Bootstrap(id, peerIds, leaderId) ==
    /\ Len(table) < MaxHistory
    /\ regions' = Put(regions, id, NewRegion(id, peerIds, leaderId))
    /\ table' = Append(table, Regions')
    /\ legal' = (table = <<>>)
    /\ UNCHANGED stores

\* Cluster::split with Region::split.  operator[] makes a default region of
\* one that is not there; the assertion that there are as many peer ids as
\* peers is the domain of peerIds.
Split(id, newId, key, peerIds, leaderId) ==
    LET parent == IF id \in DOMAIN regions THEN regions[id] ELSE NoRegion
    IN  /\ Len(table) < MaxHistory
        /\ DOMAIN peerIds = {p.store_id : p \in parent.peers}
        /\ regions' = Put(Put(regions, id, UpdateKeyRange(parent, parent.start_key, key)),
                          newId, SplitOff(parent, newId, peerIds, leaderId, key))
        /\ table' = Append(table, Regions')
        /\ legal' = ( /\ legal
                      /\ id \in DOMAIN regions /\ newId \notin DOMAIN regions
                      /\ Inside(parent, key))
        /\ UNCHANGED stores

\* Cluster::add_store
AddStore(id, addr) ==
    /\ stores' = Put(stores, id, addr)
    /\ UNCHANGED <<regions, table, legal>>

\* Cluster::remove_store
RemoveStore(id) ==
    /\ stores' = Restrict(stores, DOMAIN stores \ {id})
    /\ UNCHANGED <<regions, table, legal>>

\* Distinct peer ids for some stores.
PeerIds == UNION {Injection(S, PeerId) : S \in SUBSET StoreId}

Init ==
    /\ regions = [id \in {} |-> NoRegion]
    /\ stores = [id \in {} |-> CHOOSE a \in Addr : TRUE]
    /\ table = <<>>
    /\ legal = TRUE

Next ==
    \/ \E id \in RegionId, peerIds \in PeerIds, leader \in PeerId :
        \/ Bootstrap(id, peerIds, leader)
        \/ \E newId \in RegionId, key \in Key : Split(id, newId, key, peerIds, leader)
    \/ \E id \in StoreId : RemoveStore(id) \/ \E addr \in Addr : AddStore(id, addr)

Spec == Init /\ [][Next]_vars

-----------------------------------------------------------------------------
(* Correctness.                                                            *)

\* Every variable has its type.
TypeOK ==
    /\ DOMAIN regions \subseteq RegionId /\ regions \in [DOMAIN regions -> Region]
    /\ DOMAIN stores \subseteq StoreId /\ stores \in [DOMAIN stores -> Addr]
    /\ table \in Seq(SUBSET Region)
    /\ legal \in BOOLEAN

\* However a bootstrapped cluster is split, each key is in exactly one of its
\* regions.
Partition ==
    (legal /\ table # <<>>) =>
        \A key \in Key : \E id \in DOMAIN regions :
            /\ Contains(regions[id], key)
            /\ \A other \in DOMAIN regions : Contains(regions[other], key) => other = id

\* The cluster behaves as the client's cache takes PD to behave: over all its
\* past a version stands for one range and never comes back, although each new
\* region starts over with version 1, and regions only ever split.
KeepsPDPromises ==
    legal => /\ VersionsFixRanges(table) /\ OnlySplits(table)
             /\ DistinctEnds(table) /\ NeverReturns(table)

=============================================================================
