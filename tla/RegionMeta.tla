----------------------------- MODULE RegionMeta -----------------------------
(***************************************************************************)
(* The metadata records of include/meta.h and the pure operations on them. *)
(*                                                                         *)
(* Keys are the byte strings of the key space.  Only their order and the   *)
(* empty string matter to the client, so a key is a natural number and the *)
(* empty string, which std::string::compare puts before every other key,   *)
(* is 0.  An end_key of 0 therefore stands for "no upper bound", exactly   *)
(* as an empty end_key does.                                               *)
(*                                                                         *)
(* The peers of a region are a set: a region has at most one peer on a     *)
(* store and peer ids are unique, so the last match that the loops of      *)
(* switch_leader keep is the only one.                                     *)
(***************************************************************************)
EXTENDS Integers

CONSTANTS
    Key,      \* the keys in use, the empty key among them
    U16       \* the number of values of a uint16_t (2^16 in the build)

EmptyKey == 0

ASSUME KeyAssumption == Key \subseteq Nat /\ EmptyKey \in Key
ASSUME U16Assumption == U16 \in Nat \ {0}

VerID == [id : Nat, conf_ver : Nat, ver : Nat]
Peer  == [id : Nat, store_id : Nat]
Region == [ver_id : VerID, start_key : Key, end_key : Key,
           peers : SUBSET Peer, leader : Peer]

\* A default-constructed RegionVerID, Peer and Region.
NoVerID  == [id |-> 0, conf_ver |-> 0, ver |-> 0]
NoPeer   == [id |-> 0, store_id |-> 0]
NoRegion == [ver_id |-> NoVerID, start_key |-> EmptyKey, end_key |-> EmptyKey,
             peers |-> {}, leader |-> NoPeer]

\* RegionVerID::operator<, the order by which std::map compares its keys:
\* region id first, then version, then configuration version.
VerLess(a, b) ==
    \/ a.id < b.id
    \/ a.id = b.id /\ a.ver < b.ver
    \/ a.id = b.id /\ a.ver = b.ver /\ a.conf_ver < b.conf_ver

\* Region::contains and key_loc::contains.
Contains(r, key) ==
    /\ r.start_key <= key
    /\ key < r.end_key \/ r.end_key = EmptyKey

\* The peer of region r that a switch_leader loop with test P settles on:
\* the matching peer, or the present leader when no peer matches.
LeaderAmong(r, matching) ==
    IF matching = {} THEN r.leader ELSE CHOOSE p \in matching : TRUE

SwitchLeaderAnyway(r, storeId) ==
    LET matching == {p \in r.peers : p.store_id = storeId}
    IN  [r EXCEPT !.leader = LeaderAmong(r, IF matching = {} THEN r.peers ELSE matching)]
\* Region::switch_leader
SwitchLeader(r, storeId) ==
    [r EXCEPT !.leader = LeaderAmong(r, {p \in r.peers : p.store_id = storeId})]

\* Region::switch_leader_by_peer_id
SwitchLeaderByPeerId(r, peerId) ==
    [r EXCEPT !.leader = LeaderAmong(r, {p \in r.peers : p.id = peerId})]

\* operator[] of a std::map, assigned to
Put(map, k, x) == [j \in DOMAIN map \cup {k} |-> IF j = k THEN x ELSE map[j]]

\* The truncation of a store id to the uint16_t parameter of
\* RegionCache::update_region_leader.
ToUint16(storeId) == storeId % U16

-----------------------------------------------------------------------------
(* What a history of the regions of a cluster, table[1], table[2], ..., is *)
(* expected to keep to.                                                    *)

\* Regions that are ever served under the same version have the same range.
VersionsFixRanges(table) ==
    \A i, j \in DOMAIN table : \A p \in table[i], q \in table[j] :
        p.ver_id = q.ver_id => p.start_key = q.start_key /\ p.end_key = q.end_key

\* Regions only ever split: a later region that shares a key with an earlier
\* one lies within it.
OnlySplits(table) ==
    \A i, j \in DOMAIN table : \A p \in table[i], q \in table[j] :
        (i <= j /\ \E k \in Key : Contains(p, k) /\ Contains(q, k))
            => \A k \in Key : Contains(q, k) => Contains(p, k)

\* No two regions of one moment end at the same key.
DistinctEnds(table) ==
    \A i \in DOMAIN table : \A p, q \in table[i] :
        p.end_key = q.end_key => p.ver_id = q.ver_id

\* Every region has one of its peers as its leader.
NamesLeaders(table) ==
    \A i \in DOMAIN table : \A p \in table[i] : p.leader \in p.peers

\* A version that is gone does not come back.
NeverReturns(table) ==
    \A i, j, k \in DOMAIN table : \A p \in table[i], q \in table[k] :
        (i <= j /\ j <= k /\ p.ver_id = q.ver_id)
            => \E r \in table[j] : r.ver_id = p.ver_id

=============================================================================
