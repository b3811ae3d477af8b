--------------------------- MODULE ClusterProofs ----------------------------
(***************************************************************************)
(* Proofs about Cluster, for every set of keys, ids and stores.            *)
(*                                                                         *)
(* What the cluster promises relates regions of any two moments; the       *)
(* invariant Lawful relates each region of the past to the regions of now. *)
(***************************************************************************)
EXTENDS Cluster, RegionMetaProofs, TLAPS

\* A region is stored under its own id.
Named == \A id \in DOMAIN regions : regions[id].ver_id.id = id

Disjoint ==
    \A id, other \in DOMAIN regions : \A k \in Key :
        Contains(regions[id], k) /\ Contains(regions[other], k) => id = other

Covering ==
    table # <<>> => \A k \in Key : \E id \in DOMAIN regions : Contains(regions[id], k)

\* A region of the past still exists, under its version or a later one.
Kept(p) ==
    /\ p.ver_id.id \in DOMAIN regions
    /\ LET r == regions[p.ver_id.id]
       IN  /\ p.ver_id.ver <= r.ver_id.ver
           /\ p.ver_id = r.ver_id => p.start_key = r.start_key /\ p.end_key = r.end_key

\* The regions of now that share a key with one of the past lie within it.
Nests(p) ==
    \A id \in DOMAIN regions :
        (\E k \in Key : Contains(p, k) /\ Contains(regions[id], k))
            => \A k \in Key : Contains(regions[id], k) => Contains(p, k)

\* A region holds its first key.
Nonempty == \A id \in DOMAIN regions : Contains(regions[id], regions[id].start_key)

\* The history has come to the regions of now.
Latest == table # <<>> => table[Len(table)] = Regions

Past == \A i \in DOMAIN table : \A p \in table[i] : Kept(p) /\ Nests(p)

Lawful ==
    /\ Named /\ Disjoint /\ Covering /\ Nonempty
    /\ Latest /\ Past
    /\ VersionsFixRanges(table) /\ OnlySplits(table)
    /\ DistinctEnds(table) /\ NeverReturns(table)

IInv ==
    /\ TypeOK
    /\ table = <<>> => DOMAIN regions = {}
    /\ legal => Lawful

-----------------------------------------------------------------------------
(* Regions.                                                                *)

LEMMA NewRegionFacts ==
    ASSUME NEW id \in RegionId, NEW peerIds \in PeerIds, NEW leaderId
    PROVE  /\ NewRegion(id, peerIds, leaderId) \in Region
           /\ NewRegion(id, peerIds, leaderId).ver_id = [id |-> id, conf_ver |-> 0, ver |-> 0]
           /\ NewRegion(id, peerIds, leaderId).start_key = EmptyKey
           /\ NewRegion(id, peerIds, leaderId).end_key = EmptyKey
<1> DEFINE peers == {[id |-> peerIds[s], store_id |-> s] : s \in DOMAIN peerIds}
           bare == [NoRegion EXCEPT !.ver_id = [NoVerID EXCEPT !.id = id], !.peers = peers]
<1>1. peers \subseteq Peer
    <2>1. PICK S \in SUBSET StoreId : peerIds \in Injection(S, PeerId)
        BY DEF PeerIds
    <2>2. peerIds \in [S -> PeerId]
        BY <2>1 DEF Injection
    <2>3. ASSUME NEW s \in DOMAIN peerIds PROVE [id |-> peerIds[s], store_id |-> s] \in Peer
        BY <2>2, IdAssumption DEF Peer
    <2> QED
        BY <2>3
<1> HIDE DEF peers
<1>2. [NoVerID EXCEPT !.id = id] = [id |-> id, conf_ver |-> 0, ver |-> 0]
    BY DEF NoVerID
<1>3. bare = [ver_id |-> [id |-> id, conf_ver |-> 0, ver |-> 0],
              start_key |-> EmptyKey, end_key |-> EmptyKey,
              peers |-> peers, leader |-> NoPeer]
    <2> DEFINE v == [NoVerID EXCEPT !.id = id]
    <2>1. bare = [NoRegion EXCEPT !.ver_id = v, !.peers = peers]
        OBVIOUS
    <2>2. v = [id |-> id, conf_ver |-> 0, ver |-> 0]
        BY <1>2
    <2> HIDE DEF v, bare
    <2> QED
        BY <2>1, <2>2 DEF NoRegion
<1>4. NewRegion(id, peerIds, leaderId) = SwitchLeaderByPeerId(bare, leaderId)
    BY DEF NewRegion, peers
<1> HIDE DEF bare
<1>5. bare \in Region
    <2>1. [id |-> id, conf_ver |-> 0, ver |-> 0] \in VerID
        BY IdAssumption DEF VerID
    <2>2. NoPeer \in Peer
        BY DEF NoPeer, Peer
    <2> QED
        BY <1>1, <1>3, <2>1, <2>2, KeyAssumption DEF Region
<1> QED
    BY <1>3, <1>4, <1>5, SwitchLeaderByPeerIdKeeps

LEMMA UpdateKeyRangeFacts ==
    ASSUME NEW r \in Region, NEW start \in Key, NEW end \in Key
    PROVE  /\ UpdateKeyRange(r, start, end) \in Region
           /\ UpdateKeyRange(r, start, end).start_key = start
           /\ UpdateKeyRange(r, start, end).end_key = end
           /\ UpdateKeyRange(r, start, end).ver_id.id = r.ver_id.id
           /\ UpdateKeyRange(r, start, end).ver_id.ver = r.ver_id.ver + 1
<1> DEFINE v == [r.ver_id EXCEPT !.ver = r.ver_id.ver + 1]
<1>1. r.ver_id \in VerID
    BY DEF Region
<1>2. v \in VerID /\ v.id = r.ver_id.id /\ v.ver = r.ver_id.ver + 1
    BY <1>1 DEF VerID
<1>3. UpdateKeyRange(r, start, end) =
          [r EXCEPT !.start_key = start, !.end_key = end, !.ver_id = v]
    BY DEF UpdateKeyRange
<1> HIDE DEF v
<1> QED
    BY <1>2, <1>3 DEF Region

LEMMA NoRegionIsRegion == NoRegion \in Region
BY KeyAssumption DEF NoRegion, NoVerID, NoPeer, Region, VerID, Peer

\* A split cuts the keys of a region in two at the split key.
LEMMA Halves ==
    ASSUME NEW r \in Region, NEW key \in Key, Inside(r, key),
           NEW left \in Region, left.start_key = r.start_key, left.end_key = key,
           NEW right \in Region, right.start_key = key, right.end_key = r.end_key,
           NEW k \in Key
    PROVE  /\ Contains(left, k) <=> Contains(r, k) /\ k < key
           /\ Contains(right, k) <=> Contains(r, k) /\ key <= k
<1>1. r.start_key \in Nat /\ r.end_key \in Nat /\ key \in Nat /\ k \in Nat
    BY KeyAssumption DEF Region
<1> QED
    BY <1>1 DEF Inside, Contains, EmptyKey

-----------------------------------------------------------------------------
(* The calls.                                                              *)

\* Any call that puts regions into the map and notes the result is typed.
LEMMA TableGrows ==
    ASSUME TypeOK, TypeOK', table' = Append(table, Regions')
    PROVE  /\ table' # <<>>
           /\ DOMAIN table' = DOMAIN table \cup {Len(table) + 1}
           /\ \A i \in DOMAIN table : i \in Nat /\ i < Len(table) + 1 /\ table'[i] = table[i]
           /\ table'[Len(table) + 1] = Regions'
<1>1. table \in Seq(SUBSET Region) /\ Regions' \subseteq Region
    BY DEF TypeOK, Regions
<1> DEFINE now == Regions'
<1>2. table' = Append(table, now) /\ now \in SUBSET Region
    BY <1>1
<1> HIDE DEF now
<1>3. /\ Len(table') = Len(table) + 1 /\ Len(table) \in Nat
      /\ DOMAIN table = 1..Len(table) /\ DOMAIN table' = 1..(Len(table) + 1)
      /\ \A i \in 1..Len(table) : table'[i] = table[i]
      /\ table'[Len(table) + 1] = now
    BY <1>1, <1>2
<1>4. table' # <<>>
    BY <1>3
<1> QED
    BY <1>3, <1>4 DEF now

\* It is enough that the regions of now are right and that those of the past
\* have the relation Past to them.
LEMMA LawExtends ==
    ASSUME TypeOK, TypeOK', table' = Append(table, Regions'),
           VersionsFixRanges(table), OnlySplits(table),
           DistinctEnds(table), NeverReturns(table),
           Named', Disjoint', Covering', Nonempty',
           \A i \in DOMAIN table : \A p \in table[i] : Kept(p)' /\ Nests(p)',
           \A i \in DOMAIN table : \A p \in table[i], q \in Regions' :
               p.ver_id = q.ver_id => \E r \in table[Len(table)] : r.ver_id = p.ver_id
    PROVE  Lawful'
<1> DEFINE n == Len(table) + 1
<1>1. /\ DOMAIN table' = DOMAIN table \cup {n}
      /\ \A i \in DOMAIN table : i \in Nat /\ i < n /\ table'[i] = table[i]
      /\ table'[n] = Regions'
    BY TableGrows
<1>2. ASSUME NEW p \in Regions' PROVE Kept(p)' /\ Nests(p)'
    <2>1. PICK id \in DOMAIN regions' : p = regions'[id]
        BY DEF Regions
    <2>2. p.ver_id.id = id
        BY <2>1 DEF Named
    <2>3. p.ver_id.ver \in Nat
        BY <2>1 DEF TypeOK, Region, VerID
    <2>4. Kept(p)'
        BY <2>1, <2>2, <2>3 DEF Kept
    <2>5. Nests(p)'
        BY <2>1 DEF Nests, Disjoint
    <2> QED
        BY <2>4, <2>5
<1>3. Past'
    BY <1>1, <1>2 DEF Past
<1>4. VersionsFixRanges(table')
    <2> SUFFICES ASSUME NEW i \in DOMAIN table', NEW j \in DOMAIN table',
                        NEW p \in table'[i], NEW q \in table'[j], p.ver_id = q.ver_id
                 PROVE  p.start_key = q.start_key /\ p.end_key = q.end_key
        BY DEF VersionsFixRanges
    <2>1. \A x \in Regions' : x = regions'[x.ver_id.id]
        BY DEF Regions, Named
    <2>2. Kept(p)' /\ Kept(q)'
        BY <1>3 DEF Past
    <2>3. CASE i = n
        BY <1>1, <2>1, <2>2, <2>3 DEF Kept
    <2>4. CASE j = n
        BY <1>1, <2>1, <2>2, <2>4 DEF Kept
    <2>5. CASE i # n /\ j # n
        BY <1>1, <2>5 DEF VersionsFixRanges
    <2> QED
        BY <2>3, <2>4, <2>5
<1>5. OnlySplits(table')
    <2> SUFFICES ASSUME NEW i \in DOMAIN table', NEW j \in DOMAIN table',
                        NEW p \in table'[i], NEW q \in table'[j], i <= j,
                        \E k \in Key : Contains(p, k) /\ Contains(q, k)
                 PROVE  \A k \in Key : Contains(q, k) => Contains(p, k)
        BY DEF OnlySplits
    <2>1. CASE j = n
        <3>1. PICK id \in DOMAIN regions' : q = regions'[id]
            BY <1>1, <2>1 DEF Regions
        <3> QED
            BY <1>3, <3>1 DEF Past, Nests
    <2>2. CASE j # n
        <3>1. j \in DOMAIN table /\ j \in Nat /\ j < n
            BY <1>1, <2>2
        <3>2. i # n
            BY <3>1
        <3> QED
            BY <1>1, <3>1, <3>2 DEF OnlySplits
    <2> QED
        BY <2>1, <2>2
<1>6. Latest'
    BY <1>1, TableGrows DEF Latest
<1>7. DistinctEnds(table')
    <2> SUFFICES ASSUME NEW i \in DOMAIN table', NEW p \in table'[i], NEW q \in table'[i],
                        p.end_key = q.end_key
                 PROVE  p.ver_id = q.ver_id
        BY DEF DistinctEnds
    <2>1. CASE i = n
        <3>1. PICK a \in DOMAIN regions', b \in DOMAIN regions' :
                p = regions'[a] /\ q = regions'[b]
            BY <1>1, <2>1 DEF Regions
        <3>2. /\ p.start_key \in Nat /\ q.start_key \in Nat /\ p.end_key \in Nat
              /\ p.start_key \in Key /\ q.start_key \in Key
              /\ Contains(p, p.start_key) /\ Contains(q, q.start_key)
            BY <3>1, KeyAssumption DEF TypeOK, Region, Nonempty
        <3>3. Contains(p, q.start_key) \/ Contains(q, p.start_key)
            BY <3>2 DEF Contains
        <3> QED
            BY <3>1, <3>2, <3>3 DEF Disjoint
    <2>2. CASE i # n
        BY <1>1, <2>2 DEF DistinctEnds
    <2> QED
        BY <2>1, <2>2
<1>8. NeverReturns(table')
    <2> SUFFICES ASSUME NEW i \in DOMAIN table', NEW j \in DOMAIN table', NEW k \in DOMAIN table',
                        i <= j, j <= k,
                        NEW p \in table'[i], NEW q \in table'[k], p.ver_id = q.ver_id
                 PROVE  \E r \in table'[j] : r.ver_id = p.ver_id
        BY DEF NeverReturns
    <2>1. n \in Nat /\ \A x \in DOMAIN table : x <= Len(table) /\ Len(table) \in DOMAIN table
        BY DEF TypeOK
    <2>2. CASE j = n \/ i = n
        <3>1. j = n
            BY <1>1, <2>1, <2>2
        <3>2. k = n
            BY <1>1, <2>1, <3>1
        <3> QED
            BY <3>1, <3>2
    <2>3. CASE i # n /\ j # n /\ k = n
        <3>1. /\ i \in DOMAIN table /\ j \in DOMAIN table
              /\ p \in table[i] /\ q \in Regions' /\ table'[j] = table[j]
            BY <1>1, <2>3
        <3>2. PICK r \in table[Len(table)] : r.ver_id = p.ver_id
            BY <3>1
        <3> QED
            BY <2>1, <3>1, <3>2 DEF NeverReturns
    <2>4. CASE i # n /\ j # n /\ k # n
        BY <1>1, <2>4 DEF NeverReturns
    <2> QED
        BY <2>2, <2>3, <2>4
<1> QED
    BY <1>3, <1>4, <1>5, <1>6, <1>7, <1>8 DEF Lawful

\* A change of the regions is typed.
LEMMA ChangeTyped ==
    ASSUME TypeOK, table' = Append(table, Regions'), UNCHANGED stores,
           DOMAIN regions' \subseteq RegionId, regions' \in [DOMAIN regions' -> Region],
           legal' \in BOOLEAN
    PROVE  TypeOK' /\ (table' = <<>> => DOMAIN regions' = {})
<1> DEFINE now == Regions'
<1>1. now \in SUBSET Region /\ table' = Append(table, now) /\ table \in Seq(SUBSET Region)
    BY DEF Regions, TypeOK
<1> HIDE DEF now
<1>2. table' \in Seq(SUBSET Region) /\ Len(table') = Len(table) + 1 /\ Len(table) \in Nat
    BY <1>1
<1>3. table' # <<>>
    BY <1>2
<1> QED
    BY <1>2, <1>3 DEF TypeOK

LEMMA BootstrapStep ==
    ASSUME IInv, NEW id \in RegionId, NEW peerIds \in PeerIds, NEW leaderId \in PeerId,
           Bootstrap(id, peerIds, leaderId)
    PROVE  IInv'
<1> DEFINE r == NewRegion(id, peerIds, leaderId)
<1>1. /\ r \in Region /\ r.ver_id.id = id
      /\ r.start_key = EmptyKey /\ r.end_key = EmptyKey
    <2>1. /\ r \in Region /\ r.ver_id = [id |-> id, conf_ver |-> 0, ver |-> 0]
          /\ r.start_key = EmptyKey /\ r.end_key = EmptyKey
        BY NewRegionFacts
    <2> HIDE DEF r
    <2> QED
        BY <2>1
<1>2. /\ regions' = Put(regions, id, r) /\ table' = Append(table, Regions')
      /\ legal' = (table = <<>>) /\ UNCHANGED stores
    BY DEF Bootstrap
<1> HIDE DEF r
<1>3. /\ DOMAIN regions' = DOMAIN regions \cup {id} /\ regions'[id] = r
      /\ \A j \in DOMAIN regions \ {id} : regions'[j] = regions[j]
      /\ regions' = [j \in DOMAIN regions' |-> regions'[j]]
    BY <1>2 DEF Put
<1>4. TypeOK' /\ (table' = <<>> => DOMAIN regions' = {})
    <2>1. regions' \in [DOMAIN regions' -> Region] /\ DOMAIN regions' \subseteq RegionId
        BY <1>1, <1>3 DEF IInv, TypeOK
    <2>2. legal' \in BOOLEAN
        BY <1>2
    <2> QED
        BY <1>2, <2>1, <2>2, ChangeTyped DEF IInv
<1>5. ASSUME legal' PROVE Lawful'
    <2>1. table = <<>> /\ DOMAIN regions' = {id}
        BY <1>2, <1>3, <1>5 DEF IInv
    <2>2. Named' /\ Disjoint'
        BY <1>1, <1>3, <2>1 DEF Named, Disjoint
    <2>3. \A k \in Key : Contains(r, k)
        BY <1>1, KeyAssumption DEF Contains, EmptyKey
    <2>4. Covering'
        BY <1>3, <2>1, <2>3 DEF Covering
    <2>5. DOMAIN table = {}
        BY <2>1
    <2>6. /\ VersionsFixRanges(table) /\ OnlySplits(table)
          /\ DistinctEnds(table) /\ NeverReturns(table)
        BY <2>5 DEF VersionsFixRanges, OnlySplits, DistinctEnds, NeverReturns
    <2>7. Nonempty'
        BY <1>1, <1>3, <2>1, <2>3, KeyAssumption DEF Nonempty
    <2> QED
        BY <1>2, <1>4, <2>2, <2>4, <2>5, <2>6, <2>7, LawExtends DEF IInv
<1> QED
    BY <1>4, <1>5 DEF IInv

LEMMA SplitStep ==
    ASSUME IInv, NEW id \in RegionId, NEW newId \in RegionId, NEW key \in Key,
           NEW peerIds \in PeerIds, NEW leaderId \in PeerId,
           Split(id, newId, key, peerIds, leaderId)
    PROVE  IInv'
<1> DEFINE parent == IF id \in DOMAIN regions THEN regions[id] ELSE NoRegion
           left == UpdateKeyRange(parent, parent.start_key, key)
           fresh == NewRegion(newId, peerIds, leaderId)
           right == UpdateKeyRange(fresh, key, parent.end_key)
<1>1. /\ parent \in Region /\ parent.start_key \in Key /\ parent.end_key \in Key
      /\ parent.ver_id.ver \in Nat
    BY NoRegionIsRegion DEF IInv, TypeOK, Region, VerID
<1>2. /\ regions' = Put(Put(regions, id, left), newId, right)
      /\ table' = Append(table, Regions') /\ UNCHANGED stores
      /\ legal' = ( /\ legal
                    /\ id \in DOMAIN regions /\ newId \notin DOMAIN regions
                    /\ Inside(parent, key))
    BY DEF Split, SplitOff
<1> HIDE DEF left, right
<1>3. fresh \in Region /\ fresh.ver_id.id = newId
    <2>1. fresh \in Region /\ fresh.ver_id = [id |-> newId, conf_ver |-> 0, ver |-> 0]
        BY NewRegionFacts
    <2> HIDE DEF fresh
    <2> QED
        BY <2>1
<1> HIDE DEF fresh, parent
<1>4. /\ left \in Region /\ left.start_key = parent.start_key /\ left.end_key = key
      /\ left.ver_id.id = parent.ver_id.id /\ left.ver_id.ver = parent.ver_id.ver + 1
    <2> DEFINE start == parent.start_key
    <2>1. parent \in Region /\ start \in Key /\ left = UpdateKeyRange(parent, start, key)
        BY <1>1 DEF left
    <2> HIDE DEF start
    <2>2. /\ UpdateKeyRange(parent, start, key) \in Region
          /\ UpdateKeyRange(parent, start, key).start_key = start
          /\ UpdateKeyRange(parent, start, key).end_key = key
          /\ UpdateKeyRange(parent, start, key).ver_id.id = parent.ver_id.id
          /\ UpdateKeyRange(parent, start, key).ver_id.ver = parent.ver_id.ver + 1
        BY <2>1, UpdateKeyRangeFacts
    <2> QED
        BY <2>1, <2>2 DEF start
<1>5. /\ right \in Region /\ right.start_key = key /\ right.end_key = parent.end_key
      /\ right.ver_id.id = newId
    <2> DEFINE end == parent.end_key
    <2>1. end \in Key /\ right = UpdateKeyRange(fresh, key, end)
        BY <1>1 DEF right
    <2> HIDE DEF end
    <2>2. /\ UpdateKeyRange(fresh, key, end) \in Region
          /\ UpdateKeyRange(fresh, key, end).start_key = key
          /\ UpdateKeyRange(fresh, key, end).end_key = end
          /\ UpdateKeyRange(fresh, key, end).ver_id.id = fresh.ver_id.id
        BY <1>3, <2>1, UpdateKeyRangeFacts
    <2> QED
        BY <1>3, <2>1, <2>2 DEF end
<1>6. /\ DOMAIN regions' = DOMAIN regions \cup {id, newId} /\ regions'[newId] = right
      /\ id # newId => regions'[id] = left
      /\ \A j \in DOMAIN regions \ {id, newId} : regions'[j] = regions[j]
      /\ regions' = [j \in DOMAIN regions' |-> regions'[j]]
    BY <1>2 DEF Put
<1>7. TypeOK' /\ (table' = <<>> => DOMAIN regions' = {})
    <2>1. \A j \in DOMAIN regions' : regions'[j] \in Region
        BY <1>4, <1>5, <1>6 DEF IInv, TypeOK
    <2>2. regions' \in [DOMAIN regions' -> Region] /\ DOMAIN regions' \subseteq RegionId
        BY <1>6, <2>1 DEF IInv, TypeOK
    <2>3. legal' \in BOOLEAN
        BY <1>2 DEF IInv, TypeOK
    <2> QED
        BY <1>2, <2>2, <2>3, ChangeTyped DEF IInv
<1>8. ASSUME legal' PROVE Lawful'
    <2>1. /\ legal /\ Lawful /\ id \in DOMAIN regions /\ newId \notin DOMAIN regions
          /\ id # newId /\ parent = regions[id] /\ Inside(parent, key)
        BY <1>2, <1>8 DEF IInv, parent
    <2>2. /\ \A k \in Key : Contains(left, k) <=> Contains(parent, k) /\ k < key
          /\ \A k \in Key : Contains(right, k) <=> Contains(parent, k) /\ key <= k
        BY <1>1, <1>4, <1>5, <2>1, Halves
    <2>3. \A k \in Key : k \in Nat /\ key \in Nat
        BY KeyAssumption
    <2>4. parent.ver_id.id = id
        BY <2>1 DEF Lawful, Named
    <2>5. Named'
        BY <1>4, <1>5, <1>6, <2>1, <2>4 DEF Lawful, Named
    <2>6. Disjoint'
        <3> SUFFICES ASSUME NEW i \in DOMAIN regions', NEW j \in DOMAIN regions',
                            NEW k \in Key, Contains(regions'[i], k), Contains(regions'[j], k)
                     PROVE  i = j
            BY DEF Disjoint
        <3> DEFINE Origin(x) == IF x = newId THEN id ELSE x
        <3>1. \A x \in DOMAIN regions' :
                  /\ Origin(x) \in DOMAIN regions
                  /\ Contains(regions'[x], k) => Contains(regions[Origin(x)], k)
            BY <1>6, <2>1, <2>2
        <3>2. Origin(i) = Origin(j)
            BY <3>1, <2>1 DEF Lawful, Disjoint
        <3>3. ~(Contains(left, k) /\ Contains(right, k))
            BY <2>2, <2>3
        <3> QED
            BY <1>6, <2>1, <3>2, <3>3
    <2>7. Covering'
        <3> SUFFICES ASSUME table # <<>>, NEW k \in Key
                     PROVE  \E j \in DOMAIN regions' : Contains(regions'[j], k)
            <4>1. table # <<>>
                BY <2>1 DEF IInv
            <4> QED
                BY <4>1 DEF Covering
        <3>1. PICK j \in DOMAIN regions : Contains(regions[j], k)
            BY <2>1 DEF Lawful, Covering
        <3>2. CASE j = id
            <4>1. k < key \/ key <= k
                BY <2>3
            <4> QED
                BY <1>6, <2>1, <2>2, <3>1, <3>2, <4>1
        <3>3. CASE j # id
            BY <1>6, <2>1, <3>1, <3>3
        <3> QED
            BY <3>2, <3>3
    <2>8. ASSUME NEW i \in DOMAIN table, NEW p \in table[i] PROVE Kept(p)' /\ Nests(p)'
        <3>1. Kept(p) /\ Nests(p)
            BY <2>1 DEF Lawful, Past
        <3>2. p.ver_id.ver \in Nat /\ p.ver_id.id # newId
            <4>1. p \in Region
                <5>1. table[i] \in SUBSET Region
                    BY DEF IInv, TypeOK
                <5> QED
                    BY <5>1
            <4> QED
                BY <2>1, <3>1, <4>1 DEF Region, VerID, Kept
        <3>3. Kept(p)'
            <4>1. CASE p.ver_id.id = id
                <5>1. regions'[id] = left /\ p.ver_id.ver <= parent.ver_id.ver
                    BY <1>6, <2>1, <3>1, <4>1 DEF Kept
                <5>2. p.ver_id # left.ver_id /\ p.ver_id.ver <= left.ver_id.ver
                    BY <1>1, <1>4, <3>2, <5>1
                <5> QED
                    BY <1>6, <4>1, <5>1, <5>2 DEF Kept
            <4>2. CASE p.ver_id.id # id
                <5>1. /\ p.ver_id.id \in DOMAIN regions'
                      /\ regions'[p.ver_id.id] = regions[p.ver_id.id]
                    BY <1>6, <3>1, <3>2, <4>2 DEF Kept
                <5> QED
                    BY <3>1, <5>1 DEF Kept
            <4> QED
                BY <4>1, <4>2
        <3>4. Nests(p)'
            <4> SUFFICES ASSUME NEW j \in DOMAIN regions',
                                \E k \in Key : Contains(p, k) /\ Contains(regions'[j], k)
                         PROVE  \A k \in Key : Contains(regions'[j], k) => Contains(p, k)
                BY DEF Nests
            <4> DEFINE o == IF j = newId THEN id ELSE j
            <4>1. /\ o \in DOMAIN regions
                  /\ \A k \in Key : Contains(regions'[j], k) => Contains(regions[o], k)
                BY <1>6, <2>1, <2>2
            <4> QED
                BY <3>1, <4>1 DEF Nests
        <3> QED
            BY <3>3, <3>4
    <2>9. Nonempty'
        <3>1. parent.start_key <= key /\ parent.start_key # key /\ key \in Nat
              /\ parent.start_key \in Nat
            BY <1>1, <2>1, KeyAssumption DEF Inside, Contains
        <3>2. Contains(left, left.start_key) /\ Contains(right, right.start_key)
            BY <1>1, <1>4, <1>5, <2>1, <3>1 DEF Inside, Contains
        <3> QED
            BY <1>6, <2>1, <3>2 DEF Lawful, Nonempty
    <2>10. ASSUME NEW i \in DOMAIN table, NEW p \in table[i], NEW q \in Regions', p.ver_id = q.ver_id
           PROVE  \E r \in table[Len(table)] : r.ver_id = p.ver_id
        <3>1. PICK j \in DOMAIN regions' : q = regions'[j]
            BY DEF Regions
        <3>2. j = p.ver_id.id
            BY <2>5, <2>10, <3>1 DEF Named
        <3>3. Kept(p)
            BY <2>1 DEF Lawful, Past
        <3>4. j # newId
            BY <2>1, <3>2, <3>3 DEF Kept
        <3>5. j # id
            BY <1>1, <1>4, <1>6, <2>1, <2>10, <3>1, <3>2, <3>3 DEF Kept
        <3>6. q = regions[j] /\ j \in DOMAIN regions
            BY <1>6, <3>1, <3>4, <3>5
        <3>7. table # <<>>
            BY <2>1 DEF IInv
        <3> QED
            BY <2>1, <2>10, <3>6, <3>7 DEF Lawful, Latest, Regions
    <2> QED
        BY <1>2, <1>7, <2>1, <2>5, <2>6, <2>7, <2>8, <2>9, <2>10, LawExtends DEF IInv, Lawful
<1> QED
    BY <1>7, <1>8 DEF IInv

LEMMA StoresStep ==
    ASSUME IInv, UNCHANGED <<regions, table, legal>>,
           \/ \E id \in StoreId : RemoveStore(id) \/ \E addr \in Addr : AddStore(id, addr)
           \/ UNCHANGED vars
    PROVE  IInv'
<1>1. DOMAIN stores' \subseteq StoreId /\ stores' \in [DOMAIN stores' -> Addr]
    BY DEF IInv, TypeOK, RemoveStore, AddStore, Restrict, Put, vars
<1>2. TypeOK'
    BY <1>1 DEF IInv, TypeOK
<1>3. Lawful => Lawful'
    BY DEF Lawful, Named, Disjoint, Covering, Nonempty, Latest, Regions, Past, Kept, Nests,
       VersionsFixRanges, OnlySplits, DistinctEnds, NeverReturns
<1> QED
    BY <1>2, <1>3 DEF IInv

\* The invariant behind the theorems below.
THEOREM Invariance == Spec => []IInv
<1>1. Init => IInv
    <2> SUFFICES ASSUME Init PROVE IInv
        OBVIOUS
    <2>1. DOMAIN regions = {} /\ DOMAIN stores = {} /\ DOMAIN table = {} /\ table = <<>>
        BY DEF Init
    <2>2. regions \in [DOMAIN regions -> Region] /\ stores \in [DOMAIN stores -> Addr]
        BY <2>1 DEF Init
    <2>3. TypeOK
        BY <2>1, <2>2 DEF Init, TypeOK
    <2>4. Lawful
        BY <2>1 DEF Lawful, Named, Disjoint, Covering, Nonempty, Latest, Past, VersionsFixRanges,
           OnlySplits, DistinctEnds, NeverReturns
    <2> QED
        BY <2>1, <2>3, <2>4 DEF IInv
<1>2. IInv /\ [Next]_vars => IInv'
    <2> SUFFICES ASSUME IInv, [Next]_vars PROVE IInv'
        OBVIOUS
    <2>1. ASSUME NEW id \in RegionId, NEW peerIds \in PeerIds, NEW leader \in PeerId,
                 Bootstrap(id, peerIds, leader)
          PROVE  IInv'
        BY <2>1, BootstrapStep
    <2>2. ASSUME NEW id \in RegionId, NEW peerIds \in PeerIds, NEW leader \in PeerId,
                 NEW newId \in RegionId, NEW key \in Key,
                 Split(id, newId, key, peerIds, leader)
          PROVE  IInv'
        BY <2>2, SplitStep
    <2>3. CASE \E id \in StoreId : RemoveStore(id) \/ \E addr \in Addr : AddStore(id, addr)
        BY <2>3, StoresStep DEF RemoveStore, AddStore
    <2>4. CASE UNCHANGED vars
        BY <2>4, StoresStep DEF vars
    <2> QED
        BY <2>1, <2>2, <2>3, <2>4 DEF Next
<1> QED
    BY <1>1, <1>2, PTL DEF Spec

-----------------------------------------------------------------------------
(* The theorems.                                                           *)

\* Every variable keeps its type.
THEOREM TypeCorrect == Spec => []TypeOK
<1>1. IInv => TypeOK
    BY DEF IInv
<1> QED
    BY <1>1, Invariance, PTL

\* Any number of legal splits leaves each key in exactly one region.
THEOREM Partitions == Spec => []Partition
<1>1. IInv => Partition
    BY DEF IInv, Lawful, Disjoint, Covering, Partition
<1> QED
    BY <1>1, Invariance, PTL

\* The history of a cluster that is used legally satisfies what RegionCache
\* assumes of PD (TableAssumption, OrderAssumption), and the premise of
\* FreshestWins and LocateThenHit.
THEOREM PDPromisesKept == Spec => []KeepsPDPromises
<1>1. IInv => KeepsPDPromises
    BY DEF IInv, Lawful, KeepsPDPromises
<1> QED
    BY <1>1, Invariance, PTL

=============================================================================
