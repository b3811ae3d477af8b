-------------------------- MODULE RegionCacheProofs --------------------------
(***************************************************************************)
(* Proofs about RegionCache, for every number of threads, every set of     *)
(* keys and every script of PD that its assumptions allow.                 *)
(*                                                                         *)
(* CacheCoherent is not inductive alone: an insertion keeps it only if the *)
(* region inserted has the range of the entry of that version, which holds *)
(* because both come from PD.  So the invariant IInv also says where the   *)
(* regions in the cache, and in the locals of the threads, come from.      *)
(***************************************************************************)
EXTENDS RegionCache, RegionMetaProofs, TLAPS

\* A region as the client keeps it: the peers and the range are those PD
\* served under that version, the leader is a peer, or still the default one
\* if PD may name none.
ServedAs(r) ==
    /\ r.leader \in r.peers \/ (r.leader = NoPeer /\ ~NamesLeaders(PDTable))
    /\ \E p \in Served :
        /\ p.ver_id = r.ver_id /\ p.peers = r.peers
        /\ p.start_key = r.start_key /\ p.end_key = r.end_key

MapTypes ==
    /\ DOMAIN sorted \subseteq Key /\ sorted \in [DOMAIN sorted -> Region]
    /\ DOMAIN cached \subseteq VerID /\ cached \in [DOMAIN cached -> Entry]

CachedServed == \A v \in DOMAIN cached : ServedAs(cached[v].region)

FramesServed ==
    \A t \in Threads :
        /\ pc[t] = "insert" =>
            ServedAs(frame[t].region) /\ Contains(frame[t].region, frame[t].key)
        /\ pc[t] = "addr" =>
            ServedAs(frame[t].region) /\ frame[t].region.ver_id = frame[t].ver

IInv ==
    /\ TypeOK
    /\ CacheCoherent
    /\ CachedServed
    /\ FramesServed
    /\ LocateSound
    /\ RpcContextSound

-----------------------------------------------------------------------------
(* What PD answers.                                                        *)

LEMMA LoadedRegionKeeps ==
    ASSUME NEW p \in Region
    PROVE  /\ LoadedRegion(p) \in Region
           /\ LoadedRegion(p).ver_id = p.ver_id
           /\ LoadedRegion(p).peers = p.peers
           /\ LoadedRegion(p).start_key = p.start_key
           /\ LoadedRegion(p).end_key = p.end_key
           /\ LoadedRegion(p).leader \in p.peers \cup {NoPeer}
           /\ p.leader \in p.peers => LoadedRegion(p).leader \in p.peers
<1> DEFINE bare == [p EXCEPT !.leader = NoPeer]
           parsed == SwitchLeaderByPeerId(bare, p.leader.id)
<1>1. /\ bare \in Region /\ bare.leader = NoPeer /\ bare.ver_id = p.ver_id
      /\ bare.peers = p.peers /\ bare.start_key = p.start_key
      /\ bare.end_key = p.end_key
    BY DEF Region, Peer, NoPeer
<1> HIDE DEF bare
<1>2. /\ parsed \in Region /\ parsed.ver_id = p.ver_id /\ parsed.peers = p.peers
      /\ parsed.start_key = p.start_key /\ parsed.end_key = p.end_key
      /\ parsed.leader \in p.peers \cup {NoPeer}
    BY <1>1, SwitchLeaderByPeerIdKeeps
<1>3. p.leader \in p.peers => parsed.leader \in p.peers
    <2> SUFFICES ASSUME p.leader \in p.peers PROVE parsed.leader \in p.peers
        OBVIOUS
    <2> DEFINE matching == {q \in p.peers : q.id = p.leader.id}
    <2>1. LeaderAmong(bare, matching) \in p.peers
        BY DEF LeaderAmong
    <2>2. parsed = [bare EXCEPT !.leader = LeaderAmong(bare, matching)]
        BY <1>1 DEF SwitchLeaderByPeerId
    <2> QED
        BY <1>1, <2>1, <2>2 DEF Region
<1>4. LoadedRegion(p) \in {parsed, SwitchLeader(parsed, p.leader.store_id)}
    BY DEF LoadedRegion, bare
<1> HIDE DEF parsed
<1> QED
    BY <1>2, <1>3, <1>4, SwitchLeaderKeeps

-----------------------------------------------------------------------------
(* What PD serves.                                                         *)

LEMMA ServedFacts ==
    ASSUME epoch \in DOMAIN PDTable
    PROVE  /\ epoch \in Nat /\ epoch >= 1 /\ epoch <= Len(PDTable)
           /\ \A i \in 1..epoch : i \in DOMAIN PDTable /\ PDTable[i] \subseteq Region
           /\ Served \subseteq Region
           /\ PDTable[epoch] \subseteq Served
<1>1. /\ Len(PDTable) \in Nat /\ DOMAIN PDTable = 1..Len(PDTable)
      /\ \A i \in DOMAIN PDTable : PDTable[i] \subseteq Region
    BY TableAssumption
<1>2. epoch \in Nat /\ epoch >= 1 /\ epoch <= Len(PDTable)
    BY <1>1
<1>3. \A i \in 1..epoch : i \in DOMAIN PDTable /\ PDTable[i] \subseteq Region
    BY <1>1, <1>2
<1>4. Served \subseteq Region
    BY <1>3 DEF Served
<1>5. PDTable[epoch] \subseteq Served
    BY <1>2 DEF Served
<1> QED
    BY <1>2, <1>3, <1>4, <1>5

\* One version has one range, whenever PD served it.
LEMMA OneRange ==
    ASSUME epoch \in DOMAIN PDTable, NEW p \in Served, NEW q \in Served,
           p.ver_id = q.ver_id
    PROVE  p.start_key = q.start_key /\ p.end_key = q.end_key
<1>1. PICK i \in 1..epoch : p \in PDTable[i]
    BY DEF Served
<1>2. PICK j \in 1..epoch : q \in PDTable[j]
    BY DEF Served
<1>3. i \in DOMAIN PDTable /\ j \in DOMAIN PDTable
    BY ServedFacts
<1> QED
    BY <1>1, <1>2, <1>3, TableAssumption DEF VersionsFixRanges

LEMMA ServedGrows ==
    ASSUME epoch \in DOMAIN PDTable, epoch' \in {epoch, epoch + 1}
    PROVE  /\ Served \subseteq Served'
           /\ \A r : ServedAs(r) => ServedAs(r)'
<1>1. epoch \in Nat
    BY ServedFacts
<1>2. Served \subseteq Served'
    <2>1. 1..epoch \subseteq 1..epoch'
        BY <1>1
    <2> QED
        BY <2>1 DEF Served
<1> QED
    BY <1>2 DEF ServedAs

-----------------------------------------------------------------------------
(* The two maps.                                                           *)

Maps == MapTypes /\ CacheCoherent /\ CachedServed

LEMMA TouchedIsEntry ==
    ASSUME NEW entry \in Entry
    PROVE  Touched(entry) = entry
BY DEF Touched, Entry

LEMMA RestrictDef ==
    ASSUME NEW f, NEW S
    PROVE  /\ DOMAIN Restrict(f, S) = S
           /\ \A x \in S : Restrict(f, S)[x] = f[x]
BY DEF Restrict

\* insert_region_to_cache replaces the region with the same end key in both
\* maps, and nothing else.
LEMMA InsertKeepsMaps ==
    ASSUME Maps, epoch \in DOMAIN PDTable, now \in Nat, UNCHANGED <<epoch>>,
           NEW r \in Region, ServedAs(r), InsertRegion(r)
    PROVE  Maps' /\ DOMAIN cached' \subseteq DOMAIN cached \cup {r.ver_id}
<1> DEFINE end == r.end_key
           new == r.ver_id
           entry == [region |-> r, last_access |-> now]
           replaced == {sorted[e].ver_id : e \in {end} \cap DOMAIN sorted}
<1>1. /\ end \in Key /\ new \in VerID /\ entry \in Entry /\ entry.region = r
    BY DEF Region, Entry
<1>2. /\ DOMAIN sorted' = DOMAIN sorted \cup {end}
      /\ sorted'[end] = r
      /\ \A e \in DOMAIN sorted \ {end} : sorted'[e] = sorted[e]
    <2>1. sorted' = Put(sorted, end, r)
        BY DEF InsertRegion
    <2> QED
        BY <2>1 DEF Put
<1>3. /\ DOMAIN cached' = (DOMAIN cached \ replaced) \cup {new}
      /\ cached'[new] = entry
      /\ \A v \in DOMAIN cached \ (replaced \cup {new}) : cached'[v] = cached[v]
    <2> DEFINE kept == Restrict(cached, DOMAIN cached \ replaced)
    <2>1. cached' = Put(kept, new, entry)
        BY DEF InsertRegion
    <2>2. /\ DOMAIN kept = DOMAIN cached \ replaced
          /\ \A v \in DOMAIN cached \ replaced : kept[v] = cached[v]
        BY RestrictDef
    <2> HIDE DEF kept, entry, replaced
    <2>3. /\ DOMAIN cached' = DOMAIN kept \cup {new}
          /\ cached'[new] = entry
          /\ \A v \in DOMAIN kept \ {new} : cached'[v] = kept[v]
        BY <2>1 DEF Put
    <2> QED
        BY <2>2, <2>3
<1>4. sorted' = [e \in DOMAIN sorted' |-> sorted'[e]] /\ cached' = [v \in DOMAIN cached' |-> cached'[v]]
    BY DEF InsertRegion, Put
<1> HIDE DEF entry
<1>5. \A v \in DOMAIN cached : cached[v] \in Entry /\ cached[v].region \in Region
    BY DEF Maps, MapTypes, Entry
<1>6. \A v \in DOMAIN cached : v = new => cached[v].region.end_key = end
    <2> SUFFICES ASSUME new \in DOMAIN cached
                 PROVE  cached[new].region.end_key = end
        OBVIOUS
    <2>1. PICK p \in Served : p.ver_id = cached[new].region.ver_id
                              /\ p.end_key = cached[new].region.end_key
        BY DEF Maps, CachedServed, ServedAs
    <2>2. PICK q \in Served : q.ver_id = new /\ q.end_key = end
        BY DEF ServedAs
    <2>3. cached[new].region.ver_id = new
        BY DEF Maps, CacheCoherent
    <2> QED
        BY <2>1, <2>2, <2>3, OneRange
<1>7. \A v \in DOMAIN cached : cached[v].region.end_key = end => v \in replaced
    BY DEF Maps, CacheCoherent
<1>8. \A e \in DOMAIN sorted \ {end} : sorted[e].ver_id \notin replaced \cup {new}
    BY <1>6 DEF Maps, CacheCoherent
<1>9. MapTypes'
    <2>1. \A e \in DOMAIN sorted' : sorted'[e] \in Region
        BY <1>2 DEF Maps, MapTypes
    <2>2. \A v \in DOMAIN cached' : cached'[v] \in Entry
        BY <1>1, <1>3, <1>5
    <2> QED
        BY <1>1, <1>2, <1>3, <1>4, <2>1, <2>2 DEF Maps, MapTypes
<1>10. CacheCoherent'
    <2>1. ASSUME NEW e \in DOMAIN sorted'
          PROVE  /\ sorted'[e].end_key = e
                 /\ sorted'[e].ver_id \in DOMAIN cached'
                 /\ cached'[sorted'[e].ver_id].region.end_key = e
                 /\ cached'[sorted'[e].ver_id].region.start_key = sorted'[e].start_key
        <3>1. CASE e = end
            BY <1>1, <1>2, <1>3, <3>1
        <3>2. CASE e # end
            BY <1>2, <1>3, <1>8, <3>2 DEF Maps, CacheCoherent
        <3> QED
            BY <3>1, <3>2
    <2>2. ASSUME NEW v \in DOMAIN cached'
          PROVE  /\ cached'[v].region.ver_id = v
                 /\ cached'[v].region.end_key \in DOMAIN sorted'
                 /\ sorted'[cached'[v].region.end_key].ver_id = v
        <3>1. CASE v = new
            BY <1>1, <1>2, <1>3, <3>1
        <3>2. CASE v # new
            <4>1. v \in DOMAIN cached /\ cached'[v] = cached[v] /\ v \notin replaced
                BY <1>3, <3>2
            <4>2. cached[v].region.end_key # end
                BY <1>7, <4>1
            <4> QED
                BY <1>2, <4>1, <4>2 DEF Maps, CacheCoherent
        <3> QED
            BY <3>1, <3>2
    <2> QED
        BY <2>1, <2>2 DEF CacheCoherent
<1>11. CachedServed'
    <2>1. \A x : ServedAs(x) => ServedAs(x)'
        BY ServedGrows
    <2>2. \A v \in DOMAIN cached' : ServedAs(cached'[v].region)
        BY <1>1, <1>3 DEF Maps, CachedServed
    <2>3. \A v \in DOMAIN cached' : ServedAs(cached[v].region)'
        BY <2>2 DEF ServedAs, Served
    <2> QED
        BY <2>3 DEF CachedServed
<1> QED
    BY <1>3, <1>9, <1>10, <1>11 DEF Maps

\* drop_region_from_cache removes one region from both maps.
LEMMA DropKeepsMaps ==
    ASSUME Maps, UNCHANGED <<epoch>>, NEW v, DropFromCache(v)
    PROVE  Maps' /\ DOMAIN cached' \subseteq DOMAIN cached
<1> DEFINE endKeys == {cached[w].region.end_key : w \in {v} \cap DOMAIN cached}
<1>1. /\ DOMAIN sorted' = DOMAIN sorted \ endKeys
      /\ \A e \in DOMAIN sorted' : sorted'[e] = sorted[e]
    BY RestrictDef DEF DropFromCache
<1>2. /\ DOMAIN cached' = DOMAIN cached \ {v}
      /\ \A w \in DOMAIN cached' : cached'[w] = cached[w]
    BY RestrictDef DEF DropFromCache
<1>3. sorted' = [e \in DOMAIN sorted' |-> sorted'[e]] /\ cached' = [w \in DOMAIN cached' |-> cached'[w]]
    BY DEF DropFromCache, Restrict
<1>4. MapTypes'
    BY <1>1, <1>2, <1>3 DEF Maps, MapTypes
<1>5. \A e \in DOMAIN sorted' : sorted[e].ver_id # v
    BY <1>1 DEF Maps, CacheCoherent
<1>6. \A w \in DOMAIN cached' : cached[w].region.end_key \notin endKeys
    BY <1>2 DEF Maps, CacheCoherent
<1>7. CacheCoherent'
    BY <1>1, <1>2, <1>5, <1>6 DEF Maps, CacheCoherent
<1>8. CachedServed'
    BY <1>2 DEF Maps, CachedServed, ServedAs, Served
<1> QED
    BY <1>2, <1>4, <1>7, <1>8 DEF Maps

\* A change of leader, or of the access time, leaves the maps as they are for
\* everything the invariant says.
LEMMA RelabelKeepsMaps ==
    ASSUME Maps, UNCHANGED <<sorted, epoch>>, NEW v \in DOMAIN cached,
           NEW x \in Entry, cached' = [cached EXCEPT ![v] = x],
           x.region.ver_id = v,
           x.region.start_key = cached[v].region.start_key,
           x.region.end_key = cached[v].region.end_key,
           ServedAs(x.region)
    PROVE  Maps'
<1>1. /\ DOMAIN cached' = DOMAIN cached /\ cached'[v] = x
      /\ \A w \in DOMAIN cached \ {v} : cached'[w] = cached[w]
    OBVIOUS
<1>2. MapTypes'
    BY DEF Maps, MapTypes
<1>3. CacheCoherent'
    BY <1>1 DEF Maps, CacheCoherent
<1>4. \A w \in DOMAIN cached' : ServedAs(cached'[w].region)
    BY <1>1 DEF Maps, CachedServed
<1>5. CachedServed'
    BY <1>4 DEF CachedServed, ServedAs, Served
<1> QED
    BY <1>2, <1>3, <1>5 DEF Maps

-----------------------------------------------------------------------------
(* Calls and their results.                                                *)

CallTypes ==
    /\ pc \in [Threads -> {"idle", "load", "insert", "addr"}]
    /\ frame \in [Threads -> Frame]
    /\ overlap \in [Threads -> SUBSET VerID]

Calls == CallTypes /\ FramesServed

Answers == ret \in Result /\ LocateSound /\ RpcContextSound

LEMMA IInvParts ==
    IInv <=> Maps /\ now \in Nat /\ epoch \in DOMAIN PDTable /\ Calls /\ Answers
BY DEF IInv, TypeOK, Maps, MapTypes, Calls, CallTypes, Answers

LEMMA IInvPartsNext ==
    ASSUME Maps', now' \in Nat, epoch' \in DOMAIN PDTable, Calls', Answers'
    PROVE  IInv'
BY DEF IInv, TypeOK, Maps, MapTypes, Calls, CallTypes, Answers

LEMMA NoFrameIsFrame == NoFrame \in Frame
BY KeyAssumption DEF NoFrame, Frame, NoVerID, VerID, NoRegion, Region, NoPeer, Peer, EmptyKey

LEMMA MapsStay ==
    ASSUME Maps, epoch \in DOMAIN PDTable, epoch' \in {epoch, epoch + 1},
           UNCHANGED maps
    PROVE  Maps'
<1>1. Served \subseteq Served'
    BY ServedGrows
<1> QED
    BY <1>1 DEF Maps, MapTypes, CacheCoherent, CachedServed, ServedAs, maps

LEMMA CallsStay ==
    ASSUME Calls, epoch \in DOMAIN PDTable, epoch' \in {epoch, epoch + 1},
           UNCHANGED calls
    PROVE  Calls'
<1>1. Served \subseteq Served'
    BY ServedGrows
<1> QED
    BY <1>1 DEF Calls, CallTypes, FramesServed, ServedAs, calls

LEMMA ReturnKeepsCalls ==
    ASSUME Calls, UNCHANGED epoch, NEW t \in Threads, NEW x, Return(t, x),
           overlap' \in [Threads -> SUBSET VerID]
    PROVE  Calls'
<1>1. /\ pc' \in [Threads -> {"idle", "load", "insert", "addr"}]
      /\ frame' \in [Threads -> Frame]
    BY NoFrameIsFrame DEF Return, Calls, CallTypes
<1>2. /\ pc'[t] = "idle"
      /\ \A u \in Threads \ {t} : pc'[u] = pc[u] /\ frame'[u] = frame[u]
    BY DEF Return, Calls, CallTypes
<1> QED
    BY <1>1, <1>2 DEF Calls, CallTypes, FramesServed, ServedAs, Served

LEMMA PlainAnswers ==
    ASSUME ret' \in {NoResult, Failure}
    PROVE  Answers'
BY DEF Answers, Result, LocateSound, RpcContextSound, NoResult, Failure

\* A location cut out of a region that PD served, for a key it contains.
LEMMA LocatedAnswers ==
    ASSUME epoch \in DOMAIN PDTable, UNCHANGED epoch,
           NEW key \in Key, NEW r \in Region, NEW hit \in BOOLEAN,
           ServedAs(r), Contains(r, key), ret' = Located(key, r, hit)
    PROVE  Answers'
<1>1. ret' \in Result
    BY DEF Located, LocOf, Result, KeyLoc, Region
<1>2. LocateSound'
    BY DEF Located, LocOf, LocateSound, Contains, ServedAs, Served
<1>3. RpcContextSound'
    BY DEF Located, LocOf, RpcContextSound
<1> QED
    BY <1>1, <1>2, <1>3 DEF Answers

-----------------------------------------------------------------------------
(* The steps.                                                              *)

\* What Finds gives: the region that is returned contains the key.
LEMMA FoundContains ==
    ASSUME Maps, NEW key \in Key, NEW v, Finds(key, v)
    PROVE  /\ v \in DOMAIN cached
           /\ cached[v].region \in Region
           /\ cached[v].region.ver_id = v
           /\ Contains(cached[v].region, key)
<1>1. PICK e \in UpperBound(key) : /\ Contains(sorted[e], key)
                                  /\ v = sorted[e].ver_id
    BY DEF Finds
<1>2. e \in DOMAIN sorted
    BY DEF UpperBound
<1> QED
    BY <1>1, <1>2 DEF Maps, CacheCoherent, MapTypes, Entry, Contains

\* The entry of a version after a hit, or after a change of its leader.
LEMMA TouchKeepsMaps ==
    ASSUME Maps, UNCHANGED <<sorted, epoch>>, NEW v \in DOMAIN cached,
           cached' = [cached EXCEPT ![v] = Touched(@)]
    PROVE  Maps'
<1>1. cached[v] \in Entry
    BY DEF Maps, MapTypes
<1>2. cached' = [cached EXCEPT ![v] = cached[v]]
    BY <1>1, TouchedIsEntry
<1>3. ServedAs(cached[v].region) /\ cached[v].region.ver_id = v
    BY DEF Maps, CachedServed, CacheCoherent
<1> QED
    BY <1>1, <1>2, <1>3, RelabelKeepsMaps

LEMMA LocateKeyStep ==
    ASSUME IInv, NEW t \in Threads, LocateKey(t)
    PROVE  IInv'
<1> USE IInvParts, IInvPartsNext
<1>1. ASSUME NEW key \in Key, LocateHit(t, key)
      PROVE  IInv'
    <2> SUFFICES Maps' /\ Calls' /\ Answers' /\ now' \in Nat /\ epoch' \in DOMAIN PDTable
        OBVIOUS
    <2>1. PICK v \in DOMAIN cached :
            /\ Finds(key, v)
            /\ cached' = [cached EXCEPT ![v] = Touched(@)]
            /\ Return(t, Located(key, cached[v].region, TRUE))
        BY <1>1 DEF LocateHit
    <2>2. UNCHANGED <<sorted, now, epoch, overlap>>
        BY <1>1 DEF LocateHit
    <2>3. Maps'
        BY <2>1, <2>2, TouchKeepsMaps
    <2>4. Calls'
        BY <2>1, <2>2, ReturnKeepsCalls DEF Calls, CallTypes
    <2>5. Answers'
        <3> DEFINE r == cached[v].region
        <3>1. ServedAs(r)
            BY <2>1 DEF Maps, CachedServed
        <3>2. r \in Region /\ Contains(r, key)
            BY <2>1, FoundContains
        <3>3. ret' = Located(key, r, TRUE)
            BY <2>1 DEF Return
        <3> HIDE DEF r
        <3> QED
            BY <2>2, <3>1, <3>2, <3>3, LocatedAnswers
    <2>6. now' \in Nat /\ epoch' \in DOMAIN PDTable
        BY <2>2
    <2> QED
        BY <2>3, <2>4, <2>5, <2>6
<1>2. ASSUME NEW key \in Key, LocateMiss(t, key)
      PROVE  IInv'
    <2>1. Maps'
        BY <1>2, MapsStay DEF LocateMiss
    <2>2. Calls'
        <3>1. /\ pc' = [pc EXCEPT ![t] = "load"] /\ frame' = [frame EXCEPT ![t].key = key]
              /\ UNCHANGED <<epoch, overlap>>
            BY <1>2 DEF LocateMiss
        <3>2. CallTypes'
            BY <3>1 DEF Calls, CallTypes, Frame
        <3>3. ASSUME NEW u \in Threads, pc'[u] \in {"insert", "addr"}
              PROVE  pc[u] = pc'[u] /\ frame'[u] = frame[u]
            BY <3>1, <3>3 DEF Calls, CallTypes
        <3>4. \A r : ServedAs(r)' <=> ServedAs(r)
            BY <3>1 DEF ServedAs, Served
        <3> QED
            BY <3>2, <3>3, <3>4 DEF Calls, FramesServed
    <2>3. Answers'
        BY <1>2, PlainAnswers DEF LocateMiss
    <2> QED
        BY <1>2, <2>1, <2>2, <2>3 DEF LocateMiss
<1>3. CASE LoadRegion(t)
    <2>1. Maps'
        BY <1>3, MapsStay DEF LoadRegion
    <2>2. PICK p \in PDAnswers(frame[t].key) :
            frame' = [frame EXCEPT ![t].region = LoadedRegion(p)]
        BY <1>3 DEF LoadRegion
    <2>3. p \in PDTable[epoch] /\ Contains(p, frame[t].key)
        BY <2>2 DEF PDAnswers
    <2>4. p \in Region /\ p \in Served
        BY <2>3, ServedFacts
    <2>5. ServedAs(LoadedRegion(p)) /\ Contains(LoadedRegion(p), frame[t].key)
        <3>1. NamesLeaders(PDTable) => LoadedRegion(p).leader \in p.peers
            BY <2>3, <2>4, LoadedRegionKeeps DEF NamesLeaders
        <3> QED
            BY <2>3, <2>4, <3>1, LoadedRegionKeeps DEF ServedAs, Contains
    <2>6. LoadedRegion(p) \in Region
        BY <2>4, LoadedRegionKeeps
    <2>7. CallTypes'
        BY <1>3, <2>2, <2>6 DEF LoadRegion, Calls, CallTypes, Frame
    <2>8. FramesServed'
        <3>1. ASSUME NEW u \in Threads, u # t
              PROVE  pc'[u] = pc[u] /\ frame'[u] = frame[u]
            BY <1>3, <2>2, <3>1 DEF LoadRegion, Calls, CallTypes
        <3>2. /\ pc'[t] = "insert" /\ frame'[t].region = LoadedRegion(p)
              /\ frame'[t].key = frame[t].key
            BY <1>3, <2>2 DEF LoadRegion, Calls, CallTypes, Frame
        <3>3. ServedAs(frame'[t].region) /\ Contains(frame'[t].region, frame'[t].key)
            BY <2>5, <3>2
        <3>4. epoch' = epoch
            BY <1>3 DEF LoadRegion
        <3>5. (ServedAs(frame[t].region) /\ Contains(frame[t].region, frame[t].key))'
            BY <3>3, <3>4 DEF ServedAs, Served, Contains
        <3>6. ASSUME NEW u \in Threads, u # t
              PROVE  /\ pc'[u] = "insert" =>
                        (ServedAs(frame[u].region) /\ Contains(frame[u].region, frame[u].key))'
                     /\ pc'[u] = "addr" =>
                        (ServedAs(frame[u].region) /\ frame[u].region.ver_id = frame[u].ver)'
            BY <3>1, <3>4, <3>6 DEF Calls, FramesServed, ServedAs, Served, Contains
        <3> QED
            BY <3>2, <3>5, <3>6 DEF FramesServed
    <2>9. Answers'
        BY <1>3, PlainAnswers DEF LoadRegion
    <2> QED
        BY <1>3, <2>1, <2>7, <2>8, <2>9 DEF LoadRegion, Calls
<1>4. CASE LoadFails(t)
    <2>1. Maps'
        BY <1>4, MapsStay DEF LoadFails
    <2>2. Calls'
        BY <1>4, ReturnKeepsCalls DEF LoadFails, Calls, CallTypes
    <2>3. Answers'
        BY <1>4, PlainAnswers DEF LoadFails, Return
    <2> QED
        BY <1>4, <2>1, <2>2, <2>3 DEF LoadFails
<1>5. CASE LocateInsert(t)
    <2> DEFINE r == frame[t].region
    <2>1. /\ r \in Region /\ frame[t].key \in Key
          /\ ServedAs(r) /\ Contains(r, frame[t].key)
        BY <1>5 DEF LocateInsert, Calls, CallTypes, FramesServed, Frame
    <2>2. /\ InsertRegion(r) /\ UNCHANGED <<now, epoch>>
          /\ Return(t, Located(frame[t].key, r, FALSE))
        BY <1>5 DEF LocateInsert
    <2>3. overlap' \in [Threads -> SUBSET VerID]
        <3>1. r.ver_id \in VerID
            BY <2>1 DEF Region
        <3> QED
            BY <1>5, <3>1 DEF LocateInsert, Calls, CallTypes
    <2>4. Maps'
        BY <2>1, <2>2, InsertKeepsMaps
    <2>5. Calls'
        BY <2>2, <2>3, ReturnKeepsCalls
    <2>6. Answers'
        <3>1. ret' = Located(frame[t].key, r, FALSE)
            BY <2>2 DEF Return
        <3> HIDE DEF r
        <3> QED
            BY <2>1, <2>2, <3>1, LocatedAnswers
    <2> QED
        BY <2>2, <2>4, <2>5, <2>6
<1> QED
    BY <1>1, <1>2, <1>3, <1>4, <1>5 DEF LocateKey

LEMMA GetRpcContextStep ==
    ASSUME IInv, NEW t \in Threads, GetRpcContext(t)
    PROVE  IInv'
<1> USE IInvParts, IInvPartsNext
<1>1. ASSUME NEW v \in ServedVer, RpcContextStale(t, v)
      PROVE  IInv'
    <2>1. Maps'
        BY <1>1, MapsStay DEF RpcContextStale
    <2>2. Calls'
        BY <1>1, ReturnKeepsCalls DEF RpcContextStale, Calls, CallTypes
    <2>3. Answers'
        BY <1>1, PlainAnswers DEF RpcContextStale, Return
    <2> QED
        BY <1>1, <2>1, <2>2, <2>3 DEF RpcContextStale
<1>2. ASSUME NEW v \in ServedVer, RpcContextRead(t, v)
      PROVE  IInv'
    <2>1. /\ v \in DOMAIN cached /\ v \in VerID /\ cached[v].region \in Region
          /\ ServedAs(cached[v].region) /\ cached[v].region.ver_id = v
        BY <1>2 DEF RpcContextRead, Live, Maps, MapTypes, Entry, CachedServed, CacheCoherent
    <2>2. Maps'
        BY <1>2, <2>1, TouchKeepsMaps DEF RpcContextRead
    <2>3. CallTypes'
        BY <1>2, <2>1 DEF RpcContextRead, Calls, CallTypes, Frame
    <2>4. FramesServed'
        <3>1. /\ pc'[t] = "addr" /\ frame'[t].ver = v /\ frame'[t].region = cached[v].region
              /\ \A u \in Threads \ {t} : pc'[u] = pc[u] /\ frame'[u] = frame[u]
            BY <1>2 DEF RpcContextRead, Calls, CallTypes, Frame
        <3>2. epoch' = epoch
            BY <1>2 DEF RpcContextRead
        <3> QED
            BY <2>1, <3>1, <3>2 DEF Calls, FramesServed, ServedAs, Served
    <2>5. Answers'
        BY <1>2, PlainAnswers DEF RpcContextRead
    <2> QED
        BY <1>2, <2>2, <2>3, <2>4, <2>5 DEF RpcContextRead, Calls
<1>3. CASE RpcContextReady(t)
    <2> DEFINE r == frame[t].region
    <2>1. /\ r \in Region /\ frame[t].ver \in VerID
          /\ ServedAs(r) /\ r.ver_id = frame[t].ver
        BY <1>3 DEF RpcContextReady, Calls, CallTypes, FramesServed, Frame
    <2>2. ret' = [op |-> "get_rpc_context", ver |-> frame[t].ver,
                  region_ver_id |-> NoVerID, meta |-> r, peer |-> r.leader]
        BY <1>3 DEF RpcContextReady, Return
    <2>3. Maps'
        BY <1>3, MapsStay DEF RpcContextReady
    <2>4. Calls'
        BY <1>3, ReturnKeepsCalls DEF RpcContextReady, Calls, CallTypes
    <2>5. ret' \in Result
        BY <2>1, <2>2 DEF Result, Region, NoVerID, VerID
    <2>6. LocateSound'
        BY <2>2 DEF LocateSound
    <2>7. RpcContextSound'
        <3>1. UNCHANGED epoch
            BY <1>3 DEF RpcContextReady
        <3> HIDE DEF r
        <3> QED
            BY <2>1, <2>2, <3>1 DEF RpcContextSound, ServedAs, Served
    <2> QED
        BY <1>3, <2>3, <2>4, <2>5, <2>6, <2>7 DEF RpcContextReady, Answers
<1>4. CASE RpcContextNoStore(t)
    <2>1. Maps'
        BY <1>4, MapsStay DEF RpcContextNoStore
    <2>2. Calls'
        BY <1>4, ReturnKeepsCalls DEF RpcContextNoStore, Calls, CallTypes
    <2>3. Answers'
        BY <1>4, PlainAnswers DEF RpcContextNoStore, Return
    <2> QED
        BY <1>4, <2>1, <2>2, <2>3 DEF RpcContextNoStore
<1>5. CASE RpcContextNoAddr(t)
    <2>1. Maps'
        BY <1>5, DropKeepsMaps DEF RpcContextNoAddr
    <2>2. Calls'
        BY <1>5, ReturnKeepsCalls DEF RpcContextNoAddr, Calls, CallTypes
    <2>3. Answers'
        BY <1>5, PlainAnswers DEF RpcContextNoAddr, Return
    <2> QED
        BY <1>5, <2>1, <2>2, <2>3 DEF RpcContextNoAddr
<1> QED
    BY <1>1, <1>2, <1>3, <1>4, <1>5 DEF GetRpcContext

LEMMA DropRegionStep ==
    ASSUME IInv, NEW t \in Threads, NEW v \in ServedVer, DropRegion(t, v)
    PROVE  IInv'
<1> USE IInvParts, IInvPartsNext
<1>1. Maps'
    BY DropKeepsMaps DEF DropRegion
<1>2. Calls'
    BY ReturnKeepsCalls DEF DropRegion, Calls, CallTypes
<1>3. Answers'
    BY PlainAnswers DEF DropRegion, Return
<1> QED
    BY <1>1, <1>2, <1>3 DEF DropRegion

LEMMA UpdateRegionLeaderStep ==
    ASSUME IInv, NEW t \in Threads, NEW v \in ServedVer, NEW s \in StoreId,
           UpdateRegionLeader(t, v, s)
    PROVE  IInv'
<1> USE IInvParts, IInvPartsNext
<1>1. Maps'
    <2>1. CASE Live(v)
        <3> DEFINE r == cached[v].region
                   r2 == SwitchLeader(r, ToUint16(s))
        <3>1. /\ v \in DOMAIN cached /\ cached[v] \in Entry /\ r \in Region
              /\ ServedAs(r) /\ r.ver_id = v
            BY <2>1 DEF Live, Maps, MapTypes, Entry, CachedServed, CacheCoherent
        <3>2. /\ r2 \in Region /\ r2.ver_id = v /\ r2.peers = r.peers
              /\ r2.start_key = r.start_key /\ r2.end_key = r.end_key
              /\ r2.leader \in r.peers \cup {r.leader}
            BY <3>1, SwitchLeaderKeeps
        <3>3. ServedAs(r2)
            <4> HIDE DEF r2, r
            <4> QED
                BY <3>1, <3>2 DEF ServedAs
        <3>4. cached' = [cached EXCEPT ![v] = [cached[v] EXCEPT !.region = r2]]
            <4>1. cached' = [cached EXCEPT ![v] =
                        [Touched(cached[v]) EXCEPT !.region =
                            SwitchLeader(Touched(cached[v]).region, ToUint16(s))]]
                BY <2>1 DEF UpdateRegionLeader
            <4>2. Touched(cached[v]) = cached[v]
                BY <3>1, TouchedIsEntry
            <4> QED
                BY <4>1, <4>2
        <3> DEFINE x == [cached[v] EXCEPT !.region = r2]
        <3>5. x \in Entry /\ x.region = r2
            BY <3>1, <3>2 DEF Entry
        <3>6. cached' = [cached EXCEPT ![v] = x]
            BY <3>4
        <3>7. UNCHANGED <<sorted, epoch>>
            BY DEF UpdateRegionLeader
        <3> HIDE DEF x, r2
        <3> QED
            BY <3>1, <3>2, <3>3, <3>5, <3>6, <3>7, RelabelKeepsMaps
    <2>2. CASE ~Live(v)
        BY <2>2, MapsStay DEF UpdateRegionLeader, maps
    <2> QED
        BY <2>1, <2>2
<1>2. Calls'
    BY ReturnKeepsCalls DEF UpdateRegionLeader, Calls, CallTypes
<1>3. Answers'
    BY PlainAnswers DEF UpdateRegionLeader, Return
<1> QED
    BY <1>1, <1>2, <1>3 DEF UpdateRegionLeader

LEMMA EnvironmentStep ==
    ASSUME IInv, PDChange \/ ClockAdvances \/ ClockSetBack \/ Taken
    PROVE  IInv'
<1> USE IInvParts, IInvPartsNext
<1>1. CASE PDChange
    <2>1. epoch' \in DOMAIN PDTable /\ epoch' = epoch + 1
        <3>1. DOMAIN PDTable = 1..Len(PDTable) /\ Len(PDTable) \in Nat
            BY TableAssumption
        <3> QED
            BY <1>1, <3>1 DEF PDChange
    <2> QED
        BY <1>1, <2>1, MapsStay, CallsStay, PlainAnswers DEF PDChange
<1>2. CASE ClockAdvances \/ ClockSetBack \/ Taken
    BY <1>2, MapsStay, CallsStay, PlainAnswers DEF ClockAdvances, ClockSetBack, Taken
<1> QED
    BY <1>1, <1>2

LEMMA StutterStep ==
    ASSUME IInv, UNCHANGED vars
    PROVE  IInv'
BY DEF vars, IInv, TypeOK, CacheCoherent, CachedServed, FramesServed, ServedAs, Served,
       LocateSound, RpcContextSound

LEMMA InitIInv == Init => IInv
<1> SUFFICES ASSUME Init PROVE IInv
    OBVIOUS
<1>1. DOMAIN sorted = {} /\ DOMAIN cached = {}
    BY DEF Init
<1>2. TypeOK
    <2>1. epoch \in DOMAIN PDTable
        BY TableAssumption DEF Init
    <2>2. sorted \in [DOMAIN sorted -> Region] /\ cached \in [DOMAIN cached -> Entry]
        BY DEF Init
    <2> QED
        BY <1>1, <2>1, <2>2, NoFrameIsFrame DEF Init, TypeOK, Result
<1>3. CacheCoherent /\ CachedServed
    BY <1>1 DEF CacheCoherent, CachedServed
<1>4. FramesServed
    BY DEF Init, FramesServed
<1>5. LocateSound /\ RpcContextSound
    BY DEF Init, NoResult, LocateSound, RpcContextSound
<1> QED
    BY <1>2, <1>3, <1>4, <1>5 DEF IInv

LEMMA NextIInv == IInv /\ [Next]_vars => IInv'
<1> SUFFICES ASSUME IInv, [Next]_vars PROVE IInv'
    OBVIOUS
<1>1. ASSUME NEW t \in Threads, LocateKey(t) PROVE IInv'
    BY <1>1, LocateKeyStep
<1>2. ASSUME NEW t \in Threads, GetRpcContext(t) PROVE IInv'
    BY <1>2, GetRpcContextStep
<1>3. ASSUME NEW t \in Threads, NEW v \in ServedVer, DropRegion(t, v) PROVE IInv'
    BY <1>3, DropRegionStep
<1>4. ASSUME NEW t \in Threads, NEW v \in ServedVer, NEW s \in StoreId,
             UpdateRegionLeader(t, v, s)
      PROVE  IInv'
    BY <1>4, UpdateRegionLeaderStep
<1>5. CASE PDChange \/ ClockAdvances \/ ClockSetBack \/ Taken
    BY <1>5, EnvironmentStep
<1>6. CASE UNCHANGED vars
    BY <1>6, StutterStep
<1> QED
    BY <1>1, <1>2, <1>3, <1>4, <1>5, <1>6 DEF Next

\* The invariant behind the theorems below: the two maps describe one set of
\* regions, and every region in them, in the locals of a call or in its
\* result is one that PD served.
THEOREM Invariance == Spec => []IInv
<1>1. Init => IInv
    BY InitIInv
<1>2. IInv /\ [Next]_vars => IInv'
    BY NextIInv
<1> QED
    BY <1>1, <1>2, PTL DEF Spec

-----------------------------------------------------------------------------
(* The theorems.                                                           *)

\* Every variable keeps its type.
THEOREM TypeCorrect == Spec => []TypeOK
<1>1. IInv => TypeOK
    BY DEF IInv
<1> QED
    BY <1>1, Invariance, PTL

\* sorted_ and cached_regions_ never come apart, whatever the calls of the
\* threads and the answers of PD.
THEOREM Coherent == Spec => []CacheCoherent
<1>1. IInv => CacheCoherent
    BY DEF IInv
<1> QED
    BY <1>1, Invariance, PTL

\* locate_key answers with a range that PD served and that holds the key.
THEOREM LocateCorrect == Spec => []LocateSound
<1>1. IInv => LocateSound
    BY DEF IInv
<1> QED
    BY <1>1, Invariance, PTL

\* get_rpc_context answers with the region it was asked for, and a peer of it.
THEOREM RpcContextCorrect == Spec => []RpcContextSound
<1>1. IInv => RpcContextSound
    BY DEF IInv
<1> QED
    BY <1>1, Invariance, PTL

\* If regions have only split, an outdated region never hides the current one.
\* Both contain the key, so the current one, which is served later, lies
\* within the outdated one; the end key of the outdated region, the smallest
\* above the key, would be a key of the current region and not of its own.
LEMMA FreshestWinsHolds == IInv => FreshestWins
<1> SUFFICES ASSUME IInv, OnlySplits(Past), NEW key \in Key,
                    NEW v \in DOMAIN cached, NEW w \in DOMAIN cached,
                    Finds(key, v), w \in CurrentVer, Contains(cached[w].region, key)
             PROVE  v = w
    BY DEF FreshestWins
<1> USE IInvParts
<1>1. PICK e \in UpperBound(key) : Contains(sorted[e], key) /\ v = sorted[e].ver_id
    BY DEF Finds
<1>2. /\ e \in DOMAIN sorted /\ e \in Key /\ e > key
      /\ \A f \in DOMAIN sorted : f > key => e <= f
    BY <1>1 DEF UpperBound, Maps, MapTypes
<1>3. /\ cached[v].region.end_key = e /\ Contains(cached[v].region, key)
      /\ cached[v].region.ver_id = v
    BY <1>1, <1>2, FoundContains DEF Maps, CacheCoherent
<1> DEFINE f == cached[w].region.end_key
<1>4. f \in DOMAIN sorted /\ f \in Key /\ sorted[f].ver_id = w
    BY DEF Maps, MapTypes, CacheCoherent
<1>5. SUFFICES ASSUME f # e PROVE FALSE
    BY <1>1, <1>4
<1>6. PICK p \in Served : /\ p.start_key = cached[v].region.start_key
                          /\ p.end_key = cached[v].region.end_key
    BY DEF Maps, CachedServed, ServedAs
<1>7. PICK i \in 1..epoch : p \in PDTable[i]
    BY DEF Served
<1>8. PICK q \in PDTable[epoch] : /\ q.start_key = cached[w].region.start_key
                                  /\ q.end_key = f
    <2>1. PICK q \in PDTable[epoch] : q.ver_id = w
        BY DEF CurrentVer
    <2>2. PICK o \in Served : /\ o.ver_id = w /\ o.end_key = f
                              /\ o.start_key = cached[w].region.start_key
        BY DEF Maps, CacheCoherent, CachedServed, ServedAs
    <2>3. q.start_key = o.start_key /\ q.end_key = o.end_key
        BY <2>1, <2>2, ServedFacts, OneRange
    <2> QED
        BY <2>2, <2>3
<1>9. Contains(p, key) /\ Contains(q, key)
    BY <1>3, <1>6, <1>8 DEF Contains
<1>10. \A k \in Key : Contains(q, k) => Contains(p, k)
    <2>1. /\ i \in DOMAIN Past /\ epoch \in DOMAIN Past /\ i <= epoch
          /\ p \in Past[i] /\ q \in Past[epoch]
        BY <1>7, ServedFacts DEF Past
    <2> QED
        BY <1>7, <1>9, <2>1 DEF OnlySplits
<1>11. q.start_key \in Nat /\ key \in Nat /\ e \in Nat /\ f \in Nat
    <2>1. q \in Region
        BY ServedFacts
    <2> QED
        BY <1>2, <1>4, <2>1, KeyAssumption DEF Region
<1>12. Contains(q, e)
    <2>1. q.start_key <= e
        BY <1>2, <1>9, <1>11 DEF Contains
    <2>2. f = EmptyKey \/ e < f
        BY <1>2, <1>4, <1>5, <1>8, <1>9, <1>11 DEF Contains
    <2> QED
        BY <1>8, <2>1, <2>2 DEF Contains
<1>13. Contains(p, e)
    BY <1>2, <1>10, <1>12
<1> QED
    BY <1>2, <1>3, <1>6, <1>11, <1>13 DEF Contains, EmptyKey

THEOREM FreshestCorrect == Spec => []FreshestWins
BY FreshestWinsHolds, Invariance, PTL

\* A step leaves the maps as they are, but for leaders.
Relabels ==
    /\ UNCHANGED sorted
    /\ DOMAIN cached' = DOMAIN cached
    /\ \A v \in DOMAIN cached :
        /\ cached'[v].last_access = cached[v].last_access
        /\ LocOf(cached'[v].region) = LocOf(cached[v].region)

\* A hit changes nothing: the compare-and-exchange has no effect.
LEMMA TouchChangesNothing ==
    ASSUME Maps, NEW v \in DOMAIN cached, cached' = [cached EXCEPT ![v] = Touched(@)]
    PROVE  cached' = cached
<1>1. cached[v] \in Entry
    BY DEF Maps, MapTypes
<1>2. cached' = [cached EXCEPT ![v] = cached[v]]
    BY <1>1, TouchedIsEntry
<1> QED
    BY <1>2 DEF Maps, MapTypes

\* Every step inserts a region that was loaded, drops a version, or relabels;
\* only an insertion and a hit answer locate_key.
LEMMA MapsChange ==
    ASSUME IInv, Next
    PROVE  \/ \E t \in Threads : LocateInsert(t)
           \/ \E v \in ServedVer : DropFromCache(v) /\ ret'.op # "locate_key" /\ UNCHANGED epoch
           \/ \E t \in Threads, key \in Key : LocateHit(t, key) /\ UNCHANGED maps
           \/ /\ Relabels /\ ret'.op # "locate_key"
              /\ epoch' \in {epoch, epoch + 1} /\ epoch' \in DOMAIN PDTable
<1> USE IInvParts
<1> DEFINE Plain == ret' \in {NoResult, Failure}
<1>1. Plain => ret'.op # "locate_key"
    BY DEF NoResult, Failure
<1>2. UNCHANGED maps => Relabels
    BY DEF maps, Relabels
<1>3. epoch' = epoch => epoch' \in {epoch, epoch + 1} /\ epoch' \in DOMAIN PDTable
    OBVIOUS
<1>4. ASSUME NEW t \in Threads, LocateKey(t), ~LocateInsert(t)
      PROVE  \/ \E key \in Key : LocateHit(t, key) /\ UNCHANGED maps
             \/ Relabels /\ ret'.op # "locate_key" /\ epoch' = epoch
    <2>1. ASSUME NEW key \in Key, LocateHit(t, key) PROVE UNCHANGED maps
        <3>1. PICK v \in DOMAIN cached : cached' = [cached EXCEPT ![v] = Touched(@)]
            BY <2>1 DEF LocateHit
        <3>2. cached' = cached
            BY <3>1, TouchChangesNothing
        <3> QED
            BY <2>1, <3>2 DEF LocateHit, maps
    <2>2. CASE LoadRegion(t) \/ LoadFails(t) \/ \E key \in Key : LocateMiss(t, key)
        BY <1>1, <1>2, <2>2 DEF LoadRegion, LoadFails, LocateMiss, Return
    <2> QED
        BY <1>4, <2>1, <2>2 DEF LocateKey
<1>5. ASSUME NEW t \in Threads, GetRpcContext(t)
      PROVE  \/ \E v \in ServedVer : DropFromCache(v) /\ ret'.op # "locate_key" /\ UNCHANGED epoch
             \/ Relabels /\ ret'.op # "locate_key" /\ epoch' = epoch
    <2>1. CASE RpcContextNoAddr(t)
        <3>1. frame[t].ver \in ServedVer
            BY <2>1 DEF RpcContextNoAddr, Calls, FramesServed, ServedAs, ServedVer
        <3> QED
            BY <1>1, <2>1, <3>1 DEF RpcContextNoAddr, Return
    <2>2. ASSUME NEW v \in ServedVer, RpcContextRead(t, v)
          PROVE  UNCHANGED maps /\ Plain /\ epoch' = epoch
        BY <2>2, TouchChangesNothing DEF RpcContextRead, Live, maps
    <2>3. CASE RpcContextReady(t)
        BY <1>2, <2>3 DEF RpcContextReady, Return
    <2>4. CASE RpcContextNoStore(t) \/ \E v \in ServedVer : RpcContextStale(t, v)
        BY <1>1, <1>2, <2>4 DEF RpcContextNoStore, RpcContextStale, Return
    <2> QED
        BY <1>1, <1>2, <1>5, <2>1, <2>2, <2>3, <2>4 DEF GetRpcContext
<1>6. ASSUME NEW t \in Threads, NEW v \in ServedVer, DropRegion(t, v)
      PROVE  DropFromCache(v) /\ ret'.op # "locate_key" /\ UNCHANGED epoch
    BY <1>1, <1>6 DEF DropRegion, Return
<1>7. ASSUME NEW t \in Threads, NEW v \in ServedVer, NEW s \in StoreId,
             UpdateRegionLeader(t, v, s)
      PROVE  Relabels /\ Plain /\ epoch' = epoch
    <2>1. CASE ~Live(v)
        BY <1>2, <1>7, <2>1 DEF UpdateRegionLeader, Return, maps
    <2>2. CASE Live(v)
        <3> DEFINE r == cached[v].region
                   r2 == SwitchLeader(r, ToUint16(s))
        <3>1. v \in DOMAIN cached /\ cached[v] \in Entry /\ r \in Region
            BY <2>2 DEF Live, Maps, MapTypes, Entry
        <3>2. r2 \in Region /\ LocOf(r2) = LocOf(r)
            BY <3>1, SwitchLeaderKeeps DEF LocOf
        <3>3. cached' = [cached EXCEPT ![v] = [cached[v] EXCEPT !.region = r2]]
            BY <1>7, <2>2, <3>1, TouchedIsEntry DEF UpdateRegionLeader
        <3> DEFINE x == [cached[v] EXCEPT !.region = r2]
        <3>4. x.last_access = cached[v].last_access /\ x.region = r2
            BY <3>1 DEF Entry
        <3>5. cached' = [cached EXCEPT ![v] = x]
            BY <3>3
        <3> HIDE DEF x, r2
        <3>6. Relabels
            BY <1>7, <3>1, <3>2, <3>4, <3>5 DEF UpdateRegionLeader, Relabels, Maps, MapTypes
        <3> QED
            BY <1>7, <3>6 DEF UpdateRegionLeader, Return
    <2> QED
        BY <2>1, <2>2
<1>8. CASE ClockAdvances \/ ClockSetBack \/ Taken
    BY <1>1, <1>2, <1>3, <1>8 DEF ClockAdvances, ClockSetBack, Taken
<1>9. CASE PDChange
    <2>1. epoch' \in DOMAIN PDTable
        BY <1>9, TableAssumption DEF PDChange
    <2> QED
        BY <1>1, <1>2, <1>9, <2>1 DEF PDChange
<1> HIDE DEF Plain
<1> QED
    BY <1>1, <1>2, <1>3, <1>4, <1>5, <1>6, <1>7, <1>8, <1>9 DEF Next

\* No lookup makes an entry younger.
THEOREM AgeCorrect == Spec => AgeRunsFromInsertion
<1> DEFINE Aged == \A v \in DOMAIN cached \cap DOMAIN cached' :
               cached'[v].last_access # cached[v].last_access
                   => /\ cached'[v].last_access = now
                      /\ \E t \in Threads : pc[t] = "insert" /\ v = frame[t].region.ver_id
<1>1. IInv /\ [Next]_vars => [Aged]_vars
    <2> SUFFICES ASSUME IInv, Next PROVE Aged
        OBVIOUS
    <2>1. ASSUME NEW t \in Threads, LocateInsert(t) PROVE Aged
        <3> DEFINE r == frame[t].region
                   replaced == {sorted[e].ver_id : e \in {r.end_key} \cap DOMAIN sorted}
                   kept == Restrict(cached, DOMAIN cached \ replaced)
                   entry == [region |-> r, last_access |-> now]
        <3>1. pc[t] = "insert" /\ cached' = Put(kept, r.ver_id, entry)
            BY <2>1 DEF LocateInsert, InsertRegion
        <3>2. DOMAIN kept \subseteq DOMAIN cached /\ \A v \in DOMAIN kept : kept[v] = cached[v]
            BY RestrictDef
        <3>3. entry.last_access = now
            OBVIOUS
        <3> HIDE DEF kept, entry
        <3>4. ASSUME NEW v \in DOMAIN cached'
              PROVE  \/ v = r.ver_id /\ cached'[v] = entry
                     \/ cached'[v] = cached[v]
            BY <3>1, <3>2 DEF Put
        <3> QED
            BY <3>1, <3>3, <3>4
    <2>2. ASSUME NEW v \in ServedVer, DropFromCache(v) PROVE Aged
        BY <2>2, RestrictDef DEF DropFromCache
    <2>3. CASE UNCHANGED maps \/ Relabels
        BY <2>3 DEF maps, Relabels
    <2> QED
        BY <2>1, <2>2, <2>3, MapsChange
<1> QED
    BY <1>1, Invariance, PTL DEF Spec, AgeRunsFromInsertion

-----------------------------------------------------------------------------
(* Where the leaders come from.                                            *)

\* Every region in the cache, or in the locals of a call, has a leader with a
\* source.
SourcesKnown ==
    /\ \A v \in DOMAIN cached : HasSource(cached[v].region)
    /\ \A t \in Threads : pc[t] \in {"insert", "addr"} => HasSource(frame[t].region)

SourceInv == SourcesKnown /\ PeerHasSource

LEMMA SourcesStay ==
    ASSUME epoch \in DOMAIN PDTable, epoch' \in {epoch, epoch + 1}
    PROVE  \A r : HasSource(r) => HasSource(r)'
BY ServedGrows DEF HasSource

\* PD names the leader of what is loaded.
LEMMA LoadedHasSource ==
    ASSUME epoch \in DOMAIN PDTable, NEW p \in PDTable[epoch]
    PROVE  HasSource(LoadedRegion(p))
<1>1. p \in Served /\ p \in Region
    BY ServedFacts
<1> QED
    BY <1>1, LoadedRegionKeeps DEF HasSource

\* A switch of the leader leaves it alone or takes a peer on the store named.
LEMMA SwitchHasSource ==
    ASSUME NEW r \in Region, HasSource(r), NEW s \in StoreId
    PROVE  HasSource(SwitchLeader(r, ToUint16(s)))
<1> DEFINE id == ToUint16(s)
           matching == {p \in r.peers : p.store_id = id}
           r2 == SwitchLeader(r, id)
<1>1. r2.ver_id = r.ver_id /\ r2.peers = r.peers /\ r2.leader = LeaderAmong(r, matching)
    BY DEF SwitchLeader, Region
<1>2. CASE matching = {}
    BY <1>1, <1>2 DEF LeaderAmong, HasSource
<1>3. CASE matching # {}
    <2>1. r2.leader \in matching
        BY <1>1, <1>3 DEF LeaderAmong
    <2>2. r2.leader \in r2.peers /\ r2.leader.store_id = ToUint16(s)
        BY <1>1, <2>1
    <2> SUFFICES HasSource(r2)
        OBVIOUS
    <2> HIDE DEF r2
    <2> QED
        BY <2>2 DEF HasSource
<1> QED
    BY <1>2, <1>3

\* A step keeps the sources of the cache if each of its entries is an old one
\* or has a source of its own.
LEMMA SourceStep ==
    ASSUME SourceInv, epoch \in DOMAIN PDTable, epoch' \in {epoch, epoch + 1},
           \A v \in DOMAIN cached' :
                \/ v \in DOMAIN cached /\ cached'[v] = cached[v]
                \/ HasSource(cached'[v].region),
           \A t \in Threads : pc'[t] \in {"insert", "addr"} =>
                \/ pc[t] \in {"insert", "addr"} /\ frame'[t].region = frame[t].region
                \/ HasSource(frame'[t].region),
           ret'.op = "get_rpc_context" =>
                ret'.peer = ret'.meta.leader /\ HasSource(ret'.meta)
    PROVE  SourceInv'
<1>1. \A r : HasSource(r) => HasSource(r)'
    BY SourcesStay
<1>2. \A v \in DOMAIN cached' : HasSource(cached'[v].region)
    BY DEF SourceInv, SourcesKnown
<1>3. \A t \in Threads : pc'[t] \in {"insert", "addr"} => HasSource(frame'[t].region)
    BY DEF SourceInv, SourcesKnown
<1>4. Served \subseteq Served'
    BY ServedGrows
<1>5. ASSUME NEW v \in DOMAIN cached' PROVE HasSource(cached[v].region)'
    BY <1>2, <1>4, <1>5 DEF HasSource
<1>6. ASSUME NEW t \in Threads, pc'[t] \in {"insert", "addr"}
      PROVE  HasSource(frame[t].region)'
    BY <1>3, <1>4, <1>6 DEF HasSource
<1>7. PeerHasSource'
    BY <1>4 DEF PeerHasSource, HasSource
<1> QED
    BY <1>5, <1>6, <1>7 DEF SourceInv, SourcesKnown

LEMMA NextSources == IInv /\ SourceInv /\ [Next]_vars => SourceInv'
<1> SUFFICES ASSUME IInv, SourceInv, [Next]_vars PROVE SourceInv'
    OBVIOUS
<1> USE IInvParts
<1>1. ASSUME NEW t \in Threads, LocateInsert(t) PROVE SourceInv'
    <2> DEFINE r == frame[t].region
               replaced == {sorted[e].ver_id : e \in {r.end_key} \cap DOMAIN sorted}
               kept == Restrict(cached, DOMAIN cached \ replaced)
               entry == [region |-> r, last_access |-> now]
    <2>1. pc[t] = "insert" /\ cached' = Put(kept, r.ver_id, entry)
        BY <1>1 DEF LocateInsert, InsertRegion
    <2>2. DOMAIN kept \subseteq DOMAIN cached /\ \A v \in DOMAIN kept : kept[v] = cached[v]
        BY RestrictDef
    <2>3. HasSource(entry.region)
        BY <2>1 DEF SourceInv, SourcesKnown
    <2> HIDE DEF kept, entry
    <2>4. \A v \in DOMAIN cached' : \/ v \in DOMAIN cached /\ cached'[v] = cached[v]
                                   \/ HasSource(cached'[v].region)
        BY <2>1, <2>2, <2>3 DEF Put
    <2>5. ret'.op # "get_rpc_context" /\ epoch' = epoch
        BY <1>1 DEF LocateInsert, Return, Located
    <2>6. \A u \in Threads : pc'[u] \in {"insert", "addr"} =>
                pc[u] \in {"insert", "addr"} /\ frame'[u].region = frame[u].region
        BY <1>1 DEF LocateInsert, Return, Calls, CallTypes
    <2> QED
        BY <2>4, <2>5, <2>6, SourceStep
<1>2. ASSUME NEW t \in Threads, LoadRegion(t) PROVE SourceInv'
    <2>1. PICK p \in PDTable[epoch] : frame' = [frame EXCEPT ![t].region = LoadedRegion(p)]
        BY <1>2 DEF LoadRegion, PDAnswers
    <2>2. \A u \in Threads : pc'[u] \in {"insert", "addr"} =>
                \/ pc[u] \in {"insert", "addr"} /\ frame'[u].region = frame[u].region
                \/ HasSource(frame'[u].region)
        <3>1. frame'[t].region = LoadedRegion(p)
            BY <2>1 DEF Calls, CallTypes, Frame
        <3>2. \A u \in Threads \ {t} : pc'[u] = pc[u] /\ frame'[u] = frame[u]
            BY <1>2, <2>1 DEF LoadRegion, Calls, CallTypes
        <3> QED
            BY <3>1, <3>2, LoadedHasSource
    <2> QED
        BY <1>2, <2>2, SourceStep DEF LoadRegion, maps, NoResult
<1>3. ASSUME NEW t \in Threads, NEW v \in ServedVer, RpcContextRead(t, v) PROVE SourceInv'
    <2>1. v \in DOMAIN cached /\ cached' = cached
        BY <1>3, TouchChangesNothing DEF RpcContextRead, Live
    <2>2. /\ \A u \in Threads \ {t} : pc'[u] = pc[u] /\ frame'[u] = frame[u]
          /\ frame'[t].region = cached[v].region
        BY <1>3 DEF RpcContextRead, Calls, CallTypes, Frame
    <2>3. HasSource(frame'[t].region)
        BY <2>1, <2>2 DEF SourceInv, SourcesKnown
    <2>4. \A u \in Threads : pc'[u] \in {"insert", "addr"} =>
                \/ pc[u] \in {"insert", "addr"} /\ frame'[u].region = frame[u].region
                \/ HasSource(frame'[u].region)
        BY <2>2, <2>3
    <2> QED
        BY <1>3, <2>1, <2>4, SourceStep DEF RpcContextRead, NoResult
<1>4. ASSUME NEW t \in Threads, NEW v \in ServedVer, NEW s \in StoreId,
             UpdateRegionLeader(t, v, s)
      PROVE  SourceInv'
    <2>1. \A w \in DOMAIN cached' : \/ w \in DOMAIN cached /\ cached'[w] = cached[w]
                                   \/ HasSource(cached'[w].region)
        <3>1. CASE ~Live(v)
            BY <1>4, <3>1 DEF UpdateRegionLeader
        <3>2. CASE Live(v)
            <4> DEFINE r == cached[v].region
                       r2 == SwitchLeader(r, ToUint16(s))
                       x == [cached[v] EXCEPT !.region = r2]
            <4>1. v \in DOMAIN cached /\ cached[v] \in Entry /\ r \in Region
                BY <3>2 DEF Live, Maps, MapTypes, Entry
            <4>2. HasSource(r2)
                BY <4>1, SwitchHasSource DEF SourceInv, SourcesKnown
            <4>3. cached' = [cached EXCEPT ![v] = x]
                BY <1>4, <3>2, <4>1, TouchedIsEntry DEF UpdateRegionLeader
            <4>4. x.region = r2
                BY <4>1 DEF Entry
            <4> HIDE DEF x, r2
            <4> QED
                BY <4>1, <4>2, <4>3, <4>4
        <3> QED
            BY <3>1, <3>2
    <2>2. \A u \in Threads : pc'[u] \in {"insert", "addr"} =>
                pc[u] \in {"insert", "addr"} /\ frame'[u].region = frame[u].region
        BY <1>4 DEF UpdateRegionLeader, Return, Calls, CallTypes
    <2> QED
        BY <1>4, <2>1, <2>2, SourceStep DEF UpdateRegionLeader, Return, NoResult
<1>5. ASSUME NEW t \in Threads, RpcContextReady(t) PROVE SourceInv'
    <2>1. ret'.peer = ret'.meta.leader /\ HasSource(ret'.meta)
        BY <1>5 DEF RpcContextReady, Return, SourceInv, SourcesKnown
    <2>2. \A u \in Threads : pc'[u] \in {"insert", "addr"} =>
                pc[u] \in {"insert", "addr"} /\ frame'[u].region = frame[u].region
        BY <1>5 DEF RpcContextReady, Return, Calls, CallTypes
    <2> QED
        BY <1>5, <2>1, <2>2, SourceStep DEF RpcContextReady, maps
<1>6. ASSUME NEW t \in Threads, NEW v, DropFromCache(v), Return(t, NoResult) \/ Return(t, Failure),
             UNCHANGED epoch
      PROVE  SourceInv'
    <2>1. \A w \in DOMAIN cached' : w \in DOMAIN cached /\ cached'[w] = cached[w]
        BY <1>6, RestrictDef DEF DropFromCache
    <2>2. \A u \in Threads : pc'[u] \in {"insert", "addr"} =>
                pc[u] \in {"insert", "addr"} /\ frame'[u].region = frame[u].region
        BY <1>6 DEF Return, Calls, CallTypes
    <2>3. ret'.op # "get_rpc_context"
        BY <1>6 DEF Return, NoResult, Failure
    <2> QED
        BY <1>6, <2>1, <2>2, <2>3, SourceStep
<1>7. ASSUME NEW t \in Threads, NEW key \in Key, LocateHit(t, key) PROVE SourceInv'
    <2>1. PICK v \in DOMAIN cached :
            /\ cached' = [cached EXCEPT ![v] = Touched(@)]
            /\ Return(t, Located(key, cached[v].region, TRUE))
        BY <1>7 DEF LocateHit
    <2>2. cached' = cached
        BY <2>1, TouchChangesNothing
    <2>3. \A u \in Threads : pc'[u] \in {"insert", "addr"} =>
                pc[u] \in {"insert", "addr"} /\ frame'[u].region = frame[u].region
        BY <2>1 DEF Return, Calls, CallTypes
    <2>4. ret'.op # "get_rpc_context" /\ epoch' = epoch
        BY <1>7, <2>1 DEF LocateHit, Return, Located
    <2> QED
        BY <2>2, <2>3, <2>4, SourceStep
<1>8. ASSUME NEW t \in Threads, NEW key \in Key, LocateMiss(t, key) PROVE SourceInv'
    <2>1. \A u \in Threads : pc'[u] \in {"insert", "addr"} =>
                pc[u] \in {"insert", "addr"} /\ frame'[u].region = frame[u].region
        BY <1>8 DEF LocateMiss, Calls, CallTypes
    <2> QED
        BY <1>8, <2>1, SourceStep DEF LocateMiss, maps, NoResult
<1>9. ASSUME NEW t \in Threads, UNCHANGED maps, Return(t, Failure), UNCHANGED epoch
      PROVE  SourceInv'
    <2>1. \A u \in Threads : pc'[u] \in {"insert", "addr"} =>
                pc[u] \in {"insert", "addr"} /\ frame'[u].region = frame[u].region
        BY <1>9 DEF Return, Calls, CallTypes
    <2> QED
        BY <1>9, <2>1, SourceStep DEF Return, maps, Failure
<1>10. CASE PDChange \/ ClockAdvances \/ ClockSetBack \/ Taken
    BY <1>10, SourceStep DEF PDChange, ClockAdvances, ClockSetBack, Taken, maps, calls, NoResult
<1>11. CASE UNCHANGED vars
    BY <1>11 DEF vars, SourceInv, SourcesKnown, PeerHasSource, HasSource, Served
<1> QED
    BY <1>1, <1>2, <1>3, <1>4, <1>5, <1>6, <1>7, <1>8, <1>9, <1>10, <1>11
    DEF Next, LocateKey, GetRpcContext, LoadFails, RpcContextStale, RpcContextNoStore,
        RpcContextNoAddr, DropRegion

\* The peer of a context is PD's leader for the version asked for, or the peer
\* on a store that was reported, whatever happens while its address is looked
\* up.
THEOREM PeersHaveSource == Spec => []PeerHasSource
<1>1. Init => SourceInv
    BY DEF Init, SourceInv, SourcesKnown, PeerHasSource, NoResult
<1>2. SourceInv => PeerHasSource
    BY DEF SourceInv
<1> QED
    BY <1>1, <1>2, NextSources, Invariance, PTL DEF Spec

=============================================================================
