---------------------------- MODULE RegionCache -----------------------------
(***************************************************************************)
(* The region half of class RegionCache (include/region_cache.h,           *)
(* src/region_cache.cc): the B-tree sorted_ that finds a region by key,    *)
(* the map cached_regions_ that finds it by RegionVerID, and the calls     *)
(* that read and change the two.                                           *)
(*                                                                         *)
(* Threads call the cache concurrently.  Every critical section of         *)
(* region_lock_ runs to its end without blocking, so a section is one      *)
(* step; between the sections of a call, where the code talks to PD or     *)
(* asks for a store address with no lock held, other threads take steps.   *)
(*                                                                         *)
(* PD (external) is a script: PDTable[i] is the set of regions PD knows in *)
(* its i-th epoch, and epoch moves forward as regions split, merge or      *)
(* change leader.  The address lookup of get_rpc_context is open here: it  *)
(* ends in an address, in the empty address, or in an error.               *)
(*                                                                         *)
(* dump_cache, the one call that takes no lock, is left to                 *)
(* RegionCacheDump: what holds here holds as long as nobody calls it.      *)
(***************************************************************************)
EXTENDS RegionMeta, Sequences, Functions

CONSTANTS
    Threads,    \* the threads that share the cache
    PDTable,    \* PDTable[i]: the regions PD knows in its i-th epoch
    StoreId,    \* the store ids callers pass to update_region_leader
    TTL,        \* kDefaultRegionCacheTTL
    U64,        \* the number of values of a uint64_t (2^64 in the build)
    MaxTime     \* bound on the clock

\* PD raises the version of a region whenever its range changes.
ASSUME TableAssumption ==
    /\ PDTable \in Seq(SUBSET Region)
    /\ Len(PDTable) > 0
    /\ VersionsFixRanges(PDTable)
\* PD's regions partition the key space, and a version that is gone stays
\* gone.  Only StaleOverwriteNeedsRace rests on this.
ASSUME OrderAssumption == DistinctEnds(PDTable) /\ NeverReturns(PDTable)
ASSUME NumberAssumption ==
    /\ StoreId \subseteq Nat
    /\ TTL \in Nat
    /\ U64 \in Nat \ {0}
    /\ MaxTime \in Nat

VARIABLES
    sorted,     \* sorted_: end_key -> region
    cached,     \* cached_regions_: RegionVerID -> region and access time
    now,        \* what ::time(NULL) returns
    epoch,      \* the epoch PD is in
    pc,         \* where each thread is
    frame,      \* the arguments and locals of each thread's call
    ret,        \* what the call that the last step finished returned
    overlap     \* history: the versions other threads inserted since PD
                \* answered this thread's load

vars == <<sorted, cached, now, epoch, pc, frame, ret, overlap>>
maps == <<sorted, cached>>
calls == <<pc, frame, overlap>>

Entry == [region : Region, last_access : Nat]
DefaultEntry == [region |-> NoRegion, last_access |-> 0]

Frame == [key : Key, ver : VerID, region : Region]
NoFrame == [key |-> EmptyKey, ver |-> NoVerID, region |-> NoRegion]

KeyLoc == [start_key : Key, end_key : Key, region_ver_id : VerID]
NoResult == [op |-> "none"]
Failure  == [op |-> "error"]
Result ==
    {NoResult, Failure}
    \cup [op : {"locate_key"}, key : Key, loc : KeyLoc, cache_hit : BOOLEAN]
    \cup [op : {"get_rpc_context"}, ver : VerID, region_ver_id : VerID,
          meta : Region, peer : Peer]

Served == UNION {PDTable[i] : i \in 1..epoch}
ServedVer == {p.ver_id : p \in Served}

-----------------------------------------------------------------------------
(* The two maps.                                                           *)

\* is_valid: the subtraction is on uint64_t, so a clock that stands before
\* the access time makes the entry very old.
IsValid(entry) == (now - entry.last_access) % U64 < TTL

TouchedSucceeds(entry) == [entry EXCEPT !.last_access = now]
\* What the compare-and-exchange of get_cached_region leaves in an entry: it
\* expects last_access to be the present time and stores the present time.
Touched(entry) ==
    IF entry.last_access = now THEN [entry EXCEPT !.last_access = now] ELSE entry

\* get_cached_region(v) finds a region
Live(v) == v \in DOMAIN cached /\ IsValid(cached[v])

UpperBoundTakesLast(key) ==
    {e \in DOMAIN sorted : e > key /\ \A f \in DOMAIN sorted : f > key => e >= f}
LowerBound(key) ==
    {e \in DOMAIN sorted : e >= key /\ \A f \in DOMAIN sorted : f >= key => e <= f}
\* sorted_.upper_bound(key), as a set of at most one end key
UpperBound(key) ==
    {e \in DOMAIN sorted : e > key /\ \A f \in DOMAIN sorted : f > key => e <= f}

FindsWithoutContains(key, v) ==
    \E e \in UpperBound(key) : v = sorted[e].ver_id /\ Live(v)
\* search_cache(key) finds the region cached under v
Finds(key, v) ==
    \E e \in UpperBound(key) :
        /\ Contains(sorted[e], key)
        /\ v = sorted[e].ver_id
        /\ Live(v)

InsertKeepsReplaced(r) ==
    /\ sorted' = Put(sorted, r.end_key, r)
    /\ cached' = Put(cached, r.ver_id, [region |-> r, last_access |-> now])
InsertBackdated(r) ==
    LET replaced == {sorted[e].ver_id : e \in {r.end_key} \cap DOMAIN sorted}
    IN  /\ sorted' = Put(sorted, r.end_key, r)
        /\ cached' = Put(Restrict(cached, DOMAIN cached \ replaced),
                         r.ver_id, [region |-> r, last_access |-> now - 1])
\* insert_region_to_cache
InsertRegion(r) ==
    LET replaced == {sorted[e].ver_id : e \in {r.end_key} \cap DOMAIN sorted}
    IN  /\ sorted' = Put(sorted, r.end_key, r)
        /\ cached' = Put(Restrict(cached, DOMAIN cached \ replaced),
                         r.ver_id, [region |-> r, last_access |-> now])

DropLeavesSorted(v) ==
    /\ cached' = Restrict(cached, DOMAIN cached \ {v})
    /\ UNCHANGED sorted
\* drop_region_from_cache
DropFromCache(v) ==
    LET endKeys == {cached[w].region.end_key : w \in {v} \cap DOMAIN cached}
    IN  /\ sorted' = Restrict(sorted, DOMAIN sorted \ endKeys)
        /\ cached' = Restrict(cached, DOMAIN cached \ {v})

-----------------------------------------------------------------------------
(* Calls.                                                                  *)

Return(t, result) ==
    /\ pc' = [pc EXCEPT ![t] = "idle"]
    /\ frame' = [frame EXCEPT ![t] = NoFrame]
    /\ ret' = result

LocOf(r) ==
    [start_key |-> r.start_key, end_key |-> r.end_key, region_ver_id |-> r.ver_id]
Located(key, r, hit) ==
    [op |-> "locate_key", key |-> key, cache_hit |-> hit, loc |-> LocOf(r)]

\* locate_key, first section: the key is in the cache.
LocateHit(t, key) ==
    /\ pc[t] = "idle"
    /\ \E v \in DOMAIN cached :
        /\ Finds(key, v)
        /\ cached' = [cached EXCEPT ![v] = Touched(@)]
        /\ Return(t, Located(key, cached[v].region, TRUE))
    /\ UNCHANGED <<sorted, now, epoch, overlap>>

\* locate_key, first section: it is not; the shared lock is released.
LocateMiss(t, key) ==
    /\ pc[t] = "idle"
    /\ ~\E v \in DOMAIN cached : Finds(key, v)
    /\ pc' = [pc EXCEPT ![t] = "load"]
    /\ frame' = [frame EXCEPT ![t].key = key]
    /\ ret' = NoResult
    /\ UNCHANGED <<maps, now, epoch, overlap>>

\* PD (external): the regions a GetRegion for this key may be answered with.
PDAnswers(key) == {p \in PDTable[epoch] : Contains(p, key)}

\* parse_get_region_result, then the tail of load_region_from_pd: the region
\* starts with no leader, takes the peer PD names by peer id and, when PD
\* names one at all, by store id.
LoadedRegion(p) ==
    LET parsed == SwitchLeaderByPeerId([p EXCEPT !.leader = NoPeer], p.leader.id)
    IN  IF p.leader.id > 0 /\ p.leader.store_id > 0
        THEN SwitchLeader(parsed, p.leader.store_id)
        ELSE parsed

\* load_region_from_pd: PD answers with a region.  One without peers is what an
\* empty answer parses to, and is refused.
LoadRegion(t) ==
    /\ pc[t] = "load"
    /\ \E p \in PDAnswers(frame[t].key) :
        /\ p.peers # {}
        /\ frame' = [frame EXCEPT ![t].region = LoadedRegion(p)]
    /\ pc' = [pc EXCEPT ![t] = "insert"]
    /\ ret' = NoResult
    /\ UNCHANGED <<maps, now, epoch, overlap>>

\* load_region_from_pd: the RPC failed, PD knows no region for the key, or
\* the region has no peers.
LoadFails(t) ==
    /\ pc[t] = "load"
    /\ Return(t, Failure)
    /\ UNCHANGED <<maps, now, epoch, overlap>>

\* locate_key, second section: the answer goes into the cache.
LocateInsert(t) ==
    /\ pc[t] = "insert"
    /\ InsertRegion(frame[t].region)
    /\ Return(t, Located(frame[t].key, frame[t].region, FALSE))
    /\ overlap' = [u \in Threads |->
            IF u = t THEN {}
            ELSE IF pc[u] = "insert" THEN overlap[u] \cup {frame[t].region.ver_id}
            ELSE overlap[u]]
    /\ UNCHANGED <<now, epoch>>

\* get_rpc_context: the region is not cached, or too old.
RpcContextStale(t, v) ==
    /\ pc[t] = "idle"
    /\ ~Live(v)
    /\ Return(t, Failure)
    /\ UNCHANGED <<maps, now, epoch, overlap>>

\* get_rpc_context: the region is copied out under the shared lock.
RpcContextRead(t, v) ==
    /\ pc[t] = "idle"
    /\ Live(v)
    /\ cached' = [cached EXCEPT ![v] = Touched(@)]
    /\ pc' = [pc EXCEPT ![t] = "addr"]
    /\ frame' = [frame EXCEPT ![t].ver = v, ![t].region = cached[v].region]
    /\ ret' = NoResult
    /\ UNCHANGED <<sorted, now, epoch, overlap>>

RpcContextReinserts(t) ==
    /\ pc[t] = "addr"
    /\ InsertRegion(frame[t].region)
    /\ Return(t, [op |-> "get_rpc_context", ver |-> frame[t].ver,
                  region_ver_id |-> NoVerID,
                  meta |-> frame[t].region, peer |-> frame[t].region.leader])
    /\ UNCHANGED <<now, epoch, overlap>>
RpcContextRereads(t) ==
    LET v == frame[t].ver
        r == IF v \in DOMAIN cached THEN cached[v].region ELSE NoRegion
    IN  /\ pc[t] = "addr"
        /\ Return(t, [op |-> "get_rpc_context", ver |-> v, region_ver_id |-> NoVerID,
                      meta |-> r, peer |-> r.leader])
        /\ UNCHANGED <<maps, now, epoch, overlap>>
RpcContextTakesNewLeader(t) ==
    LET v == frame[t].ver
        r == IF v \in DOMAIN cached THEN cached[v].region ELSE frame[t].region
    IN  /\ pc[t] = "addr"
        /\ Return(t, [op |-> "get_rpc_context", ver |-> v, region_ver_id |-> NoVerID,
                      meta |-> r, peer |-> r.leader])
        /\ UNCHANGED <<maps, now, epoch, overlap>>
\* get_rpc_context: get_store_addr found the address of the leader's store.
\* rpc_context::region_ver_id is never assigned and keeps its default.
RpcContextReady(t) ==
    /\ pc[t] = "addr"
    /\ Return(t, [op |-> "get_rpc_context", ver |-> frame[t].ver,
                  region_ver_id |-> NoVerID,
                  meta |-> frame[t].region, peer |-> frame[t].region.leader])
    /\ UNCHANGED <<maps, now, epoch, overlap>>

\* get_rpc_context: get_store_addr failed.
RpcContextNoStore(t) ==
    /\ pc[t] = "addr"
    /\ Return(t, Failure)
    /\ UNCHANGED <<maps, now, epoch, overlap>>

\* get_rpc_context: the store has the empty address, the region is dropped.
RpcContextNoAddr(t) ==
    /\ pc[t] = "addr"
    /\ DropFromCache(frame[t].ver)
    /\ Return(t, Failure)
    /\ UNCHANGED <<now, epoch, overlap>>

\* drop_region
DropRegion(t, v) ==
    /\ pc[t] = "idle"
    /\ DropFromCache(v)
    /\ Return(t, NoResult)
    /\ UNCHANGED <<now, epoch, overlap>>

\* update_region_leader
UpdateRegionLeader(t, v, storeId) ==
    /\ pc[t] = "idle"
    /\ IF Live(v)
       THEN LET entry == Touched(cached[v])
            IN  cached' = [cached EXCEPT ![v] =
                    [entry EXCEPT !.region = SwitchLeader(entry.region, ToUint16(storeId))]]
       ELSE UNCHANGED cached
    /\ Return(t, NoResult)
    /\ UNCHANGED <<sorted, now, epoch, overlap>>

-----------------------------------------------------------------------------
(* The environment.                                                        *)

\* PD moves on: a split, a merge, a change of peers or of leader.
PDChange ==
    /\ epoch < Len(PDTable)
    /\ epoch' = epoch + 1
    /\ ret' = NoResult
    /\ UNCHANGED <<maps, now, calls>>

\* ::time(NULL) is the wall clock: it advances, and may be set back.
ClockAdvances ==
    /\ now < MaxTime
    /\ now' = now + 1
    /\ ret' = NoResult
    /\ UNCHANGED <<maps, epoch, calls>>

ClockSetBack ==
    /\ now > 0
    /\ now' = now - 1
    /\ ret' = NoResult
    /\ UNCHANGED <<maps, epoch, calls>>

\* The caller has taken its result, and goes on to what is no call about regions.
Taken ==
    /\ ret' = NoResult
    /\ UNCHANGED <<maps, now, epoch, calls>>

-----------------------------------------------------------------------------
Init ==
    /\ sorted = [e \in {} |-> NoRegion]
    /\ cached = [v \in {} |-> DefaultEntry]
    /\ now = 0
    /\ epoch = 1
    /\ pc = [t \in Threads |-> "idle"]
    /\ frame = [t \in Threads |-> NoFrame]
    /\ ret = NoResult
    /\ overlap = [t \in Threads |-> {}]

LocateKey(t) ==
    \/ \E key \in Key : LocateHit(t, key) \/ LocateMiss(t, key)
    \/ LoadRegion(t) \/ LoadFails(t) \/ LocateInsert(t)

GetRpcContext(t) ==
    \/ \E v \in ServedVer : RpcContextStale(t, v) \/ RpcContextRead(t, v)
    \/ RpcContextReady(t) \/ RpcContextNoStore(t) \/ RpcContextNoAddr(t)

Next ==
    \/ Taken
    \/ \E t \in Threads :
        \/ LocateKey(t)
        \/ GetRpcContext(t)
        \/ \E v \in ServedVer : DropRegion(t, v)
        \/ \E v \in ServedVer, s \in StoreId : UpdateRegionLeader(t, v, s)
    \/ PDChange
    \/ ClockAdvances \/ ClockSetBack

Spec == Init /\ [][Next]_vars

-----------------------------------------------------------------------------
(* Correctness.                                                            *)

\* Every variable has its type.
TypeOK ==
    /\ DOMAIN sorted \subseteq Key /\ sorted \in [DOMAIN sorted -> Region]
    /\ DOMAIN cached \subseteq VerID /\ cached \in [DOMAIN cached -> Entry]
    /\ now \in Nat
    /\ epoch \in DOMAIN PDTable
    /\ pc \in [Threads -> {"idle", "load", "insert", "addr"}]
    /\ frame \in [Threads -> Frame]
    /\ ret \in Result
    /\ overlap \in [Threads -> SUBSET VerID]

\* The B-tree and the map describe one set of regions: an entry of either has
\* a partner in the other, under the right key, with the same version and the
\* same range.  search_cache follows an entry of sorted_ into
\* cached_regions_, insert_region_to_cache and drop_region_from_cache the
\* other way round; each changes the two maps by a different key.
CacheCoherent ==
    /\ \A e \in DOMAIN sorted :
        LET v == sorted[e].ver_id
        IN  /\ sorted[e].end_key = e
            /\ v \in DOMAIN cached
            /\ cached[v].region.end_key = e
            /\ cached[v].region.start_key = sorted[e].start_key
    /\ \A v \in DOMAIN cached :
        LET e == cached[v].region.end_key
        IN  /\ cached[v].region.ver_id = v
            /\ e \in DOMAIN sorted
            /\ sorted[e].ver_id = v

\* A location that locate_key returns, from either map or from PD, covers the
\* key that was asked for, and is a range and version PD has served: the two
\* sections of the call never mix two regions.
LocateSound ==
    ret.op = "locate_key" =>
        /\ Contains(ret.loc, ret.key)
        /\ \E p \in Served :
            /\ p.ver_id = ret.loc.region_ver_id
            /\ p.start_key = ret.loc.start_key
            /\ p.end_key = ret.loc.end_key

\* The region in a context that get_rpc_context returns is the version it was
\* asked for, as PD served it, and the peer is one of that region's peers (or
\* the default peer, if PD may name no leader the region knows), whatever store
\* ids update_region_leader was called with, whatever they were truncated to,
\* and whatever other threads did to the entry while the address was looked up.
\* It speaks of meta: the context's own region_ver_id is the default one.
RpcContextSound ==
    ret.op = "get_rpc_context" =>
        LET r == ret.meta
        IN  /\ r.ver_id = ret.ver
            /\ ret.peer \in r.peers \/ (ret.peer = NoPeer /\ ~NamesLeaders(PDTable))
            /\ \E p \in Served :
                /\ p.ver_id = r.ver_id /\ p.peers = r.peers
                /\ p.start_key = r.start_key /\ p.end_key = r.end_key

\* Where the leader of a region may come from: an answer of PD for this very
\* version, or a store id given to update_region_leader, after its truncation.
HasSource(r) ==
    \/ \E p \in Served : p.ver_id = r.ver_id /\ r.leader = LoadedRegion(p).leader
    \/ r.leader \in r.peers /\ \E s \in StoreId : r.leader.store_id = ToUint16(s)

\* The peer of a context is the leader PD named for the version asked for, or
\* the peer on a store that some caller reported: neither an answer for another
\* version nor a reported store without a peer ever decides it.  The store is
\* the reported one modulo 2^16, which may be a store nobody meant.
PeerHasSource ==
    ret.op = "get_rpc_context" =>
        /\ ret.peer = ret.meta.leader
        /\ HasSource(ret.meta)

CurrentVer == {p.ver_id : p \in PDTable[epoch]}

\* The script of PD so far.
Past == [i \in 1..epoch |-> PDTable[i]]

\* As long as regions have only split, a lookup never answers with an outdated
\* region while the cache holds the region PD has for the key now, although
\* old and new regions overlap in sorted_ and entries are never evicted when
\* their region splits: the smallest end key above the key belongs to the
\* newest of them.
FreshestWins ==
    OnlySplits(Past) =>
        \A key \in Key, v, w \in DOMAIN cached :
            (Finds(key, v) /\ w \in CurrentVer /\ Contains(cached[w].region, key))
                => v = w

\* As long as regions have only split, a region with an upper bound that
\* locate_key returns is found by the next locate_key for that key, unless its
\* answer was overtaken by another thread's insertion: neither the other entries
\* of sorted_, overlapping or expired, nor the key being the boundary of two
\* regions hides it.
LocateThenHit ==
    [][(/\ ret'.op = "locate_key" /\ ret'.loc.end_key # EmptyKey
        /\ \A t \in Threads : (pc[t] = "insert" /\ pc'[t] = "idle") => overlap[t] = {}
        /\ OnlySplits(Past) /\ TTL > 0)
            => (\E v \in DOMAIN cached : Finds(ret.key, v))']_vars

\* What the test of the cache expects (test/region_cache_test.cc:16-18): after
\* one locate_key for a key, the next one for the same key hits the cache.
RepeatedLocateHits ==
    ret.op = "locate_key" => \E v \in DOMAIN cached : Finds(ret.key, v)

\* locate_key releases region_lock_ while it asks PD, so an answer can be
\* overtaken.  Nothing else takes the cache back: whatever the calls do, a
\* region that is current in PD gives way in sorted_ to one that is not only if
\* the thread that inserts it was overtaken by one that inserted the current
\* region after PD had answered it.
StaleOverwriteNeedsRace ==
    [][\A e \in DOMAIN sorted \cap DOMAIN sorted' :
        (sorted[e].ver_id \in CurrentVer /\ sorted'[e].ver_id \notin CurrentVer)
            => \E t \in Threads : /\ pc[t] = "insert" /\ pc'[t] = "idle"
                                 /\ sorted[e].ver_id \in overlap[t]]_vars

\* What the code says of a use (src/region_cache.cc:153, "update access time"):
\* an entry that a lookup hits, or that get_rpc_context reads, has the present
\* time as its access time afterwards.
UseUpdatesAccessTime ==
    [][/\ (ret'.op = "locate_key" /\ ret'.cache_hit)
            => cached'[ret'.loc.region_ver_id].last_access = now
       /\ \A t \in Threads : (pc[t] = "idle" /\ pc'[t] = "addr")
            => cached'[frame'[t].ver].last_access = now]_vars

\* Uses do not move the access time (UseUpdatesAccessTime fails), so the age of
\* an entry runs from its insertion: whatever looks it up, nothing but a new
\* answer of PD for that version moves its access time, and moves it to the
\* time of the insertion.  No region outlives the TTL without PD.
AgeRunsFromInsertion ==
    [][\A v \in DOMAIN cached \cap DOMAIN cached' :
        cached'[v].last_access # cached[v].last_access
            => /\ cached'[v].last_access = now
               /\ \E t \in Threads : pc[t] = "insert" /\ v = frame[t].region.ver_id]_vars

KnownLocs == {LocOf(p) : p \in Served}
CachedLocs == {LocOf(cached[v].region) : v \in DOMAIN cached}
Answer == IF ret.op = "locate_key" THEN {[key |-> ret.key, loc |-> ret.loc]} ELSE {}
Directory ==
    INSTANCE RegionDirectory WITH known <- KnownLocs, locs <- CachedLocs, answer <- Answer
\* The two maps, the sections of the calls and the answers on their way are
\* to the callers one directory of locations, read and changed at once.
IsDirectory == Directory!Spec

=============================================================================
