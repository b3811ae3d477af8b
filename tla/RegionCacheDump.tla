-------------------------- MODULE RegionCacheDump ---------------------------
(***************************************************************************)
(* dump_cache beside the other calls of class RegionCache.  It takes no    *)
(* lock: it walks sorted_ and, for each entry, reads cached_regions_ with  *)
(* operator[], which creates the entry it does not find.  It may do so     *)
(* between any two steps of the others, also inside the critical section   *)
(* of an insertion, which is therefore two steps here: the erasure of what *)
(* is replaced, and the assignments.                                       *)
(*                                                                         *)
(* A walk is a sequence of reads in any order, for a change of the B-tree  *)
(* invalidates its iterators.  A version read while it is being assigned   *)
(* may be a mixture of the two.  What the race may do to the structure of  *)
(* the two maps (a crash, a broken tree) has no outcome to enumerate and   *)
(* is left out, so this is the least the race does.                        *)
(***************************************************************************)
EXTENDS RegionCache

VARIABLES
    hand,       \* the version dump_cache has read and not looked up yet
    inserting   \* the thread in the middle of insert_region_to_cache

dumpVars == <<sorted, cached, now, epoch, pc, frame, ret, overlap, hand, inserting>>

\* The clock is the time since 1970, long past the TTL and within 64 bits.
FirstTime == TTL
ASSUME ClockAssumption == FirstTime <= MaxTime /\ MaxTime < U64

LockFree == inserting = {}

Mixtures(a, b) ==
    {[id |-> i, conf_ver |-> c, ver |-> v] :
        i \in {a.id, b.id}, c \in {a.conf_ver, b.conf_ver}, v \in {a.ver, b.ver}}
\* What a read of sorted_[e].ver_id with no lock held may give.
VersionsAt(e) ==
    {sorted[e].ver_id}
    \cup UNION {Mixtures(sorted[e].ver_id, frame[t].region.ver_id) :
                    t \in {u \in inserting : frame[u].region.end_key = e}}

\* dump_cache: the next entry of sorted_.
DumpReads ==
    /\ hand = {}
    /\ \E e \in DOMAIN sorted : \E v \in VersionsAt(e) : hand' = {v}
    /\ Taken
    /\ UNCHANGED inserting

DumpLooksUpAndDates ==
    /\ \E v \in hand :
        cached' = IF v \in DOMAIN cached THEN cached
                  ELSE Put(cached, v, [DefaultEntry EXCEPT !.last_access = now])
    /\ hand' = {}
    /\ ret' = NoResult
    /\ UNCHANGED <<sorted, now, epoch, calls, inserting>>
\* dump_cache: cached_regions_[ver_id]
DumpLooksUp ==
    /\ \E v \in hand :
        cached' = IF v \in DOMAIN cached THEN cached ELSE Put(cached, v, DefaultEntry)
    /\ hand' = {}
    /\ ret' = NoResult
    /\ UNCHANGED <<sorted, now, epoch, calls, inserting>>

\* insert_region_to_cache: what ended at the same key goes from
\* cached_regions_ and still stands in sorted_.
InsertErases(t) ==
    LET e == frame[t].region.end_key
    IN  /\ pc[t] = "insert" /\ LockFree
        /\ cached' = Restrict(cached, DOMAIN cached
                                        \ {sorted[f].ver_id : f \in {e} \cap DOMAIN sorted})
        /\ inserting' = {t}
        /\ ret' = NoResult
        /\ UNCHANGED <<sorted, now, epoch, calls, hand>>

InsertEmplaces(t) ==
    LET r == frame[t].region
    IN  /\ t \in inserting
        /\ sorted' = Put(sorted, r.end_key, r)
        /\ cached' = IF r.ver_id \in DOMAIN cached THEN cached
                     ELSE Put(cached, r.ver_id, [region |-> r, last_access |-> now])
        /\ Return(t, Located(frame[t].key, r, FALSE))
        /\ inserting' = {}
        /\ UNCHANGED <<overlap, now, epoch, hand>>
\* insert_region_to_cache: the assignments to both maps; locate_key returns.
InsertAssigns(t) ==
    LET r == frame[t].region
    IN  /\ t \in inserting
        /\ sorted' = Put(sorted, r.end_key, r)
        /\ cached' = Put(cached, r.ver_id, [region |-> r, last_access |-> now])
        /\ Return(t, Located(frame[t].key, r, FALSE))
        /\ inserting' = {}
        /\ UNCHANGED <<overlap, now, epoch, hand>>

\* The other critical sections of region_lock_, each still one step.
Section(t) ==
    \/ \E key \in Key : LocateHit(t, key) \/ LocateMiss(t, key)
    \/ \E v \in ServedVer : RpcContextStale(t, v) \/ RpcContextRead(t, v) \/ DropRegion(t, v)
    \/ \E v \in ServedVer, s \in StoreId : UpdateRegionLeader(t, v, s)
    \/ RpcContextNoAddr(t)

\* What happens with no lock held.
Unlocked ==
    \/ \E t \in Threads :
        LoadRegion(t) \/ LoadFails(t) \/ RpcContextReady(t) \/ RpcContextNoStore(t)
    \/ Taken \/ PDChange
    \/ ClockAdvances \/ (ClockSetBack /\ now > FirstTime)

DumpInit ==
    /\ sorted = [e \in {} |-> NoRegion]
    /\ cached = [v \in {} |-> DefaultEntry]
    /\ now = FirstTime
    /\ epoch = 1
    /\ pc = [t \in Threads |-> "idle"]
    /\ frame = [t \in Threads |-> NoFrame]
    /\ ret = NoResult
    /\ overlap = [t \in Threads |-> {}]
    /\ hand = {}
    /\ inserting = {}

DumpNext ==
    \/ DumpReads \/ DumpLooksUp
    \/ \E t \in Threads : InsertErases(t) \/ InsertAssigns(t)
    \/ LockFree /\ (\E t \in Threads : Section(t)) /\ UNCHANGED <<hand, inserting>>
    \/ Unlocked /\ UNCHANGED <<hand, inserting>>

DumpSpec == DumpInit /\ [][DumpNext]_dumpVars

-----------------------------------------------------------------------------
(* Correctness.                                                            *)

\* What a dump beside other calls breaks, and what it does not.  CacheCoherent
\* no longer holds: an entry may be a phantom that dump_cache has created, and
\* the drop of a phantom takes the last region out of sorted_.  But nothing that
\* can be found by its key lacks its entry, whatever is inserted or dropped while
\* phantoms are about, and all entries that are not in sorted_ have the empty
\* end key: they are phantoms or last regions.
DamageIsBounded ==
    LockFree =>
        /\ \A e \in DOMAIN sorted :
            LET v == sorted[e].ver_id
            IN  /\ sorted[e].end_key = e
                /\ v \in DOMAIN cached
                /\ LocOf(cached[v].region) = LocOf(sorted[e])
        /\ \A v \in DOMAIN cached :
            LET e == cached[v].region.end_key
            IN  e = EmptyKey \/ (e \in DOMAIN sorted /\ sorted[e].ver_id = v)

Phantom(v) == cached[v].region = NoRegion

\* No caller is ever handed a phantom: it was last accessed in 1970, so a
\* context is still that of a region which PD served under the version asked
\* for (RpcContextSound), although get_rpc_context looks the version up in
\* cached_regions_ alone.
PhantomsServeNobody ==
    /\ RpcContextSound
    /\ \A v \in DOMAIN cached : Phantom(v) => ~Live(v)

=============================================================================
