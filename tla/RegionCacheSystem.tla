------------------------- MODULE RegionCacheSystem --------------------------
(***************************************************************************)
(* Class RegionCache as a whole: its regions (RegionCache) and its stores  *)
(* (StoreCache) under one set of threads and one PD.  They meet in         *)
(* get_rpc_context, which copies a region under region_lock_, looks up the *)
(* address of the leader's store under store_lock_, and then hands out the *)
(* context, drops the region (the address is empty) or fails.              *)
(*                                                                         *)
(* While rpc[t] = "addr", spc[t] tells how far the lookup has come; once   *)
(* it is "idle" again, found[t] is the outcome.  The clock stands still.   *)
(***************************************************************************)
EXTENDS Sequences, Functions, Integers

CONSTANTS
    Threads,    \* the threads that share the cache
    Key, U16, U64, TTL, PDTable,        \* as in RegionCache
    Store, Addr, StoreTable, MaxLeaks,  \* as in StoreCache
    EmptyAddr,  \* the empty address
    NoAddr,     \* the outcome of a lookup that failed
    Reloaders   \* bound: the threads that call reload_store_addr

VARIABLES
    sorted, cached, now, rpc, rframe, ret, overlap,         \* RegionCache
    stores, held, writer, blocked, spc, sframe, overtaken,  \* StoreCache
    epoch,      \* the epoch PD is in
    found       \* what the lookup of each thread came to, until it is used

R == INSTANCE RegionCache WITH pc <- rpc, frame <- rframe, StoreId <- Store, MaxTime <- 0
S == INSTANCE StoreCache WITH pc <- spc, frame <- sframe

\* What the two halves assume of their constants.
ASSUME HalvesAssumption ==
    /\ R!KeyAssumption /\ R!U16Assumption /\ R!TableAssumption
    /\ R!OrderAssumption /\ R!NumberAssumption
    /\ S!StoreTableAssumption /\ S!MaxLeaksAssumption
\* Regions and stores change together.  Store holds the stores of all peers,
\* and where PD may name no leader, the store id 0 of the default peer, for
\* which get_rpc_context then asks.
ASSUME EpochAssumption ==
    /\ Len(PDTable) = Len(StoreTable)
    /\ \A i \in DOMAIN PDTable : \A p \in PDTable[i] : \A q \in p.peers : q.store_id \in Store
    /\ R!NamesLeaders(PDTable) \/ R!NoPeer.store_id \in Store
ASSUME ReloadersAssumption == Reloaders \subseteq Threads
ASSUME AddrAssumption == EmptyAddr \in Addr /\ NoAddr \notin Addr

regions == <<sorted, cached, now, rpc, rframe, overlap>>
addrs == <<stores, held, writer, blocked, spc, sframe, overtaken>>
vars == <<regions, ret, addrs, epoch, found>>

-----------------------------------------------------------------------------
\* get_rpc_context copies the region and calls get_store_addr for the leader.
RpcContextAsks(t, v) ==
    /\ R!RpcContextRead(t, v)
    /\ S!GetStoreAddr(t, cached[v].region.leader.store_id)
    /\ UNCHANGED found

\* The threads inside get_store_addr and reload_store_addr.
StoreStep(t) ==
    /\ S!Step(t)
    /\ found' = [found EXCEPT ![t] =
            IF rpc[t] = "addr" /\ spc[t] \in {"reading", "writing"} /\ spc'[t] = "idle"
            THEN stores'[sframe[t].store].addr ELSE NoAddr]
    /\ R!Taken

RpcContextGivesUp(t) ==
    /\ spc[t] = "idle"
    /\ IF found[t] \in {NoAddr, EmptyAddr}
       THEN R!RpcContextNoAddr(t)
       ELSE R!RpcContextReady(t)
    /\ found' = [found EXCEPT ![t] = NoAddr]
    /\ UNCHANGED addrs
\* get_rpc_context goes on with what get_store_addr returned.
RpcContextGoesOn(t) ==
    /\ spc[t] = "idle"
    /\ CASE found[t] = NoAddr    -> R!RpcContextNoStore(t)
         [] found[t] = EmptyAddr -> R!RpcContextNoAddr(t)
         [] OTHER                -> R!RpcContextReady(t)
    /\ found' = [found EXCEPT ![t] = NoAddr]
    /\ UNCHANGED addrs

\* The other calls about regions, step by step.
RegionStep(t) ==
    /\ spc[t] = "idle"
    /\ \/ R!LocateKey(t)
       \/ \E v \in R!ServedVer :
            \/ R!RpcContextStale(t, v)
            \/ R!DropRegion(t, v)
            \/ \E s \in Store : R!UpdateRegionLeader(t, v, s)
    /\ UNCHANGED <<addrs, found>>

\* A caller reloads the address of a store.  (A lookup of its own would go
\* the way of the one inside get_rpc_context.)
Reload(t, s) ==
    /\ rpc[t] = "idle"
    /\ S!ReloadStoreAddr(t, s)
    /\ R!Taken
    /\ UNCHANGED found

\* PD moves on, with its regions and its stores.
PDMoves == R!PDChange /\ S!StoresMove /\ UNCHANGED found

Init == R!Init /\ S!Init /\ found = [t \in Threads |-> NoAddr]

Next ==
    \/ \E t \in Threads :
        \/ \E v \in R!ServedVer : RpcContextAsks(t, v)
        \/ StoreStep(t) \/ RpcContextGoesOn(t) \/ RegionStep(t)
    \/ \E t \in Reloaders, s \in Store : Reload(t, s)
    \/ PDMoves

Spec == Init /\ [][Next]_vars

-----------------------------------------------------------------------------
(* Correctness.                                                            *)

\* A context names a peer, and with it an address that PD has given for the
\* store of that very peer: what other threads do to the region, its leader
\* and the addresses while this one looks the address up never tears the
\* two apart.
ContextSound ==
    [][\A t \in Threads :
        (rpc[t] = "addr" /\ ret'.op = "get_rpc_context" /\ rpc'[t] = "idle")
            => /\ found[t] # EmptyAddr
               /\ \E i \in 1..epoch : found[t] = StoreTable[i][ret'.peer.store_id]]_vars

\* get_rpc_context drops a region some time after it has read it, by which time
\* the entry of that version may be another thread's, with another leader.  Still
\* it is only ever dropped because PD has answered with no address for the store
\* of the leader that this call was to use, never because PD or the cache could
\* not answer, and no other version goes with it.
DropHasCause ==
    [][\A t \in Threads :
        (rpc[t] = "addr" /\ rpc'[t] = "idle" /\ cached' # cached)
            => LET asked == rframe[t]
               IN  /\ found[t] = EmptyAddr
                   /\ \E i \in 1..epoch :
                        StoreTable[i][asked.region.leader.store_id] = EmptyAddr
                   /\ cached' = Restrict(cached, DOMAIN cached \ {asked.ver})]_vars

\* A lookup of key leads to the region PD has for it, under PD's leader at
\* PD's address.
UpToDate(key) ==
    \E p \in PDTable[epoch] :
        /\ R!Contains(p, key)
        /\ R!Finds(key, p.ver_id)
        /\ cached[p.ver_id].region.leader = p.leader
        /\ p.leader.store_id \in DOMAIN stores
        /\ stores[p.leader.store_id].addr = StoreTable[epoch][p.leader.store_id]

PDRegions == UNION Range(PDTable)
\* The keys that can be found: always in a region, and in one with an upper bound.
Findable(key) ==
    \A i \in DOMAIN PDTable : \E p \in PDTable[i] :
        R!Contains(p, key) /\ p.end_key # R!EmptyKey
\* The scripts whose every leader update_region_leader can be told.
Tellable == R!NamesLeaders(PDTable) /\ \A s \in Store : R!ToUint16(s) = s
Outdated(p) == p.ver_id \in DOMAIN cached /\ p.ver_id \notin R!CurrentVer
Mislabelled(p) ==
    /\ p.ver_id \in DOMAIN cached /\ p \in PDTable[epoch]
    /\ cached[p.ver_id].region.leader # p.leader
\* What the clients around the cache do: they keep locating every key and
\* reloading every address, drop a region that is outdated, tell the cache a
\* leader it has wrong, and never look up a store they have not loaded.
ClientsPersist ==
    /\ \A key \in Key : Findable(key) => []<>(ret.op = "locate_key" /\ ret.key = key)
    /\ \A s \in Store : []<>(\E t \in Threads : spc[t] = "writing" /\ sframe[t].store = s)
    /\ \A p \in PDRegions :
        /\ []<><<Outdated(p) => \E t \in Threads : R!DropRegion(t, p.ver_id)>>_vars
        /\ []<><<Mislabelled(p) =>
                    \E t \in Threads : R!UpdateRegionLeader(t, p.ver_id, p.leader.store_id)>>_vars
    /\ [](\A t \in Threads : spc[t] = "reading" => sframe[t].store \in DOMAIN stores)

\* Nothing that splits, merges, changes of leader and moves leave behind in the
\* cache is there for good: while clients persist, every key comes to be found
\* as PD has it, again and again.  Left out are the keys of the last region,
\* which is never found, and leaders that nobody can tell the cache: none at
\* all, or one on a store whose id is truncated to another.
Converges ==
    (Tellable /\ ClientsPersist) =>
        \A key \in Key : Findable(key) => []<>UpToDate(key)

=============================================================================
