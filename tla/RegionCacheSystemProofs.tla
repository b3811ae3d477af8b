---------------------- MODULE RegionCacheSystemProofs -----------------------
(***************************************************************************)
(* Proofs about RegionCacheSystem, for every number of threads and every   *)
(* script of PD: what a context says, and that each half behaves in the    *)
(* whole as it does alone, so that all that is proved of it carries over.  *)
(***************************************************************************)
EXTENDS RegionCacheSystem, TLAPS

\* The address is one that PD has given for the store.
Given(addr, s) == \E i \in 1..epoch : addr = StoreTable[i][s]

\* The shapes of the locals, as far as the steps rely on them.
Shaped ==
    /\ epoch \in Nat \ {0}
    /\ DOMAIN rpc = Threads /\ DOMAIN rframe = Threads
    /\ DOMAIN spc = Threads /\ DOMAIN sframe = Threads /\ DOMAIN found = Threads
    /\ \A t \in Threads : /\ DOMAIN rframe[t] = {"key", "ver", "region"}
                          /\ DOMAIN sframe[t] = {"store", "answer"}

\* Every address in the cache and on its way there is one PD has given.
AddrsGiven ==
    /\ \A s \in DOMAIN stores : Given(stores[s].addr, s)
    /\ \A t \in Threads :
        spc[t] \in {"write", "writing"} => Given(sframe[t].answer.addr, sframe[t].store)

\* While get_rpc_context waits for an address, the store it asked for is that
\* of the leader in its copy of the region.
Asked ==
    \A t \in Threads :
        /\ (rpc[t] = "addr" /\ spc[t] # "idle")
            => sframe[t].store = rframe[t].region.leader.store_id
        /\ (rpc[t] = "addr" /\ found[t] # NoAddr)
            => Given(found[t], rframe[t].region.leader.store_id)
        /\ (rpc[t] # "addr" \/ spc[t] # "idle") => found[t] = NoAddr
        /\ spc[t] # "idle" => rpc[t] \in {"idle", "addr"}

IInv == Shaped /\ AddrsGiven /\ Asked

LEMMA InitIInv == Init => IInv
<1> SUFFICES ASSUME Init PROVE IInv
    OBVIOUS
<1>1. Shaped
    BY DEF Init, R!Init, S!Init, R!NoFrame, S!NoFrame, Shaped
<1>2. AddrsGiven
    BY DEF Init, R!Init, S!Init, AddrsGiven
<1>3. Asked
    BY DEF Init, R!Init, S!Init, Asked
<1> QED
    BY <1>1, <1>2, <1>3 DEF IInv

LEMMA AsksStep ==
    ASSUME IInv, NEW t \in Threads, NEW v, RpcContextAsks(t, v)
    PROVE  IInv'
<1> DEFINE r == cached[v].region
<1>1. /\ rpc' = [rpc EXCEPT ![t] = "addr"]
      /\ rframe' = [rframe EXCEPT ![t].ver = v, ![t].region = r]
      /\ spc' = [spc EXCEPT ![t] = "find"]
      /\ sframe' = [sframe EXCEPT ![t].store = r.leader.store_id]
      /\ spc[t] = "idle" /\ rpc[t] = "idle"
      /\ UNCHANGED <<stores, epoch, found>>
    BY DEF RpcContextAsks, R!RpcContextRead, S!GetStoreAddr, S!Begin
<1> HIDE DEF r
<1>2. Shaped'
    BY <1>1 DEF IInv, Shaped
<1>3. /\ rframe'[t].region = r /\ sframe'[t].store = r.leader.store_id
      /\ rpc'[t] = "addr" /\ spc'[t] = "find"
      /\ \A u \in Threads \ {t} : /\ rpc'[u] = rpc[u] /\ rframe'[u] = rframe[u]
                                  /\ spc'[u] = spc[u] /\ sframe'[u] = sframe[u]
    BY <1>1 DEF IInv, Shaped
<1>4. AddrsGiven'
    BY <1>1, <1>3 DEF IInv, AddrsGiven, Given
<1>5. found'[t] = NoAddr /\ \A u \in Threads : found'[u] = found[u]
    BY <1>1 DEF IInv, Asked
<1>6. Asked'
    <2> SUFFICES ASSUME NEW u \in Threads
                 PROVE  /\ (rpc'[u] = "addr" /\ spc'[u] # "idle")
                            => sframe'[u].store = rframe'[u].region.leader.store_id
                        /\ (rpc'[u] = "addr" /\ found'[u] # NoAddr)
                            => \E i \in 1..epoch' :
                                found'[u] = StoreTable[i][rframe'[u].region.leader.store_id]
                        /\ (rpc'[u] # "addr" \/ spc'[u] # "idle") => found'[u] = NoAddr
                        /\ spc'[u] # "idle" => rpc'[u] \in {"idle", "addr"}
        BY DEF Asked, Given
    <2>1. CASE u = t
        BY <1>3, <1>5, <2>1
    <2>2. CASE u # t
        <3>1. /\ rpc'[u] = rpc[u] /\ rframe'[u] = rframe[u] /\ spc'[u] = spc[u]
              /\ sframe'[u] = sframe[u] /\ found'[u] = found[u] /\ epoch' = epoch
            BY <1>1, <1>3, <1>5, <2>2
        <3> QED
            BY <3>1 DEF IInv, Asked, Given
    <2> QED
        BY <2>1, <2>2
<1> QED
    BY <1>2, <1>4, <1>6 DEF IInv

\* The steps that move one thread along and touch neither the addresses nor
\* the call it is in.
LEMMA RegionsOnly ==
    ASSUME IInv, NEW t \in Threads, NEW at, NEW loc,
           spc[t] = "idle",
           rpc' = [rpc EXCEPT ![t] = at], at # "addr",
           rframe' = [rframe EXCEPT ![t] = loc], DOMAIN loc = {"key", "ver", "region"},
           DOMAIN found' = Threads,
           \A u \in Threads : found'[u] = IF u = t THEN NoAddr ELSE found[u],
           UNCHANGED <<stores, spc, sframe, epoch>>
    PROVE  IInv'
<1>1. Shaped'
    BY DEF IInv, Shaped
<1>2. AddrsGiven'
    BY DEF IInv, AddrsGiven, Given
<1>3. /\ rpc'[t] # "addr" /\ spc'[t] = "idle" /\ found'[t] = NoAddr
      /\ \A u \in Threads \ {t} : /\ rpc'[u] = rpc[u] /\ rframe'[u] = rframe[u]
                                  /\ found'[u] = found[u]
    BY DEF IInv, Shaped
<1>4. Asked'
    BY <1>3 DEF IInv, Asked, Given
<1> QED
    BY <1>1, <1>2, <1>4 DEF IInv

LEMMA RegionSteps ==
    ASSUME IInv, NEW t \in Threads, RegionStep(t) \/ RpcContextGoesOn(t)
    PROVE  IInv'
<1>1. DOMAIN R!NoFrame = {"key", "ver", "region"} /\ spc[t] = "idle"
    BY DEF R!NoFrame, RegionStep, RpcContextGoesOn
<1>2. CASE RpcContextGoesOn(t)
    <2>1. /\ rpc' = [rpc EXCEPT ![t] = "idle"]
          /\ rframe' = [rframe EXCEPT ![t] = R!NoFrame]
          /\ found' = [found EXCEPT ![t] = NoAddr]
          /\ UNCHANGED <<stores, spc, sframe, epoch>>
        BY <1>2 DEF RpcContextGoesOn, R!RpcContextNoStore, R!RpcContextNoAddr,
           R!RpcContextReady, R!Return, addrs
    <2>2. /\ DOMAIN found' = Threads
          /\ \A u \in Threads : found'[u] = IF u = t THEN NoAddr ELSE found[u]
        BY <2>1 DEF IInv, Shaped
    <2> QED
        BY <1>1, <2>1, <2>2, RegionsOnly
<1>3. CASE RegionStep(t)
    <2>1. UNCHANGED <<stores, spc, sframe, epoch, found>>
        BY <1>3 DEF RegionStep, addrs, R!LocateKey, R!LocateHit, R!LocateMiss, R!LoadRegion,
           R!LoadFails, R!LocateInsert, R!RpcContextStale, R!DropRegion, R!UpdateRegionLeader
    <2>2. rpc[t] # "addr"
        BY <1>3 DEF RegionStep, R!LocateKey, R!LocateHit, R!LocateMiss, R!LoadRegion,
           R!LoadFails, R!LocateInsert, R!RpcContextStale, R!DropRegion, R!UpdateRegionLeader
    <2>3. /\ DOMAIN found' = Threads
          /\ \A u \in Threads : found'[u] = IF u = t THEN NoAddr ELSE found[u]
        BY <2>1, <2>2 DEF IInv, Asked, Shaped
    <2>4. PICK at \in {"idle", "load", "insert"}, loc \in {rframe'[t]} :
            /\ rpc' = [rpc EXCEPT ![t] = at]
            /\ rframe' = [rframe EXCEPT ![t] = loc]
            /\ DOMAIN loc = {"key", "ver", "region"}
        <3>1. CASE rpc' = [rpc EXCEPT ![t] = "idle"] /\ rframe' = [rframe EXCEPT ![t] = R!NoFrame]
            BY <1>1, <3>1 DEF IInv, Shaped
        <3>2. CASE \E key \in Key : R!LocateMiss(t, key)
            <4>1. PICK key \in Key : R!LocateMiss(t, key)
                BY <3>2
            <4> QED
                BY <4>1 DEF R!LocateMiss, IInv, Shaped
        <3>3. CASE R!LoadRegion(t)
            <4>1. PICK p \in R!PDAnswers(rframe[t].key) :
                    rframe' = [rframe EXCEPT ![t].region = R!LoadedRegion(p)]
                BY <3>3 DEF R!LoadRegion
            <4> QED
                BY <3>3, <4>1 DEF R!LoadRegion, IInv, Shaped
        <3> QED
            BY <1>3, <3>1, <3>2, <3>3 DEF RegionStep, R!LocateKey, R!LocateHit, R!LoadFails,
               R!LocateInsert, R!RpcContextStale, R!DropRegion, R!UpdateRegionLeader, R!Return
    <2>5. at # "addr"
        OBVIOUS
    <2> QED
        BY <1>1, <2>1, <2>3, <2>4, <2>5, RegionsOnly
<1> QED
    BY <1>2, <1>3

LEMMA StoreSteps ==
    ASSUME IInv, NEW t \in Threads, StoreStep(t)
    PROVE  IInv'
<1>1. /\ UNCHANGED <<rpc, rframe, epoch>>
      /\ spc[t] # "idle"
      /\ DOMAIN found' = Threads
      /\ \A u \in Threads \ {t} : found'[u] = found[u]
      /\ found'[t] = IF rpc[t] = "addr" /\ spc[t] \in {"reading", "writing"} /\ spc'[t] = "idle"
                     THEN stores'[sframe[t].store].addr ELSE NoAddr
    BY DEF StoreStep, R!Taken, R!calls, S!Step, S!LockShared, S!FindHit, S!FindMiss, S!LoadStore,
       S!LoadStoreFails, S!WaitExclusive, S!LockExclusive, S!StoreAddr, IInv, Shaped
\* Where the thread goes, with what, and what becomes of the map.
<1>2. \/ /\ UNCHANGED <<spc, sframe, stores>>
      \/ /\ spc[t] \notin {"reading", "writing"} \/ sframe[t].store \notin DOMAIN stores
         /\ \E at \in {"reading", "ask"} : spc' = [spc EXCEPT ![t] = at]
         /\ UNCHANGED <<sframe, stores>>
      \/ /\ spc[t] = "write" /\ spc' = [spc EXCEPT ![t] = "writing"]
         /\ UNCHANGED <<sframe, stores>>
      \/ /\ spc' = [spc EXCEPT ![t] = "write"]
         /\ sframe' = [sframe EXCEPT ![t].answer =
                          [addr |-> StoreTable[epoch][sframe[t].store], asOf |-> epoch]]
         /\ UNCHANGED stores
      \/ /\ spc[t] \in {"reading", "ask"}
         /\ spc[t] = "reading" => sframe[t].store \in DOMAIN stores
         /\ spc' = [spc EXCEPT ![t] = "idle"]
         /\ sframe' = [sframe EXCEPT ![t] = S!NoFrame]
         /\ UNCHANGED stores
      \/ /\ spc[t] = "writing"
         /\ spc' = [spc EXCEPT ![t] = "idle"]
         /\ sframe' = [sframe EXCEPT ![t] = S!NoFrame]
         /\ stores' = [s \in DOMAIN stores \cup {sframe[t].store} |->
                         IF s = sframe[t].store THEN sframe[t].answer ELSE stores[s]]
    BY DEF StoreStep, S!Step, S!LockShared, S!FindHit, S!FindMiss, S!LoadStore, S!Return,
       S!LoadStoreFails, S!WaitExclusive, S!LockExclusive, S!StoreAddr
<1>3. DOMAIN S!NoFrame = {"store", "answer"}
    BY DEF S!NoFrame
<1>4. Shaped'
    BY <1>1, <1>2, <1>3 DEF IInv, Shaped
<1>5. /\ \A u \in Threads \ {t} : spc'[u] = spc[u] /\ sframe'[u] = sframe[u]
      /\ spc'[t] # "idle" => sframe'[t].store = sframe[t].store
    BY <1>2 DEF IInv, Shaped
<1>6. epoch \in 1..epoch /\ epoch' = epoch
    BY <1>1 DEF IInv, Shaped
<1>7. spc'[t] \in {"write", "writing"} => Given(sframe'[t].answer.addr, sframe'[t].store)
    BY <1>2, <1>6 DEF IInv, Shaped, AddrsGiven, Given
<1>8. ASSUME NEW s \in DOMAIN stores' PROVE Given(stores'[s].addr, s)
    BY <1>2 DEF IInv, AddrsGiven, Given
<1>9. AddrsGiven'
    BY <1>5, <1>6, <1>7, <1>8 DEF IInv, AddrsGiven, Given
<1>10. Asked'
    <2>1. ASSUME NEW u \in Threads \ {t}
          PROVE  /\ rpc'[u] = rpc[u] /\ rframe'[u] = rframe[u] /\ spc'[u] = spc[u]
                 /\ sframe'[u] = sframe[u] /\ found'[u] = found[u]
        BY <1>1, <1>5
    <2>2. rpc[t] \in {"idle", "addr"}
          /\ (rpc[t] = "addr" => sframe[t].store = rframe[t].region.leader.store_id)
        BY <1>1 DEF IInv, Asked
    <2>3. (rpc[t] = "addr" /\ found'[t] # NoAddr)
            => Given(found'[t], rframe[t].region.leader.store_id)
        <3>1. SUFFICES ASSUME rpc[t] = "addr", spc[t] \in {"reading", "writing"}, spc'[t] = "idle"
                       PROVE  sframe[t].store \in DOMAIN stores'
            BY <1>1, <1>6, <1>8, <2>2
        <3> QED
            BY <1>2, <3>1 DEF IInv, Shaped
    <2>4. spc'[t] # "idle" => found'[t] = NoAddr
        BY <1>1
    <2>5. rpc[t] # "addr" => found'[t] = NoAddr
        BY <1>1
    <2> QED
        BY <1>1, <1>5, <1>6, <2>1, <2>2, <2>3, <2>4, <2>5 DEF IInv, Asked, Given
<1> QED
    BY <1>4, <1>9, <1>10 DEF IInv

LEMMA OtherSteps ==
    ASSUME IInv, PDMoves \/ \E t \in Threads, s \in Store : Reload(t, s)
    PROVE  IInv'
<1>1. CASE PDMoves
    <2>1. /\ epoch' = epoch + 1
          /\ UNCHANGED <<rpc, rframe, spc, sframe, stores, found>>
        BY <1>1 DEF PDMoves, R!PDChange, R!calls, S!StoresMove
    <2>2. \A a, x : Given(a, x) => Given(a, x)'
        BY <2>1 DEF IInv, Shaped, Given
    <2> QED
        BY <2>1, <2>2 DEF IInv, Shaped, AddrsGiven, Asked, Given
<1>2. CASE \E t \in Threads, s \in Store : Reload(t, s)
    <2>1. PICK t \in Threads, s \in Store : Reload(t, s)
        BY <1>2
    <2>2. /\ rpc[t] = "idle"
          /\ spc' = [spc EXCEPT ![t] = "ask"]
          /\ sframe' = [sframe EXCEPT ![t].store = s]
          /\ UNCHANGED <<rpc, rframe, epoch, stores, found>>
        BY <2>1 DEF Reload, R!Taken, R!calls, S!ReloadStoreAddr, S!Begin
    <2>3. /\ spc'[t] = "ask"
          /\ \A u \in Threads \ {t} : spc'[u] = spc[u] /\ sframe'[u] = sframe[u]
        BY <2>2 DEF IInv, Shaped
    <2>4. Shaped'
        BY <2>2 DEF IInv, Shaped
    <2>5. AddrsGiven'
        BY <2>2, <2>3 DEF IInv, AddrsGiven, Given
    <2>6. Asked'
        BY <2>2, <2>3 DEF IInv, Asked, Given
    <2> QED
        BY <2>4, <2>5, <2>6 DEF IInv
<1> QED
    BY <1>1, <1>2

\* The inductive invariant: an address on its way to a context is one PD has
\* given for the store of the leader that the context will name.
THEOREM Invariance == Spec => []IInv
<1>1. IInv /\ [Next]_vars => IInv'
    <2> SUFFICES ASSUME IInv, [Next]_vars PROVE IInv'
        OBVIOUS
    <2>1. ASSUME NEW t \in Threads, NEW v, RpcContextAsks(t, v) PROVE IInv'
        BY <2>1, AsksStep
    <2>2. ASSUME NEW t \in Threads, StoreStep(t) PROVE IInv'
        BY <2>2, StoreSteps
    <2>3. ASSUME NEW t \in Threads, RegionStep(t) \/ RpcContextGoesOn(t) PROVE IInv'
        BY <2>3, RegionSteps
    <2>4. CASE PDMoves \/ \E t \in Threads, s \in Store : Reload(t, s)
        BY <2>4, OtherSteps
    <2>5. CASE UNCHANGED vars
        BY <2>5 DEF vars, regions, addrs, IInv, Shaped, AddrsGiven, Asked, Given
    <2> QED
        BY <2>1, <2>2, <2>3, <2>4, <2>5, ReloadersAssumption DEF Next
<1> QED
    BY <1>1, InitIInv, PTL DEF Spec

-----------------------------------------------------------------------------
(* The theorems.                                                           *)

\* A thread comes back from the lookup of an address by its own step alone.
LEMMA OwnReturn ==
    ASSUME IInv, Next, NEW t \in Threads, rpc[t] = "addr", rpc'[t] = "idle"
    PROVE  RpcContextGoesOn(t)
<1>1. ASSUME NEW u \in Threads, NEW v, RpcContextAsks(u, v) PROVE FALSE
    BY <1>1, AsksStep DEF RpcContextAsks, R!RpcContextRead, IInv, Shaped
<1>2. ASSUME NEW u \in Threads,
             StoreStep(u) \/ PDMoves \/ \E s \in Store : Reload(u, s)
      PROVE  FALSE
    BY <1>2 DEF StoreStep, PDMoves, R!PDChange, Reload, R!Taken, R!calls
<1>3. ASSUME NEW u \in Threads, RegionStep(u) PROVE FALSE
    <2>1. rpc[u] # "addr" /\ \E at : rpc' = [rpc EXCEPT ![u] = at]
        BY <1>3 DEF RegionStep, R!LocateKey, R!LocateHit, R!LocateMiss, R!LoadRegion,
           R!LoadFails, R!LocateInsert, R!RpcContextStale, R!DropRegion,
           R!UpdateRegionLeader, R!Return
    <2> QED
        BY <2>1 DEF IInv, Shaped
<1>4. ASSUME NEW u \in Threads \ {t}, RpcContextGoesOn(u) PROVE FALSE
    <2>1. rpc' = [rpc EXCEPT ![u] = "idle"]
        BY <1>4 DEF RpcContextGoesOn, R!RpcContextNoStore, R!RpcContextNoAddr,
           R!RpcContextReady, R!Return
    <2> QED
        BY <2>1 DEF IInv, Shaped
<1> QED
    BY <1>1, <1>2, <1>3, <1>4, ReloadersAssumption DEF Next

\* A context carries an address, not empty, that PD gave for its peer's store.
THEOREM ContextsSound == Spec => ContextSound
<1> DEFINE Sound == \A t \in Threads :
               (rpc[t] = "addr" /\ ret'.op = "get_rpc_context" /\ rpc'[t] = "idle")
                   => /\ found[t] # EmptyAddr
                      /\ \E i \in 1..epoch : found[t] = StoreTable[i][ret'.peer.store_id]
<1>1. IInv /\ [Next]_vars => [Sound]_vars
    <2> SUFFICES ASSUME IInv, Next,
                        NEW t \in Threads, rpc[t] = "addr", rpc'[t] = "idle",
                        ret'.op = "get_rpc_context"
                 PROVE  /\ found[t] # EmptyAddr
                        /\ \E i \in 1..epoch : found[t] = StoreTable[i][ret'.peer.store_id]
        OBVIOUS
    <2>1. RpcContextGoesOn(t)
        BY OwnReturn
    <2>2. /\ found[t] # EmptyAddr /\ found[t] # NoAddr
          /\ ret'.peer = rframe[t].region.leader
        BY <2>1 DEF RpcContextGoesOn, R!RpcContextNoStore, R!RpcContextNoAddr,
           R!RpcContextReady, R!Return, R!Failure
    <2> QED
        BY <2>2 DEF IInv, Asked, Given
<1> QED
    BY <1>1, Invariance, PTL DEF Spec, ContextSound

\* get_rpc_context drops a region only when PD has given an empty address for
\* the store of the leader it was to use, and drops no other version.
THEOREM DropsHaveCause == Spec => DropHasCause
<1> DEFINE Cause == \A t \in Threads :
               (rpc[t] = "addr" /\ rpc'[t] = "idle" /\ cached' # cached)
                   => LET asked == rframe[t]
                      IN  /\ found[t] = EmptyAddr
                          /\ \E i \in 1..epoch :
                               StoreTable[i][asked.region.leader.store_id] = EmptyAddr
                          /\ cached' = Restrict(cached, DOMAIN cached \ {asked.ver})
<1>1. IInv /\ [Next]_vars => [Cause]_vars
    <2> SUFFICES ASSUME IInv, Next,
                        NEW t \in Threads, rpc[t] = "addr", rpc'[t] = "idle",
                        cached' # cached
                 PROVE  /\ found[t] = EmptyAddr
                        /\ \E i \in 1..epoch :
                             StoreTable[i][rframe[t].region.leader.store_id] = EmptyAddr
                        /\ cached' = Restrict(cached, DOMAIN cached \ {rframe[t].ver})
        OBVIOUS
    <2>1. RpcContextGoesOn(t)
        BY OwnReturn
    <2>2. found[t] = EmptyAddr /\ R!RpcContextNoAddr(t)
        BY <2>1 DEF RpcContextGoesOn, R!RpcContextNoStore, R!RpcContextReady, R!maps
    <2>3. Given(EmptyAddr, rframe[t].region.leader.store_id)
        BY <2>2, AddrAssumption DEF IInv, Asked
    <2>4. cached' = Restrict(cached, DOMAIN cached \ {rframe[t].ver})
        BY <2>2 DEF R!RpcContextNoAddr, R!DropFromCache, R!Restrict, Restrict
    <2> QED
        BY <2>2, <2>3, <2>4 DEF Given
<1> QED
    BY <1>1, Invariance, PTL DEF Spec, DropHasCause

-----------------------------------------------------------------------------
(* The halves.  The theorems about RegionCache and StoreCache speak of R    *)
(* and S as they stand here, so what holds of a half alone holds of the    *)
(* whole once every step of the whole is a step of each half.              *)

RP == INSTANCE RegionOrderProofs
          WITH pc <- rpc, frame <- rframe, StoreId <- Store, MaxTime <- 0
SP == INSTANCE StoreCacheProofs WITH pc <- spc, frame <- sframe

\* R and RP, and S and SP, are the same module under the same substitution.
LEMMA SameRegions == R!Spec => RP!Spec
BY DEF R!Spec, RP!Spec, R!Init, RP!Init, R!Next, RP!Next, R!vars, RP!vars,
   R!maps, RP!maps, R!calls, RP!calls, R!NoFrame, RP!NoFrame, R!NoRegion,
   RP!NoRegion, R!NoVerID, RP!NoVerID, R!NoPeer, RP!NoPeer, R!EmptyKey,
   RP!EmptyKey, R!NoResult, RP!NoResult, R!Failure, RP!Failure, R!DefaultEntry,
   RP!DefaultEntry, R!ServedVer, RP!ServedVer, R!Served, RP!Served, R!IsValid,
   RP!IsValid, R!Touched, RP!Touched, R!Live, RP!Live, R!UpperBound,
   RP!UpperBound, R!Finds, RP!Finds, R!InsertRegion, RP!InsertRegion,
   R!DropFromCache, RP!DropFromCache, R!Return, RP!Return, R!LocOf, RP!LocOf,
   R!Located, RP!Located, R!Contains, RP!Contains, R!Put, RP!Put,
   R!LeaderAmong, RP!LeaderAmong, R!SwitchLeader, RP!SwitchLeader,
   R!SwitchLeaderByPeerId, RP!SwitchLeaderByPeerId, R!ToUint16, RP!ToUint16,
   R!LocateHit, RP!LocateHit, R!LocateMiss, RP!LocateMiss, R!PDAnswers,
   RP!PDAnswers, R!LoadedRegion, RP!LoadedRegion, R!LoadRegion, RP!LoadRegion,
   R!LoadFails, RP!LoadFails, R!LocateInsert, RP!LocateInsert,
   R!RpcContextStale, RP!RpcContextStale, R!RpcContextRead, RP!RpcContextRead,
   R!RpcContextReady, RP!RpcContextReady, R!RpcContextNoStore,
   RP!RpcContextNoStore, R!RpcContextNoAddr, RP!RpcContextNoAddr, R!DropRegion,
   RP!DropRegion, R!UpdateRegionLeader, RP!UpdateRegionLeader,
   R!PDChange, RP!PDChange, R!ClockAdvances, RP!ClockAdvances,
   R!ClockSetBack, RP!ClockSetBack, R!Taken, RP!Taken, R!LocateKey,
   RP!LocateKey, R!GetRpcContext, RP!GetRpcContext, R!Restrict, RP!Restrict

LEMMA RegionsAssumed ==
    /\ RP!KeyAssumption /\ RP!U16Assumption /\ RP!TableAssumption
    /\ RP!OrderAssumption /\ RP!NumberAssumption
BY HalvesAssumption
   DEF R!KeyAssumption, RP!KeyAssumption, R!U16Assumption, RP!U16Assumption,
       R!TableAssumption, RP!TableAssumption, R!OrderAssumption, RP!OrderAssumption,
       R!NumberAssumption, RP!NumberAssumption, R!EmptyKey, RP!EmptyKey,
       R!VerID, RP!VerID, R!Peer, RP!Peer, R!Region, RP!Region,
       R!VersionsFixRanges, RP!VersionsFixRanges, R!DistinctEnds, RP!DistinctEnds,
       R!NeverReturns, RP!NeverReturns

LEMMA SameStores == S!Spec => SP!Spec
BY DEF S!Spec, SP!Spec, S!Init, SP!Init, S!Next, SP!Next, S!vars, SP!vars,
   S!lock, SP!lock, S!NoFrame, SP!NoFrame, S!CanLockShared, SP!CanLockShared,
   S!CanLock, SP!CanLock, S!UnlockShared, SP!UnlockShared, S!Unlock, SP!Unlock,
   S!Begin, SP!Begin, S!Return, SP!Return, S!GetStoreAddr, SP!GetStoreAddr,
   S!ReloadStoreAddr, SP!ReloadStoreAddr, S!LockShared, SP!LockShared,
   S!FindHit, SP!FindHit, S!FindMiss, SP!FindMiss, S!LoadStore, SP!LoadStore,
   S!LoadStoreFails, SP!LoadStoreFails, S!WaitExclusive, SP!WaitExclusive,
   S!LockExclusive, SP!LockExclusive, S!StoreAddr, SP!StoreAddr, S!StoresMove,
   SP!StoresMove, S!Step, SP!Step

\* For the regions, all that the lookup of an address does is nothing.
LEMMA ImplementsRegions == Spec => R!Spec
<1>1. Init => R!Init
    BY DEF Init
<1>2. [Next]_vars => [R!Next]_R!vars
    <2> SUFFICES ASSUME [Next]_vars PROVE [R!Next]_R!vars
        OBVIOUS
    <2>1. ASSUME NEW t \in Threads, NEW v \in R!ServedVer, RpcContextAsks(t, v)
          PROVE  R!Next
        BY <2>1 DEF RpcContextAsks, R!Next, R!GetRpcContext
    <2>2. ASSUME NEW t \in Threads, RpcContextGoesOn(t) PROVE R!Next
        BY <2>2 DEF RpcContextGoesOn, R!Next, R!GetRpcContext
    <2>3. ASSUME NEW t \in Threads, RegionStep(t) PROVE R!Next
        BY <2>3 DEF RegionStep, R!Next, R!GetRpcContext
    <2>4. ASSUME NEW t, NEW s, StoreStep(t) \/ Reload(t, s) PROVE R!Next
        BY <2>4 DEF StoreStep, Reload, R!Next
    <2>5. CASE PDMoves
        BY <2>5 DEF PDMoves, R!Next
    <2>6. CASE UNCHANGED vars
        BY <2>6 DEF vars, regions, R!vars
    <2> QED
        BY <2>1, <2>2, <2>3, <2>4, <2>5, <2>6 DEF Next
<1> QED
    BY <1>1, <1>2, PTL DEF Spec, R!Spec

\* The invariant of the regions, established by its own proof.
LEMMA RegionsInvariance == Spec => []RP!IInv
BY ImplementsRegions, SameRegions, RP!Invariance, RegionsAssumed, PTL

\* The store that get_rpc_context asks for, that of a region's leader or of the
\* default peer, is one that get_store_addr is called for.
LEMMA LeadersHaveStores ==
    ASSUME RP!IInv, NEW v \in DOMAIN cached
    PROVE  cached[v].region.leader.store_id \in Store
<1>1. /\ epoch \in DOMAIN PDTable
      /\ RP!ServedAs(cached[v].region)
    BY DEF RP!IInv, RP!TypeOK, RP!CachedServed
<1>2. PICK p \in RP!Served : p.peers = cached[v].region.peers
    BY <1>1 DEF RP!ServedAs
<1>3. PICK i \in 1..epoch : p \in PDTable[i]
    BY <1>2 DEF RP!Served
<1>4. i \in DOMAIN PDTable
    <2>1. PDTable \in Seq(SUBSET R!Region)
        BY HalvesAssumption DEF R!TableAssumption
    <2>2. DOMAIN PDTable = 1..Len(PDTable) /\ Len(PDTable) \in Nat
        BY <2>1
    <2> QED
        BY <1>1, <2>2
<1>5. CASE cached[v].region.leader \in cached[v].region.peers
    BY <1>2, <1>3, <1>4, <1>5, EpochAssumption
<1>6. CASE cached[v].region.leader = RP!NoPeer /\ ~RP!NamesLeaders(PDTable)
    <2>1. ~R!NamesLeaders(PDTable)
        BY <1>6 DEF RP!NamesLeaders, R!NamesLeaders
    <2> QED
        BY <1>6, <2>1, EpochAssumption DEF RP!NoPeer, R!NoPeer
<1> QED
    BY <1>1, <1>5, <1>6 DEF RP!ServedAs

\* For the stores, the regions are one caller more, and one that asks for
\* stores there are.
LEMMA ImplementsStores == Spec => S!Spec
<1>1. Init => S!Init
    BY DEF Init
<1>2. RP!IInv /\ [Next]_vars => [S!Next]_S!vars
    <2> SUFFICES ASSUME RP!IInv, [Next]_vars PROVE [S!Next]_S!vars
        OBVIOUS
    <2>1. ASSUME NEW t \in Threads, NEW v, RpcContextAsks(t, v)
          PROVE  S!Next
        <3>1. v \in DOMAIN cached
            BY <2>1 DEF RpcContextAsks, R!RpcContextRead, R!Live
        <3> QED
            BY <2>1, <3>1, LeadersHaveStores DEF RpcContextAsks, S!Next
    <2>2. ASSUME NEW t \in Threads, StoreStep(t) PROVE S!Next
        BY <2>2 DEF StoreStep, S!Next
    <2>3. ASSUME NEW t \in Threads, NEW s \in Store, Reload(t, s) PROVE S!Next
        BY <2>3 DEF Reload, S!Next
    <2>4. ASSUME NEW t \in Threads, RegionStep(t) \/ RpcContextGoesOn(t)
          PROVE  UNCHANGED S!vars
        <3>1. UNCHANGED addrs /\ UNCHANGED epoch
            BY <2>4 DEF RegionStep, RpcContextGoesOn, R!LocateKey, R!LocateHit, R!LocateMiss,
               R!LoadRegion, R!LoadFails, R!LocateInsert, R!RpcContextStale, R!DropRegion,
               R!UpdateRegionLeader, R!RpcContextReady, R!RpcContextNoStore, R!RpcContextNoAddr
        <3> QED
            BY <3>1 DEF addrs, S!vars
    <2>5. CASE PDMoves
        BY <2>5 DEF PDMoves, S!Next
    <2>6. CASE UNCHANGED vars
        BY <2>6 DEF vars, addrs, S!vars
    <2> QED
        BY <2>1, <2>2, <2>3, <2>4, <2>5, <2>6, ReloadersAssumption DEF Next
<1> QED
    BY <1>1, <1>2, RegionsInvariance, PTL DEF Spec, S!Spec

\* The properties, too, are the same.
LEMMA SameProperties ==
    /\ RP!CacheCoherent => R!CacheCoherent
    /\ RP!LocateSound => R!LocateSound
    /\ RP!RpcContextSound => R!RpcContextSound
    /\ RP!FreshestWins => R!FreshestWins
    /\ RP!LocateThenHit => R!LocateThenHit
    /\ RP!PeerHasSource => R!PeerHasSource
    /\ RP!AgeRunsFromInsertion => R!AgeRunsFromInsertion
    /\ RP!StaleOverwriteNeedsRace => R!StaleOverwriteNeedsRace
    /\ RP!IsDirectory => R!IsDirectory
    /\ SP!WriterAlone => S!WriterAlone
    /\ SP!StuckNeedsLeak => S!StuckNeedsLeak
    /\ SP!MissFreezesStores => S!MissFreezesStores
    /\ SP!OldAddressNeedsRace => S!OldAddressNeedsRace
BY DEF RP!CacheCoherent, R!CacheCoherent, RP!LocateSound, R!LocateSound,
       RP!RpcContextSound, R!RpcContextSound, RP!FreshestWins, R!FreshestWins,
       RP!LocateThenHit, R!LocateThenHit, RP!Past, R!Past,
       RP!PeerHasSource, R!PeerHasSource, RP!HasSource, R!HasSource,
       RP!LoadedRegion, R!LoadedRegion, RP!LeaderAmong, R!LeaderAmong,
       RP!SwitchLeader, R!SwitchLeader, RP!SwitchLeaderByPeerId, R!SwitchLeaderByPeerId,
       RP!ToUint16, R!ToUint16, RP!AgeRunsFromInsertion, R!AgeRunsFromInsertion,
       RP!StaleOverwriteNeedsRace, R!StaleOverwriteNeedsRace, RP!IsDirectory, R!IsDirectory,
       SP!WriterAlone, S!WriterAlone, SP!MissFreezesStores, S!MissFreezesStores,
       SP!OldAddressNeedsRace, S!OldAddressNeedsRace,
       RP!vars, R!vars, SP!vars, S!vars, RP!Served, R!Served, RP!CurrentVer, R!CurrentVer,
       RP!Contains, R!Contains, RP!EmptyKey, R!EmptyKey, RP!NoPeer, R!NoPeer,
       RP!NamesLeaders, R!NamesLeaders, RP!OnlySplits, R!OnlySplits, RP!Finds, R!Finds,
       RP!UpperBound, R!UpperBound, RP!Live, R!Live, RP!IsValid, R!IsValid,
       RP!KnownLocs, R!KnownLocs, RP!CachedLocs, R!CachedLocs, RP!Answer, R!Answer,
       RP!LocOf, R!LocOf, SP!Leaked, S!Leaked,
       SP!StuckNeedsLeak, S!StuckNeedsLeak, SP!CanGoOn, S!CanGoOn,
       SP!CanLockShared, S!CanLockShared, SP!CanLock, S!CanLock,
       RP!Directory!Spec, R!Directory!Spec, RP!Directory!Init, R!Directory!Init,
       RP!Directory!Next, R!Directory!Next, RP!Directory!Hit, R!Directory!Hit,
       RP!Directory!Learn, R!Directory!Learn, RP!Directory!Forget, R!Directory!Forget,
       RP!Directory!Other, R!Directory!Other, RP!Directory!vars, R!Directory!vars,
       RP!Directory!Contains, R!Directory!Contains,
       RP!Directory!EmptyKey, R!Directory!EmptyKey

\* So all that is proved of the regions holds while addresses are looked up in
\* the middle of their calls.
THEOREM RegionsHold ==
    Spec => /\ [](R!CacheCoherent /\ R!LocateSound /\ R!RpcContextSound /\ R!PeerHasSource
               /\ R!FreshestWins)
            /\ R!AgeRunsFromInsertion /\ R!StaleOverwriteNeedsRace /\ R!LocateThenHit
            /\ R!IsDirectory
BY ImplementsRegions, SameRegions, RegionsAssumed, SameProperties,
   RP!Coherent, RP!LocateCorrect, RP!RpcContextCorrect, RP!FreshestCorrect,
   RP!PeersHaveSource, RP!LocatedIsFound, RP!AgeCorrect, RP!StaleOverwritesRaced, RP!ImplementsDirectory, PTL

\* All that is proved of the stores holds when get_rpc_context is their caller.
THEOREM StoresHold ==
    Spec => /\ [](S!WriterAlone /\ S!StuckNeedsLeak)
            /\ S!MissFreezesStores /\ S!OldAddressNeedsRace
BY ImplementsStores, SameStores, HalvesAssumption, SameProperties,
   SP!WritersAlone, SP!StuckOnlyByLeak, SP!MissesFreeze, SP!OldAddressesRaced, PTL

=============================================================================
