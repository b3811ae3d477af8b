-------------------------- MODULE StoreCacheProofs --------------------------
(***************************************************************************)
(* Proofs about StoreCache, for every number of threads, leaks and stores  *)
(* and every script of PD.                                                 *)
(***************************************************************************)
EXTENDS StoreCache, TLAPS

\* Who reads holds a shared lock; who writes keeps all others out.
Locking ==
    /\ \A t \in Threads : pc[t] = "find" => held[t] < MaxLeaks
    /\ \A t \in Threads : pc[t] = "reading" => held[t] >= 1
    /\ \A t \in Threads : pc[t] = "writing" => writer /\ \A u \in Threads : held[u] = 0
    /\ \A t, u \in Threads : pc[t] = "writing" /\ pc[u] = "writing" => t = u

\* Nothing is newer than PD, and an answer on its way into the map is as new
\* as the entry it replaces unless it was overtaken.
Ordered ==
    /\ \A s \in DOMAIN stores : stores[s].asOf <= epoch
    /\ \A t \in Threads : pc[t] \in {"write", "writing"} =>
        /\ frame[t].answer.asOf <= epoch
        /\ (~overtaken[t] /\ frame[t].store \in DOMAIN stores)
            => stores[frame[t].store].asOf <= frame[t].answer.asOf

IInv == TypeOK /\ Locking /\ Ordered

LEMMA TableFacts ==
    /\ Len(StoreTable) \in Nat /\ Len(StoreTable) >= 1
    /\ DOMAIN StoreTable = 1..Len(StoreTable)
    /\ \A i \in DOMAIN StoreTable, s \in Store : StoreTable[i][s] \in Addr
BY StoreTableAssumption

LEMMA NoFrameType == NoFrame \in [store : Store, answer : Loaded]
BY TableFacts, StoreTableAssumption DEF NoFrame, Loaded

LEMMA InitIInv == Init => IInv
<1> SUFFICES ASSUME Init PROVE IInv
    OBVIOUS
<1>1. DOMAIN stores = {} /\ stores \in [DOMAIN stores -> Loaded]
    BY DEF Init
<1>2. TypeOK
    <2>1. epoch \in DOMAIN StoreTable
        BY TableFacts DEF Init
    <2>2. frame \in [Threads -> [store : Store, answer : Loaded]]
        BY NoFrameType DEF Init
    <2>3. DOMAIN stores \subseteq Store
        BY <1>1
    <2>4. held \in [Threads -> 0..MaxLeaks]
        BY MaxLeaksAssumption DEF Init
    <2> QED
        BY <1>1, <2>1, <2>2, <2>3, <2>4 DEF Init, TypeOK
<1>3. Locking /\ Ordered
    BY <1>1 DEF Init, Locking, Ordered
<1> QED
    BY <1>2, <1>3 DEF IInv

LEMMA BeginStep ==
    ASSUME IInv, NEW t \in Threads, NEW s \in Store, NEW at \in {"find", "ask"},
           Begin(t, s, at)
    PROVE  IInv'
<1>1. /\ \A u \in Threads : pc'[u] = IF u = t THEN at ELSE pc[u]
      /\ \A u \in Threads \ {t} : frame'[u] = frame[u]
      /\ UNCHANGED <<stores, held, writer, blocked, epoch, overtaken>>
    BY DEF Begin, IInv, TypeOK, lock
<1>2. TypeOK'
    <2>2. pc' \in [Threads -> {"idle", "find", "reading", "ask", "write", "writing"}]
        BY DEF Begin, IInv, TypeOK
    <2>3. frame' \in [Threads -> [store : Store, answer : Loaded]]
        BY DEF Begin, IInv, TypeOK
    <2> QED
        BY <1>1, <2>2, <2>3 DEF IInv, TypeOK
<1>3. Locking'
    BY <1>1, MaxLeaksAssumption DEF Begin, IInv, TypeOK, Locking
<1>4. Ordered'
    BY <1>1 DEF IInv, Ordered
<1> QED
    BY <1>2, <1>3, <1>4 DEF IInv

LEMMA LookupStep ==
    ASSUME IInv, NEW t \in Threads, LockShared(t) \/ FindHit(t) \/ FindMiss(t)
    PROVE  IInv'
<1>1. CASE LockShared(t)
    <2>1. TypeOK'
        <3>1. held[t] + 1 \in 0..MaxLeaks
            BY <1>1, MaxLeaksAssumption DEF LockShared, IInv, TypeOK, Locking
        <3>2. held' \in [Threads -> 0..MaxLeaks]
            BY <1>1, <3>1 DEF LockShared, IInv, TypeOK
        <3> QED
            BY <1>1, <3>2 DEF LockShared, IInv, TypeOK
    <2>2. Locking'
        BY <1>1 DEF LockShared, CanLockShared, IInv, TypeOK, Locking
    <2>3. Ordered'
        BY <1>1 DEF LockShared, IInv, TypeOK, Ordered
    <2> QED
        BY <2>1, <2>2, <2>3 DEF IInv
<1>2. CASE FindHit(t)
    <2>1. held[t] >= 1 /\ held[t] \in Nat /\ held[t] - 1 \in 0..MaxLeaks
        BY <1>2, MaxLeaksAssumption DEF FindHit, IInv, TypeOK, Locking
    <2>2. TypeOK'
        <3>1. held' \in [Threads -> 0..MaxLeaks]
            BY <1>2, <2>1 DEF FindHit, UnlockShared, IInv, TypeOK
        <3> QED
            BY NoFrameType, <1>2, <3>1 DEF FindHit, UnlockShared, Return, IInv, TypeOK
    <2>3. Locking'
        BY NoFrameType, <1>2, <2>1 DEF FindHit, UnlockShared, Return, IInv, TypeOK, Locking
    <2>4. Ordered'
        BY NoFrameType, <1>2 DEF FindHit, UnlockShared, Return, IInv, TypeOK, Ordered
    <2> QED
        BY <2>2, <2>3, <2>4 DEF IInv
<1>3. CASE FindMiss(t)
    <2>1. TypeOK'
        BY <1>3 DEF FindMiss, lock, IInv, TypeOK
    <2>2. Locking'
        BY <1>3 DEF FindMiss, lock, IInv, TypeOK, Locking
    <2>3. Ordered'
        BY <1>3 DEF FindMiss, lock, IInv, TypeOK, Ordered
    <2> QED
        BY <2>1, <2>2, <2>3 DEF IInv
<1> QED
    BY <1>1, <1>2, <1>3

LEMMA LoadStep ==
    ASSUME IInv, NEW t \in Threads, LoadStore(t) \/ LoadStoreFails(t)
    PROVE  IInv'
<1>1. CASE LoadStore(t)
    <2> DEFINE answer == [addr |-> StoreTable[epoch][frame[t].store], asOf |-> epoch]
    <2>1. answer \in Loaded /\ answer.asOf = epoch /\ epoch \in Nat
        BY TableFacts DEF IInv, TypeOK, Loaded
    <2>2. /\ frame' = [frame EXCEPT ![t].answer = answer]
          /\ pc' = [pc EXCEPT ![t] = "write"]
          /\ UNCHANGED <<stores, held, writer, blocked, epoch, overtaken>>
        BY <1>1 DEF LoadStore, lock
    <2> HIDE DEF answer
    <2>3. TypeOK'
        BY <2>1, <2>2 DEF IInv, TypeOK
    <2>4. Locking'
        BY <2>2 DEF IInv, TypeOK, Locking
    <2>5. /\ frame'[t].answer = answer /\ frame'[t].store = frame[t].store
          /\ \A u \in Threads \ {t} : /\ frame'[u] = frame[u] /\ pc'[u] = pc[u]
                                      /\ overtaken'[u] = overtaken[u]
        BY <2>2 DEF IInv, TypeOK
    <2>6. Ordered'
        BY <2>1, <2>2, <2>5 DEF IInv, Ordered
    <2> QED
        BY <2>3, <2>4, <2>6 DEF IInv
<1>2. CASE LoadStoreFails(t)
    <2>1. TypeOK'
        BY NoFrameType, <1>2 DEF LoadStoreFails, Return, lock, IInv, TypeOK
    <2>2. Locking'
        BY NoFrameType, <1>2 DEF LoadStoreFails, Return, lock, IInv, TypeOK, Locking
    <2>3. Ordered'
        BY NoFrameType, <1>2 DEF LoadStoreFails, Return, lock, IInv, TypeOK, Ordered
    <2> QED
        BY <2>1, <2>2, <2>3 DEF IInv
<1> QED
    BY <1>1, <1>2

LEMMA LockStep ==
    ASSUME IInv, NEW t \in Threads, WaitExclusive(t) \/ LockExclusive(t)
    PROVE  IInv'
<1>1. CASE WaitExclusive(t)
    BY <1>1 DEF WaitExclusive, IInv, TypeOK, Locking, Ordered
<1>2. CASE LockExclusive(t)
    <2>1. TypeOK'
        BY <1>2 DEF LockExclusive, IInv, TypeOK
    <2>2. Locking'
        BY <1>2 DEF LockExclusive, CanLock, IInv, TypeOK, Locking
    <2>3. Ordered'
        BY <1>2 DEF LockExclusive, IInv, TypeOK, Ordered
    <2> QED
        BY <2>1, <2>2, <2>3 DEF IInv
<1> QED
    BY <1>1, <1>2

LEMMA StoreStep ==
    ASSUME IInv, NEW t \in Threads, StoreAddr(t)
    PROVE  IInv'
<1> DEFINE s == frame[t].store
           answer == frame[t].answer
<1>1. s \in Store /\ answer \in Loaded /\ answer.asOf <= epoch
    BY DEF StoreAddr, IInv, TypeOK, Ordered
<1>2. stores' = [x \in DOMAIN stores \cup {s} |-> IF x = s THEN answer ELSE stores[x]]
    BY DEF StoreAddr
<1>3. /\ writer' = FALSE /\ blocked' = FALSE
      /\ pc' = [pc EXCEPT ![t] = "idle"]
      /\ overtaken' = [u \in Threads |->
             u # t /\ (overtaken[u] \/ (pc[u] = "write" /\ frame[u].store = s))]
      /\ frame' = [frame EXCEPT ![t] = NoFrame]
      /\ UNCHANGED <<held, epoch>>
    BY DEF StoreAddr, Return, Unlock
<1> HIDE DEF s, answer
<1>4. TypeOK'
    BY NoFrameType, <1>1, <1>2, <1>3 DEF IInv, TypeOK
<1>5. Locking'
    BY <1>3 DEF StoreAddr, IInv, TypeOK, Locking
<1>6. Ordered'
    <2>1. \A u \in Threads \ {t} : pc'[u] = pc[u] /\ frame'[u] = frame[u] /\ pc[u] # "writing"
        BY <1>3 DEF StoreAddr, IInv, TypeOK, Locking
    <2>2. pc'[t] = "idle"
        BY <1>3 DEF IInv, TypeOK
    <2> QED
        BY <1>1, <1>2, <1>3, <2>1, <2>2 DEF IInv, TypeOK, Ordered
<1> QED
    BY <1>4, <1>5, <1>6 DEF IInv

LEMMA MoveStep == IInv /\ StoresMove => IInv'
<1> SUFFICES ASSUME IInv, StoresMove PROVE IInv'
    OBVIOUS
<1>1. epoch \in Nat /\ epoch' = epoch + 1 /\ epoch' \in DOMAIN StoreTable
    BY TableFacts DEF StoresMove, IInv, TypeOK
<1>2. TypeOK'
    BY <1>1 DEF StoresMove, lock, IInv, TypeOK
<1>3. Locking'
    BY DEF StoresMove, lock, IInv, Locking
<1>4. Ordered'
    <2>1. /\ \A s \in DOMAIN stores : stores[s].asOf \in Nat
          /\ \A t \in Threads : frame[t].answer.asOf \in Nat
        BY DEF IInv, TypeOK, Loaded
    <2> QED
        BY <1>1, <2>1 DEF StoresMove, IInv, Ordered
<1> QED
    BY <1>2, <1>3, <1>4 DEF IInv

\* The inductive invariant of store_lock_ and of the ages of the answers.
THEOREM Invariance == Spec => []IInv
<1>1. IInv /\ [Next]_vars => IInv'
    <2> SUFFICES ASSUME IInv, [Next]_vars PROVE IInv'
        OBVIOUS
    <2>1. ASSUME NEW t \in Threads, NEW s \in Store, GetStoreAddr(t, s) \/ ReloadStoreAddr(t, s)
          PROVE  IInv'
        BY <2>1, BeginStep DEF GetStoreAddr, ReloadStoreAddr
    <2>2. ASSUME NEW t \in Threads, Step(t) PROVE IInv'
        BY <2>2, LookupStep, LoadStep, LockStep, StoreStep DEF Step
    <2>3. CASE StoresMove
        BY <2>3, MoveStep
    <2>4. CASE UNCHANGED vars
        BY <2>4 DEF vars, lock, IInv, TypeOK, Locking, Ordered
    <2> QED
        BY <2>1, <2>2, <2>3, <2>4 DEF Next
<1> QED
    BY <1>1, InitIInv, PTL DEF Spec

-----------------------------------------------------------------------------
(* The theorems.                                                           *)

\* Every variable keeps its type; no thread leaves more locks behind than
\* the bound allows it to.
THEOREM TypeCorrect == Spec => []TypeOK
<1>1. IInv => TypeOK
    BY DEF IInv
<1> QED
    BY <1>1, Invariance, PTL

\* Whoever changes stores_ is alone with it.
THEOREM WritersAlone == Spec => []WriterAlone
<1>1. IInv => WriterAlone
    BY DEF IInv, Locking, WriterAlone
<1> QED
    BY <1>1, Invariance, PTL

\* One missed lookup freezes the cache of addresses for good.
THEOREM MissesFreeze == Spec => MissFreezesStores
<1>1. IInv /\ [Next]_vars => [Leaked => Leaked' /\ stores' = stores]_vars
    <2> SUFFICES ASSUME IInv, Next, Leaked PROVE Leaked' /\ stores' = stores
        OBVIOUS
    <2>1. PICK l \in Threads : held[l] > IF pc[l] = "reading" THEN 1 ELSE 0
        BY DEF Leaked
    <2>2. \A t \in Threads : held[t] \in Nat
        BY DEF IInv, TypeOK
    <2>3. ASSUME NEW t \in Threads, NEW s \in Store, GetStoreAddr(t, s) \/ ReloadStoreAddr(t, s)
          PROVE  Leaked' /\ stores' = stores
        BY <2>1, <2>3 DEF GetStoreAddr, ReloadStoreAddr, Begin, lock, Leaked, IInv, TypeOK
    <2>4. ASSUME NEW t \in Threads, LockShared(t) \/ FindHit(t) \/ FindMiss(t)
          PROVE  Leaked' /\ stores' = stores
        <3>1. stores' = stores
            BY <2>4 DEF LockShared, FindHit, FindMiss
        <3>2. held'[l] > IF pc'[l] = "reading" THEN 1 ELSE 0
            BY <2>1, <2>2, <2>4
               DEF LockShared, FindHit, FindMiss, UnlockShared, Return, lock, IInv, TypeOK
        <3> QED
            BY <3>1, <3>2 DEF Leaked
    <2>5. ASSUME NEW t \in Threads, LoadStore(t) \/ LoadStoreFails(t) \/ WaitExclusive(t)
          PROVE  Leaked' /\ stores' = stores
        BY <2>1, <2>2, <2>5 DEF LoadStore, LoadStoreFails, Return, WaitExclusive, lock, Leaked, IInv, TypeOK
    <2>6. ASSUME NEW t \in Threads, LockExclusive(t) PROVE FALSE
        BY <2>1, <2>2, <2>6 DEF LockExclusive, CanLock
    <2>7. ASSUME NEW t \in Threads, StoreAddr(t) PROVE FALSE
        BY <2>1, <2>2, <2>7 DEF StoreAddr, IInv, Locking
    <2>8. CASE StoresMove
        BY <2>1, <2>8 DEF StoresMove, lock, Leaked
    <2> QED
        BY <2>3, <2>4, <2>5, <2>6, <2>7, <2>8 DEF Next, Step
<1> QED
    BY <1>1, Invariance, PTL DEF Spec, MissFreezesStores

\* An address goes back to an older answer only by losing a race.
THEOREM OldAddressesRaced == Spec => OldAddressNeedsRace
<1> DEFINE Raced == \A s \in DOMAIN stores :
               stores'[s].asOf < stores[s].asOf
                   => \E t \in Threads : pc[t] = "writing" /\ frame[t].store = s /\ overtaken[t]
<1>1. IInv /\ [Next]_vars => [Raced]_vars
    <2> SUFFICES ASSUME IInv, Next PROVE Raced
        OBVIOUS
    <2>1. \A s \in DOMAIN stores : stores[s].asOf \in Nat
        BY DEF IInv, TypeOK, Loaded
    <2>2. ASSUME NEW t \in Threads, StoreAddr(t) PROVE Raced
        <3> SUFFICES ASSUME NEW s \in DOMAIN stores, stores'[s].asOf < stores[s].asOf
                     PROVE  pc[t] = "writing" /\ frame[t].store = s /\ overtaken[t]
            OBVIOUS
        <3>1. pc[t] = "writing"
            BY <2>2 DEF StoreAddr
        <3>2. frame[t].store = s /\ stores'[s] = frame[t].answer
            BY <2>1, <2>2 DEF StoreAddr
        <3>3. frame[t].answer.asOf \in Nat /\ overtaken[t] \in BOOLEAN
            BY DEF IInv, TypeOK, Loaded
        <3> QED
            BY <2>1, <3>1, <3>2, <3>3 DEF IInv, Ordered
    <2>3. CASE stores' = stores
        BY <2>1, <2>3
    <2>4. stores' = stores \/ \E t \in Threads : StoreAddr(t)
        BY DEF Next, Step, GetStoreAddr, ReloadStoreAddr, Begin, LockShared, FindHit,
           FindMiss, LoadStore, LoadStoreFails, WaitExclusive, LockExclusive, StoresMove
    <2> QED
        BY <2>2, <2>3, <2>4
<1> QED
    BY <1>1, Invariance, PTL DEF Spec, OldAddressNeedsRace

-----------------------------------------------------------------------------
(* Nobody is stuck without a leak: the exclusive lock has a thread that    *)
(* writes under it, and a waiting writer has someone to wait for.          *)

Awaited ==
    /\ writer => \E t \in Threads : pc[t] = "writing"
    /\ blocked => writer \/ \E t \in Threads : held[t] > 0

LEMMA StepAwaited ==
    ASSUME IInv, Awaited, NEW t \in Threads, Step(t)
    PROVE  Awaited'
<1>1. \A u \in Threads : held[u] \in Nat
    BY DEF IInv, TypeOK
<1>2. CASE LockShared(t)
    BY <1>1, <1>2 DEF LockShared, CanLockShared, Awaited
<1>3. CASE FindHit(t)
    <2>1. ~writer
        BY <1>1, <1>3 DEF FindHit, IInv, Locking, Awaited
    <2>2. ~writer' /\ (blocked' => \E u \in Threads : held'[u] > 0)
        BY <1>3, <2>1 DEF FindHit, UnlockShared
    <2> QED
        BY <2>2 DEF Awaited
<1>4. CASE FindMiss(t)
    BY <1>4 DEF FindMiss, lock, IInv, TypeOK, Awaited
<1>5. CASE LoadStore(t)
    BY <1>5 DEF LoadStore, lock, IInv, TypeOK, Awaited
<1>6. CASE LoadStoreFails(t)
    BY <1>6 DEF LoadStoreFails, Return, lock, IInv, TypeOK, Awaited
<1>7. CASE WaitExclusive(t)
    BY <1>1, <1>7 DEF WaitExclusive, CanLock, Awaited
<1>8. CASE LockExclusive(t)
    BY <1>8 DEF LockExclusive, IInv, TypeOK, Awaited
<1>9. CASE StoreAddr(t)
    BY <1>9 DEF StoreAddr, Unlock, Awaited
<1> QED
    BY <1>2, <1>3, <1>4, <1>5, <1>6, <1>7, <1>8, <1>9 DEF Step

LEMMA NextAwaited == IInv /\ Awaited /\ [Next]_vars => Awaited'
<1> SUFFICES ASSUME IInv, Awaited, [Next]_vars PROVE Awaited'
    OBVIOUS
<1>1. ASSUME NEW t \in Threads, NEW s \in Store, GetStoreAddr(t, s) \/ ReloadStoreAddr(t, s)
      PROVE  Awaited'
    BY <1>1 DEF GetStoreAddr, ReloadStoreAddr, Begin, lock, IInv, TypeOK, Awaited
<1>2. ASSUME NEW t \in Threads, Step(t) PROVE Awaited'
    BY <1>2, StepAwaited
<1>3. CASE StoresMove
    BY <1>3 DEF StoresMove, lock, Awaited
<1>4. CASE UNCHANGED vars
    BY <1>4 DEF vars, Awaited
<1> QED
    BY <1>1, <1>2, <1>3, <1>4 DEF Next

\* While no miss has left its shared lock behind, some thread inside the two
\* functions can always go on.
THEOREM StuckOnlyByLeak == Spec => []StuckNeedsLeak
<1>1. Init => Awaited
    BY DEF Init, Awaited
<1>2. IInv /\ Awaited => StuckNeedsLeak
    <2> SUFFICES ASSUME IInv, Awaited, ~Leaked,
                        NEW x \in Threads, pc[x] # "idle",
                        \A t \in Threads : ~CanGoOn(t)
                 PROVE  FALSE
        BY DEF StuckNeedsLeak
    <2>1. \A t \in Threads : pc[t] \notin {"reading", "ask", "writing"}
        BY DEF CanGoOn
    <2>2. ~writer
        BY <2>1 DEF Awaited
    <2>3. \A t \in Threads : held[t] = 0
        <3> TAKE t \in Threads
        <3>1. held[t] \in Nat
            BY DEF IInv, TypeOK
        <3>2. pc[t] # "reading"
            BY <2>1
        <3>3. ~(held[t] > 0)
            BY <3>2 DEF Leaked
        <3> QED
            BY <3>1, <3>3
    <2>4. CanLockShared /\ CanLock
        BY <2>2, <2>3 DEF Awaited, CanLockShared, CanLock
    <2>5. pc[x] \in {"find", "write"}
        BY <2>1 DEF IInv, TypeOK
    <2> QED
        BY <2>4, <2>5 DEF CanGoOn
<1> QED
    BY <1>1, <1>2, NextAwaited, Invariance, PTL DEF Spec

=============================================================================
