----------------------------- MODULE StoreCache -----------------------------
(***************************************************************************)
(* The store half of class RegionCache (src/region_cache.cc:86-111): the   *)
(* map stores_ from store ids to addresses, get_store_addr and             *)
(* reload_store_addr, and store_lock_ that both take.                      *)
(*                                                                         *)
(* get_store_addr unlocks by hand.  On a miss it calls reload_store_addr   *)
(* with its shared lock still held, and neither of the two ever gives it   *)
(* back; reload_store_addr, which is also a public entry, then asks for    *)
(* the exclusive lock.  So taking a lock, using the map and releasing are  *)
(* steps of their own here, and the lock is modelled by thread.            *)
(*                                                                         *)
(* PD (external) is a script: StoreTable[i] gives the address of each      *)
(* store in the i-th epoch; a store changes its address when it moves.     *)
(***************************************************************************)
EXTENDS Integers, Sequences

CONSTANTS
    Threads,    \* the threads that share the cache
    Store,      \* the store ids
    Addr,       \* the addresses, the empty one among them
    StoreTable, \* StoreTable[i]: the addresses PD knows in its i-th epoch
    MaxLeaks    \* bound on the shared locks that one thread leaves behind

ASSUME StoreTableAssumption ==
    /\ Store # {}
    /\ StoreTable \in Seq([Store -> Addr])
    /\ Len(StoreTable) > 0
ASSUME MaxLeaksAssumption == MaxLeaks \in Nat

VARIABLES
    stores,     \* stores_: store id -> address; asOf, the epoch in which PD
                \* gave it, is a history variable
    held,       \* store_lock_: the shared locks that each thread holds
    writer,     \* store_lock_: it is held exclusively
    blocked,    \* store_lock_: a writer waits, so no new reader gets in
    epoch,      \* the epoch PD is in
    pc,         \* where each thread is
    frame,      \* the argument of each thread's call and PD's answer to it
    overtaken   \* history: another thread has stored an address of the same
                \* store since PD answered this thread

vars == <<stores, held, writer, blocked, epoch, pc, frame, overtaken>>
lock == <<held, writer, blocked>>

Loaded == [addr : Addr, asOf : Nat]
NoFrame ==
    LET s == CHOOSE x \in Store : TRUE
    IN  [store |-> s, answer |-> [addr |-> StoreTable[1][s], asOf |-> 0]]

-----------------------------------------------------------------------------
(* store_lock_: boost::shared_mutex (external).  A thread that already     *)
(* holds the lock is treated like any other.                               *)

CanLockShared == ~writer /\ ~blocked
CanLock == ~writer /\ \A t \in Threads : held[t] = 0

\* unlock_shared; the last reader lets everyone who waits try again.
UnlockShared(t) ==
    /\ held' = [held EXCEPT ![t] = @ - 1]
    /\ blocked' = (blocked /\ \E u \in Threads : held'[u] > 0)
    /\ UNCHANGED writer

Unlock ==
    /\ writer' = FALSE
    /\ blocked' = FALSE
    /\ UNCHANGED held

-----------------------------------------------------------------------------
Begin(t, s, at) ==
    /\ pc[t] = "idle"
    /\ held[t] < MaxLeaks
    /\ frame' = [frame EXCEPT ![t].store = s]
    /\ pc' = [pc EXCEPT ![t] = at]
    /\ UNCHANGED <<stores, lock, epoch, overtaken>>

\* The locals of the call are gone; NoFrame stands for their absence, and a
\* property reads no frame of an idle thread.
Return(t) ==
    /\ pc' = [pc EXCEPT ![t] = "idle"]
    /\ frame' = [frame EXCEPT ![t] = NoFrame]

\* get_store_addr and reload_store_addr are called.
GetStoreAddr(t, s) == Begin(t, s, "find")
ReloadStoreAddr(t, s) == Begin(t, s, "ask")

\* get_store_addr: store_lock_.lock_shared()
LockShared(t) ==
    /\ pc[t] = "find"
    /\ CanLockShared
    /\ held' = [held EXCEPT ![t] = @ + 1]
    /\ pc' = [pc EXCEPT ![t] = "reading"]
    /\ UNCHANGED <<stores, writer, blocked, epoch, frame, overtaken>>

FindHitKeepsLock(t) ==
    /\ pc[t] = "reading"
    /\ frame[t].store \in DOMAIN stores
    /\ Return(t)
    /\ UNCHANGED <<stores, lock, epoch, overtaken>>
\* get_store_addr: the address is copied, the lock released, the copy returned.
FindHit(t) ==
    /\ pc[t] = "reading"
    /\ frame[t].store \in DOMAIN stores
    /\ UnlockShared(t)
    /\ Return(t)
    /\ UNCHANGED <<stores, epoch, overtaken>>

FindMissUnlocksTwice(t) ==
    /\ pc[t] = "reading"
    /\ frame[t].store \notin DOMAIN stores
    /\ held' = [held EXCEPT ![t] = @ - 2]
    /\ pc' = [pc EXCEPT ![t] = "ask"]
    /\ UNCHANGED <<stores, writer, blocked, epoch, frame, overtaken>>
\* get_store_addr: on to reload_store_addr, the shared lock stays held.
FindMiss(t) ==
    /\ pc[t] = "reading"
    /\ frame[t].store \notin DOMAIN stores
    /\ pc' = [pc EXCEPT ![t] = "ask"]
    /\ UNCHANGED <<stores, lock, epoch, frame, overtaken>>

LoadStoreFromLagging(t) ==
    /\ pc[t] = "ask"
    /\ \E i \in 1..epoch : frame' = [frame EXCEPT ![t].answer =
                    [addr |-> StoreTable[i][frame[t].store], asOf |-> i]]
    /\ pc' = [pc EXCEPT ![t] = "write"]
    /\ UNCHANGED <<stores, lock, epoch, overtaken>>
\* reload_store_addr: PD answers.
LoadStore(t) ==
    /\ pc[t] = "ask"
    /\ frame' = [frame EXCEPT ![t].answer =
                    [addr |-> StoreTable[epoch][frame[t].store], asOf |-> epoch]]
    /\ pc' = [pc EXCEPT ![t] = "write"]
    /\ UNCHANGED <<stores, lock, epoch, overtaken>>

\* reload_store_addr: the RPC failed; nothing is unlocked.
LoadStoreFails(t) ==
    /\ pc[t] = "ask"
    /\ Return(t)
    /\ UNCHANGED <<stores, lock, epoch, overtaken>>

\* reload_store_addr: the exclusive lock is not free, new readers are barred.
WaitExclusive(t) ==
    /\ pc[t] = "write"
    /\ ~CanLock
    /\ ~blocked
    /\ blocked' = TRUE
    /\ UNCHANGED <<stores, held, writer, epoch, pc, frame, overtaken>>

LockForReading(t) ==
    /\ pc[t] = "write"
    /\ CanLockShared
    /\ pc' = [pc EXCEPT ![t] = "writing"]
    /\ UNCHANGED <<stores, lock, epoch, frame, overtaken>>
LockPastReaders(t) ==
    /\ pc[t] = "write"
    /\ ~writer
    /\ writer' = TRUE
    /\ pc' = [pc EXCEPT ![t] = "writing"]
    /\ UNCHANGED <<stores, held, blocked, epoch, frame, overtaken>>
\* reload_store_addr: boost::unique_lock l(store_lock_)
LockExclusive(t) ==
    /\ pc[t] = "write"
    /\ CanLock
    /\ writer' = TRUE
    /\ pc' = [pc EXCEPT ![t] = "writing"]
    /\ UNCHANGED <<stores, held, blocked, epoch, frame, overtaken>>

StoreAddrKeepsLock(t) ==
    /\ pc[t] = "writing"
    /\ stores' = [s \in DOMAIN stores \cup {frame[t].store} |->
                    IF s = frame[t].store THEN frame[t].answer ELSE stores[s]]
    /\ Return(t)
    /\ UNCHANGED <<lock, epoch, overtaken>>
\* reload_store_addr: the answer goes into the map and is returned.
StoreAddr(t) ==
    /\ pc[t] = "writing"
    /\ stores' = [s \in DOMAIN stores \cup {frame[t].store} |->
                    IF s = frame[t].store THEN frame[t].answer ELSE stores[s]]
    /\ Unlock
    /\ Return(t)
    /\ overtaken' = [u \in Threads |->
            u # t /\ (overtaken[u] \/ (pc[u] = "write" /\ frame[u].store = frame[t].store))]
    /\ UNCHANGED epoch

\* PD (external): stores change their addresses.
StoresMove ==
    /\ epoch < Len(StoreTable)
    /\ epoch' = epoch + 1
    /\ UNCHANGED <<stores, lock, pc, frame, overtaken>>

-----------------------------------------------------------------------------
Init ==
    /\ stores = [s \in {} |-> NoFrame.answer]
    /\ held = [t \in Threads |-> 0]
    /\ writer = FALSE
    /\ blocked = FALSE
    /\ epoch = 1
    /\ pc = [t \in Threads |-> "idle"]
    /\ frame = [t \in Threads |-> NoFrame]
    /\ overtaken = [t \in Threads |-> FALSE]

\* What a thread does inside a call.
Step(t) ==
    \/ LockShared(t) \/ FindHit(t) \/ FindMiss(t)
    \/ LoadStore(t) \/ LoadStoreFails(t)
    \/ WaitExclusive(t) \/ LockExclusive(t) \/ StoreAddr(t)

Next ==
    \/ \E t \in Threads, s \in Store : GetStoreAddr(t, s) \/ ReloadStoreAddr(t, s)
    \/ \E t \in Threads : Step(t)
    \/ StoresMove

Spec == Init /\ [][Next]_vars

\* A thread inside a call goes on when it can: the scheduler runs it, and PD
\* answers or the RPC fails.  boost::shared_mutex starves neither readers nor
\* writers, so a thread gets a lock that is free again and again.  Nobody has
\* to call, and no store has to move.
FairSpec ==
    /\ Spec
    /\ \A t \in Threads :
        WF_vars(Step(t)) /\ SF_vars(LockShared(t)) /\ SF_vars(LockExclusive(t))

-----------------------------------------------------------------------------
(* Correctness.                                                            *)

\* Every variable has its type.
TypeOK ==
    /\ DOMAIN stores \subseteq Store /\ stores \in [DOMAIN stores -> Loaded]
    /\ held \in [Threads -> 0..MaxLeaks]
    /\ writer \in BOOLEAN /\ blocked \in BOOLEAN
    /\ epoch \in DOMAIN StoreTable
    /\ pc \in [Threads -> {"idle", "find", "reading", "ask", "write", "writing"}]
    /\ frame \in [Threads -> [store : Store, answer : Loaded]]
    /\ overtaken \in [Threads -> BOOLEAN]

\* A thread that changes stores_ is alone with it: no other changes it or
\* reads it.  get_store_addr locks and unlocks by hand, reload_store_addr by
\* scope, and the shared locks that misses leave behind are still counted.
WriterAlone ==
    \A t, u \in Threads :
        (pc[t] = "writing" /\ t # u) => pc[u] \notin {"reading", "writing"}

\* A shared lock that is held by a thread that is not between lock_shared and
\* unlock_shared of get_store_addr.
Leaked == \E t \in Threads : held[t] > IF pc[t] = "reading" THEN 1 ELSE 0

\* A thread inside a call that neither the lock nor a waiting writer holds up.
CanGoOn(t) ==
    \/ pc[t] \in {"reading", "ask", "writing"}
    \/ pc[t] = "find" /\ CanLockShared
    \/ pc[t] = "write" /\ CanLock

\* As long as no miss has left its shared lock behind, the threads inside the
\* two functions are never all held up: there is no other deadlock in them, by
\* an exclusive lock nobody gives back, or by readers that wait for a writer
\* that waits for no reader.
StuckNeedsLeak ==
    (~Leaked /\ \E t \in Threads : pc[t] # "idle") => \E t \in Threads : CanGoOn(t)

\* After the first lookup that misses, stores_ never changes again: its shared
\* lock is never released (src/region_cache.cc:97), so neither its own
\* reload_store_addr nor anyone else's ever gets the exclusive lock.
MissFreezesStores == [][Leaked => Leaked' /\ stores' = stores]_vars

\* reload_store_addr asks PD with no exclusive lock held, so its answer can be
\* overtaken.  The address of a store goes back to an older answer of PD only
\* if another thread stored one for the same store after PD had answered.
OldAddressNeedsRace ==
    [][\A s \in DOMAIN stores :
        stores'[s].asOf < stores[s].asOf
            => \E t \in Threads : pc[t] = "writing" /\ frame[t].store = s /\ overtaken[t]]_vars

\* As long as every lookup finds its store, each call returns: the locks of
\* hits and of direct reloads are paired, whatever their order.
CallsReturn ==
    [](\A t \in Threads : pc[t] = "reading" => frame[t].store \in DOMAIN stores)
        => \A t \in Threads : pc[t] # "idle" ~> pc[t] = "idle"

\* What the comments of the two functions say happens to a store that is not
\* found (src/region_cache.cc:96, "if not found in cache", and :104, "update
\* store cache"): once PD has answered, the store that was asked for gets into
\* the cache.
AnswerGetsCached ==
    \A t \in Threads, s \in Store :
        (pc[t] = "write" /\ frame[t].store = s) ~> s \in DOMAIN stores

=============================================================================
