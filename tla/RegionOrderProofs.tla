------------------------- MODULE RegionOrderProofs --------------------------
(***************************************************************************)
(* Proofs about the order in which answers of PD reach the cache, for      *)
(* every script of PD that the assumptions allow: an answer replaces the   *)
(* current region by an old one only if another call overtook it, and what *)
(* a thread has located is found again unless its answer was overtaken.    *)
(*                                                                         *)
(* A call that waits to insert its answer holds a version PD had at some   *)
(* moment i, and whatever sorted_ holds that no other call has put there   *)
(* since was there at i or before.  So if PD still has the region that the *)
(* answer replaces, it also had it at moment i, beside a different region  *)
(* with the same end key, which is impossible.  And if nobody has inserted *)
(* since, nothing in sorted_ is younger than the answer, so that if regions *)
(* only split none of it ends between a key and the end of its region.     *)
(***************************************************************************)
EXTENDS RegionDirectoryProofs

VersAt(i) == {p.ver_id : p \in PDTable[i]}

\* The answer that t waits to insert is as old as moment i, and the regions
\* that nobody inserted since are no younger.
AnsweredAt(t, i) ==
    /\ frame[t].region.ver_id \in VersAt(i)
    /\ \A e \in DOMAIN sorted :
        sorted[e].ver_id \notin overlap[t] => \E j \in 1..i : sorted[e].ver_id \in VersAt(j)

Answered ==
    \A t \in Threads : pc[t] = "insert" => \E i \in 1..epoch : AnsweredAt(t, i)

-----------------------------------------------------------------------------
(* What a step does to sorted_ and to the calls.                           *)

LEMMA SortedChange ==
    ASSUME IInv, Next, NEW e \in DOMAIN sorted'
    PROVE  \/ e \in DOMAIN sorted /\ sorted'[e] = sorted[e]
           \/ \E t \in Threads : /\ LocateInsert(t)
                                 /\ e = frame[t].region.end_key
                                 /\ sorted'[e] = frame[t].region
<1>1. ASSUME NEW t \in Threads, LocateInsert(t)
      PROVE  \/ e \in DOMAIN sorted /\ sorted'[e] = sorted[e]
             \/ e = frame[t].region.end_key /\ sorted'[e] = frame[t].region
    <2>1. sorted' = Put(sorted, frame[t].region.end_key, frame[t].region)
        BY <1>1 DEF LocateInsert, InsertRegion
    <2> QED
        BY <2>1 DEF Put
<1>2. ASSUME NEW v \in ServedVer, DropFromCache(v)
      PROVE  e \in DOMAIN sorted /\ sorted'[e] = sorted[e]
    BY <1>2, RestrictDef DEF DropFromCache
<1>3. CASE UNCHANGED maps \/ Relabels
    BY <1>3 DEF maps, Relabels
<1> QED
    BY <1>1, <1>2, <1>3, MapsChange

\* A call that waits to insert has just been answered, or waited before; then
\* whatever another call inserts in this step is added to its history.
LEMMA WaitingChange ==
    ASSUME IInv, Next, NEW u \in Threads, pc'[u] = "insert"
    PROVE  \/ LoadRegion(u)
           \/ /\ pc[u] = "insert" /\ frame'[u] = frame[u] /\ overlap[u] \subseteq overlap'[u]
              /\ \A t \in Threads : LocateInsert(t) => frame[t].region.ver_id \in overlap'[u]
              /\ epoch' \in {epoch, epoch + 1} /\ epoch' \in DOMAIN PDTable
<1> DEFINE Waited ==
        /\ pc[u] = "insert" /\ frame'[u] = frame[u] /\ overlap[u] \subseteq overlap'[u]
        /\ \A t \in Threads : LocateInsert(t) => frame[t].region.ver_id \in overlap'[u]
        /\ epoch' \in {epoch, epoch + 1} /\ epoch' \in DOMAIN PDTable
<1> USE IInvParts DEF Calls, CallTypes
<1>1. ASSUME NEW t \in Threads, NEW x, Return(t, x)
      PROVE  /\ t # u /\ pc[u] = "insert" /\ frame'[u] = frame[u]
             /\ pc'[t] = "idle" /\ \A s \in Threads \ {t} : pc'[s] = pc[s]
    BY <1>1 DEF Return
<1>2. ASSUME NEW t \in Threads, LocateInsert(t) PROVE Waited
    <2>1. t # u /\ pc[u] = "insert" /\ frame'[u] = frame[u] /\ pc[t] = "insert"
        BY <1>1, <1>2 DEF LocateInsert
    <2>2. overlap'[u] = overlap[u] \cup {frame[t].region.ver_id}
        BY <1>2, <2>1 DEF LocateInsert
    <2>3. ASSUME NEW s \in Threads, LocateInsert(s), s # t PROVE FALSE
        <3>1. pc'[s] = "idle"
            BY <2>3 DEF LocateInsert, Return
        <3>2. pc[s] = "insert" /\ pc'[s] = pc[s]
            BY <1>2, <2>3 DEF LocateInsert, Return
        <3> QED
            BY <3>1, <3>2
    <2>4. epoch' = epoch
        BY <1>2 DEF LocateInsert
    <2> QED
        BY <2>1, <2>2, <2>3, <2>4
<1>3. ASSUME pc[u] = "insert", frame'[u] = frame[u], overlap' = overlap,
             epoch' \in {epoch, epoch + 1}, epoch' \in DOMAIN PDTable,
             ~\E t \in Threads : LocateInsert(t)
      PROVE  Waited
    BY <1>3
<1>4. CASE ~\E t \in Threads : LocateInsert(t)
    <2>1. ASSUME NEW t \in Threads, LocateKey(t), ~LoadRegion(u) PROVE Waited
        <3>1. CASE LoadFails(t) \/ \E key \in Key : LocateHit(t, key)
            BY <1>1, <1>3, <1>4, <3>1 DEF LoadFails, LocateHit
        <3>2. CASE LoadRegion(t) \/ \E key \in Key : LocateMiss(t, key)
            <4>1. /\ pc[u] = "insert" /\ frame'[u] = frame[u]
                  /\ overlap' = overlap /\ epoch' = epoch
                BY <2>1, <3>2 DEF LoadRegion, LocateMiss
            <4> QED
                BY <1>3, <1>4, <4>1
        <3> QED
            BY <1>4, <2>1, <3>1, <3>2 DEF LocateKey
    <2>2. ASSUME NEW t \in Threads, GetRpcContext(t) PROVE Waited
        <3>1. ASSUME NEW v \in ServedVer, RpcContextRead(t, v) PROVE Waited
            <4>1. /\ pc[u] = "insert" /\ frame'[u] = frame[u]
                  /\ overlap' = overlap /\ epoch' = epoch
                BY <3>1 DEF RpcContextRead
            <4> QED
                BY <1>3, <1>4, <4>1
        <3>2. CASE \/ RpcContextReady(t) \/ RpcContextNoStore(t) \/ RpcContextNoAddr(t)
                   \/ \E v \in ServedVer : RpcContextStale(t, v)
            BY <1>1, <1>3, <1>4, <3>2
            DEF RpcContextReady, RpcContextNoStore, RpcContextNoAddr, RpcContextStale
        <3> QED
            BY <2>2, <3>1, <3>2 DEF GetRpcContext
    <2>3. ASSUME NEW t \in Threads, NEW v \in ServedVer, DropRegion(t, v) PROVE Waited
        BY <1>1, <1>3, <1>4, <2>3 DEF DropRegion
    <2>4. ASSUME NEW t \in Threads, NEW v \in ServedVer, NEW s \in StoreId,
                 UpdateRegionLeader(t, v, s)
          PROVE  Waited
        BY <1>1, <1>3, <1>4, <2>4 DEF UpdateRegionLeader
    <2>5. CASE ClockAdvances \/ ClockSetBack \/ Taken
        BY <1>3, <1>4, <2>5 DEF ClockAdvances, ClockSetBack, Taken, calls
    <2>6. CASE PDChange
        <3>1. epoch' = epoch + 1 /\ epoch' \in DOMAIN PDTable
            BY <2>6, TableAssumption DEF PDChange
        <3> QED
            BY <1>3, <1>4, <2>6, <3>1 DEF PDChange, calls
    <2> QED
        BY <2>1, <2>2, <2>3, <2>4, <2>5, <2>6 DEF Next
<1> QED
    BY <1>2, <1>4

-----------------------------------------------------------------------------
(* The invariant.                                                          *)

\* A region in sorted_ was served, under its version and with its end key.
LEMMA SortedServed ==
    ASSUME IInv, NEW e \in DOMAIN sorted
    PROVE  \E i \in 1..epoch : \E p \in PDTable[i] :
               p.ver_id = sorted[e].ver_id /\ p.end_key = e
<1> USE IInvParts
<1> DEFINE v == sorted[e].ver_id
<1>1. v \in DOMAIN cached /\ cached[v].region.end_key = e /\ cached[v].region.ver_id = v
    BY DEF Maps, CacheCoherent
<1>2. PICK p \in Served : p.ver_id = v /\ p.end_key = e
    BY <1>1 DEF Maps, CachedServed, ServedAs
<1> QED
    BY <1>2 DEF Served

LEMMA InitAnswered == Init => Answered
BY DEF Init, Answered

LEMMA NextAnswered == IInv /\ Answered /\ [Next]_vars => Answered'
<1> SUFFICES ASSUME IInv, Answered, Next, NEW u \in Threads, pc'[u] = "insert"
             PROVE  \E i \in 1..epoch' : AnsweredAt(u, i)'
    <2>1. UNCHANGED vars => (Answered => Answered')
        BY DEF vars, Answered, AnsweredAt, VersAt
    <2> QED
        BY <2>1 DEF Answered
<1> USE IInvParts
<1>1. epoch \in Nat /\ epoch >= 1
    BY ServedFacts
<1>2. CASE LoadRegion(u)
    <2>1. PICK p \in PDTable[epoch] : frame' = [frame EXCEPT ![u].region = LoadedRegion(p)]
        BY <1>2 DEF LoadRegion, PDAnswers
    <2>2. frame'[u].region = LoadedRegion(p)
        BY <2>1 DEF Calls, CallTypes, Frame
    <2>3. frame'[u].region.ver_id \in VersAt(epoch)
        <3>1. p \in Region
            BY ServedFacts
        <3> QED
            BY <2>2, <3>1, LoadedRegionKeeps DEF VersAt
    <2>4. \A e \in DOMAIN sorted : \E j \in 1..epoch : sorted[e].ver_id \in VersAt(j)
        BY SortedServed DEF VersAt
    <2>5. UNCHANGED <<sorted, epoch>>
        BY <1>2 DEF LoadRegion, maps
    <2>6. AnsweredAt(u, epoch)'
        BY <2>3, <2>4, <2>5 DEF AnsweredAt, VersAt
    <2> QED
        BY <1>1, <2>5, <2>6
<1>3. CASE ~LoadRegion(u)
    <2>1. /\ pc[u] = "insert" /\ frame'[u] = frame[u] /\ overlap[u] \subseteq overlap'[u]
          /\ \A t \in Threads : LocateInsert(t) => frame[t].region.ver_id \in overlap'[u]
          /\ epoch' \in {epoch, epoch + 1}
        BY <1>3, WaitingChange
    <2>2. PICK i \in 1..epoch : AnsweredAt(u, i)
        BY <2>1 DEF Answered
    <2>3. ASSUME NEW e \in DOMAIN sorted', sorted'[e].ver_id \notin overlap'[u]
          PROVE  \E j \in 1..i : sorted'[e].ver_id \in VersAt(j)
        <3>1. e \in DOMAIN sorted /\ sorted'[e] = sorted[e]
            BY <2>1, <2>3, SortedChange
        <3> QED
            BY <2>1, <2>2, <2>3, <3>1 DEF AnsweredAt
    <2>4. AnsweredAt(u, i)'
        BY <2>1, <2>2, <2>3 DEF AnsweredAt, VersAt
    <2>5. i \in 1..epoch'
        BY <1>1, <2>1
    <2> QED
        BY <2>4, <2>5
<1> QED
    BY <1>2, <1>3

-----------------------------------------------------------------------------
(* The theorem.                                                            *)

\* An insertion that replaces a region PD has now by one PD no longer has was
\* overtaken by the insertion of the first.
LEMMA ReplacesOnlyOvertaken ==
    ASSUME IInv, Answered, NEW t \in Threads, pc[t] = "insert",
           NEW e \in DOMAIN sorted, e = frame[t].region.end_key,
           sorted[e].ver_id \in CurrentVer, frame[t].region.ver_id \notin CurrentVer
    PROVE  sorted[e].ver_id \in overlap[t]
<1> USE IInvParts
<1> DEFINE v == sorted[e].ver_id
           w == frame[t].region.ver_id
<1>1. SUFFICES ASSUME v \notin overlap[t] PROVE FALSE
    OBVIOUS
<1>2. PICK i \in 1..epoch : AnsweredAt(t, i)
    BY DEF Answered
<1>3. PICK j \in 1..i : v \in VersAt(j)
    BY <1>1, <1>2 DEF AnsweredAt
<1>4. /\ epoch \in Nat /\ i \in Nat /\ j \in Nat /\ j <= i /\ i <= epoch
      /\ j \in 1..epoch
    BY <1>2, <1>3, ServedFacts
<1>5. i \in DOMAIN PDTable /\ j \in DOMAIN PDTable /\ epoch \in DOMAIN PDTable
    BY <1>4, ServedFacts
<1>6. PICK r \in PDTable[i] : r.ver_id = v
    <2>1. PICK p \in PDTable[j] : p.ver_id = v
        BY <1>3 DEF VersAt
    <2>2. PICK c \in PDTable[epoch] : c.ver_id = v
        BY DEF CurrentVer
    <2> QED
        BY <1>4, <1>5, <2>1, <2>2, OrderAssumption DEF NeverReturns
<1>7. PICK q \in PDTable[i] : q.ver_id = w
    BY <1>2 DEF AnsweredAt, VersAt
<1>8. r \in Served /\ q \in Served
    BY <1>6, <1>7 DEF Served
<1>9. r.end_key = e
    <2>1. PICK o \in Served : o.ver_id = v /\ o.end_key = e
        BY SortedServed DEF Served
    <2> QED
        BY <1>6, <1>8, <2>1, OneRange
<1>10. q.end_key = e
    <2>1. PICK o \in Served : o.ver_id = w /\ o.end_key = e
        BY DEF Calls, FramesServed, ServedAs
    <2> QED
        BY <1>7, <1>8, <2>1, OneRange
<1>11. v = w
    BY <1>5, <1>6, <1>7, <1>9, <1>10, OrderAssumption DEF DistinctEnds
<1> QED
    BY <1>11

\* The current region gives way to an old one only when the answer of one
\* call was overtaken by the insertion of another.
THEOREM StaleOverwritesRaced == Spec => StaleOverwriteNeedsRace
<1> DEFINE Raced ==
        \A e \in DOMAIN sorted \cap DOMAIN sorted' :
            (sorted[e].ver_id \in CurrentVer /\ sorted'[e].ver_id \notin CurrentVer)
                => \E t \in Threads : /\ pc[t] = "insert" /\ pc'[t] = "idle"
                                     /\ sorted[e].ver_id \in overlap[t]
<1>1. IInv /\ Answered /\ [Next]_vars => [Raced]_vars
    <2> SUFFICES ASSUME IInv, Answered, Next,
                        NEW e \in DOMAIN sorted \cap DOMAIN sorted',
                        sorted[e].ver_id \in CurrentVer, sorted'[e].ver_id \notin CurrentVer
                 PROVE  \E t \in Threads : /\ pc[t] = "insert" /\ pc'[t] = "idle"
                                           /\ sorted[e].ver_id \in overlap[t]
        OBVIOUS
    <2>1. PICK t \in Threads : /\ LocateInsert(t)
                               /\ e = frame[t].region.end_key
                               /\ sorted'[e] = frame[t].region
        BY SortedChange
    <2>2. pc[t] = "insert" /\ pc'[t] = "idle"
        BY <2>1, IInvParts DEF LocateInsert, Return, Calls, CallTypes
    <2>3. sorted[e].ver_id \in overlap[t]
        BY <2>1, <2>2, ReplacesOnlyOvertaken
    <2> QED
        BY <2>2, <2>3
<1>2. Spec => []Answered
    <2>1. Init => Answered
        BY InitAnswered
    <2>2. IInv /\ Answered /\ [Next]_vars => Answered'
        BY NextAnswered
    <2> QED
        BY <2>1, <2>2, Invariance, PTL DEF Spec
<1> QED
    BY <1>1, <1>2, Invariance, PTL DEF Spec, StaleOverwriteNeedsRace

-----------------------------------------------------------------------------
(* What is located is found.                                               *)

\* A region in sorted_ was asked for, so it holds some key.
Inhabited == \A e \in DOMAIN sorted : \E k \in Key : Contains(sorted[e], k)

LEMMA NextInhabited == IInv /\ Inhabited /\ [Next]_vars => Inhabited'
<1> SUFFICES ASSUME IInv, Inhabited, Next, NEW e \in DOMAIN sorted'
             PROVE  \E k \in Key : Contains(sorted'[e], k)
    BY DEF vars, Inhabited
<1>1. CASE e \in DOMAIN sorted /\ sorted'[e] = sorted[e]
    BY <1>1 DEF Inhabited
<1>2. ASSUME NEW t \in Threads, LocateInsert(t), sorted'[e] = frame[t].region
      PROVE  Contains(sorted'[e], frame[t].key) /\ frame[t].key \in Key
    BY <1>2, IInvParts DEF LocateInsert, Calls, CallTypes, FramesServed, Frame
<1> QED
    BY <1>1, <1>2, SortedChange

\* If regions only split, no older region ends between the key and the end of
\* a newer region that holds it: the two share a key, so the newer one would
\* lie within the older, and yet hold the key at which the older one ends.
LEMMA NoEndBetween ==
    ASSUME IInv, OnlySplits(Past), NEW i \in 1..epoch, NEW j \in 1..epoch, j <= i,
           NEW p \in PDTable[j], NEW q \in PDTable[i], NEW key \in Key, NEW k \in Key,
           Contains(p, k), Contains(q, key), q.end_key # EmptyKey, p.end_key > key
    PROVE  q.end_key <= p.end_key
<1>1. p \in Region /\ q \in Region
    BY IInvParts, ServedFacts
<1>2. /\ p.start_key \in Key /\ p.end_key \in Key /\ q.start_key \in Key /\ q.end_key \in Key
      /\ EmptyKey = 0
    BY <1>1 DEF Region, EmptyKey
<1> /\ p.start_key \in Nat /\ p.end_key \in Nat /\ q.start_key \in Nat /\ q.end_key \in Nat
    /\ key \in Nat /\ k \in Nat
    BY <1>2, KeyAssumption
<1>3. SUFFICES ASSUME p.end_key < q.end_key PROVE FALSE
    BY <1>2
<1>4. \E c \in Key : Contains(p, c) /\ Contains(q, c)
    <2>1. CASE q.start_key <= k
        BY <1>2, <1>3, <2>1 DEF Contains
    <2>2. CASE k < q.start_key
        <3>1. Contains(p, q.start_key) /\ Contains(q, q.start_key)
            BY <1>2, <2>2 DEF Contains
        <3> QED
            BY <1>2, <3>1
    <2> QED
        BY <2>1, <2>2
<1>5. Contains(q, p.end_key)
    BY <1>2, <1>3 DEF Contains
<1>6. Contains(p, p.end_key)
    <2>1. j \in DOMAIN Past /\ i \in DOMAIN Past /\ p \in Past[j] /\ q \in Past[i]
        BY DEF Past
    <2>2. \A c \in Key : Contains(q, c) => Contains(p, c)
        BY <1>4, <2>1 DEF OnlySplits
    <2> QED
        BY <1>2, <1>5, <2>2
<1> QED
    BY <1>2, <1>6 DEF Contains

\* An answer that nobody overtook is found once it is inserted.
LEMMA InsertedIsFound ==
    ASSUME IInv, Answered, Inhabited, OnlySplits(Past), TTL > 0,
           NEW t \in Threads, LocateInsert(t), overlap[t] = {},
           NEW key, key = frame[t].key, NEW r, r = frame[t].region, r.end_key # EmptyKey
    PROVE  Finds(key, r.ver_id)'
<1> DEFINE end == r.end_key
<1> USE IInvParts
<1>1. /\ pc[t] = "insert" /\ ServedAs(r) /\ Contains(r, key)
      /\ r \in Region /\ key \in Key /\ end \in Key
      /\ key \in Nat /\ end \in Nat /\ now \in Nat
    BY KeyAssumption DEF LocateInsert, Calls, CallTypes, FramesServed, Frame, Region
<1>2. end > key
    BY <1>1 DEF Contains
<1>3. /\ DOMAIN sorted' = DOMAIN sorted \cup {end}
      /\ sorted'[end] = r
      /\ \A f \in DOMAIN sorted \ {end} : sorted'[f] = sorted[f]
    <2>1. sorted' = Put(sorted, end, r)
        BY DEF LocateInsert, InsertRegion
    <2> QED
        BY <2>1 DEF Put
<1>4. PICK i \in 1..epoch : AnsweredAt(t, i)
    BY <1>1 DEF Answered
<1>5. ASSUME NEW f \in DOMAIN sorted, f > key PROVE end <= f
    <2>1. PICK j \in 1..i : sorted[f].ver_id \in VersAt(j)
        BY <1>4 DEF AnsweredAt
    <2>2. PICK p \in PDTable[j] : p.ver_id = sorted[f].ver_id
        BY <2>1 DEF VersAt
    <2>3. PICK q \in PDTable[i] : q.ver_id = r.ver_id
        BY <1>4 DEF AnsweredAt, VersAt
    <2>4. /\ j <= i /\ j \in 1..epoch
          /\ p \in Served /\ q \in Served
        BY <2>1, ServedFacts DEF Served
    <2>5. q.start_key = r.start_key /\ q.end_key = end
        <3>1. PICK o \in Served : /\ o.ver_id = r.ver_id /\ o.end_key = end
                                  /\ o.start_key = r.start_key
            BY <1>1 DEF ServedAs
        <3> QED
            BY <2>3, <2>4, <3>1, OneRange
    <2>6. p.start_key = sorted[f].start_key /\ p.end_key = f /\ sorted[f].end_key = f
        <3> DEFINE c == cached[sorted[f].ver_id].region
        <3>1. /\ sorted[f].end_key = f /\ c.end_key = f
              /\ c.start_key = sorted[f].start_key
              /\ c.ver_id = sorted[f].ver_id /\ sorted[f].ver_id \in DOMAIN cached
            BY DEF Maps, CacheCoherent
        <3>2. PICK o \in Served : /\ o.ver_id = c.ver_id /\ o.end_key = c.end_key
                                  /\ o.start_key = c.start_key
            BY <3>1 DEF Maps, CachedServed, ServedAs
        <3> HIDE DEF c
        <3> QED
            BY <2>2, <2>4, <3>1, <3>2, OneRange
    <2>7. PICK k \in Key : Contains(p, k)
        BY <2>6 DEF Inhabited, Contains
    <2>8. Contains(q, key)
        BY <1>1, <2>5 DEF Contains
    <2> QED
        BY <1>1, <1>5, <2>4, <2>5, <2>6, <2>7, <2>8, NoEndBetween
<1>6. end \in UpperBound(key)'
    BY <1>1, <1>2, <1>3, <1>5 DEF UpperBound
<1>7. Live(r.ver_id)'
    <2> DEFINE entry == [region |-> r, last_access |-> now]
               replaced == {sorted[e].ver_id : e \in {end} \cap DOMAIN sorted}
               kept == Restrict(cached, DOMAIN cached \ replaced)
    <2>1. cached' = Put(kept, r.ver_id, entry) /\ now' = now
        BY DEF LocateInsert, InsertRegion
    <2>2. entry.last_access = now
        OBVIOUS
    <2> HIDE DEF entry, kept
    <2>3. r.ver_id \in DOMAIN cached' /\ cached'[r.ver_id] = entry
        BY <2>1 DEF Put
    <2>4. (now - now) % U64 = 0
        BY <1>1, NumberAssumption
    <2>5. cached'[r.ver_id].last_access = now
        BY <2>2, <2>3
    <2> QED
        BY <2>1, <2>3, <2>4, <2>5, NumberAssumption DEF Live, IsValid
<1> QED
    BY <1>1, <1>3, <1>6, <1>7 DEF Finds

\* What locate_key returns, the next locate_key for that key finds, as long as
\* regions have only split and unless another thread's insertion overtook the
\* answer: for any number of threads.
THEOREM LocatedIsFound == Spec => LocateThenHit
<1> DEFINE Found ==
        (/\ ret'.op = "locate_key" /\ ret'.loc.end_key # EmptyKey
         /\ \A t \in Threads : (pc[t] = "insert" /\ pc'[t] = "idle") => overlap[t] = {}
         /\ OnlySplits(Past) /\ TTL > 0)
            => (\E v \in DOMAIN cached : Finds(ret.key, v))'
<1>1. IInv /\ Answered /\ Inhabited /\ [Next]_vars => [Found]_vars
    <2> SUFFICES ASSUME IInv, Answered, Inhabited, Next PROVE Found
        OBVIOUS
    <2>1. ASSUME NEW t \in Threads, LocateInsert(t) PROVE Found
        <3>1. PICK key, r : key = frame[t].key /\ r = frame[t].region
            OBVIOUS
        <3>2. ret' = Located(key, r, FALSE)
            BY <2>1, <3>1 DEF LocateInsert, Return
        <3>3. ret'.key = key /\ ret'.loc.end_key = r.end_key
            BY <3>2 DEF Located, LocOf
        <3>4. pc[t] = "insert" /\ pc'[t] = "idle"
            BY <2>1, IInvParts DEF LocateInsert, Return, Calls, CallTypes
        <3>5. (overlap[t] = {} /\ OnlySplits(Past) /\ TTL > 0 /\ r.end_key # EmptyKey)
                  => Finds(key, r.ver_id)'
            BY <2>1, <3>1, InsertedIsFound
        <3>6. Finds(key, r.ver_id)' => r.ver_id \in DOMAIN cached'
            BY DEF Finds, Live
        <3> QED
            BY <3>3, <3>4, <3>5, <3>6
    <2>2. ASSUME NEW t \in Threads, NEW key \in Key, LocateHit(t, key), UNCHANGED maps
          PROVE  Found
        <3>1. PICK v \in DOMAIN cached :
                  Finds(key, v) /\ ret' = Located(key, cached[v].region, TRUE)
            BY <2>2 DEF LocateHit, Return
        <3>2. ret'.key = key /\ now' = now /\ sorted' = sorted /\ cached' = cached
            BY <2>2, <3>1 DEF Located, LocateHit, maps
        <3>3. v \in DOMAIN cached' /\ Finds(key, v)'
            BY <3>1, <3>2 DEF Finds, UpperBound, Live, IsValid
        <3> QED
            BY <3>2, <3>3
    <2>3. CASE ret'.op # "locate_key"
        BY <2>3
    <2> QED
        BY <2>1, <2>2, <2>3, MapsChange
<1>2. Spec => [](Answered /\ Inhabited)
    <2>1. Init => Answered /\ Inhabited
        BY InitAnswered DEF Init, Inhabited
    <2>2. IInv /\ (Answered /\ Inhabited) /\ [Next]_vars => (Answered /\ Inhabited)'
        BY NextAnswered, NextInhabited
    <2> QED
        BY <2>1, <2>2, Invariance, PTL DEF Spec
<1> QED
    BY <1>1, <1>2, Invariance, PTL DEF Spec, LocateThenHit

=============================================================================
