------------------------ MODULE RegionDirectoryProofs ------------------------
(***************************************************************************)
(* RegionCache implements RegionDirectory, for every number of threads,    *)
(* every set of keys and every script of PD.                               *)
(*                                                                         *)
(* The directory is cached_regions_, cut down to locations.  An insertion  *)
(* finds what it replaces by its end key in sorted_; that this is what the *)
(* directory replaces, and that a lookup through sorted_ ends at a         *)
(* location that holds the key, is the coherence of the two maps.          *)
(***************************************************************************)
EXTENDS RegionCacheProofs

LEMMA LocOfRegion ==
    ASSUME NEW r
    PROVE  /\ LocOf(r).end_key = r.end_key
           /\ LocOf(r).region_ver_id = r.ver_id
           /\ \A key : Contains(r, key) => Directory!Contains(LocOf(r), key)
BY DEF LocOf, Contains, Directory!Contains, EmptyKey, Directory!EmptyKey

LEMMA LocatedAnswer ==
    ASSUME NEW key, NEW r, NEW hit, ret' = Located(key, r, hit)
    PROVE  Answer' = {[key |-> key, loc |-> LocOf(r)]}
BY DEF Located, Answer

LEMMA NoAnswer ==
    ASSUME ret'.op # "locate_key"
    PROVE  Answer' = {}
BY DEF Answer

LEMMA KnownGrows ==
    ASSUME epoch \in DOMAIN PDTable, epoch' \in {epoch, epoch + 1}
    PROVE  KnownLocs \subseteq KnownLocs'
BY ServedGrows DEF KnownLocs

LEMMA HitIsHit ==
    ASSUME IInv, NEW t \in Threads, NEW key \in Key, LocateHit(t, key), UNCHANGED maps
    PROVE  Directory!Hit(key)
<1> USE IInvParts
<1>1. PICK v \in DOMAIN cached :
          Finds(key, v) /\ ret' = Located(key, cached[v].region, TRUE)
    BY DEF LocateHit, Return
<1> DEFINE loc == LocOf(cached[v].region)
<1>2. loc \in CachedLocs
    BY DEF CachedLocs
<1>3. Directory!Contains(loc, key)
    BY <1>1, FoundContains, LocOfRegion
<1>4. Answer' = {[key |-> key, loc |-> loc]}
    BY <1>1, LocatedAnswer
<1>5. UNCHANGED <<KnownLocs, CachedLocs>>
    BY DEF LocateHit, maps, KnownLocs, CachedLocs, Served
<1> HIDE DEF loc
<1> QED
    BY <1>2, <1>3, <1>4, <1>5 DEF Directory!Hit

LEMMA InsertIsLearn ==
    ASSUME IInv, NEW t \in Threads, LocateInsert(t)
    PROVE  Directory!Learn(frame[t].key)
<1> USE IInvParts
<1> DEFINE r == frame[t].region
           key == frame[t].key
           replaced == {sorted[e].ver_id : e \in {r.end_key} \cap DOMAIN sorted}
           kept == Restrict(cached, DOMAIN cached \ replaced)
           entry == [region |-> r, last_access |-> now]
<1>1. /\ pc[t] = "insert" /\ cached' = Put(kept, r.ver_id, entry)
      /\ ret' = Located(key, r, FALSE) /\ UNCHANGED epoch
    BY DEF LocateInsert, InsertRegion, Return
<1>2. /\ r \in Region /\ ServedAs(r) /\ Contains(r, key)
    BY <1>1 DEF Calls, CallTypes, FramesServed, Frame
<1>3. PICK p \in Served : /\ p.ver_id = r.ver_id
                          /\ p.start_key = r.start_key /\ p.end_key = r.end_key
    BY <1>2 DEF ServedAs
<1>4. LocOf(r) \in KnownLocs
    BY <1>3 DEF KnownLocs, LocOf
<1>5. /\ DOMAIN kept = DOMAIN cached \ replaced
      /\ \A v \in DOMAIN kept : kept[v] = cached[v]
    BY RestrictDef
<1>6. entry.region = r
    OBVIOUS
<1>7. \A v \in DOMAIN cached : v \in replaced <=> cached[v].region.end_key = r.end_key
    BY DEF Maps, CacheCoherent
<1>8. \A v \in DOMAIN cached : v = r.ver_id => cached[v].region.end_key = r.end_key
    <2> SUFFICES ASSUME r.ver_id \in DOMAIN cached
                 PROVE  cached[r.ver_id].region.end_key = r.end_key
        OBVIOUS
    <2>1. PICK q \in Served : /\ q.ver_id = cached[r.ver_id].region.ver_id
                              /\ q.end_key = cached[r.ver_id].region.end_key
        BY DEF Maps, CachedServed, ServedAs
    <2>2. cached[r.ver_id].region.ver_id = r.ver_id
        BY DEF Maps, CacheCoherent
    <2> QED
        BY <1>3, <2>1, <2>2, OneRange
<1> HIDE DEF kept, entry, replaced
<1>9. /\ DOMAIN cached' = (DOMAIN cached \ replaced) \cup {r.ver_id}
      /\ cached'[r.ver_id] = entry
      /\ \A v \in DOMAIN cached \ (replaced \cup {r.ver_id}) : cached'[v] = cached[v]
    BY <1>1, <1>5 DEF Put
<1>10. CachedLocs' = {l \in CachedLocs : l.end_key # LocOf(r).end_key} \cup {LocOf(r)}
    <2> DEFINE rest == {l \in CachedLocs : l.end_key # LocOf(r).end_key}
    <2>1. CachedLocs' = {LocOf(cached'[v].region) : v \in DOMAIN cached'}
        BY DEF CachedLocs
    <2>2. ASSUME NEW l \in CachedLocs' PROVE l \in rest \cup {LocOf(r)}
        <3>1. PICK v \in DOMAIN cached' : l = LocOf(cached'[v].region)
            BY <2>1, <2>2
        <3>2. CASE v = r.ver_id
            BY <1>6, <1>9, <3>1, <3>2
        <3>3. CASE v # r.ver_id
            <4>1. v \in DOMAIN cached /\ v \notin replaced /\ cached'[v] = cached[v]
                BY <1>9, <3>3
            <4>2. l = LocOf(cached[v].region) /\ l.end_key # LocOf(r).end_key
                BY <1>7, <3>1, <4>1, LocOfRegion
            <4> QED
                BY <4>1, <4>2 DEF CachedLocs
        <3> QED
            BY <3>2, <3>3
    <2>3. ASSUME NEW l \in rest PROVE l \in CachedLocs'
        <3>1. PICK v \in DOMAIN cached : l = LocOf(cached[v].region)
            BY <2>3 DEF CachedLocs
        <3>2. v \notin replaced /\ v # r.ver_id
            BY <1>7, <1>8, <2>3, <3>1, LocOfRegion
        <3>3. v \in DOMAIN cached' /\ cached'[v] = cached[v]
            BY <1>9, <3>2
        <3> QED
            BY <2>1, <3>1, <3>3
    <2>4. LocOf(r) \in CachedLocs'
        BY <1>6, <1>9, <2>1
    <2> QED
        BY <2>2, <2>3, <2>4
<1>11. Directory!Contains(LocOf(r), key)
    BY <1>2, LocOfRegion
<1>12. Answer' = {[key |-> key, loc |-> LocOf(r)]}
    BY <1>1, LocatedAnswer
<1>13. UNCHANGED KnownLocs
    BY <1>1 DEF KnownLocs, Served
<1> QED
    BY <1>4, <1>10, <1>11, <1>12, <1>13 DEF Directory!Learn

LEMMA DropIsForget ==
    ASSUME IInv, NEW v \in ServedVer, DropFromCache(v), ret'.op # "locate_key",
           UNCHANGED epoch
    PROVE  Directory!Forget(v)
<1> USE IInvParts
<1>1. /\ DOMAIN cached' = DOMAIN cached \ {v}
      /\ \A w \in DOMAIN cached' : cached'[w] = cached[w]
    BY RestrictDef DEF DropFromCache
<1>2. \A w \in DOMAIN cached : LocOf(cached[w].region).region_ver_id = w
    BY LocOfRegion DEF Maps, CacheCoherent
<1>3. CachedLocs' = {l \in CachedLocs : l.region_ver_id # v}
    <2>1. CachedLocs' = {LocOf(cached'[w].region) : w \in DOMAIN cached'}
        BY DEF CachedLocs
    <2>2. CachedLocs' = {LocOf(cached[w].region) : w \in DOMAIN cached \ {v}}
        BY <1>1, <2>1
    <2> QED
        BY <1>2, <2>2 DEF CachedLocs
<1>4. UNCHANGED KnownLocs /\ Answer' = {}
    BY NoAnswer DEF KnownLocs, Served
<1> QED
    BY <1>3, <1>4 DEF Directory!Forget

LEMMA RelabelIsOther ==
    ASSUME IInv, Relabels, ret'.op # "locate_key",
           epoch' \in {epoch, epoch + 1}
    PROVE  Directory!Other
<1> USE IInvParts
<1>1. UNCHANGED CachedLocs
    BY DEF Relabels, CachedLocs
<1> QED
    BY <1>1, KnownGrows, NoAnswer DEF Directory!Other

\* The callers of the cache see one directory: every step of RegionCache is a
\* step of RegionDirectory or is not seen.
THEOREM ImplementsDirectory == Spec => IsDirectory
<1>1. Init => Directory!Init
    BY DEF Init, Directory!Init, CachedLocs, Answer, NoResult
<1>2. IInv /\ [Next]_vars => [Directory!Next]_Directory!vars
    <2> SUFFICES ASSUME IInv, [Next]_vars PROVE [Directory!Next]_Directory!vars
        OBVIOUS
    <2> USE IInvParts
    <2>1. ASSUME NEW t \in Threads, LocateInsert(t) PROVE Directory!Next
        <3>1. frame[t].key \in Key
            BY DEF Calls, CallTypes, Frame
        <3> QED
            BY <2>1, <3>1, InsertIsLearn DEF Directory!Next
    <2>2. ASSUME NEW v \in ServedVer, DropFromCache(v), ret'.op # "locate_key", UNCHANGED epoch
          PROVE  Directory!Next
        <3>1. v \in {l.region_ver_id : l \in KnownLocs}
            BY LocOfRegion DEF ServedVer, KnownLocs
        <3> QED
            BY <2>2, <3>1, DropIsForget DEF Directory!Next
    <2>3. ASSUME NEW t \in Threads, NEW key \in Key, LocateHit(t, key), UNCHANGED maps
          PROVE  Directory!Next
        BY <2>3, HitIsHit DEF Directory!Next
    <2>4. CASE Relabels /\ ret'.op # "locate_key" /\ epoch' \in {epoch, epoch + 1}
        BY <2>4, RelabelIsOther DEF Directory!Next
    <2>5. CASE UNCHANGED vars
        BY <2>5 DEF vars, Directory!vars, KnownLocs, CachedLocs, Answer, Served
    <2>6. CASE Next
        BY <2>1, <2>2, <2>3, <2>4, <2>6, MapsChange
    <2> QED
        BY <2>5, <2>6
<1> QED
    BY <1>1, <1>2, Invariance, PTL DEF Spec, IsDirectory, Directory!Spec

=============================================================================
