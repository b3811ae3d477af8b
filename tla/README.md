# A TLA+ model of the TiKV C++ client

`tikv-cpp` is a client library for TiKV. A key belongs to a *region* (a range
of keys with a version), a region to a group of *peers* on *stores*, one of
which leads it. PD, the placement driver, knows all three. The client asks PD
and keeps what it hears in a cache that its threads share. This directory
models that cache, its two halves together, the connection to PD and the mock
cluster of the tests, and checks and proves what makes them correct.

All paths below are relative to the repository. `file:line` refers to the
commit this directory was written against.

## 1. The system

| Component | State | Operations | Talks to |
|---|---|---|---|
| Region metadata (`include/meta.h`) | records `RegionVerID`, `Peer`, `Region`, `Store` | `operator<`, `contains`, `switch_leader`, `switch_leader_by_peer_id`, `split` | used by all |
| `RegionCache`, regions (`region_cache.{h,cc}`) | `sorted_` (B-tree, end key → region), `cached_regions_` (`RegionVerID` → region and access time), `region_lock_` | `locate_key`, `get_rpc_context`, `drop_region`, `update_region_leader`, `dump_cache` | PD through `PDClient`; the stores half |
| `RegionCache`, stores | `stores_` (store id → address), `store_lock_` | `get_store_addr`, `reload_store_addr` | PD through `PDClient` |
| `PDClient` (`pd_client.{h,cc}`) | `members_`, `leader_`, `leader_channel_`, `leader_stub_`, `cluster_id_`, `rwlock_` | `init`, `get_leader_stub`, `update_leader`, `get_region`, `get_region_by_id`, `get_store_by_id`, `get_all_stores` | PD servers by gRPC |
| utils (`utils.{h,cc}`) | one shared random generator | `strip_url`, `select_randomly`, `to_hex` | used by `PDClient` |
| Mock cluster (`test/mocktikv.{h,cc}`) | `regions_`, `stores_`, `id_` | `bootstrap`, `split`, `add_store`, `remove_store`, `get_store` | tests only |
| `Client` (`kv_client.{h,cc}`) | none | none: every method is commented out | — |
| Logging, `kvproto/`, `3rd_party/`, `test/3rd_party/` | — | generated or third-party | — |

### What is hard about it

* **Calls from several threads.** `region_lock_` protects each use of the two
  maps, but `locate_key` releases it between the miss and the insertion
  (`region_cache.cc:31-38`) and `get_rpc_context` between reading the region
  and dropping it (`:59-65`). Answers of PD can overtake one another.
* **Two maps, one set.** `insert_region_to_cache` and `drop_region_from_cache`
  change two maps by different keys (end key, version) and rely on them
  agreeing; `dump_cache` reads both with no lock and creates what it misses.
* **Overlap.** A region that splits stays in the cache under its old version
  beside its successors, and expired entries are never evicted; `sorted_` then
  holds overlapping ranges and `upper_bound` picks one of them.
* **Locks by hand.** `get_store_addr` locks and unlocks explicitly and calls
  `reload_store_addr` in between (`:89-97`).
* **One stub, no lock.** `PDClient::get_leader_stub` reads, resets and returns
  `leader_stub_` without `rwlock_` (`pd_client.cc:78-97`) and hands out a raw
  pointer; `members_` is iterated there without it too.
* **PD moves.** Regions split and merge, leaders and addresses change, PD's
  own leader changes, calls fail and are retried.
* **Representations.** The empty end key means "no bound" and sorts first;
  ages are unsigned differences; a 64-bit store id is cut to 16 bits.

### What makes each component correct

* Regions: the two maps agree, so that to callers they are one directory; an
  answer covers the key and is a region PD served; a context carries a peer of
  its region; newer regions win over older ones unless two lookups overlap; what
  was located is found again.
* Stores: a writer is alone with the map; every lock that is taken is given
  back, so calls return; an address does not go back to an older one.
* Both halves: the address in a context is of the store of the peer in it;
  nothing outdated in either half is there for good.
* `PDClient`: a call uses a stub that is alive and leads to the leader; the
  loop ends when a leader can be reached; the retry helps.
* Mock cluster: its regions partition the key space; a version is never
  reused for another range (which `RegionCache` assumes of PD).

## 2. The modules

| Module | Models | Builds on |
|---|---|---|
| `RegionMeta` | the records and pure operations of `meta.h`; what a history of regions is expected to keep to | — |
| `RegionMetaProofs` | lemmas about these | `RegionMeta` |
| `RegionDirectory` | abstract: what the regions half is to its callers | `RegionMeta` |
| `RegionCache` | the regions half of the cache, its properties, its refinement mapping | `RegionMeta`, instance of `RegionDirectory` |
| `RegionCacheDump` | `dump_cache` beside the calls of `RegionCache` | `RegionCache` |
| `RegionCacheProofs` | invariants of `RegionCache` | `RegionCache`, `RegionMetaProofs` |
| `RegionDirectoryProofs` | `RegionCache` implements `RegionDirectory` | `RegionCacheProofs` |
| `RegionOrderProofs` | what depends on the order of PD's answers | `RegionDirectoryProofs` |
| `StoreCache`, `StoreCacheProofs` | the stores half with its lock; theorems | — |
| `RegionCacheSystem` | class `RegionCache` as a whole | instances of `RegionCache` and `StoreCache` |
| `RegionCacheSystemProofs` | contexts; the theorems about the halves carried over to the whole | `RegionCacheSystem`, instances of `RegionOrderProofs` and `StoreCacheProofs` |
| `PDConnection` | abstract: what `leader_stub_` is to the threads that use it | — |
| `PDClient`, `PDClientProofs` | the connection to PD's leader and the four calls; its refinement mapping; theorems | instance of `PDConnection` |
| `Cluster`, `ClusterProofs` | the mock cluster; theorems | `RegionMeta`, `RegionMetaProofs` |
| `MC...` | scripts of PD and other constants for TLC | the module named |

### RegionMeta

Only the order of keys and the emptiness of the empty key matter, so a key is
a natural number and the empty key is 0. As in the code, 0 is below every
other key and an end key of 0 means "no bound". Peers are a set. `U16` is the
number of values of a `uint16_t`; it is 4 in the runs so that three stores
suffice to see the truncation of `update_region_leader`.

### RegionCache

| Variable | Code |
|---|---|
| `sorted`, `cached` | `sorted_`, `cached_regions_` |
| `now` | `::time(NULL)`; it may be set back |
| `pc`, `frame` | where each thread is in its call, its arguments and locals |
| `ret` | the result of the call that the last step finished |
| `epoch` | which of the scripts `PDTable[1], PDTable[2], ...` PD is in (external) |
| `overlap` | history: the versions inserted by others since PD answered a thread |

A critical section of `region_lock_` neither blocks nor calls out, so it is
one step. The actions split the two long calls where the code holds no lock:

* `locate_key`: `LocateHit`, or `LocateMiss` → `LoadRegion` / `LoadFails`
  (`load_region_from_pd` with `parse_get_region_result`) → `LocateInsert`.
* `get_rpc_context`: `RpcContextStale`, or `RpcContextRead` →
  `RpcContextReady` / `RpcContextNoStore` / `RpcContextNoAddr`. The address
  lookup between them is open: it may end in any of the three ways.
* `drop_region`, `update_region_leader`: one step each.
* `Taken` (external): the caller has taken the result and does something else;
  only `ret` changes. It is what a reload of an address is to this half.

What is assumed of PD: regions it ever serves under the same version have the
same range (`TableAssumption`). `RegionCache` leans on this and TiKV guarantees
it by raising the version with every change of range. For one property only,
`StaleOverwriteNeedsRace`, it is also assumed that no two regions of one moment
end at the same key and that a version that is gone does not come back
(`OrderAssumption`). `ClusterProofs` proves both assumptions of the mock
cluster.

### RegionCacheDump

`dump_cache` takes no lock, so it is not a step among the others but a reader
that runs between any two of them. `hand` is the version it has read from
`sorted_` (`DumpReads`) and not yet looked up; `DumpLooksUp` is
`cached_regions_[ver_id]`, which creates the entry that is not there. So that
it can also fall inside an insertion, `insert_region_to_cache` is two steps
here: `InsertErases`, after which what is replaced is gone from one map and not
from the other, and `InsertAssigns`; `inserting` is the thread between them,
which holds `region_lock_` (`LockFree`). A version that is read while it is
assigned may be any mixture of the two (`VersionsAt`). The order of the reads is
free, and a walk may begin and end anywhere, because changes of the B-tree
invalidate its iterators.

What the race may do to the trees themselves (a crash, a node that is never
linked in) is undefined and has no outcome to enumerate. It is left out, so the
module shows the least that a concurrent dump does. The clock starts at
`FirstTime`, a TTL after 1970, because a phantom is dated 0.

### RegionDirectory

The abstract specification has a set of locations `locs` and one step per call:
`Hit`, `Learn` (the new location takes the place of what ended at the same
key), `Forget`, and `Other`. `RegionCache` implements it (`IsDirectory`) with

| Abstract | Is |
|---|---|
| `known` | the locations of all regions PD has served so far |
| `locs` | the locations of the regions in `cached_regions_` |
| `answer` | the key and location that `locate_key` has just returned, if it has |

The mapping looks at one of the two maps. `LocateInsert` finds what it replaces
through the other one and lookups go through it too, so that the abstract
`Learn` and `Hit` are implemented at all *is* the coherence of the two. The
point at which a call takes effect is its last critical section.

### StoreCache

Here taking the lock, using the map and releasing the lock are steps of their
own, because the code pairs them by hand. `held[t]` counts the shared locks of
each thread, `writer` and `blocked` are the two flags of
`boost::shared_mutex` (external): a writer waits for all readers to leave and
bars new ones while it waits, and the lock does not notice that the reader it
waits for is the caller. A call of `get_store_addr` is `GetStoreAddr`,
`LockShared`, then `FindHit` (which unlocks) or `FindMiss` (which does not) and
on into `reload_store_addr`: `LoadStore` / `LoadStoreFails`, `WaitExclusive`,
`LockExclusive`, `StoreAddr`. `reload_store_addr` is public, so
`ReloadStoreAddr` also begins a call. `asOf` and `overtaken` are history.

### RegionCacheSystem

`R` and `S` are instances of `RegionCache` and `StoreCache` over one set of
threads and one PD, whose regions and stores change together (`PDMoves`).
`rpc`, `rframe` are the `pc` and `frame` of `R`; `spc`, `sframe` those of `S`;
`found[t]` is what the address lookup of `t` came to. The three ways out of the
lookup that `RegionCache` leaves open are decided here:

* `RpcContextAsks` is `R!RpcContextRead` and `S!GetStoreAddr` for the leader's
  store in one step (the call follows the copy with nothing between).
* `StoreStep` is a step of `S` inside the call; when it ends, `found` gets the
  address that was copied or loaded, or `NoAddr` if PD could not be asked.
* `RpcContextGoesOn` takes the branch of `get_rpc_context` that `found` says:
  ready, the empty address (the region is dropped), or failure.
* `RegionStep` and `Reload` are the other public calls. A direct call of
  `get_store_addr` is left to `StoreCache`, and `dump_cache` to
  `RegionCacheDump`.

Each action of the whole is made of an action of `R`, of `S` or of both, and
`Taken` of `R` is part of those in which only `S` has a result. That the whole
implements each half is therefore no property of the code; it is used in the
proofs, to carry the theorems about the halves over. A region for which PD names
no leader has the default peer as leader, and `get_rpc_context` then asks for
store 0; `EpochAssumption` lets a script have such regions if it says what PD
answers for that store.

The clock stands still: expiry is the subject of `cache_races` and `cache_dump`,
and an entry that expires without being dropped is just loaded again.

### PDClient

| Variable | Code |
|---|---|
| `members`, `leader`, `stub` | `members_`, `leader_`, `leader_stub_` (the server it is connected to) |
| `pc`, `frame` | where each thread is; its call, whether it is the retry and forces, the member picked, the answer received, its pointer to the stub |
| `epoch` | which view of `MemberTable` PD is in (external) |
| `undefined` | the first undefined behaviour of the run, if any |
| `contacted`, `failed`, `steady` | history: the constructor reached PD; some RPC failed; PD has not changed since a thread's retry began |

`Construct` is the constructor with `init`, whose result it ignores. A call is
`Call`, `CheckStub`, perhaps `ResetStub` and the loop `PickMember` → `PickUrl`
→ `AskMembers` / `AskMembersFails` → `ApplyMembers` → `LoopOrLeave`, then
`GetStub` and the RPC: `RpcOk`, `RpcRetries` (back to `CheckStub`, with `force`
as `Forces` says of the call) or `RpcFails`. A request may fail at any time, also
one that goes to the leader while it can be reached: it is lost, or refused for a
reason of its own. Each unlocked access to
`leader_stub_` or `members_` is a step of its own; `UpdateLeader` is one step,
being under `rwlock_`. Members decode as in `get_pd_members_inner`: an answer
without a leader adds member 0 (`NoServer`), which has no URL and is marked as
leader.

`cluster_id_` is left out. Every answer of PD carries it, it never changes, and no
thread comes out of `get_leader_stub` with a stub before an answer has been
worked off, so `assert(cluster_id_ > 0)` holds wherever there is a stub to use:
where it would not (a constructor that did not reach PD), the call has picked a
member from an empty map before.

The code has undefined behaviour in four places, and the model goes there and
stops: picking from an empty map or URL list (`PickFromNothing`, and
`UpdateLeader` for member 0), using an iterator into a replaced `members_`
(`PickFromReplaced`), and an RPC through a null or dangling stub
(`RpcOnDeadStub`). An RPC that is under way when its stub is destroyed, and a
torn read of an unlocked field, are abstracted to these.

### PDConnection

The abstract specification of `leader_stub_`: `Connect` makes a connection to a
leader PD has named, only where there is none; `Drop` lets go of it, and whoever
uses it keeps a pointer to what is gone; a thread may `Take` it or `GiveUp` using
it; PD may `Name` more leaders.
`PDClient` implements it (`IsConnection`) with

| Abstract | Is |
|---|---|
| `named` | the leaders PD has named in its views so far |
| `conn` | `stub` |
| `use` | for each thread, the server its raw pointer leads or led to |
| `gone` | the threads whose pointer dangles: its stub has been destroyed |

So a pointer is to the present stub or is counted as gone; the calls through one
that is gone, which `PDClient` runs into after a failure, are not calls here.

### Cluster

`regions` and `stores` are `regions_` and `stores_`. `Bootstrap`, `Split`,
`AddStore` and `RemoveStore` are the methods, each one step: they take no lock
and one thread calls them. `Split` is `Cluster::split` with `Region::split` and
the constructor and `update_key_range` of `Region` (`meta.h`), which only it
uses; like the code it makes a default region for an id that is not there, and
overwrites the region that has the new id. The two parallel vectors of store and
peer ids are one function.

The methods check almost nothing, so the callers of the model do anything, and
the history variable `legal` says whether they have kept to what is tacitly
expected: bootstrap once, split a region that exists, inside it, under a fresh
id. `table` collects the regions after each change: the script that this
cluster, as a PD, would be.

## 3. What is checked

### Runs that must pass

| Run | Instance | Shows |
|---|---|---|
| `cache_races` | 2 threads, keys 0..2, TTL 2, clock 0..1; a region splits, its right half elects its first leader, the halves merge; leaders are switched to the stores 6 (a peer's, 2, once it is truncated to two bits) and 7 (nobody's) | `CacheCoherent`, `LocateSound`, `RpcContextSound`, `PeerHasSource`, `FreshestWins`, `LocateThenHit`, `StaleOverwriteNeedsRace`, `AgeRunsFromInsertion`, `IsDirectory`, `TypeOK` |
| `cache_dump` | 2 threads beside `dump_cache`, keys 0..1, TTL 1, clock 1..2; one region splits, the right half is the last region | `DamageIsBounded`, `PhantomsServeNobody` |
| `store_calls` | 2 threads, any number of calls, 2 stores, one moves away and back, fairness | `WriterAlone`, `MissFreezesStores`, `OldAddressNeedsRace`, `StuckNeedsLeak`, `CallsReturn`, `TypeOK` |
| `system` | 2 threads, one of which also reloads addresses; two regions merge, the leader moves to a store that only then gets its address; any switch of leaders | `Converges`, `ContextSound`, `DropHasCause` |
| `pd_threads` | 2 threads, 2 PD servers, calls with and without a forced retry; an election: one leader, none, another with the first one down; fairness | `SharedStubSafe`, `IsConnection`, `CallsGetThrough`, `TypeOK` |
| `pd_alone` | 1 thread; PD is down at first, is up, its leader moves, it goes down, answers without a leader, loses a server | `EmptyPickHasCause`, `AloneIsDefined`, `RetryReachesLeader` |
| `cluster` | keys 0..3, 3 region ids, 2 peer ids, up to 3 calls that change regions, legal or not | `Partition`, `KeepsPDPromises`, `TypeOK` |

The properties, briefly (each is stated in full above its definition):

* `CacheCoherent` — `sorted_` and `cached_regions_` describe one set of regions.
* `LocateSound` — a returned location holds the key and is a range and version
  PD served.
* `RpcContextSound` — the region in a context is the version asked for, as PD
  served it, and its peer is one of that region's peers (only if PD may name no
  leader among them can it be the default peer), whatever other threads do to
  the entry while the address is looked up. It speaks of `meta`;
  `rpc_context::region_ver_id` is never assigned (`:70`) and is version 0.
* `PeerHasSource` — that peer is the leader PD named for this version, or the one
  on the store that some caller reported to `update_region_leader`, after its
  truncation to 16 bits. A reported store without a peer changes nothing; a
  store id of more than 16 bits may make the peer of another store the leader.
* `FreshestWins` — as long as regions have only split, the current region, if cached, is
  never hidden by an outdated one. It is false for merges: the old left part
  `[a,b)` has a smaller end key than the merged `[a,c)` and lies before it.
* `LocateThenHit` — as long as regions have only split, what `locate_key` returns
  is found by the next `locate_key` for that key, unless the region has no upper
  bound or another thread's insertion overtook the answer.
* `StaleOverwriteNeedsRace` — whatever the calls do, a current region gives way
  in `sorted_` to an outdated one only through a `locate_key` that another
  thread overtook, inserting the current one after PD had answered the first.
* `IsDirectory` — the cache behaves as the atomic `RegionDirectory`.
* `AgeRunsFromInsertion` — nothing but a new answer of PD moves the access time
  of an entry: however often a region is used, it is loaded again every TTL.
  This is what the code does and not what it says it does, see
  `cache_access_time` below.
* `DamageIsBounded` — a concurrent `dump_cache` breaks `CacheCoherent`: it
  creates entries no region stands behind (phantoms), and dropping a phantom,
  whose end key is the empty one, takes the last region out of `sorted_`. The
  property says that this is all: every entry of `sorted_` still has its entry
  in `cached_regions_` with the same range, and the entries there without a
  partner are phantoms or last regions.
* `PhantomsServeNobody` — no caller is handed a phantom: it is dated 0, so it is
  expired, and `RpcContextSound` holds beside a dump.
* `WriterAlone` — a thread that changes `stores_` excludes readers and writers.
* `MissFreezesStores` — after one missed lookup `stores_` never changes again.
* `OldAddressNeedsRace` — an address goes back to an older answer of PD only if
  another thread stored one for that store meanwhile.
* `StuckNeedsLeak` — until a missed lookup leaves its shared lock behind, the
  threads inside the two functions are never all held up: the leak is the only
  deadlock of `store_lock_`.
* `CallsReturn` — as long as every lookup finds its store, every call returns.
* `ContextSound` — a context's address is one PD gave for the store of the very
  peer in the context, although the two are read under different locks and
  other threads switch leaders, drop regions and reload addresses meanwhile.
* `DropHasCause` — when `get_rpc_context` drops a region after its lookup, PD has
  given an empty address for the store of the leader this call was to use (never
  because PD or the address cache could not answer), and only the version asked
  for goes, although the entry may be another thread's by then.
* `Converges` — outdated regions, wrong leaders and addresses of stores that
  have moved do not last. The cache corrects none of them itself, so this has a
  premise, `ClientsPersist`: clients keep locating every key and reloading every
  address, drop a region that is outdated and tell the cache a leader it has
  wrong (what a TiKV client does when a store refuses a request), and look up no
  store they have not loaded (such a lookup blocks `stores_` for ever, see
  `MissFreezesStores`). Then every key is found, again and again, in the region
  PD has for it, under PD's leader at PD's address. The premise says `[]<>` of
  each thing clients do, and of the cache only that these calls return. It is
  about the keys that are always in a region with an upper bound (`Findable`:
  the last region is never found, see `cache_last_region`), and about scripts
  whose leaders the cache can be told (`Tellable`): PD names one for each region,
  and no store id exceeds 16 bits. Beyond that it is false.
* `SharedStubSafe` — while no RPC has failed (and the constructor reached PD),
  every thread that holds a pointer holds the live leader stub. One failure ends
  this: the forced retry destroys the stub others are using, and TLC reaches
  `RpcOnDeadStub` and `PickFromReplaced` from there.
* `EmptyPickHasCause` — there is always a member and a URL to pick, unless the
  constructor did not reach PD or the answer that the pool was last filled from
  had no leader. Requests that fail, however often, do not empty the pool.
  Such an answer is the end: its round picks a URL from the empty list of member
  0 (`pd_client.cc:116`) and does not come back to the loop.
* `IsConnection` — `leader_stub_` behaves as the abstract `PDConnection`: a late
  or outdated answer of PD never puts another stub in the place of one that is
  there, and every pointer is to the present stub or to one that was dropped.
* `AloneIsDefined` — a thread that has the client to itself never makes an RPC
  through a stub that is gone or follows a member that was replaced.
* `RetryReachesLeader` — the retry goes to PD's leader, unless PD has changed
  since it began. It holds for one thread and the three calls that force.
* `CallsGetThrough` — every call returns although the threads reset each other's
  stub, as long as a known member can be reached and failures do not force new
  connections for ever (each forced retry resets the stub of everyone).
* `Partition` — however a bootstrapped mock cluster is split, legally, each key
  is in exactly one region.
* `KeepsPDPromises` — the past of a mock cluster used legally is a script that
  satisfies `TableAssumption` and `OrderAssumption`, and the premise of
  `FreshestWins` and `LocateThenHit`, although each new region starts over with
  version 1.

### Runs that must find a violation

| Run | Claim | What the code does |
|---|---|---|
| `cache_last_region` | `test/region_cache_test.cc:16-18`: the second `locate_key` hits | `upper_bound` never reaches the entry under the empty end key (`region_cache.cc:163`) |
| `store_miss` | `region_cache.cc:96`, `:104`: what is not found is loaded and cached | the caller's own shared lock (`:89`) is still held, so its exclusive lock (`:105`) never comes |
| `cache_access_time` | `region_cache.cc:153`: "update access time" | the compare-and-exchange at `:155` expects the present time and stores it, so it only ever replaces a value by itself |
| `pd_retry_by_id` | `pd_client.cc:39`: "force update leader rpc connect and retry" | `:40` does not force: the retry of `get_region_by_id` uses the stub that failed |
| `pd_retry_race` | `pd_client.cc:28`, the same, and `:111`: "check if need update leader" | `leader_` is assigned before it is compared (`:108`, `:113`), so no answer replaces an existing stub: when another thread's late answer has connected to the former leader, a forced retry works off PD's present answer and stays there |

The properties of these runs are `RepeatedLocateHits`, `AnswerGetsCached`,
`UseUpdatesAccessTime`, `RetryReachesLeader` and `ForcedUpdateConnects`.
`AnswerGetsCached` is a liveness property, violated under
`FairSpec`: a thread that has PD's answer for a store in hand waits for ever for
the lock it holds itself.

### Bounds

Three keys give two bounded ranges, one unbounded one, and a key on the
boundary of two regions. Two threads give every overlap that the properties
speak of (one call overtaking another); all of them are also proved for any
number of threads where the proofs of section 4 apply. In `cache_races` an entry
is fresh, a second old and still valid, or expired because the clock was set back
behind it (`U64` is 8, the difference wraps); in `cache_dump`, with a TTL of 1,
entries also expire by age. A third store in the scripts of `cache_races` has an
id of more than the two bits of the truncated type. In `system` leaders can be
switched to either store at any time, so a version's leader does change there,
and to the wrong one.

`MaxLeaks` bounds the shared locks a thread may have leaked when it begins a call of `StoreCache`:
each failed lookup leaks one and the count would grow without end. One leak
already freezes the map, a second one shows that they add up; calls that leak
nothing are not bounded. Threads are symmetric in `cache_races` and
`cache_dump`; symmetry is not used with liveness.

In `RegionCacheSystem`, `Reloaders` is the set of threads that reload addresses
outside a context: in `system` the one that suffices to race a context of the
other thread, which in turn may reload through a miss. `MaxHistory` bounds the calls of `Cluster` that
change regions: bootstrap and two splits reach a split of either half, a split
under an id in use, of a region that is not there, and outside a region.

Two PD servers suffice for a leader that moves, a server that went down and an
answer that is out of date. `PDClient` needs no bound on its calls: its only
counter is the script's. The scripts (`MCPDClient`) end, so PD settles.

`RegionCache` and `Cluster` never stop, and their runs check for deadlock.
`StoreCache`, alone and in `RegionCacheSystem`, may stop when threads wait for
locks that they themselves have leaked, and
`PDClient` stops at undefined behaviour (in its passing runs the constructor
may find PD down and the first call then picks from an empty map), so their
runs do not.

### Fairness

`StoreCache` and `PDClient` state fairness (`FairSpec`): weak fairness of the
steps a thread takes inside a call. It says that the scheduler runs a runnable
thread and that a gRPC call to PD ends in an answer or an error. No fairness is
assumed for beginning calls or for PD's changes. In `StoreCache` calls go on for
ever and others may take the lock again and again, so getting the lock has
strong fairness: Boost documents that its `shared_mutex` starves neither readers
nor writers. (The run fails under weak fairness alone, as it should.)
`PDClient` adds strong fairness of picking a member that can be reached:
`select_randomly` draws uniformly and anew in each round of the loop, so a
reachable member is not passed over for ever. It also has strong fairness of
such a member's answer (`AskMembers`): a request may fail at any time, but one
that is repeated without end to a server that can be reached is answered in the
end. (Without it, no call need ever return.) No fairness says that a member
can be reached; that is the premise of `CallsGetThrough`. `RegionCacheSystem`
states none: `Converges` names in its premise all that it needs.

## 4. What is proved

TLAPS checks the proofs for every set of threads and keys, every script of PD
and every value of the numeric constants that the named assumptions allow:
`KeyAssumption`, `U16Assumption` (`RegionMeta`); `TableAssumption`,
`OrderAssumption`, `NumberAssumption` (`RegionCache`); `StoreTableAssumption`,
`MaxLeaksAssumption` (`StoreCache`); `HalvesAssumption`,
`EpochAssumption`, `ReloadersAssumption`, `AddrAssumption` (`RegionCacheSystem`;
the first says that the assumptions of both halves hold of its constants); `ServerAssumption`,
`MemberTableAssumption`, `OpAssumption` (`PDClient`); `IdAssumption`,
`MaxHistoryAssumption` (`Cluster`).

`RegionMetaProofs`:

* `VerIDOrder`: `RegionVerID::operator<` is a strict total order.

`RegionCacheProofs`:

* `TypeCorrect`, `Coherent`, `LocateCorrect`, `RpcContextCorrect`,
  `FreshestCorrect`, `AgeCorrect`: `TypeOK`, `CacheCoherent`, `LocateSound`,
  `RpcContextSound`, `FreshestWins` and `AgeRunsFromInsertion` hold in every
  behaviour.
* `PeersHaveSource`: `PeerHasSource`. Its invariant (`SourcesKnown`) says the same
  of the leader of every region in the cache and in the locals of a call.

All follow from one inductive invariant, `IInv`. `CacheCoherent` alone is not
inductive: inserting a region whose version is already cached *under another
end key* would leave a stale entry in `sorted_`. That cannot happen because
both regions come from PD and PD gives one version one range; so `IInv` adds
that each region in the cache, and in the locals of each call, has the range
and peers of a region PD served (`CachedServed`, `FramesServed`), and the
insertion lemma (`InsertKeepsMaps`) uses it. `FreshestWins` needs no more:
the current region and an outdated one that both hold the key are nested, so
the end key of the outdated one, smallest above the key, would be a key of the
current region without being one of the outdated region.

`MapsChange` says once what a step can do to the maps: insert an answer, drop a
version, or change nothing but leaders. `AgeCorrect` and the two modules below
split on it.

`RegionDirectoryProofs`:

* `ImplementsDirectory`: `Spec => IsDirectory`. Each insertion is a `Learn`,
  each drop a `Forget`, each hit a `Hit`, and everything else leaves the
  directory alone. That a drop removes one location and an insertion replaces
  exactly those with its end key follows from `CacheCoherent`.

`RegionOrderProofs`:

* `StaleOverwritesRaced`: `StaleOverwriteNeedsRace`. The invariant `Answered`
  says of each call that waits to insert: its answer is of some moment *i*, and
  every region in `sorted_` that nobody has inserted since was there at *i* or
  before. So if the region that is replaced is one that PD still has, PD had it
  at *i* too (`NeverReturns`), with the same end key as the answer
  (`VersionsFixRanges`), so they are one region (`DistinctEnds`).
* `LocatedIsFound`: `LocateThenHit`, for any number of threads. If nobody has
  inserted since PD answered, `Answered` says that nothing in `sorted_` is younger
  than the answer, and an older region never ends between the key and the end of
  the newer one that holds it (`NoEndBetween`).

`StoreCacheProofs`:

* `TypeCorrect`: `TypeOK`, which includes that no lock is given back twice.
* `WritersAlone`, `MissesFreeze`, `OldAddressesRaced`: `WriterAlone`,
  `MissFreezesStores` and `OldAddressNeedsRace`. The invariant adds who holds
  which lock at which point (`Locking`) and how old answers on their way are
  (`Ordered`).
* `StuckOnlyByLeak`: `StuckNeedsLeak`. Its invariant (`Awaited`) says that an
  exclusive lock has a thread that writes under it, and a waiting writer someone
  who holds the lock; so without a leak the holder can go on, or the lock is free.

`RegionCacheSystemProofs`:

* `ContextsSound`: `ContextSound`. The invariant says that the store asked for is
  that of the leader in the thread's copy of the region (`Asked`), that every
  address in the cache or on its way is one PD has given for its store
  (`AddrsGiven`), and so is what a lookup found.
* `DropsHaveCause`: `DropHasCause`. A call that returns from its lookup does so by
  its own step (`OwnReturn`), the version it drops is the one it asked for, and an
  empty address that a lookup found is one PD has given (`AddrsGiven`).
* `RegionsHold`, `StoresHold`: the properties of the halves, in the whole. Every
  behaviour of the whole is one of each half (`ImplementsRegions`,
  `ImplementsStores`). For the stores this needs that every store asked for is one
  PD answers for (`LeadersHaveStores`): the leader of a region in the cache is one
  of its peers or the default peer, which is part of the inductive invariant of
  `RegionCache`, used here of the whole (`RegionsInvariance`). The proof modules of
  the halves are instantiated (`RP`, `SP`) with the variables of the whole, their
  assumptions are proved of its constants (`RegionsAssumed`), and every theorem
  carries over. Not carried over is the liveness property of `StoreCache`.

`PDClientProofs`:

* `TypeCorrect`, `SharedUntilFailure`, `EmptyPickCause`: `TypeOK`,
  `SharedStubSafe` and `EmptyPickHasCause`. The invariant has one part for each of
  the latter: until the first failure every thread is on the short path and nobody
  forces (`Quiet`); once the constructor has reached PD there are members, and
  a thread that has picked member 0 and not yet its URL has it from the present
  pool (`PoolFilled`). `UpdateLeaderStep` says once what an answer does to the pool, for
  the constructor and for the loop.
* `RetryIsUseful`: `RetryReachesLeader`, if one thread uses the client and makes
  only calls that force. The invariant (`RetryInv`) follows the retry from no stub
  by PD's present answer to a stub of its leader.
* `DefinedAlone`: `AloneIsDefined`. The thread between `get_leader_stub` and the
  RPC holds a live pointer, and the member it has picked is of the present
  members: nobody else is there to replace them.
* `ImplementsConnection`: `Spec => IsConnection`. `UpdateLeader` connects only
  where there is no stub, and only to the leader of an answer, which is one of a
  view PD has been in; `ResetStub` makes every pointer dangle in the step that
  destroys the stub.

`ClusterProofs`:

* `TypeCorrect`, `Partitions`, `PDPromisesKept`: `TypeOK`, `Partition` and
  `KeepsPDPromises`, for any keys and ids. The invariant `Lawful` relates each
  region of the past to the regions of now: it still exists under its version or
  a later one, with the same range if it is the same (`Kept`), and the regions
  of now that share a key with it lie within it (`Nests`); the regions of now
  are disjoint, cover the key space and are not empty. `PDPromisesKept` is what
  connects the modules: a mock cluster satisfies the assumptions under which
  the theorems about `RegionCache` hold.

Only model-checked are `CallsReturn`, `CallsGetThrough` and `Converges`, because
liveness under fairness is outside the prover's reach, and `DamageIsBounded` and
`PhantomsServeNobody`, whose module has finer steps than the one the proofs are
about. Every other property of
the passing runs is a theorem, `RetryReachesLeader` for one thread only, as its
statement says. Regions for which PD names no leader are in the script of
`cache_races`; in the whole, where their lookup asks for store 0, they are
covered by the theorems alone.

## 5. What is not modelled

* PD and the gRPC calls are external. A lost, late or repeated message shows as
  a call that fails or as an answer that arrives after PD has changed; nothing
  is persisted, so there is no recovery after a crash.
* `Cluster::get_store`, `regions`, `stores` and `dump` only read.
* The payloads of `PDClient`'s calls, but for `parse_get_region_result`, which
  `RegionCache` models; `strip_url`, which cuts the scheme off a URL (a URL without "://" becomes the
  empty string; the model takes each member's URL to have one); the one
  random generator all threads share without a lock (`utils.h:23-24`), whose
  draws are free choices here. `PDClient::close` and `get_pd_members` are
  declared and never defined; `init` is public but only the constructor calls it.
* `load_region_from_pd_by_id` (no caller), `load_store_from_pd`,
  `Cluster::allocate_id`, `add_peer` and the like (declared, never defined).
* `Client` is empty. Logging and `to_hex` are formatting. Generated and
  third-party code is used through what it promises. Almost all lines of the
  repository are of these two kinds (`kvproto/`, `3rd_party/`, `test/3rd_party/`);
  of the client's own code, a few hundred lines, the modules leave out what this
  section names.
* What the data race of `dump_cache` may do to the two trees (section 2), and of
  `get_leader_stub` to a pointer that is read while it is written.
* `cluster_id_` (section 2).

## 6. Plan

Done, in order of importance: `RegionMeta`, `RegionCache`, `StoreCache`,
`PDClient` with their proofs; `Cluster`, which discharges the assumptions on PD;
`RegionDirectory` and its refinement; `RegionCacheSystem` with `ContextSound` as
a theorem and `Converges` by TLC; `StaleOverwriteNeedsRace`, `LocateThenHit` and
`RetryReachesLeader` as theorems; `PDConnection` and its refinement; the whole
class as an implementation of its halves, with their theorems carried over;
`PeerHasSource` and `DropHasCause` as theorems; `RegionCacheDump` by TLC.

Left:

1. `PDClient` with a bounded burst of failures: how many threads one failure
   can put on the path that resets the stub, and what a lock around
   `get_leader_stub` would restore.
2. `RegionCacheSystem` with `PDClient` in the place of the script: what its
   retries and its undefined behaviour do to the cache's calls.
3. A wider `system` run (three regions, a clock that moves); `Converges`, with
   its long premise, sets the limit.
4. `DamageIsBounded` and `PhantomsServeNobody` as theorems.
