SPECIFICATION FairSpec
CONSTANTS
    Threads = {t1, t2}
    s1 = s1
    s2 = s2
    a1 = a1
    a2 = a2
    Store = {s1, s2}
    Addr = {a1, a2}
    StoreTable <- MovingTable
    MaxLeaks = 2
INVARIANTS
    TypeOK
    WriterAlone
    StuckNeedsLeak
PROPERTIES
    MissFreezesStores
    OldAddressNeedsRace
    CallsReturn
CHECK_DEADLOCK FALSE
