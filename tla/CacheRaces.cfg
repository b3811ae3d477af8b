SPECIFICATION Spec
CONSTANTS
    Threads = {t1, t2}
    Key = {0, 1, 2}
    U16 = 4
    U64 = 8
    PDTable <- MergeTable
    StoreId = {6, 7}
    TTL = 2
    MaxTime = 1
INVARIANTS
    TypeOK
    CacheCoherent
    LocateSound
    RpcContextSound
    PeerHasSource
    FreshestWins
PROPERTIES
    StaleOverwriteNeedsRace
    LocateThenHit
    AgeRunsFromInsertion
    IsDirectory
SYMMETRY Symmetry
