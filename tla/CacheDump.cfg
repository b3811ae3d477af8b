SPECIFICATION DumpSpec
CONSTANTS
    Threads = {t1, t2}
    Key = {0, 1}
    U16 = 4
    U64 = 8
    PDTable <- SplitTable
    StoreId = {1}
    TTL = 1
    MaxTime = 2
INVARIANTS
    DamageIsBounded
    PhantomsServeNobody
SYMMETRY Symmetry
