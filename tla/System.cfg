SPECIFICATION Spec
CONSTANTS
    Threads = {t1, t2}
    Key = {0, 1, 2}
    U16 = 4
    U64 = 8
    TTL = 1
    PDTable <- MergeTable
    none = none
    a1 = a1
    a2 = a2
    Store = {1, 2}
    Addr = {none, a1, a2}
    StoreTable <- StartTable
    MaxLeaks = 1
    EmptyAddr = none
    NoAddr = NoAddr
    Reloaders = {t2}
PROPERTIES
    Converges
    ContextSound
    DropHasCause
CHECK_DEADLOCK FALSE
