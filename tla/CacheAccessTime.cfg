SPECIFICATION Spec
CONSTANTS
    Threads = {t1}
    Key = {0, 1, 2}
    U16 = 4
    U64 = 8
    PDTable <- WholeTable
    StoreId = {2}
    TTL = 2
    MaxTime = 1
PROPERTIES
    UseUpdatesAccessTime
