SPECIFICATION Spec
CONSTANTS
    Key = {0, 1, 2, 3}
    U16 = 4
    RegionId = {1, 2, 3}
    PeerId = {11, 12}
    StoreId = {1}
    Addr = {a1}
    MaxHistory = 3
INVARIANTS
    TypeOK
    Partition
    KeepsPDPromises
