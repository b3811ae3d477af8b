SPECIFICATION FairSpec
CONSTANTS
    Threads = {t1, t2}
    p1 = p1
    p2 = p2
    Server = {p1, p2}
    NoServer = none
    Addr = p1
    MemberTable <- Election
    Op = {"get_region", "get_region_by_id"}
INVARIANTS
    TypeOK
    SharedStubSafe
PROPERTIES
    IsConnection
    CallsGetThrough
CHECK_DEADLOCK FALSE
