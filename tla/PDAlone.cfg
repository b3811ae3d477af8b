SPECIFICATION Spec
CONSTANTS
    Threads = {t1}
    p1 = p1
    p2 = p2
    Server = {p1, p2}
    NoServer = none
    Addr = p1
    MemberTable <- Outages
    Op = {"get_region", "get_store_by_id"}
INVARIANTS
    EmptyPickHasCause
    RetryReachesLeader
    AloneIsDefined
CHECK_DEADLOCK FALSE
