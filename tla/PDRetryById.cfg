SPECIFICATION Spec
CONSTANTS
    Threads = {t1}
    p1 = p1
    p2 = p2
    Server = {p1, p2}
    NoServer = none
    Addr = p1
    MemberTable <- MovingLeader
    Op = {"get_region_by_id"}
INVARIANTS
    RetryReachesLeader
CHECK_DEADLOCK FALSE
