SPECIFICATION FairSpec
CONSTANTS
    t1 = t1
    t2 = t2
    t3 = t3
    t4 = t4
    p1 = p1
    p2 = p2
    p3 = p3
    Nobody = Nobody
    Threads = {t1, t2, t3, t4}
    Pids = {p1, p2, p3}
    Pid <- Shared
    Foreign = {p3}
    MayTimeOut = TRUE
    Mortal = {p1, p2}
CHECK_DEADLOCK FALSE
INVARIANT LockInv
INVARIANT OverlapBounded
PROPERTY StaleLockRemoved
