SPECIFICATION FairSpec
CONSTANTS
    c1 = c1  c2 = c2  c3 = c3
    p1 = p1  p2 = p2  p3 = p3
    NoOwner = NoOwner
    Callers = {c1, c2, c3}
    Processes = {p1, p2, p3}
    Host <- MCHost
    WaitAttempts = 2
INVARIANT MutualExclusion
PROPERTIES ImplementsCriticalSection AbandonedLockIsReclaimed
CHECK_DEADLOCK FALSE
