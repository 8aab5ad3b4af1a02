SPECIFICATION FairSerialSpec
CONSTANTS
    s1 = s1  s2 = s2
    r1 = r1  r2 = r2  r3 = r3
    Free = Free
    Servers = {s1, s2}
    Runs = {r1, r2, r3}
    TopLevel = {r1, r2}
    Owner <- MCOwner
    MaxActiveChildren = 1
    MaxQueuedRuns = 2
INVARIANTS CapacityRespected LiveRunsAreAttributable NothingLeaks
PROPERTY QueuedRunsSettle
CHECK_DEADLOCK FALSE
