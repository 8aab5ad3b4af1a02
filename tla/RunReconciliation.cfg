SPECIFICATION ReconciliationSpec
CONSTANTS
    s1 = s1  s2 = s2
    r1 = r1  r2 = r2  r3 = r3
    Free = Free
    Servers = {s1, s2}
    Runs = {r1, r2, r3}
    TopLevel = {r2, r3}
    Owner <- MCOwner
    MaxActiveChildren = 1
    MaxQueuedRuns = 1
INVARIANT AdmittedRunsAreNotLost
PROPERTY TerminalClaimIsFinal
CHECK_DEADLOCK FALSE
