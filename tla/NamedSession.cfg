SPECIFICATION SerialSpec
CONSTANTS
    c1 = c1  c2 = c2  c3 = c3
    p1 = p1  p2 = p2  p3 = p3
    NoCall = NoCall
    Calls = {c1, c2, c3}
    Processes = {p1, p2, p3}
    Host <- MCTurnHost
    Mode <- MCTurnMode
INVARIANTS PublishedStateAgrees PendingCommitApplies WorkspacesAreOwned
PROPERTY ImplementsSessionLog
CHECK_DEADLOCK FALSE
