SPECIFICATION RunnerSpec
CONSTANTS
    Commands = {c1}
    Own = own
    MaxLines = 1
    MaxChecks = 1
INVARIANTS
    RunningGroupsAreOwned
    NothingOutlivesTheRunner
    CompletedIsTrue
PROPERTIES
    RunnerReturns
CHECK_DEADLOCK FALSE
