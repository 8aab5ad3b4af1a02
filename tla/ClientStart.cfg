SPECIFICATION FairSpec
CONSTANTS
    s1 = s1  s2 = s2
    a1 = a1  a2 = a2  a3 = a3  k1 = k1
    None = None
    Servers = {s1, s2}
    Starts = {a1, a2, a3}
    Cancels = {k1}
    Server <- MCServer
    Body <- MCBody
INVARIANTS BoundRunIsRecoverable AnswersNameTheBoundRun ContainmentIsTrue
PROPERTIES ImplementsStartToken EveryCallIsAnswered
CHECK_DEADLOCK FALSE
