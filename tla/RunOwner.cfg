SPECIFICATION Spec
CONSTANTS
    c1 = c1  c2 = c2  d1 = d1  first = first  second = second
    NoResponse = NoResponse
    MaxRequests = 2
    MaxMessages = 1
    Responses = {first, second}
    Callers = {c1, c2}
    Delegates = {d1}
INVARIANTS ReceiptsAreTrue CommittedOutcomeWins 
PROPERTIES RunSettles AnswersReturn
CHECK_DEADLOCK FALSE
