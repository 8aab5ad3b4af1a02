CONSTANTS
  c1 = c1
  c2 = c2
  a1 = a1
  a2 = a2
  NoCall = NoCall
  Calls <- MCCalls
  Attempts <- MCAttempts
  Argument <- MCArgument
  MaxFailures = 1
  MaxEvents = 2
SPECIFICATION Spec
CHECK_DEADLOCK FALSE
INVARIANTS
  DispatchesAreAccounted
PROPERTY EveryDispatchEnds
