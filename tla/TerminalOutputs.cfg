CONSTANTS
  o1 = o1
  o2 = o2
  Observers = {o1, o2}
  Free = Free
  MaxFailures = 2
  MaxCrashes = 1
SPECIFICATION Spec
CHECK_DEADLOCK FALSE
INVARIANTS
  PublishedOutputsAreOwned
  ReferencedOutputsExist
PROPERTY AbandonedPairIsRemoved
