CONSTANTS
  Runs <- MCRuns
  MaxRecent = 9
  MaxMessages = 2
  MaxCancels = 2
  MaxFailures = 1
SPECIFICATION EvidenceSpec
CHECK_DEADLOCK FALSE
INVARIANTS
  RejectionsAreExplained
  TerminalClaimIsTrue
