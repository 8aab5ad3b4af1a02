------------------------ MODULE MCResearchDispatch -------------------------
(* An instance of ResearchDispatch for TLC: two calls with the same tool   *)
(* and arguments, and two attempts that reserve them, at once or in turn.  *)
EXTENDS ResearchDispatch

CONSTANTS c1, c2, a1, a2

MCCalls == {c1, c2}
MCAttempts == {a1, a2}
MCArgument == [x \in MCCalls \cup MCAttempts |-> "same"]
============================================================================
