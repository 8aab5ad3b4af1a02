------------------------- MODULE MCActiveChildLease -------------------------
(* Two servers share one slot.  The first is asked for two top-level runs,  *)
(* the second for a run with a parent.                                      *)
EXTENDS ActiveChildLease

CONSTANTS s1, s2, r1, r2, r3

MCOwner == (r1 :> s1) @@ (r2 :> s1) @@ (r3 :> s2)
=============================================================================
