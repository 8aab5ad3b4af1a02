------------------------ MODULE MCRunReconciliation ------------------------
(* One server runs a recursive and two top-level runs on one slot; another  *)
(* one looks at their claims.                                               *)
EXTENDS RunReconciliation

CONSTANTS s1, s2, r1, r2, r3

MCOwner == (r1 :> s1) @@ (r2 :> s1) @@ (r3 :> s1)
=============================================================================
