--------------------------- MODULE MCNamedSession ---------------------------
(* Three turns of one session, each made by a server of its own: any of     *)
(* them may find what the others left when they died.                       *)
EXTENDS NamedSession, TLC

CONSTANTS c1, c2, c3, p1, p2, p3

MCTurnHost == (c1 :> p1) @@ (c2 :> p2) @@ (c3 :> p3)

MCTurnMode == (c1 :> "resume_or_new") @@ (c2 :> "new") @@ (c3 :> "require_existing")
=============================================================================
