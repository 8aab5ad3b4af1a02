----------------------------- MODULE MCRunOwner -----------------------------
(* Two requests, two callers, one cancellation and one descendant.          *)
EXTENDS RunOwner

CONSTANTS c1, c2, d1, first, second
=============================================================================
