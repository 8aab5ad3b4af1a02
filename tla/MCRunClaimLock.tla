--------------------------- MODULE MCRunClaimLock ---------------------------
(* Three calls contend for the lock file of one run.  MCHost puts each call *)
(* in a process of its own; MCSharedHost puts two of them in one server,    *)
(* which takes over the run of a server that died.                          *)
EXTENDS RunClaimLock, TLC

CONSTANTS c1, c2, c3, p1, p2, p3

MCHost == (c1 :> p1) @@ (c2 :> p2) @@ (c3 :> p3)

MCSharedHost == (c1 :> p1) @@ (c2 :> p2) @@ (c3 :> p2)
=============================================================================
