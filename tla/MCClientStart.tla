--------------------------- MODULE MCClientStart ---------------------------
(* Three starts and a cancellation with one token, on two servers.          *)
EXTENDS ClientStart, TLC

CONSTANTS s1, s2, a1, a2, a3, k1

MCServer == (a1 :> s1) @@ (a2 :> s2) @@ (a3 :> s2) @@ (k1 :> s1)

\* The third start carries another request.
MCBody == (a1 :> 1) @@ (a2 :> 1) @@ (a3 :> 2)

MCSameBody == (a1 :> 1) @@ (a2 :> 1) @@ (a3 :> 1)
=============================================================================
