-------------------------- MODULE CriticalSection --------------------------
(***************************************************************************)
(* What a caller of withRunClaimLock is promised: "temporary per-run       *)
(* cross-process critical section" (src/runClaimLock.ts:125).  At most one *)
(* caller is inside; nothing is said of the order in which callers enter   *)
(* or of the callers that give up.                                         *)
(***************************************************************************)
CONSTANT Callers    \* the calls of withRunClaimLock for one run

VARIABLE inside     \* the calls whose operation is running

Init == inside = {}

Enter(c) == inside = {} /\ inside' = {c}

\* A caller leaves by finishing its operation or by the death of its process,
\* which may take every caller inside with it.
Leave == inside # {} /\ inside' \in SUBSET inside

Next == (\E c \in Callers : Enter(c)) \/ Leave

Spec == Init /\ [][Next]_inside
=============================================================================
