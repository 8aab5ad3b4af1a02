----------------------------- MODULE StartToken -----------------------------
(***************************************************************************)
(* What a client_start_id promises its caller (README.md:314 and           *)
(* .mex/context/architecture.md:63): the token is bound to one run for     *)
(* good or fenced for good, a cancellation of it is never withdrawn, and   *)
(* at most one child is launched for it, never after its cancellation.     *)
(***************************************************************************)
CONSTANTS Starts,   \* the start_run calls that carry the token
          None      \* no call

VARIABLES
    token,      \* "unused", "bound", "cancelled" or "fenced"
    boundTo,    \* the call whose run the token is bound to
    launched    \* the calls whose run has launched a child

Init == token = "unused" /\ boundTo = None /\ launched = {}

Bind(c) ==
    /\ token = "unused"
    /\ token' = "bound" /\ boundTo' = c
    /\ UNCHANGED launched

Fence ==
    /\ token = "unused"
    /\ token' = "fenced"
    /\ UNCHANGED <<boundTo, launched>>

Cancel ==
    /\ token = "bound"
    /\ token' = "cancelled"
    /\ UNCHANGED <<boundTo, launched>>

Launch(c) ==
    /\ token = "bound" /\ boundTo = c /\ launched = {}
    /\ launched' = {c}
    /\ UNCHANGED <<token, boundTo>>

Next == Fence \/ Cancel \/ \E c \in Starts : Bind(c) \/ Launch(c)

Spec == Init /\ [][Next]_<<token, boundTo, launched>>
=============================================================================
