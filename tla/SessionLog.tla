----------------------------- MODULE SessionLog -----------------------------
(***************************************************************************)
(* What a named session promises (README.md:387, .mex/context/             *)
(* architecture.md:78): one log of turns, each of them in it at most once  *)
(* and for good.  A turn that was answered as a success is in the log, one *)
(* that was answered as a failed turn is not and never will be, and an     *)
(* error leaves the caller without knowledge.                              *)
(***************************************************************************)
EXTENDS Naturals, Sequences

CONSTANTS Calls   \* the turns

VARIABLES
    log,        \* the turns the session consists of, in order
    answer      \* what each caller was told

InLog(c) == \E i \in 1 .. Len(log) : log[i] = c

Init == log = <<>> /\ answer = [c \in Calls |-> "none"]

Commit(c) ==
    /\ ~InLog(c) /\ answer[c] = "none"
    /\ log' = Append(log, c)
    /\ UNCHANGED answer

Reply(c) ==
    /\ answer[c] = "none"
    /\ \E a \in (IF InLog(c) THEN {"success"} ELSE {"failed"}) \cup {"error"} :
           answer' = [answer EXCEPT ![c] = a]
    /\ UNCHANGED log

Next == \E c \in Calls : Commit(c) \/ Reply(c)

Spec == Init /\ [][Next]_<<log, answer>>
=============================================================================
