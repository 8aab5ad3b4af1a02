---------------------------- MODULE RunClaimLock ----------------------------
(***************************************************************************)
(* The lock file of one run (src/runClaimLock.ts).  A call of              *)
(* withRunClaimLock links its own owner record to the lock path; when the  *)
(* path is taken it tries to remove the record of a dead owner, and after  *)
(* LOCK_WAIT_ATTEMPTS tries it gives up.  Every file operation is a step:  *)
(* calls of other processes, and other calls of the same process, run      *)
(* between any two of them.                                                *)
(*                                                                         *)
(* An owner record is the process id and a fresh nonce.  A call that ends  *)
(* normally or by an error has no use for its nonce any more and a call of *)
(* a dead process never runs again, so the record is named by its call.    *)
(***************************************************************************)
EXTENDS Naturals

CONSTANTS
    Callers,        \* calls of withRunClaimLock for one run
    Processes,      \* the server processes that make them
    Host,           \* the process of each call
    WaitAttempts,   \* LOCK_WAIT_ATTEMPTS
    NoOwner         \* the lock path does not exist

ASSUME HostAssumption == Host \in [Callers -> Processes]
ASSUME AttemptsAssumption == WaitAttempts \in Nat
ASSUME NoOwnerAssumption == NoOwner \notin Callers

VARIABLES
    lockFile,   \* the owner record at the lock path
    pc,         \* the file operation each call makes next
    seen,       \* the record each call has read
    attempt,    \* the loop counter of each call
    alive,      \* the processes that have not died
    robbed      \* history: calls whose record went by an unlink meant for another one

vars == <<lockFile, pc, seen, attempt, alive, robbed>>

Steps == {"idle", "link", "read", "reread", "unlinkAbandoned",
          "operation", "checkOwner", "unlinkOwn"}

TypeOK ==
    /\ lockFile \in Callers \cup {NoOwner}
    /\ pc \in [Callers -> Steps]
    /\ seen \in [Callers -> Callers \cup {NoOwner}]
    /\ attempt \in [Callers -> 0 .. WaitAttempts]
    /\ alive \in SUBSET Processes
    /\ robbed \in SUBSET Callers

Init ==
    /\ lockFile = NoOwner
    /\ pc = [c \in Callers |-> "idle"]
    /\ seen = [c \in Callers |-> NoOwner]
    /\ attempt = [c \in Callers |-> 0]
    /\ alive = Processes
    /\ robbed = {}

\* processIsDefinitelyGone
DefinitelyGone(c) == Host[c] \notin alive

\* Call c is at step s, in a living process.
At(c, s) == pc[c] = s /\ Host[c] \in alive

GoTo(c, s) == pc' = [pc EXCEPT ![c] = s]

\* The next turn of the loop, at once or after LOCK_WAIT_MS.
NextAttempt(c) ==
    /\ GoTo(c, "link")
    /\ attempt' = [attempt EXCEPT ![c] = @ + 1]
    /\ seen' = [seen EXCEPT ![c] = NoOwner]

Begin(c) ==
    /\ At(c, "idle")
    /\ GoTo(c, "link")
    /\ attempt' = [attempt EXCEPT ![c] = 0]
    /\ UNCHANGED <<lockFile, seen, alive, robbed>>

\* Bug: the owner record is renamed into place, over that of another owner.
LinkOver(c) ==
    /\ At(c, "link") /\ attempt[c] < WaitAttempts
    /\ lockFile' = c
    /\ GoTo(c, "operation")
    /\ UNCHANGED <<seen, attempt, alive, robbed>>

\* link(temporary, lock path): the one operation that takes the lock.
Link(c) ==
    /\ At(c, "link") /\ attempt[c] < WaitAttempts
    /\ \/ lockFile = NoOwner /\ lockFile' = c /\ GoTo(c, "operation")
       \/ lockFile # NoOwner /\ GoTo(c, "read") /\ UNCHANGED lockFile
    /\ UNCHANGED <<seen, attempt, alive, robbed>>

\* run_liveness_unknown, after the last attempt.
GiveUp(c) ==
    /\ At(c, "link") /\ attempt[c] >= WaitAttempts
    /\ GoTo(c, "idle")
    /\ UNCHANGED <<lockFile, seen, attempt, alive, robbed>>

\* The record at the lock path is that of a dead process.
Abandoned == lockFile # NoOwner /\ DefinitelyGone(lockFile)

\* Bug: the owner's liveness is not asked for.
ReadAnyOwner(c) ==
    /\ At(c, "read") /\ lockFile # NoOwner
    /\ GoTo(c, "reread")
    /\ seen' = [seen EXCEPT ![c] = lockFile]
    /\ UNCHANGED <<lockFile, attempt, alive, robbed>>

\* The first read of tryRemoveDefinitelyAbandonedLock.
ReadOwner(c) ==
    /\ At(c, "read")
    /\ \/ /\ Abandoned
          /\ GoTo(c, "reread")
          /\ seen' = [seen EXCEPT ![c] = lockFile]
          /\ UNCHANGED attempt
       \/ ~Abandoned /\ NextAttempt(c)
    /\ UNCHANGED <<lockFile, alive, robbed>>

\* The second read: the bytes must still be those of the dead owner.
Reread(c) ==
    /\ At(c, "reread")
    /\ \/ lockFile = seen[c] /\ GoTo(c, "unlinkAbandoned") /\ UNCHANGED <<seen, attempt>>
       \/ lockFile # seen[c] /\ NextAttempt(c)
    /\ UNCHANGED <<lockFile, alive, robbed>>

\* Bug: an unlink that fails is not noticed.
KeepAbandoned(c) ==
    /\ At(c, "unlinkAbandoned")
    /\ NextAttempt(c)
    /\ UNCHANGED <<lockFile, alive, robbed>>

\* unlink removes whatever the path holds by now.
UnlinkAbandoned(c) ==
    /\ At(c, "unlinkAbandoned")
    /\ lockFile' = NoOwner
    /\ robbed' = robbed \cup ({lockFile} \ {seen[c], NoOwner})
    /\ NextAttempt(c)
    /\ UNCHANGED alive

\* The operation returns or throws; releaseRunClaimLock follows either way.
FinishOperation(c) ==
    /\ At(c, "operation")
    /\ GoTo(c, "checkOwner")
    /\ UNCHANGED <<lockFile, seen, attempt, alive, robbed>>

\* "ownership changed before release" leaves the path alone.
CheckOwner(c) ==
    /\ At(c, "checkOwner")
    /\ \/ lockFile = c /\ GoTo(c, "unlinkOwn") /\ UNCHANGED robbed
       \/ lockFile # c /\ GoTo(c, "idle") /\ robbed' = robbed \ {c}
    /\ UNCHANGED <<lockFile, seen, attempt, alive>>

UnlinkOwn(c) ==
    /\ At(c, "unlinkOwn")
    /\ lockFile' = NoOwner
    /\ robbed' = (robbed \ {c}) \cup ({lockFile} \ {c, NoOwner})
    /\ GoTo(c, "idle")
    /\ UNCHANGED <<seen, attempt, alive>>

\* A process dies between any two file operations and leaves its record.
Crash(p) ==
    /\ p \in alive
    /\ alive' = alive \ {p}
    /\ UNCHANGED <<lockFile, pc, seen, attempt, robbed>>

CallStep(c) ==
    \/ Link(c) \/ GiveUp(c)
    \/ ReadOwner(c) \/ Reread(c) \/ UnlinkAbandoned(c)
    \/ FinishOperation(c) \/ CheckOwner(c) \/ UnlinkOwn(c)

Next ==
    \/ \E c \in Callers : Begin(c) \/ CallStep(c)
    \/ \E p \in Processes : Crash(p)

Spec == Init /\ [][Next]_vars

\* A call in progress goes on while its process lives; nobody has to begin
\* one, and nobody has to crash.  The operation is taken to return.
FairSpec == Spec /\ \A c \in Callers : WF_vars(CallStep(c))

-----------------------------------------------------------------------------
(* The reclaim of a dead owner's record is two reads and an unlink that no  *)
(* lock protects: of two calls that are both between their second read and  *)
(* their unlink, the slower one may remove the record of whoever took the   *)
(* lock behind the faster one.  That call is robbed; so is, in turn, who    *)
(* owns the path when a robbed call unlinks "its own" record.               *)

Reclaimers == {c \in Callers : pc[c] = "unlinkAbandoned" /\ Host[c] \in alive}

SoleReclaimer == \A c, d \in Reclaimers : c = d

-----------------------------------------------------------------------------
Inside == {c \in Callers : At(c, "operation")}

\* withRunClaimLock is a critical section but for robbed calls: two living calls run their
\* operations at the same time only if an overlapping reclaim has taken the record of one of
\* them away, and without the death of a process nobody is ever robbed
\* (src/runClaimLock.ts:64-73, 125).
MutualExclusion ==
    /\ \A c, d \in Inside \ robbed : c = d
    /\ robbed # {} => alive # Processes

\* A call that is inside, or is about to unlink its own record, still owns the
\* path unless it was robbed: its release cannot meet a missing or a foreign record
\* (src/runClaimLock.ts:116-121).
OwnerKeepsPath ==
    \A c \in Callers \ robbed :
        At(c, "operation") \/ At(c, "checkOwner") \/ At(c, "unlinkOwn")
            => lockFile = c

\* The code implements the critical section it promises for everybody who is not robbed;
\* whoever is has left it for the others.
Promise == INSTANCE CriticalSection WITH inside <- Inside \ robbed

ImplementsCriticalSection == Promise!Spec

\* Nobody is robbed.  Not so in general: see SoleReclaimer.
NobodyIsRobbed == robbed = {}

\* A record left by a dead owner does not outlive the next call: whoever waits
\* on it with an attempt left removes it, unless it dies as well
\* (tryRemoveDefinitelyAbandonedLock, src/runClaimLock.ts:54-78).
AbandonedLockIsReclaimed ==
    \A c, d \in Callers :
        (/\ lockFile = c /\ DefinitelyGone(c)
         /\ At(d, "link") /\ attempt[d] < WaitAttempts)
            ~> (lockFile # c \/ DefinitelyGone(d))
=============================================================================
