----------------------------- MODULE ClientStart -----------------------------
(***************************************************************************)
(* start_run with a client_start_id and cancel_client_start                *)
(* (src/clientStartAdmission.ts and the callers in src/runTask.ts).        *)
(*                                                                         *)
(* One token.  Each start_run call that carries it prepares a candidate    *)
(* run, and claims the token for it; the winner's candidate is promoted to *)
(* the canonical run record by whoever comes first, and its run is         *)
(* launched under the token's admission lock.  The other calls return the  *)
(* winner's run.  Every read, link, unlink and locked section is a step of *)
(* its own, and any server may die between two of them.                    *)
(*                                                                         *)
(* A run is named by the call that prepared it.  The admission lock is a   *)
(* critical section (RunClaimLock); only the launch holds it over several  *)
(* steps, so the other sections are single steps.                          *)
(***************************************************************************)
EXTENDS Naturals, FiniteSets

CONSTANTS
    Starts,     \* start_run calls that carry the token
    Cancels,    \* cancel_client_start calls for it
    Servers,    \* server processes
    Server,     \* the server each call is made to
    Body,       \* the rest of each start's request, by its hash
    None        \* no call

Calls == Starts \cup Cancels

ASSUME CallsAssumption == Starts \cap Cancels = {} /\ None \notin Calls
ASSUME ServerAssumption == Server \in [Calls -> Servers]

VARIABLES
    alive,      \* servers that have not died
    token,      \* the token's record: "unused", "bound", "cancelled", "fenced"
    boundTo,    \* the run the record is bound to
    guard,      \* the run that launches under the admission lock, or None
    candidates, \* runs with a .prepared file
    record,     \* the canonical run records: "none", "working", or how they ended
    resident,   \* runs in the task table of their own server
    stopping,   \* resident runs whose cancellation was accepted
    launched,   \* runs whose child was spawned
    containing, \* calls that are in cancelClientStartTask
    pc,         \* what each call, or the run it started, does next
    outcome,    \* what each call answered, or "none"
    got         \* the run it answered with, or None

fileVars == <<token, boundTo, candidates, record>>
runVars == <<resident, stopping, launched>>
answerVars == <<outcome, got>>
vars == <<alive, fileVars, guard, runVars, containing, pc, answerVars>>

Steps ==
    {"idle", "find", "orphanCheck", "reconcile", "reap", "prepare", "claim"} \cup
    {"discardFailed", "discardLoser"} \cup
    {"promoteRead", "promoteLink", "promoteDiscard"} \cup
    {"register", "admit", "launch", "spawn", "running", "settle"} \cup
    {"replay", "replayOwner", "recover", "drift"} \cup
    {"contain", "containRead", "containWait", "done"}

Records == {"none", "working", "ended", "cancelled", "restart_drift"}

Outcomes == {"none", "run", "fenced", "conflict", "terminal", "unknown", "error"}

TypeOK ==
    /\ alive \in SUBSET Servers
    /\ token \in {"unused", "bound", "cancelled", "fenced"}
    /\ boundTo \in Starts \cup {None}
    /\ boundTo = None <=> token \in {"unused", "fenced"}
    /\ guard \in {boundTo, None}
    /\ candidates \in SUBSET Starts
    /\ record \in [Starts -> Records]
    /\ resident \in SUBSET Starts
    /\ stopping \in SUBSET Starts
    /\ launched \in SUBSET Starts
    /\ containing \in SUBSET Calls
    /\ pc \in [Calls -> Steps]
    /\ outcome \in [Calls -> Outcomes]
    /\ got \in [Calls -> Starts \cup {None}]

Init ==
    /\ alive = Servers
    /\ token = "unused" /\ boundTo = None /\ guard = None
    /\ candidates = {}
    /\ record = [c \in Starts |-> "none"]
    /\ resident = {} /\ stopping = {} /\ launched = {}
    /\ containing = Cancels
    /\ pc = [c \in Calls |-> "idle"]
    /\ outcome = [c \in Calls |-> "none"]
    /\ got = [c \in Calls |-> None]

-----------------------------------------------------------------------------
At(c, step) == pc[c] = step /\ Server[c] \in alive

GoTo(c, step) == pc' = [pc EXCEPT ![c] = step]

\* clientStartAdmissionOwnerLiveness of the bound run's owner.
OwnerGone == Server[boundTo] \notin alive

\* No living server is inside the admission lock.
AdmissionFree == ~ \E c \in Starts : guard = c /\ Server[c] \in alive

Ended(c) == record[c] \in {"ended", "cancelled", "restart_drift"}

\* The record is a binding, whether or not it is cancelled.
Bound == token \in {"bound", "cancelled"}

\* The call returns.
Answer(c, what, run) ==
    /\ outcome' = [outcome EXCEPT ![c] = what]
    /\ got' = [got EXCEPT ![c] = run]

Return(c, what, run) == Answer(c, what, run) /\ GoTo(c, "done")

Proceed(c, step) == GoTo(c, step) /\ UNCHANGED answerVars

Conflict(c) == Body[c] # Body[boundTo]

-----------------------------------------------------------------------------
(* startRunTask, up to the claim.                                           *)

Begin(c) ==
    /\ At(c, "idle")
    /\ Proceed(c, IF c \in Starts THEN "find" ELSE "contain")
    /\ UNCHANGED <<alive, fileVars, guard, runVars, containing>>

\* findClientStartAdmission reads the record without the lock.
Find(c) ==
    /\ At(c, "find")
    /\ \/ token = "unused" /\ Proceed(c, "orphanCheck")
       \/ token = "fenced" /\ Return(c, "fenced", None)
       \/ Bound /\ Conflict(c) /\ Return(c, "conflict", None)
       \/ token = "bound" /\ ~Conflict(c) /\ Proceed(c, "replay")
       \/ token = "cancelled" /\ ~Conflict(c) /\ Proceed(c, "contain")
    /\ containing' = IF pc'[c] = "contain" THEN containing \cup {c} ELSE containing
    /\ UNCHANGED <<alive, fileVars, guard, runVars>>

\* assertNoOrphanedClientStartSnapshot, after the whole preflight: any run record
\* that carries the token is taken for one whose binding is missing.
OrphanCheck(c) ==
    /\ At(c, "orphanCheck")
    /\ IF \E r \in Starts : record[r] # "none"
         THEN Return(c, "conflict", None)
         ELSE Proceed(c, "reconcile")
    /\ UNCHANGED <<alive, fileVars, guard, runVars, containing>>

\* reconcilePreparedClientStartCandidates promotes a bound candidate.
PromoteBound ==
    /\ candidates' = candidates \ {boundTo}
    /\ record' = [record EXCEPT ![boundTo] =
          IF @ = "none" /\ boundTo \in candidates THEN "working" ELSE @]

\* Bug: an unbound candidate is taken for that of a dead server.
ReapAll == candidates' = {}

\* It finds a candidate unbound, and then removes it if its server is dead.
Reap == candidates' = {r \in candidates : Server[r] \in alive}

Reconcile(c) ==
    /\ At(c, "reconcile")
    /\ \/ Bound /\ PromoteBound /\ Proceed(c, "prepare")
       \/ token = "unused" /\ Proceed(c, "reap") /\ UNCHANGED <<candidates, record>>
       \/ token = "fenced" /\ Proceed(c, "prepare") /\ UNCHANGED <<candidates, record>>
    /\ UNCHANGED <<alive, token, boundTo, guard, runVars, containing>>

ReconcileReaps(c) ==
    /\ At(c, "reap")
    /\ Reap
    /\ Proceed(c, "prepare")
    /\ UNCHANGED <<alive, token, boundTo, record, guard, runVars, containing>>

\* reconcilePersistedActiveRunTasks does the same in a server that starts up; that
\* its removal is a later step too is left to ReconcileReaps.
StartupReconcile ==
    /\ \/ Bound /\ PromoteBound
       \/ token = "unused" /\ Reap /\ UNCHANGED record
    /\ UNCHANGED <<alive, token, boundTo, guard, runVars, containing, pc, answerVars>>

\* writePreparedClientStartCandidate.
Prepare(c) ==
    /\ At(c, "prepare")
    /\ candidates' = candidates \cup {c}
    /\ Proceed(c, "claim")
    /\ UNCHANGED <<alive, token, boundTo, record, guard, runVars, containing>>

\* claimClientStartAdmission under the admission lock.
Claim(c) ==
    /\ At(c, "claim") /\ AdmissionFree
    /\ IF token = "unused"
         THEN /\ token' = "bound" /\ boundTo' = c
              /\ Proceed(c, "promoteRead")
         ELSE /\ Proceed(c, "discardLoser")
              /\ UNCHANGED <<token, boundTo>>
    /\ UNCHANGED <<alive, candidates, record, guard, runVars, containing>>

\* The claim throws: the lock stays taken, or the directory fsync or the lock's
\* release fails after the binding was renamed into place.
ClaimThrows(c) ==
    /\ At(c, "claim")
    /\ \/ UNCHANGED <<token, boundTo>>
       \/ /\ token = "unused" /\ AdmissionFree
          /\ token' = "bound" /\ boundTo' = c
    /\ Proceed(c, "discardFailed")
    /\ UNCHANGED <<alive, candidates, record, guard, runVars, containing>>

DiscardFailed(c) ==
    /\ At(c, "discardFailed")
    /\ candidates' = candidates \ {c}
    /\ Return(c, "error", None)
    /\ UNCHANGED <<alive, token, boundTo, record, guard, runVars, containing>>

\* Bug: the loser does not compare the request it lost to with its own.
DiscardLoserUnchecked(c) ==
    /\ At(c, "discardLoser")
    /\ candidates' = candidates \ {c}
    /\ \/ token = "fenced" /\ Return(c, "fenced", None)
       \/ Bound /\ Proceed(c, "replay")
    /\ UNCHANGED <<alive, token, boundTo, record, guard, runVars, containing>>

\* A loser removes its candidate, and returns the winner's run.
DiscardLoser(c) ==
    /\ At(c, "discardLoser")
    /\ candidates' = candidates \ {c}
    /\ \/ token = "fenced" /\ Return(c, "fenced", None)
       \/ Bound /\ Conflict(c) /\ Return(c, "conflict", None)
       \/ Bound /\ ~Conflict(c) /\ Proceed(c, "replay")
    /\ UNCHANGED <<alive, token, boundTo, record, guard, runVars, containing>>

-----------------------------------------------------------------------------
(* promotePreparedClientStartCandidate, for the creator, a replay or a       *)
(* cancellation.                                                            *)

AfterPromotion(c) ==
    IF c = boundTo THEN "register"
    ELSE IF c \in containing THEN "containWait" ELSE "replayOwner"

\* joinExactCanonicalClientStartRun.  A missing record fails the creator, a
\* replay while the owner lives, and is ignored by a cancellation.
Join(c) ==
    \/ record[boundTo] # "none" /\ Proceed(c, AfterPromotion(c))
    \/ /\ record[boundTo] = "none"
       /\ \/ c = boundTo /\ Proceed(c, "settle")
          \/ c \in containing /\ Proceed(c, "containWait")
          \/ c \notin containing \cup {boundTo} /\ OwnerGone /\ Proceed(c, "recover")
          \/ c \notin containing \cup {boundTo} /\ ~OwnerGone /\ Return(c, "conflict", None)

PromoteRead(c) ==
    /\ At(c, "promoteRead")
    /\ \/ boundTo \in candidates /\ Proceed(c, "promoteLink")
       \/ boundTo \notin candidates /\ Join(c)
    /\ UNCHANGED <<alive, fileVars, guard, runVars, containing>>

\* link(candidate, record): EEXIST and ENOENT both join the canonical record.
PromoteLink(c) ==
    /\ At(c, "promoteLink")
    /\ \/ /\ boundTo \in candidates
          /\ record' = [record EXCEPT ![boundTo] = IF @ = "none" THEN "working" ELSE @]
          /\ Proceed(c, "promoteDiscard")
       \/ /\ boundTo \notin candidates
          /\ Join(c)
          /\ UNCHANGED record
    /\ UNCHANGED <<alive, token, boundTo, candidates, guard, runVars, containing>>

PromoteDiscard(c) ==
    /\ At(c, "promoteDiscard")
    /\ candidates' = candidates \ {boundTo}
    /\ Proceed(c, AfterPromotion(c))
    /\ UNCHANGED <<alive, token, boundTo, record, guard, runVars, containing>>

-----------------------------------------------------------------------------
(* The bound run, in its owner's process.                                   *)

Register(c) ==
    /\ At(c, "register")
    /\ resident' = resident \cup {c}
    /\ Proceed(c, "admit")
    /\ UNCHANGED <<alive, fileVars, guard, stopping, launched, containing>>

\* Active or queued admission answers the call; no capacity, or a cancellation
\* accepted by now, settles the run.
Admit(c) ==
    /\ At(c, "admit")
    /\ \/ c \notin stopping /\ GoTo(c, "launch") /\ Answer(c, "run", c)
       \/ Proceed(c, "settle")
    /\ UNCHANGED <<alive, fileVars, guard, runVars, containing>>

\* Cancelled in the queue, or the last checks before the launch fail.
GiveUpLaunch(c) ==
    /\ At(c, "launch")
    /\ Proceed(c, "settle")
    /\ UNCHANGED <<alive, fileVars, guard, runVars, containing>>

\* Bug: the guard does not read the binding again under the lock.
LaunchUnguarded(c) ==
    /\ At(c, "launch") /\ AdmissionFree
    /\ guard' = c
    /\ Proceed(c, "spawn")
    /\ UNCHANGED <<alive, fileVars, runVars, containing>>

\* withClientStartLaunchGuard: a cancelled binding is accepted as the run's own
\* cancellation; otherwise the lock is kept until the spawn is observed.
Launch(c) ==
    /\ At(c, "launch") /\ AdmissionFree
    /\ \/ /\ token = "cancelled"
          /\ stopping' = stopping \cup {c}
          /\ Proceed(c, "settle")
          /\ UNCHANGED guard
       \/ /\ token = "bound"
          /\ guard' = c
          /\ Proceed(c, "spawn")
          /\ UNCHANGED stopping
    /\ UNCHANGED <<alive, fileVars, resident, launched, containing>>

\* The child process starts, unless the run was aborted or the spawn fails.
Spawn(c) ==
    /\ At(c, "spawn")
    /\ guard' = None
    /\ \/ c \notin stopping /\ launched' = launched \cup {c} /\ Proceed(c, "running")
       \/ Proceed(c, "settle") /\ UNCHANGED launched
    /\ UNCHANGED <<alive, fileVars, resident, stopping, containing>>

ChildEnds(c) ==
    /\ At(c, "running")
    /\ Proceed(c, "settle")
    /\ UNCHANGED <<alive, fileVars, guard, runVars, containing>>

\* settleRunClaim, or terminalizeClaimedClientStartFailure when the start has not
\* handed the run over: the terminal record is durable before the candidate goes
\* and the run leaves the task table.
Settle(c) ==
    /\ At(c, "settle")
    /\ record' = [record EXCEPT ![c] =
          IF Ended(c) THEN @ ELSE IF c \in stopping THEN "cancelled" ELSE "ended"]
    /\ candidates' = candidates \ {c}
    /\ resident' = resident \ {c}
    /\ GoTo(c, "done")
    /\ IF outcome[c] = "none" THEN Answer(c, "run", c) ELSE UNCHANGED answerVars
    /\ UNCHANGED <<alive, token, boundTo, guard, stopping, launched, containing>>

-----------------------------------------------------------------------------
(* replayClientStartAdmission.                                              *)

\* The run is in this server's own task table.
HasResident(c) == boundTo \in resident /\ Server[c] = Server[boundTo]

Replay(c) ==
    /\ At(c, "replay")
    /\ \/ HasResident(c) /\ Return(c, "run", boundTo)
       \/ ~HasResident(c) /\ record[boundTo] = "none" /\ Proceed(c, "promoteRead")
       \/ ~HasResident(c) /\ record[boundTo] # "none" /\ Proceed(c, "replayOwner")
    /\ UNCHANGED <<alive, fileVars, guard, runVars, containing>>

ReplayOwner(c) ==
    /\ At(c, "replayOwner")
    /\ \/ ~OwnerGone /\ Return(c, "run", boundTo)
       \/ OwnerGone /\ Proceed(c, "drift")
    /\ UNCHANGED <<alive, fileVars, guard, runVars, containing>>

\* The owner died with neither candidate nor record left: the replay writes the
\* run's record itself, from the binding.
Recover(c) ==
    /\ At(c, "recover")
    /\ record' = [record EXCEPT ![boundTo] = IF @ = "none" THEN "working" ELSE @]
    /\ Proceed(c, "drift")
    /\ UNCHANGED <<alive, token, boundTo, candidates, guard, runVars, containing>>

\* getRunTask of a run whose owner is gone settles it as restart_drift.
Drift(c) ==
    /\ At(c, "drift")
    /\ record' = [record EXCEPT ![boundTo] = IF @ = "working" THEN "restart_drift" ELSE @]
    /\ Return(c, IF c \in containing THEN "terminal" ELSE "run", boundTo)
    /\ UNCHANGED <<alive, token, boundTo, candidates, guard, runVars, containing>>

-----------------------------------------------------------------------------
(* cancelClientStartTask.                                                   *)

\* requestClientStartContainment under the admission lock.
RequestContainment(c) ==
    /\ At(c, "contain") /\ AdmissionFree
    /\ \/ token = "unused" /\ token' = "fenced" /\ Return(c, "fenced", None)
       \/ token = "fenced" /\ UNCHANGED token /\ Return(c, "fenced", None)
       \/ Bound /\ token' = "cancelled" /\ Proceed(c, "containRead")
    /\ UNCHANGED <<alive, boundTo, candidates, record, guard, runVars, containing>>

\* A launch keeps the lock for longer than the attempts last.
ContainmentBusy(c) ==
    /\ At(c, "contain") /\ ~AdmissionFree
    /\ Return(c, "unknown", None)
    /\ UNCHANGED <<alive, fileVars, guard, runVars, containing>>

ContainRead(c) ==
    /\ At(c, "containRead")
    /\ Proceed(c, IF record[boundTo] = "none" THEN "promoteRead" ELSE "containWait")
    /\ UNCHANGED <<alive, fileVars, guard, runVars, containing>>

\* Bug: the cancellation does not wait for the run to end.
ContainStopOnly(c) ==
    /\ At(c, "containWait") /\ HasResident(c)
    /\ boundTo \notin stopping /\ ~Ended(boundTo)
    /\ stopping' = stopping \cup {boundTo}
    /\ Return(c, "terminal", boundTo)
    /\ UNCHANGED <<alive, fileVars, guard, resident, launched, containing>>

\* cancelRunTask of the resident run; its promise is awaited.
ContainStop(c) ==
    /\ At(c, "containWait") /\ HasResident(c)
    /\ boundTo \notin stopping /\ ~Ended(boundTo)
    /\ stopping' = stopping \cup {boundTo}
    /\ UNCHANGED <<alive, fileVars, guard, resident, launched, containing, pc, answerVars>>

ContainTerminal(c) ==
    /\ At(c, "containWait") /\ Ended(boundTo)
    /\ Return(c, "terminal", boundTo)
    /\ UNCHANGED <<alive, fileVars, guard, runVars, containing>>

ContainOwnerGone(c) ==
    /\ At(c, "containWait") /\ ~Ended(boundTo) /\ OwnerGone
    /\ IF record[boundTo] = "none"
         THEN Return(c, "unknown", boundTo)
         ELSE Proceed(c, "drift")
    /\ UNCHANGED <<alive, fileVars, guard, runVars, containing>>

\* Bug: the cancellation waits for another server's run.
ContainWaitsForForeign(c) ==
    /\ At(c, "containWait") /\ ~Ended(boundTo) /\ ~OwnerGone
    /\ HasResident(c) /\ outcome[boundTo] # "run"
    /\ Return(c, "unknown", boundTo)
    /\ UNCHANGED <<alive, fileVars, guard, runVars, containing>>

\* Another server's run cannot be observed, and one that this server has not
\* registered, or has not handed over yet, may outlast the attempts.
ContainUnknown(c) ==
    /\ At(c, "containWait") /\ ~Ended(boundTo) /\ ~OwnerGone
    /\ ~(HasResident(c) /\ outcome[boundTo] = "run")
    /\ Return(c, "unknown", boundTo)
    /\ UNCHANGED <<alive, fileVars, guard, runVars, containing>>

Crash(s) ==
    /\ s \in alive
    /\ alive' = alive \ {s}
    /\ resident' = {r \in resident : Server[r] # s}
    /\ UNCHANGED <<fileVars, guard, stopping, launched, containing, pc, answerVars>>

-----------------------------------------------------------------------------
StartStep(c) ==
    \/ Find(c) \/ OrphanCheck(c) \/ Reconcile(c) \/ ReconcileReaps(c) \/ Prepare(c)
    \/ Claim(c) \/ ClaimThrows(c) \/ DiscardFailed(c) \/ DiscardLoser(c)
    \/ Replay(c) \/ ReplayOwner(c) \/ Recover(c)

OwnerStep(c) ==
    \/ Register(c) \/ Admit(c) \/ GiveUpLaunch(c) \/ Launch(c)
    \/ Spawn(c) \/ ChildEnds(c) \/ Settle(c)

CallStep(c) ==
    \/ PromoteRead(c) \/ PromoteLink(c) \/ PromoteDiscard(c) \/ Drift(c)
    \/ RequestContainment(c) \/ ContainmentBusy(c) \/ ContainRead(c) \/ ContainStop(c)
    \/ ContainTerminal(c) \/ ContainOwnerGone(c) \/ ContainUnknown(c)

Next ==
    \/ \E c \in Calls : Begin(c) \/ CallStep(c)
    \/ \E c \in Starts : StartStep(c) \/ OwnerStep(c)
    \/ \E s \in Servers : Crash(s)
    \/ StartupReconcile

Spec == Init /\ [][Next]_vars

\* Every await of a living server resolves, and every child ends (its run has a
\* timeout).
FairSpec ==
    /\ Spec
    /\ \A c \in Calls : WF_vars(CallStep(c))
    /\ \A c \in Starts : WF_vars(StartStep(c) \/ OwnerStep(c))

-----------------------------------------------------------------------------
Promise == INSTANCE StartToken

\* Whatever the interleaving of starts, cancellations and crashes, the files do
\* what the token promises: it is bound once or fenced once, a cancellation
\* stands, and no child is launched twice or after a cancellation.
ImplementsStartToken == Promise!Spec

\* From the moment the binding is durable, the run it names can be found while
\* its owner lives: its candidate or its record exists through every concurrent
\* promotion and reconciliation.  A claim that threw after its rename is the
\* exception (src/runTask.ts:4741).
BoundRunIsRecoverable ==
    Bound /\ Server[boundTo] \in alive /\ outcome[boundTo] # "error" =>
        boundTo \in candidates \/ record[boundTo] # "none"

\* "Exact replay in the same or a later server process returns that run"
\* (README.md:314): whoever answers with a run answers with the bound one, for
\* its own request body, and its record is there to read.
AnswersNameTheBoundRun ==
    \A c \in Calls : outcome[c] \in {"run", "terminal"} =>
        /\ Bound /\ got[c] = boundTo /\ record[boundTo] # "none"
        /\ c \in Starts => ~Conflict(c)

\* A containment that was reported holds: a fenced token never had and will
\* never have a child, and after "terminal" the run's owner is not about to
\* launch or run one (.mex/context/architecture.md:63).
ContainmentIsTrue ==
    \A c \in Calls :
        /\ outcome[c] = "fenced" => token = "fenced" /\ launched = {}
        /\ outcome[c] = "terminal" =>
              /\ Ended(boundTo)
              /\ Server[boundTo] \in alive => pc[boundTo] = "done"

\* Every call is answered while its server lives: nobody waits for the admission
\* lock, for a promotion or for another server for ever.
EveryCallIsAnswered ==
    \A c \in Calls : pc[c] # "idle" ~> (outcome[c] # "none" \/ Server[c] \notin alive)

\* The same request with the same token is never refused as a conflict: "six
\* concurrent starts return one run" (tests/client-start-id.test.ts:1024).
ExactReplayNeverConflicts ==
    \A c \in Starts : outcome[c] = "conflict" => \E d \in Starts : Body[d] # Body[c]
=============================================================================
