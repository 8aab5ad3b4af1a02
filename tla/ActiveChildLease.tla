-------------------------- MODULE ActiveChildLease --------------------------
(***************************************************************************)
(* The execution ceiling shared by all server processes, and the bounded   *)
(* queue in front of it (src/activeChildLease.ts), together with what a    *)
(* run does with its lease or its ticket (startRunTask in src/runTask.ts). *)
(*                                                                         *)
(* On disk: one directory that serves as the capacity lock, one lease file *)
(* per active run, one ticket file per queued run.  In each process: the   *)
(* queue of its own runs and the pump that promotes the head of it.  A     *)
(* section is what a run's admission or promotion does under the capacity  *)
(* lock; every step of it is one await of the code, between which other    *)
(* processes and other callbacks of the same process run.                  *)
(*                                                                         *)
(* The runs are those without a client_start_id, whose failed starts end   *)
(* in registerRunTaskStateWithAdmission.  A ceiling of 0 disables the      *)
(* whole mechanism and is left out.                                        *)
(***************************************************************************)
EXTENDS Naturals, FiniteSets, Sequences, SequencesExt

CONSTANTS
    Servers,            \* server processes
    Runs,               \* runs they are asked to start
    Owner,              \* the process of each run
    TopLevel,           \* runs without a parent: these may queue
    MaxActiveChildren,  \* SUBAGENT007_MAX_ACTIVE_CHILDREN
    MaxQueuedRuns,      \* SUBAGENT007_MAX_QUEUED_RUNS
    Free                \* the capacity lock directory does not exist

ASSUME OwnerAssumption == Owner \in [Runs -> Servers]
ASSUME TopLevelAssumption == TopLevel \subseteq Runs
ASSUME CapacityAssumption == MaxActiveChildren \in Nat \ {0} /\ MaxQueuedRuns \in Nat
ASSUME FreeAssumption == Free \notin Runs

VARIABLES
    alive,      \* server processes that have not died
    capLock,    \* the run whose section made the lock directory
    leases,     \* runs with an active lease file
    tickets,    \* runs with a queue ticket file
    pc,         \* what each run does next
    queue,      \* localQueuedRuns of each process, by owner_sequence
    ready,      \* queued runs whose waitForLease has been called
    aborted,    \* runs cancelled in the queue or before their launch
    pump,       \* what the pump of each process does next
    releasing,  \* the run whose ticket the pump releases
    wake,       \* ownerPumpWakePending
    timer       \* ownerPumpTimer is set

diskVars == <<capLock, leases, tickets>>
pumpVars == <<pump, releasing, wake, timer>>
vars == <<alive, diskVars, pc, queue, ready, aborted, pumpVars>>

\* How a run ends: refused or complete; its registration has failed; its
\* settlement was refused; it was cancelled before its launch.
Over == {"done", "failed", "stuck", "stranded"}

\* Before admission, in a section, and afterwards.
RunSteps ==
    {"idle"} \cup
    {"lock", "steal", "verify", "count", "lease", "ticket",
     "removeTicket", "undoLease", "unlock"} \cup
    {"admitted", "queued", "attaching", "giveBack", "waiting", "active",
     "readTicket", "unlinkTicket", "settle", "releaseLease"} \cup Over

PumpSteps == {"asleep", "awake", "promoting", "returning", "readTicket", "unlinkTicket"}

TypeOK ==
    /\ alive \in SUBSET Servers
    /\ capLock \in Runs \cup {Free}
    /\ leases \in SUBSET Runs
    /\ tickets \in SUBSET Runs
    /\ pc \in [Runs -> RunSteps]
    /\ queue \in [Servers -> Seq(Runs)]
    /\ ready \in SUBSET Runs
    /\ aborted \in SUBSET Runs
    /\ pump \in [Servers -> PumpSteps]
    /\ releasing \in [Servers -> Runs \cup {Free}]
    /\ \A s \in Servers : releasing[s] # Free <=> pump[s] \in {"readTicket", "unlinkTicket"}
    /\ wake \in [Servers -> BOOLEAN]
    /\ timer \in [Servers -> BOOLEAN]

Init ==
    /\ alive = Servers
    /\ capLock = Free
    /\ leases = {} /\ tickets = {}
    /\ pc = [r \in Runs |-> "idle"]
    /\ queue = [s \in Servers |-> <<>>]
    /\ ready = {} /\ aborted = {}
    /\ pump = [s \in Servers |-> "asleep"]
    /\ releasing = [s \in Servers |-> Free]
    /\ wake = [s \in Servers |-> FALSE]
    /\ timer = [s \in Servers |-> FALSE]

-----------------------------------------------------------------------------
Live(r) == Owner[r] \in alive

At(r, step) == pc[r] = step /\ Live(r)

GoTo(r, step) == pc' = [pc EXCEPT ![r] = step]

\* A section is a promotion once the run waits for its lease.
Promoting(r) == r \in ready

SectionSteps == {"steal", "verify", "count", "lease", "ticket", "removeTicket",
                 "undoLease", "unlock"}

\* wakeOwnerPump: start the pump, or tell the running one to look again.
Wake(s) ==
    IF pump[s] = "asleep"
      THEN /\ pump' = [pump EXCEPT ![s] = "awake"]
           /\ timer' = [timer EXCEPT ![s] = FALSE]
           /\ UNCHANGED <<wake, releasing>>
      ELSE wake' = [wake EXCEPT ![s] = TRUE] /\ UNCHANGED <<pump, timer, releasing>>

\* The pump ends: a wake-up it has missed starts it again.
PumpEnds(s, poll) ==
    /\ pump' = [pump EXCEPT ![s] = IF wake[s] THEN "awake" ELSE "asleep"]
    /\ wake' = [wake EXCEPT ![s] = FALSE]
    /\ timer' = [timer EXCEPT ![s] = (@ \/ poll) /\ ~wake[s]]
    /\ UNCHANGED releasing

\* Bug: the pump sets no timer when the slot is taken.
PumpNeverPolls(s) == PumpEnds(s, FALSE)

\* The head has to wait for a slot: a timer is set, and with it nothing that
\* happens before the finally callback can be lost.
PumpPolls(s) == PumpEnds(s, TRUE)

\* localQueueHead has called waitForLease.
HeadReady(s) == queue[s] # <<>> /\ Head(queue[s]) \in ready

\* localQueuedRuns.delete.
Dequeue(r) ==
    \E i \in DOMAIN queue[Owner[r]] :
        /\ queue[Owner[r]][i] = r
        /\ queue' = [queue EXCEPT ![Owner[r]] = RemoveAt(@, i)]

-----------------------------------------------------------------------------
(* The capacity lock.                                                       *)

\* mkdir succeeds.
TakeLock(r) ==
    /\ At(r, "lock") /\ capLock = Free
    /\ capLock' = r
    /\ GoTo(r, IF Promoting(r) THEN "verify" ELSE "count")
    /\ UNCHANGED <<alive, leases, tickets, queue, ready, aborted, pumpVars>>

\* The directory is older than LOCK_STALE_MS, whoever made it.
FindStaleLock(r) ==
    /\ At(r, "lock") /\ capLock # Free
    /\ GoTo(r, "steal")
    /\ UNCHANGED <<alive, diskVars, queue, ready, aborted, pumpVars>>

\* rm removes whichever directory stands there by now.
StealLock(r) ==
    /\ At(r, "steal")
    /\ capLock' = Free
    /\ GoTo(r, "lock")
    /\ UNCHANGED <<alive, leases, tickets, queue, ready, aborted, pumpVars>>

\* All LOCK_ATTEMPTS met a taken lock: local_capacity_exhausted.  The start
\* fails; the pump polls.
LockBusy(r) ==
    /\ At(r, "lock") /\ capLock # Free
    /\ IF Promoting(r)
         THEN GoTo(r, "waiting") /\ PumpPolls(Owner[r])
         ELSE GoTo(r, "done") /\ UNCHANGED pumpVars
    /\ UNCHANGED <<alive, diskVars, queue, ready, aborted>>

-----------------------------------------------------------------------------
(* Admission.                                                               *)

Start(r) ==
    /\ At(r, "idle")
    /\ GoTo(r, "lock")
    /\ UNCHANGED <<alive, diskVars, queue, ready, aborted, pumpVars>>

LiveLeases == {r \in leases : Live(r)}
LiveTickets == {r \in tickets : Live(r)}

\* pruneStaleLeases, and what its count decides.
CountActive(r) ==
    /\ At(r, "count")
    /\ leases' = LiveLeases
    /\ \/ /\ Cardinality(LiveLeases) < MaxActiveChildren
          /\ ~(Promoting(r) /\ r \in aborted)
          /\ GoTo(r, "lease")
       \/ /\ Cardinality(LiveLeases) >= MaxActiveChildren
          /\ ~Promoting(r) /\ r \in TopLevel /\ MaxQueuedRuns > 0
          /\ GoTo(r, "ticket")
       \/ /\ \/ /\ Cardinality(LiveLeases) >= MaxActiveChildren
                /\ Promoting(r) \/ r \notin TopLevel \/ MaxQueuedRuns = 0
             \/ Promoting(r) /\ r \in aborted
          /\ GoTo(r, "unlock")
    /\ UNCHANGED <<alive, capLock, tickets, queue, ready, aborted, pumpVars>>

WriteLease(r) ==
    /\ At(r, "lease")
    /\ leases' = leases \cup {r}
    /\ GoTo(r, IF Promoting(r) THEN "removeTicket" ELSE "unlock")
    /\ UNCHANGED <<alive, capLock, tickets, queue, ready, aborted, pumpVars>>

\* queueTicketRecords drops the tickets of dead owners; a full queue rejects.
WriteTicket(r) ==
    /\ At(r, "ticket")
    /\ IF Cardinality(LiveTickets) < MaxQueuedRuns
         THEN /\ tickets' = LiveTickets \cup {r}
              /\ queue' = [queue EXCEPT ![Owner[r]] = Append(@, r)]
         ELSE tickets' = LiveTickets /\ UNCHANGED queue
    /\ GoTo(r, "unlock")
    /\ UNCHANGED <<alive, capLock, leases, ready, aborted, pumpVars>>

\* The lock directory is removed whoever made it, and the section's result
\* reaches its caller.
Unlock(r) ==
    /\ At(r, "unlock")
    /\ capLock' = Free
    /\ \/ /\ ~Promoting(r)
          /\ GoTo(r, IF r \in leases THEN "admitted"
                     ELSE IF r \in tickets THEN "queued" ELSE "done")
          /\ UNCHANGED <<queue, pumpVars>>
       \/ /\ Promoting(r) /\ r \in leases      \* resolve, and on to the next head
          /\ GoTo(r, "active")
          /\ Dequeue(r)
          /\ pump' = [pump EXCEPT ![Owner[r]] = "awake"]
          /\ UNCHANGED <<releasing, wake, timer>>
       \/ /\ Promoting(r) /\ r \notin leases /\ r \in aborted
          /\ GoTo(r, "waiting")
          /\ pump' = [pump EXCEPT ![Owner[r]] = "awake"]
          /\ UNCHANGED <<queue, releasing, wake, timer>>
       \/ /\ Promoting(r) /\ r \notin leases /\ r \notin aborted
          /\ GoTo(r, "waiting")
          /\ PumpPolls(Owner[r])
          /\ UNCHANGED queue
    /\ UNCHANGED <<alive, leases, tickets, ready, aborted>>

-----------------------------------------------------------------------------
(* Promotion by the owner's pump.                                           *)

TimerFires(s) ==
    /\ s \in alive /\ timer[s] /\ pump[s] = "asleep"
    /\ pump' = [pump EXCEPT ![s] = "awake"]
    /\ timer' = [timer EXCEPT ![s] = FALSE]
    /\ UNCHANGED <<alive, diskVars, pc, queue, ready, aborted, releasing, wake>>

PumpIdles(s) ==
    /\ s \in alive /\ pump[s] = "awake"
    /\ ~HeadReady(s)
    /\ pump' = [pump EXCEPT ![s] = "returning"]
    /\ UNCHANGED <<alive, diskVars, pc, queue, ready, aborted, releasing, wake, timer>>

\* The finally callback runs a microtask after the return: a wake-up missed
\* until then starts the pump again.
PumpReturns(s) ==
    /\ s \in alive /\ pump[s] = "returning"
    /\ PumpEnds(s, FALSE)
    /\ UNCHANGED <<alive, diskVars, pc, queue, ready, aborted>>

PumpPromotes(s) ==
    /\ s \in alive /\ pump[s] = "awake" /\ HeadReady(s)
    /\ LET r == Head(queue[s]) IN
         /\ r \notin aborted
         /\ GoTo(r, "lock")
    /\ pump' = [pump EXCEPT ![s] = "promoting"]
    /\ UNCHANGED <<alive, diskVars, queue, ready, aborted, releasing, wake, timer>>

\* Bug: the ticket goes before the lease stands.
VerifyAndRemoveTicket(r) ==
    /\ At(r, "verify")
    /\ tickets' = tickets \ {r}
    /\ GoTo(r, IF r \in aborted THEN "unlock" ELSE "count")
    /\ UNCHANGED <<alive, capLock, leases, queue, ready, aborted, pumpVars>>

\* promoteLocalQueueHead, after the lock: the ticket is still there (QueuedHoldTicket).
VerifyTicket(r) ==
    /\ At(r, "verify")
    /\ GoTo(r, IF r \in aborted THEN "unlock" ELSE "count")
    /\ UNCHANGED <<alive, diskVars, queue, ready, aborted, pumpVars>>

\* The lease stands before the ticket goes.
RemoveTicket(r) ==
    /\ At(r, "removeTicket")
    /\ tickets' = tickets \ {r}
    /\ GoTo(r, IF r \in aborted THEN "undoLease" ELSE "unlock")
    /\ UNCHANGED <<alive, capLock, leases, queue, ready, aborted, pumpVars>>

\* Cancelled during the promotion: lease.release() wakes the pump that runs it.
UndoLease(r) ==
    /\ At(r, "undoLease")
    /\ leases' = leases \ {r}
    /\ GoTo(r, "unlock")
    /\ Wake(Owner[r])
    /\ UNCHANGED <<alive, capLock, tickets, queue, ready, aborted>>

\* releaseOwnedQueueTicket of a cancelled head: the waiter is rejected first,
\* and goes on to release the same ticket, before the pump has read it.
PumpRejects(s) ==
    /\ s \in alive /\ pump[s] = "awake" /\ HeadReady(s)
    /\ LET r == Head(queue[s]) IN
         /\ r \in aborted
         /\ GoTo(r, "readTicket")
         /\ Dequeue(r)
         /\ releasing' = [releasing EXCEPT ![s] = r]
    /\ pump' = [pump EXCEPT ![s] = "readTicket"]
    /\ UNCHANGED <<alive, diskVars, ready, aborted, wake, timer>>

\* No ticket left to remove: wake the pump, which is the caller.
PumpReadsTicket(s) ==
    /\ s \in alive /\ pump[s] = "readTicket"
    /\ IF releasing[s] \in tickets
         THEN pump' = [pump EXCEPT ![s] = "unlinkTicket"] /\ UNCHANGED <<releasing, wake>>
         ELSE /\ pump' = [pump EXCEPT ![s] = "awake"]
              /\ wake' = [wake EXCEPT ![s] = TRUE]
              /\ releasing' = [releasing EXCEPT ![s] = Free]
    /\ UNCHANGED <<alive, diskVars, pc, queue, ready, aborted, timer>>

PumpUnlinksTicket(s) ==
    /\ s \in alive /\ pump[s] = "unlinkTicket" /\ releasing[s] \in tickets
    /\ tickets' = tickets \ {releasing[s]}
    /\ pump' = [pump EXCEPT ![s] = "awake"]
    /\ wake' = [wake EXCEPT ![s] = TRUE]
    /\ releasing' = [releasing EXCEPT ![s] = Free]
    /\ UNCHANGED <<alive, capLock, leases, pc, queue, ready, aborted, timer>>

\* The ticket went between the pump's read and its rm: pumpOwnerQueue rejects,
\* nobody handles the rejection, and the server process exits.
PumpThrows(s) ==
    /\ s \in alive /\ pump[s] = "unlinkTicket" /\ releasing[s] \notin tickets
    /\ alive' = alive \ {s}
    /\ UNCHANGED <<diskVars, pc, queue, ready, aborted, pumpVars>>

-----------------------------------------------------------------------------
(* The run.                                                                 *)

\* registerRunTaskState writes the run's first durable claim.  A run without a
\* parent has no lineage to record and goes on at once.
Register(r) ==
    /\ At(r, "admitted") \/ At(r, "queued")
    /\ IF pc[r] = "admitted"
         THEN /\ GoTo(r, IF r \in TopLevel THEN "active" ELSE "attaching")
              /\ UNCHANGED <<ready, pumpVars>>
         ELSE /\ GoTo(r, "waiting")          \* waitForLease
              /\ ready' = ready \cup {r}
              /\ Wake(Owner[r])
    /\ UNCHANGED <<alive, diskVars, queue, aborted>>

\* The claim could not be written, or recordParentChildRun was refused.
RegisterFails(r) ==
    /\ At(r, "admitted") \/ At(r, "queued") \/ At(r, "attaching")
    /\ GoTo(r, "giveBack")
    /\ IF pc[r] = "queued" THEN Dequeue(r) ELSE UNCHANGED queue
    /\ UNCHANGED <<alive, diskVars, ready, aborted, pumpVars>>

\* Bug: a failed registration forgets the lease or the ticket.
GiveBackNothing(r) ==
    /\ At(r, "giveBack")
    /\ GoTo(r, "failed")
    /\ UNCHANGED <<alive, diskVars, queue, ready, aborted, pumpVars>>

\* The catch block of registerRunTaskStateWithAdmission.
GiveBack(r) ==
    /\ At(r, "giveBack")
    /\ leases' = leases \ {r} /\ tickets' = tickets \ {r}
    /\ Wake(Owner[r])
    /\ GoTo(r, "failed")
    /\ UNCHANGED <<alive, capLock, queue, ready, aborted>>

\* cancel_run while the lineage is recorded.
CancelEarly(r) ==
    /\ At(r, "attaching") /\ r \notin aborted
    /\ aborted' = aborted \cup {r}
    /\ UNCHANGED <<alive, diskVars, pc, queue, ready, pumpVars>>

\* The lineage stands.  For a run cancelled by now startRunTask throws, and
\* without a client_start_id nothing settles the run or releases its lease.
Launch(r) ==
    /\ At(r, "attaching")
    /\ GoTo(r, IF r \in aborted THEN "stranded" ELSE "active")
    /\ UNCHANGED <<alive, diskVars, queue, ready, aborted, pumpVars>>

\* cancel_run of a run that waits in the queue.  (Of an active run, it is one of
\* the ways its child ends.)
Cancel(r) ==
    /\ Live(r) /\ r \in ready \ aborted
    /\ pc[r] \in SectionSteps \cup {"lock", "waiting"}
    /\ aborted' = aborted \cup {r}
    /\ Wake(Owner[r])
    /\ UNCHANGED <<alive, diskVars, pc, queue, ready>>

\* The child has ended, or was never launched.
Finish(r) ==
    /\ At(r, "active")
    /\ GoTo(r, IF r \in ready THEN "readTicket" ELSE "settle")
    /\ UNCHANGED <<alive, diskVars, queue, ready, aborted, pumpVars>>

\* releaseQueueTicket in the run's finally block.
ReadTicket(r) ==
    /\ At(r, "readTicket")
    /\ IF r \in tickets
         THEN GoTo(r, "unlinkTicket") /\ UNCHANGED pumpVars
         ELSE GoTo(r, "settle") /\ Wake(Owner[r])
    /\ UNCHANGED <<alive, diskVars, queue, ready, aborted>>

\* A ticket that is gone by now makes rm throw; the run logs that and goes on.
UnlinkTicket(r) ==
    /\ At(r, "unlinkTicket")
    /\ tickets' = tickets \ {r}
    /\ IF r \in tickets THEN Wake(Owner[r]) ELSE UNCHANGED pumpVars
    /\ GoTo(r, "settle")
    /\ UNCHANGED <<alive, capLock, leases, queue, ready, aborted>>

\* settleRunClaim writes the terminal claim ...
Settle(r) ==
    /\ At(r, "settle")
    /\ GoTo(r, "releaseLease")
    /\ UNCHANGED <<alive, diskVars, queue, ready, aborted, pumpVars>>

\* ... or throws, and while no terminal claim is on disk the lease stays.
SettleRefused(r) ==
    /\ At(r, "settle")
    /\ GoTo(r, "stuck")
    /\ UNCHANGED <<alive, diskVars, queue, ready, aborted, pumpVars>>

\* releaseChildLease follows the terminal claim.  A run whose promotion was
\* refused has no lease left to release.
ReleaseLease(r) ==
    /\ At(r, "releaseLease")
    /\ leases' = leases \ {r}
    /\ IF r \in leases THEN Wake(Owner[r]) ELSE UNCHANGED pumpVars
    /\ GoTo(r, "done")
    /\ UNCHANGED <<alive, capLock, tickets, queue, ready, aborted>>

Crash(s) ==
    /\ s \in alive
    /\ alive' = alive \ {s}
    /\ UNCHANGED <<diskVars, pc, queue, ready, aborted, pumpVars>>

-----------------------------------------------------------------------------
SectionStep(r) ==
    \/ TakeLock(r) \/ FindStaleLock(r) \/ StealLock(r) \/ LockBusy(r)
    \/ VerifyTicket(r) \/ CountActive(r) \/ WriteLease(r) \/ WriteTicket(r)
    \/ RemoveTicket(r) \/ UndoLease(r) \/ Unlock(r)

RunStep(r) ==
    \/ Register(r) \/ GiveBack(r) \/ Launch(r) \/ Finish(r) \/ ReadTicket(r) \/ UnlinkTicket(r)
    \/ Settle(r) \/ ReleaseLease(r)

\* What a run may meet, and need not.
RunTrouble(r) == RegisterFails(r) \/ SettleRefused(r) \/ Cancel(r) \/ CancelEarly(r)

PumpStep(s) ==
    \/ TimerFires(s) \/ PumpIdles(s) \/ PumpReturns(s) \/ PumpPromotes(s) \/ PumpRejects(s)
    \/ PumpReadsTicket(s) \/ PumpUnlinksTicket(s)

Next ==
    \/ \E r \in Runs : Start(r) \/ SectionStep(r) \/ RunStep(r) \/ RunTrouble(r)
    \/ \E s \in Servers : PumpStep(s) \/ PumpThrows(s) \/ Crash(s)

Spec == Init /\ [][Next]_vars

-----------------------------------------------------------------------------
(* Two processes that find the lock of a dead one both remove the directory, *)
(* and the second may remove the one the first has made anew; and a section  *)
(* slower than LOCK_STALE_MS loses its lock while it runs.  The executions   *)
(* in which removals do not overlap and no living section is that slow:      *)

SoleThief == \A r, q \in Runs : At(r, "steal") /\ At(q, "steal") => r = q

\* Bug: LOCK_STALE_MS is shorter than a section takes.
FindYoungLock(r) == FindStaleLock(r) /\ SoleThief'

SerialFindStaleLock(r) == FindStaleLock(r) /\ ~Live(capLock) /\ SoleThief'

SerialSectionStep(r) ==
    \/ TakeLock(r) \/ SerialFindStaleLock(r) \/ StealLock(r) \/ LockBusy(r)
    \/ VerifyTicket(r) \/ CountActive(r) \/ WriteLease(r) \/ WriteTicket(r)
    \/ RemoveTicket(r) \/ UndoLease(r) \/ Unlock(r)

SerialNext ==
    \/ \E r \in Runs : Start(r) \/ SerialSectionStep(r) \/ RunStep(r) \/ RunTrouble(r)
    \/ \E s \in Servers : PumpStep(s) \/ PumpThrows(s) \/ Crash(s)

SerialSpec == Init /\ [][SerialNext]_vars

\* Every await resolves, the poll timer fires, and every active run ends (each
\* has a timeout).  A lock whose process died grows older than LOCK_STALE_MS, so
\* a run that tries again and again finds it stale.  Nobody has to start a run,
\* cancel one, or crash.
FairSerialSpec ==
    /\ SerialSpec
    /\ \A r \in Runs : /\ WF_vars(SerialSectionStep(r))
                        /\ SF_vars(SerialFindStaleLock(r))
                        /\ WF_vars(RunStep(r) \/ RegisterFails(r) \/ SettleRefused(r))
    /\ \A s \in Servers : WF_vars(PumpStep(s) \/ PumpThrows(s))

-----------------------------------------------------------------------------
\* SUBAGENT007_MAX_ACTIVE_CHILDREN "is the shared local execution ceiling"
\* (README.md:413): the runs that hold a lease never exceed it, nor do the tickets of all
\* processes together exceed SUBAGENT007_MAX_QUEUED_RUNS, whichever processes admit and
\* promote at the same time.
CapacityRespected ==
    /\ Cardinality(LiveLeases) <= MaxActiveChildren
    /\ Cardinality(LiveTickets) <= MaxQueuedRuns

InQueue == {r \in Runs : \E i \in DOMAIN queue[Owner[r]] : queue[Owner[r]][i] = r}

\* A run its owner still queues holds its ticket or, while the promotion hands
\* over, its lease; an active run holds its lease.  Another process that finds
\* neither takes the owner for lost (persistedRunLiveness, src/runTask.ts:4141).
LiveRunsAreAttributable ==
    \A r \in Runs : Live(r) =>
        /\ r \in InQueue /\ r \notin aborted => r \in leases \cup tickets
        /\ pc[r] \in {"attaching", "active"} => r \in leases

\* A run that is over leaves neither lease nor ticket behind in a living process:
\* complete, refused by admission, or failed at any step of its registration.  Two
\* kinds of run keep their lease as long as the process lives: one whose settlement
\* was refused (src/runTask.ts:3119), and one that was cancelled while its lineage was
\* recorded (src/runTask.ts:4773).
NothingLeaks ==
    \A r \in Runs : At(r, "idle") \/ (Live(r) /\ pc[r] \in Over) =>
        /\ r \notin tickets
        /\ r \in leases => pc[r] \in {"stuck", "stranded"}

\* The slots are held by runs that never release them.
Clogged ==
    Cardinality({r \in LiveLeases : pc[r] \in {"stuck", "stranded"}}) = MaxActiveChildren

\* Whoever waits in the queue of a living process is admitted or rejected: a
\* run is queued once, so the queues of the living keep getting empty, unless
\* refused settlements take every slot.
QueuedRunsSettle == []<>((\A r \in InQueue : ~Live(r)) \/ Clogged)

\* Releasing the ticket of a cancelled run never makes the owner's pump throw:
\* the rejection would be nobody's to handle and end the process with all its
\* runs (src/activeChildLease.ts:349).
PumpNeverThrows ==
    \A s \in alive : pump[s] = "unlinkTicket" => releasing[s] \in tickets
=============================================================================
