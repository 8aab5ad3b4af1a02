# Verification of the subagent execution substrate

The repository is an MCP server that runs coding agents as child processes and
keeps a durable record of every run on the local file system. Several server
processes share that file system without a coordinator. What is hard about the
program is therefore what a unit test hardly reaches: two processes between two
file operations, a process that dies between them, a call that is repeated
because its answer was lost. These modules model that part of the program at the
grain of one file operation or one `await` per step; TLC checks them on small
instances, and TLAPS proves most of their safety for every instance.

Paths such as `runTask.ts` are relative to `src/src/`.

## Inventory

| Component | State it keeps | Operations | Hard about it | What makes it correct |
|---|---|---|---|---|
| Claim lock (`runClaimLock.ts`) | one lock file per run | acquire, reclaim of a dead owner's record, release | reclaim by path, crash inside | critical section; a dead owner does not block a run |
| Capacity and queue (`activeChildLease.ts`, callers in `runTask.ts`) | lease files, ticket files, the capacity directory; per process: queue, pump, timer | admit, queue, promote, cancel, release | shared ceiling, pump wake-ups, two parties release one ticket | ceiling holds, nothing leaks, every queued run settles |
| Owner loss (`getPersistedRunTask`, `runTask.ts`) | the claim of each run | liveness reads, two-phase settlement as `restart_drift` | stale reads while the owner promotes or settles | a living owner's run is not settled; a terminal claim is final |
| Client start (`clientStartAdmission.ts`, `runTask.ts`) | admission record per token, prepared candidates, run snapshots, admission lock | start, replay, reconcile, recover, `cancel_client_start` | concurrent starts, crash at every stage, cancellation against launch | one run and one child per token; true containment reports |
| Named sessions (`session.ts`) | `run.lock`, session file, ledger, manifest, pending commit, attempt workspaces | turn, commit, recovery | crash or failure in a commit of three files | three files agree; a turn is in the log once or never |
| Run lifecycle (`runTask.ts`, `runLifecycle.ts`, `runEvents.ts`) | claim with phases, events, receipts, the reason it stopped; the owner's copy in memory | transitions under an in-process owner chain, acceptance of receipts and cancellations, settlement | two validators judge each write; a refused terminal write is only logged | a terminal claim says what happened; whatever happened can be said |
| Output artifacts (`output.ts`, `runSubagent.ts`, `runTask.ts`) | staged and public documents, a note and references in the claim | stage, note, publish, refer, clean up, sweep at startup | crash between two renames, cleanup beside other observers | a public document has an owner on disk, a reference has its document |
| Authoring effect scope (`authoringEffectScope.ts`) | the task root as captured before the launch | capture, recapture by the child, inspection at the end | edits in between | a completed run leaves what it declared, in an unaltered root |
| Input mailbox (`inputMailbox.ts`, `runTask.ts`) | request and terminal files, in-memory deliveries | ask, answer, time out, close, list | answer against timeout against cancellation | settled once; the caller learns the truth |
| Recursive delegation (`recursiveControl.ts`, `recursiveDelegateTool.ts`, `runTask.ts`, `server.ts`) | lineage in memory and claims, call identifiers | delegate, rejoin, settle descendants | parent ends while a child is being attached | no descendant outlives its ancestor |
| Child process runner (`processRunner.ts`, `episodeBash.ts`, `piChildControl.ts`) | stop reason, timers, registered process groups | spawn, stop, kill, settle groups | timeout, cancellation, disk and exit race | one stop reason, no group left behind |
| Child side of a run (`piChild.ts`, `runSubagent.ts`) | what it was told to confirm; its transcript and answer | preflight, receipts, prompt, tools, result | receipts and prompt on one stream, control loss | nothing is claimed of a child that it has not shown |
| Skill snapshots (`skillSnapshotStore.ts`, `skillSnapshot.ts`) | snapshot directories, references, publication records, locks | materialise, register, claim, commit, close, delete, resolve | deletion against registration, retries behind a crash | a referenced snapshot exists; a commit and a closing last |
| Failure log and storage (`failureLog.ts`, `failureStorageWorker.ts`, `failureStorage.ts`) | queue and worker thread, `failures.jsonl`, archives, summaries, lock directory | append, archive, prune | append during an archive, a worker that exits, crash in the lock | the newest records within the budget; saturation ends |
| Controllers and research dispatch (`boundedController.ts`, `researchDispatchMediator.ts`) | queue of commands, the controller's job, reservations | initialise, start, claim, record, complete | two writers of one job, a kill behind the write | no web call without a reservation of its own |
| MCP server, schemas, readiness reports, build scripts | | validation, formatting, prompts, reports | | stateless, or outside the server; not modelled |

How they interact: `start_run` goes through *client start* (if it carries a
token), then admission by *capacity and queue*, registration of the claim under
the *claim lock*, the launch in the *process runner*, and the settlement of the claim, after
which the lease is released. The run's *documents* are staged before the claim notes them and
are public before the claim refers to them; its *evidence* (receipts, spawn, exit) goes from
the child's lines into the owner's memory and from there into the claim. `get_run` in
another server reads the claim and asks leases and tickets whether its owner still lives;
`cancel_run` sets a flag, closes
the *mailbox* and fires an abort signal that the queue's pump or the runner sees.
A named-session run takes the same path and wraps its child in a *session* turn.
All of this goes through files; a process's own calls meet in memory, in the
queue and in the table of resident runs.

`PROJECT.json` lists the components with their state of modelling, and the hazards
of the code at their lines with the properties that cover them.

## Modules

| Module | Models | Notes |
|---|---|---|
| `CriticalSection` | abstract: who is inside | the promise of the claim lock |
| `RunClaimLock` | `runClaimLock.ts` | `Link`, `ReadOwner`, `Reread`, `UnlinkAbandoned`, `CheckOwner`, `UnlinkOwn` are the file operations, in the code's order |
| `ActiveChildLease` | `activeChildLease.ts` and what `startRunTask` does with a lease or a ticket | one step per `await` of a section; the pump is a process of its own per server |
| `RunReconciliation` | the observer in `getPersistedRunTask` | extends `ActiveChildLease`: the same owners, with the claim of each run and another server that reads it |
| `StartToken` | abstract: a token is bound or fenced once | the promise of client start |
| `ClientStart` | `clientStartAdmission.ts` and its callers in `runTask.ts` | starts and cancellations of one token; files, guard, the owner's launch, crashes |
| `SessionLog` | abstract: one growing log of turns and what callers are told | the promise of a session |
| `NamedSession` | `session.ts` | lock, turn, pending commit, recovery, failures of single steps |
| `RunOwner` | one running run in `runTask.ts`, with `inputMailbox.ts`, the tools of `piChild.ts` and `piChildControl.ts`, and its descendants | an operation under `withRunOwner` is one action; the child, the lines and frames in transit, the control socket, and the two loops that close files are steps of their own |
| `ClaimEvidence` | the claim of one run from its launch to its end: `runTask.ts`, `runLifecycle.ts`, `runEvents.ts`, `runSubagent.ts`, `piChild.ts`, `authoringEffectScope.ts` | `Persist` is `writeRunClaimOwned` with both of its validators, and a write may fail before or behind its rename; the child is one line ahead of its owner |
| `TerminalOutputs` | `output.ts`, the end of `runSubagentCore`, the finalization, the sweep and the recovery in `runTask.ts` | one step per rename, removal and write of the claim; owner core and owner finalization are two threads; observers are servers |
| `ProcessRunner` | `processRunner.ts` with `episodeBash.ts` and `piChildControl.ts` | one step per callback; timers, streams, the output chain, the process groups and the ways the owner ends |
| `SkillSnapshots` | `skillSnapshotStore.ts`, publication and resolution in `skillSnapshot.ts` | one step per file operation; each call runs in a process of its own |
| `FailureStorage` | `failureLog.ts`, `failureStorageWorker.ts`, `failureStorage.ts` | queue, worker thread and its idle timer, lock directory, append, archive, prune |
| `ResearchDispatch` | `boundedController.ts`, `researchDispatchMediator.ts` | the controller's script is external: modelled by what the mediator relies on |
| `ClientStartProofs`, `TerminalOutputsProofs`, `ResearchDispatchProofs`, `SkillSnapshotsProofs` | — | the theorems about the module of that name |
| `RunReconciliationProofs`, `RunnerAndLockProofs`, `SessionAndEvidenceProofs`, `OwnerAndStorageProofs` | — | the theorems about two modules each: `ActiveChildLease` and `RunReconciliation`; `ProcessRunner` and `RunClaimLock`; `NamedSession` and `ClaimEvidence`; `RunOwner` and `FailureStorage` |
| `MC…` | — | instances for TLC |

What composes what: `RunReconciliation` extends `ActiveChildLease`, so that an observer reads
the leases and tickets of the very owners that queue and promote. The other modules meet at
the claim. Each keeps the part of it that its own properties tell apart: `RunReconciliation`
the status against leases, `RunOwner` requests and lineage, `TerminalOutputs` note and
references, `ClaimEvidence` events, receipts and outcome. A full product of them is beyond
TLC; where one relies on another it says so (a run's owner is alive or not in
`TerminalOutputs`; the stop reason is computed in `ClaimEvidence` by the table that
`ProcessRunner` models in detail).

State and actions carry the names of the code where there is one. An owner record,
a lease or a candidate is named by the run or the call it belongs to: its nonces
are fresh, so two of them are never equal. A hash of a session file is its content,
which is the sequence of the turns in it. Times are left out; an operation that
depends on a period (a poll, a retry interval, a staleness bound) may happen at any
time its other conditions allow, except for the 5 s staleness bound of the capacity
lock (below).

`RunOwner` keeps the three places where an input request has a status apart: the files
(`mailbox`), what `get_run` reads (`inputRequests`), and the claim file
(`claim.requests`). `ActiveWriteAccepted` and `TerminalWriteAccepted` are the
assertions that `writeRunClaimOwned` makes of the next view; a write that fails them
changes nothing, and its caller fails the way the code does.

## Runs

Each run is the `.cfg` of that name with its `MC` module.

| Run | Instance | Distinct states | Shows |
|---|---|---|---|
| `RunClaimLock` | 3 calls, 3 processes, 2 attempts; overlapping reclaims included, fair | 50,904 | the lock is a critical section but for a call that an overlapping reclaim has robbed of its record; a dead owner's record is removed by whoever waits |
| `ActiveChildLease` | 2 top-level runs and one with a parent, 2 servers, 1 slot, 2 tickets; serial, fair | 487,646 | ceiling and queue limit, attribution, nothing leaks but two named kinds of lease, every queued run settles although a wake-up may be lost between servers, unless such leases take every slot |
| `RunReconciliation` | 3 runs, 2 of them top-level, 2 servers, 1 slot, 1 ticket, an observer per server; serial | 6,674,580 | only a run that was cancelled without its lease, or whose registration failed behind its claim, can be taken for lost while its owner lives; a terminal claim is final |
| `ClientStart` | 3 starts, one with another body, 1 cancellation, 2 servers; fair | 492,228 | one binding or fence per token, recoverability, true answers and containments, every call is answered |
| `NamedSession` | 3 turns on 3 servers, one of each resume mode; serial | 466,040 | three files agree, a pending commit can be applied, workspaces are owned, one log that only grows |
| `RunOwner` | 2 requests, 1 message, 2 responses, 2 callers of `answer_run_input`, 1 cancellation, 1 descendant; fair | 485,151 | receipts are true, one outcome per request in three places, the descendant settles first, callers return, the run ends |
| `ClaimEvidence` | one of 3 declarations (a system skill; an authoring scope; a bounded Researcher), 2 agent lines, 2 cancellations, 1 failing write or wrong receipt, 9 events kept | 1,102,630 | a terminal claim is true, as to the task root up to its inspection; the owner's validators refuse its own terminal claim in five named corners only |
| `TerminalOutputs` | 2 observers, 2 failures, 1 crash of an observer, any death of the owner; fair | 187,168 | public documents have an owner on disk, references have documents, an abandoned pair goes |
| `ProcessRunner` | 1 bash call, 1 line on either of two streams, 1 check of the disk; fair | 962,928 | commands run in owned groups, nothing outlives the runner, completed is true, the runner returns |
| `SkillSnapshots` | 2 exact publications (symmetric), 1 closing, 2 deletions (symmetric), 1 resolution, 2 snapshots, 1 crash | 870,160 | referenced snapshots exist, commits and closings keep their references, a resolution answers for a retained source |
| `FailureStorage` | 1 server with 4 records, 2 archivers, budget 2, queue 2, 1 crash, any failures; fair | 1,708,628 | the newest records within the budget, but for one of each append whose prune did not end; saturation ends |
| `ResearchDispatch` | 2 web calls with equal arguments, 2 attempts, 1 failing command, 2 result events per call; fair | 138,915 | no provider runs without a reservation of its own, nobody waits for ever |

Deadlock is not checked: every one of these systems may really stop, when all its calls
have been answered or its processes have died.

Why the bounds are enough. The lock protocols are about pairs (a holder and a waiter, or two
reclaimers) and a third party that has died; three calls are the smallest instance with all
of them. One slot, with one or two runs in the queue, gives every order of promotion,
cancellation and release; the run of the other server has a parent, so that it never queues
and its lineage may be refused or cancelled. Three starts on two servers give a winner, a
loser on the same server and a loser on another one; the third carries another body. Three
turns give a commit that dies, a recovery that dies, and a recovery of both. Two requests
give one that is pending behind one that has timed out or was answered; two callers and two
responses give an exact retry, a conflicting answer and two callers of one delivery; one
descendant is enough for an invariant about each of them. Nine events (the code keeps 25,
`MAX_RECENT_EVENTS`) are few enough for two messages and two cancellations to push one out,
and enough for everything the evidence rules look for in a run that says less. Two observers
give one that cleans beside one that settles or that was killed half way. One bash call has
every interleaving of its registration with the end of child and owner; groups do not
interact but through the set the owner keeps. Two snapshots and a publication that binds
them in an order, retried by another process, give partial publications, and a closing and a
deletion between any two of their steps; the second deletion meets what the first has left
when it died. Four records over a budget of two give a log that is pruned while a second
archive is made. For the modules with proofs the bounds matter for liveness only.

The type invariants are theorems. That of `FailureStorage` (`FailureTypeOK`) holds in the
instance of its run, which is seen by adding it to the `.cfg`; it is left out, as it says nothing
the other properties do not need.

An operator whose comment begins with `Bug:` is a plausible mistake in the
definition that follows it: a dropped guard, a missing re-read, a wrong order. It is
used by no specification. `PROJECT.json` pairs each with a property that it breaks,
so that every property is known to be sensitive to the code it is about.

### Premises

*Serial reclaims.* The removal of a stale lock is a read of a path followed by a removal of
whatever the path holds by then. For the claim lock nothing is assumed of that race: its
module has every interleaving and remembers whom it robs (below). For the capacity lock and
the session lock the specifications named `Serial…` are the executions in which at most one
party at a time is between the two; `Spec` of the same module has them all. In
`SkillSnapshots` and `FailureStorage` the two are one step. Everything else may interleave
freely.

*No slow section.* The capacity lock is stolen once it is 5 s old, whoever holds it
(`FindStaleLock`). The checked and proved specification steals it only when its owner has died
(`SerialFindStaleLock`): a living section that takes longer than that is outside of it.

*Releases succeed.* `releaseChildLease` tries four times; the model takes one of them to succeed. In
`FailureStorage` a raw archive that exists can be measured (one that cannot is left out of the
total and of the prune, `failureStorage.ts:99`), and the release of the lock does not fail.

*Owner liveness.* `TerminalOutputs` lets an observer act on a lost run only when its owner is
dead; that the code's test for this errs for one kind of run is the business of
`RunReconciliation`.

*Named races and failures.* Some things the code cannot exclude are in the models and
remembered in history variables; a property that fails behind one names it.
- `RunClaimLock`, `robbed`: calls whose record a slower reclaimer has unlinked, and whoever is
  robbed in turn by the release of such a call.
- `ActiveChildLease`, the places `stuck` (the settlement was refused, and its lease kept on
  purpose) and `stranded` (cancelled while the lineage was recorded, without a `client_start_id`).
- `NamedSession`, `kept`: calls whose `finally` block could not remove the workspace, or could
  not read the pending commit.
- `FailureStorage`, `overdue`: how many appends have left the log over its budget, because
  their prune failed or its party died, since a prune last ended; `failed`: archiving calls
  that could not write their summary.
- `RunOwner`, `races`. *overtaken*: an input line of the child is observed after
  `acceptRunCancellation` has closed the requests in the claim and before
  `closePendingInputRequestsForRun` has closed the files (`runTask.ts:5190`). *orphaned*: the
  child ends while its delegate call is under way, before `state.promise` is the descendant's
  execution (`runTask.ts:1949`, `4779`, `4826`) or while its request is still in the control
  socket. *unproven*: the terminal claim is refused for its evidence, one of the five corners
  of item 12 below, which `ClaimEvidence` tells apart. A descendant whose lineage is refused is
  `abandoned`: its own claim stays `working`.

*Crashes* are of whole processes, between any two steps. Writes by rename or link
are atomic, as the code relies on; a rename may be followed by an error (the directory's
sync). Loss of data by the operating system is not modelled.

### Fairness

Weak fairness of the steps of a call in a living process: a pending `await` resolves
and callbacks run, which Node's event loop provides as long as the file system
answers. Nothing obliges a caller to begin, to cancel, or a process to crash.

- `RunClaimLock`, `ClientStart`: the steps of a call; in `ClientStart` also of the owner it
  starts.
- `ActiveChildLease`: the sections, the runs (a child ends because its run has a timeout) and
  the pump, whose timer the code sets. An ended run's settlement succeeds or is refused, either is
  progress. Strong fairness of one step: who polls a lock whose
  owner died finds it stale, although others may hold it in between; a polling loop with a
  fixed period cannot be timed to miss it for ever.
- `RunOwner`: the owner observes lines, goes on settling, `cancel_run` goes on closing, a
  descendant goes on to its end, and an aborted child is killed. Nothing makes a child end by
  itself, answer, or print.
- `ProcessRunner`: callbacks and the two termination timers; a group that was sent SIGKILL
  ends. Nothing makes a child or a command end by itself.
- `FailureStorage`: worker, server and archiver steps; nobody has to log.
- `ResearchDispatch`: the head of the queue proceeds (a controller is killed after two
  seconds), answered promises continue, a provider returns. Nothing makes the model call.
- `TerminalOutputs`: an observer finishes what it began. That an abandoned pair goes is
  conditional on servers being started again and again.

`NamedSession`, `RunReconciliation`, `SkillSnapshots` and `ClaimEvidence` are checked for
safety only.

## Where the code differs from what is said of it

None of these is a run of the project. Those with a name in parentheses are definitions kept
in the modules, which TLC refutes when they are put into the `.cfg` (the second under
`Spec` instead of the serial specification, the fourth with one body for all starts).

1. *Claim lock* (`NobodyIsRobbed`, `runClaimLock.ts:72`). Two waiters that have both read a
   dead owner's record twice: one unlinks it and links its own, the other's unlink then
   removes that one. Two operations of one run overlap.
2. *Session lock* (`HolderKeepsLock`, `session.ts:330`). The same pattern with one read; the
   living holder loses the lock that "elapsed time never transfers". And a server that dies
   between the creation of `run.lock` and the write of its owner leaves a file that nobody
   takes for stale (`session.ts:303`, state `written = FALSE`).
3. *Queue pump* (`PumpNeverThrows`, `activeChildLease.ts:295`). A cancelled queued run is
   rejected by the pump first, so its own `finally` block releases the ticket at the same time
   as the pump; the second `rm` throws, in the pump as a rejection without a handler.
4. *False conflict* (`ExactReplayNeverConflicts`, `runTask.ts:1845`). A start looks for a
   binding before the winner makes one and for orphaned snapshots after the winner has
   published its own.
5. *False owner loss* (`OwnerLossIsTrue`, `runTask.ts:4797`). A run cancelled in the queue gives
   its ticket back before its claim is terminal; another server settles it as `restart_drift`.
   A registration that fails behind the rename of its claim (`runTask.ts:2795`), or because the
   parent refuses the lineage (`3019`), gives back the lease and leaves a `working` claim, which
   is settled so as well; `.mex/context/architecture.md:34` speaks of definite owner loss.
6. *Late answers* (`LateAnswerIsRejected`, `runTask.ts:5561`). `README.md:341` lists the
   settlement `timed_out`; nothing writes it. When the child's timer has fired the request
   stays pending in all three places, a late answer is registered and sent, and the child keeps
   it for a waiter that never comes. While such a request is pending the phase is `running`, so
   the next write of the claim made without another answer is refused.
7. *Overtaken* (visible in `races`). The listing of the mailbox brings requests back into the
   view that the claim has closed; if no later input line lists them again, the terminal claim
   is refused, the run never ends and its lease stays (`owner = "stuck"`), although
   `README.md:341` says cancellation and closing are serialized. `cancel_run` answers with an
   error when the ending run removes the mailbox during the closing loop.
8. *Orphaned* (visible in `races`). The parent finds a resolved promise, settles, and the
   descendant starts below a terminal parent; `activeRecursiveCaller` does not look at
   `cancelRequested` either.
9. *Withdrawn call* (`CallCancellationIsLocal`, `processRunner.ts:410`). A bash call that is
   given up before its registration is read ends the whole run, where
   `.mex/context/decisions.md` promises cancellation per call.
10. *Snapshot under a claim* (`ClaimedSnapshotsExist`, `skillSnapshotStore.ts:700`). A pending
    publication's snapshot can be deleted before its reference is registered, although
    `README.md:212` says that an exact replay resumes the claim.
11. *Lost failure record* (`PostedRecordsAreReceived`, `failureStorageWorker.ts:13`). The idle
    timer is not cleared by the next record; a worker may close with one on its way, which is
    neither of the two reasons `README.md:431` names. An archiver that dies between its rename
    and its summary leaves a raw archive that is pruned without one.
12. *Unsettled runs* (the five disjuncts of `RejectionsAreExplained`). The owner composes a
    terminal claim that its own validators refuse when the spawn failed, when the disk filled in
    the grace of a timeout, when the child exits with zero behind a line that failed, when
    an accepted cancellation's event was pushed out by later ones (`README.md:339` promises
    `cancelled`), and when a write failed behind its rename. The refusal is logged, and the run
    stays `working` with its lease until the server's process ends; a caller of
    `answer_run_input` that waits for it waits on (`runTask.ts:3358`, visible in `RunOwner`).
13. *Receipt after prompt*. `piChild.ts` reports `child_prompt_submitted` before
    `session.prompt`, in which the receipt of a governing system skill is emitted; `README.md:262`
    says the receipt comes first. The owner drops the early report.
14. *Stranded run* (`NothingLeaks` names it, `runTask.ts:4773`). A run with a parent and without
    a `client_start_id` that is cancelled while its lineage is recorded throws behind its
    registration; its lease stays and its claim never becomes terminal. A run that queues has
    no `await` between its registration and that test, so no ticket is lost this way.
15. *Log over its budget* (`BudgetHolds` names it, `failureStorage.ts:125-147`). A prune that
    fails behind an append gives the lock back with the record in place; the next prune that
    ends makes it good.
16. *Late edit* (`ClaimEvidence`, `tree = "late"`). An edit of the task root between its
    inspection and the terminal claim goes unnoticed.

Smaller ones, known from the models' states. Skills: a crash inside the creation of a file
leaves a claim, reference or lock nobody can read; a deletion that dies leaves a partial
bundle; a late publisher re-registers a reference that was closed or deleted. Outputs: a
staged pair prepared before the note leaks on a crash; an owner that dies between publishing
an ordinary final message and its claim leaves it unreferenced. Runner: a check of the disk
that ends after the result starts a termination; later lines reach the owner behind a result
that was forced, or when one stream has failed and the other goes on
(`processRunner.ts:517`; `QuietAfterReturn` names all three); an owner that is killed leaves
registered groups. Dispatch: a claim written before its controller was killed blocks the
call and keeps the reservation.

## What is proved

Every theorem is for any values of the constants, from the named `ASSUME`s of the modules
and, where the specification is a serial one, the premise above.

*`RunnerAndLockProofs`*, first of `ProcessRunner` (for `RunnerSpec`, races included):
`RunnerTypes`, `OwnedGroups`, `NothingOutlives`, `TrueCompletion`, `QuietBehindReturn`. None
of them is inductive. `CustodyInv` speaks also of a command that is answered and not yet let
run: it is in a group the owner has taken. So whenever the owner sends SIGKILL to the groups
it knows, all that runs *or may still be let run* is `Doomed`, and this stays so, since
nothing is answered once a termination has begun or the child has gone; the settlement, the
kill timer, the end of the process and the result each rest on that (`EndInv`). `LinesInv`
accounts for every printed line (handled, awaited or still to be read) as long as its
stream's consumer is not broken, and a broken one has a cause.

Then of `RunClaimLock`, for `Spec` with every race: `TypeCorrect`, `RacesIncludedExclusion`,
`CriticalSectionRefinement` (an abstract critical section, "inside" mapped to the living calls at
their operation that were not robbed) and `OnlyOverlappingReclaimsRob`. The invariant is
that a call at its operation or its release that was not robbed still owns the path, whoever
else links, reclaims, releases and dies. The last theorem says that the race is the only flaw: as
long as no two calls are between their second read and their unlink at once, a reclaimer
has seen the record of a dead process and that record is still at the path, so nobody is robbed.

*`RunReconciliationProofs`*, first of `ActiveChildLease`: `LeaseTypes`, `RespectedCapacity`,
`AttributableRuns`, `NothingLeaked`. `IInv` = types; `LockInv`, one living run at a time in
a section; `PumpInv`, one promotion per process; `QueueInv`, a queue holds the waiting runs
of its process once each; `RunsInv`, the place where a run is tells its lease and ticket;
`CapacityInv`, the count behind which a lease is written is still true. The count is true
because of the lock, the lock because of the premise, and that a promoted run is the queue's
head because of `PumpInv`. That a failed registration or a refused settlement keeps what it
keeps, and no more, is part of `RunsInv`.

Then, on top of that invariant, of `RunReconciliation`: `ReconciliationTypes`, `RunsAreNotLost`,
`FinalClaims`. An observer looks for a lease and then for a ticket, twice. What makes two
stale reads sound: at the end of phase one there is no ticket, and a registered run never gets
one back; so a run without a lease in phase two has neither file, and a living run with neither
was cancelled or failed in its registration (`Forsaken`), which is stable until it is settled.

*`ClientStartProofs`.* `StartTypes`, `RecoverableRuns`, `TrueAnswers`, `TrueContainment`,
`StartRefinement`. All that is done with a run is done by a call that has read the binding; a
binding is cancelled only under the admission lock, at which a launch is recorded; a candidate
is removed only behind its record; a record is final only when its owner is done or dead.

*`SessionAndEvidenceProofs`*, first of `NamedSession`: `SessionTypes` (races included),
`SerialPublishedStateAgrees`, `SerialPendingCommitApplies`, `SerialWorkspacesAreOwned`,
`SerialImplementsSessionLog`. One invariant of five parts: the lock; the stages of a commit
(`Settled`, `Prepared`, `Published`, `Recorded`), which a crash leaves what they are; what the
holder knows from its step (`Knows`); the answers, a turn is in the log only behind its own
commit, without which one turn could be appended twice; the workspaces. The stages survive a
step because the holder knows them, it knows them because it is alone, and the new commit is
well formed because of the answers.

Then of `ClaimEvidence` (any declarations, lines, cancellations and failures):
`TrueTerminalClaims`. Only the settlement writes a terminal claim, and behind it nothing changes
(`EndedRunIsFrozen`, `OnlySettleEnds`), so the claim has to be true when it is written, also by a
write that fails behind its rename. What it tells comes from three places. The outcome was put
together at one moment behind the child's end, and the flags and the receipts
it tells of do not change any more, and an edit of the root behind its inspection is told apart
from one before (`ResultIsTold`, `TreeIsInspected`). A cancellation
is in the owner's memory before the signal and so before any stop reason
(`CancellationsAreAccepted`), and the settlement normalizes the outcome with it. That a claim with
receipts has a child, and one with a prompt all its receipts, is the doing of the validators
(`AdmissibleClaims`).

And `ExplainedRejections`: what the owner composes at the end passes its own two validators, but
for the five corners. That needs a second invariant (`CausesInv`), because the validators compare
the terminal view with the claim on disk and with itself. The events the owner remembers agree
with its other fields (`StoryAgrees`): the spawn is told exactly when the child was let run, the
prompt only with every receipt, one cancellation at most; and the list stays within its bound,
which is where the assumption `RecentHasRoom` comes in: beside the two events that stay there is
room for the one just told (`RecentKeeps`). The claim of an active run was a copy of that memory
(`ClaimIsCopied`). The flags of a run without a child tell why it has none, and a result was put
together of flags, lines and drift as they are (`FlagsAreCaused`, `ResultIsCaused`). Then the
view takes nothing back (`TerminalFollows`), an error is always the evidence of an owner
(`ErrorsAreEvidence`), and a result is that of a child whose stop reason, class, exit and
projection agree (`ResultsAreEvidence`). Each corner is the place where one of these steps
fails. What filtering does to a list is proved by induction over its
positions (`KeptEvents`), with a set of numbers for the predicate (`EveryNumber`).

*`OwnerAndStorageProofs`*, first of `RunOwner` (for `Spec`, races included):
`RunOwnerTypes`, `TrueReceipts`, `OneOutcome`, `DescendantsFirst`. An outcome is recorded in
mailbox, memory and claim by one operation, except for a cancellation, whose files follow
(`Closing`); a receipt rests on the child's own line, and no tool call returns twice for one
request; a descendant is in the parent's claim before it is launched, and the child has at
most one such call at a time.

Then of `FailureStorage`: `FailureTypes`, `NewestRecords`, `BudgetIsHeld`,
`SummariesComeFirst`. A living party in the section has the lock, so one at a time changes
the files; a dead one leaves them as they are. `NewestAreKept` says which records are gone
(the oldest), and holds behind an append, a rename, a removal of the oldest archive and a
cut of the log alike. The budget is owed (`BudgetIsOwed`): one record by the party in front
of it, and one by each append whose prune failed or died since the last one that ended.

*`TerminalOutputsProofs`.* `OutputsTypes`, `OwnedOutputs`, `ExistingOutputs`. The heart is
when the note of a claim may go: from the note on, core stages nothing of the pair any more
(`Late`), so what a cleanup has passed in its order stays gone (`Swept`), whoever else is at work
on the same files.

*`ResearchDispatchProofs`.* `DispatchTypes`, `AccountedDispatches`. The command at the head of
the queue has read the job as it still is (`SerialInv`), so no reservation is lost (`JobInv`), and
an answer of success is true of the job (`AccountsInv`). `OneControllerAtATime`,
`WaitersAreServed`: the queue holds exactly the commands that wait, each once (`QueueInv`), and a
call waits exactly as long as its command is under way (`WaitersInv`), so behind any failure a
waiter has its answer or a queue whose head can take a step.

*`SkillSnapshotsProofs`* (any number of snapshots, publications, bindings and crashes).
`SnapshotTypes`, `ReferencedSnapshots`, `KeptReferences`, `RetainedSources`. A snapshot, its
references and a publication change only under their lock, so what a call knew when it took the
lock is still so (`Section`); a publication record belongs to one request for good
(`Claimed`); a publisher has registered the bindings it has behind it (`Progress`), and such a
reference goes only behind a confirmed deletion that lists it (`Kept`). The resolver takes no
lock. It answers for what it has seen all the same (`Retained`): a deletion removes the bundle
before the references, and a bundle that is made again is another directory.

`NewestRecords` and `BudgetIsHeld` need facts of concatenated archives. The library's induction
theorems take a predicate as an operator, which the provers cannot instantiate; here the
predicate is a set of numbers, which they can (`NumbersFromZero`, from the well-foundedness of
`<` on the naturals), and the concatenation of the community modules is a recursive function, not
a `RECURSIVE` operator. `FlattenUnfolds`, `FlattenAppend` and `FlattenTail` are proved that way.

Every invariant was evaluated by TLC on the states of the run's instance before it was proved.

Only model-checked: all liveness (`AbandonedLockIsReclaimed`, `QueuedRunsSettle`,
`EveryCallIsAnswered`, `RunSettles`, `AnswersReturn`, `RunnerReturns`, `SaturationEnds`,
`EveryDispatchEnds`, `AbandonedPairIsRemoved`), which the proof system does not treat; of
`EveryDispatchEnds` the part that is safety is proved (`WaitersAreServed`). Every invariant and
every action property of a run is a theorem.

## What is left

In the order of what it would add: the splitting of a timeout into a budget, with lemmas;
two publications that differ under one publication id; the descendants and input requests of
a run lost by its owner; a capacity lock that is stolen from a slow owner, which needs a
model of real time.

## Not modelled

Contents of prompts, outputs, events and packets; schema validation and formatting;
model selection, health and readiness reports; damaged or legacy files (the code refuses or
retains them without a change of state); a ceiling of 0, which switches capacity off; the
staleness bound of the capacity lock; heartbeats, progress and session results in the claim;
starts of a run with a `client_start_id` in `ActiveChildLease` (their failures are in
`ClientStart`); an input or lineage write of `RunOwner` that fails for I/O; time stamps of
closed requests beyond who closed them. Skill trees are scanned, hashed and validated by
sequential code without shared state, and so are the paths a single tool call may touch. The
resolution of a skill at a launch and its stage directory are left out of `SkillSnapshots`. The
agent library in the child and the controller scripts of a snapshot are not in the
repository: they are modelled by what the code expects of them, or left free.
`PROJECT.json` names what is left out of each component.

## Running

    tlc -workers 2 -config ActiveChildLease.cfg MCActiveChildLease.tla
    tlapm OwnerAndStorageProofs.tla

Each `.cfg` belongs to the `MC` module of the same component. A run takes from ten seconds to
about four minutes with two workers; the proofs of a module from a few seconds to five minutes.
