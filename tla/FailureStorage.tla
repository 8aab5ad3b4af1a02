--------------------------- MODULE FailureStorage ---------------------------
(***************************************************************************)
(* The failure log: the queue in front of a worker thread (failureLog.ts,   *)
(* failureStorageWorker.ts) and the storage behind it (failureStorage.ts):  *)
(* one active log, raw archives with summaries, a byte budget over the raw  *)
(* files, and a lock that is a directory with its owner in a file.          *)
(*                                                                         *)
(* Parties are the workers of servers, which append, and calls of the       *)
(* archiving script.  A record is one unit of the budget.  The directory of *)
(* the lock is published by a rename, which also succeeds over an empty     *)
(* directory, and removed in two steps: its file, then itself.  That the    *)
(* owner in the file is dead is read in the step that removes the file (the *)
(* premise of serial reclaims).                                             *)
(***************************************************************************)
EXTENDS Naturals, Sequences, FiniteSets, SequencesExt

CONSTANTS
    Server,
    Archiver,        \* calls of archive-failure-log.mjs
    MaxRecords,      \* bound on the failure records, named in the order they are made
    Budget,          \* SUBAGENT007_FAILURE_STORAGE_MAX_BYTES, in records
    MaxPending,      \* MAX_PENDING_FAILURE_WRITES
    MaxCrashes       \* bound on the parties that die

Party == Server \cup Archiver
Record == 1..MaxRecords

ASSUME FailureStorageAssumption ==
    /\ Server \cap Archiver = {}
    /\ "absent" \notin Party /\ "empty" \notin Party
    /\ MaxRecords \in Nat
    /\ Budget \in Nat \ {0} /\ MaxPending \in Nat \ {0} /\ MaxCrashes \in Nat

VARIABLES
    logged,          \* how many records the servers' callers have handed over
    worker,          \* of each server: none, open, or closed and not gone yet
    pending,         \* pendingFailureWrites
    inbox,           \* records posted to the worker
    chain,           \* records the worker has received; the first is being written
    dones,           \* answers of the worker on their way back
    idleTimers,      \* timers that will close the port: the newest, and older ones
    lock,            \* the lock directory: absent, empty, or its owner
    pc,              \* the step of each party
    alive,           \* the parties whose process lives
    log,             \* the active log
    archives,        \* raw archives, oldest first: who made them and their records
    summaries,       \* the archivers whose summary is written
    appended,        \* history: all that was appended, in order
    pruned,          \* history: the archivers whose raw archive was removed
    failed,          \* history: the archiving calls that failed to write their summary
    overdue          \* history: appends since the last complete prune whose own prune failed,
                     \* or whose party died in it, with too much left

queue == <<logged, worker, pending, inbox, chain, dones, idleTimers>>
files == <<log, archives, summaries, appended, pruned>>
troubles == <<failed, overdue>>
storageVars == <<queue, lock, pc, alive, files, troubles>>

StorageInit ==
    /\ logged = 0
    /\ worker = [s \in Server |-> "none"]
    /\ pending = [s \in Server |-> 0]
    /\ inbox = [s \in Server |-> <<>>]
    /\ chain = [s \in Server |-> <<>>]
    /\ dones = [s \in Server |-> 0]
    /\ idleTimers = [s \in Server |-> {}]
    /\ lock = "absent"
    /\ pc = [p \in Party |-> IF p \in Server THEN "idle" ELSE "acquire"]
    /\ alive = Party
    /\ log = <<>> /\ archives = <<>> /\ summaries = {}
    /\ appended = <<>> /\ pruned = {} /\ failed = {} /\ overdue = 0

At(p, step) == p \in alive /\ pc[p] = step
Goto(p, step) == pc' = [pc EXCEPT ![p] = step]

Raw == FlattenSeq([i \in DOMAIN archives |-> archives[i].records])
Total == Len(Raw) + Len(log)

-----------------------------------------------------------------------------
\* enqueueFailureRecord: a record is dropped if too many are pending; one that is posted
\* to a worker whose port is closed reaches nobody.
Log(s) ==
    /\ s \in alive /\ logged < MaxRecords
    /\ logged' = logged + 1
    /\ \/ /\ pending[s] < MaxPending
          /\ worker' = [worker EXCEPT ![s] = IF @ = "none" THEN "open" ELSE @]
          /\ pending' = [pending EXCEPT ![s] = @ + 1]
          /\ inbox' = [inbox EXCEPT ![s] = IF worker[s] = "closed" THEN @ ELSE Append(@, logged')]
       \/ /\ pending[s] >= MaxPending
          /\ UNCHANGED <<worker, pending, inbox>>
    /\ UNCHANGED <<chain, dones, idleTimers, lock, pc, alive, files, troubles>>

\* The server hears that one of its records has been dealt with.
HearDone(s) ==
    /\ s \in alive /\ dones[s] > 0
    /\ dones' = [dones EXCEPT ![s] = @ - 1]
    /\ pending' = [pending EXCEPT ![s] = IF @ > 0 THEN @ - 1 ELSE 0]
    /\ UNCHANGED <<logged, worker, inbox, chain, idleTimers, lock, pc, alive, files, troubles>>

\* Bug: the server does not reset its counter when the worker has ended.
WorkerExitsUncounted(s) ==
    /\ s \in alive /\ worker[s] = "closed" /\ chain[s] = <<>> /\ dones[s] = 0
    /\ worker' = [worker EXCEPT ![s] = "none"]
    /\ UNCHANGED <<logged, pending, inbox, chain, dones, idleTimers, lock, pc, alive, files,
                   troubles>>

\* The closed worker has nothing left to do; its answers are delivered before its exit.
WorkerExits(s) ==
    /\ s \in alive /\ worker[s] = "closed" /\ chain[s] = <<>> /\ dones[s] = 0
    /\ worker' = [worker EXCEPT ![s] = "none"]
    /\ pending' = [pending EXCEPT ![s] = 0]
    /\ UNCHANGED <<logged, inbox, chain, dones, idleTimers, lock, pc, alive, files, troubles>>

-----------------------------------------------------------------------------
\* The worker

Receive(s) ==
    /\ s \in alive /\ worker[s] = "open" /\ inbox[s] # <<>>
    /\ inbox' = [inbox EXCEPT ![s] = Tail(@)]
    /\ chain' = [chain EXCEPT ![s] = Append(@, Head(inbox[s]))]
    /\ idleTimers' = [idleTimers EXCEPT ![s] = @ \ {"newest"}]
    /\ UNCHANGED <<logged, worker, pending, dones, lock, pc, alive, files, troubles>>

BeginJob(s) ==
    /\ At(s, "idle") /\ chain[s] # <<>>
    /\ Goto(s, "acquire")
    /\ UNCHANGED <<queue, lock, alive, files, troubles>>

\* A timer is set after each job.  A message clears the newest one only, the next job none:
\* the port is closed although records may be waiting in the chain.  What was posted and not
\* received is lost.
IdleTimerFires(s) ==
    /\ s \in alive /\ worker[s] = "open" /\ idleTimers[s] # {}
    /\ worker' = [worker EXCEPT ![s] = "closed"]
    /\ idleTimers' = [idleTimers EXCEPT ![s] = {}]
    /\ inbox' = [inbox EXCEPT ![s] = <<>>]
    /\ UNCHANGED <<logged, pending, chain, dones, lock, pc, alive, files, troubles>>

\* The end of a job, or of the script.
EndJob(p) ==
    IF p \in Server
    THEN /\ Goto(p, "idle")
         /\ chain' = [chain EXCEPT ![p] = Tail(@)]
         /\ dones' = [dones EXCEPT ![p] = IF worker[p] = "open" THEN @ + 1 ELSE @]
         /\ idleTimers' = [idleTimers EXCEPT ![p] =
                              IF worker[p] = "closed" THEN {}
                              ELSE {"newest"} \cup IF @ = {} THEN {} ELSE {"older"}]
         /\ UNCHANGED <<logged, worker, pending, inbox>>
    ELSE Goto(p, "done") /\ UNCHANGED queue

-----------------------------------------------------------------------------
\* The lock

Free == lock \in {"absent", "empty"}

\* acquireLock: a candidate directory with the owner in it is renamed.
Acquire(p) ==
    /\ At(p, "acquire") /\ Free
    /\ lock' = p
    /\ Goto(p, IF p \in Server THEN "append" ELSE "rename")
    /\ UNCHANGED <<queue, alive, files, troubles>>

\* removeAbandonedLock: the owner is definitely gone; its file is removed.
Reclaim(p) ==
    /\ At(p, "acquire") /\ lock \in Party \ alive
    /\ lock' = "empty"
    /\ Goto(p, "clear")
    /\ UNCHANGED <<queue, alive, files, troubles>>

\* ... and the directory, which fails if somebody else has put a lock there meanwhile.
Clear(p) ==
    /\ At(p, "clear")
    /\ IF Free THEN /\ lock' = "absent" /\ Goto(p, "acquire") /\ UNCHANGED queue
               ELSE /\ EndJob(p) /\ UNCHANGED lock
    /\ UNCHANGED <<alive, files, troubles>>

\* All attempts have met a lock, or no candidate could be made.
GiveUp(p) ==
    /\ At(p, "acquire")
    /\ EndJob(p)
    /\ UNCHANGED <<lock, alive, files, troubles>>

\* Release finds its own owner and removes the file, then the directory; the latter fails
\* if somebody else has put a lock there meanwhile, which fails the call, not its effect.
Release(p) ==
    /\ At(p, "release")
    /\ lock' = "empty"
    /\ Goto(p, "removeDirectory")
    /\ UNCHANGED <<queue, alive, files, troubles>>

RemoveDirectory(p) ==
    /\ At(p, "removeDirectory")
    /\ lock' = IF Free THEN "absent" ELSE lock
    /\ EndJob(p)
    /\ UNCHANGED <<alive, files, troubles>>

LockStep(p) == Acquire(p) \/ Reclaim(p) \/ Clear(p) \/ GiveUp(p) \/ Release(p) \/ RemoveDirectory(p)

-----------------------------------------------------------------------------
\* appendFailureRecord and archiveFailureLog, under the lock

AppendRecord(p) ==
    /\ At(p, "append")
    /\ \/ /\ log' = Append(log, Head(chain[p]))
          /\ appended' = Append(appended, Head(chain[p]))
          /\ Goto(p, "budget")
       \/ /\ Goto(p, "release")
          /\ UNCHANGED <<log, appended>>
    /\ UNCHANGED <<queue, lock, alive, archives, summaries, pruned, troubles>>

\* The log becomes the newest archive, if there is a log and it can be renamed.
RenameLog(p) ==
    /\ At(p, "rename")
    /\ \/ /\ log # <<>>
          /\ archives' = Append(archives, [by |-> p, records |-> log])
          /\ log' = <<>>
          /\ Goto(p, "summary")
       \/ /\ Goto(p, "release")
          /\ UNCHANGED <<log, archives>>
    /\ UNCHANGED <<queue, lock, alive, summaries, appended, pruned, troubles>>

WriteSummary(p) ==
    /\ At(p, "summary")
    /\ \/ /\ summaries' = summaries \cup {p}
          /\ Goto(p, "budget")
          /\ UNCHANGED failed
       \/ /\ failed' = failed \cup {p}
          /\ Goto(p, "release")
          /\ UNCHANGED summaries
    /\ UNCHANGED <<queue, lock, alive, log, archives, appended, pruned, overdue>>

\* A prune that does not end leaves a record too many behind an append.
Excess(p) == IF pc[p] = "budget" /\ p \in Server /\ Total > Budget THEN 1 ELSE 0

\* Bug: the newest archive goes first.
PruneNewestArchive(p) ==
    /\ At(p, "budget") /\ Total > Budget /\ archives # <<>>
    /\ pruned' = pruned \cup {archives[Len(archives)].by}
    /\ archives' = Front(archives)
    /\ UNCHANGED <<queue, lock, pc, alive, log, summaries, appended, troubles>>

\* enforceBudget removes raw archives, oldest first, while there is too much,
PruneArchive(p) ==
    /\ At(p, "budget") /\ Total > Budget /\ archives # <<>>
    /\ pruned' = pruned \cup {Head(archives).by}
    /\ archives' = Tail(archives)
    /\ UNCHANGED <<queue, lock, pc, alive, log, summaries, appended, troubles>>

\* and then rewrites the log with the newest records that fit.
RewriteNewestRecords(p) ==
    /\ At(p, "budget") /\ Total > Budget /\ archives = <<>>
    /\ log' = SubSeq(log, Len(log) - Budget + 1, Len(log))
    /\ overdue' = 0
    /\ Goto(p, "release")
    /\ UNCHANGED <<queue, lock, alive, archives, summaries, appended, pruned, failed>>

\* Bug: the active log is not counted.
ArchivesWithinBudget(p) ==
    /\ At(p, "budget") /\ Len(Raw) <= Budget
    /\ overdue' = 0
    /\ Goto(p, "release")
    /\ UNCHANGED <<queue, lock, alive, files, failed>>

WithinBudget(p) ==
    /\ At(p, "budget") /\ Total <= Budget
    /\ overdue' = 0
    /\ Goto(p, "release")
    /\ UNCHANGED <<queue, lock, alive, files, failed>>

\* The directory is not listed, the log not measured, an archive not removed, or the newest
\* records are not copied or not renamed: what was removed before is gone, the rest stays,
\* and the lock is given back all the same.
PruneFails(p) ==
    /\ At(p, "budget")
    /\ overdue' = overdue + Excess(p)
    /\ Goto(p, "release")
    /\ UNCHANGED <<queue, lock, alive, files, failed>>

StorageStep(p) ==
    \/ AppendRecord(p) \/ RenameLog(p) \/ WriteSummary(p)
    \/ PruneArchive(p) \/ RewriteNewestRecords(p) \/ WithinBudget(p) \/ PruneFails(p)

-----------------------------------------------------------------------------
\* What a process has in memory dies with it.
QueueIsLost(s) ==
    /\ worker' = [worker EXCEPT ![s] = "none"] /\ pending' = [pending EXCEPT ![s] = 0]
    /\ inbox' = [inbox EXCEPT ![s] = <<>>] /\ chain' = [chain EXCEPT ![s] = <<>>]
    /\ dones' = [dones EXCEPT ![s] = 0] /\ idleTimers' = [idleTimers EXCEPT ![s] = {}]
    /\ UNCHANGED logged

\* A process dies.  A server that ends takes its worker with it, which does not keep the
\* process alive.
Crash(p) ==
    /\ p \in alive /\ pc[p] # "done"
    /\ Cardinality(Party \ alive) < MaxCrashes
    /\ alive' = alive \ {p}
    /\ overdue' = overdue + Excess(p)
    /\ IF p \in Server THEN QueueIsLost(p) ELSE UNCHANGED queue
    /\ UNCHANGED <<lock, pc, files, failed>>

WorkerStep(s) == Receive(s) \/ BeginJob(s) \/ IdleTimerFires(s) \/ LockStep(s) \/ StorageStep(s)
ServerStep(s) == HearDone(s) \/ WorkerExits(s)
ArchiverStep(a) == LockStep(a) \/ StorageStep(a)

StorageNext ==
    \/ \E s \in Server : Log(s) \/ ServerStep(s) \/ WorkerStep(s)
    \/ \E a \in Archiver : ArchiverStep(a)
    \/ \E p \in Party : Crash(p)

\* Messages are delivered, timers fire and pending operations end; nobody has to log.
StorageSpec ==
    /\ StorageInit /\ [][StorageNext]_storageVars
    /\ \A s \in Server : WF_storageVars(WorkerStep(s)) /\ WF_storageVars(ServerStep(s))
    /\ \A a \in Archiver : WF_storageVars(ArchiverStep(a))

-----------------------------------------------------------------------------
Inside == {"append", "rename", "summary", "budget", "release"}

FailureTypeOK ==
    /\ logged \in 0..MaxRecords
    /\ worker \in [Server -> {"none", "open", "closed"}]
    /\ pending \in [Server -> 0..MaxPending]
    /\ inbox \in [Server -> Seq(Record)] /\ chain \in [Server -> Seq(Record)]
    /\ \A s \in Server : dones[s] + Len(inbox[s]) + Len(chain[s]) <= pending[s]
    /\ lock \in Party \cup {"absent", "empty"}
    /\ overdue \in Nat
    /\ alive \subseteq Party /\ summaries \subseteq Archiver /\ pruned \subseteq Archiver
    /\ \A p \in alive : pc[p] \in Inside => lock = p

\* The raw records that are kept are the newest of all that were appended, whoever
\* appended and archived them and whoever died (enforceBudget: oldest archives first, then
\* the newest records of the log).
NewestRecordsAreKept == IsSuffix(Raw \o log, appended)

\* Unless somebody is pruning, the raw files are within the budget, but for the records of
\* appends whose prune failed, or whose party died in it, and which no later prune has made
\* good: failures do not add up beyond one record each, and one prune that ends, of whomever,
\* settles them all (appendFailureRecord, archiveFailureLog, enforceBudget).
BudgetHolds == (\A p \in alive : pc[p] # "budget") => Total <= Budget + overdue

\* README.md: compact summaries are written before raw pruning.  A raw archive that was
\* pruned without one is that of a call that died or failed before it wrote it.
OnlyFailedArchivesLackSummaries ==
    \A a \in pruned \ summaries : a \notin alive \/ a \in failed

\* The counter of pending writes goes back to zero after the last record, although the
\* worker may lose messages (enqueueFailureRecord, "exit"): saturation ends.
SaturationEnds == \A s \in Server : <>[](s \in alive => pending[s] = 0)

\* README.md names two reasons to drop telemetry, saturation and storage failure.  Here: a
\* record that is counted as pending is posted to a worker that receives it.
PostedRecordsAreReceived ==
    [][\A s \in Server :
          /\ pending'[s] > pending[s] => worker'[s] = "open"
          /\ worker'[s] = "closed" /\ worker[s] = "open" => inbox[s] = <<>>]_storageVars

=============================================================================
