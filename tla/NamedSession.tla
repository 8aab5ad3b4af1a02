---------------------------- MODULE NamedSession ----------------------------
(***************************************************************************)
(* The turns of one named session (src/session.ts).  A turn takes the      *)
(* session's lock file, finishes the pending commit a predecessor left,    *)
(* runs its child in a workspace of its own, and if the turn succeeds      *)
(* writes a pending commit and applies it: the session file, the ledger,   *)
(* the manifest.  A server may die between any two steps.                  *)
(*                                                                         *)
(* The content of a session file is the sequence of turns it contains, so  *)
(* equal hashes are equal sequences; a missing file has none.  Checks that *)
(* precede a write to the files of the session are one step with it.       *)
(***************************************************************************)
EXTENDS Naturals, Sequences

CONSTANTS
    Calls,      \* calls of runSubagentSession for one session key
    Processes,  \* the server processes that make them
    Host,       \* the process of each call
    Mode,       \* the resume_mode of each call
    NoCall      \* no call

ASSUME HostAssumption == Host \in [Calls -> Processes]
Modes == {"resume_or_new", "new", "require_existing"}

ASSUME ModeAssumption == Mode \in [Calls -> Modes]
ASSUME NoCallAssumption == NoCall \notin Calls

VARIABLES
    lock,       \* run.lock: whose it is, and whether the owner is written yet
    canonical,  \* the session file the manifest names
    ledger,     \* ledger.jsonl
    manifest,   \* manifest.json: run_count and the turn it describes
    pending,    \* pending-commit.json
    workspace,  \* the session file in attempt-pi-sessions/<run id> of each call
    alive,      \* the processes that have not died
    pc,         \* what each call does next
    retried,    \* it has removed a stale lock
    sequence,   \* the sequence number of its turn
    work,       \* the commit it applies
    result,     \* what it will answer
    answer,     \* what its caller was told
    kept        \* history: calls that could not remove their workspace

lockVars == <<lock, retried>>
files == <<canonical, ledger, manifest, pending, workspace>>
turn == <<sequence, work, result>>
vars == <<lock, canonical, ledger, manifest, pending, workspace, alive, pc,
          retried, sequence, work, result, answer, kept>>

NoLock == [by |-> NoCall, written |-> FALSE]
NoManifest == [run_count |-> 0, last |-> NoCall]
NoCommit == [call |-> NoCall, predecessor |-> <<>>, successor |-> <<>>,
             record |-> [call |-> NoCall, sequence |-> 0]]

Answers == {"none", "success", "failed", "error"}

Applying == {"publish", "rename", "append", "install", "verify", "discard", "clear"}
Holding == Applying \cup {"fill", "recover", "open", "prepare", "run", "commit",
                          "note", "tidy", "release", "unlock"}
Steps == Holding \cup {"idle", "create", "readOwner", "remove", "done"}

Records == [call : Calls, sequence : Nat]
Commits == [call : Calls, predecessor : Seq(Calls), successor : Seq(Calls), record : Records]

\* The shapes of the files and locals.  A call has a commit in hand exactly
\* while it applies one, and it removes a stale lock once at most.
SessionTypeOK ==
    /\ lock \in [by : Calls \cup {NoCall}, written : BOOLEAN]
    /\ canonical \in Seq(Calls)
    /\ ledger \in Seq(Records)
    /\ manifest \in [run_count : Nat, last : Calls \cup {NoCall}]
    /\ pending \in Commits \cup {NoCommit}
    /\ work \in [Calls -> Commits \cup {NoCommit}]
    /\ workspace \in [Calls -> Seq(Calls)]
    /\ alive \subseteq Processes
    /\ pc \in [Calls -> Steps]
    /\ retried \in [Calls -> BOOLEAN] /\ sequence \in [Calls -> Nat]
    /\ result \in [Calls -> Answers] /\ answer \in [Calls -> Answers]
    /\ kept \subseteq Calls
    /\ \A c \in Calls :
        /\ work[c] # NoCommit <=> pc[c] \in Applying
        /\ pc[c] = "remove" => ~retried[c]
        /\ answer[c] # "none" <=> pc[c] = "done"

Init ==
    /\ lock = NoLock
    /\ canonical = <<>> /\ ledger = <<>> /\ manifest = NoManifest
    /\ pending = NoCommit
    /\ workspace = [c \in Calls |-> <<>>]
    /\ alive = Processes
    /\ pc = [c \in Calls |-> "idle"]
    /\ retried = [c \in Calls |-> FALSE]
    /\ sequence = [c \in Calls |-> 0]
    /\ work = [c \in Calls |-> NoCommit]
    /\ result = [c \in Calls |-> "none"]
    /\ answer = [c \in Calls |-> "none"]
    /\ kept = {}

DefinitelyGone(c) == Host[c] \notin alive

At(c, s) == pc[c] = s /\ Host[c] \in alive

GoTo(c, s) == pc' = [pc EXCEPT ![c] = s]

RecordsCall(records, c) == \E i \in 1 .. Len(records) : records[i].call = c

\* assertNewSessionAllowed and assertExistingSession.
Admits(m, found) ==
    /\ found # NoManifest => m # "new"
    /\ found = NoManifest => m # "require_existing"

Answer(c, a) ==
    /\ GoTo(c, "done")
    /\ answer' = [answer EXCEPT ![c] = a]

\* Control passes to the finally block.
Finally(c, r) ==
    /\ GoTo(c, "tidy")
    /\ result' = [result EXCEPT ![c] = r]

-----------------------------------------------------------------------------
(* The lock *)

\* The request arrives; the preflight looks at the manifest without the lock.
Begin(c) ==
    /\ At(c, "idle")
    /\ \/ Admits(Mode[c], manifest) /\ GoTo(c, "create") /\ UNCHANGED answer
       \/ ~Admits(Mode[c], manifest) /\ Answer(c, "failed")
    /\ UNCHANGED <<lockVars, files, alive, kept, turn>>

\* writeFile with flag "wx" opens the new file first ...
Create(c) ==
    /\ At(c, "create")
    /\ \/ /\ lock = NoLock
          /\ lock' = [by |-> c, written |-> FALSE]
          /\ GoTo(c, "fill")
       \/ lock # NoLock /\ GoTo(c, "readOwner") /\ UNCHANGED lock
    /\ UNCHANGED <<files, alive, kept, turn, retried, answer>>

\* ... and then writes the owner into it.
Fill(c) ==
    /\ At(c, "fill")
    /\ lock' = IF lock.by = c THEN [lock EXCEPT !.written = TRUE] ELSE lock
    /\ GoTo(c, "recover")
    /\ UNCHANGED <<files, alive, kept, turn, retried, answer>>

\* A lock whose owner is not written, or gone meanwhile, is not stale.
ReadOwner(c) ==
    /\ At(c, "readOwner")
    /\ LET stale == lock.written /\ DefinitelyGone(lock.by) /\ ~retried[c]
       IN \/ stale /\ GoTo(c, "remove") /\ UNCHANGED answer
          \/ ~stale /\ Answer(c, "failed")
    /\ UNCHANGED <<files, alive, kept, turn, lockVars>>

\* rm removes whatever the path holds by now.
RemoveStale(c) ==
    /\ At(c, "remove")
    /\ lock' = NoLock
    /\ retried' = [retried EXCEPT ![c] = TRUE]
    /\ GoTo(c, "create")
    /\ UNCHANGED <<files, alive, kept, turn, answer>>

\* Release: a lock that is missing is taken for released.
Release(c) ==
    /\ At(c, "release")
    /\ \/ lock = NoLock /\ Answer(c, result[c])
       \/ lock = [by |-> c, written |-> TRUE] /\ GoTo(c, "unlock") /\ UNCHANGED answer
       \/ /\ lock # NoLock /\ lock # [by |-> c, written |-> TRUE]
          /\ Answer(c, "error")
    /\ UNCHANGED <<lockVars, files, alive, kept, turn>>

Unlock(c) ==
    /\ At(c, "unlock")
    /\ lock' = NoLock
    /\ Answer(c, result[c])
    /\ UNCHANGED <<files, alive, kept, turn, retried>>

-----------------------------------------------------------------------------
(* The commit *)

\* Bug: what a dead turn left is removed.
DropPending(c) ==
    /\ At(c, "recover")
    /\ pending' = NoCommit
    /\ GoTo(c, "open")
    /\ UNCHANGED <<lockVars, canonical, ledger, manifest, workspace, alive, kept, turn, answer>>

\* A pending commit is applied before anything else is read.
Recover(c) ==
    /\ At(c, "recover")
    /\ work' = [work EXCEPT ![c] = pending]
    /\ GoTo(c, IF pending = NoCommit THEN "open" ELSE "publish")
    /\ UNCHANGED <<lockVars, files, alive, kept, sequence, result, answer>>

\* publishAttemptFile: nothing to do, or the predecessor and the successor
\* are the recorded ones.  Otherwise it throws: ApplyFails.
Publish(c) ==
    /\ At(c, "publish")
    /\ LET w == work[c]
       IN \/ canonical = w.successor /\ GoTo(c, "append")
          \/ /\ canonical # w.successor /\ canonical = w.predecessor
             /\ workspace[w.call] = w.successor
             /\ GoTo(c, "rename")
    /\ UNCHANGED <<lockVars, files, alive, kept, turn, answer>>

\* The workspace's file is copied beside the canonical one and renamed.
Rename(c) ==
    /\ At(c, "rename")
    /\ canonical' = workspace[work[c].call]
    /\ GoTo(c, "append")
    /\ UNCHANGED <<lockVars, ledger, manifest, pending, workspace, alive, kept, turn, answer>>

\* Bug: the record is appended without a look at the ledger.
AppendAlways(c) ==
    /\ At(c, "append")
    /\ ledger' = Append(ledger, work[c].record)
    /\ GoTo(c, "install")
    /\ UNCHANGED <<lockVars, canonical, manifest, pending, workspace, alive, kept, turn, answer>>

\* appendRunRecordIdempotent
AppendRecord(c) ==
    /\ At(c, "append")
    /\ \/ ~RecordsCall(ledger, work[c].call) /\ ledger' = Append(ledger, work[c].record)
       \/ /\ \E i \in 1 .. Len(ledger) : ledger[i] = work[c].record
          /\ UNCHANGED ledger
    /\ GoTo(c, "install")
    /\ UNCHANGED <<lockVars, canonical, manifest, pending, workspace, alive, kept, turn, answer>>

\* next_manifest
Successor(w) == [run_count |-> w.record.sequence, last |-> w.call]

InstallManifest(c) ==
    /\ At(c, "install")
    /\ manifest' = Successor(work[c])
    /\ GoTo(c, "verify")
    /\ UNCHANGED <<lockVars, canonical, ledger, pending, workspace, alive, kept, turn, answer>>

\* All three are read again.
Verify(c) ==
    /\ At(c, "verify")
    /\ canonical = work[c].successor
    /\ \E i \in 1 .. Len(ledger) : ledger[i] = work[c].record
    /\ manifest = Successor(work[c])
    /\ GoTo(c, "discard")
    /\ UNCHANGED <<lockVars, files, alive, kept, turn, answer>>

DiscardWorkspace(c) ==
    /\ At(c, "discard")
    /\ workspace' = [workspace EXCEPT ![work[c].call] = <<>>]
    /\ GoTo(c, "clear")
    /\ UNCHANGED <<lockVars, canonical, ledger, manifest, pending, alive, kept, turn, answer>>

\* The commit of another turn is recovered and this one goes on; its own
\* ends it.
ClearPending(c) ==
    /\ At(c, "clear")
    /\ pending' = NoCommit
    /\ work' = [work EXCEPT ![c] = NoCommit]
    /\ IF work[c].call = c
          THEN Finally(c, "success")
          ELSE GoTo(c, "open") /\ UNCHANGED result
    /\ UNCHANGED <<lockVars, canonical, ledger, manifest, workspace, alive, kept, sequence, answer>>

\* A check or a file operation of the commit fails, in a living process.
ApplyFails(c) ==
    /\ pc[c] \in Applying /\ Host[c] \in alive
    /\ work' = [work EXCEPT ![c] = NoCommit]
    /\ Finally(c, "error")
    /\ UNCHANGED <<lockVars, files, alive, kept, sequence, answer>>

-----------------------------------------------------------------------------
(* The turn *)

\* reconcileManifestWithLedger: a manifest behind the ledger catches up.
Reconciled ==
    IF manifest # NoManifest /\ Len(ledger) > manifest.run_count
        THEN [run_count |-> Len(ledger), last |-> ledger[Len(ledger)].call]
        ELSE manifest

\* The checks under the lock.  A ledger behind its manifest is refused, as is
\* a mode the manifest does not admit.
Open(c) ==
    /\ At(c, "open")
    /\ manifest' = Reconciled
    /\ \/ /\ Admits(Mode[c], manifest) /\ Len(ledger) >= manifest.run_count
          /\ sequence' = [sequence EXCEPT ![c] = manifest'.run_count + 1]
          /\ GoTo(c, "prepare")
          /\ UNCHANGED result
       \/ /\ ~Admits(Mode[c], manifest) \/ Len(ledger) < manifest.run_count
          /\ Finally(c, "failed")
          /\ UNCHANGED sequence
    /\ UNCHANGED <<lockVars, canonical, ledger, pending, workspace, alive, kept, work, answer>>

\* prepareAttemptSession: a new session starts from nothing.
Prepare(c) ==
    /\ At(c, "prepare")
    /\ workspace' = [workspace EXCEPT ![c] = IF sequence[c] = 1 THEN <<>> ELSE canonical]
    /\ GoTo(c, "run")
    /\ UNCHANGED <<lockVars, canonical, ledger, manifest, pending, alive, kept, turn, answer>>

\* The child writes its turn into the workspace.  The turn succeeds, or it
\* fails or misses its packet, or the runner throws.
Run(c) ==
    /\ At(c, "run")
    /\ workspace' = [workspace EXCEPT ![c] = Append(@, c)]
    /\ \/ GoTo(c, "commit") /\ UNCHANGED result
       \/ GoTo(c, "note") /\ UNCHANGED result
       \/ Finally(c, "error")
    /\ UNCHANGED <<lockVars, canonical, ledger, manifest, pending, alive, kept, sequence,
                   work, answer>>

\* commitAttemptSession, up to the rename of pending-commit.json: from here on
\* the turn belongs to the session.
WritePending(c) ==
    /\ At(c, "commit")
    /\ pending' = [call |-> c, predecessor |-> canonical, successor |-> workspace[c],
                   record |-> [call |-> c, sequence |-> sequence[c]]]
    /\ work' = [work EXCEPT ![c] = pending']
    /\ GoTo(c, "publish")
    /\ UNCHANGED <<lockVars, canonical, ledger, manifest, workspace, alive, kept,
                   sequence, result, answer>>

\* attempts.jsonl
NoteFailedTurn(c) ==
    /\ At(c, "note")
    /\ Finally(c, "failed")
    /\ UNCHANGED <<lockVars, files, alive, kept, sequence, work, answer>>

\* Bug: the workspace goes whatever the pending commit says.
TidyAlways(c) ==
    /\ At(c, "tidy")
    /\ workspace' = [workspace EXCEPT ![c] = <<>>]
    /\ GoTo(c, "release")
    /\ UNCHANGED <<lockVars, canonical, ledger, manifest, pending, alive, kept, turn, answer>>

\* Bug: a turn that threw leaves its workspace.
TidyUnlessError(c) ==
    /\ At(c, "tidy")
    /\ workspace' = [workspace EXCEPT ![c] = IF result[c] = "error" THEN @ ELSE <<>>]
    /\ GoTo(c, "release")
    /\ UNCHANGED <<lockVars, canonical, ledger, manifest, pending, alive, kept, turn, answer>>

\* The finally block: the workspace goes unless the pending commit needs it, cannot be read,
\* or the removal fails.
Tidy(c) ==
    /\ At(c, "tidy")
    /\ \/ /\ workspace' = [workspace EXCEPT ![c] = IF pending.call = c THEN @ ELSE <<>>]
          /\ UNCHANGED kept
       \/ /\ workspace[c] # <<>> /\ pending.call # c
          /\ kept' = kept \cup {c}
          /\ UNCHANGED workspace
    /\ GoTo(c, "release")
    /\ UNCHANGED <<lockVars, canonical, ledger, manifest, pending, alive, turn, answer>>

-----------------------------------------------------------------------------
\* A process dies and leaves its files as they are.
Crash(p) ==
    /\ p \in alive
    /\ alive' = alive \ {p}
    /\ UNCHANGED <<lockVars, files, pc, turn, answer, kept>>

OtherStep(c) ==
    \/ Begin(c) \/ Create(c) \/ Fill(c) \/ RemoveStale(c) \/ Release(c) \/ Unlock(c)
    \/ Recover(c) \/ Publish(c) \/ Rename(c) \/ AppendRecord(c) \/ InstallManifest(c)
    \/ Verify(c) \/ DiscardWorkspace(c) \/ ClearPending(c) \/ ApplyFails(c)
    \/ Open(c) \/ Prepare(c) \/ Run(c) \/ WritePending(c) \/ NoteFailedTurn(c) \/ Tidy(c)

Next ==
    \/ \E c \in Calls : OtherStep(c) \/ ReadOwner(c)
    \/ \E p \in Processes : Crash(p)

Spec == Init /\ [][Next]_vars

(* As with the lock of a run, no lock protects the removal of a stale lock. *)
(* The executions in which at most one call at a time is between its look   *)
(* at a stale lock and its rm:                                              *)

Removers == {c \in Calls : At(c, "remove")}

SerialReadOwner(c) == ReadOwner(c) /\ \A d, e \in Removers' : d = e

SerialNext ==
    \/ \E c \in Calls : OtherStep(c) \/ SerialReadOwner(c)
    \/ \E p \in Processes : Crash(p)

SerialSpec == Init /\ [][SerialNext]_vars

-----------------------------------------------------------------------------
Holders == {c \in Calls : pc[c] \in Holding /\ Host[c] \in alive}

\* A living call keeps the lock from its creation to its release: nobody takes
\* it away, so the calls of a session exclude each other (README.md:393,
\* src/session.ts:288-346).
HolderKeepsLock == \A c \in Holders : lock.by = c

\* Whenever no commit is pending, and whatever crashed before, the session
\* file, the ledger and the manifest tell the same turns with the same numbers
\* (src/session.ts:644-676).
PublishedStateAgrees ==
    pending = NoCommit =>
        /\ manifest.run_count = Len(ledger)
        /\ ledger = [i \in 1 .. Len(canonical) |-> [call |-> canonical[i], sequence |-> i]]
        /\ ledger # <<>> => manifest.last = ledger[Len(ledger)].call

\* A pending commit can always be applied: the canonical file is its
\* predecessor or its successor, and as long as it is the predecessor the
\* workspace still has the successor (src/session.ts:617-642, 1011-1020).
PendingCommitApplies ==
    pending # NoCommit =>
        \/ canonical = pending.successor
        \/ canonical = pending.predecessor /\ workspace[pending.call] = pending.successor

\* A workspace outlives its call only for a pending commit, because the server died, or because
\* the call could not remove it itself; in particular, no turn that fails or throws keeps its
\* workspace, and none is kept for a commit that is no longer pending (README.md:391,
\* src/session.ts:1008-1027).
WorkspacesAreOwned ==
    \A c \in Calls :
        workspace[c] # <<>> =>
            pc[c] \in Holding \/ pending.call = c \/ DefinitelyGone(c) \/ c \in kept

\* Crashes, failed commits and recoveries implement one log that only grows:
\* the turn enters it when the pending commit is written.
Promise == INSTANCE SessionLog WITH
    log <- IF pending = NoCommit THEN canonical ELSE pending.successor

ImplementsSessionLog == Promise!Spec
=============================================================================
