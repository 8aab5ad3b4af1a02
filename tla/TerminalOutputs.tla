-------------------------- MODULE TerminalOutputs --------------------------
(***************************************************************************)
(* The documents a run leaves in the runs directory, and who owns each of  *)
(* them at every moment: src/src/output.ts prepares, publishes and removes *)
(* them, runSubagentCore (src/src/runSubagent.ts) decides which one a run  *)
(* has, and src/src/runTask.ts writes into the run's claim which files are *)
(* pending or referenced, in the process that owns the run and in the      *)
(* servers that find the claim after the owner has died.                   *)
(*                                                                         *)
(* A strict Researcher run publishes a pair of documents.  Both are        *)
(* written and hashed as private staging files, the claim takes note of    *)
(* them, and only then each is renamed to its public name; the terminal    *)
(* claim replaces the note by references.  Every other run publishes its   *)
(* final message, or its transcript, which is a staging file for as long   *)
(* as the child runs.                                                      *)
(*                                                                         *)
(* One run is modelled.  Two threads of its owner may be at work at once:  *)
(* runSubagentCore, and the finalization of the run, which begins early    *)
(* when the launch guard fails after the child was spawned.  Observers are *)
(* other servers; each handles one caller, or its startup, at a time.      *)
(***************************************************************************)
EXTENDS FiniteSets, Naturals

CONSTANTS
    Observers,     \* other servers on the same directories
    MaxFailures,   \* bound: file operations that fail
    MaxCrashes,    \* bound: observers that are killed in the middle of work
    Free           \* nobody holds the claim lock

ASSUME BoundsAreNaturals == MaxFailures \in Nat /\ MaxCrashes \in Nat
ASSUME FreeIsNobody == Free \notin Observers /\ "owner" \notin Observers

Pair == {"primary", "packet"}
Documents == Pair \cup {"transcript", "message"}
FileStates == {"none", "staged", "final"}

\* What cleanupPendingTerminalOutputs looks at, in its order: of each document the
\* staging path and then the public path.
CleanupPaths == << <<"primary", "staged">>, <<"primary", "final">>,
                   <<"packet", "staged">>,  <<"packet", "final">> >>
AllPaths == 4

VARIABLES
    file,       \* [Documents -> FileStates]: the runs directory
    claim,      \* the durable claim of the run
    lock,       \* who holds the run's claim lock
    ownerAlive, \* the process that owns the run
    core,       \* where runSubagentCore is
    prepared,   \* its strictPreparedOutputs
    result,     \* the documents its answer refers to, none if it threw
    finalizer,  \* where the finalization of the run is
    outcome,    \* the documents of the result it was given, none if it was given an error
    cleaned,    \* how many of CleanupPaths the finalization has removed
    noted,      \* state.pendingTerminalOutputs, the owner's copy of the note
    observer,   \* [Observers -> where each is, and what it saw]
    failures, crashes

vars == <<file, claim, lock, ownerAlive, core, prepared, result, finalizer, outcome, cleaned,
          noted, observer, failures, crashes>>
owner == <<core, prepared, result, finalizer, outcome, cleaned, noted>>
counters == <<failures, crashes>>

Terminal == {"ended", "failed", "drift"}
Claims == [status : {"working"} \cup Terminal, pending : BOOLEAN, partial : BOOLEAN,
           references : SUBSET Documents]
CoreSteps == {"start", "transcript", "running", "primary", "packet", "note", "publishPrimary",
              "publishPacket", "message", "discard", "finalize", "undo", "returned", "failed"}
FinalizerSteps == {"waiting", "cleanup", "clear", "settle", "done", "gaveUp"}
ObserverSteps == {"down", "sweep", "swept", "reconcile", "up", "cleaning", "settling", "locked",
                  "recovered"}
Idle(step) == [step |-> step, pending |-> FALSE, removed |-> 0, cleaned |-> FALSE,
               recovered |-> {}]

OutputsTypeOK ==
    /\ file \in [Documents -> FileStates]
    /\ claim \in Claims
    /\ lock \in Observers \cup {Free}
    /\ ownerAlive \in BOOLEAN
    /\ core \in CoreSteps /\ prepared \subseteq Pair /\ result \subseteq Documents
    /\ finalizer \in FinalizerSteps /\ outcome \subseteq Documents
    /\ cleaned \in 0 .. AllPaths /\ noted \in BOOLEAN
    /\ observer \in [Observers -> [step : ObserverSteps, pending : BOOLEAN,
                                   removed : 0 .. AllPaths, cleaned : BOOLEAN,
                                   recovered : SUBSET {"transcript"}]]
    /\ failures \in 0 .. MaxFailures /\ crashes \in 0 .. MaxCrashes

Init ==
    /\ file = [d \in Documents |-> "none"]
    /\ claim = [status |-> "working", pending |-> FALSE, partial |-> FALSE, references |-> {}]
    /\ lock = Free
    /\ ownerAlive = TRUE
    /\ core = "start" /\ prepared = {} /\ result = {}
    /\ finalizer = "waiting" /\ outcome = {} /\ cleaned = 0 /\ noted = FALSE
    /\ observer = [o \in Observers |-> Idle("down")]
    /\ failures = 0 /\ crashes = 0

(***************************************************************************)
(* Files.                                                                  *)
(***************************************************************************)
Put(d, state) == file' = [file EXCEPT ![d] = state]

\* A rename needs the staging file; without it the descriptor and the path disagree.
Publish(d) == file[d] = "staged" /\ Put(d, "final")

Removes(d, state) == IF file[d] = state THEN [file EXCEPT ![d] = "none"] ELSE file

\* The i-th removal of cleanupPendingTerminalOutputs: a path that is not there is passed over.
RemovePath(i) == file' = Removes(CleanupPaths[i][1], CleanupPaths[i][2])

Fail == failures < MaxFailures /\ failures' = failures + 1

(***************************************************************************)
(* runSubagentCore.                                                        *)
(***************************************************************************)
Core(from, to) == ownerAlive /\ core = from /\ core' = to
RestOfCore ==
    UNCHANGED <<claim, lock, ownerAlive, finalizer, outcome, cleaned, observer, crashes>>
Quietly == UNCHANGED failures

StageTranscript ==
    /\ Core("start", "transcript")
    /\ Put("transcript", "staged")
    /\ RestOfCore /\ Quietly /\ UNCHANGED <<prepared, result, noted>>

\* The launch observation is written into the claim, and with it the path of the transcript,
\* which until then only the owner's memory has.
GrantLaunch ==
    /\ Core("transcript", "running")
    /\ lock = Free
    /\ claim' = [claim EXCEPT !.partial = TRUE]
    /\ Quietly
    /\ UNCHANGED <<file, lock, ownerAlive, prepared, result, finalizer, outcome, cleaned, noted,
                   observer, crashes>>

\* The child has ended and terminal reinspection is over.
ChildEnds(next) ==
    /\ Core("running", next)
    /\ RestOfCore /\ Quietly /\ UNCHANGED <<file, prepared, result, noted>>

\* The job of the controller is complete, and its two renders are of the bytes that were
\* validated; or the child left a final message; or there is only the transcript.
CompletionIsRendered == ChildEnds("primary")
FinalMessageIsRead == ChildEnds("message")
TranscriptIsAllThereIs == ChildEnds("finalize")

PrepareRunOutput(d, next) ==
    /\ Core(d, next)
    /\ Put(d, "staged")
    /\ prepared' = prepared \cup {d}
    /\ RestOfCore /\ Quietly /\ UNCHANGED <<result, noted>>

\* acceptPendingTerminalOutputs: the note is durable before the first rename.
AcceptPendingTerminalOutputs ==
    /\ Core("note", "publishPrimary")
    /\ lock = Free
    /\ finalizer # "done"
    /\ claim' = [claim EXCEPT !.pending = TRUE]
    /\ noted' = TRUE
    /\ prepared' = {}
    /\ Quietly
    /\ UNCHANGED <<file, lock, ownerAlive, result, finalizer, outcome, cleaned, observer, crashes>>

\* The claim has become terminal, or its write throws, before the rename or after it: core's
\* finally block then discards what it prepared.
AcceptanceFails ==
    /\ Core("note", "undo")
    /\ lock = Free
    /\ \/ finalizer = "done" /\ UNCHANGED <<claim, failures>>
       \/ /\ finalizer # "done" /\ Fail
          /\ claim' \in {claim, [claim EXCEPT !.pending = TRUE]}
    /\ UNCHANGED <<file, lock, ownerAlive, prepared, result, finalizer, outcome, cleaned, noted,
                   observer, crashes>>

PublishPair(d, from, next) ==
    /\ Core(from, next)
    /\ Publish(d)
    /\ result' = result \cup {d}
    /\ RestOfCore /\ Quietly /\ UNCHANGED <<prepared, noted>>

WriteMessage ==
    /\ Core("message", "discard")
    /\ Put("message", "final")
    /\ result' = {"message"}
    /\ RestOfCore /\ Quietly /\ UNCHANGED <<prepared, noted>>

FinalizeTranscript ==
    /\ Core("finalize", "returned")
    /\ Publish("transcript")
    /\ result' = {"transcript"}
    /\ RestOfCore /\ Quietly /\ UNCHANGED <<prepared, noted>>

DiscardTranscript ==
    /\ Core("discard", "returned")
    /\ file' = Removes("transcript", "staged")
    /\ RestOfCore /\ Quietly /\ UNCHANGED <<prepared, result, noted>>

\* A file operation or a check throws: a limit, a full disk, bytes that changed under a
\* descriptor, a staging file that is gone.  A rename whose inspection fails has happened, and
\* the result is checked once more after the transcript is gone.
CoreThrows ==
    /\ ownerAlive /\ core' = "undo" /\ result' = {}
    /\ \/ core \in {"start", "transcript", "running", "primary", "packet", "message", "finalize"}
          /\ Fail /\ UNCHANGED file
       \/ core = "discard" /\ Fail /\ file' \in {file, Removes("transcript", "staged")}
       \/ \E d \in {"primary", "packet", "transcript"} :
            /\ core = CASE d = "primary" -> "publishPrimary"
                        [] d = "packet" -> "publishPacket"
                        [] OTHER -> "finalize"
            /\ \/ file[d] # "staged" /\ UNCHANGED <<file, failures>>
               \/ file[d] = "staged" /\ Fail /\ file' \in {file, [file EXCEPT ![d] = "final"]}
    /\ RestOfCore /\ UNCHANGED <<prepared, noted>>

\* The finally block: the prepared files of a note that was not accepted are discarded, and a
\* failure to discard is swallowed.  The transcript stays, closed.
UndoPrepared ==
    /\ Core("undo", "failed")
    /\ \/ file' = [d \in Documents |-> IF d \in prepared THEN "none" ELSE file[d]] /\ Quietly
       \/ prepared # {} /\ Fail /\ UNCHANGED file
    /\ prepared' = {}
    /\ RestOfCore /\ UNCHANGED <<result, noted>>

(***************************************************************************)
(* finalizeRegisteredRunTask.                                              *)
(***************************************************************************)
Finalizer(from, to) == ownerAlive /\ finalizer = from /\ finalizer' = to
RestOfFinalizer == UNCHANGED <<ownerAlive, core, prepared, result, observer, crashes>>

OwnsPair(references) == references = Pair

Begin(given) ==
    /\ Finalizer("waiting", IF noted /\ ~OwnsPair(given) THEN "cleanup" ELSE "settle")
    /\ outcome' = given
    /\ RestOfFinalizer /\ UNCHANGED <<file, claim, lock, cleaned, noted>>

\* Descendants have settled, and executeRunTask has answered as core did.
FinalizationBegins ==
    /\ core \in {"returned", "failed"}
    /\ Begin(IF core = "returned" THEN result ELSE {})
    /\ Quietly

\* The launch guard throws as it lets go, the child being spawned: core goes on, or has
\* answered, and nobody waits for it.
LaunchGuardFails ==
    /\ core \notin {"start", "transcript"}
    /\ Begin({})
    /\ Fail

CleanupRemoves ==
    /\ Finalizer("cleanup", IF cleaned + 1 = AllPaths THEN "clear" ELSE "cleanup")
    /\ RemovePath(cleaned + 1)
    /\ cleaned' = cleaned + 1
    /\ RestOfFinalizer /\ Quietly /\ UNCHANGED <<claim, lock, outcome, noted>>

\* Changed bytes or an I/O error: a warning, and the note stays in the claim for a later start.
CleanupFails ==
    /\ Finalizer("cleanup", "settle") /\ Fail
    /\ RestOfFinalizer /\ UNCHANGED <<file, claim, lock, outcome, cleaned, noted>>

ClearPendingTerminalOutputs ==
    /\ Finalizer("clear", "settle") /\ lock = Free
    /\ \/ /\ claim' = [claim EXCEPT !.pending = FALSE]
          /\ noted' = FALSE /\ Quietly
       \/ /\ Fail /\ claim' \in {claim, [claim EXCEPT !.pending = FALSE]}
          /\ UNCHANGED noted
    /\ RestOfFinalizer /\ UNCHANGED <<file, lock, outcome, cleaned>>

\* Bug: the note stays beside the references that took its place.
SettledWithNote ==
    [status |-> IF outcome = {} THEN "failed" ELSE "ended",
     pending |-> noted,
     partial |-> FALSE,
     references |-> outcome]

\* The terminal claim: references take the place of the note only if they own both files.
Settled ==
    [status |-> IF outcome = {} THEN "failed" ELSE "ended",
     pending |-> noted /\ ~OwnsPair(outcome),
     partial |-> FALSE,
     references |-> outcome]

SettleRunClaim ==
    /\ Finalizer("settle", "done") /\ lock = Free
    /\ claim' = IF claim.status \in Terminal THEN claim ELSE Settled
    /\ noted' = IF claim.status \in Terminal THEN noted ELSE Settled.pending
    /\ RestOfFinalizer /\ Quietly /\ UNCHANGED <<file, lock, outcome, cleaned>>

\* The write throws: a claim that is terminal all the same ends the run, any other stays
\* active until this process is gone.
SettlementFails ==
    /\ ownerAlive /\ finalizer = "settle" /\ lock = Free /\ Fail
    /\ claim.status = "working"
    /\ claim' \in {claim, Settled}
    /\ finalizer' = IF claim'.status \in Terminal THEN "done" ELSE "gaveUp"
    /\ RestOfFinalizer /\ UNCHANGED <<file, lock, outcome, cleaned, noted>>

OwnerDies ==
    /\ ownerAlive /\ ownerAlive' = FALSE
    /\ UNCHANGED <<file, claim, lock, owner, observer, counters>>

(***************************************************************************)
(* Another server: its startup, and a caller of get_run.                   *)
(***************************************************************************)
Rest == {"down", "up"}
At(o, step) == observer[o].step = step
Goes(o, state) == observer' = [observer EXCEPT ![o] = state]
Steps(o, step) == observer' = [observer EXCEPT ![o].step = step]
RestOfObserver == UNCHANGED <<ownerAlive, owner, crashes>>

\* Bug: only active claims are looked at.
StartWithoutSweep(o) ==
    /\ At(o, "down")
    /\ Goes(o, Idle("reconcile"))
    /\ RestOfObserver /\ Quietly /\ UNCHANGED <<file, claim, lock>>

\* reconcileTerminalOutputCleanupOwners reads the claim: a terminal one with a note is swept.
Start(o) ==
    /\ At(o, "down")
    /\ Goes(o, IF claim.status \in Terminal /\ claim.pending
               THEN [Idle("sweep") EXCEPT !.pending = TRUE] ELSE Idle("reconcile"))
    /\ RestOfObserver /\ Quietly /\ UNCHANGED <<file, claim, lock>>

\* cleanupPendingTerminalOutputs, in a sweep or before the settlement of a lost run, without
\* the claim lock.
ObserverRemoves(o, from, next) ==
    /\ At(o, from)
    /\ LET removed == observer[o].removed + 1
           done == removed = AllPaths
       IN /\ RemovePath(removed)
          /\ Goes(o, [observer[o] EXCEPT !.removed = removed, !.cleaned = done,
                                        !.step = IF done THEN next ELSE from])
    /\ RestOfObserver /\ Quietly /\ UNCHANGED <<claim, lock>>

ObserverCleanupFails(o, from, next) ==
    /\ At(o, from) /\ Fail
    /\ Steps(o, next)
    /\ RestOfObserver /\ UNCHANGED <<file, claim, lock>>

\* Under the claim lock: the note is dropped if the claim still has it and is still terminal.
\* A write that throws ends the reconciliation with a warning.
ClearSwept(o) ==
    /\ At(o, "swept") /\ lock = Free
    /\ LET cleared == IF claim.status \in Terminal THEN [claim EXCEPT !.pending = FALSE] ELSE claim
       IN \/ claim' = cleared /\ Quietly /\ Goes(o, Idle("reconcile"))
          \/ claim' \in {claim, cleared} /\ Fail /\ Goes(o, Idle("up"))
    /\ RestOfObserver /\ UNCHANGED <<file, lock>>

NothingToReconcile(o) ==
    /\ At(o, "reconcile")
    /\ claim.status \in Terminal \/ ownerAlive
    /\ Goes(o, Idle("up"))
    /\ RestOfObserver /\ Quietly /\ UNCHANGED <<file, claim, lock>>

\* getPersistedRunTask, phase one: an active claim whose owner is gone, and its note.
Inspect(o) ==
    /\ At(o, "reconcile") \/ At(o, "up")
    /\ claim.status = "working" /\ ~ownerAlive
    /\ Goes(o, [Idle(IF claim.pending THEN "cleaning" ELSE "settling")
                EXCEPT !.pending = claim.pending])
    /\ RestOfObserver /\ Quietly /\ UNCHANGED <<file, claim, lock>>

\* Phase two, under the claim lock, reads the claim again: another note means another attempt.
ReadAgain(o) ==
    /\ At(o, "settling") /\ lock = Free
    /\ IF claim.pending = observer[o].pending /\ claim.status = "working"
       THEN lock' = o /\ Steps(o, "locked")
       ELSE /\ UNCHANGED lock
            /\ Goes(o, Idle(IF claim.pending = observer[o].pending THEN "up" ELSE "reconcile"))
    /\ RestOfObserver /\ Quietly /\ UNCHANGED <<file, claim>>

\* recoverStreamingRunTranscript: the staging file is published; without one, a file that
\* already has the public name is taken as it is.
\* Bug: a transcript whose recovery was cut short after the rename is not found again.
RecoverableStaging == claim.partial /\ file["transcript"] = "staged"
Recoverable == claim.partial /\ file["transcript"] # "none"
Recovered == IF Recoverable THEN {"transcript"} ELSE {}
RecoverTranscript(o) ==
    /\ At(o, "locked")
    /\ file' = IF Recoverable THEN [file EXCEPT !["transcript"] = "final"] ELSE file
    /\ Goes(o, [observer[o] EXCEPT !.step = "recovered", !.recovered = Recovered])
    /\ RestOfObserver /\ Quietly /\ UNCHANGED <<claim, lock>>

\* The settlement keeps the note unless this observer has removed the files itself.
Drift(o) ==
    [status |-> "drift",
     pending |-> claim.pending /\ ~observer[o].cleaned,
     partial |-> FALSE,
     references |-> observer[o].recovered]

SettleOwnerLoss(o) ==
    /\ At(o, "recovered")
    /\ claim' = Drift(o)
    /\ Goes(o, Idle("up"))
    /\ lock' = Free
    /\ RestOfObserver /\ Quietly /\ UNCHANGED file

\* Recovery throws, after its rename or before it, or the write of the claim does.
SettlementThrows(o) ==
    /\ \/ /\ At(o, "locked") /\ UNCHANGED claim
          /\ file' \in {file, IF Recoverable THEN [file EXCEPT !["transcript"] = "final"] ELSE file}
       \/ At(o, "recovered") /\ claim' \in {claim, Drift(o)} /\ UNCHANGED file
    /\ Fail
    /\ Goes(o, Idle("up"))
    /\ lock' = Free
    /\ RestOfObserver

\* A server that is killed: the next call on the run takes its claim lock away.
Crash(o) ==
    /\ observer[o].step \notin Rest
    /\ crashes < MaxCrashes /\ crashes' = crashes + 1
    /\ Goes(o, Idle("down"))
    /\ lock' = IF lock = o THEN Free ELSE lock
    /\ UNCHANGED <<file, claim, ownerAlive, owner, failures>>

Stop(o) ==
    /\ At(o, "up")
    /\ Goes(o, Idle("down"))
    /\ RestOfObserver /\ Quietly /\ UNCHANGED <<file, claim, lock>>

(***************************************************************************)
(* The specification.                                                      *)
(***************************************************************************)
CoreStep ==
    \/ StageTranscript \/ GrantLaunch
    \/ CompletionIsRendered \/ FinalMessageIsRead \/ TranscriptIsAllThereIs
    \/ PrepareRunOutput("primary", "packet") \/ PrepareRunOutput("packet", "note")
    \/ AcceptPendingTerminalOutputs \/ AcceptanceFails
    \/ PublishPair("primary", "publishPrimary", "publishPacket")
    \/ PublishPair("packet", "publishPacket", "discard")
    \/ WriteMessage \/ FinalizeTranscript \/ DiscardTranscript
    \/ CoreThrows \/ UndoPrepared

FinalizerStep ==
    \/ FinalizationBegins \/ LaunchGuardFails
    \/ CleanupRemoves \/ CleanupFails \/ ClearPendingTerminalOutputs
    \/ SettleRunClaim \/ SettlementFails

\* What a server goes on with by itself, once started or called.
ObserverStep(o) ==
    \/ ObserverRemoves(o, "sweep", "swept") \/ ObserverCleanupFails(o, "sweep", "reconcile")
    \/ ClearSwept(o) \/ NothingToReconcile(o)
    \/ At(o, "reconcile") /\ Inspect(o)
    \/ ObserverRemoves(o, "cleaning", "settling") \/ ObserverCleanupFails(o, "cleaning", "settling")
    \/ ReadAgain(o) \/ RecoverTranscript(o) \/ SettleOwnerLoss(o) \/ SettlementThrows(o)

Next ==
    \/ CoreStep \/ FinalizerStep \/ OwnerDies
    \/ \E o \in Observers : Start(o) \/ Inspect(o) \/ ObserverStep(o) \/ Crash(o) \/ Stop(o)

\* Servers finish what they have begun.  Nothing makes the owner end, a caller call or a
\* server start.
Fairness == \A o \in Observers : WF_vars(ObserverStep(o))

Spec == Init /\ [][Next]_vars /\ Fairness

(***************************************************************************)
(* Properties.                                                             *)
(***************************************************************************)
\* A public document of the pair always has a durable owner, whoever failed or died between
\* the two renames and the terminal claim: the claim has the note, or refers to it.  And a
\* run settled as lost leaves no transcript behind that its claim does not refer to, unless it
\* was lost or failed before its launch was granted
\* (src/src/runSubagent.ts:1120 and src/src/runTask.ts:4265).
PublishedOutputsAreOwned ==
    /\ \A d \in Pair : file[d] = "final" => claim.pending \/ d \in claim.references
    /\ claim.status = "drift" =>
         \/ file["transcript"] = "none"
         \/ file["transcript"] = "final" /\ "transcript" \in claim.references
         \/ file["transcript"] = "staged" /\ core \in {"transcript", "undo", "failed"}

\* A terminal claim refers only to public documents that exist, and no cleanup by the owner, a
\* sweep or an observer ever takes one away (src/src/output.ts:565).
ReferencedOutputsExist ==
    \A d \in claim.references : file[d] = "final"

\* If servers are started again and again, what a failed or lost run left of its pair is
\* removed and its claim ends without the note (src/src/runTask.ts:4386).
Tidy ==
    /\ claim.status \in Terminal /\ ~claim.pending
    /\ \A d \in Pair : file[d] = "final" => d \in claim.references
ServersStart == []<><<\E o \in Observers : Start(o)>>_vars
AbandonedPairIsRemoved ==
    ServersStart => (~ownerAlive \/ claim.status \in Terminal) ~> Tidy
============================================================================
