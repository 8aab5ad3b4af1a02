--------------------------- MODULE ClaimEvidence ---------------------------
(***************************************************************************)
(* What the durable claim of a run says about its child, and whether the   *)
(* owner can say it at all.  The owner keeps a copy of the run in memory   *)
(* and writes it to disk at a launch, a spawn, a receipt, a cancellation   *)
(* and at the end (src/src/runTask.ts).  Every write is judged twice: it   *)
(* may not take back what the claim on disk already says, and it must be   *)
(* evidence of one of the families a reader accepts.  A terminal write     *)
(* that is refused is only logged, and the run stays active for good.      *)
(*                                                                         *)
(* The evidence comes from the child (src/src/piChild.ts), which confirms  *)
(* its skill, tools and authority by receipts before it prompts, from the  *)
(* runner's stop reason (src/src/processRunner.ts), from the inspection of *)
(* the task root after the child has ended (src/src/authoringEffectScope   *)
(* .ts), and from runSubagentCore, which composes the result.              *)
(*                                                                         *)
(* One run, its owner, its child, an outsider who may edit the task root   *)
(* and a caller who may cancel.  The child is as far ahead of the owner as *)
(* one line: the owner reads lines in their order, whatever else waits.    *)
(***************************************************************************)
EXTENDS FiniteSets, Naturals, Sequences, SequencesExt

CONSTANTS
    Runs,        \* what a run may declare: the receipts it needs, its scope, its pair
    MaxRecent,   \* bound of the code: events a claim keeps
    MaxMessages, \* bound: public lines of the child's agent
    MaxCancels,  \* bound: calls of cancel_run
    MaxFailures  \* bound: writes that fail on disk, and receipts that confirm something else

Receipts == {"recursion", "activation", "snapshot", "system"}

\* What a request may declare: a profile or a pinned skill has an activation to confirm, and
\* a bounded profile a snapshot.
IsDeclaration(r) ==
    /\ "recursion" \in r.receipts /\ r.receipts \subseteq Receipts
    /\ r.scoped \in BOOLEAN /\ r.strict \in BOOLEAN
    /\ r.scoped => "activation" \in r.receipts
    /\ r.strict => r.scoped /\ "snapshot" \in r.receipts

ASSUME RunsAreDeclarations == \A r \in Runs : IsDeclaration(r)
ASSUME EvidenceBounds == {MaxRecent, MaxMessages, MaxCancels, MaxFailures} \subseteq Nat

\* Beside the two events that stay there is room for a last one (the code keeps 25).
ASSUME RecentHasRoom == MaxRecent > 2

VARIABLES
    run,      \* the request
    step,     \* where the owner's execution of it is
    mem,      \* the owner's copy of the run
    claim,    \* the run's claim on disk
    flags,    \* what the runner has noted
    aborted,  \* the abort signal of the run
    child,    \* the child process
    printed,  \* how many lines of its script it has printed
    said,     \* how many lines its agent has said
    line,     \* the line between child and owner
    parsed,   \* what runSubagentCore has read in the lines
    exit,     \* how the child ended
    tree,     \* the task root, against what was captured: "late" is an edit behind the inspection
    drift,    \* what the terminal inspection of it found
    outcome,  \* the result or the error the run is settled with
    cancels, failures

evidenceVars == <<run, step, mem, claim, flags, aborted, child, printed, said, line, parsed, exit,
                  tree, drift, outcome, cancels, failures>>

None == "none"
Terminal == {"completed", "failed", "cancelled", "timed_out"}
Running == {"preparing", "granted", "running"}
Over == {"settled", "rejected", "unsettled"}

(***************************************************************************)
(* Events.  One that is named twice is told apart by a number.             *)
(***************************************************************************)
Event(name) == <<name, 0>>
Cancellation(n) == <<"cancellation_requested", n>>
Names(events) == {events[i][1] : i \in DOMAIN events}
IsAnchor(e) == e[1] \in {"run_started", "child_spawned"}
Childs == {"child_spawned", "child_prompt_submitted", "lifecycle"}
IsChilds(e) == e[1] \in Childs
IsStable(e) == e[1] \in {"child_spawned", "cancellation_requested", "settled"}

\* The first events of the run and of the child stay; of the others, which come one at a
\* time, the oldest goes.
Recent(events) ==
    IF Len(events) <= MaxRecent THEN events
    ELSE RemoveAt(events, Min({i \in DOMAIN events : ~IsAnchor(events[i])}))

\* The events that have none of these names.
Without(events, names) ==
    LET kept[i \in 0 .. Len(events)] ==
            IF i = 0 THEN <<>>
            ELSE IF events[i][1] \in names THEN kept[i - 1]
            ELSE Append(kept[i - 1], events[i])
    IN  kept[Len(events)]

Note(m, e) == [m EXCEPT !.events = Recent(Append(@, e))]

(***************************************************************************)
(* Views: what the owner would write.                                      *)
(***************************************************************************)
NoOutcome == [kind |-> None, stop |-> None, success |-> FALSE, exit |-> None,
              timedOut |-> FALSE, class |-> FALSE, pair |-> FALSE, receipts |-> {}]
Error == [NoOutcome EXCEPT !.kind = "error", !.class = TRUE]

\* An active claim leaves out what the agent says.
ClaimedEvents(m) == Without(m.events, {"message"})

ActiveView(m) ==
    [status |-> "working", launched |-> m.launched \/ claim.launched, started |-> m.started,
     receipts |-> m.receipts, outcome |-> NoOutcome,
     events |-> ClaimedEvents(m)]

ResultStatus(o) ==
    CASE o.stop = "cancelled" -> "cancelled"
      [] o.stop # "cancelled" /\ (o.timedOut \/ o.stop = "timeout") -> "timed_out"
      [] OTHER -> IF o.success THEN "completed" ELSE "failed"

\* Bug: a cancellation accepted behind the child's end is forgotten.
NormalizeOnlyBeforeLaunch(o) ==
    IF mem.cancelled /\ o.kind = "result" /\ o.stop = "cancelled" /\ ~mem.started
    THEN Error ELSE o

\* An accepted cancellation wins over whatever the child came to, and before the launch
\* it is not a result at all.
NormalizeAcceptedCancellation(o) ==
    IF ~mem.cancelled \/ o.kind # "result" THEN o
    ELSE IF o.stop # "cancelled"
         THEN [o EXCEPT !.success = FALSE, !.timedOut = FALSE, !.stop = "cancelled",
                        !.class = FALSE]
         ELSE IF mem.started THEN o ELSE Error

TerminalEvents ==
    Recent(Without(Note(mem, Event("settled")).events, IF mem.started THEN {} ELSE Childs))

TerminalView(o) ==
    [status   |-> IF o.kind = "result" THEN ResultStatus(o)
                  ELSE IF mem.cancelled THEN "cancelled" ELSE "failed",
     launched |-> mem.launched \/ claim.launched,
     started  |-> mem.started,
     receipts |-> mem.receipts \cup o.receipts,
     events   |-> TerminalEvents,
     outcome  |-> IF o.kind = "error" /\ mem.cancelled /\ ~mem.started
                  THEN [o EXCEPT !.class = FALSE] ELSE o]

(***************************************************************************)
(* The two judgements.                                                     *)
(***************************************************************************)
Stable(c) == {e \in ToSet(c.events) : IsStable(e)}

\* assertOwnerViewTransition.
Follows(old, new) ==
    /\ old.started => new.started
    /\ Stable(old) \subseteq Stable(new)
    /\ old.receipts \cap {"activation", "snapshot", "recursion"} \subseteq new.receipts
    /\ old.status \in Terminal => new = old

\* A prompt is told only with every receipt it was to wait for.
PromptIsCovered(c) ==
    "child_prompt_submitted" \in Names(c.events) => run.receipts \subseteq c.receipts

\* assertRunOwnerRecord: a claim that has been launched tells the spawn exactly once.
LaunchIsConsistent(c) ==
    IF ~c.launched THEN ~c.started
    ELSE (c.started <=> "child_spawned" \in Names(c.events)) /\ PromptIsCovered(c)

\* hasConsistentResultStatus.
ResultIsConsistent(c) ==
    LET o == c.outcome IN
    /\ c.started /\ c.status = ResultStatus(o)
    /\ CASE c.status = "completed" ->
              o.success /\ o.exit = "zero" /\ ~o.timedOut /\ o.stop = "completed" /\ ~o.class
         [] c.status = "failed" ->
              ~o.success /\ ~o.timedOut /\ o.stop \notin {"cancelled", "timeout"} /\ o.class
         [] c.status = "cancelled" -> ~o.success /\ ~o.timedOut /\ o.stop = "cancelled"
         [] c.status = "timed_out" -> ~o.success /\ o.timedOut /\ o.stop = "timeout"

IsStrict(receipts) == run.strict /\ "activation" \in receipts

\* A pair is the strict Researcher's, and no Researcher completes without it.
ProjectionIsValid(status, receipts, pair) ==
    IF IsStrict(receipts) THEN status = "completed" => pair
    ELSE ~pair /\ (run.strict => status # "completed")

HasResultEvidence(c) ==
    c.outcome.kind = "result" /\ ProjectionIsValid(c.status, c.receipts, c.outcome.pair)

\* What is told of a child that was never started is nothing.
LifecycleIsDerivable(c) ==
    IF c.started THEN PromptIsCovered(c)
    ELSE c.receipts = {} /\ \A e \in ToSet(c.events) : ~IsChilds(e)

SettlesOnce(c) == Cardinality({i \in DOMAIN c.events : c.events[i] = Event("settled")}) = 1

\* hasOwnerTerminalEvidence.
HasOwnerEvidence(c) ==
    /\ c.outcome.kind = "error"
    /\ c.status \in {"failed", "cancelled"}
    /\ LifecycleIsDerivable(c) /\ SettlesOnce(c)
    /\ c.outcome.class <=> ~(c.status = "cancelled" /\ ~c.started)

Admissible(c) ==
    /\ LaunchIsConsistent(c)
    /\ c.status \in Terminal =>
         (HasResultEvidence(c) /\ ResultIsConsistent(c)) \/ HasOwnerEvidence(c)

Acceptable(c) == Follows(claim, c) /\ Admissible(c)

\* writeRunClaimOwned.  A write that fails may do so behind its rename, when the directory
\* is synced: the claim is then ahead of the owner's memory.
Persist(c, OnCommit, OnFailure) ==
    IF Acceptable(c)
    THEN \/ claim' = c /\ UNCHANGED failures /\ OnCommit
         \/ /\ failures < MaxFailures
            /\ claim' \in {claim, c} /\ failures' = failures + 1
            /\ OnFailure
    ELSE UNCHANGED <<claim, failures>> /\ OnFailure

(***************************************************************************)
(* Up to the spawn of the child.                                           *)
(***************************************************************************)
NoFlags == [timedOut |-> FALSE, cancelled |-> FALSE, exhausted |-> FALSE, outputError |-> FALSE,
            spawnError |-> FALSE, spawnRefused |-> FALSE]
NoLine == [name |-> None, valid |-> FALSE, stage |-> None]

EvidenceInit ==
    /\ run \in Runs
    /\ step = "preparing" /\ outcome = NoOutcome /\ parsed = {} /\ drift = FALSE
    /\ mem = [launched |-> FALSE, started |-> FALSE, cancelled |-> FALSE, receipts |-> {},
              events |-> <<Event("run_started")>>]
    /\ claim = [status |-> "working", launched |-> FALSE, started |-> FALSE, receipts |-> {},
                outcome |-> NoOutcome, events |-> <<Event("run_started")>>]
    /\ flags = NoFlags /\ aborted = FALSE
    /\ child = None /\ printed = 0 /\ said = 0 /\ line = NoLine /\ exit = None
    /\ tree = "captured"
    /\ cancels = 0 /\ failures = 0

process == <<child, printed, said, exit>>
core == <<parsed, drift>>
Keep(names) == UNCHANGED <<run, cancels, names>>

\* runSubagentCore throws: the run is settled with the error.
Throws == step' = "concluded" /\ outcome' = Error

\* The task root is captured and the launch is observed before the child's request is
\* written; any preflight, and that write, may throw.
Grant ==
    /\ step = "preparing"
    /\ LET m == [mem EXCEPT !.launched = TRUE]
       IN  Persist(ActiveView(m), mem' = m /\ step' = "granted" /\ UNCHANGED outcome,
                   Throws /\ UNCHANGED mem)
    /\ Keep(<<flags, aborted, process, line, core, tree>>)

PreflightThrows ==
    /\ step \in {"preparing", "granted"}
    /\ Throws
    /\ Keep(<<mem, claim, flags, aborted, process, line, core, tree, failures>>)

Launch ==
    /\ step = "granted" /\ ~aborted
    /\ step' = "running" /\ child' = "held"
    /\ Keep(<<mem, claim, flags, aborted, printed, said, exit, line, core, tree, outcome,
              failures>>)

\* A run whose signal is already aborted has no child; nor has one whose spawn fails.
LaunchesNothing ==
    /\ step = "granted"
    /\ step' = "finished"
    /\ flags' = IF aborted THEN [flags EXCEPT !.cancelled = TRUE]
                 ELSE [flags EXCEPT !.spawnError = TRUE]
    /\ Keep(<<mem, claim, aborted, process, line, core, tree, outcome, failures>>)

\* The owner writes that the child was spawned and releases it; a child that is gone by
\* then cannot be released, and the observation fails like one that was not written.
ObserveSpawn ==
    /\ step = "running" /\ ~mem.started /\ ~flags.spawnRefused
    /\ LET m == Note([mem EXCEPT !.started = TRUE], Event("child_spawned"))
           refused == [flags EXCEPT !.spawnRefused = TRUE, !.outputError = TRUE]
       IN  Persist(ActiveView(m),
                   /\ mem' = m
                   /\ IF child = "held" THEN child' = "running" /\ UNCHANGED flags
                      ELSE flags' = refused /\ UNCHANGED child,
                   flags' = refused /\ UNCHANGED <<mem, child>>)
    /\ Keep(<<step, aborted, printed, said, exit, line, core, tree, outcome>>)

(***************************************************************************)
(* The child.  It prints its script in order, and stops before any line    *)
(* whose conditions do not hold.                                           *)
(***************************************************************************)
Script == SelectSeq(<<"bridge", "recursion", "session", "activation", "snapshot", "prompt",
                      "system">>,
                    LAMBDA l : l \in {"bridge", "session", "prompt"} \cup run.receipts)

\* A second capture of the task root is compared with the owner's.
RecaptureAgrees == run.scoped => tree = "captured"

\* The child resolves snapshot, system skill and controller once more, in the task root it
\* was promised; then it opens a session with the tools that go with them.
ChildBinds ==
    /\ child = "running" /\ printed = 1
    /\ RecaptureAgrees
    /\ child' = "bound"
    /\ Keep(<<step, mem, claim, flags, aborted, printed, said, exit, line, core, tree, outcome,
              failures>>)

ChildOpensSession ==
    /\ child = "bound"
    /\ child' = "open"
    /\ Keep(<<step, mem, claim, flags, aborted, printed, said, exit, line, core, tree, outcome,
              failures>>)

\* A receipt that is not what the owner expects is printed all the same.
Prints(name) ==
    /\ child = IF name = "bridge" THEN "running" ELSE "open"
    /\ line = NoLine
    /\ \E valid \in IF name \in Receipts /\ failures < MaxFailures THEN BOOLEAN ELSE {TRUE} :
          /\ line' = [name |-> name, valid |-> valid, stage |-> "printed"]
          /\ failures' = IF valid THEN failures ELSE failures + 1
    /\ Keep(<<step, mem, claim, flags, aborted, child, exit, core, tree, outcome>>)

ChildPrints ==
    /\ printed < Len(Script)
    /\ Prints(Script[printed + 1])
    /\ printed' = printed + 1 /\ UNCHANGED said

Prompted == printed > 0 /\ "prompt" \in ToSet(SubSeq(Script, 1, printed))

AgentSays ==
    /\ printed = Len(Script) /\ said < MaxMessages
    /\ Prints("message")
    /\ said' = said + 1 /\ UNCHANGED printed

\* The tools of a scoped run write the declared outputs and nothing else.
AgentWrites ==
    /\ child = "open" /\ Prompted /\ run.scoped /\ tree = "captured"
    /\ tree' = "written"
    /\ Keep(<<step, mem, claim, flags, aborted, process, line, core, outcome, failures>>)

\* Behind the inspection nobody looks at the task root any more.
OutsiderEdits ==
    /\ run.scoped
    /\ \/ /\ step \in {"granted", "running", "finished"} /\ tree # "altered"
          /\ tree' = "altered"
       \/ /\ step \in {"inspected", "concluded"} /\ tree \in {"captured", "written"}
          /\ tree' = "late"
    /\ Keep(<<step, mem, claim, flags, aborted, process, line, core, outcome, failures>>)

ChildEnds ==
    /\ child \in {"held", "running", "bound", "open"}
    /\ child' = "gone"
    /\ exit' \in {"other"} \cup
                (IF child = "open" /\ printed = Len(Script) THEN {"zero"} ELSE {})
    /\ Keep(<<step, mem, claim, flags, aborted, printed, said, line, core, tree, outcome,
              failures>>)

(***************************************************************************)
(* The lines, in the order they are printed.                               *)
(***************************************************************************)
\* A disk that is full is told apart from other failures.
LineFails ==
    /\ line' = NoLine
    /\ \E full \in IF failures' = failures THEN {FALSE} ELSE BOOLEAN :
          flags' = [flags EXCEPT !.outputError = TRUE, !.exhausted = @ \/ full]

TranscriptFails ==
    /\ line.stage = "printed" /\ failures < MaxFailures
    /\ failures' = failures + 1
    /\ LineFails
    /\ Keep(<<step, mem, claim, aborted, process, core, tree, outcome>>)

\* runSubagentCore keeps what it has read whether or not the claim takes it.
AcceptReceipt ==
    /\ line.stage = "printed" /\ line.valid /\ line.name \in Receipts \ parsed
    /\ parsed' = parsed \cup {line.name}
    /\ LET m == [mem EXCEPT !.receipts = @ \cup {line.name}]
       IN  Persist(ActiveView(m),
                   mem' = m /\ line' = [line EXCEPT !.stage = "accepted"] /\ UNCHANGED flags,
                   LineFails /\ UNCHANGED mem)
    /\ Keep(<<step, aborted, process, drift, tree, outcome>>)

\* Bug: a prompt the child reports is believed.
PromptIsBelieved(m) == m.started

\* hasCompletePrePromptOwnerObservations.
PromptIsProven(m) == run.receipts \subseteq m.receipts

Observed(m) ==
    CASE line.name = "message" -> Note(m, Event("message"))
      [] line.name = "prompt" ->
           IF PromptIsProven(m) THEN Note(m, Event("child_prompt_submitted")) ELSE m
      [] line.name \in Receipts ->
           IF line.name \in m.receipts THEN Note(m, Event("lifecycle")) ELSE m
      [] OTHER -> Note(m, Event("lifecycle"))

\* In memory only: the claim on disk shows it from the next write on.
Observe ==
    /\ mem' = Observed(mem)
    /\ line' = NoLine
    /\ Keep(<<step, claim, flags, aborted, process, drift, tree, outcome, failures>>)

ObserveReceipt == line.stage = "accepted" /\ Observe /\ UNCHANGED parsed

\* A line that confirms nothing, or not what was expected.
ObserveOther ==
    /\ line.stage = "printed" /\ ~(line.valid /\ line.name \in Receipts)
    /\ parsed' = parsed \cup ({line.name} \cap {"session"})
    /\ Observe

(***************************************************************************)
(* What ends the child.                                                    *)
(***************************************************************************)
Raises(flag) ==
    /\ step = "running" /\ ~flags[flag]
    /\ flags' = [flags EXCEPT ![flag] = TRUE]
    /\ Keep(<<step, mem, claim, aborted, process, line, core, tree, outcome, failures>>)

Timeout == Raises("timedOut")
DiskFills == Raises("exhausted")

Cancel ==
    /\ cancels < MaxCancels /\ step \notin Over /\ ~mem.cancelled
    /\ cancels' = cancels + 1
    /\ LET m == Note([mem EXCEPT !.cancelled = TRUE], Cancellation(cancels))
       IN  Persist(ActiveView(m), mem' = m, UNCHANGED mem)
    /\ UNCHANGED <<run, step, flags, aborted, process, line, core, tree, outcome>>

Abort ==
    /\ mem.cancelled /\ ~aborted /\ step \in Running
    /\ aborted' = TRUE
    /\ flags' = [flags EXCEPT !.cancelled = @ \/ (step = "running" /\ child # "gone")]
    /\ Keep(<<step, mem, claim, process, line, core, tree, outcome, failures>>)

(***************************************************************************)
(* The end.                                                                *)
(***************************************************************************)
StopReason ==
    IF flags.spawnError THEN "spawn_error"
    ELSE IF flags.exhausted THEN "resource_exhausted"
    ELSE IF flags.timedOut THEN "timeout"
    ELSE IF flags.cancelled THEN "cancelled"
    ELSE IF exit = "zero" /\ ~flags.outputError THEN "completed" ELSE "failed"

Finish ==
    /\ step = "running" /\ child = "gone" /\ line = NoLine
    /\ IF flags.spawnRefused THEN Throws
       ELSE mem.started /\ step' = "finished" /\ UNCHANGED outcome
    /\ Keep(<<mem, claim, flags, aborted, process, line, core, tree, failures>>)

\* A run that declared its outputs must have written them all; a bounded one may have.
TreeIsSettled == IF run.strict THEN tree # "altered" ELSE tree = "written"

\* The snapshot is resolved again, too, and may be gone.
Inspect ==
    /\ step = "finished"
    /\ step' = "inspected"
    /\ drift' \in {run.scoped /\ ~TreeIsSettled,
                   run.scoped /\ ("snapshot" \in run.receipts \/ ~TreeIsSettled)}
    /\ Keep(<<mem, claim, flags, aborted, process, line, parsed, tree, outcome, failures>>)

Succeeds(pair) ==
    /\ exit = "zero" /\ ~(flags.timedOut \/ flags.cancelled \/ flags.exhausted) /\ ~drift
    /\ run.receipts \cup {"session"} \subseteq parsed
    /\ run.strict => pair

\* The final message may be missing, and the job of the controller incomplete.
Conclude ==
    /\ step = "inspected"
    /\ step' = "concluded"
    /\ \E message \in BOOLEAN,
          pair \in IF IsStrict(parsed) /\ ~drift THEN BOOLEAN ELSE {FALSE} :
          LET success == Succeeds(pair) /\ message IN
          outcome' = [kind |-> "result", stop |-> StopReason, success |-> success, exit |-> exit,
                      timedOut |-> flags.timedOut, pair |-> pair,
                      class |-> drift \/ ~(success \/ flags.cancelled),
                      receipts |-> parsed \cap Receipts]
    /\ Keep(<<mem, claim, flags, aborted, process, line, core, tree, failures>>)

ConclusionThrows ==
    /\ step \in {"finished", "inspected"}
    /\ Throws
    /\ Keep(<<mem, claim, flags, aborted, process, line, core, tree, failures>>)

\* settleRunClaim.  Whoever calls the finalization logs its failure and does no more.
Settle ==
    /\ step = "concluded"
    /\ Persist(TerminalView(NormalizeAcceptedCancellation(outcome)),
               step' = "settled",
               step' = IF failures' = failures THEN "rejected" ELSE "unsettled")
    /\ Keep(<<mem, flags, aborted, process, line, core, tree, outcome>>)

EvidenceNext ==
    \/ Grant \/ PreflightThrows \/ Launch \/ LaunchesNothing \/ ObserveSpawn
    \/ TranscriptFails \/ AcceptReceipt \/ ObserveReceipt \/ ObserveOther
    \/ Timeout \/ DiskFills \/ Cancel \/ Abort
    \/ Finish \/ Inspect \/ Conclude \/ ConclusionThrows \/ Settle
    \/ ChildBinds \/ ChildOpensSession \/ ChildPrints \/ AgentSays \/ AgentWrites
    \/ ChildEnds \/ OutsiderEdits

EvidenceSpec == EvidenceInit /\ [][EvidenceNext]_evidenceVars

(***************************************************************************)
(* Properties.                                                             *)
(***************************************************************************)
ChildNeverRan == flags.spawnError
ExhaustedInTheGrace == flags.timedOut /\ flags.exhausted
ZeroBehindAFailure == flags.outputError /\ exit = "zero"
CancellationIsEvicted ==
    mem.cancelled /\ "cancellation_requested" \notin Names(TerminalEvents)
ClaimIsAhead ==
    \/ claim.started /\ ~mem.started
    \/ ~(claim.receipts \subseteq mem.receipts)
    \/ \E e \in Stable(claim) : e[1] = "cancellation_requested" /\ e \notin ToSet(mem.events)

\* The owner composes only terminal claims its own validators admit, save in five corners:
\* the spawn failed; the disk filled while a timed-out child was being killed; the child
\* ended well behind a line that failed; so many events followed an accepted cancellation
\* that its own was dropped; a write failed behind its rename.
RejectionsAreExplained ==
    step = "rejected" =>
        \/ ChildNeverRan \/ ExhaustedInTheGrace \/ ZeroBehindAFailure
        \/ CancellationIsEvicted \/ ClaimIsAhead

\* What a terminal claim says is what happened: completed is a child that exited with zero,
\* unhurried, with every declared receipt, its outputs in a task root nobody altered before
\* its inspection (an edit between that and the terminal claim goes unnoticed), and its
\* pair; cancelled is an accepted cancellation, and nothing else is when there was one; a
\* timeout had its timer fire; a spawn, a receipt or a prompt belongs to a child.
TerminalClaimIsTrue ==
    claim.status \in Terminal =>
        /\ claim.status = "completed" =>
              /\ exit = "zero" /\ flags = NoFlags
              /\ run.receipts \subseteq claim.receipts
              /\ run.strict => claim.outcome.pair
              /\ run.scoped => tree # "altered"
        /\ claim.status = "cancelled" <=> mem.cancelled
        /\ claim.status = "timed_out" => flags.timedOut
        /\ claim.started <=> mem.started
        /\ claim.receipts # {} => claim.started
        /\ "child_prompt_submitted" \in Names(claim.events) => run.receipts \subseteq parsed
=============================================================================
