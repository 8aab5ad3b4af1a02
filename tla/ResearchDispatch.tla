-------------------------- MODULE ResearchDispatch --------------------------
(***************************************************************************)
(* The accounting of web calls in a strict Researcher child:               *)
(* src/src/boundedController.ts runs one controller subprocess at a time,  *)
(* src/src/researchDispatchMediator.ts claims a reservation in the         *)
(* controller's job before a web tool runs and records its result after.   *)
(*                                                                         *)
(* The controller is the script of the snapshot, external to this code: a  *)
(* subprocess reads the job, decides, and writes the job back.  It exits   *)
(* with zero or not, or is killed after two seconds, whatever it has       *)
(* written by then.  Only one pending reservation may match a claim.       *)
(*                                                                         *)
(* The model's own commands and the mediator's share one queue.  Web calls *)
(* of one message run side by side.                                        *)
(***************************************************************************)
EXTENDS FiniteSets, Naturals, Sequences

CONSTANTS
    Calls,        \* top-level web_search and web_read calls of the child
    Attempts,     \* attempts the model may start, each with one reservation
    Argument,     \* [Calls \cup Attempts -> tool and canonical arguments]
    NoCall,       \* a reservation nobody has claimed
    MaxFailures,  \* bound: commands that fail although the controller would accept them
    MaxEvents     \* bound: tool_result events of one call

ASSUME BoundsAreNaturals == MaxFailures \in Nat /\ MaxEvents \in Nat
ASSUME NoCallIsNoCall == NoCall \notin Calls

Commands ==
    [kind : {"init"}, of : {NoCall}] \cup [kind : {"start"}, of : Attempts]
    \cup [kind : {"claim", "record"}, of : Calls]
Init0 == [kind |-> "init", of |-> NoCall]
StartOf(a) == [kind |-> "start", of |-> a]
ClaimOf(c) == [kind |-> "claim", of |-> c]
RecordOf(c) == [kind |-> "record", of |-> c]

Reservations == {"none", "pending", "claimed", "recorded"}
Jobs == [exists : BOOLEAN, state : [Attempts -> Reservations],
         by : [Attempts -> Calls \cup {NoCall}]]
NoJob == [exists |-> FALSE, state |-> [a \in Attempts |-> "none"],
          by |-> [a \in Attempts |-> NoCall]]

VARIABLES
    job,         \* job.json
    directories, \* the state root and the input root exist
    queue,       \* callers of BoundedControllerExecutionQueue.run, oldest first
    command,     \* [Commands -> where each is: its step, and the job its subprocess has read]
    call,        \* [Calls -> where each web call is]
    claimed,     \* the mediator's claimed
    recording,   \* the mediator's recording
    provided,    \* calls the web provider has executed
    events,      \* [Calls -> tool_result events so far]
    failures

vars == <<job, directories, queue, command, call, claimed, recording, provided, events, failures>>
mediator == <<call, claimed, recording, provided, events>>

CommandSteps == {"idle", "queued", "prepared", "read", "exited"}
CallSteps == {"unsent", "claiming", "blocked", "granted", "ran", "recording", "answered",
              "unaccounted", "abandoned"}
Outcomes == {"none", "success", "failure"}

DispatchTypeOK ==
    /\ job \in Jobs /\ directories \in BOOLEAN
    /\ queue \in Seq(Commands)
    /\ command \in [Commands -> [step : CommandSteps, seen : Jobs, outcome : Outcomes]]
    /\ call \in [Calls -> CallSteps]
    /\ claimed \subseteq Calls /\ recording \subseteq Calls /\ provided \subseteq Calls
    /\ events \in [Calls -> 0 .. MaxEvents] /\ failures \in 0 .. MaxFailures

Idle == [step |-> "idle", seen |-> NoJob, outcome |-> "none"]

Init ==
    /\ job = NoJob /\ directories = FALSE
    /\ queue = <<>> /\ command = [k \in Commands |-> Idle]
    /\ call = [c \in Calls |-> "unsent"]
    /\ claimed = {} /\ recording = {} /\ provided = {}
    /\ events = [c \in Calls |-> 0] /\ failures = 0

(***************************************************************************)
(* The controller, external: what a subprocess that read a job makes of it *)
(***************************************************************************)
Matching(seen, c) ==
    {a \in Attempts : seen.state[a] = "pending" /\ Argument[a] = Argument[c]}
ClaimedBy(seen, c) == {a \in Attempts : seen.state[a] = "claimed" /\ seen.by[a] = c}

Accepts(seen, k) ==
    CASE k.kind = "init" -> ~seen.exists
      [] k.kind = "start" -> seen.exists /\ seen.state[k.of] = "none"
      [] k.kind = "claim" -> Cardinality(Matching(seen, k.of)) = 1
      [] k.kind = "record" -> ClaimedBy(seen, k.of) # {}

Applied(seen, k) ==
    CASE k.kind = "init" -> [seen EXCEPT !.exists = TRUE]
      [] k.kind = "start" -> [seen EXCEPT !.state[k.of] = "pending"]
      [] k.kind = "claim" ->
           [seen EXCEPT !.state = [a \in Attempts |-> IF a \in Matching(seen, k.of) THEN "claimed"
                                                      ELSE @[a]],
                        !.by = [a \in Attempts |-> IF a \in Matching(seen, k.of) THEN k.of
                                                   ELSE @[a]]]
      [] k.kind = "record" ->
           [seen EXCEPT !.state = [a \in Attempts |-> IF a \in ClaimedBy(seen, k.of) THEN "recorded"
                                                      ELSE @[a]]]

(***************************************************************************)
(* The queue and executeController.                                        *)
(***************************************************************************)
Step(k, step) == command' = [command EXCEPT ![k].step = step]
Fail == failures < MaxFailures /\ failures' = failures + 1

Enqueue(k) ==
    /\ command[k].step = "idle"
    /\ queue' = Append(queue, k)
    /\ command' = [command EXCEPT ![k] = [Idle EXCEPT !.step = "queued"]]

\* Bug: a command does not wait for the one before it.
WaitsForNobody(k) == TRUE
\* An operation begins when the one before it has released its place.
Admitted(k) == queue # <<>> /\ Head(queue) = k

\* Bug: an exception keeps the place.
ReleasedOnSuccess(k, outcome) ==
    /\ command' = [command EXCEPT ![k] = [@ EXCEPT !.step = "exited", !.outcome = outcome]]
    /\ queue' = IF outcome = "success" THEN Tail(queue) ELSE queue

\* The end of an operation, answer or exception: its place is released either way.
Released(k, outcome) ==
    /\ command' = [command EXCEPT ![k] = [@ EXCEPT !.step = "exited", !.outcome = outcome]]
    /\ queue' = Tail(queue)

\* Root, arguments and the bytes of script and interpreter are checked; init also makes its
\* directories, and takes existing ones as they are.
Prepare(k) ==
    /\ command[k].step = "queued" /\ Admitted(k)
    /\ Step(k, "prepared")
    /\ directories' = (directories \/ k.kind = "init")
    /\ UNCHANGED <<job, queue, failures, mediator>>

\* A check throws before the subprocess is started.
PrepareThrows(k) ==
    /\ command[k].step = "queued" /\ Admitted(k) /\ Fail
    /\ Released(k, "failure")
    /\ UNCHANGED <<job, directories, mediator>>

SubprocessReads(k) ==
    /\ command[k].step = "prepared"
    /\ command' = [command EXCEPT ![k].step = "read", ![k].seen = job]
    /\ UNCHANGED <<job, directories, queue, failures, mediator>>

\* Exit zero, and the writable scope is closed as before.
Succeeds(k) ==
    /\ command[k].step = "read"
    /\ Accepts(command[k].seen, k)
    /\ job' = Applied(command[k].seen, k)
    /\ Released(k, "success")
    /\ UNCHANGED <<directories, failures, mediator>>

Rejects(k) ==
    /\ command[k].step = "read"
    /\ ~Accepts(command[k].seen, k)
    /\ Released(k, "failure")
    /\ UNCHANGED <<job, directories, failures, mediator>>

\* Killed by the timeout before or after its write, or the closure check throws after it: the
\* caller is told of a failure, and the job may say otherwise.
FailsAnyway(k) ==
    /\ command[k].step = "read"
    /\ Accepts(command[k].seen, k)
    /\ Fail
    /\ job' \in {job, Applied(command[k].seen, k)}
    /\ Released(k, "failure")
    /\ UNCHANGED <<directories, mediator>>

(***************************************************************************)
(* The model's own commands: researchctl init and start-attempt.           *)
(***************************************************************************)
ModelCommands == {Init0} \cup {StartOf(a) : a \in Attempts}

\* researchctl is a sequential tool: the model waits for one answer before it calls again.
Execute(k) ==
    /\ k \in ModelCommands
    /\ \A other \in ModelCommands : command[other].step = "idle"
    /\ Enqueue(k)
    /\ UNCHANGED <<job, directories, failures, mediator>>

ModelIsAnswered(k) ==
    /\ k \in ModelCommands /\ command[k].step = "exited"
    /\ command' = [command EXCEPT ![k] = Idle]
    /\ UNCHANGED <<job, directories, queue, failures, mediator>>

(***************************************************************************)
(* The mediator.                                                           *)
(***************************************************************************)
Goes(c, step) == call' = [call EXCEPT ![c] = step]
RestOfMediator == UNCHANGED <<job, directories, failures>>

\* tool_call, before the tool runs.
Claim(c) ==
    /\ call[c] = "unsent"
    /\ Goes(c, "claiming")
    /\ Enqueue(ClaimOf(c))
    /\ RestOfMediator /\ UNCHANGED <<claimed, recording, provided, events>>

\* Only an envelope of success lets the tool run; a failure or an exception blocks it.
ClaimReturns(c) ==
    LET k == ClaimOf(c)
    IN /\ command[k].step = "exited"
       /\ command' = [command EXCEPT ![k] = Idle]
       /\ IF command[k].outcome = "success"
          THEN Goes(c, "granted") /\ claimed' = claimed \cup {c}
          ELSE Goes(c, "blocked") /\ UNCHANGED claimed
       /\ RestOfMediator /\ UNCHANGED <<queue, recording, provided, events>>

\* The provider, external, answers or fails.
ProviderRuns(c) ==
    /\ call[c] = "granted"
    /\ Goes(c, "ran")
    /\ provided' = provided \cup {c}
    /\ RestOfMediator /\ UNCHANGED <<queue, command, claimed, recording, events>>

\* The child gives the call up: its result is never observed.
Abandon(c) ==
    /\ call[c] \in {"granted", "ran"}
    /\ Goes(c, "abandoned")
    /\ RestOfMediator /\ UNCHANGED <<queue, command, claimed, recording, provided, events>>

Recordable(c) == c \in claimed /\ c \notin recording

\* tool_result: the first event, or one more of a call whose accounting has ended or is going on.
ToolResult(c) ==
    /\ call[c] \in {"ran", "recording", "answered", "unaccounted"}
    /\ events[c] < MaxEvents
    /\ events' = [events EXCEPT ![c] = @ + 1]
    /\ IF Recordable(c)
       THEN /\ recording' = recording \cup {c}
            /\ Goes(c, "recording")
            /\ Enqueue(RecordOf(c))
       ELSE \* the mediator throws: this event becomes an error
            UNCHANGED <<recording, call, queue, command>>
    /\ RestOfMediator /\ UNCHANGED <<claimed, provided>>

\* A failure leaves the call claimed, and its result is turned into an error.
RecordReturns(c) ==
    LET k == RecordOf(c)
        recorded == command[k].outcome = "success"
    IN /\ command[k].step = "exited"
       /\ command' = [command EXCEPT ![k] = Idle]
       /\ recording' = recording \ {c}
       /\ claimed' = IF recorded THEN claimed \ {c} ELSE claimed
       /\ Goes(c, IF recorded THEN "answered" ELSE "unaccounted")
       /\ RestOfMediator /\ UNCHANGED <<queue, provided, events>>

(***************************************************************************)
(* The specification.                                                      *)
(***************************************************************************)
Run(k) ==
    Prepare(k) \/ PrepareThrows(k) \/ SubprocessReads(k) \/ Succeeds(k) \/ Rejects(k)
    \/ FailsAnyway(k)
Return(c) == ClaimReturns(c) \/ RecordReturns(c)

Next ==
    \/ \E k \in Commands : Run(k) \/ Execute(k) \/ ModelIsAnswered(k)
    \/ \E c \in Calls : \/ Claim(c) \/ Return(c) \/ ProviderRuns(c) \/ Abandon(c)
                        \/ ToolResult(c)

\* A subprocess exits or is killed, an answered promise continues, a provider with a timeout of
\* its own returns and its result is an event.  Nothing makes the model call.
Fairness ==
    /\ \A k \in Commands : WF_vars(Run(k)) /\ WF_vars(ModelIsAnswered(k))
    /\ \A c \in Calls : WF_vars(Return(c)) /\ WF_vars(ProviderRuns(c))
                        /\ WF_vars(call[c] = "ran" /\ ToolResult(c))

Spec == Init /\ [][Next]_vars /\ Fairness

(***************************************************************************)
(* Properties.                                                             *)
(***************************************************************************)
\* No web provider runs without a reservation of its own in the job, made for its tool and
\* arguments, and the model sees no result as good that the job does not have recorded, whoever
\* else wrote the job meanwhile (src/src/researchDispatchMediator.ts:64, 94).
DispatchesAreAccounted ==
    \A c \in provided :
       \E a \in Attempts :
          /\ Argument[a] = Argument[c] /\ job.by[a] = c
          /\ job.state[a] \in {"claimed", "recorded"}
          /\ call[c] = "answered" => job.state[a] = "recorded"

\* Every web call the child makes is blocked, answered or answered with an error, unless the
\* child gives it up, and every command of the model is answered: a controller that fails, is
\* killed or rejects holds nobody up (src/src/boundedController.ts:108).
EveryDispatchEnds ==
    /\ \A c \in Calls : (call[c] # "unsent") ~>
                        (call[c] \in {"blocked", "answered", "unaccounted", "abandoned"})
    /\ \A k \in ModelCommands : (command[k].step # "idle") ~> (command[k].step = "idle")
============================================================================
