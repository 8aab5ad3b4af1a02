------------------------------ MODULE RunOwner ------------------------------
(***************************************************************************)
(* One running run and everybody who touches its claim (src/runTask.ts):   *)
(* the child process, which asks its caller for input through the mailbox  *)
(* (src/inputMailbox.ts) and its control channel (src/piChildControl.ts)   *)
(* and may delegate; the owner, which observes the child's lines and in    *)
(* the end settles the run; the callers of answer_run_input; the caller of *)
(* cancel_run; and the descendant runs.                                    *)
(*                                                                         *)
(* withRunOwner runs the operations on a run one after the other, so each  *)
(* is one action.  What happens outside that chain is a step of its own:   *)
(* the child, and the two loops that close requests in the mailbox.        *)
(* Every operation that writes the claim publishes the same requests and   *)
(* lineage in memory, so the lineage is kept in the claim only.            *)
(***************************************************************************)
EXTENDS Naturals, Sequences, FiniteSets

CONSTANTS
    MaxRequests,  \* input requests the child makes at most
    MaxMessages,  \* assistant messages it prints at most
    Responses,    \* what a caller may send: a response_id with its answer
    NoResponse,   \* no response
    Callers,      \* those that call answer_run_input, one call at a time
    Delegates     \* descendant runs the child may start

ASSUME BoundsAssumption == MaxRequests \in Nat \ {0} /\ MaxMessages \in Nat
ASSUME NoResponseAssumption == NoResponse \notin Responses

VARIABLES
    child,      \* what the child process does
    asked,      \* the requests it has created: 1 .. asked
    spoken,     \* the messages it has printed
    consumed,   \* the response its request_input tool returned, per request
    buffered,   \* frames that found no waiter
    frames,     \* control frames on their way to the child
    lines,      \* output lines on their way to the owner
    mailbox,    \* the request and terminal files of the run's directory
    inputRequests,    \* state.inputRequests
    activePhase,      \* state.activePhase
    cancelRequested,  \* state.cancelRequested
    deliveries,       \* state.pendingInputDeliveries
    accepted,         \* state.acceptedInputResponses
    claim,      \* the run's claim file
    owner,      \* how far finalizeRegisteredRunTask is
    awaited,    \* the descendants it waits for
    toClose,    \* the requests it has still to close
    canceller,  \* how far cancelRunTask is
    toCancel,   \* the requests it has still to close
    calls,      \* what each caller waits for or was answered
    delegates,  \* the descendant runs
    races       \* history: the races that have happened

process == <<child, asked, spoken, consumed, buffered>>
memory == <<inputRequests, activePhase, cancelRequested, deliveries, accepted>>
finalizer == <<owner, awaited, toClose>>
cancellation == <<canceller, toCancel>>
vars == <<child, asked, spoken, consumed, buffered, frames, lines, mailbox,
          inputRequests, activePhase, cancelRequested, deliveries, accepted,
          claim, owner, awaited, toClose, canceller, toCancel, calls, delegates, races>>

Requests == 1 .. MaxRequests

\* A settled request keeps its outcome and its time: cancel_run and the end of
\* the run close at different times.
Settled == {"answered", "closedByCancel", "closedAtEnd"}
Statuses == Settled \cup {"none", "pending"}
Pending(requests) == {r \in Requests : requests[r] = "pending"}

\* The phases "starting" to "running" are one: no guard here tells them apart.
Phases == {"running", "input_required", "cancelling"}

Lines == [kind : {"input_required", "input_timed_out"}, request : Requests]
         \cup [kind : {"accepted"}, request : Requests, response : Responses]
         \cup [kind : {"message"}]

\* A refused call leaves its caller where it was, free to call again.
Called == {"idle", "waiting", "accepted", "replayed"}
NoCall == [step |-> "idle", request |-> 1, response |-> NoResponse]

\* "overtaken": an input line was observed after a cancellation was accepted
\* and before cancel_run had closed the files.  "orphaned": the child ended
\* before its delegate call was launched.  "unproven": the terminal claim was
\* refused for another reason than its requests.
Races == {"overtaken", "orphaned", "unproven"}

\* The shapes; the child waits for its latest request only, and a delivery is
\* pending exactly while a call waits for it.
RunOwnerTypeOK ==
    /\ child \in {"working", "created", "waiting", "delegating", "exited"}
    /\ asked \in 0 .. MaxRequests /\ spoken \in 0 .. MaxMessages
    /\ consumed \in [Requests -> Responses \cup {NoResponse}]
    /\ buffered \in [Requests -> Responses \cup {NoResponse}]
    /\ frames \in Seq([request : Requests, response : Responses])
    /\ lines \in Seq(Lines)
    /\ mailbox \in [Requests -> Statuses] /\ inputRequests \in [Requests -> Statuses]
    /\ activePhase \in Phases /\ cancelRequested \in BOOLEAN
    /\ deliveries \in [Requests -> Responses \cup {NoResponse}]
    /\ accepted \in [Requests -> Responses \cup {NoResponse}]
    /\ claim \in [status : {"active", "cancelled", "ended"}, requests : [Requests -> Statuses],
                  children : SUBSET Delegates, reported : SUBSET Delegates]
    /\ owner \in {"running", "awaiting", "listing", "closing", "removing", "done", "stuck"}
    /\ awaited \subseteq Delegates /\ toClose \subseteq Requests
    /\ canceller \in {"idle", "listing", "closing", "done", "failed"}
    /\ toCancel \subseteq Requests
    /\ calls \in [Callers -> [step : Called, request : Requests,
                              response : Responses \cup {NoResponse}]]
    /\ delegates \in [Delegates -> {"none", "requested", "registered", "attached", "running",
                                    "terminal", "done", "failed", "abandoned"}]
    /\ races \subseteq Races
    /\ child \in {"created", "waiting"} => asked > 0
    /\ \A r \in Requests : deliveries[r] # NoResponse
          <=> \E c \in Callers : calls[c].step = "waiting" /\ calls[c].request = r

Nothing == [r \in Requests |-> NoResponse]
Unasked == [r \in Requests |-> "none"]

\* The child runs, its control channel is registered, and its claim says so.
Init ==
    /\ child = "working" /\ asked = 0 /\ spoken = 0
    /\ consumed = Nothing /\ buffered = Nothing
    /\ frames = <<>> /\ lines = <<>>
    /\ mailbox = Unasked /\ inputRequests = Unasked
    /\ activePhase = "running" /\ cancelRequested = FALSE
    /\ deliveries = Nothing /\ accepted = Nothing
    /\ claim = [status |-> "active", requests |-> Unasked, children |-> {}, reported |-> {}]
    /\ owner = "running" /\ awaited = {} /\ toClose = {}
    /\ canceller = "idle" /\ toCancel = {}
    /\ calls = [c \in Callers |-> NoCall]
    /\ delegates = [d \in Delegates |-> "none"] /\ races = {}

-----------------------------------------------------------------------------
(* The claim.  writeRunClaimOwned throws unless the next view keeps what    *)
(* was settled and its status agrees with its phase.  What it asks of the   *)
(* evidence in a view is the subject of ClaimEvidence; here a settlement    *)
(* may be refused for it at any time.                                       *)

\* The transition into an active view is accepted.
ActiveWriteAccepted(requests, phase) ==
    /\ claim.status = "active"
    /\ \A r \in Requests : claim.requests[r] \in Settled => requests[r] = claim.requests[r]
    /\ Pending(requests) # {} <=> phase = "input_required"

\* The requests of a terminal view are accepted.
TerminalWriteAccepted(requests) ==
    /\ claim.status = "active"
    /\ \A r \in Requests : claim.requests[r] \in Settled => requests[r] = claim.requests[r]
    /\ Pending(requests) = {}

\* setTaskPhase: a run that is being cancelled stays in its phase.
PhaseUnlessCancelling(phase) == IF cancelRequested THEN activePhase ELSE phase

\* Bug: the run ends and nothing is closed.
CloseNothing(requests, outcome) == requests

\* planClosedInputRequests.
ClosePlanned(requests, outcome) ==
    [r \in Requests |-> IF requests[r] = "pending" THEN outcome ELSE requests[r]]

Waits(c, request) == calls[c].step = "waiting" /\ calls[c].request = request

\* The delivery of a request is completed, or rejected, for every call that waits for it.
Resolve(request) ==
    [c \in Callers |->
        IF Waits(c, request) THEN [calls[c] EXCEPT !.step = "accepted"] ELSE calls[c]]
Reject(request) == [c \in Callers |-> IF Waits(c, request) THEN NoCall ELSE calls[c]]

\* Bug: the deliveries stay.
KeepDeliveries == UNCHANGED <<deliveries, calls>>

\* rejectPendingInputDeliveries.
RejectDeliveries ==
    /\ deliveries' = Nothing
    /\ calls' = [c \in Callers |-> IF calls[c].step = "waiting" THEN NoCall ELSE calls[c]]

-----------------------------------------------------------------------------
(* The child process.                                                       *)

\* request_input writes the request file before it prints the request.
ChildAsks ==
    /\ child = "working" /\ asked < MaxRequests
    /\ asked' = asked + 1
    /\ mailbox' = [mailbox EXCEPT ![asked + 1] = "pending"]
    /\ child' = "created"
    /\ UNCHANGED <<spoken, consumed, buffered, frames, lines, memory, claim,
                   finalizer, cancellation, calls, delegates, races>>

\* The tool returns a response: the acceptance is printed first.
Consume(response, printed) ==
    /\ consumed' = [consumed EXCEPT ![asked] = response]
    /\ lines' = printed \o <<[kind |-> "accepted", request |-> asked, response |-> response]>>
    /\ child' = "working"

\* It prints the request and waits, unless the answer has overtaken it.
ChildWaits ==
    LET printed == Append(lines, [kind |-> "input_required", request |-> asked]) IN
    /\ child = "created"
    /\ \/ /\ buffered[asked] # NoResponse
          /\ Consume(buffered[asked], printed)
          /\ buffered' = [buffered EXCEPT ![asked] = NoResponse]
       \/ /\ buffered[asked] = NoResponse
          /\ child' = "waiting" /\ lines' = printed
          /\ UNCHANGED <<consumed, buffered>>
    /\ UNCHANGED <<asked, spoken, frames, mailbox, memory, claim, finalizer,
                   cancellation, calls, delegates, races>>

\* A frame meets its waiter, or is kept for one that may never come.
ChildTakesFrame ==
    LET f == Head(frames) IN
    /\ frames # <<>> /\ child # "exited"
    /\ frames' = Tail(frames)
    /\ \/ /\ child = "waiting" /\ f.request = asked
          /\ Consume(f.response, lines)
          /\ UNCHANGED buffered
       \/ /\ ~(child = "waiting" /\ f.request = asked)
          /\ buffered' = [buffered EXCEPT ![f.request] = f.response]
          /\ UNCHANGED <<child, consumed, lines>>
    /\ UNCHANGED <<asked, spoken, mailbox, memory, claim, finalizer,
                   cancellation, calls, delegates, races>>

\* inputTimeoutMs passes: the waiter is gone, the request file stays pending.
ChildTimesOut ==
    /\ child = "waiting"
    /\ child' = "working"
    /\ lines' = Append(lines, [kind |-> "input_timed_out", request |-> asked])
    /\ UNCHANGED <<asked, spoken, consumed, buffered, frames, mailbox, memory, claim,
                   finalizer, cancellation, calls, delegates, races>>

ChildSpeaks ==
    /\ child = "working" /\ spoken < MaxMessages
    /\ spoken' = spoken + 1
    /\ lines' = Append(lines, [kind |-> "message"])
    /\ UNCHANGED <<child, asked, consumed, buffered, frames, mailbox, memory, claim,
                   finalizer, cancellation, calls, delegates, races>>

\* The process ends: it has finished, it was killed, or it died.
ChildEnds ==
    /\ child # "exited"
    /\ child' = "exited"
    /\ races' = IF child = "delegating" THEN races \cup {"orphaned"} ELSE races
    /\ frames' = <<>> /\ buffered' = Nothing
    /\ UNCHANGED <<asked, spoken, consumed, lines, mailbox, memory, claim,
                   finalizer, cancellation, calls, delegates>>

-----------------------------------------------------------------------------
(* The owner observes the child's lines, in order.                          *)

OwnerReads(kind) == owner = "running" /\ lines # <<>> /\ Head(lines).kind = kind

ObserveMessage ==
    /\ OwnerReads("message")
    /\ activePhase' = PhaseUnlessCancelling("running")
    /\ lines' = Tail(lines)
    /\ UNCHANGED <<process, frames, mailbox, inputRequests, cancelRequested, deliveries,
                   accepted, claim, finalizer, cancellation, calls, delegates, races>>

\* Bug: only the pending requests are listed.
ObservePending(kind, phase) ==
    /\ OwnerReads(kind)
    /\ races' = IF canceller \in {"listing", "closing"} THEN races \cup {"overtaken"} ELSE races
    /\ inputRequests' = [r \in Requests |-> IF mailbox[r] = "pending" THEN "pending" ELSE "none"]
    /\ activePhase' = PhaseUnlessCancelling(phase)
    /\ lines' = Tail(lines)
    /\ UNCHANGED <<process, frames, mailbox, cancelRequested, deliveries, accepted,
                   claim, finalizer, cancellation, calls, delegates>>

\* An input line makes the owner list the mailbox anew.
ObserveInput(kind, phase) ==
    /\ OwnerReads(kind)
    /\ races' = IF canceller \in {"listing", "closing"} THEN races \cup {"overtaken"} ELSE races
    /\ inputRequests' = mailbox
    /\ activePhase' = PhaseUnlessCancelling(phase)
    /\ lines' = Tail(lines)
    /\ UNCHANGED <<process, frames, mailbox, cancelRequested, deliveries, accepted,
                   claim, finalizer, cancellation, calls, delegates>>

ObserveRequest == ObserveInput("input_required", "input_required")
ObserveTimeout == ObserveInput("input_timed_out", "running")

\* recordAnsweredInput.
Answered(request) == [inputRequests EXCEPT ![request] = "answered"]
PhaseAfterAnswer(request) ==
    IF Pending(Answered(request)) # {} THEN "input_required" ELSE "running"

\* settleChildAcceptedInputResponse: the file, the claim, the caller.
ObserveAcceptance ==
    LET r == Head(lines).request
        awaitedHere == deliveries[r] # NoResponse /\ deliveries[r] = Head(lines).response
        admissible == ~cancelRequested /\ mailbox[r] = "pending"
        written == admissible /\ ActiveWriteAccepted(Answered(r), PhaseAfterAnswer(r))
    IN
    /\ OwnerReads("accepted")
    /\ lines' = Tail(lines)
    /\ deliveries' = IF awaitedHere THEN [deliveries EXCEPT ![r] = NoResponse] ELSE deliveries
    /\ mailbox' = IF awaitedHere /\ admissible THEN [mailbox EXCEPT ![r] = "answered"] ELSE mailbox
    /\ \/ /\ awaitedHere /\ written
          /\ inputRequests' = Answered(r)
          /\ activePhase' = PhaseAfterAnswer(r)
          /\ claim' = [claim EXCEPT !.requests = Answered(r)]
          /\ accepted' = [accepted EXCEPT ![r] = deliveries[r]]
          /\ calls' = Resolve(r)
       \/ /\ ~(awaitedHere /\ written)
          /\ calls' = IF awaitedHere THEN Reject(r) ELSE calls
          /\ UNCHANGED <<inputRequests, activePhase, claim, accepted>>
    /\ UNCHANGED <<process, frames, cancelRequested, finalizer, cancellation, delegates, races>>

-----------------------------------------------------------------------------
(* answer_run_input.                                                        *)

\* settleRunClaim has published its terminal view.
Terminalizing == owner \in {"listing", "closing", "removing", "done"}

\* The request takes no new delivery.
NotAnswerable(request) ==
    inputRequests[request] # "pending" \/ cancelRequested \/ Terminalizing

Ask(c, request, response, step) ==
    calls' = [calls EXCEPT ![c] = [step |-> step, request |-> request, response |-> response]]

\* Bug: whoever answers an answered request gets the receipt.
RepeatAnyResponse(c, request, response) ==
    /\ calls[c].step = "idle" /\ accepted[request] # NoResponse
    /\ Ask(c, request, response, "replayed")
    /\ UNCHANGED <<process, frames, lines, mailbox, memory, claim, finalizer,
                   cancellation, delegates, races>>

\* An exact retry is answered with its receipt, or joins the delivery under way.
Repeat(c, request, response) ==
    /\ calls[c].step = "idle"
    /\ \/ /\ accepted[request] = response
          /\ Ask(c, request, response, "replayed")
       \/ /\ accepted[request] = NoResponse /\ deliveries[request] = response
          /\ Ask(c, request, response, "waiting")
    /\ UNCHANGED <<process, frames, lines, mailbox, memory, claim, finalizer,
                   cancellation, delegates, races>>

First(request) == accepted[request] = NoResponse /\ deliveries[request] = NoResponse

\* Refused: another response was accepted or is under way, the request is
\* settled or unknown, the run accepts no input, or the child's stdin is gone.
RefuseAnswer(c, request, response) ==
    /\ calls[c].step = "idle"
    /\ \/ accepted[request] \notin {NoResponse, response}
       \/ accepted[request] = NoResponse /\ deliveries[request] \notin {NoResponse, response}
       \/ First(request) /\ (NotAnswerable(request) \/ child = "exited")
    /\ UNCHANGED vars

\* The delivery is registered and the frame written.  A write to a process
\* that has just ended is lost.
Deliver(c, request, response) ==
    /\ calls[c].step = "idle" /\ First(request)
    /\ ~NotAnswerable(request)
    /\ deliveries' = [deliveries EXCEPT ![request] = response]
    /\ frames' = IF child = "exited" THEN frames
                 ELSE Append(frames, [request |-> request, response |-> response])
    /\ Ask(c, request, response, "waiting")
    /\ UNCHANGED <<process, lines, mailbox, inputRequests, activePhase, cancelRequested,
                   accepted, claim, finalizer, cancellation, delegates, races>>

Answer(c) == \E request \in Requests, response \in Responses :
    \/ Repeat(c, request, response)
    \/ RefuseAnswer(c, request, response)
    \/ Deliver(c, request, response)

-----------------------------------------------------------------------------
(* cancel_run.                                                              *)

\* The cancellation and the closing of what is pending are one claim.
AcceptCancellation ==
    LET closed == ClosePlanned(inputRequests, "closedByCancel") IN
    /\ canceller = "idle" /\ ~Terminalizing
    /\ ActiveWriteAccepted(closed, "cancelling")
    /\ cancelRequested' = TRUE /\ activePhase' = "cancelling"
    /\ inputRequests' = closed
    /\ claim' = [claim EXCEPT !.requests = closed]
    /\ RejectDeliveries
    /\ canceller' = "listing"
    /\ UNCHANGED <<process, frames, lines, mailbox, accepted, finalizer, toCancel,
                   delegates, races>>

\* The run is already terminal: its view is the answer.
CancelTooLate ==
    /\ canceller = "idle" /\ Terminalizing
    /\ canceller' = "done"
    /\ UNCHANGED <<process, frames, lines, mailbox, memory, claim, finalizer,
                   toCancel, calls, delegates, races>>

\* closePendingInputRequestsForRun, outside the chain.
CancelLists ==
    /\ canceller = "listing"
    /\ toCancel' = Pending(mailbox)
    /\ canceller' = "closing"
    /\ UNCHANGED <<process, frames, lines, mailbox, memory, claim, finalizer, calls,
                   delegates, races>>

\* The requests are closed in the order of their creation; one that is
\* settled meanwhile is passed over.
FirstOf(todo, request) == request \in todo /\ \A r \in todo : request <= r
Close(request, outcome) ==
    IF mailbox[request] = "pending" THEN [mailbox EXCEPT ![request] = outcome] ELSE mailbox

CancelCloses(request) ==
    /\ canceller = "closing" /\ FirstOf(toCancel, request) /\ mailbox[request] # "none"
    /\ mailbox' = Close(request, "closedByCancel")
    /\ toCancel' = toCancel \ {request}
    /\ UNCHANGED <<process, frames, lines, memory, claim, finalizer, canceller, calls,
                   delegates, races>>

\* The run has ended meanwhile and its directory is gone: cancel_run answers
\* with an error, and aborts the child all the same.
CancelMeetsNoRequest ==
    /\ canceller = "closing" /\ \E r \in toCancel : FirstOf(toCancel, r) /\ mailbox[r] = "none"
    /\ canceller' = "failed" /\ toCancel' = {}
    /\ UNCHANGED <<process, frames, lines, mailbox, memory, claim, finalizer, calls,
                   delegates, races>>

\* The child is aborted and the caller answered.
CancelReturns ==
    /\ canceller = "closing" /\ toCancel = {}
    /\ canceller' = "done"
    /\ UNCHANGED <<process, frames, lines, mailbox, memory, claim, finalizer,
                   toCancel, calls, delegates, races>>

Aborted == cancelRequested /\ canceller \in {"done", "failed"}

-----------------------------------------------------------------------------
(* finalizeRegisteredRunTask, once the process has ended and its lines are  *)
(* observed.                                                                *)

\* Bug: the descendants of a cancelled run are not waited for.
AwaitUnlessCancelled ==
    /\ owner = "running" /\ child = "exited" /\ lines = <<>>
    /\ awaited' = {d \in claim.children : delegates[d] = "running" /\ ~cancelRequested}
    /\ owner' = "awaiting"
    /\ UNCHANGED <<process, frames, lines, mailbox, memory, claim, toClose,
                   cancellation, calls, delegates, races>>

\* settleDescendantSubtreeBeforeTerminal waits for the promises it finds: a
\* descendant that is not launched yet has a resolved one.
AwaitDescendants ==
    /\ owner = "running" /\ child = "exited" /\ lines = <<>>
    /\ awaited' = {d \in claim.children : delegates[d] \in {"running", "terminal"}}
    /\ owner' = "awaiting"
    /\ UNCHANGED <<process, frames, lines, mailbox, memory, claim, toClose,
                   cancellation, calls, delegates, races>>

TerminalStatus == IF cancelRequested THEN "cancelled" ELSE "ended"

\* settleRunClaim: what is pending is closed, the claim becomes terminal, the
\* deliveries are refused.  If the claim is refused nothing is published, no
\* delivery is rejected, and the run stays active.
SettleRunClaim ==
    LET closed == ClosePlanned(inputRequests, "closedAtEnd") IN
    /\ owner = "awaiting" /\ \A d \in awaited : delegates[d] = "done"
    /\ \/ /\ TerminalWriteAccepted(closed)
          /\ inputRequests' = closed
          /\ claim' = [claim EXCEPT !.requests = closed, !.status = TerminalStatus]
          /\ RejectDeliveries
          /\ owner' = "listing"
          /\ UNCHANGED races
       \/ /\ races' = IF TerminalWriteAccepted(closed) THEN races \cup {"unproven"} ELSE races
          /\ owner' = "stuck"
          /\ UNCHANGED <<inputRequests, claim, deliveries, calls>>
    /\ UNCHANGED <<process, frames, lines, mailbox, activePhase, cancelRequested, accepted,
                   awaited, toClose, cancellation, delegates>>

OwnerLists ==
    /\ owner = "listing"
    /\ toClose' = Pending(mailbox)
    /\ owner' = "closing"
    /\ UNCHANGED <<process, frames, lines, mailbox, memory, claim, awaited,
                   cancellation, calls, delegates, races>>

OwnerCloses(request) ==
    /\ owner = "closing" /\ FirstOf(toClose, request)
    /\ mailbox' = Close(request, "closedAtEnd")
    /\ toClose' = toClose \ {request}
    /\ UNCHANGED <<process, frames, lines, memory, claim, owner, awaited,
                   cancellation, calls, delegates, races>>

OwnerClosedAll ==
    /\ owner = "closing" /\ toClose = {}
    /\ owner' = "removing"
    /\ UNCHANGED <<process, frames, lines, mailbox, memory, claim, awaited, toClose,
                   cancellation, calls, delegates, races>>

\* removeTerminalInputRequestsForRun keeps a directory with a pending request.
RemoveMailbox ==
    /\ owner = "removing"
    /\ mailbox' = IF Pending(mailbox) = {} THEN Unasked ELSE mailbox
    /\ owner' = "done"
    /\ UNCHANGED <<process, frames, lines, memory, claim, awaited, toClose,
                   cancellation, calls, delegates, races>>

-----------------------------------------------------------------------------
(* A descendant run, seen from its parent.                                  *)

\* The child calls its delegate tool: the request is on the control socket.
Delegate(d) ==
    /\ child = "working" /\ delegates[d] = "none"
    /\ child' = "delegating"
    /\ delegates' = [delegates EXCEPT ![d] = "requested"]
    /\ UNCHANGED <<asked, spoken, consumed, buffered, frames, lines, mailbox, memory, claim,
                   finalizer, cancellation, calls, races>>

\* A parent is active until it is settled, even if it is cancelled and its child is dead.
ActiveRecursiveCaller == ~Terminalizing

\* The server finds the parent active, and the descendant's own claim is written.
AdmitDelegate(d) ==
    /\ delegates[d] = "requested" /\ ActiveRecursiveCaller
    /\ delegates' = [delegates EXCEPT ![d] = "registered"]
    /\ UNCHANGED <<process, frames, lines, mailbox, memory, claim, finalizer,
                   cancellation, calls, races>>

BackToWork == IF child = "delegating" THEN "working" ELSE child

\* The parent is settled, the depth is exceeded, or the request does not match its lineage.
RefuseDelegate(d) ==
    /\ delegates[d] = "requested"
    /\ delegates' = [delegates EXCEPT ![d] = "failed"]
    /\ child' = BackToWork
    /\ UNCHANGED <<asked, spoken, consumed, buffered, frames, lines, mailbox, memory, claim,
                   finalizer, cancellation, calls, races>>

\* recordParentChildLineage: the parent's claim names the descendant.  A
\* terminal parent is left alone; a refused write fails the call, and leaves
\* the descendant's own claim working.
RecordLineage(d) ==
    /\ delegates[d] = "registered"
    /\ \/ /\ claim.status = "active" /\ ActiveWriteAccepted(inputRequests, activePhase)
          /\ claim' = [claim EXCEPT !.requests = inputRequests, !.children = @ \cup {d}]
          /\ delegates' = [delegates EXCEPT ![d] = "attached"]
          /\ UNCHANGED child
       \/ /\ claim.status = "active" /\ ~ActiveWriteAccepted(inputRequests, activePhase)
          /\ delegates' = [delegates EXCEPT ![d] = "abandoned"]
          /\ child' = BackToWork
          /\ UNCHANGED claim
       \/ /\ claim.status # "active"
          /\ delegates' = [delegates EXCEPT ![d] = "attached"]
          /\ UNCHANGED <<child, claim>>
    /\ UNCHANGED <<asked, spoken, consumed, buffered, frames, lines, mailbox, memory,
                   finalizer, cancellation, calls, races>>

\* state.promise is set to the run that executes now, and the call may return;
\* or the descendant was cancelled meanwhile, and its start throws.
Launch(d) ==
    /\ delegates[d] = "attached"
    /\ \E step \in {"running", "abandoned"} : delegates' = [delegates EXCEPT ![d] = step]
    /\ child' = BackToWork
    /\ UNCHANGED <<asked, spoken, consumed, buffered, frames, lines, mailbox, memory, claim,
                   finalizer, cancellation, calls, races>>

\* The descendant's own claim becomes terminal.
DelegateEnds(d) ==
    /\ delegates[d] = "running"
    /\ delegates' = [delegates EXCEPT ![d] = "terminal"]
    /\ UNCHANGED <<process, frames, lines, mailbox, memory, claim, finalizer,
                   cancellation, calls, races>>

\* recordDescendantTerminalLineage, then its promise resolves.  A refused
\* write is contained.
RecordTerminalLineage(d) ==
    /\ delegates[d] = "terminal"
    /\ delegates' = [delegates EXCEPT ![d] = "done"]
    /\ \/ /\ ActiveWriteAccepted(inputRequests, activePhase)
          /\ claim' = [claim EXCEPT !.requests = inputRequests, !.reported = @ \cup {d}]
       \/ /\ ~ActiveWriteAccepted(inputRequests, activePhase)
          /\ UNCHANGED claim
    /\ UNCHANGED <<process, frames, lines, mailbox, memory, finalizer, cancellation, calls, races>>

-----------------------------------------------------------------------------
ChildSteps ==
    ChildAsks \/ ChildWaits \/ ChildTakesFrame \/ ChildTimesOut \/ ChildSpeaks \/ ChildEnds
Observe == ObserveMessage \/ ObserveRequest \/ ObserveTimeout \/ ObserveAcceptance
CancelGoesOn ==
    \/ CancelLists \/ CancelMeetsNoRequest \/ CancelReturns
    \/ \E r \in Requests : CancelCloses(r)
Finalize ==
    \/ AwaitDescendants \/ SettleRunClaim \/ OwnerLists \/ OwnerClosedAll \/ RemoveMailbox
    \/ \E r \in Requests : OwnerCloses(r)
Descend(d) ==
    \/ AdmitDelegate(d) \/ RefuseDelegate(d)
    \/ RecordLineage(d) \/ Launch(d) \/ DelegateEnds(d) \/ RecordTerminalLineage(d)

Next ==
    \/ ChildSteps \/ Observe \/ Finalize
    \/ AcceptCancellation \/ CancelTooLate \/ CancelGoesOn
    \/ \E c \in Callers : Answer(c)
    \/ \E d \in Delegates : Delegate(d) \/ Descend(d)

\* Promises and timers that are due are served; an aborted process is killed.
\* Nothing makes a child end by itself, a caller answer, or a request time out.
Fairness ==
    /\ WF_vars(Observe) /\ WF_vars(Finalize) /\ WF_vars(CancelGoesOn)
    /\ WF_vars(Aborted /\ ChildEnds)
    /\ \A d \in Delegates : WF_vars(Descend(d))

Spec == Init /\ [][Next]_vars /\ Fairness

-----------------------------------------------------------------------------
(* What the run's claim promises.                                           *)

\* A caller that got a receipt for a response sent the response the child's
\* tool returned, and the request is answered: in the owner's view and in the
\* claim, whatever happens to the run afterwards.
ReceiptsAreTrue ==
    \A c \in Callers : calls[c].step \in {"accepted", "replayed"} =>
        LET r == calls[c].request IN
        /\ consumed[r] = calls[c].response
        /\ inputRequests[r] = "answered" /\ claim.requests[r] = "answered"

\* "The first committed outcome wins": the mailbox, the owner's view and the
\* claim never tell different outcomes of a request, and a run whose
\* cancellation was committed ends as cancelled.
CommittedOutcomeWins ==
    /\ \A r \in Requests :
        /\ claim.requests[r] \in Settled =>
              inputRequests[r] = claim.requests[r] \/ "overtaken" \in races
        /\ claim.requests[r] \in Settled /\ mailbox[r] \in Settled =>
              (mailbox[r] = "answered" <=> claim.requests[r] = "answered")
    /\ cancelRequested => claim.status \in {"active", "cancelled"}

\* The claim of a run is terminal only when nothing below it executes or still will:
\* every descendant is terminal, or was refused, or abandoned before its launch.
DescendantsSettleFirst ==
    claim.status # "active" /\ "orphaned" \notin races =>
        \A d \in Delegates : delegates[d] \in {"none", "failed", "abandoned", "terminal", "done"}

\* A run whose process has ended becomes terminal, and a cancelled run ends, unless
\* the settlement was refused behind one of two races (src/runTask.ts:3119).
RunSettles ==
    LET Refusable == races \cap {"overtaken", "unproven"} # {} IN
    /\ child = "exited" ~> claim.status # "active" \/ Refusable
    /\ cancelRequested ~> claim.status = "cancelled" \/ Refusable

\* Nobody waits for an answer to a run that has ended, unless its settlement was
\* refused for its evidence, in front of the rejections (src/runTask.ts:3358).
AnswersReturn ==
    \A c \in Callers : calls[c].step = "waiting" /\ child = "exited" ~>
        calls[c].step # "waiting" \/ "unproven" \in races

\* The owner has observed that the request timed out.
KnownTimedOut(r) ==
    /\ r <= asked /\ consumed[r] = NoResponse
    /\ r = asked => child \notin {"created", "waiting", "exited"}
    /\ \A i \in 1 .. Len(lines) : lines[i].kind = "input_timed_out" => lines[i].request # r

\* "Late answers to closed or timed-out requests are rejected" (README): none
\* is delivered once the owner has observed the timeout.
LateAnswerIsRejected ==
    [][\A r \in Requests :
        KnownTimedOut(r) /\ deliveries[r] = NoResponse => deliveries'[r] = NoResponse]_vars
=============================================================================
