------------------------ MODULE OwnerAndStorageProofs -----------------------
(***************************************************************************)
(* Proofs about RunOwner, for any callers, responses and descendants and   *)
(* any number of requests, and about FailureStorage, for any servers,      *)
(* archiving calls, records and failures.                                  *)
(*                                                                         *)
(* The owner.  An answer is recorded in the mailbox, in the owner's view   *)
(* and in the claim by one operation, so an answered request is answered   *)
(* in all three, whatever else is closed and by whom; only the closing of  *)
(* a cancellation reaches the files later than the claim, and an input     *)
(* line observed in between is the race the property names.  A receipt     *)
(* rests on a line of the child, which names what its tool returned, and   *)
(* nothing returns twice for one request.  A descendant is in the parent's *)
(* claim before it is launched, and the child has one such call at a time, *)
(* so when the child has ended the owner knows whom to wait for.           *)
(*                                                                         *)
(* The storage.  Who lives and is in the section has the lock              *)
(* (SectionIsLocked), so one at a time changes the files.  What the files  *)
(* hold is the end of all that was ever appended (NewestAreKept): records  *)
(* are taken from its front only, and an archive leaves behind its         *)
(* summary, unless its call failed or died.  The budget is counted and     *)
(* enforced within one section, behind one append at most, so a prune that *)
(* fails or dies adds one record to what is too much, and one that ends    *)
(* takes it all away (BudgetIsOwed).                                       *)
(***************************************************************************)
EXTENDS RunOwner, FailureStorage,
        SequenceTheorems, FiniteSetTheorems, WellFoundedInduction, TLAPS

\* Where the run is: its owner settles it after its process has ended, and only then.
PositionInv ==
    /\ owner # "running" => child = "exited" /\ lines = <<>>
    /\ claim.status = "active" <=> owner \in {"running", "awaiting", "stuck"}
    /\ canceller \in {"listing", "closing", "failed"} => cancelRequested
    /\ cancelRequested => canceller # "idle" /\ claim.status # "ended"
    /\ \A r \in toCancel : mailbox[r] # "none" \/ owner = "done"
    /\ canceller = "failed" => owner = "done"

\* What the three places say of one request.
Told(r) ==
    /\ r > asked => /\ mailbox[r] = "none" /\ inputRequests[r] = "none"
                    /\ claim.requests[r] = "none" /\ consumed[r] = NoResponse
    /\ "closedByCancel" \in {mailbox[r], inputRequests[r], claim.requests[r]} => cancelRequested
    /\ "closedAtEnd" \in {mailbox[r], inputRequests[r], claim.requests[r]} =>
          claim.status # "active"
    /\ mailbox[r] = "answered" => inputRequests[r] = "answered"
    /\ inputRequests[r] = "answered" =>
          mailbox[r] = "answered" \/ (owner = "done" /\ mailbox[r] = "none")
    /\ claim.requests[r] = "answered" => inputRequests[r] = "answered"
    /\ claim.requests[r] \in Settled /\ inputRequests[r] = "answered" =>
          claim.requests[r] = "answered"
    /\ inputRequests[r] = "pending" /\ ~cancelRequested /\ claim.status = "active" =>
          mailbox[r] = "pending"

\* Unless it was overtaken, a cancellation closes in the mailbox what it has closed in the claim.
Closing(r) == "overtaken" \notin races =>
    /\ claim.requests[r] \in Settled => inputRequests[r] = claim.requests[r]
    /\ owner = "running" /\ inputRequests[r] = "closedByCancel" =>
          \/ mailbox[r] = "closedByCancel"
          \/ mailbox[r] = "pending" /\ canceller = "listing"
          \/ mailbox[r] = "pending" /\ canceller = "closing" /\ r \in toCancel

OutcomeInv == \A r \in Requests : Told(r) /\ Closing(r)

\* A response goes from the child's tool over the line that reports it to the callers.
ReceiptInv ==
    /\ child \in {"created", "waiting"} => consumed[asked] = NoResponse
    /\ \A i \in 1 .. Len(lines) : lines[i].kind = "accepted" =>
          consumed[lines[i].request] = lines[i].response
    /\ \A r \in Requests : accepted[r] # NoResponse =>
          consumed[r] = accepted[r] /\ claim.requests[r] = "answered"
    /\ \A c \in Callers :
          /\ calls[c].step = "waiting" => deliveries[calls[c].request] = calls[c].response
          /\ calls[c].step \in {"accepted", "replayed"} =>
                /\ calls[c].response # NoResponse
                /\ accepted[calls[c].request] = calls[c].response

\* The child has one delegate call at a time, and the owner waits for what it has launched.
DelegatesInv == "orphaned" \notin races =>
    /\ \A d \in Delegates : delegates[d] \in {"requested", "registered", "attached"} =>
          child = "delegating"
    /\ \A d, e \in Delegates :
          {delegates[d], delegates[e]} \subseteq {"requested", "registered", "attached"} =>
          d = e
    /\ \A d \in Delegates : delegates[d] \in {"attached", "running"} => d \in claim.children
    /\ owner = "awaiting" =>
          \A d \in Delegates : delegates[d] = "running" => d \in awaited
    /\ claim.status # "active" => \A d \in Delegates : delegates[d] # "running"

IInv == RunOwnerTypeOK /\ PositionInv /\ OutcomeInv /\ ReceiptInv /\ DelegatesInv

CallsType == [Callers -> [step : Called, request : Requests,
                         response : Responses \cup {NoResponse}]]
ClaimType == [status : {"active", "cancelled", "ended"}, requests : [Requests -> Statuses],
              children : SUBSET Delegates, reported : SUBSET Delegates]

\* A delivery is pending exactly while a call waits for it.
Awaited(r) == deliveries[r] # NoResponse
                 <=> \E c \in Callers : calls[c].step = "waiting" /\ calls[c].request = r

-----------------------------------------------------------------------------
(* What the larger operations write.                                        *)

\* What writes the lineage keeps the status of the claim, and its requests become the owner's.
LEMMA LineageWrites ==
    ASSUME RunOwnerTypeOK, NEW d \in Delegates, RecordLineage(d) \/ RecordTerminalLineage(d)
    PROVE  /\ claim'.status = claim.status
           /\ \/ claim' = claim
              \/ /\ claim'.requests = inputRequests
                 /\ \A r \in Requests : claim.requests[r] \in Settled =>
                       inputRequests[r] = claim.requests[r]
           /\ claim.children \subseteq claim'.children
           /\ delegates'[d] = "attached" =>
                 d \in claim'.children \/ claim.status # "active"
           /\ claim' \in [status : {"active", "cancelled", "ended"},
                          requests : [Requests -> Statuses],
                          children : SUBSET Delegates, reported : SUBSET Delegates]
<1>1. claim \in [status : {"active", "cancelled", "ended"}, requests : [Requests -> Statuses],
                 children : SUBSET Delegates, reported : SUBSET Delegates]
      /\ inputRequests \in [Requests -> Statuses]
  BY DEF RunOwnerTypeOK
<1>2. CASE claim' = claim
           /\ (delegates'[d] = "attached" => claim.status # "active")
  BY <1>1, <1>2
<1>3. CASE claim' = [claim EXCEPT !.requests = inputRequests, !.children = @ \cup {d}]
           /\ ActiveWriteAccepted(inputRequests, activePhase)
  BY <1>1, <1>3 DEF ActiveWriteAccepted
<1>4. CASE claim' = [claim EXCEPT !.requests = inputRequests, !.reported = @ \cup {d}]
           /\ ActiveWriteAccepted(inputRequests, activePhase)
           /\ delegates'[d] = "done"
  BY <1>1, <1>4 DEF ActiveWriteAccepted
<1>5. delegates \in [Delegates -> {"none", "requested", "registered", "attached", "running",
                                  "terminal", "done", "failed", "abandoned"}]
  BY DEF RunOwnerTypeOK
<1> QED
  BY <1>2, <1>3, <1>4, <1>5 DEF RecordLineage, RecordTerminalLineage

\* The owner's terminal claim, or none.
LEMMA SettlementWrites ==
    ASSUME RunOwnerTypeOK, SettleRunClaim
    PROVE  \/ /\ claim.status = "active" /\ owner' = "listing"
              /\ inputRequests' = ClosePlanned(inputRequests, "closedAtEnd")
              /\ claim'.requests = inputRequests' /\ claim'.status = TerminalStatus
              /\ claim'.children = claim.children /\ claim'.reported = claim.reported
              /\ \A r \in Requests : claim.requests[r] \in Settled =>
                    inputRequests'[r] = claim.requests[r]
              /\ RejectDeliveries
              /\ claim' \in [status : {"active", "cancelled", "ended"},
                             requests : [Requests -> Statuses],
                             children : SUBSET Delegates, reported : SUBSET Delegates]
           \/ /\ owner' = "stuck"
              /\ UNCHANGED <<inputRequests, claim, deliveries, calls>>
<1> DEFINE closed == ClosePlanned(inputRequests, "closedAtEnd")
<1>1. claim \in [status : {"active", "cancelled", "ended"}, requests : [Requests -> Statuses],
                 children : SUBSET Delegates, reported : SUBSET Delegates]
      /\ closed \in [Requests -> Statuses]
  BY DEF RunOwnerTypeOK, ClosePlanned, Statuses, Settled
<1>2. TerminalStatus \in {"cancelled", "ended"}
  BY DEF TerminalStatus
<1> HIDE DEF closed
<1>3. ASSUME claim' = [claim EXCEPT !.requests = closed, !.status = TerminalStatus]
      PROVE  /\ claim'.requests = closed /\ claim'.status = TerminalStatus
             /\ claim'.children = claim.children /\ claim'.reported = claim.reported
             /\ claim' \in [status : {"active", "cancelled", "ended"},
                            requests : [Requests -> Statuses],
                            children : SUBSET Delegates, reported : SUBSET Delegates]
  BY <1>1, <1>2, <1>3
<1>4. CASE /\ TerminalWriteAccepted(closed)
           /\ inputRequests' = closed
           /\ claim' = [claim EXCEPT !.requests = closed, !.status = TerminalStatus]
           /\ RejectDeliveries
           /\ owner' = "listing"
  BY <1>3, <1>4 DEF TerminalWriteAccepted, closed
<1>5. CASE owner' = "stuck" /\ UNCHANGED <<inputRequests, claim, deliveries, calls>>
  BY <1>5
<1> QED
  BY <1>4, <1>5 DEF SettleRunClaim, closed

\* What the child's tool returns is reported by a line; no other line tells an acceptance.
LEMMA ToolReturns ==
    ASSUME RunOwnerTypeOK, ChildWaits \/ ChildTakesFrame
    PROVE  /\ lines' \in Seq(Lines)
           /\ \/ /\ UNCHANGED consumed
                 /\ child' \in {"created", "waiting"} => child \in {"created", "waiting"}
                 /\ \A i \in 1 .. Len(lines') : lines'[i].kind = "accepted" =>
                       i \in 1 .. Len(lines) /\ lines'[i] = lines[i]
              \/ /\ child \in {"created", "waiting"} /\ child' = "working" /\ asked \in Requests
                 /\ \E response \in Responses :
                       /\ consumed' = [consumed EXCEPT ![asked] = response]
                       /\ \A i \in 1 .. Len(lines') : lines'[i].kind = "accepted" =>
                             \/ i \in 1 .. Len(lines) /\ lines'[i] = lines[i]
                             \/ lines'[i].request = asked /\ lines'[i].response = response
<1> USE BoundsAssumption DEF Requests
<1>1. lines \in Seq(Lines) /\ buffered \in [Requests -> Responses \cup {NoResponse}]
      /\ frames \in Seq([request : Requests, response : Responses])
      /\ asked \in 0 .. MaxRequests
      /\ (child \in {"created", "waiting"} => asked > 0)
  BY DEF RunOwnerTypeOK
<1> DEFINE question == [kind |-> "input_required", request |-> asked]
<1>2. child \in {"created", "waiting"} => asked \in Requests /\ question \in Lines
  BY <1>1 DEF Lines
<1>3. ASSUME NEW response \in Responses, NEW printed \in Seq(Lines), asked \in Requests,
             Consume(response, printed),
             \A i \in 1 .. Len(printed) : printed[i].kind = "accepted" =>
                i \in 1 .. Len(lines) /\ printed[i] = lines[i]
      PROVE  /\ lines' \in Seq(Lines)
             /\ \A i \in 1 .. Len(lines') : lines'[i].kind = "accepted" =>
                   \/ i \in 1 .. Len(lines) /\ lines'[i] = lines[i]
                   \/ lines'[i].request = asked /\ lines'[i].response = response
  <2> DEFINE line == [kind |-> "accepted", request |-> asked, response |-> response]
  <2>1. line \in Lines /\ line.request = asked /\ line.response = response
    BY <1>3 DEF Lines
  <2>2. lines' = Append(printed, line)
    BY <1>3, <2>1 DEF Consume
  <2> HIDE DEF line
  <2> QED
    BY <1>3, <2>1, <2>2
<1>4. CASE ChildWaits
  <2> DEFINE printed == Append(lines, question)
  <2>1. asked \in Requests /\ question \in Lines /\ question.kind # "accepted"
    BY <1>2, <1>4 DEF ChildWaits
  <2> HIDE DEF question
  <2>2. printed \in Seq(Lines)
        /\ \A i \in 1 .. Len(printed) : printed[i].kind = "accepted" =>
              i \in 1 .. Len(lines) /\ printed[i] = lines[i]
    BY <1>1, <2>1
  <2>3. \/ Consume(buffered[asked], printed) /\ buffered[asked] # NoResponse
        \/ child' = "waiting" /\ lines' = printed /\ UNCHANGED consumed
    BY <1>4 DEF ChildWaits, question
  <2> HIDE DEF printed
  <2>4. CASE child' = "waiting" /\ lines' = printed /\ UNCHANGED consumed
    BY <1>4, <2>2, <2>4 DEF ChildWaits
  <2>5. CASE Consume(buffered[asked], printed) /\ buffered[asked] # NoResponse
    <3>1. buffered[asked] \in Responses
      BY <1>1, <2>1, <2>5
    <3>2. child' = "working" /\ consumed' = [consumed EXCEPT ![asked] = buffered[asked]]
      BY <2>5 DEF Consume
    <3> QED
      BY <1>3, <1>4, <2>1, <2>2, <2>5, <3>1, <3>2 DEF ChildWaits
  <2> QED
    BY <2>3, <2>4, <2>5
<1>5. CASE ChildTakesFrame
  <2> DEFINE f == Head(frames)
  <2>1. f \in [request : Requests, response : Responses]
    <3> DEFINE Frames == [request : Requests, response : Responses]
    <3>1. frames \in Seq(Frames) /\ frames # <<>>
      BY <1>1, <1>5 DEF ChildTakesFrame
    <3> HIDE DEF Frames
    <3>2. Head(frames) \in Frames
      BY <3>1
    <3> QED
      BY <3>2 DEF Frames
  <2>2. CASE child = "waiting" /\ Consume(f.response, lines)
    <3>1. child' = "working" /\ consumed' = [consumed EXCEPT ![asked] = f.response]
      BY <2>2 DEF Consume
    <3>2. f.response \in Responses
      BY <2>1
    <3> HIDE DEF f
    <3> QED
      BY <1>1, <1>2, <1>3, <2>2, <3>1, <3>2
  <2>3. CASE UNCHANGED <<child, consumed, lines>>
    BY <1>1, <2>3
  <2> QED
    BY <1>5, <2>2, <2>3 DEF ChildTakesFrame
<1> QED
  BY <1>4, <1>5

\* An acceptance the owner was waiting for is committed, or every call for it is refused.
LEMMA AcceptanceWrites ==
    ASSUME RunOwnerTypeOK, ObserveAcceptance
    PROVE  LET r == Head(lines).request IN
           /\ r \in Requests /\ Head(lines).response \in Responses
           /\ lines # <<>> /\ Head(lines).kind = "accepted" /\ lines' = Tail(lines)
           /\ \/ UNCHANGED <<deliveries, calls, accepted, claim, inputRequests, activePhase>>
              \/ /\ deliveries' = [deliveries EXCEPT ![r] = NoResponse]
                 /\ calls' = Reject(r)
                 /\ UNCHANGED <<accepted, claim, inputRequests, activePhase>>
              \/ /\ deliveries[r] = Head(lines).response
                 /\ deliveries' = [deliveries EXCEPT ![r] = NoResponse]
                 /\ calls' = Resolve(r)
                 /\ accepted' = [accepted EXCEPT ![r] = Head(lines).response]
                 /\ inputRequests' = Answered(r)
                 /\ activePhase' = PhaseAfterAnswer(r)
                 /\ claim' = [claim EXCEPT !.requests = inputRequests']
                 /\ claim'.requests = inputRequests' /\ claim'.status = claim.status
                 /\ \A q \in Requests : claim.requests[q] \in Settled =>
                       inputRequests'[q] = claim.requests[q]
<1> DEFINE r == Head(lines).request
<1>1. lines # <<>> /\ lines \in Seq(Lines) /\ Head(lines) \in Lines
      /\ Head(lines).kind = "accepted" /\ lines' = Tail(lines)
      /\ claim \in [status : {"active", "cancelled", "ended"}, requests : [Requests -> Statuses],
                    children : SUBSET Delegates, reported : SUBSET Delegates]
  BY DEF RunOwnerTypeOK, ObserveAcceptance, OwnerReads
<1>2. r \in Requests /\ Head(lines).response \in Responses
  BY <1>1 DEF Lines
<1>3. claim' = [claim EXCEPT !.requests = Answered(r)] =>
         claim'.requests = Answered(r) /\ claim'.status = claim.status
  BY <1>1
<1> HIDE DEF Requests
<1> QED
  BY <1>1, <1>2, <1>3 DEF ObserveAcceptance, ActiveWriteAccepted

\* The parts of the types that the responses need.
LEMMA ResponseTypes ==
    ASSUME RunOwnerTypeOK
    PROVE  /\ asked \in Nat /\ lines \in Seq(Lines) /\ inputRequests \in [Requests -> Statuses]
           /\ consumed \in [Requests -> Responses \cup {NoResponse}]
           /\ accepted \in [Requests -> Responses \cup {NoResponse}]
           /\ deliveries \in [Requests -> Responses \cup {NoResponse}]
           /\ calls \in [Callers -> [step : Called, request : Requests,
                                     response : Responses \cup {NoResponse}]]
           /\ \A i \in 1 .. Len(lines) : lines[i].kind = "accepted" =>
                 lines[i].request \in Requests /\ lines[i].response \in Responses
<1>1. \A line \in Lines : line.kind = "accepted" =>
         line.request \in Requests /\ line.response \in Responses
  BY DEF Lines
<1>2. asked \in Nat /\ lines \in Seq(Lines)
  BY BoundsAssumption DEF RunOwnerTypeOK
<1>3. \A i \in 1 .. Len(lines) : lines[i] \in Lines
  BY <1>2
<1> QED
  BY <1>1, <1>2, <1>3 DEF RunOwnerTypeOK

\* Refusing the deliveries that are under way disturbs no receipt.
LEMMA RefusalKeeps ==
    ASSUME RunOwnerTypeOK, ReceiptInv, RejectDeliveries,
           UNCHANGED <<child, asked, consumed, lines, accepted>>,
           \A r \in Requests : claim.requests[r] = "answered" => claim'.requests[r] = "answered"
    PROVE  ReceiptInv'
<1>1. calls \in [Callers -> [step : Called, request : Requests,
                            response : Responses \cup {NoResponse}]]
  BY DEF RunOwnerTypeOK
<1>2. \A c \in Callers : \/ calls'[c] = calls[c] /\ calls[c].step # "waiting"
                         \/ calls'[c].step = "idle"
  BY <1>1 DEF RejectDeliveries, NoCall
<1> QED
  BY <1>2 DEF ReceiptInv

\* The calls and deliveries after each change of them.
LEMMA DeliveryTypes ==
    ASSUME calls \in CallsType, deliveries \in [Requests -> Responses \cup {NoResponse}],
           \A r \in Requests : Awaited(r)
    PROVE  /\ RejectDeliveries =>
                 /\ calls' \in CallsType
                 /\ deliveries' \in [Requests -> Responses \cup {NoResponse}]
                 /\ \A r \in Requests : Awaited(r)'
           /\ \A r \in Requests :
                 /\ deliveries' = [deliveries EXCEPT ![r] = NoResponse]
                 /\ calls' \in {Reject(r), Resolve(r)}
                 => /\ calls' \in CallsType
                    /\ deliveries' \in [Requests -> Responses \cup {NoResponse}]
                    /\ \A q \in Requests : Awaited(q)'
           /\ \A c \in Callers, r \in Requests, response \in Responses :
                 /\ calls[c].step = "idle"
                 /\ \/ Ask(c, r, response, "replayed") /\ deliveries' = deliveries
                    \/ /\ Ask(c, r, response, "waiting")
                       /\ deliveries' = [deliveries EXCEPT ![r] = response]
                 => /\ calls' \in CallsType
                    /\ deliveries' \in [Requests -> Responses \cup {NoResponse}]
                    /\ \A q \in Requests : Awaited(q)'
<1> USE NoResponseAssumption DEF CallsType, Called
<1>1. ASSUME RejectDeliveries
      PROVE  /\ calls' \in CallsType /\ deliveries' \in [Requests -> Responses \cup {NoResponse}]
             /\ \A r \in Requests : Awaited(r)'
  <2>1. NoCall \in [step : Called, request : Requests, response : Responses \cup {NoResponse}]
    BY BoundsAssumption DEF NoCall, Requests
  <2>2. \A c \in Callers : calls'[c].step # "waiting"
    BY <1>1 DEF RejectDeliveries, NoCall
  <2> QED
    BY <1>1, <2>1, <2>2 DEF RejectDeliveries, Nothing, Awaited
<1>2. ASSUME NEW r \in Requests, deliveries' = [deliveries EXCEPT ![r] = NoResponse],
             calls' \in {Reject(r), Resolve(r)}
      PROVE  /\ calls' \in CallsType
             /\ deliveries' \in [Requests -> Responses \cup {NoResponse}]
             /\ \A q \in Requests : Awaited(q)'
  <2>0. NoCall \in [step : Called, request : Requests, response : Responses \cup {NoResponse}]
    BY BoundsAssumption DEF NoCall, Requests
  <2>1. calls' \in CallsType
    <3>1. Reject(r) \in CallsType
      BY <2>0 DEF Reject
    <3>2. \A c \in Callers : [calls[c] EXCEPT !.step = "accepted"] \in
             [step : Called, request : Requests, response : Responses \cup {NoResponse}]
      OBVIOUS
    <3>3. Resolve(r) \in CallsType
      BY <3>2 DEF Resolve
    <3> QED
      BY <1>2, <3>1, <3>3
  <2>2. \A c \in Callers : IF Waits(c, r) THEN calls'[c].step # "waiting" ELSE calls'[c] = calls[c]
    BY <1>2 DEF Reject, Resolve, NoCall
  <2> QED
    BY <1>2, <2>1, <2>2 DEF Awaited, Waits
<1>3. ASSUME NEW c \in Callers, NEW r \in Requests, NEW response \in Responses,
             calls[c].step = "idle",
             \/ Ask(c, r, response, "replayed") /\ deliveries' = deliveries
             \/ /\ Ask(c, r, response, "waiting")
                /\ deliveries' = [deliveries EXCEPT ![r] = response]
      PROVE  /\ calls' \in CallsType
             /\ deliveries' \in [Requests -> Responses \cup {NoResponse}]
             /\ \A q \in Requests : Awaited(q)'
  <2>1. /\ calls' \in CallsType
        /\ calls'[c].request = r /\ calls'[c].step \in {"replayed", "waiting"}
        /\ calls'[c].step = "waiting" => deliveries' = [deliveries EXCEPT ![r] = response]
        /\ calls'[c].step = "replayed" => deliveries' = deliveries
        /\ \A k \in Callers : k # c => calls'[k] = calls[k]
    BY <1>3 DEF Ask
  <2>2. deliveries' \in [Requests -> Responses \cup {NoResponse}]
    BY <1>3
  <2> QED
    BY <1>3, <2>1, <2>2 DEF Awaited
<1> HIDE DEF CallsType
<1> QED
  BY <1>1, <1>2, <1>3

-----------------------------------------------------------------------------
(* The steps.                                                               *)

\* Every step keeps the types.
LEMMA TypeSteps == RunOwnerTypeOK /\ [Next]_vars => RunOwnerTypeOK'
<1> SUFFICES ASSUME RunOwnerTypeOK, [Next]_vars PROVE RunOwnerTypeOK'
  OBVIOUS
<1> USE BoundsAssumption, NoResponseAssumption DEF Requests, process, memory, finalizer,
    cancellation, RunOwnerTypeOK, Statuses, Settled, Phases, Lines, Called, Races
<1>0. /\ calls \in CallsType /\ deliveries \in [Requests -> Responses \cup {NoResponse}]
      /\ \A r \in Requests : Awaited(r)
      /\ claim \in ClaimType /\ inputRequests \in [Requests -> Statuses]
  BY DEF CallsType, Awaited, ClaimType
<1>1. CASE ChildAsks
  <2>1. /\ asked' \in 0 .. MaxRequests /\ asked' > 0 /\ child' = "created"
        /\ mailbox' \in [Requests -> Statuses]
        /\ UNCHANGED <<spoken, consumed, buffered, frames, lines, memory, claim, finalizer,
                       cancellation, calls, delegates, races>>
    BY <1>1 DEF ChildAsks
  <2> QED
    BY <2>1
<1>2. CASE ChildWaits
  <2>1. asked' = asked /\ UNCHANGED <<spoken, mailbox, inputRequests, activePhase, cancelRequested,
                    deliveries, accepted, claim, owner, awaited, toClose, canceller, toCancel,
                    calls, delegates, races>>
    BY <1>2 DEF ChildWaits
  <2>2. /\ lines' \in Seq(Lines) /\ consumed' \in [Requests -> Responses \cup {NoResponse}]
        /\ child' \in {"created", "waiting"} => child \in {"created", "waiting"}
    <3>1. consumed \in [Requests -> Responses \cup {NoResponse}]
      OBVIOUS
    <3> HIDE DEF RunOwnerTypeOK, Called, Statuses, Lines, Requests
    <3> QED
      BY <1>2, <3>1, ToolReturns
  <2>3. /\ child' \in {"working", "created", "waiting", "delegating", "exited"}
        /\ buffered' \in [Requests -> Responses \cup {NoResponse}]
        /\ frames' \in Seq([request : Requests, response : Responses])
    BY <1>2 DEF ChildWaits, Consume
  <2> QED
    BY <2>1, <2>2, <2>3
<1>3. CASE ChildTakesFrame
  <2>1. asked' = asked /\ UNCHANGED <<spoken, mailbox, inputRequests, activePhase, cancelRequested,
                    deliveries, accepted, claim, owner, awaited, toClose, canceller, toCancel,
                    calls, delegates, races>>
    BY <1>3 DEF ChildTakesFrame
  <2>2. /\ lines' \in Seq(Lines) /\ consumed' \in [Requests -> Responses \cup {NoResponse}]
        /\ child' \in {"created", "waiting"} => child \in {"created", "waiting"}
    <3>1. consumed \in [Requests -> Responses \cup {NoResponse}]
      OBVIOUS
    <3> HIDE DEF RunOwnerTypeOK, Called, Statuses, Lines, Requests
    <3> QED
      BY <1>3, <3>1, ToolReturns
  <2>3. /\ child' \in {"working", "created", "waiting", "delegating", "exited"}
        /\ frames' = Tail(frames) /\ frames # <<>>
    BY <1>3 DEF ChildTakesFrame, Consume
  <2> DEFINE Frame == [request : Requests, response : Responses]
  <2>4. frames \in Seq(Frame)
    OBVIOUS
  <2>5. /\ Head(frames) \in Frame /\ frames' \in Seq(Frame)
    <3> HIDE DEF Frame
    <3> QED
      BY <2>3, <2>4
  <2>6. buffered' \in [Requests -> Responses \cup {NoResponse}]
    <3>1. Head(frames).request \in Requests /\ Head(frames).response \in Responses
      BY <2>5
    <3>2. \/ buffered' = buffered
          \/ buffered' = [buffered EXCEPT ![Head(frames).request] = Head(frames).response]
      BY <1>3 DEF ChildTakesFrame
    <3>3. buffered \in [Requests -> Responses \cup {NoResponse}]
      OBVIOUS
    <3> HIDE DEF RunOwnerTypeOK, Requests, Frame
    <3> QED
      BY <3>1, <3>2, <3>3
  <2> QED
    BY <2>1, <2>2, <2>3, <2>5, <2>6, SMTT(60)
<1>4. CASE ChildTimesOut
  BY <1>4 DEF ChildTimesOut, Pending, ClosePlanned, NoCall, Nothing, Unasked, Reject, Resolve,
    Waits, Answered, PhaseAfterAnswer, PhaseUnlessCancelling, BackToWork, NotAnswerable
<1>5. CASE ChildSpeaks
  BY <1>5 DEF ChildSpeaks, Pending, ClosePlanned, NoCall, Nothing, Unasked, Reject, Resolve,
    Waits, Answered, PhaseAfterAnswer, PhaseUnlessCancelling, BackToWork, NotAnswerable
<1>6. CASE ChildEnds
  BY <1>6 DEF ChildEnds, Pending, ClosePlanned, NoCall, Nothing, Unasked, Reject, Resolve, Waits,
    Answered, PhaseAfterAnswer, PhaseUnlessCancelling, BackToWork, NotAnswerable
<1>7. CASE ObserveMessage
  BY <1>7 DEF ObserveMessage, OwnerReads, Pending, ClosePlanned, NoCall, Nothing, Unasked, Reject,
    Resolve, Waits, Answered, PhaseAfterAnswer, PhaseUnlessCancelling, BackToWork, NotAnswerable
<1>8. CASE ObserveRequest
  BY <1>8 DEF ObserveRequest, ObserveInput, OwnerReads, Pending, ClosePlanned, NoCall, Nothing,
    Unasked, Reject, Resolve, Waits, Answered, PhaseAfterAnswer, PhaseUnlessCancelling,
    BackToWork, NotAnswerable
<1>9. CASE ObserveTimeout
  BY <1>9 DEF ObserveTimeout, ObserveInput, OwnerReads, Pending, ClosePlanned, NoCall, Nothing,
    Unasked, Reject, Resolve, Waits, Answered, PhaseAfterAnswer, PhaseUnlessCancelling,
    BackToWork, NotAnswerable
<1>10. CASE ObserveAcceptance
  <2> DEFINE r == Head(lines).request
  <2>1. /\ r \in Requests /\ Head(lines).response \in Responses
        /\ lines # <<>> /\ lines' = Tail(lines)
    <3> HIDE DEF RunOwnerTypeOK, Called, Statuses, Lines, Requests
    <3> QED
      BY <1>10, AcceptanceWrites
  <2> HIDE DEF r
  <2>2. mailbox' \in [Requests -> Statuses] /\ lines' \in Seq(Lines)
    BY <1>10, <2>1 DEF ObserveAcceptance, r
  <2>3. Answered(r) \in [Requests -> Statuses]
    BY <1>0, <2>1 DEF Answered
  <2>4. claim' \in ClaimType /\ inputRequests' \in [Requests -> Statuses]
        /\ accepted' \in [Requests -> Responses \cup {NoResponse}]
        /\ activePhase' \in Phases
    <3>1. CASE UNCHANGED <<accepted, claim, inputRequests, activePhase>>
      BY <1>0, <3>1
    <3>2. CASE /\ accepted' = [accepted EXCEPT ![r] = Head(lines).response]
               /\ inputRequests' = Answered(r)
               /\ activePhase' = PhaseAfterAnswer(r)
               /\ claim' = [claim EXCEPT !.requests = inputRequests']
      <4>1. claim' \in ClaimType
        BY <1>0, <2>3, <3>2 DEF ClaimType
      <4> QED
        BY <1>0, <2>1, <2>3, <3>2, <4>1 DEF PhaseAfterAnswer
    <3> HIDE DEF RunOwnerTypeOK, Called, Statuses, Lines, Requests
    <3> QED
      BY <1>10, <3>1, <3>2, AcceptanceWrites DEF r
  <2>5. calls' \in CallsType /\ deliveries' \in [Requests -> Responses \cup {NoResponse}]
        /\ \A q \in Requests : Awaited(q)'
    <3> HIDE DEF RunOwnerTypeOK, Called, Statuses, Lines, Requests
    <3>1. CASE UNCHANGED <<deliveries, calls>>
      BY <1>0, <3>1 DEF Awaited
    <3>2. CASE /\ deliveries' = [deliveries EXCEPT ![r] = NoResponse]
               /\ calls' \in {Reject(r), Resolve(r)}
      BY <1>0, <2>1, <3>2, DeliveryTypes
    <3> QED
      BY <1>10, <3>1, <3>2, AcceptanceWrites DEF r
  <2>6. UNCHANGED <<process, frames, cancelRequested, finalizer, cancellation, delegates, races>>
    BY <1>10 DEF ObserveAcceptance
  <2> QED
    BY <2>2, <2>4, <2>5, <2>6 DEF CallsType, ClaimType, Awaited
<1>11. CASE AwaitDescendants
  BY <1>11 DEF AwaitDescendants, Pending, ClosePlanned, NoCall, Nothing, Unasked, Reject, Resolve,
    Waits, Answered, PhaseAfterAnswer, PhaseUnlessCancelling, BackToWork, NotAnswerable
<1>12. CASE SettleRunClaim
  <2>1. /\ owner' \in {"listing", "stuck"} /\ races' \in {races, races \cup {"unproven"}}
        /\ UNCHANGED <<process, frames, lines, mailbox, activePhase, cancelRequested, accepted,
                   awaited, toClose, cancellation, delegates>>
    <3> HIDE DEF RunOwnerTypeOK
    <3> QED
      BY <1>12 DEF SettleRunClaim
  <2>2. ClosePlanned(inputRequests, "closedAtEnd") \in [Requests -> Statuses]
    BY <1>0 DEF ClosePlanned
  <2>3. /\ claim' \in ClaimType /\ inputRequests' \in [Requests -> Statuses]
        /\ calls' \in CallsType /\ deliveries' \in [Requests -> Responses \cup {NoResponse}]
           /\ \A q \in Requests : Awaited(q)'
    <3> HIDE DEF RunOwnerTypeOK, Called, Statuses, Requests, Settled
    <3>1. CASE RejectDeliveries /\ claim' \in ClaimType
               /\ inputRequests' = ClosePlanned(inputRequests, "closedAtEnd")
      BY <1>0, <2>2, <3>1, DeliveryTypes
    <3>2. CASE UNCHANGED <<inputRequests, claim, deliveries, calls>>
      BY <1>0, <3>2 DEF Awaited
    <3> QED
      BY <1>12, <3>1, <3>2, SettlementWrites DEF ClaimType
  <2> QED
    BY <2>1, <2>3 DEF CallsType, ClaimType, Awaited
<1>13. CASE OwnerLists
  BY <1>13 DEF OwnerLists, Pending, ClosePlanned, NoCall, Nothing, Unasked, Reject, Resolve,
    Waits, Answered, PhaseAfterAnswer, PhaseUnlessCancelling, BackToWork, NotAnswerable
<1>14. CASE OwnerClosedAll
  BY <1>14 DEF OwnerClosedAll, Pending, ClosePlanned, NoCall, Nothing, Unasked, Reject, Resolve,
    Waits, Answered, PhaseAfterAnswer, PhaseUnlessCancelling, BackToWork, NotAnswerable
<1>15. CASE RemoveMailbox
  BY <1>15 DEF RemoveMailbox, Pending, ClosePlanned, NoCall, Nothing, Unasked, Reject, Resolve,
    Waits, Answered, PhaseAfterAnswer, PhaseUnlessCancelling, BackToWork, NotAnswerable
<1>16. CASE AcceptCancellation
  <2>1. calls' \in CallsType /\ deliveries' \in [Requests -> Responses \cup {NoResponse}]
        /\ \A q \in Requests : Awaited(q)'
    <3> HIDE DEF RunOwnerTypeOK, Called, Statuses, Lines, Requests
    <3> QED
      BY <1>16, <1>0, DeliveryTypes DEF AcceptCancellation
  <2>2. inputRequests' \in [Requests -> Statuses]
    BY <1>16, <1>0 DEF AcceptCancellation, ClosePlanned
  <2>3. claim' = [claim EXCEPT !.requests = inputRequests']
    BY <1>16 DEF AcceptCancellation
  <2>4. claim' \in ClaimType
    BY <1>0, <2>2, <2>3 DEF ClaimType
  <2>5. activePhase' \in Phases /\ cancelRequested' \in BOOLEAN /\ canceller' = "listing"
        /\ UNCHANGED <<process, frames, lines, mailbox, accepted, finalizer, toCancel,
                       delegates, races>>
    BY <1>16 DEF AcceptCancellation
  <2> QED
    BY <2>1, <2>2, <2>4, <2>5 DEF CallsType, ClaimType, Awaited
<1>17. CASE CancelTooLate
  BY <1>17 DEF CancelTooLate, Terminalizing, Pending, ClosePlanned, NoCall, Nothing, Unasked,
    Reject, Resolve, Waits, Answered, PhaseAfterAnswer, PhaseUnlessCancelling, BackToWork,
    NotAnswerable
<1>18. CASE CancelLists
  BY <1>18 DEF CancelLists, Pending, ClosePlanned, NoCall, Nothing, Unasked, Reject, Resolve,
    Waits, Answered, PhaseAfterAnswer, PhaseUnlessCancelling, BackToWork, NotAnswerable
<1>19. CASE CancelMeetsNoRequest
  BY <1>19 DEF CancelMeetsNoRequest, Pending, ClosePlanned, NoCall, Nothing, Unasked, Reject,
    Resolve, Waits, Answered, PhaseAfterAnswer, PhaseUnlessCancelling, BackToWork, NotAnswerable
<1>20. CASE CancelReturns
  BY <1>20 DEF CancelReturns, Pending, ClosePlanned, NoCall, Nothing, Unasked, Reject, Resolve,
    Waits, Answered, PhaseAfterAnswer, PhaseUnlessCancelling, BackToWork, NotAnswerable
<1>21. ASSUME NEW r \in Requests, OwnerCloses(r) PROVE RunOwnerTypeOK'
  <2>1. /\ mailbox' \in [Requests -> Statuses] /\ toClose' \subseteq Requests
        /\ UNCHANGED <<process, frames, lines, memory, claim, owner, awaited, cancellation,
                       calls, delegates, races>>
    BY <1>21 DEF OwnerCloses, Close
  <2> QED
    BY <2>1
<1>22. ASSUME NEW r \in Requests, CancelCloses(r) PROVE RunOwnerTypeOK'
  <2>1. /\ mailbox' \in [Requests -> Statuses] /\ toCancel' \subseteq Requests
        /\ UNCHANGED <<process, frames, lines, memory, claim, finalizer, canceller, calls,
                       delegates, races>>
    BY <1>22 DEF CancelCloses, Close
  <2> QED
    BY <2>1
<1>23. ASSUME NEW d \in Delegates, Delegate(d) PROVE RunOwnerTypeOK'
  BY <1>23 DEF Delegate, Pending, ClosePlanned, NoCall, Nothing, Unasked, Reject, Resolve, Waits,
    Answered, PhaseAfterAnswer, PhaseUnlessCancelling, BackToWork, NotAnswerable
<1>24. ASSUME NEW d \in Delegates, AdmitDelegate(d) PROVE RunOwnerTypeOK'
  BY <1>24 DEF AdmitDelegate, ActiveRecursiveCaller, Terminalizing, Pending, ClosePlanned, NoCall,
    Nothing, Unasked, Reject, Resolve, Waits, Answered, PhaseAfterAnswer, PhaseUnlessCancelling,
    BackToWork, NotAnswerable
<1>25. ASSUME NEW d \in Delegates, RefuseDelegate(d) PROVE RunOwnerTypeOK'
  BY <1>25 DEF RefuseDelegate, BackToWork, Pending, ClosePlanned, NoCall, Nothing, Unasked,
    Reject, Resolve, Waits, Answered, PhaseAfterAnswer, PhaseUnlessCancelling, BackToWork,
    NotAnswerable
<1>26. ASSUME NEW d \in Delegates, RecordLineage(d) PROVE RunOwnerTypeOK'
  <2>1. claim' \in ClaimType
    <3> HIDE DEF RunOwnerTypeOK, Statuses, Requests
    <3> QED
      BY <1>26, LineageWrites DEF ClaimType
  <2>2. delegates' \in [Delegates -> {"none", "requested", "registered", "attached", "running",
                                     "terminal", "done", "failed", "abandoned"}]
    <3>1. \E state \in {"attached", "abandoned"} : delegates' = [delegates EXCEPT ![d] = state]
      BY <1>26 DEF RecordLineage
    <3> QED
      BY <3>1
  <2>3. child' \in {child, BackToWork}
    BY <1>26 DEF RecordLineage
  <2>4. UNCHANGED <<asked, spoken, consumed, buffered, frames, lines, mailbox, memory,
                    finalizer, cancellation, calls, races>>
    BY <1>26 DEF RecordLineage
  <2> QED
    BY <2>1, <2>2, <2>3, <2>4 DEF ClaimType, BackToWork
<1>27. ASSUME NEW d \in Delegates, Launch(d) PROVE RunOwnerTypeOK'
  BY <1>27 DEF Launch, Pending, ClosePlanned, NoCall, Nothing, Unasked, Reject, Resolve, Waits,
    Answered, PhaseAfterAnswer, PhaseUnlessCancelling, BackToWork, NotAnswerable
<1>28. ASSUME NEW d \in Delegates, DelegateEnds(d) PROVE RunOwnerTypeOK'
  BY <1>28 DEF DelegateEnds, Pending, ClosePlanned, NoCall, Nothing, Unasked, Reject, Resolve,
    Waits, Answered, PhaseAfterAnswer, PhaseUnlessCancelling, BackToWork, NotAnswerable
<1>29. ASSUME NEW d \in Delegates, RecordTerminalLineage(d) PROVE RunOwnerTypeOK'
  <2>1. claim' \in ClaimType
    <3> HIDE DEF RunOwnerTypeOK, Statuses, Requests
    <3> QED
      BY <1>29, LineageWrites DEF ClaimType
  <2> QED
    BY <1>29, <2>1 DEF RecordTerminalLineage, ClaimType
<1>30. ASSUME NEW c \in Callers, NEW r \in Requests, NEW response \in Responses,
              Repeat(c, r, response)
       PROVE  RunOwnerTypeOK'
  <2>1. calls' \in CallsType /\ deliveries' \in [Requests -> Responses \cup {NoResponse}]
        /\ \A q \in Requests : Awaited(q)'
    <3> HIDE DEF RunOwnerTypeOK, Called, Statuses, Lines, Requests
    <3> QED
      BY <1>30, <1>0, DeliveryTypes DEF Repeat
  <2> QED
    BY <1>30, <2>1 DEF Repeat, CallsType, Awaited
<1>31. CASE UNCHANGED vars
  BY <1>31 DEF vars
<1>32. ASSUME NEW c \in Callers, NEW r \in Requests, NEW response \in Responses,
              RefuseAnswer(c, r, response)
       PROVE  RunOwnerTypeOK'
  <2>1. UNCHANGED vars
    BY <1>32 DEF RefuseAnswer
  <2> QED
    BY <1>31, <2>1
<1>33. ASSUME NEW c \in Callers, NEW r \in Requests, NEW response \in Responses,
              Deliver(c, r, response)
       PROVE  RunOwnerTypeOK'
  <2>1. calls' \in CallsType /\ deliveries' \in [Requests -> Responses \cup {NoResponse}]
        /\ \A q \in Requests : Awaited(q)'
    <3> HIDE DEF RunOwnerTypeOK, Called, Statuses, Lines, Requests
    <3> QED
      BY <1>33, <1>0, DeliveryTypes DEF Deliver
  <2> DEFINE Frame == [request : Requests, response : Responses]
  <2>2. frames' \in Seq(Frame)
    <3>1. frames \in Seq(Frame) /\ [request |-> r, response |-> response] \in Frame
      OBVIOUS
    <3> HIDE DEF Frame
    <3> QED
      BY <1>33, <3>1 DEF Deliver
  <2> QED
    BY <1>33, <2>1, <2>2 DEF Deliver, CallsType, Awaited
<1> HIDE DEF RunOwnerTypeOK, Statuses, Settled, Phases, Lines, Called, Races
<1> QED
  BY <1>1, <1>2, <1>3, <1>4, <1>5, <1>6, <1>7, <1>8, <1>9, <1>10, <1>11, <1>12, <1>13, <1>14,
    <1>15, <1>16, <1>17, <1>18, <1>19, <1>20, <1>21, <1>22, <1>23, <1>24, <1>25, <1>26, <1>27,
    <1>28, <1>29, <1>30, <1>31, <1>32, <1>33
    DEF Next, ChildSteps, Observe, Finalize, CancelGoesOn, Answer, Descend

\* Every step keeps what the owner, the claim and the cancellation say of each other.
LEMMA PositionSteps == RunOwnerTypeOK /\ PositionInv /\ [Next]_vars => PositionInv'
<1> SUFFICES ASSUME RunOwnerTypeOK /\ PositionInv, [Next]_vars PROVE PositionInv'
  OBVIOUS
<1> USE BoundsAssumption, NoResponseAssumption DEF Requests, process, memory, finalizer,
    cancellation, RunOwnerTypeOK, PositionInv, Statuses, Settled
<1>1. CASE ChildAsks
  BY <1>1 DEF ChildAsks
<1>2. CASE ChildWaits
  BY <1>2 DEF ChildWaits, Consume
<1>3. CASE ChildTakesFrame
  BY <1>3 DEF ChildTakesFrame, Consume
<1>4. CASE ChildTimesOut
  BY <1>4 DEF ChildTimesOut
<1>5. CASE ChildSpeaks
  BY <1>5 DEF ChildSpeaks
<1>6. CASE ChildEnds
  BY <1>6 DEF ChildEnds
<1>7. CASE ObserveMessage
  BY <1>7 DEF ObserveMessage, OwnerReads, Lines
<1>8. CASE ObserveRequest
  BY <1>8 DEF ObserveRequest, ObserveInput, OwnerReads, Lines
<1>9. CASE ObserveTimeout
  BY <1>9 DEF ObserveTimeout, ObserveInput, OwnerReads, Lines
<1>10. CASE ObserveAcceptance
  BY <1>10 DEF ObserveAcceptance, OwnerReads, Lines
<1>11. CASE AwaitDescendants
  BY <1>11 DEF AwaitDescendants
<1>12. CASE SettleRunClaim
  BY <1>12, SettlementWrites DEF SettleRunClaim, TerminalStatus
<1>13. CASE OwnerLists
  BY <1>13 DEF OwnerLists
<1>14. CASE OwnerClosedAll
  BY <1>14 DEF OwnerClosedAll
<1>15. CASE RemoveMailbox
  BY <1>15 DEF RemoveMailbox, Pending
<1>16. CASE AcceptCancellation
  BY <1>16 DEF AcceptCancellation, RejectDeliveries, Terminalizing, Pending, FirstOf,
    ActiveWriteAccepted, TerminalWriteAccepted
<1>17. CASE CancelTooLate
  BY <1>17 DEF CancelTooLate, Terminalizing
<1>18. CASE CancelLists
  BY <1>18 DEF CancelLists, Pending, FirstOf, ActiveWriteAccepted, TerminalWriteAccepted
<1>19. CASE CancelMeetsNoRequest
  BY <1>19 DEF CancelMeetsNoRequest, Pending, FirstOf, ActiveWriteAccepted, TerminalWriteAccepted
<1>20. CASE CancelReturns
  BY <1>20 DEF CancelReturns
<1>21. ASSUME NEW r \in Requests, OwnerCloses(r) PROVE PositionInv'
  BY <1>21 DEF OwnerCloses, Close
<1>22. ASSUME NEW r \in Requests, CancelCloses(r) PROVE PositionInv'
  BY <1>22 DEF CancelCloses, Close, Pending, FirstOf, ActiveWriteAccepted, TerminalWriteAccepted
<1>23. ASSUME NEW d \in Delegates, Delegate(d) PROVE PositionInv'
  BY <1>23 DEF Delegate
<1>24. ASSUME NEW d \in Delegates, AdmitDelegate(d) PROVE PositionInv'
  BY <1>24 DEF AdmitDelegate, ActiveRecursiveCaller, Terminalizing
<1>25. ASSUME NEW d \in Delegates, RefuseDelegate(d) PROVE PositionInv'
  BY <1>25 DEF RefuseDelegate, BackToWork
<1>26. ASSUME NEW d \in Delegates, RecordLineage(d) PROVE PositionInv'
  BY <1>26, LineageWrites DEF RecordLineage, BackToWork
<1>27. ASSUME NEW d \in Delegates, Launch(d) PROVE PositionInv'
  BY <1>27 DEF Launch, BackToWork
<1>28. ASSUME NEW d \in Delegates, DelegateEnds(d) PROVE PositionInv'
  BY <1>28 DEF DelegateEnds
<1>29. ASSUME NEW d \in Delegates, RecordTerminalLineage(d) PROVE PositionInv'
  BY <1>29, LineageWrites DEF RecordTerminalLineage
<1>30. ASSUME NEW c \in Callers, NEW r \in Requests, NEW response \in Responses,
              Repeat(c, r, response)
       PROVE  PositionInv'
  BY <1>30 DEF Repeat, Ask
<1>31. ASSUME NEW c \in Callers, NEW r \in Requests, NEW response \in Responses,
              RefuseAnswer(c, r, response)
       PROVE  PositionInv'
  BY <1>31 DEF RefuseAnswer, vars
<1>32. ASSUME NEW c \in Callers, NEW r \in Requests, NEW response \in Responses,
              Deliver(c, r, response)
       PROVE  PositionInv'
  BY <1>32 DEF Deliver, Ask, First
<1>33. CASE UNCHANGED vars
  BY <1>33 DEF vars
<1> HIDE DEF RunOwnerTypeOK, PositionInv, Statuses, Settled
<1> QED
  BY <1>1, <1>2, <1>3, <1>4, <1>5, <1>6, <1>7, <1>8, <1>9, <1>10, <1>11, <1>12, <1>13, <1>14,
    <1>15, <1>16, <1>17, <1>18, <1>19, <1>20, <1>21, <1>22, <1>23, <1>24, <1>25, <1>26, <1>27,
    <1>28, <1>29, <1>30, <1>31, <1>32, <1>33
    DEF Next, ChildSteps, Observe, Finalize, CancelGoesOn, Answer, Descend

\* Every step keeps what the three places say of a request.
LEMMA OutcomeSteps == RunOwnerTypeOK /\ PositionInv /\ OutcomeInv /\ [Next]_vars => OutcomeInv'
<1> SUFFICES ASSUME RunOwnerTypeOK /\ PositionInv /\ OutcomeInv, [Next]_vars PROVE OutcomeInv'
  OBVIOUS
<1> USE BoundsAssumption, NoResponseAssumption DEF Requests, process, memory, finalizer,
    cancellation, RunOwnerTypeOK, PositionInv, OutcomeInv, Told, Closing, Statuses, Settled
<1>1. CASE ChildAsks
  BY <1>1 DEF ChildAsks
<1>2. CASE ChildWaits
  <2>1. UNCHANGED <<asked, mailbox, inputRequests, claim, cancelRequested, owner, canceller,
                    toCancel, races>>
    BY <1>2 DEF ChildWaits
  <2>2. CASE UNCHANGED consumed
    BY <2>1, <2>2
  <2>3. CASE \A r \in Requests : r > asked => consumed'[r] = consumed[r]
    <3>1. ASSUME NEW r \in Requests PROVE Told(r)'
      <4>1. Told(r)
        OBVIOUS
      <4> HIDE DEF RunOwnerTypeOK, PositionInv, OutcomeInv, Closing, Statuses, Settled
      <4> QED
        BY <2>1, <2>3, <4>1
    <3>2. ASSUME NEW r \in Requests PROVE Closing(r)'
      <4>1. Closing(r)
        OBVIOUS
      <4> HIDE DEF RunOwnerTypeOK, PositionInv, OutcomeInv, Told, Statuses, Settled
      <4> QED
        BY <2>1, <4>1
    <3> QED
      BY <3>1, <3>2
  <2>4. asked \in Nat
    OBVIOUS
  <2> HIDE DEF RunOwnerTypeOK, PositionInv, OutcomeInv, Told, Closing
  <2>5. consumed \in [Requests -> Responses \cup {NoResponse}]
    BY DEF RunOwnerTypeOK
  <2> QED
    BY <1>2, <2>2, <2>3, <2>4, <2>5, ToolReturns
<1>3. CASE ChildTakesFrame
  <2>1. UNCHANGED <<asked, mailbox, inputRequests, claim, cancelRequested, owner, canceller,
                    toCancel, races>>
    BY <1>3 DEF ChildTakesFrame
  <2>2. CASE UNCHANGED consumed
    BY <2>1, <2>2
  <2>3. CASE \A r \in Requests : r > asked => consumed'[r] = consumed[r]
    <3>1. ASSUME NEW r \in Requests PROVE Told(r)'
      <4>1. Told(r)
        OBVIOUS
      <4> HIDE DEF RunOwnerTypeOK, PositionInv, OutcomeInv, Closing, Statuses, Settled
      <4> QED
        BY <2>1, <2>3, <4>1
    <3>2. ASSUME NEW r \in Requests PROVE Closing(r)'
      <4>1. Closing(r)
        OBVIOUS
      <4> HIDE DEF RunOwnerTypeOK, PositionInv, OutcomeInv, Told, Statuses, Settled
      <4> QED
        BY <2>1, <4>1
    <3> QED
      BY <3>1, <3>2
  <2>4. asked \in Nat
    OBVIOUS
  <2> HIDE DEF RunOwnerTypeOK, PositionInv, OutcomeInv, Told, Closing
  <2>5. consumed \in [Requests -> Responses \cup {NoResponse}]
    BY DEF RunOwnerTypeOK
  <2> QED
    BY <1>3, <2>2, <2>3, <2>4, <2>5, ToolReturns
<1>4. CASE ChildTimesOut
  BY <1>4 DEF ChildTimesOut
<1>5. CASE ChildSpeaks
  BY <1>5 DEF ChildSpeaks
<1>6. CASE ChildEnds
  BY <1>6 DEF ChildEnds
<1>7. CASE ObserveMessage
  BY <1>7 DEF ObserveMessage, OwnerReads
<1>8. CASE ObserveRequest
  BY <1>8 DEF ObserveRequest, ObserveInput, OwnerReads
<1>9. CASE ObserveTimeout
  BY <1>9 DEF ObserveTimeout, ObserveInput, OwnerReads
<1>10. CASE ObserveAcceptance
  BY <1>10, SMTT(60) DEF ObserveAcceptance, OwnerReads, Pending, FirstOf, ClosePlanned,
    ActiveWriteAccepted, TerminalWriteAccepted, Answered, PhaseAfterAnswer
<1>11. CASE AwaitDescendants
  BY <1>11 DEF AwaitDescendants
<1>12. CASE SettleRunClaim
  BY <1>12, SettlementWrites DEF SettleRunClaim, TerminalStatus, ClosePlanned
<1>13. CASE OwnerLists
  BY <1>13 DEF OwnerLists
<1>14. CASE OwnerClosedAll
  BY <1>14 DEF OwnerClosedAll
<1>15. CASE RemoveMailbox
  BY <1>15 DEF RemoveMailbox, Pending, Unasked
<1>16. CASE AcceptCancellation
  BY <1>16 DEF AcceptCancellation, RejectDeliveries, Terminalizing, Pending, FirstOf,
    ClosePlanned, ActiveWriteAccepted, TerminalWriteAccepted, Answered, PhaseAfterAnswer
<1>17. CASE CancelTooLate
  BY <1>17 DEF CancelTooLate, Terminalizing
<1>18. CASE CancelLists
  BY <1>18 DEF CancelLists, Pending, FirstOf, ClosePlanned, ActiveWriteAccepted,
    TerminalWriteAccepted, Answered, PhaseAfterAnswer
<1>19. CASE CancelMeetsNoRequest
  BY <1>19, SMTT(60) DEF CancelMeetsNoRequest, Pending, FirstOf, ClosePlanned, ActiveWriteAccepted,
    TerminalWriteAccepted, Answered, PhaseAfterAnswer
<1>20. CASE CancelReturns
  BY <1>20 DEF CancelReturns
<1>21. ASSUME NEW r \in Requests, OwnerCloses(r) PROVE OutcomeInv'
  BY <1>21 DEF OwnerCloses, Close
<1>22. ASSUME NEW r \in Requests, CancelCloses(r) PROVE OutcomeInv'
  <2>1. /\ \A q \in Requests : q # r => mailbox'[q] = mailbox[q]
        /\ \/ mailbox[r] = "pending" /\ mailbox'[r] = "closedByCancel"
           \/ mailbox[r] \in Settled /\ mailbox'[r] = mailbox[r]
        /\ toCancel' = toCancel \ {r} /\ cancelRequested
        /\ UNCHANGED <<asked, consumed, claim, inputRequests, cancelRequested, owner,
                       canceller, races>>
    BY <1>22 DEF CancelCloses, Close
  <2>2. ASSUME NEW q \in Requests PROVE Told(q)'
    <3>1. CASE q # r
      <4>1. Told(q)
        OBVIOUS
      <4> HIDE DEF RunOwnerTypeOK, PositionInv, OutcomeInv, Closing, Statuses, Settled
      <4> QED
        BY <2>1, <3>1, <4>1
    <3>2. CASE q = r
      BY <2>1, <3>2
    <3> QED
      BY <3>1, <3>2
  <2>3. ASSUME NEW q \in Requests PROVE Closing(q)'
    BY <2>1, SMTT(60)
  <2> QED
    BY <2>2, <2>3
<1>23. ASSUME NEW d \in Delegates, Delegate(d) PROVE OutcomeInv'
  BY <1>23 DEF Delegate
<1>24. ASSUME NEW d \in Delegates, AdmitDelegate(d) PROVE OutcomeInv'
  BY <1>24 DEF AdmitDelegate, ActiveRecursiveCaller, Terminalizing
<1>25. ASSUME NEW d \in Delegates, RefuseDelegate(d) PROVE OutcomeInv'
  BY <1>25 DEF RefuseDelegate, BackToWork
<1>26. ASSUME NEW d \in Delegates, RecordLineage(d) PROVE OutcomeInv'
  <2>1. \/ claim' = claim
        \/ /\ claim'.status = claim.status /\ claim'.requests = inputRequests
           /\ \A r \in Requests : claim.requests[r] \in Settled =>
                 inputRequests[r] = claim.requests[r]
    BY <1>26, LineageWrites
  <2>2. UNCHANGED <<asked, consumed, mailbox, inputRequests, cancelRequested, owner, canceller,
                    toCancel, races>>
    BY <1>26 DEF RecordLineage
  <2>3. CASE claim' = claim
    BY <2>2, <2>3
  <2>4. CASE claim'.status = claim.status /\ claim'.requests = inputRequests
    <3>1. ASSUME NEW r \in Requests PROVE Told(r)'
      BY <2>2, <2>4
    <3>2. ASSUME NEW r \in Requests PROVE Closing(r)'
      BY <2>1, <2>2, <2>4
    <3> QED
      BY <3>1, <3>2
  <2> QED
    BY <2>1, <2>3, <2>4
<1>27. ASSUME NEW d \in Delegates, Launch(d) PROVE OutcomeInv'
  BY <1>27 DEF Launch
<1>28. ASSUME NEW d \in Delegates, DelegateEnds(d) PROVE OutcomeInv'
  BY <1>28 DEF DelegateEnds
<1>29. ASSUME NEW d \in Delegates, RecordTerminalLineage(d) PROVE OutcomeInv'
  <2>1. \/ claim' = claim
        \/ /\ claim'.status = claim.status /\ claim'.requests = inputRequests
           /\ \A r \in Requests : claim.requests[r] \in Settled =>
                 inputRequests[r] = claim.requests[r]
    BY <1>29, LineageWrites
  <2>2. UNCHANGED <<asked, consumed, mailbox, inputRequests, cancelRequested, owner, canceller,
                    toCancel, races>>
    BY <1>29 DEF RecordTerminalLineage
  <2>3. CASE claim' = claim
    BY <2>2, <2>3
  <2>4. CASE claim'.status = claim.status /\ claim'.requests = inputRequests
    <3>1. ASSUME NEW r \in Requests PROVE Told(r)'
      BY <2>2, <2>4
    <3>2. ASSUME NEW r \in Requests PROVE Closing(r)'
      BY <2>1, <2>2, <2>4
    <3> QED
      BY <3>1, <3>2
  <2> QED
    BY <2>1, <2>3, <2>4
<1>30. ASSUME NEW c \in Callers, NEW r \in Requests, NEW response \in Responses,
              Repeat(c, r, response)
       PROVE  OutcomeInv'
  BY <1>30 DEF Repeat, Ask
<1>31. ASSUME NEW c \in Callers, NEW r \in Requests, NEW response \in Responses,
              RefuseAnswer(c, r, response)
       PROVE  OutcomeInv'
  BY <1>31 DEF RefuseAnswer, vars
<1>32. ASSUME NEW c \in Callers, NEW r \in Requests, NEW response \in Responses,
              Deliver(c, r, response)
       PROVE  OutcomeInv'
  BY <1>32 DEF Deliver, Ask, First
<1>33. CASE UNCHANGED vars
  BY <1>33 DEF vars
<1> HIDE DEF RunOwnerTypeOK, PositionInv, OutcomeInv, Told, Closing, Statuses, Settled
<1> QED
  BY <1>1, <1>2, <1>3, <1>4, <1>5, <1>6, <1>7, <1>8, <1>9, <1>10, <1>11, <1>12, <1>13, <1>14,
    <1>15, <1>16, <1>17, <1>18, <1>19, <1>20, <1>21, <1>22, <1>23, <1>24, <1>25, <1>26, <1>27,
    <1>28, <1>29, <1>30, <1>31, <1>32, <1>33
    DEF Next, ChildSteps, Observe, Finalize, CancelGoesOn, Answer, Descend

\* Every step keeps what the receipts rest on.
LEMMA ReceiptSteps ==
    RunOwnerTypeOK /\ PositionInv /\ OutcomeInv /\ ReceiptInv /\ [Next]_vars => ReceiptInv'
<1> SUFFICES ASSUME RunOwnerTypeOK /\ PositionInv /\ OutcomeInv /\ ReceiptInv, [Next]_vars
             PROVE  ReceiptInv'
  OBVIOUS
<1> USE BoundsAssumption, NoResponseAssumption DEF process, memory, finalizer, cancellation,
    ReceiptInv
<1>0. /\ asked \in Nat /\ lines \in Seq(Lines) /\ inputRequests \in [Requests -> Statuses]
      /\ consumed \in [Requests -> Responses \cup {NoResponse}]
      /\ accepted \in [Requests -> Responses \cup {NoResponse}]
      /\ deliveries \in [Requests -> Responses \cup {NoResponse}]
      /\ calls \in [Callers -> [step : Called, request : Requests,
                                response : Responses \cup {NoResponse}]]
      /\ \A i \in 1 .. Len(lines) : lines[i].kind = "accepted" =>
            lines[i].request \in Requests /\ lines[i].response \in Responses
  BY ResponseTypes
<1>1. CASE ChildAsks
  <2>1. consumed[asked + 1] = NoResponse
    BY <1>1, <1>0 DEF ChildAsks, OutcomeInv, Told, Requests
  <2> QED
    BY <1>1, <1>0, <2>1 DEF ChildAsks
<1>2. CASE ChildWaits
  <2>1. UNCHANGED <<asked, mailbox, inputRequests, claim, accepted, calls, deliveries>>
    BY <1>2 DEF ChildWaits
  <2>2. CASE /\ UNCHANGED consumed
             /\ child' \in {"created", "waiting"} => child \in {"created", "waiting"}
             /\ \A i \in 1 .. Len(lines') : lines'[i].kind = "accepted" =>
                   i \in 1 .. Len(lines) /\ lines'[i] = lines[i]
    BY <1>0, <2>1, <2>2
  <2>3. ASSUME child \in {"created", "waiting"}, child' = "working", asked \in Requests,
               NEW response \in Responses,
               consumed' = [consumed EXCEPT ![asked] = response],
               \A i \in 1 .. Len(lines') : lines'[i].kind = "accepted" =>
                  \/ i \in 1 .. Len(lines) /\ lines'[i] = lines[i]
                  \/ lines'[i].request = asked /\ lines'[i].response = response
        PROVE  ReceiptInv'
    <3>1. \A i \in 1 .. Len(lines) : lines[i].kind = "accepted" =>
             lines[i].request \in Requests \ {asked}
      BY <1>0, <2>3
    <3>2. \A q \in Requests : consumed[q] # NoResponse => consumed'[q] = consumed[q]
      BY <1>0, <2>3
    <3>3. consumed'[asked] = response
      BY <1>0, <2>3
    <3> QED
      BY <1>0, <2>1, <2>3, <3>1, <3>2, <3>3, SMTT(60)
  <2> HIDE DEF ReceiptInv
  <2> QED
    BY <1>2, <2>2, <2>3, ToolReturns
<1>3. CASE ChildTakesFrame
  <2>1. UNCHANGED <<asked, mailbox, inputRequests, claim, accepted, calls, deliveries>>
    BY <1>3 DEF ChildTakesFrame
  <2>2. CASE /\ UNCHANGED consumed
             /\ child' \in {"created", "waiting"} => child \in {"created", "waiting"}
             /\ \A i \in 1 .. Len(lines') : lines'[i].kind = "accepted" =>
                   i \in 1 .. Len(lines) /\ lines'[i] = lines[i]
    BY <1>0, <2>1, <2>2
  <2>3. ASSUME child \in {"created", "waiting"}, child' = "working", asked \in Requests,
               NEW response \in Responses,
               consumed' = [consumed EXCEPT ![asked] = response],
               \A i \in 1 .. Len(lines') : lines'[i].kind = "accepted" =>
                  \/ i \in 1 .. Len(lines) /\ lines'[i] = lines[i]
                  \/ lines'[i].request = asked /\ lines'[i].response = response
        PROVE  ReceiptInv'
    <3>1. \A i \in 1 .. Len(lines) : lines[i].kind = "accepted" =>
             lines[i].request \in Requests \ {asked}
      BY <1>0, <2>3
    <3>2. \A q \in Requests : consumed[q] # NoResponse => consumed'[q] = consumed[q]
      BY <1>0, <2>3
    <3>3. consumed'[asked] = response
      BY <1>0, <2>3
    <3> QED
      BY <1>0, <2>1, <2>3, <3>1, <3>2, <3>3, SMTT(60)
  <2> HIDE DEF ReceiptInv
  <2> QED
    BY <1>3, <2>2, <2>3, ToolReturns
<1>4. CASE ChildTimesOut
  BY <1>4 DEF ChildTimesOut
<1>5. CASE ChildSpeaks
  BY <1>5 DEF ChildSpeaks
<1>6. CASE ChildEnds
  BY <1>6 DEF ChildEnds
<1>7. CASE ObserveMessage
  BY <1>7 DEF ObserveMessage, OwnerReads
<1>8. CASE ObserveRequest
  BY <1>8 DEF ObserveRequest, ObserveInput, OwnerReads
<1>9. CASE ObserveTimeout
  BY <1>9 DEF ObserveTimeout, ObserveInput, OwnerReads
<1>10. CASE ObserveAcceptance
  <2> DEFINE r == Head(lines).request
             sent == Head(lines).response
  <2>0. /\ lines # <<>> /\ lines' = Tail(lines) /\ lines \in Seq(Lines)
        /\ r \in Requests /\ sent \in Responses /\ Head(lines).kind = "accepted"
    <3> HIDE DEF ReceiptInv
    <3> QED
      BY <1>10, <1>0, AcceptanceWrites
  <2>1. consumed[r] = sent /\ sent # NoResponse
    BY <1>0, <2>0
  <2>2. UNCHANGED <<child, asked, consumed>>
        /\ \A i \in 1 .. Len(lines') : i + 1 \in 1 .. Len(lines) /\ lines'[i] = lines[i + 1]
    BY <1>10, <2>0 DEF ObserveAcceptance
  <2>3. CASE UNCHANGED <<deliveries, calls, accepted, claim>>
    BY <1>0, <2>2, <2>3
  <2>4. CASE deliveries' = [deliveries EXCEPT ![r] = NoResponse] /\ calls' = Reject(r)
             /\ UNCHANGED <<accepted, claim>>
    BY <1>0, <2>2, <2>4 DEF Reject, Waits, NoCall
  <2>5. CASE /\ deliveries[r] = sent
             /\ deliveries' = [deliveries EXCEPT ![r] = NoResponse]
             /\ calls' = Resolve(r)
             /\ accepted' = [accepted EXCEPT ![r] = sent]
             /\ inputRequests' = Answered(r) /\ claim'.requests = inputRequests'
             /\ \A q \in Requests : claim.requests[q] \in Settled =>
                   inputRequests'[q] = claim.requests[q]
    <3>1. /\ claim'.requests[r] = "answered"
          /\ \A q \in Requests : claim.requests[q] = "answered" => claim'.requests[q] = "answered"
      BY <1>0, <2>0, <2>5 DEF Answered, Settled
    <3>2. \A c \in Callers :
             \/ calls'[c] = calls[c] /\ ~Waits(c, r)
             \/ /\ calls'[c].step = "accepted" /\ calls'[c].request = r
                /\ calls'[c].response = sent
      BY <1>0, <2>0, <2>5 DEF Resolve, Waits
    <3> QED
      BY <1>0, <2>0, <2>1, <2>2, <2>5, <3>1, <3>2 DEF Waits
  <2> HIDE DEF ReceiptInv
  <2> QED
    BY <1>10, <2>3, <2>4, <2>5, AcceptanceWrites
<1>11. CASE AwaitDescendants
  BY <1>11 DEF AwaitDescendants
<1>12. CASE SettleRunClaim
  <2>1. UNCHANGED <<child, asked, consumed, lines, accepted>>
    BY <1>12 DEF SettleRunClaim
  <2>2. CASE UNCHANGED <<claim, deliveries, calls>>
    BY <2>1, <2>2
  <2>3. ASSUME \A r \in Requests :
                  claim.requests[r] = "answered" => claim'.requests[r] = "answered",
               RejectDeliveries
        PROVE  ReceiptInv'
    BY <1>0, <2>1, <2>3, RefusalKeeps
  <2> HIDE DEF ReceiptInv
  <2> QED
    BY <1>12, <2>2, <2>3, SettlementWrites DEF Settled
<1>13. CASE OwnerLists
  BY <1>13 DEF OwnerLists
<1>14. CASE OwnerClosedAll
  BY <1>14 DEF OwnerClosedAll
<1>15. CASE RemoveMailbox
  BY <1>15 DEF RemoveMailbox
<1>16. CASE AcceptCancellation
  <2>1. \A r \in Requests : claim.requests[r] = "answered" => claim'.requests[r] = "answered"
    BY <1>16 DEF AcceptCancellation, ActiveWriteAccepted, Settled, RunOwnerTypeOK
  <2>2. UNCHANGED <<child, asked, consumed, lines, accepted>> /\ RejectDeliveries
    BY <1>16 DEF AcceptCancellation
  <2> QED
    BY <1>0, <2>1, <2>2, RefusalKeeps
<1>17. CASE CancelTooLate
  BY <1>17 DEF CancelTooLate, Terminalizing
<1>18. CASE CancelLists
  BY <1>18 DEF CancelLists
<1>19. CASE CancelMeetsNoRequest
  BY <1>19 DEF CancelMeetsNoRequest
<1>20. CASE CancelReturns
  BY <1>20 DEF CancelReturns
<1>21. ASSUME NEW r \in Requests, OwnerCloses(r) PROVE ReceiptInv'
  BY <1>21 DEF OwnerCloses, Close
<1>22. ASSUME NEW r \in Requests, CancelCloses(r) PROVE ReceiptInv'
  BY <1>22 DEF CancelCloses, Close
<1>23. ASSUME NEW d \in Delegates, Delegate(d) PROVE ReceiptInv'
  BY <1>23 DEF Delegate
<1>24. ASSUME NEW d \in Delegates, AdmitDelegate(d) PROVE ReceiptInv'
  BY <1>24 DEF AdmitDelegate, ActiveRecursiveCaller, Terminalizing
<1>25. ASSUME NEW d \in Delegates, RefuseDelegate(d) PROVE ReceiptInv'
  BY <1>25 DEF RefuseDelegate, BackToWork
<1>26. ASSUME NEW d \in Delegates, RecordLineage(d) PROVE ReceiptInv'
  <2>1. \A r \in Requests : claim.requests[r] = "answered" => claim'.requests[r] = "answered"
    <3> HIDE DEF ReceiptInv
    <3> QED
      BY <1>26, LineageWrites DEF Settled
  <2>2. UNCHANGED <<asked, consumed, lines, accepted, calls, deliveries>>
        /\ (child' \in {"created", "waiting"} => child' = child)
    BY <1>26 DEF RecordLineage, BackToWork
  <2> QED
    BY <1>0, <2>1, <2>2
<1>27. ASSUME NEW d \in Delegates, Launch(d) PROVE ReceiptInv'
  BY <1>27, <1>0 DEF Launch, BackToWork
<1>28. ASSUME NEW d \in Delegates, DelegateEnds(d) PROVE ReceiptInv'
  BY <1>28 DEF DelegateEnds
<1>29. ASSUME NEW d \in Delegates, RecordTerminalLineage(d) PROVE ReceiptInv'
  <2>1. \A r \in Requests : claim.requests[r] = "answered" => claim'.requests[r] = "answered"
    <3> HIDE DEF ReceiptInv
    <3> QED
      BY <1>29, LineageWrites DEF Settled
  <2>2. UNCHANGED <<asked, consumed, lines, accepted, calls, deliveries>>
        /\ (child' \in {"created", "waiting"} => child' = child)
    BY <1>29 DEF RecordTerminalLineage, BackToWork
  <2> QED
    BY <1>0, <2>1, <2>2
<1>30. ASSUME NEW c \in Callers, NEW r \in Requests, NEW response \in Responses,
              Repeat(c, r, response)
       PROVE  ReceiptInv'
  <2>1. ASSUME NEW step \in {"replayed", "waiting"}, Ask(c, r, response, step)
        PROVE  /\ calls'[c] = [step |-> step, request |-> r, response |-> response]
               /\ \A k \in Callers : k # c => calls'[k] = calls[k]
    BY <1>0, <2>1 DEF Ask
  <2>2. UNCHANGED <<child, asked, consumed, lines, accepted, claim, deliveries>>
    BY <1>30 DEF Repeat
  <2>3. CASE accepted[r] = response /\ Ask(c, r, response, "replayed")
    BY <1>0, <2>1, <2>2, <2>3
  <2>4. CASE deliveries[r] = response /\ Ask(c, r, response, "waiting")
    BY <1>0, <2>1, <2>2, <2>4
  <2> QED
    BY <1>30, <2>3, <2>4 DEF Repeat
<1>31. ASSUME NEW c \in Callers, NEW r \in Requests, NEW response \in Responses,
              RefuseAnswer(c, r, response)
       PROVE  ReceiptInv'
  BY <1>31 DEF RefuseAnswer, vars
<1>32. ASSUME NEW c \in Callers, NEW r \in Requests, NEW response \in Responses,
              Deliver(c, r, response)
       PROVE  ReceiptInv'
  <2>1. /\ calls'[c] = [step |-> "waiting", request |-> r, response |-> response]
        /\ \A k \in Callers : k # c => calls'[k] = calls[k]
        /\ deliveries'[r] = response
        /\ \A q \in Requests : q # r => deliveries'[q] = deliveries[q]
        /\ deliveries[r] = NoResponse
    BY <1>32, <1>0 DEF Deliver, Ask, First
  <2>2. UNCHANGED <<child, asked, consumed, lines, accepted, claim>>
    BY <1>32 DEF Deliver
  <2>3. \A k \in Callers : calls[k].step = "waiting" => calls[k].request # r
    BY <2>1, <1>32 DEF RunOwnerTypeOK
  <2> QED
    BY <1>0, <2>1, <2>2, <2>3
<1>33. CASE UNCHANGED vars
  BY <1>33 DEF vars
<1> HIDE DEF ReceiptInv
<1> QED
  BY <1>1, <1>2, <1>3, <1>4, <1>5, <1>6, <1>7, <1>8, <1>9, <1>10, <1>11, <1>12, <1>13, <1>14,
    <1>15, <1>16, <1>17, <1>18, <1>19, <1>20, <1>21, <1>22, <1>23, <1>24, <1>25, <1>26, <1>27,
    <1>28, <1>29, <1>30, <1>31, <1>32, <1>33
    DEF Next, ChildSteps, Observe, Finalize, CancelGoesOn, Answer, Descend

\* Every step keeps the order of the descendants.
LEMMA DelegatesSteps ==
    RunOwnerTypeOK /\ PositionInv /\ DelegatesInv /\ [Next]_vars => DelegatesInv'
<1> SUFFICES ASSUME RunOwnerTypeOK /\ PositionInv /\ DelegatesInv, [Next]_vars PROVE DelegatesInv'
  OBVIOUS
<1> USE BoundsAssumption, NoResponseAssumption DEF Requests, process, memory, finalizer,
    cancellation, RunOwnerTypeOK, PositionInv, DelegatesInv
<1>1. CASE ChildAsks
  BY <1>1 DEF ChildAsks
<1>2. CASE ChildWaits
  BY <1>2 DEF ChildWaits, Consume
<1>3. CASE ChildTakesFrame
  BY <1>3 DEF ChildTakesFrame, Consume
<1>4. CASE ChildTimesOut
  BY <1>4 DEF ChildTimesOut
<1>5. CASE ChildSpeaks
  BY <1>5 DEF ChildSpeaks
<1>6. CASE ChildEnds
  BY <1>6 DEF ChildEnds
<1>7. CASE ObserveMessage
  BY <1>7 DEF ObserveMessage, OwnerReads
<1>8. CASE ObserveRequest
  BY <1>8 DEF ObserveRequest, ObserveInput, OwnerReads
<1>9. CASE ObserveTimeout
  BY <1>9 DEF ObserveTimeout, ObserveInput, OwnerReads
<1>10. CASE ObserveAcceptance
  <2>1. claim'.status = claim.status /\ claim'.children = claim.children
    <3> HIDE DEF PositionInv, DelegatesInv
    <3>1. claim \in ClaimType
      BY DEF ClaimType
    <3>2. claim' = claim \/ claim' = [claim EXCEPT !.requests = inputRequests']
      BY <1>10 DEF ObserveAcceptance
    <3> HIDE DEF RunOwnerTypeOK
    <3> QED
      BY <3>1, <3>2 DEF ClaimType
  <2> QED
    BY <1>10, <2>1 DEF ObserveAcceptance, OwnerReads
<1>11. CASE AwaitDescendants
  BY <1>11 DEF AwaitDescendants
<1>12. CASE SettleRunClaim
  BY <1>12 DEF SettleRunClaim, TerminalStatus, RejectDeliveries
<1>13. CASE OwnerLists
  BY <1>13 DEF OwnerLists
<1>14. CASE OwnerClosedAll
  BY <1>14 DEF OwnerClosedAll
<1>15. CASE RemoveMailbox
  BY <1>15 DEF RemoveMailbox
<1>16. CASE AcceptCancellation
  BY <1>16 DEF AcceptCancellation, RejectDeliveries, Terminalizing, ActiveWriteAccepted
<1>17. CASE CancelTooLate
  BY <1>17 DEF CancelTooLate, Terminalizing
<1>18. CASE CancelLists
  BY <1>18 DEF CancelLists
<1>19. CASE CancelMeetsNoRequest
  BY <1>19 DEF CancelMeetsNoRequest
<1>20. CASE CancelReturns
  BY <1>20 DEF CancelReturns
<1>21. ASSUME NEW r \in Requests, OwnerCloses(r) PROVE DelegatesInv'
  BY <1>21 DEF OwnerCloses, Close
<1>22. ASSUME NEW r \in Requests, CancelCloses(r) PROVE DelegatesInv'
  BY <1>22 DEF CancelCloses, Close
<1>23. ASSUME NEW d \in Delegates, Delegate(d) PROVE DelegatesInv'
  BY <1>23 DEF Delegate
<1>24. ASSUME NEW d \in Delegates, AdmitDelegate(d) PROVE DelegatesInv'
  BY <1>24 DEF AdmitDelegate, ActiveRecursiveCaller, Terminalizing
<1>25. ASSUME NEW d \in Delegates, RefuseDelegate(d) PROVE DelegatesInv'
  BY <1>25 DEF RefuseDelegate, BackToWork
<1>26. ASSUME NEW d \in Delegates, RecordLineage(d) PROVE DelegatesInv'
  <2>1. claim.status # "active" => "orphaned" \in races
    BY <1>26 DEF RecordLineage
  <2>2. /\ claim'.status = claim.status /\ claim.children \subseteq claim'.children
        /\ delegates'[d] = "attached" => d \in claim'.children \/ claim.status # "active"
    BY <1>26, LineageWrites
  <2>3. /\ delegates[d] = "registered" /\ delegates' = [delegates EXCEPT ![d] = delegates'[d]]
        /\ \/ child' = child /\ delegates'[d] = "attached"
           \/ delegates'[d] = "abandoned"
        /\ UNCHANGED <<races, owner, awaited>>
    BY <1>26 DEF RecordLineage
  <2>4. \A e \in Delegates : e # d => delegates'[e] = delegates[e]
    BY <2>3
  <2>5. SUFFICES ASSUME "orphaned" \notin races PROVE DelegatesInv'
    BY <2>3
  <2>6. \A e \in Delegates : delegates[e] \in {"requested", "registered", "attached"} => e = d
    BY <2>3, <2>5
  <2>7. /\ delegates'[d] \in {"attached", "abandoned"}
        /\ delegates'[d] = "attached" => child' = "delegating"
    BY <2>3, <2>5
  <2>8. /\ \A e \in Delegates : delegates'[e] \in {"requested", "registered", "attached"} =>
              e = d /\ child' = "delegating"
        /\ \A e \in Delegates : delegates'[e] = "running" =>
              e # d /\ delegates[e] = "running"
    BY <2>4, <2>6, <2>7
  <2>9. \A e \in Delegates : delegates'[e] \in {"attached", "running"} => e \in claim'.children
    BY <2>1, <2>2, <2>4, <2>5, <2>8
  <2> HIDE DEF RunOwnerTypeOK, PositionInv
  <2> QED
    BY <2>2, <2>3, <2>5, <2>8, <2>9
<1>27. ASSUME NEW d \in Delegates, Launch(d) PROVE DelegatesInv'
  BY <1>27 DEF Launch, BackToWork
<1>28. ASSUME NEW d \in Delegates, DelegateEnds(d) PROVE DelegatesInv'
  BY <1>28, SMTT(60) DEF DelegateEnds
<1>29. ASSUME NEW d \in Delegates, RecordTerminalLineage(d) PROVE DelegatesInv'
  <2>1. claim'.status = claim.status /\ claim.children \subseteq claim'.children
    BY <1>29, LineageWrites
  <2>2. /\ delegates' = [delegates EXCEPT ![d] = "done"]
        /\ UNCHANGED <<child, races, owner, awaited>>
    BY <1>29 DEF RecordTerminalLineage
  <2> QED
    BY <2>1, <2>2, SMTT(60)
<1>30. ASSUME NEW c \in Callers, NEW r \in Requests, NEW response \in Responses,
              Repeat(c, r, response)
       PROVE  DelegatesInv'
  BY <1>30 DEF Repeat, Ask
<1>31. ASSUME NEW c \in Callers, NEW r \in Requests, NEW response \in Responses,
              RefuseAnswer(c, r, response)
       PROVE  DelegatesInv'
  BY <1>31 DEF RefuseAnswer, vars
<1>32. ASSUME NEW c \in Callers, NEW r \in Requests, NEW response \in Responses,
              Deliver(c, r, response)
       PROVE  DelegatesInv'
  BY <1>32 DEF Deliver, Ask, First
<1>33. CASE UNCHANGED vars
  BY <1>33 DEF vars
<1> HIDE DEF RunOwnerTypeOK, PositionInv, DelegatesInv
<1> QED
  BY <1>1, <1>2, <1>3, <1>4, <1>5, <1>6, <1>7, <1>8, <1>9, <1>10, <1>11, <1>12, <1>13, <1>14,
    <1>15, <1>16, <1>17, <1>18, <1>19, <1>20, <1>21, <1>22, <1>23, <1>24, <1>25, <1>26, <1>27,
    <1>28, <1>29, <1>30, <1>31, <1>32, <1>33
    DEF Next, ChildSteps, Observe, Finalize, CancelGoesOn, Answer, Descend

-----------------------------------------------------------------------------
LEMMA InitHolds == Init => IInv
<1> SUFFICES ASSUME Init PROVE IInv
  OBVIOUS
<1> USE BoundsAssumption, NoResponseAssumption DEF Init, Requests
<1>1. RunOwnerTypeOK
  <2>1. /\ NoCall \in [step : Called, request : Requests, response : Responses \cup {NoResponse}]
        /\ NoCall.step # "waiting"
    BY DEF NoCall, Called
  <2>2. /\ Nothing \in [Requests -> Responses \cup {NoResponse}]
        /\ Unasked \in [Requests -> Statuses]
    BY DEF Nothing, Unasked, Statuses
  <2>3. claim \in [status : {"active", "cancelled", "ended"}, requests : [Requests -> Statuses],
                  children : SUBSET Delegates, reported : SUBSET Delegates]
    BY <2>2
  <2>4. /\ lines \in Seq(Lines) /\ races \subseteq Races
        /\ frames \in Seq([request : Requests, response : Responses])
    OBVIOUS
  <2>5. \A r \in Requests : deliveries[r] # NoResponse
           <=> \E c \in Callers : calls[c].step = "waiting" /\ calls[c].request = r
    BY <2>1 DEF Nothing
  <2>6. /\ calls \in [Callers -> [step : Called, request : Requests,
                                 response : Responses \cup {NoResponse}]]
        /\ delegates \in [Delegates -> {"none", "requested", "registered", "attached", "running",
                                        "terminal", "done", "failed", "abandoned"}]
        /\ asked \in 0 .. MaxRequests /\ spoken \in 0 .. MaxMessages
    BY <2>1
  <2>7. /\ consumed = Nothing /\ buffered = Nothing /\ deliveries = Nothing /\ accepted = Nothing
        /\ mailbox = Unasked /\ inputRequests = Unasked
        /\ child = "working" /\ activePhase = "running" /\ cancelRequested = FALSE
        /\ owner = "running" /\ awaited = {} /\ toClose = {}
        /\ canceller = "idle" /\ toCancel = {}
    OBVIOUS
  <2> HIDE DEF Init, Requests
  <2> QED
    BY <2>2, <2>3, <2>4, <2>5, <2>6, <2>7 DEF RunOwnerTypeOK, Phases
<1>2. PositionInv
  BY DEF PositionInv
<1>3. OutcomeInv
  BY DEF OutcomeInv, Told, Closing, Nothing, Unasked, Settled
<1>4. ReceiptInv
  BY DEF ReceiptInv, Nothing, NoCall
<1>5. DelegatesInv
  BY DEF DelegatesInv
<1> QED
  BY <1>1, <1>2, <1>3, <1>4, <1>5 DEF IInv

LEMMA Invariance == Spec => []IInv
<1>1. IInv /\ [Next]_vars => IInv'
  BY TypeSteps, PositionSteps, OutcomeSteps, ReceiptSteps, DelegatesSteps DEF IInv
<1> QED
  BY <1>1, InitHolds, PTL DEF Spec

\* The variables of the claim's three views, the child and the callers have their types, and a
\* delivery is pending exactly while a call of answer_run_input waits for it.
THEOREM RunOwnerTypes == Spec => []RunOwnerTypeOK
<1>1. IInv => RunOwnerTypeOK
  BY DEF IInv
<1> QED
  BY <1>1, Invariance, PTL

\* A caller of answer_run_input that got a receipt sent what the child's tool returned, and the
\* request stays answered in the owner's view and in the claim.
THEOREM TrueReceipts == Spec => []ReceiptsAreTrue
<1>1. IInv => ReceiptsAreTrue
  <2> SUFFICES ASSUME IInv, NEW c \in Callers, calls[c].step \in {"accepted", "replayed"}
               PROVE  LET r == calls[c].request IN
                      /\ consumed[r] = calls[c].response
                      /\ inputRequests[r] = "answered" /\ claim.requests[r] = "answered"
    BY DEF ReceiptsAreTrue
  <2>1. calls[c].request \in Requests
    BY ResponseTypes DEF IInv
  <2>2. /\ consumed[calls[c].request] = calls[c].response
        /\ claim.requests[calls[c].request] = "answered"
    BY <2>1 DEF IInv, ReceiptInv
  <2> QED
    BY <2>1, <2>2 DEF IInv, OutcomeInv, Told
<1> QED
  BY <1>1, Invariance, PTL

\* The mailbox, the owner's view and the claim never tell different outcomes of a request (unless
\* an input line has overtaken a cancellation), and a cancelled run ends as cancelled.
THEOREM OneOutcome == Spec => []CommittedOutcomeWins
<1>1. IInv => CommittedOutcomeWins
  <2> SUFFICES ASSUME IInv PROVE CommittedOutcomeWins
    OBVIOUS
  <2>1. cancelRequested => claim.status \in {"active", "cancelled"}
    BY DEF IInv, PositionInv, RunOwnerTypeOK
  <2>2. \A r \in Requests : Told(r) /\ Closing(r)
    BY DEF IInv, OutcomeInv
  <2>3. ASSUME NEW r \in Requests
        PROVE  /\ claim.requests[r] \in Settled =>
                     inputRequests[r] = claim.requests[r] \/ "overtaken" \in races
               /\ claim.requests[r] \in Settled /\ mailbox[r] \in Settled =>
                     (mailbox[r] = "answered" <=> claim.requests[r] = "answered")
    BY <2>2 DEF Told, Closing, Settled
  <2> QED
    BY <2>1, <2>3 DEF CommittedOutcomeWins
<1> QED
  BY <1>1, Invariance, PTL

\* A claim is made terminal only when every run below it is (unless the child has ended before
\* its delegate call was launched).
THEOREM DescendantsFirst == Spec => []DescendantsSettleFirst
<1>1. IInv => DescendantsSettleFirst
  <2> SUFFICES ASSUME IInv, claim.status # "active", "orphaned" \notin races, NEW d \in Delegates
               PROVE  delegates[d] \in {"none", "failed", "abandoned", "terminal", "done"}
    BY DEF DescendantsSettleFirst
  <2>1. child = "exited"
    BY DEF IInv, PositionInv
  <2>2. delegates[d] \notin {"requested", "registered", "attached", "running"}
    BY <2>1 DEF IInv, DelegatesInv
  <2> QED
    BY <2>2 DEF IInv, RunOwnerTypeOK
<1> QED
  BY <1>1, Invariance, PTL

-----------------------------------------------------------------------------
(***************************************************************************)
(* FailureStorage: the inductive invariant.                                *)
(***************************************************************************)
ServerSteps == {"idle", "acquire", "clear", "append", "budget", "release", "removeDirectory"}
ArchiverSteps == {"acquire", "clear", "rename", "summary", "budget", "release",
                  "removeDirectory", "done"}

\* What is pending is somewhere between the server and its worker, or was lost; a worker
\* that is closed gets nothing any more.
QueueTyped ==
    /\ logged \in 0..MaxRecords
    /\ worker \in [Server -> {"none", "open", "closed"}]
    /\ pending \in [Server -> 0..MaxPending]
    /\ inbox \in [Server -> Seq(Record)] /\ chain \in [Server -> Seq(Record)]
    /\ dones \in [Server -> Nat] /\ idleTimers \in [Server -> SUBSET {"newest", "older"}]
    /\ \A s \in Server : dones[s] + Len(inbox[s]) + Len(chain[s]) <= pending[s]
    /\ \A s \in Server : worker[s] = "closed" => inbox[s] = <<>>

\* A living worker that is at work has a record in its hands.
StepsTyped ==
    /\ pc \in [Party -> ServerSteps \cup ArchiverSteps]
    /\ \A s \in Server : pc[s] \in ServerSteps /\ (s \in alive /\ pc[s] # "idle" => chain[s] # <<>>)
    /\ \A a \in Archiver : pc[a] \in ArchiverSteps

\* Who lives and is in the section has the lock.
SectionIsLocked ==
    /\ lock \in Party \cup {"absent", "empty"}
    /\ alive \subseteq Party
    /\ \A p \in alive : pc[p] \in Inside => lock = p

Archive == [by : Archiver, records : Seq(Record)]

FilesTyped ==
    /\ log \in Seq(Record) /\ appended \in Seq(Record) /\ archives \in Seq(Archive)
    /\ summaries \subseteq Archiver /\ pruned \subseteq Archiver

\* The raw files are what is left of all that was appended, behind what was pruned.
NewestAreKept == \E old \in Seq(Record) : appended = old \o (Raw \o log)

\* Only a worker that is on its way to the budget may have put a record too many there.
Enforcing == {s \in Server \cap alive : pc[s] = "budget"}

BudgetIsOwed ==
    /\ overdue \in Nat
    /\ Total <= Budget + overdue + (IF Enforcing = {} THEN 0 ELSE 1)

\* An archive without a summary is that of an archiver that is about to write it, or of one
\* that died or failed before.
ArchivesAreSummarized ==
    \A a \in Archiver :
        (\/ \E i \in DOMAIN archives : archives[i].by = a
         \/ a \in pruned)
        => a \in summaries \/ a \notin alive \/ a \in failed \/ pc[a] = "summary"

StorageInv ==
    /\ QueueTyped /\ StepsTyped /\ SectionIsLocked /\ FilesTyped
    /\ NewestAreKept /\ BudgetIsOwed
    /\ ArchivesAreSummarized /\ OnlyFailedArchivesLackSummaries
-----------------------------------------------------------------------------
(***************************************************************************)
(* Sequences of sequences.  Induction over numbers is stated with a set in *)
(* the place of a predicate; it rests on the order of the numbers.         *)
(***************************************************************************)
LEMMA NumbersFromZero ==
    ASSUME NEW G, 0 \in G, \A n \in Nat : n \in G => n + 1 \in G
    PROVE  Nat \subseteq G
<1> SUFFICES ASSUME Nat \ G # {} PROVE FALSE
  OBVIOUS
<1>1. PICK x \in Nat \ G : \A y \in Nat \ G : ~ (<<y, x>> \in OpToRel(<, Nat))
  BY NatLessThanWellFounded, WFMin
<1>2. x # 0 /\ x - 1 \in Nat /\ (x - 1) + 1 = x
  OBVIOUS
<1>3. <<x - 1, x>> \in OpToRel(<, Nat)
  BY <1>2 DEF OpToRel
<1>4. x - 1 \in G
  BY <1>1, <1>2, <1>3
<1> QED
  BY <1>2, <1>4

\* The same for an interval of numbers from one.
LEMMA IntervalFromOne ==
    ASSUME NEW k \in Nat, NEW G, 1 <= k => 1 \in G,
           \A i \in 2 .. k : i - 1 \in G => i \in G
    PROVE  1 .. k \subseteq G
<1> DEFINE H == {n \in Nat : n + 1 <= k => n + 1 \in G}
<1>1. 0 \in H
  OBVIOUS
<1>2. ASSUME NEW n \in Nat, n \in H PROVE n + 1 \in H
  <2> SUFFICES ASSUME n + 2 <= k PROVE n + 2 \in G
    OBVIOUS
  <2>1. n + 2 \in 2 .. k /\ (n + 2) - 1 = n + 1
    OBVIOUS
  <2>2. n + 1 \in G
    BY <1>2
  <2> QED
    BY <2>1, <2>2
<1> HIDE DEF H
<1>3. Nat \subseteq H
  BY <1>1, <1>2, NumbersFromZero
<1> USE DEF H
<1>4. ASSUME NEW i \in 1 .. k PROVE i \in G
  <2>1. i - 1 \in H /\ (i - 1) + 1 = i
    BY <1>3
  <2> QED
    BY <2>1
<1> QED
  BY <1>4

\* The partial results of a flattening.
Flattens(f, ss) ==
    f = [i \in 1 .. Len(ss) |-> IF i = 1 THEN ss[i] ELSE f[i - 1] \o ss[i]]

\* The function by which FlattenSeq concatenates a sequence of sequences exists.
LEMMA FlatteningExists ==
    ASSUME NEW T, NEW ss \in Seq(Seq(T)), ss # <<>>
    PROVE  \E f : Flattens(f, ss) /\ \A i \in 1 .. Len(ss) : f[i] \in Seq(T)
<1> DEFINE Upto(n, f) ==
               /\ f = [i \in 1 .. n |-> IF i = 1 THEN ss[i] ELSE f[i - 1] \o ss[i]]
               /\ \A i \in 1 .. n : f[i] \in Seq(T)
           G == {n \in Nat : n <= Len(ss) => \E f : Upto(n, f)}
<1>1. 0 \in G
  <2>1. Upto(0, [i \in 1 .. 0 |-> <<>>])
    OBVIOUS
  <2> QED
    BY <2>1
<1>2. ASSUME NEW n \in Nat, n \in G PROVE n + 1 \in G
  <2> HIDE DEF Upto
  <2> SUFFICES ASSUME n + 1 <= Len(ss) PROVE \E f : Upto(n + 1, f)
    OBVIOUS
  <2>1. PICK f : Upto(n, f)
    <3>1. n <= Len(ss)
      OBVIOUS
    <3> QED
      BY <1>2, <3>1
  <2> USE DEF Upto
  <2>0. ASSUME NEW i \in 1 .. n PROVE f[i] = IF i = 1 THEN ss[i] ELSE f[i - 1] \o ss[i]
    BY <2>1
  <2> DEFINE last == IF n = 0 THEN ss[n + 1] ELSE f[n] \o ss[n + 1]
             g == [i \in 1 .. n + 1 |-> IF i <= n THEN f[i] ELSE last]
  <2>2. last \in Seq(T)
    <3>1. ss[n + 1] \in Seq(T)
      OBVIOUS
    <3>2. n # 0 => f[n] \in Seq(T)
      BY <2>1
    <3> QED
      BY <3>1, <3>2, ConcatProperties
  <2>3. \A i \in 1 .. n + 1 : g[i] \in Seq(T)
    BY <2>1, <2>2
  <2>4. ASSUME NEW i \in 1 .. n + 1
        PROVE  g[i] = IF i = 1 THEN ss[i] ELSE g[i - 1] \o ss[i]
    <3>1. CASE i <= n
      <4>1. f[i] = IF i = 1 THEN ss[i] ELSE f[i - 1] \o ss[i]
        BY <2>0, <3>1
      <4>2. g[i] = f[i] /\ (i # 1 => g[i - 1] = f[i - 1])
        BY <3>1
      <4> QED
        BY <4>1, <4>2
    <3>2. CASE i = n + 1
      BY <3>2
    <3> QED
      BY <3>1, <3>2
  <2>5. g = [i \in 1 .. n + 1 |-> IF i = 1 THEN ss[i] ELSE g[i - 1] \o ss[i]]
    <3> HIDE DEF last
    <3>1. g = [i \in 1 .. n + 1 |-> g[i]]
      OBVIOUS
    <3> HIDE DEF g
    <3> QED
      BY <2>4, <3>1
  <2>6. Upto(n + 1, g)
    <3> HIDE DEF g, last
    <3> QED
      BY <2>3, <2>5
  <2> QED
    BY <2>6
<1> HIDE DEF G
<1>3. Nat \subseteq G
  BY <1>1, <1>2, NumbersFromZero
<1>4. Len(ss) \in G
  BY <1>3
<1>5. PICK f : Upto(Len(ss), f)
  <2> HIDE DEF Upto
  <2> QED
    BY <1>4 DEF G
<1> QED
  BY <1>5 DEF Flattens

\* The last one is what the library's operator returns.
LEMMA FlattenUnfolds ==
    ASSUME NEW T, NEW ss \in Seq(Seq(T)), ss # <<>>
    PROVE  \E f \in [1 .. Len(ss) -> Seq(T)] :
             /\ f[1] = ss[1]
             /\ \A i \in 2 .. Len(ss) : f[i] = f[i - 1] \o ss[i]
             /\ FlattenSeq(ss) = f[Len(ss)]
<1> DEFINE f == CHOOSE f : Flattens(f, ss)
<1>1. Flattens(f, ss)
  BY FlatteningExists, Zenon
<1>2. FlattenSeq(ss) = f[Len(ss)]
  BY DEF FlattenSeq, Flattens
<1>3. f = [i \in 1 .. Len(ss) |-> IF i = 1 THEN ss[i] ELSE f[i - 1] \o ss[i]]
  BY <1>1 DEF Flattens
<1> HIDE DEF f
<1>4. f[1] = ss[1]
  BY <1>3
<1>5. ASSUME NEW i \in 2 .. Len(ss) PROVE f[i] = f[i - 1] \o ss[i]
  <2>1. i \in 1 .. Len(ss) /\ i # 1
    OBVIOUS
  <2> QED
    BY <1>3, <2>1
<1> DEFINE G == {i \in 1 .. Len(ss) : f[i] \in Seq(T)}
<1>6. 1 <= Len(ss) => 1 \in G
  BY <1>4
<1>7. ASSUME NEW i \in 2 .. Len(ss), i - 1 \in G PROVE i \in G
  <2>1. f[i - 1] \in Seq(T) /\ ss[i] \in Seq(T)
    BY <1>7
  <2>2. f[i - 1] \o ss[i] \in Seq(T)
    BY <2>1, ConcatProperties
  <2>3. f[i] \in Seq(T)
    BY <1>5, <2>2, Zenon
  <2> QED
    BY <2>3
<1> HIDE DEF G
<1>8. 1 .. Len(ss) \subseteq G
  <2>1. Len(ss) \in Nat /\ \A i \in 2 .. Len(ss) : i - 1 \in G => i \in G
    BY <1>7
  <2> QED
    BY <1>6, <2>1, IntervalFromOne
<1> USE DEF G
<1>9. f \in [1 .. Len(ss) -> Seq(T)]
  BY <1>3, <1>8
<1> QED
  BY <1>2, <1>4, <1>5, <1>9

LEMMA ConcatIsAssociative == \A T : \A a, b, c \in Seq(T) : (a \o b) \o c = a \o (b \o c)
  BY ConcatAssociative, Zenon

\* It concatenates nothing to nothing.
LEMMA FlattenOfNone == FlattenSeq(<<>>) = <<>>
  BY DEF FlattenSeq

\* What FlattenSeq concatenates is a sequence over the same set.
LEMMA FlattenType ==
    ASSUME NEW T, NEW ss \in Seq(Seq(T))
    PROVE  FlattenSeq(ss) \in Seq(T)
<1>1. CASE ss = <<>>
  BY <1>1 DEF FlattenSeq
<1>2. CASE ss # <<>>
  <2>1. PICK f \in [1 .. Len(ss) -> Seq(T)] : FlattenSeq(ss) = f[Len(ss)]
    BY <1>2, FlattenUnfolds
  <2>2. Len(ss) \in 1 .. Len(ss)
    BY <1>2
  <2> QED
    BY <2>1, <2>2
<1> QED
  BY <1>1, <1>2

\* A sequence that is put behind the others comes last.
LEMMA FlattenAppend ==
    ASSUME NEW T, NEW ss \in Seq(Seq(T)), NEW s \in Seq(T)
    PROVE  FlattenSeq(Append(ss, s)) = FlattenSeq(ss) \o s
<1> DEFINE tt == Append(ss, s)
           l == Len(ss)
<1>1. /\ tt \in Seq(Seq(T)) /\ tt # <<>> /\ Len(tt) = l + 1 /\ tt[l + 1] = s /\ l \in Nat
      /\ \A i \in 1 .. l : tt[i] = ss[i]
  BY AppendProperties
<1> HIDE DEF tt
<1>2. PICK g \in [1 .. Len(tt) -> Seq(T)] :
          /\ g[1] = tt[1]
          /\ \A i \in 2 .. Len(tt) : g[i] = g[i - 1] \o tt[i]
          /\ FlattenSeq(tt) = g[Len(tt)]
  BY <1>1, FlattenUnfolds
<1>3. CASE ss = <<>>
  <2>1. FlattenSeq(tt) = s
    BY <1>1, <1>2, <1>3
  <2> QED
    BY <1>3, <2>1, FlattenOfNone, ConcatEmptySeq DEF tt
<1>4. CASE ss # <<>>
  <2>1. PICK f \in [1 .. l -> Seq(T)] :
            /\ f[1] = ss[1]
            /\ \A i \in 2 .. l : f[i] = f[i - 1] \o ss[i]
            /\ FlattenSeq(ss) = f[l]
    BY <1>4, FlattenUnfolds
  <2>2. ASSUME NEW i \in 2 .. l, g[i - 1] = f[i - 1] PROVE g[i] = f[i]
    <3>1. i \in 2 .. Len(tt) /\ tt[i] = ss[i]
      BY <1>1
    <3> QED
      BY <1>2, <2>1, <2>2, <3>1
  <2>3. 1 <= l => g[1] = f[1]
    BY <1>1, <1>2, <2>1
  <2> DEFINE G == {i \in 1 .. l : g[i] = f[i]}
  <2>4. 1 <= l => 1 \in G
    BY <2>3
  <2>5. ASSUME NEW i \in 2 .. l, i - 1 \in G PROVE i \in G
    BY <2>2, <2>5
  <2> HIDE DEF G
  <2>6. l \in G
    <3>1. l \in 1 .. l /\ \A i \in 2 .. l : i - 1 \in G => i \in G
      BY <1>1, <1>4, <2>5
    <3>2. 1 .. l \subseteq G
      BY <1>1, <2>4, <3>1, IntervalFromOne
    <3> QED
      BY <3>1, <3>2
  <2> USE DEF G
  <2>7. l + 1 \in 2 .. Len(tt) /\ (l + 1) - 1 = l
    BY <1>1, <1>4
  <2>8. g[l + 1] = g[(l + 1) - 1] \o tt[l + 1]
    BY <1>2, <2>7
  <2> QED
    BY <1>1, <1>2, <2>1, <2>6, <2>7, <2>8 DEF tt
<1> QED
  BY <1>3, <1>4

SeqsOver(T) == Seq(Seq(T))

\* The first sequence comes first.
LEMMA FlattenTail ==
    ASSUME NEW T, NEW ss \in SeqsOver(T), ss # <<>>
    PROVE  FlattenSeq(ss) = ss[1] \o FlattenSeq(Tail(ss))
<1> DEFINE tt == Tail(ss)
           l == Len(ss)
<1>1. /\ tt \in SeqsOver(T) /\ Len(tt) = l - 1 /\ l \in Nat /\ l >= 1
      /\ \A i \in 1 .. Len(tt) : tt[i] = ss[i + 1]
      /\ ss[1] \in Seq(T)
  BY HeadTailProperties, ElementOfSeq DEF SeqsOver
<1> HIDE DEF tt
<1>2. PICK f \in [1 .. l -> Seq(T)] :
          /\ f[1] = ss[1]
          /\ \A i \in 2 .. l : f[i] = f[i - 1] \o ss[i]
          /\ FlattenSeq(ss) = f[l]
  BY FlattenUnfolds DEF SeqsOver
<1>3. CASE l = 1
  <2>1. tt = <<>>
    BY <1>1, <1>3
  <2> QED
    BY <1>1, <1>2, <1>3, <2>1, FlattenOfNone, ConcatEmptySeq DEF tt
<1>4. CASE l # 1
  <2>1. tt # <<>> /\ Len(tt) >= 1
    BY <1>1, <1>4
  <2>2. PICK g \in [1 .. Len(tt) -> Seq(T)] :
            /\ g[1] = tt[1]
            /\ \A i \in 2 .. Len(tt) : g[i] = g[i - 1] \o tt[i]
            /\ FlattenSeq(tt) = g[Len(tt)]
    BY <1>1, <2>1, FlattenUnfolds DEF SeqsOver
  <2>3. f[2] = ss[1] \o g[1]
    <3>1. 2 \in 2 .. l /\ 2 - 1 = 1 /\ 1 \in 1 .. Len(tt) /\ tt[1] = ss[1 + 1] /\ 1 + 1 = 2
      BY <1>1, <2>1
    <3>2. f[2] = f[2 - 1] \o ss[2]
      BY <1>2, <3>1
    <3> QED
      BY <1>2, <2>2, <3>1, <3>2
  <2>4. ASSUME NEW i \in 2 .. Len(tt), f[i] = ss[1] \o g[i - 1]
        PROVE  f[i + 1] = ss[1] \o g[i]
    <3>1. /\ i + 1 \in 2 .. l /\ (i + 1) - 1 = i
          /\ i \in 1 .. Len(tt) /\ i - 1 \in 1 .. Len(tt)
      BY <1>1
    <3>2. f[i + 1] = f[(i + 1) - 1] \o ss[i + 1]
      BY <1>2, <3>1
    <3>3. f[i + 1] = (ss[1] \o g[i - 1]) \o tt[i]
      BY <1>1, <2>4, <3>1, <3>2
    <3>4. g[i] = g[i - 1] \o tt[i]
      BY <2>2
    <3>5. g[i - 1] \in Seq(T)
      BY <3>1
    <3>6. tt[i] \in Seq(T)
      BY <1>1, <3>1, ElementOfSeq DEF SeqsOver
    <3>7. \A a, b, c \in Seq(T) : (a \o b) \o c = a \o (b \o c)
      BY ConcatIsAssociative
    <3>8. (ss[1] \o g[i - 1]) \o tt[i] = ss[1] \o (g[i - 1] \o tt[i])
      BY <1>1, <3>5, <3>6, <3>7, Zenon
    <3> QED
      BY <3>3, <3>4, <3>8, Zenon
  <2> DEFINE G == {i \in 1 .. Len(tt) : f[i + 1] = ss[1] \o g[i]}
  <2>5. 1 <= Len(tt) => 1 \in G
    BY <2>3
  <2>6. ASSUME NEW i \in 2 .. Len(tt), i - 1 \in G PROVE i \in G
    <3>1. (i - 1) + 1 = i /\ i \in 1 .. Len(tt)
      OBVIOUS
    <3>2. f[i] = ss[1] \o g[i - 1]
      BY <2>6, <3>1
    <3> QED
      BY <2>4, <3>1, <3>2
  <2> HIDE DEF G
  <2>7. Len(tt) \in G
    <3>1. /\ Len(tt) \in Nat /\ Len(tt) \in 1 .. Len(tt)
          /\ \A i \in 2 .. Len(tt) : i - 1 \in G => i \in G
      BY <1>1, <2>1, <2>6
    <3>2. 1 .. Len(tt) \subseteq G
      BY <2>5, <3>1, IntervalFromOne
    <3> QED
      BY <3>1, <3>2
  <2> USE DEF G
  <2>8. f[l] = ss[1] \o g[Len(tt)]
    <3>1. Len(tt) + 1 = l
      BY <1>1
    <3> QED
      BY <2>7, <3>1
  <2> QED
    BY <1>2, <2>2, <2>8 DEF tt
<1> QED
  BY <1>3, <1>4

\* What is left of a sequence when its head is cut off is a suffix of it.
LEMMA SuffixOfConcat ==
    ASSUME NEW T, NEW s \in Seq(T), NEW t \in Seq(T)
    PROVE  IsSuffix(t, s \o t)
<1> DEFINE u == s \o t
           ru == Reverse(u)
           rt == Reverse(t)
<1>1. /\ u \in Seq(T) /\ Len(u) = Len(s) + Len(t)
      /\ \A i \in 1 .. Len(u) : u[i] = IF i <= Len(s) THEN s[i] ELSE t[i - Len(s)]
  BY ConcatProperties
<1> HIDE DEF u
<1>2. /\ rt \in Seq(T) /\ Len(rt) = Len(t)
      /\ \A i \in 1 .. Len(t) : rt[i] = t[(Len(t) - i) + 1]
  BY DEF Reverse
<1>3. /\ ru \in Seq(T) /\ Len(ru) = Len(u)
      /\ \A i \in 1 .. Len(u) : ru[i] = u[(Len(u) - i) + 1]
  BY <1>1 DEF Reverse
<1> HIDE DEF ru, rt
<1>4. ASSUME NEW i \in 1 .. Len(rt) PROVE rt[i] = ru[i]
  <2>1. /\ i \in 1 .. Len(t) /\ i \in 1 .. Len(u) /\ (Len(u) - i) + 1 \in 1 .. Len(u)
        /\ (Len(u) - i) + 1 > Len(s) /\ ((Len(u) - i) + 1) - Len(s) = (Len(t) - i) + 1
    BY <1>1, <1>2
  <2>2. ru[i] = u[(Len(u) - i) + 1]
    BY <1>3, <2>1
  <2>3. u[(Len(u) - i) + 1] = t[((Len(u) - i) + 1) - Len(s)]
    BY <1>1, <2>1
  <2> QED
    BY <1>2, <2>1, <2>2, <2>3
<1>5. Len(rt) <= Len(ru)
  BY <1>1, <1>2, <1>3
<1>6. SubSeq(rt, 1, Len(rt)) = SubSeq(ru, 1, Len(rt))
  <2>1. /\ SubSeq(rt, 1, Len(rt)) \in Seq(T) /\ Len(SubSeq(rt, 1, Len(rt))) = Len(rt)
        /\ \A i \in 1 .. Len(rt) : SubSeq(rt, 1, Len(rt))[i] = rt[i]
    BY <1>2, SubSeqFull
  <2>2. /\ SubSeq(ru, 1, Len(rt)) \in Seq(T) /\ Len(SubSeq(ru, 1, Len(rt))) = Len(rt)
        /\ \A i \in 1 .. Len(rt) : SubSeq(ru, 1, Len(rt))[i] = ru[i]
    BY <1>2, <1>3, <1>5
  <2> QED
    BY <1>4, <2>1, <2>2, SeqEqual
<1> QED
  BY <1>5, <1>6 DEF IsSuffix, IsPrefix, ru, rt, u
-----------------------------------------------------------------------------
\* Whose step it is.
LEMMA StorageSteps ==
    ASSUME [StorageNext]_storageVars
    PROVE  \/ \E s \in Server : \/ Log(s) \/ HearDone(s) \/ WorkerExits(s)
                                \/ Receive(s) \/ BeginJob(s) \/ IdleTimerFires(s)
           \/ \E p \in Party : LockStep(p) \/ StorageStep(p) \/ Crash(p)
           \/ UNCHANGED storageVars
  BY DEF StorageNext, ServerStep, WorkerStep, ArchiverStep, Party

\* The end of a job takes its record from the chain of the worker.
LEMMA EndOfJob ==
    ASSUME QueueTyped, StepsTyped, NEW p \in Party, p \in alive, UNCHANGED alive,
           pc[p] # "idle", pc[p] # "done", EndJob(p)
    PROVE  QueueTyped' /\ StepsTyped'
<1> USE DEF QueueTyped, StepsTyped
<1>1. CASE p \in Server
  <2>1. /\ pc' = [pc EXCEPT ![p] = "idle"] /\ chain' = [chain EXCEPT ![p] = Tail(chain[p])]
        /\ dones' = [dones EXCEPT ![p] = IF worker[p] = "open" THEN dones[p] + 1 ELSE dones[p]]
        /\ idleTimers' = [idleTimers EXCEPT ![p] =
                             IF worker[p] = "closed" THEN {}
                             ELSE {"newest"} \cup IF idleTimers[p] = {} THEN {} ELSE {"older"}]
        /\ UNCHANGED <<logged, worker, pending, inbox>>
    BY <1>1 DEF EndJob, Goto
  <2>2. /\ chain[p] \in Seq(Record) /\ chain[p] # <<>>
        /\ Tail(chain[p]) \in Seq(Record) /\ Len(Tail(chain[p])) = Len(chain[p]) - 1
    BY <1>1, HeadTailProperties
  <2>3. chain' \in [Server -> Seq(Record)] /\ dones' \in [Server -> Nat]
    BY <1>1, <2>1, <2>2
  <2>4. idleTimers' \in [Server -> SUBSET {"newest", "older"}]
    BY <1>1, <2>1
  <2>5. ASSUME NEW t \in Server
        PROVE  dones'[t] + Len(inbox'[t]) + Len(chain'[t]) <= pending'[t]
    <3>1. dones[t] + Len(inbox[t]) + Len(chain[t]) <= pending[t] /\ pending[t] \in Nat
          /\ dones[t] \in Nat /\ Len(inbox[t]) \in Nat /\ Len(chain[t]) \in Nat
      BY FailureStorageAssumption
    <3>2. CASE t = p
      <4>1. Len(chain'[t]) = Len(chain[t]) - 1 /\ dones'[t] <= dones[t] + 1 /\ dones'[t] \in Nat
        BY <2>1, <2>2, <2>3, <3>1, <3>2
      <4> QED
        BY <2>1, <3>1, <4>1
    <3>3. CASE t # p
      BY <2>1, <3>1, <3>3
    <3> QED
      BY <3>2, <3>3
  <2>6. QueueTyped'
    BY <2>1, <2>3, <2>4, <2>5
  <2>7. StepsTyped'
    BY <1>1, <2>1, FailureStorageAssumption DEF ServerSteps, Party
  <2> QED
    BY <2>6, <2>7
<1>2. CASE p \notin Server
  BY <1>2 DEF EndJob, Goto, queue, Party, ArchiverSteps
<1> QED
  BY <1>1, <1>2

\* Messages and records on their way.
LEMMA QueueStep ==
    StorageInv /\ [StorageNext]_storageVars => QueueTyped'
<1> SUFFICES ASSUME StorageInv, [StorageNext]_storageVars PROVE QueueTyped'
  OBVIOUS
<1> USE DEF StorageInv, QueueTyped
<1>0. \A t \in Server : /\ pending[t] \in Nat /\ dones[t] \in Nat
                        /\ Len(inbox[t]) \in Nat /\ Len(chain[t]) \in Nat
  BY FailureStorageAssumption
<1>1. ASSUME NEW s \in Server, Log(s) PROVE QueueTyped'
  <2>1. CASE pending[s] >= MaxPending
    BY <1>1, <2>1, FailureStorageAssumption DEF Log
  <2>2. CASE pending[s] < MaxPending
    <3>1. logged' \in Record /\ logged' \in 0..MaxRecords
      BY <1>1, FailureStorageAssumption DEF Log, Record
    <3>2. /\ worker' = [worker EXCEPT ![s] = IF worker[s] = "none" THEN "open" ELSE worker[s]]
          /\ pending' = [pending EXCEPT ![s] = pending[s] + 1]
          /\ inbox' = [inbox EXCEPT ![s] = IF worker[s] = "closed" THEN inbox[s]
                                           ELSE Append(inbox[s], logged')]
          /\ UNCHANGED <<chain, dones, idleTimers>>
      BY <1>1, <2>2, FailureStorageAssumption DEF Log
    <3>3. Append(inbox[s], logged') \in Seq(Record)
          /\ Len(Append(inbox[s], logged')) = Len(inbox[s]) + 1
      BY <3>1, AppendProperties
    <3>4. /\ worker' \in [Server -> {"none", "open", "closed"}]
          /\ pending' \in [Server -> 0..MaxPending] /\ inbox' \in [Server -> Seq(Record)]
      BY <2>2, <3>2, <3>3, FailureStorageAssumption
    <3>5. ASSUME NEW t \in Server
          PROVE  /\ dones'[t] + Len(inbox'[t]) + Len(chain'[t]) <= pending'[t]
                 /\ worker'[t] = "closed" => inbox'[t] = <<>>
      <4>1. CASE t = s
        BY <1>0, <3>2, <3>3, <4>1
      <4>2. CASE t # s
        BY <3>2, <4>2
      <4> QED
        BY <4>1, <4>2
    <3> QED
      BY <3>1, <3>2, <3>4, <3>5
  <2>3. pending[s] >= MaxPending \/ pending[s] < MaxPending
    BY <1>0, FailureStorageAssumption
  <2> QED
    BY <2>1, <2>2, <2>3, Zenon
<1>2. ASSUME NEW s \in Server, HearDone(s) PROVE QueueTyped'
  <2>1. /\ dones' = [dones EXCEPT ![s] = dones[s] - 1] /\ dones[s] > 0
        /\ pending' = [pending EXCEPT ![s] = IF pending[s] > 0 THEN pending[s] - 1 ELSE 0]
        /\ UNCHANGED <<logged, worker, inbox, chain, idleTimers>>
    BY <1>2 DEF HearDone
  <2>2. dones' \in [Server -> Nat] /\ pending' \in [Server -> 0..MaxPending]
    BY <1>0, <2>1, FailureStorageAssumption
  <2>3. ASSUME NEW t \in Server
        PROVE  dones'[t] + Len(inbox'[t]) + Len(chain'[t]) <= pending'[t]
    <3>1. CASE t = s
      BY <1>0, <2>1, <3>1
    <3>2. CASE t # s
      BY <2>1, <3>2
    <3> QED
      BY <3>1, <3>2
  <2> QED
    BY <2>1, <2>2, <2>3
<1>3. ASSUME NEW s \in Server, WorkerExits(s) PROVE QueueTyped'
  <2>1. /\ worker[s] = "closed" /\ chain[s] = <<>> /\ dones[s] = 0 /\ inbox[s] = <<>>
        /\ worker' = [worker EXCEPT ![s] = "none"] /\ pending' = [pending EXCEPT ![s] = 0]
        /\ UNCHANGED <<logged, inbox, chain, dones, idleTimers>>
    BY <1>3 DEF WorkerExits
  <2>2. /\ worker' \in [Server -> {"none", "open", "closed"}]
        /\ pending' \in [Server -> 0..MaxPending]
    <3>1. 0 \in 0..MaxPending
      BY FailureStorageAssumption
    <3> QED
      BY <2>1, <3>1
  <2>3. ASSUME NEW t \in Server
        PROVE  /\ dones'[t] + Len(inbox'[t]) + Len(chain'[t]) <= pending'[t]
               /\ worker'[t] = "closed" => inbox'[t] = <<>>
    <3>1. CASE t = s
      BY <1>0, <2>1, <3>1
    <3>2. CASE t # s
      BY <2>1, <3>2
    <3> QED
      BY <3>1, <3>2
  <2> QED
    BY <2>1, <2>2, <2>3
<1>4. ASSUME NEW s \in Server, Receive(s) PROVE QueueTyped'
  <2>1. /\ worker[s] = "open" /\ inbox[s] # <<>> /\ inbox[s] \in Seq(Record)
        /\ inbox' = [inbox EXCEPT ![s] = Tail(inbox[s])]
        /\ chain' = [chain EXCEPT ![s] = Append(chain[s], Head(inbox[s]))]
        /\ idleTimers' = [idleTimers EXCEPT ![s] = idleTimers[s] \ {"newest"}]
        /\ UNCHANGED <<logged, worker, pending, dones>>
    BY <1>4 DEF Receive
  <2>2. /\ Tail(inbox[s]) \in Seq(Record) /\ Len(Tail(inbox[s])) = Len(inbox[s]) - 1
        /\ Head(inbox[s]) \in Record
    BY <2>1, HeadTailProperties
  <2>3. /\ Append(chain[s], Head(inbox[s])) \in Seq(Record)
        /\ Len(Append(chain[s], Head(inbox[s]))) = Len(chain[s]) + 1
    BY <2>2, AppendProperties
  <2>4. /\ inbox' \in [Server -> Seq(Record)] /\ chain' \in [Server -> Seq(Record)]
        /\ idleTimers' \in [Server -> SUBSET {"newest", "older"}]
    BY <2>1, <2>2, <2>3
  <2>5. ASSUME NEW t \in Server
        PROVE  /\ dones'[t] + Len(inbox'[t]) + Len(chain'[t]) <= pending'[t]
               /\ worker'[t] = "closed" => inbox'[t] = <<>>
    <3>1. CASE t = s
      BY <1>0, <2>1, <2>2, <2>3, <3>1
    <3>2. CASE t # s
      BY <2>1, <3>2
    <3> QED
      BY <3>1, <3>2
  <2> QED
    BY <2>1, <2>4, <2>5
<1>5. ASSUME NEW s \in Server, IdleTimerFires(s) PROVE QueueTyped'
  <2>1. /\ worker' = [worker EXCEPT ![s] = "closed"]
        /\ idleTimers' = [idleTimers EXCEPT ![s] = {}]
        /\ inbox' = [inbox EXCEPT ![s] = <<>>]
        /\ UNCHANGED <<logged, pending, chain, dones>>
    BY <1>5 DEF IdleTimerFires
  <2>2. /\ worker' \in [Server -> {"none", "open", "closed"}]
        /\ idleTimers' \in [Server -> SUBSET {"newest", "older"}]
        /\ inbox' \in [Server -> Seq(Record)]
    BY <2>1, EmptySeq
  <2>3. ASSUME NEW t \in Server
        PROVE  /\ dones'[t] + Len(inbox'[t]) + Len(chain'[t]) <= pending'[t]
               /\ worker'[t] = "closed" => inbox'[t] = <<>>
    <3>1. CASE t = s
      BY <1>0, <2>1, <3>1
    <3>2. CASE t # s
      BY <2>1, <3>2
    <3> QED
      BY <3>1, <3>2
  <2> QED
    BY <2>1, <2>2, <2>3
<1>6. ASSUME NEW p \in Party, Clear(p) \/ GiveUp(p) \/ RemoveDirectory(p) PROVE QueueTyped'
  BY <1>6, EndOfJob DEF Clear, GiveUp, RemoveDirectory, At, queue
<1>7. ASSUME NEW s \in Server, BeginJob(s) PROVE QueueTyped'
  BY <1>7 DEF BeginJob, queue
<1>8. ASSUME NEW p \in Party, Acquire(p) \/ Reclaim(p) \/ Release(p) \/ StorageStep(p)
      PROVE  QueueTyped'
  BY <1>8 DEF Acquire, Reclaim, Release, StorageStep, AppendRecord, RenameLog, WriteSummary,
     PruneArchive, RewriteNewestRecords, WithinBudget, PruneFails, queue
<1>9. ASSUME NEW p \in Party, Crash(p) PROVE QueueTyped'
  <2>1. CASE p \notin Server
    BY <1>9, <2>1 DEF Crash, queue
  <2>2. CASE p \in Server
    <3>1. QueueIsLost(p)
      BY <1>9, <2>2 DEF Crash
    <3>2. inbox' \in [Server -> Seq(Record)] /\ chain' \in [Server -> Seq(Record)]
      BY <3>1, EmptySeq DEF QueueIsLost
    <3>4. pending' \in [Server -> 0..MaxPending]
      <4>1. 0 \in 0..MaxPending
        BY FailureStorageAssumption
      <4> QED
        BY <3>1, <4>1 DEF QueueIsLost
    <3>3. ASSUME NEW t \in Server
          PROVE  /\ dones'[t] + Len(inbox'[t]) + Len(chain'[t]) <= pending'[t]
                 /\ worker'[t] = "closed" => inbox'[t] = <<>>
      <4>1. CASE t = p
        BY <1>0, <3>1, <4>1 DEF QueueIsLost
      <4>2. CASE t # p
        BY <3>1, <4>2 DEF QueueIsLost
      <4> QED
        BY <4>1, <4>2
    <3> QED
      BY <3>1, <3>2, <3>3, <3>4 DEF QueueIsLost
  <2> QED
    BY <2>1, <2>2
<1>10. CASE UNCHANGED storageVars
  BY <1>10 DEF storageVars, queue
<1> QED
  BY <1>1, <1>2, <1>3, <1>4, <1>5, <1>6, <1>7, <1>8, <1>9, <1>10, StorageSteps DEF LockStep

\* Where everybody is.
LEMMA StepsStep ==
    StorageInv /\ [StorageNext]_storageVars => StepsTyped'
<1> SUFFICES ASSUME StorageInv, [StorageNext]_storageVars PROVE StepsTyped'
  OBVIOUS
<1> USE DEF StorageInv, StepsTyped, ServerSteps, ArchiverSteps
<1>1. ASSUME NEW p \in Party, Clear(p) \/ GiveUp(p) \/ RemoveDirectory(p) PROVE StepsTyped'
  <2>1. CASE EndJob(p)
    <3>1. pc[p] # "idle" /\ pc[p] # "done" /\ p \in alive /\ UNCHANGED alive
      BY <1>1 DEF Clear, GiveUp, RemoveDirectory, At
    <3> QED
      BY <2>1, <3>1, EndOfJob
  <2>2. CASE Goto(p, "acquire") /\ UNCHANGED <<alive, queue>> /\ pc[p] = "clear"
    BY <2>2 DEF Goto, queue, Party
  <2> QED
    BY <1>1, <2>1, <2>2 DEF Clear, GiveUp, RemoveDirectory, At
<1>2. ASSUME NEW s \in Server, Receive(s) PROVE StepsTyped'
  <2>1. /\ UNCHANGED <<alive, pc>>
        /\ chain' = [chain EXCEPT ![s] = Append(chain[s], Head(inbox[s]))]
    BY <1>2 DEF Receive
  <2>2. chain[s] \in Seq(Record) /\ Head(inbox[s]) \in Record
    BY <1>2, HeadTailProperties DEF Receive, QueueTyped
  <2>3. Append(chain[s], Head(inbox[s])) # <<>>
    BY <2>2, AppendProperties
  <2> QED
    BY <2>1, <2>3 DEF QueueTyped
<1>3. ASSUME NEW s \in Server, Log(s) \/ HearDone(s) \/ WorkerExits(s) \/ IdleTimerFires(s)
      PROVE  StepsTyped'
  BY <1>3 DEF Log, HearDone, WorkerExits, IdleTimerFires
<1>4. ASSUME NEW s \in Server, BeginJob(s) PROVE StepsTyped'
  BY <1>4, FailureStorageAssumption DEF BeginJob, At, Goto, queue, Party
<1>5. ASSUME NEW p \in Party, Acquire(p) PROVE StepsTyped'
  BY <1>5, FailureStorageAssumption DEF Acquire, At, Goto, queue, Party
<1>6. ASSUME NEW p \in Party, Reclaim(p) \/ Release(p) PROVE StepsTyped'
  BY <1>6, FailureStorageAssumption DEF Reclaim, Release, At, Goto, queue, Party
<1>7. ASSUME NEW p \in Party,
             AppendRecord(p) \/ RewriteNewestRecords(p) \/ WithinBudget(p) \/ PruneFails(p)
      PROVE  StepsTyped'
  BY <1>7, FailureStorageAssumption
  DEF AppendRecord, RewriteNewestRecords, WithinBudget, PruneFails, At, Goto, queue, Party
<1>8. ASSUME NEW p \in Party, RenameLog(p) \/ WriteSummary(p) PROVE StepsTyped'
  BY <1>8, FailureStorageAssumption DEF RenameLog, WriteSummary, At, Goto, queue, Party
<1>9. ASSUME NEW p \in Party, PruneArchive(p) PROVE StepsTyped'
  BY <1>9 DEF PruneArchive, queue
<1>10. CASE UNCHANGED storageVars
  BY <1>10 DEF storageVars, queue
<1>11. ASSUME NEW p \in Party, Crash(p) PROVE StepsTyped'
  <2>1. UNCHANGED pc /\ alive' = alive \ {p}
    BY <1>11 DEF Crash
  <2>2. \A s \in Server \ {p} : chain'[s] = chain[s]
    BY <1>11 DEF Crash, QueueIsLost, QueueTyped, queue
  <2> QED
    BY <2>1, <2>2
<1> QED
  BY <1>1, <1>2, <1>3, <1>4, <1>5, <1>6, <1>7, <1>8, <1>9, <1>10, <1>11, StorageSteps
  DEF LockStep, StorageStep

\* Nobody who lives enters the section but with the lock, and nobody takes it from him.
LEMMA SectionStep ==
    StorageInv /\ [StorageNext]_storageVars => SectionIsLocked'
<1> SUFFICES ASSUME StorageInv, [StorageNext]_storageVars PROVE SectionIsLocked'
  OBVIOUS
<1> USE FailureStorageAssumption DEF StorageInv, SectionIsLocked, Inside
<1>0. pc \in [Party -> ServerSteps \cup ArchiverSteps]
  BY DEF StepsTyped
<1>1. ASSUME NEW p \in Party, EndJob(p)
      PROVE  \A q \in Party : q # p => pc'[q] = pc[q]
  BY <1>0, <1>1 DEF EndJob, Goto
<1>2. ASSUME NEW p \in Party, EndJob(p) PROVE pc'[p] \notin Inside
  BY <1>0, <1>2 DEF EndJob, Goto
<1>3. ASSUME NEW p \in Party, Acquire(p) PROVE SectionIsLocked'
  BY <1>0, <1>3 DEF Acquire, At, Goto, Free
<1>4. ASSUME NEW p \in Party, Reclaim(p) PROVE SectionIsLocked'
  BY <1>0, <1>4 DEF Reclaim, At, Goto
<1>5. ASSUME NEW p \in Party, Clear(p) PROVE SectionIsLocked'
  <2>1. CASE Free
    BY <1>0, <1>5, <2>1 DEF Clear, At, Goto, Free
  <2>2. CASE ~Free
    BY <1>1, <1>2, <1>5, <2>2 DEF Clear, At
  <2> QED
    BY <2>1, <2>2
<1>6. ASSUME NEW p \in Party, GiveUp(p) PROVE SectionIsLocked'
  BY <1>1, <1>2, <1>6 DEF GiveUp, At
<1>7. ASSUME NEW p \in Party, Release(p) PROVE SectionIsLocked'
  BY <1>0, <1>7 DEF Release, At, Goto
<1>8. ASSUME NEW p \in Party, RemoveDirectory(p) PROVE SectionIsLocked'
  BY <1>1, <1>2, <1>8 DEF RemoveDirectory, At, Free
<1>9. ASSUME NEW p \in Party, StorageStep(p) PROVE SectionIsLocked'
  <2>1. p \in alive /\ pc[p] \in Inside /\ lock = p /\ lock' = lock /\ alive' = alive
    BY <1>9 DEF StorageStep, AppendRecord, RenameLog, WriteSummary, PruneArchive,
       RewriteNewestRecords, WithinBudget, PruneFails, At
  <2>2. \A q \in Party : q # p => pc'[q] = pc[q]
    BY <1>0, <1>9 DEF StorageStep, AppendRecord, RenameLog, WriteSummary, PruneArchive,
       RewriteNewestRecords, WithinBudget, PruneFails, Goto
  <2> QED
    BY <2>1, <2>2
<1>10. ASSUME NEW p \in Party, Crash(p) PROVE SectionIsLocked'
  BY <1>10 DEF Crash
<1>11. ASSUME NEW s \in Server, BeginJob(s) PROVE SectionIsLocked'
  BY <1>0, <1>11 DEF BeginJob, At, Goto
<1>12. ASSUME NEW s \in Server,
              Log(s) \/ HearDone(s) \/ WorkerExits(s) \/ Receive(s) \/ IdleTimerFires(s)
       PROVE  SectionIsLocked'
  BY <1>12 DEF Log, HearDone, WorkerExits, Receive, IdleTimerFires
<1>13. CASE UNCHANGED storageVars
  BY <1>13 DEF storageVars
<1> QED
  BY <1>3, <1>4, <1>5, <1>6, <1>7, <1>8, <1>9, <1>10, <1>11, <1>12, <1>13, StorageSteps
  DEF LockStep
-----------------------------------------------------------------------------
(***************************************************************************)
(* The raw files.                                                          *)
(***************************************************************************)
LEMMA FunctionIsSequence ==
    ASSUME NEW S, NEW n \in Nat, NEW f \in [1 .. n -> S]
    PROVE  f \in Seq(S) /\ Len(f) = n
  OBVIOUS

RecordsOf(as) == [i \in DOMAIN as |-> as[i].records]

\* The records of the archives, oldest archive first.
LEMMA RecordsOfArchives ==
    ASSUME NEW as \in Seq(Archive)
    PROVE  /\ RecordsOf(as) \in SeqsOver(Record) /\ Len(RecordsOf(as)) = Len(as)
           /\ \A i \in 1 .. Len(as) : RecordsOf(as)[i] = as[i].records
<1>1. ASSUME NEW i \in 1 .. Len(as) PROVE as[i].records \in Seq(Record)
  <2>1. as[i] \in Archive
    BY ElementOfSeq
  <2> QED
    BY <2>1 DEF Archive
<1>2. DOMAIN as = 1 .. Len(as) /\ Len(as) \in Nat
  BY LenProperties
<1>3. RecordsOf(as) \in [1 .. Len(as) -> Seq(Record)]
  BY <1>1, <1>2 DEF RecordsOf
<1>4. \A i \in 1 .. Len(as) : RecordsOf(as)[i] = as[i].records
  BY <1>2 DEF RecordsOf
<1> QED
  BY <1>2, <1>3, <1>4, FunctionIsSequence DEF SeqsOver

\* The raw archives hold records, and none if there is no archive.
LEMMA RawIsASequence ==
    ASSUME FilesTyped
    PROVE  /\ Raw \in Seq(Record)
           /\ archives = <<>> => Raw = <<>>
<1>1. Raw = FlattenSeq(RecordsOf(archives))
  BY DEF Raw, RecordsOf
<1>2. RecordsOf(archives) \in SeqsOver(Record)
  BY RecordsOfArchives DEF FilesTyped
<1>3. Raw \in Seq(Record)
  BY <1>1, <1>2, FlattenType DEF SeqsOver
<1>4. ASSUME archives = <<>> PROVE Raw = <<>>
  <2>1. RecordsOf(archives) = <<>>
    BY <1>4 DEF RecordsOf
  <2> QED
    BY <1>1, <2>1, FlattenOfNone
<1> QED
  BY <1>3, <1>4

\* A new archive comes behind the others with all that the log held.
LEMMA RawWithNewArchive ==
    ASSUME FilesTyped, NEW a \in Archiver, archives' = Append(archives, [by |-> a, records |-> log])
    PROVE  archives' \in Seq(Archive) /\ Raw' = Raw \o log
<1> DEFINE new == [by |-> a, records |-> log]
<1>1. new \in Archive /\ archives \in Seq(Archive) /\ log \in Seq(Record)
  BY DEF FilesTyped, Archive
<1>2. /\ archives' \in Seq(Archive) /\ Len(archives') = Len(archives) + 1
      /\ \A i \in 1 .. Len(archives) : archives'[i] = archives[i]
      /\ archives'[Len(archives) + 1] = new
  BY <1>1, AppendProperties
<1>3. RecordsOf(archives') = Append(RecordsOf(archives), log)
  <2>1. /\ RecordsOf(archives) \in SeqsOver(Record) /\ Len(RecordsOf(archives)) = Len(archives)
        /\ \A i \in 1 .. Len(archives) : RecordsOf(archives)[i] = archives[i].records
    BY <1>1, RecordsOfArchives
  <2>2. /\ RecordsOf(archives') \in SeqsOver(Record) /\ Len(RecordsOf(archives')) = Len(archives')
        /\ \A i \in 1 .. Len(archives') : RecordsOf(archives')[i] = archives'[i].records
    BY <1>2, RecordsOfArchives
  <2> DEFINE t == Append(RecordsOf(archives), log)
             r == RecordsOf(archives')
  <2>3. /\ t \in Seq(Seq(Record)) /\ Len(t) = Len(archives) + 1
        /\ \A i \in 1 .. Len(archives) : t[i] = RecordsOf(archives)[i]
        /\ t[Len(archives) + 1] = log
    BY <1>1, <2>1, AppendProperties DEF SeqsOver
  <2> HIDE DEF t, r
  <2>4. ASSUME NEW i \in 1 .. Len(r) PROVE r[i] = t[i]
    <3>1. CASE i \in 1 .. Len(archives)
      BY <1>2, <2>1, <2>2, <2>3, <3>1 DEF r
    <3>2. CASE i = Len(archives) + 1
      BY <1>1, <1>2, <2>2, <2>3, <3>2 DEF r
    <3> QED
      BY <1>1, <1>2, <2>2, <3>1, <3>2 DEF r
  <2>5. r \in Seq(Seq(Record)) /\ Len(r) = Len(t)
    BY <1>2, <2>2, <2>3 DEF r, SeqsOver
  <2>6. r = t
    BY <2>3, <2>4, <2>5, SeqEqual
  <2> QED
    BY <2>6 DEF r, t
<1>4. RecordsOf(archives) \in Seq(Seq(Record))
  BY <1>1, RecordsOfArchives DEF SeqsOver
<1>5. FlattenSeq(Append(RecordsOf(archives), log)) = FlattenSeq(RecordsOf(archives)) \o log
  BY <1>1, <1>4, FlattenAppend
<1> QED
  BY <1>2, <1>3, <1>5 DEF Raw, RecordsOf

\* Pruning takes the records of the oldest archive from the front.
LEMMA RawWithoutOldest ==
    ASSUME FilesTyped, archives # <<>>, archives' = Tail(archives)
    PROVE  /\ archives' \in Seq(Archive) /\ Head(archives) \in Archive
           /\ Raw' \in Seq(Record) /\ Raw = Head(archives).records \o Raw'
           /\ \A i \in DOMAIN archives' :
                i + 1 \in DOMAIN archives /\ archives'[i] = archives[i + 1]
<1>1. archives \in Seq(Archive)
  BY DEF FilesTyped
<1>2. /\ archives' \in Seq(Archive) /\ Len(archives') = Len(archives) - 1
      /\ Head(archives) \in Archive /\ Head(archives) = archives[1] /\ Len(archives) >= 1
      /\ \A i \in 1 .. Len(archives') : archives'[i] = archives[i + 1]
  BY <1>1, HeadTailProperties
<1>3. /\ RecordsOf(archives) \in SeqsOver(Record) /\ Len(RecordsOf(archives)) = Len(archives)
      /\ \A i \in 1 .. Len(archives) : RecordsOf(archives)[i] = archives[i].records
  BY <1>1, RecordsOfArchives
<1>4. /\ RecordsOf(archives') \in SeqsOver(Record) /\ Len(RecordsOf(archives')) = Len(archives')
      /\ \A i \in 1 .. Len(archives') : RecordsOf(archives')[i] = archives'[i].records
  BY <1>2, RecordsOfArchives
<1>5. RecordsOf(archives') = Tail(RecordsOf(archives))
  <2> DEFINE t == Tail(RecordsOf(archives))
             r == RecordsOf(archives')
  <2>1. /\ t \in Seq(Seq(Record)) /\ Len(t) = Len(archives) - 1
        /\ \A i \in 1 .. Len(t) : t[i] = RecordsOf(archives)[i + 1]
    BY <1>2, <1>3, HeadTailProperties DEF SeqsOver
  <2> HIDE DEF t, r
  <2>2. ASSUME NEW i \in 1 .. Len(r) PROVE r[i] = t[i]
    <3>1. i \in 1 .. Len(archives') /\ i \in 1 .. Len(t) /\ i + 1 \in 1 .. Len(archives)
      BY <1>2, <1>4, <2>1 DEF r
    <3> QED
      BY <1>2, <1>3, <1>4, <2>1, <3>1 DEF r
  <2>3. r \in Seq(Seq(Record)) /\ Len(r) = Len(t)
    BY <1>2, <1>4, <2>1 DEF r, SeqsOver
  <2>4. r = t
    BY <2>1, <2>2, <2>3, SeqEqual
  <2> QED
    BY <2>4 DEF r, t
<1>6. RecordsOf(archives) # <<>> /\ RecordsOf(archives)[1] = Head(archives).records
  BY <1>2, <1>3
<1>7. Raw = FlattenSeq(RecordsOf(archives)) /\ Raw' = FlattenSeq(RecordsOf(archives'))
  BY DEF Raw, RecordsOf
<1>8. Raw = Head(archives).records \o Raw'
  BY <1>3, <1>5, <1>6, <1>7, FlattenTail
<1>9. Raw' \in Seq(Record)
  BY <1>4, <1>7, FlattenType DEF SeqsOver
<1>10. \A i \in DOMAIN archives' : i + 1 \in DOMAIN archives /\ archives'[i] = archives[i + 1]
  BY <1>1, <1>2
<1> QED
  BY <1>2, <1>8, <1>9, <1>10

\* Concatenation of records: how it associates, and what is appended stays last.
LEMMA RecordsConcat ==
    /\ \A a, b, c \in Seq(Record) : (a \o b) \o c = a \o (b \o c)
    /\ \A a, b \in Seq(Record) : \A r \in Record : Append(a \o b, r) = a \o Append(b, r)
<1>1. \A a, b, c \in Seq(Record) : (a \o b) \o c = a \o (b \o c)
  BY ConcatAssociative
<1>2. ASSUME NEW a \in Seq(Record), NEW b \in Seq(Record), NEW r \in Record
      PROVE  Append(a \o b, r) = a \o Append(b, r)
  <2>1. a \o b \in Seq(Record) /\ <<r>> \in Seq(Record)
    BY ConcatProperties
  <2>2. Append(a \o b, r) = (a \o b) \o <<r>> /\ Append(b, r) = b \o <<r>>
    BY <2>1, AppendIsConcat
  <2>3. (a \o b) \o <<r>> = a \o (b \o <<r>>)
    BY <1>1, <2>1
  <2> QED
    BY <2>2, <2>3
<1> QED
  BY <1>1, <1>2

\* Who writes into the files.
LEMMA FileSteps ==
    ASSUME StorageInv, [StorageNext]_storageVars
    PROVE  \/ UNCHANGED files
           \/ \E p \in Party : \/ AppendRecord(p) \/ RenameLog(p) \/ WriteSummary(p)
                               \/ PruneArchive(p) \/ RewriteNewestRecords(p)
<1>1. ASSUME NEW s \in Server,
             \/ Log(s) \/ HearDone(s) \/ WorkerExits(s)
             \/ Receive(s) \/ BeginJob(s) \/ IdleTimerFires(s)
      PROVE  UNCHANGED files
  BY <1>1 DEF Log, HearDone, WorkerExits, Receive, BeginJob, IdleTimerFires
<1>2. ASSUME NEW p \in Party, LockStep(p) \/ WithinBudget(p) \/ PruneFails(p) \/ Crash(p)
      PROVE  UNCHANGED files
  BY <1>2 DEF LockStep, Acquire, Reclaim, Clear, GiveUp, Release, RemoveDirectory, WithinBudget,
     PruneFails, Crash
<1>3. CASE UNCHANGED storageVars
  BY <1>3 DEF storageVars
<1> QED
  BY <1>1, <1>2, <1>3, StorageSteps DEF StorageStep

\* What an append, the cut of the log and the rest of the files look like.
LEMMA AppendedRecord ==
    ASSUME StorageInv, NEW p \in Party, AppendRecord(p)
    PROVE  /\ p \in Server
           /\ \/ UNCHANGED <<log, appended>> /\ pc'[p] = "release"
              \/ \E r \in Record : log' = Append(log, r) /\ appended' = Append(appended, r)
                                   /\ pc'[p] = "budget"
<1>1. p \in Server
  BY FailureStorageAssumption DEF StorageInv, StepsTyped, AppendRecord, At, Party, ArchiverSteps
<1>2. chain[p] \in Seq(Record) /\ chain[p] # <<>>
  BY <1>1 DEF StorageInv, StepsTyped, QueueTyped, AppendRecord, At
<1>3. Head(chain[p]) \in Record
  BY <1>2, HeadTailProperties
<1> QED
  BY <1>1, <1>3 DEF AppendRecord, Goto, StorageInv, StepsTyped

\* The calls that archive are those of the script.
LEMMA ArchiversRename ==
    ASSUME StorageInv, NEW p \in Party, RenameLog(p) \/ WriteSummary(p)
    PROVE  p \in Archiver
  BY FailureStorageAssumption
  DEF StorageInv, StepsTyped, RenameLog, WriteSummary, At, Party, ServerSteps

\* A rewrite leaves the newest records of the log, as many as the budget allows.
LEMMA CutOfTheLog ==
    ASSUME StorageInv, NEW p \in Party, RewriteNewestRecords(p)
    PROVE  /\ log' \in Seq(Record) /\ Len(log') = Budget
           /\ \E cut \in Seq(Record) : log = cut \o log'
<1> DEFINE k == Len(log) - Budget
<1>1. log \in Seq(Record) /\ Len(log) \in Nat /\ Budget \in Nat /\ Budget > 0
  BY FailureStorageAssumption DEF StorageInv, FilesTyped
<1>2. Raw = <<>> /\ Len(log) > Budget
  <2>1. Raw = <<>> /\ Total > Budget
    BY RawIsASequence DEF StorageInv, RewriteNewestRecords
  <2> QED
    BY <1>1, <2>1 DEF Total
<1>3. log' = SubSeq(log, k + 1, Len(log)) /\ k \in 1 .. Len(log) /\ k + 1 \in 1 .. Len(log)
  BY <1>1, <1>2 DEF RewriteNewestRecords
<1> HIDE DEF k
<1>4. log' \in Seq(Record) /\ Len(log') = (Len(log) - (k + 1)) + 1
  BY <1>1, <1>3, SubSeqProperties
<1>5. SubSeq(log, 1, k) \in Seq(Record)
  BY <1>1, <1>3, SubSeqProperties
<1>6. SubSeq(log, 1, k) \o SubSeq(log, k + 1, Len(log)) = SubSeq(log, 1, Len(log))
  BY <1>1, <1>3, ConcatAdjacentSubSeq
<1>7. log = SubSeq(log, 1, k) \o log'
  BY <1>1, <1>3, <1>6, SubSeqFull
<1>8. Len(log') = Budget
  BY <1>1, <1>4 DEF k
<1> QED
  BY <1>4, <1>5, <1>7, <1>8

\* The files hold records and archives of them.
LEMMA FilesStep ==
    StorageInv /\ [StorageNext]_storageVars => FilesTyped'
<1> SUFFICES ASSUME StorageInv, [StorageNext]_storageVars PROVE FilesTyped'
  OBVIOUS
<1> USE DEF StorageInv, FilesTyped
<1>1. ASSUME NEW p \in Party, AppendRecord(p) PROVE FilesTyped'
  <2>1. UNCHANGED <<archives, summaries, pruned>>
    BY <1>1 DEF AppendRecord
  <2>2. ASSUME NEW r \in Record, log' = Append(log, r), appended' = Append(appended, r)
        PROVE  log' \in Seq(Record) /\ appended' \in Seq(Record)
    BY <2>2, AppendProperties
  <2>3. log' \in Seq(Record) /\ appended' \in Seq(Record)
    BY <1>1, <2>2, AppendedRecord
  <2> QED
    BY <2>1, <2>3
<1>2. ASSUME NEW p \in Party, RenameLog(p) PROVE FilesTyped'
  <2>1. CASE UNCHANGED <<log, archives>>
    BY <1>2, <2>1 DEF RenameLog
  <2>2. CASE archives' = Append(archives, [by |-> p, records |-> log]) /\ log' = <<>>
    <3>1. archives' = Append(archives, [by |-> p, records |-> log]) /\ log' = <<>>
          /\ UNCHANGED <<summaries, appended, pruned>>
      BY <1>2, <2>2 DEF RenameLog
    <3>2. archives' \in Seq(Archive)
      BY <1>2, <3>1, ArchiversRename, RawWithNewArchive
    <3> QED
      BY <3>1, <3>2
  <2> QED
    BY <1>2, <2>1, <2>2 DEF RenameLog
<1>3. ASSUME NEW p \in Party, WriteSummary(p) PROVE FilesTyped'
  BY <1>3, ArchiversRename DEF WriteSummary
<1>4. ASSUME NEW p \in Party, PruneArchive(p) PROVE FilesTyped'
  <2>1. /\ archives # <<>> /\ archives' = Tail(archives)
        /\ pruned' = pruned \cup {Head(archives).by}
        /\ UNCHANGED <<log, summaries, appended>>
    BY <1>4 DEF PruneArchive
  <2>2. archives' \in Seq(Archive) /\ Head(archives) \in Archive
    BY <2>1, RawWithoutOldest
  <2>3. Head(archives).by \in Archiver
    BY <2>2 DEF Archive
  <2> QED
    BY <2>1, <2>2, <2>3
<1>5. ASSUME NEW p \in Party, RewriteNewestRecords(p) PROVE FilesTyped'
  <2>1. log' \in Seq(Record)
    BY <1>5, CutOfTheLog
  <2> QED
    BY <1>5, <2>1 DEF RewriteNewestRecords
<1>6. CASE UNCHANGED files
  BY <1>6 DEF files
<1> QED
  BY <1>1, <1>2, <1>3, <1>4, <1>5, <1>6, FileSteps

\* Nothing but what is oldest goes, and what comes is the newest.
LEMMA NewestStep ==
    StorageInv /\ [StorageNext]_storageVars => NewestAreKept'
<1> SUFFICES ASSUME StorageInv, [StorageNext]_storageVars PROVE NewestAreKept'
  OBVIOUS
<1>1. PICK old \in Seq(Record) : appended = old \o (Raw \o log)
  BY DEF StorageInv, NewestAreKept
<1>2. Raw \in Seq(Record) /\ log \in Seq(Record)
  BY RawIsASequence DEF StorageInv, FilesTyped
<1>3. ASSUME NEW p \in Party, AppendRecord(p) PROVE NewestAreKept'
  <2>1. Raw' = Raw
    BY <1>3 DEF AppendRecord, Raw
  <2>2. CASE UNCHANGED <<log, appended>>
    BY <1>1, <2>1, <2>2 DEF NewestAreKept
  <2>3. ASSUME NEW r \in Record, log' = Append(log, r), appended' = Append(appended, r)
        PROVE  NewestAreKept'
    <3>1. Append(Raw \o log, r) = Raw \o log'
      BY <1>2, <2>3, RecordsConcat, Zenon
    <3>2. Raw \o log \in Seq(Record)
      BY <1>2, ConcatProperties
    <3>3. Append(old \o (Raw \o log), r) = old \o Append(Raw \o log, r)
      BY <3>2, RecordsConcat, Zenon
    <3>4. appended' = old \o (Raw' \o log')
      BY <1>1, <2>1, <2>3, <3>1, <3>3
    <3> QED
      BY <3>4 DEF NewestAreKept
  <2> QED
    BY <1>3, <2>2, <2>3, AppendedRecord
<1>4. ASSUME NEW p \in Party, RenameLog(p) PROVE NewestAreKept'
  <2>1. CASE UNCHANGED <<log, archives>>
    BY <1>1, <1>4, <2>1 DEF RenameLog, NewestAreKept, Raw
  <2>2. CASE archives' = Append(archives, [by |-> p, records |-> log]) /\ log' = <<>>
    <3>1. archives' = Append(archives, [by |-> p, records |-> log]) /\ log' = <<>>
          /\ appended' = appended
      BY <1>4, <2>2 DEF RenameLog
    <3>2. Raw' = Raw \o log
      BY <1>4, <3>1, ArchiversRename, RawWithNewArchive DEF StorageInv
    <3>3. Raw' \o log' = Raw'
      BY <1>2, <3>1, <3>2, ConcatProperties, ConcatEmptySeq
    <3> QED
      BY <1>1, <3>1, <3>2, <3>3 DEF NewestAreKept
  <2> QED
    BY <1>4, <2>1, <2>2 DEF RenameLog
<1>5. ASSUME NEW p \in Party, WriteSummary(p) PROVE NewestAreKept'
  BY <1>1, <1>5 DEF WriteSummary, NewestAreKept, Raw
<1>6. ASSUME NEW p \in Party, PruneArchive(p) PROVE NewestAreKept'
  <2> DEFINE h == Head(archives).records
  <2>1. archives # <<>> /\ archives' = Tail(archives) /\ UNCHANGED <<log, appended>>
    BY <1>6 DEF PruneArchive
  <2>2. /\ Raw' \in Seq(Record) /\ Raw = h \o Raw' /\ Head(archives) \in Archive
    BY <2>1, RawWithoutOldest DEF StorageInv
  <2>3. h \in Seq(Record)
    BY <2>2 DEF Archive
  <2> HIDE DEF h
  <2>4. log \in Seq(Record) /\ old \in Seq(Record)
    BY <1>1, <1>2
  <2>5. (h \o Raw') \o log = h \o (Raw' \o log)
    BY <2>2, <2>3, <2>4, RecordsConcat, Zenon
  <2>6. Raw' \o log \in Seq(Record) /\ old \o h \in Seq(Record)
    <3>1. \A a, b \in Seq(Record) : a \o b \in Seq(Record)
      BY ConcatProperties
    <3> QED
      BY <2>2, <2>3, <2>4, <3>1, Zenon
  <2>7. old \o (h \o (Raw' \o log)) = (old \o h) \o (Raw' \o log)
    BY <2>3, <2>6, RecordsConcat, Zenon
  <2>8. appended' = (old \o h) \o (Raw' \o log')
    BY <1>1, <2>1, <2>2, <2>5, <2>7
  <2> QED
    BY <2>6, <2>8 DEF NewestAreKept
<1>7. ASSUME NEW p \in Party, RewriteNewestRecords(p) PROVE NewestAreKept'
  <2>1. Raw = <<>> /\ Raw' = <<>> /\ appended' = appended
    BY <1>7, RawIsASequence DEF StorageInv, RewriteNewestRecords, Raw
  <2>2. PICK cut \in Seq(Record) : log = cut \o log'
    BY <1>7, CutOfTheLog
  <2>3. log' \in Seq(Record)
    BY <1>7, CutOfTheLog
  <2>4. Raw \o log = log /\ Raw' \o log' = log'
    BY <1>2, <2>1, <2>3, ConcatEmptySeq
  <2>5. old \o (cut \o log') = (old \o cut) \o log' /\ old \o cut \in Seq(Record)
    BY <2>3, ConcatAssociative, ConcatProperties
  <2>6. appended' = (old \o cut) \o (Raw' \o log')
    BY <1>1, <2>1, <2>2, <2>4, <2>5
  <2> QED
    BY <2>5, <2>6 DEF NewestAreKept
<1>8. CASE UNCHANGED files
  BY <1>1, <1>8 DEF NewestAreKept, files, Raw
<1> QED
  BY <1>3, <1>4, <1>5, <1>6, <1>7, <1>8, FileSteps
-----------------------------------------------------------------------------
(***************************************************************************)
(* The budget.                                                             *)
(***************************************************************************)
LEMMA AloneInSection ==
    ASSUME SectionIsLocked, NEW p \in alive, pc[p] \in Inside
    PROVE  \A q \in alive : pc[q] \in Inside => q = p
  BY DEF SectionIsLocked

TotalIsNumber ==
    Len(Raw) \in Nat /\ Len(log) \in Nat /\ Total \in Nat /\ Total = Len(Raw) + Len(log)

\* What is counted against the budget is a number.
LEMMA LengthsAreNumbers == FilesTyped => TotalIsNumber
<1> SUFFICES ASSUME FilesTyped PROVE TotalIsNumber
  OBVIOUS
<1>1. Raw \in Seq(Record) /\ log \in Seq(Record)
  BY RawIsASequence DEF FilesTyped
<1> QED
  BY <1>1, LenProperties DEF Total, TotalIsNumber

\* Who is on its way to the budget stays on it, and nobody else writes.
LEMMA StillOwed ==
    ASSUME StorageInv, Total' <= Total, Total' \in Nat, UNCHANGED <<alive, overdue>>,
           \A q \in Party : pc[q] = "budget" => pc'[q] = "budget"
    PROVE  BudgetIsOwed'
<1>1. Enforcing \subseteq Enforcing'
  BY DEF Enforcing, StorageInv, SectionIsLocked
<1>2. Total \in Nat /\ overdue \in Nat /\ Budget \in Nat
  BY LengthsAreNumbers, FailureStorageAssumption
  DEF StorageInv, TotalIsNumber, BudgetIsOwed
<1>3. Total <= Budget + overdue + (IF Enforcing = {} THEN 0 ELSE 1)
  BY DEF StorageInv, BudgetIsOwed
<1>4. Total' <= Budget + overdue + (IF Enforcing' = {} THEN 0 ELSE 1)
  BY <1>1, <1>2, <1>3
<1> QED
  BY <1>2, <1>4 DEF BudgetIsOwed

\* A prune that does not end leaves what its worker owed: one record, if there is too much.
LEMMA PruneLeft ==
    ASSUME StorageInv, NEW p \in alive, overdue' = overdue + Excess(p), Total' = Total,
           Enforcing' = Enforcing \ {p}
    PROVE  BudgetIsOwed'
<1>1. Total \in Nat /\ overdue \in Nat /\ Budget \in Nat
  BY LengthsAreNumbers, FailureStorageAssumption
  DEF StorageInv, TotalIsNumber, BudgetIsOwed
<1>2. Total <= Budget + overdue + (IF Enforcing = {} THEN 0 ELSE 1)
  BY DEF StorageInv, BudgetIsOwed
<1>3. CASE p \in Enforcing
  <2>1. Enforcing' = {}
    BY <1>3, AloneInSection DEF StorageInv, Enforcing, Inside
  <2>2. Excess(p) = IF Total > Budget THEN 1 ELSE 0
    BY <1>3 DEF Excess, Enforcing
  <2>3. Total <= Budget + overdue + 1
    BY <1>1, <1>2
  <2>4. overdue' \in Nat /\ Total <= Budget + overdue'
    BY <1>1, <2>2, <2>3
  <2> QED
    BY <1>1, <2>1, <2>4 DEF BudgetIsOwed
<1>4. CASE p \notin Enforcing
  <2>1. Excess(p) = 0 /\ Enforcing' = Enforcing
    BY <1>4 DEF Excess, Enforcing
  <2>2. overdue' = overdue
    BY <1>1, <2>1
  <2> QED
    BY <1>1, <1>2, <2>1, <2>2 DEF BudgetIsOwed
<1> QED
  BY <1>3, <1>4

\* A record too many is owed by the worker in front of the budget, or by one whose prune did
\* not end.
LEMMA BudgetStep ==
    StorageInv /\ [StorageNext]_storageVars => BudgetIsOwed'
<1> SUFFICES ASSUME StorageInv, [StorageNext]_storageVars PROVE BudgetIsOwed'
  OBVIOUS
<1>1. /\ SectionIsLocked /\ FilesTyped /\ FilesTyped' /\ alive \subseteq Party
      /\ pc \in [Party -> ServerSteps \cup ArchiverSteps]
  BY FilesStep DEF StorageInv, SectionIsLocked, StepsTyped
<1>2. TotalIsNumber /\ TotalIsNumber'
  BY <1>1, LengthsAreNumbers, PTL
<1>3. /\ Total \in Nat /\ Total' \in Nat /\ Total = Len(Raw) + Len(log)
      /\ Total' = Len(Raw)' + Len(log)' /\ Len(Raw) \in Nat /\ Len(log) \in Nat
      /\ Len(Raw)' \in Nat /\ Len(log)' \in Nat
  BY <1>2 DEF TotalIsNumber
<1>4. Budget \in Nat /\ Budget > 0
  BY FailureStorageAssumption
<1>5. ASSUME UNCHANGED <<log, archives>> PROVE Total' = Total
  BY <1>5 DEF Total, Raw
<1>6. ASSUME NEW s \in Server, \/ Log(s) \/ HearDone(s) \/ WorkerExits(s)
                               \/ Receive(s) \/ IdleTimerFires(s)
      PROVE  BudgetIsOwed'
  <2>1. UNCHANGED <<log, archives, pc, alive, overdue>>
    BY <1>6 DEF Log, HearDone, WorkerExits, Receive, IdleTimerFires, files, troubles
  <2> QED
    BY <1>3, <1>5, <2>1, StillOwed
<1>7. ASSUME NEW s \in Server, BeginJob(s) PROVE BudgetIsOwed'
  <2>1. UNCHANGED <<log, archives, alive, overdue>> /\ s \in alive /\ pc[s] # "budget"
        /\ \A q \in Party : q # s => pc'[q] = pc[q]
    BY <1>1, <1>7 DEF BeginJob, At, Goto, files, troubles
  <2> QED
    BY <1>3, <1>5, <2>1, StillOwed
<1>8. ASSUME NEW p \in Party, LockStep(p) PROVE BudgetIsOwed'
  <2>1. UNCHANGED <<log, archives, alive, overdue>> /\ p \in alive /\ pc[p] # "budget"
    BY <1>8 DEF LockStep, Acquire, Reclaim, Clear, GiveUp, Release, RemoveDirectory, At, files,
       troubles
  <2>2. \A q \in Party : q # p => pc'[q] = pc[q]
    BY <1>1, <1>8 DEF LockStep, Acquire, Reclaim, Clear, GiveUp, Release, RemoveDirectory, Goto,
       EndJob
  <2> QED
    BY <1>3, <1>5, <2>1, <2>2, StillOwed
<1>9. ASSUME NEW p \in Party, AppendRecord(p) PROVE BudgetIsOwed'
  <2>1. p \in alive /\ pc[p] = "append" /\ UNCHANGED <<alive, overdue>> /\ Raw' = Raw
        /\ \A q \in Party : q # p => pc'[q] = pc[q]
    BY <1>1, <1>9 DEF AppendRecord, At, Goto, Raw, troubles
  <2>2. CASE UNCHANGED <<log, appended>>
    <3>1. Total' = Total
      BY <1>5, <1>9, <2>2 DEF AppendRecord
    <3> QED
      BY <1>3, <2>1, <3>1, StillOwed
  <2>3. ASSUME NEW r \in Record, log' = Append(log, r), pc'[p] = "budget" PROVE BudgetIsOwed'
    <3>1. log \in Seq(Record)
      BY <1>1 DEF FilesTyped
    <3>2. Len(log') = Len(log) + 1
      BY <2>3, <3>1, AppendProperties
    <3>3. Total' = Total + 1
      BY <1>3, <2>1, <3>2
    <3>4. Enforcing = {}
      BY <1>1, <2>1, AloneInSection DEF Enforcing, Inside
    <3>5. p \in Enforcing'
      BY <1>9, <2>1, <2>3, AppendedRecord DEF Enforcing
    <3>6. Total <= Budget + overdue /\ overdue \in Nat
      BY <1>3, <1>4, <3>4 DEF StorageInv, BudgetIsOwed
    <3>7. Total' <= Budget + overdue + 1
      BY <1>3, <1>4, <3>3, <3>6
    <3> QED
      BY <2>1, <3>5, <3>6, <3>7 DEF BudgetIsOwed
  <2> QED
    BY <1>9, <2>2, <2>3, AppendedRecord
<1>10. ASSUME NEW p \in Party, RenameLog(p) PROVE BudgetIsOwed'
  <2>1. p \in alive /\ pc[p] = "rename" /\ UNCHANGED <<alive, overdue>>
        /\ \A q \in Party : q # p => pc'[q] = pc[q]
    BY <1>1, <1>10 DEF RenameLog, At, Goto, troubles
  <2>2. CASE UNCHANGED <<log, archives>>
    <3>1. Total' = Total
      BY <1>5, <2>2
    <3> QED
      BY <1>3, <2>1, <3>1, StillOwed
  <2>3. CASE archives' = Append(archives, [by |-> p, records |-> log]) /\ log' = <<>>
    <3>1. Raw' = Raw \o log
      BY <1>1, <1>10, <2>3, ArchiversRename, RawWithNewArchive
    <3>2. Raw \in Seq(Record) /\ log \in Seq(Record)
      BY <1>1, RawIsASequence DEF FilesTyped
    <3>3. Len(Raw)' = Len(Raw) + Len(log) /\ Len(log)' = 0
      BY <2>3, <3>1, <3>2, ConcatProperties
    <3>4. Total' = Total
      BY <1>3, <3>3
    <3> QED
      BY <1>3, <2>1, <3>4, StillOwed
  <2> QED
    BY <1>10, <2>2, <2>3 DEF RenameLog
<1>11. ASSUME NEW p \in Party, WriteSummary(p) PROVE BudgetIsOwed'
  <2>1. UNCHANGED <<log, archives, alive, overdue>> /\ p \in alive /\ pc[p] = "summary"
        /\ \A q \in Party : q # p => pc'[q] = pc[q]
    BY <1>1, <1>11 DEF WriteSummary, At, Goto
  <2> QED
    BY <1>3, <1>5, <2>1, StillOwed
<1>12. ASSUME NEW p \in Party, PruneArchive(p) PROVE BudgetIsOwed'
  <2>1. archives # <<>> /\ archives' = Tail(archives) /\ UNCHANGED <<log, pc, alive, overdue>>
    BY <1>12 DEF PruneArchive, troubles
  <2>2. Raw' \in Seq(Record) /\ Raw = Head(archives).records \o Raw' /\ Head(archives) \in Archive
    BY <1>1, <2>1, RawWithoutOldest
  <2>3. Head(archives).records \in Seq(Record)
    BY <2>2 DEF Archive
  <2>4. Len(Raw) = Len(Head(archives).records) + Len(Raw') /\ Len(Head(archives).records) \in Nat
    BY <2>2, <2>3, ConcatProperties, LenProperties
  <2>5. Total' <= Total
    BY <1>3, <2>1, <2>4
  <2> QED
    BY <1>3, <2>1, <2>5, StillOwed
<1>13. ASSUME Total' <= Budget, overdue' = 0 PROVE BudgetIsOwed'
  BY <1>3, <1>4, <1>13 DEF BudgetIsOwed
<1>14. ASSUME NEW p \in Party, RewriteNewestRecords(p) PROVE BudgetIsOwed'
  <2>1. Raw' = <<>> /\ Len(log') = Budget
    BY <1>1, <1>14, RawIsASequence, CutOfTheLog DEF RewriteNewestRecords, Raw
  <2>2. Total' <= Budget
    BY <1>3, <1>4, <2>1
  <2> QED
    BY <1>13, <1>14, <2>2 DEF RewriteNewestRecords
<1>15. ASSUME NEW p \in Party, WithinBudget(p) PROVE BudgetIsOwed'
  <2>1. Total' <= Budget
    BY <1>5, <1>15 DEF WithinBudget, files
  <2> QED
    BY <1>13, <1>15, <2>1 DEF WithinBudget
<1>16. ASSUME NEW p \in Party, Crash(p) \/ PruneFails(p) PROVE BudgetIsOwed'
  <2>1. p \in alive /\ overdue' = overdue + Excess(p) /\ UNCHANGED <<log, archives>>
    BY <1>16 DEF Crash, PruneFails, At, files
  <2>2. Enforcing' = Enforcing \ {p}
    <3>1. CASE Crash(p)
      BY <3>1 DEF Crash, Enforcing
    <3>2. CASE PruneFails(p)
      BY <1>1, <3>2 DEF PruneFails, Goto, Enforcing
    <3> QED
      BY <1>16, <3>1, <3>2
  <2> QED
    BY <1>5, <2>1, <2>2, PruneLeft
<1>17. CASE UNCHANGED storageVars
  <2>1. UNCHANGED <<log, archives, pc, alive, overdue>>
    BY <1>17 DEF storageVars, files, troubles
  <2> QED
    BY <1>3, <1>5, <2>1, StillOwed
<1> QED
  BY <1>6, <1>7, <1>8, <1>9, <1>10, <1>11, <1>12, <1>14, <1>15, <1>16, <1>17, StorageSteps
  DEF StorageStep
-----------------------------------------------------------------------------
(***************************************************************************)
(* The summaries.                                                          *)
(***************************************************************************)
\* Who failed stays failed, who died stays dead, and a summary is not left but written.
LEMMA ArchiversOnlyAge ==
    ASSUME StorageInv, [StorageNext]_storageVars
    PROVE  /\ summaries \subseteq summaries' /\ failed \subseteq failed' /\ alive' \subseteq alive
           /\ \A a \in Archiver : pc[a] = "summary"
                => pc'[a] = "summary" \/ a \in summaries' \/ a \in failed'
<1>1. pc \in [Party -> ServerSteps \cup ArchiverSteps] /\ Archiver \subseteq Party
  BY DEF StorageInv, StepsTyped, Party
<1>2. ASSUME NEW s \in Server, \/ Log(s) \/ HearDone(s) \/ WorkerExits(s)
                               \/ Receive(s) \/ IdleTimerFires(s)
      PROVE  UNCHANGED <<summaries, failed, alive, pc>>
  BY <1>2 DEF Log, HearDone, WorkerExits, Receive, IdleTimerFires, files, troubles
<1>3. ASSUME NEW s \in Server, BeginJob(s)
      PROVE  /\ UNCHANGED <<summaries, failed, alive>>
             /\ \A a \in Archiver : pc[a] = "summary" => pc'[a] = "summary"
  BY <1>1, <1>3, FailureStorageAssumption DEF BeginJob, At, Goto, files, troubles
<1>4. ASSUME NEW p \in Party, LockStep(p)
      PROVE  /\ UNCHANGED <<summaries, failed, alive>>
             /\ \A a \in Archiver : pc[a] = "summary" => pc'[a] = "summary"
  <2>1. UNCHANGED <<summaries, failed, alive>> /\ pc[p] # "summary"
    BY <1>4 DEF LockStep, Acquire, Reclaim, Clear, GiveUp, Release, RemoveDirectory, At, files,
       troubles
  <2>2. \A q \in Party : q # p => pc'[q] = pc[q]
    BY <1>1, <1>4 DEF LockStep, Acquire, Reclaim, Clear, GiveUp, Release, RemoveDirectory, Goto,
       EndJob
  <2> QED
    BY <1>1, <2>1, <2>2
<1>5. ASSUME NEW p \in Party,
             \/ AppendRecord(p) \/ RenameLog(p)
             \/ RewriteNewestRecords(p) \/ WithinBudget(p) \/ PruneFails(p)
      PROVE  /\ UNCHANGED <<summaries, failed, alive>>
             /\ \A a \in Archiver : pc[a] = "summary" => pc'[a] = "summary"
  BY <1>1, <1>5 DEF AppendRecord, RenameLog, RewriteNewestRecords, WithinBudget, PruneFails, At,
     Goto, files, troubles
<1>6. ASSUME NEW p \in Party, PruneArchive(p) \/ Crash(p)
      PROVE  UNCHANGED <<summaries, failed, pc>> /\ alive' \subseteq alive
  BY <1>6 DEF PruneArchive, Crash, files, troubles
<1>7. ASSUME NEW p \in Party, WriteSummary(p)
      PROVE  /\ summaries \subseteq summaries' /\ failed \subseteq failed' /\ alive' = alive
             /\ \A a \in Archiver : pc[a] = "summary"
                  => pc'[a] = "summary" \/ a \in summaries' \/ a \in failed'
  <2>1. p \in Archiver /\ p \notin Server
    BY <1>7, ArchiversRename, FailureStorageAssumption
  <2>2. /\ summaries \subseteq summaries' /\ failed \subseteq failed' /\ alive' = alive
        /\ p \in summaries' \/ p \in failed'
    BY <1>7, <2>1 DEF WriteSummary
  <2>3. \A q \in Party : q # p => pc'[q] = pc[q]
    BY <1>1, <1>7 DEF WriteSummary, Goto
  <2> QED
    BY <1>1, <2>2, <2>3
<1>8. CASE UNCHANGED storageVars
  BY <1>8 DEF storageVars, files, troubles
<1> QED
  BY <1>2, <1>3, <1>4, <1>5, <1>6, <1>7, <1>8, StorageSteps DEF StorageStep

Made(a) == (\E i \in DOMAIN archives : archives[i].by = a) \/ a \in pruned

\* An archive appears behind a rename, at the step that writes its summary.
LEMMA SummariesStep ==
    StorageInv /\ [StorageNext]_storageVars => ArchivesAreSummarized'
<1> SUFFICES ASSUME StorageInv, [StorageNext]_storageVars PROVE ArchivesAreSummarized'
  OBVIOUS
<1>1. ArchivesAreSummarized /\ FilesTyped
  BY DEF StorageInv
<1>2. ASSUME \A a \in Archiver : Made(a)' => Made(a) \/ pc'[a] = "summary"
      PROVE  ArchivesAreSummarized'
  BY <1>1, <1>2, ArchiversOnlyAge DEF ArchivesAreSummarized, Made
<1>3. ASSUME NEW p \in Party, RenameLog(p) PROVE ArchivesAreSummarized'
  <2>1. CASE UNCHANGED archives
    BY <1>2, <1>3, <2>1 DEF RenameLog, Made
  <2>2. CASE archives' = Append(archives, [by |-> p, records |-> log]) /\ Goto(p, "summary")
    <3>1. /\ archives' = Append(archives, [by |-> p, records |-> log]) /\ pruned' = pruned
          /\ pc' = [pc EXCEPT ![p] = "summary"]
      BY <1>3, <2>2 DEF RenameLog, Goto
    <3>2. pc'[p] = "summary"
      BY <3>1 DEF StorageInv, StepsTyped
    <3>3. ASSUME NEW i \in DOMAIN archives'
          PROVE  archives'[i].by = p \/ (i \in DOMAIN archives /\ archives'[i] = archives[i])
      <4>1. [by |-> p, records |-> log] \in Archive /\ archives \in Seq(Archive)
        BY <1>1, <1>3, ArchiversRename DEF FilesTyped, Archive
      <4>2. /\ Len(archives') = Len(archives) + 1 /\ archives' \in Seq(Archive)
            /\ \A j \in 1 .. Len(archives) : archives'[j] = archives[j]
            /\ archives'[Len(archives) + 1] = [by |-> p, records |-> log]
        BY <3>1, <4>1, AppendProperties
      <4>3. DOMAIN archives' = 1 .. Len(archives') /\ DOMAIN archives = 1 .. Len(archives)
            /\ Len(archives) \in Nat
        BY <4>1, <4>2, LenProperties
      <4> QED
        BY <4>2, <4>3
    <3>4. \A a \in Archiver : Made(a)' => Made(a) \/ a = p
      BY <3>1, <3>3 DEF Made
    <3> QED
      BY <1>2, <3>2, <3>4
  <2> QED
    BY <1>3, <2>1, <2>2 DEF RenameLog
<1>4. ASSUME NEW p \in Party, PruneArchive(p) PROVE ArchivesAreSummarized'
  <2>1. /\ archives # <<>> /\ archives' = Tail(archives)
        /\ pruned' = pruned \cup {Head(archives).by}
    BY <1>4 DEF PruneArchive
  <2>2. \A i \in DOMAIN archives' : i + 1 \in DOMAIN archives /\ archives'[i] = archives[i + 1]
    BY <1>1, <2>1, RawWithoutOldest
  <2>3. 1 \in DOMAIN archives /\ Head(archives) = archives[1]
    BY <1>1, <2>1 DEF FilesTyped
  <2>4. \A a \in Archiver : Made(a)' => Made(a)
    BY <2>1, <2>2, <2>3 DEF Made
  <2> QED
    BY <1>2, <2>4
<1>5. ASSUME NEW p \in Party, AppendRecord(p) \/ WriteSummary(p) \/ RewriteNewestRecords(p)
      PROVE  ArchivesAreSummarized'
  <2>1. UNCHANGED <<archives, pruned>>
    BY <1>5 DEF AppendRecord, WriteSummary, RewriteNewestRecords
  <2> QED
    BY <1>2, <2>1 DEF Made
<1>6. CASE UNCHANGED files
  BY <1>2, <1>6 DEF Made, files
<1> QED
  BY <1>3, <1>4, <1>5, <1>6, FileSteps

\* Who prunes is alone in the section, so no living call is about to write the summary of
\* the archive that goes.
LEMMA PrunedStep ==
    StorageInv /\ [StorageNext]_storageVars => OnlyFailedArchivesLackSummaries'
<1> SUFFICES ASSUME StorageInv, [StorageNext]_storageVars PROVE OnlyFailedArchivesLackSummaries'
  OBVIOUS
<1>1. ASSUME NEW a \in pruned', a \in pruned
      PROVE  a \in summaries' \/ a \notin alive' \/ a \in failed'
  BY <1>1, ArchiversOnlyAge DEF StorageInv, OnlyFailedArchivesLackSummaries
<1>2. ASSUME NEW p \in Party, PruneArchive(p) PROVE OnlyFailedArchivesLackSummaries'
  <2>1. /\ archives # <<>> /\ p \in alive /\ pc[p] = "budget"
        /\ pruned' = pruned \cup {Head(archives).by} /\ UNCHANGED <<summaries, failed, alive>>
    BY <1>2 DEF PruneArchive, At, troubles
  <2> DEFINE a == Head(archives).by
  <2>2. 1 \in DOMAIN archives /\ archives[1].by = a /\ a \in Archiver
    <3>1. archives \in Seq(Archive)
      BY DEF StorageInv, FilesTyped
    <3>2. 1 \in DOMAIN archives /\ Head(archives) = archives[1] /\ Head(archives) \in Archive
      BY <2>1, <3>1, HeadTailProperties
    <3> QED
      BY <3>2 DEF Archive
  <2> HIDE DEF a
  <2>3. a \in summaries \/ a \notin alive \/ a \in failed \/ pc[a] = "summary"
    BY <2>2 DEF StorageInv, ArchivesAreSummarized
  <2>4. a \in alive => pc[a] # "summary"
    BY <2>1, AloneInSection DEF StorageInv, Inside
  <2>5. a \in summaries' \/ a \notin alive' \/ a \in failed'
    BY <2>1, <2>3, <2>4
  <2> QED
    BY <1>1, <2>1, <2>5 DEF OnlyFailedArchivesLackSummaries, a
<1>3. ASSUME pruned' = pruned PROVE OnlyFailedArchivesLackSummaries'
  BY <1>1, <1>3 DEF OnlyFailedArchivesLackSummaries
<1>4. ASSUME NEW p \in Party,
             AppendRecord(p) \/ RenameLog(p) \/ WriteSummary(p) \/ RewriteNewestRecords(p)
      PROVE  pruned' = pruned
  BY <1>4 DEF AppendRecord, RenameLog, WriteSummary, RewriteNewestRecords
<1> QED
  BY <1>2, <1>3, <1>4, FileSteps DEF files

-----------------------------------------------------------------------------
(***************************************************************************)
(* The theorems.                                                           *)
(***************************************************************************)
LEMMA StorageInvInitially == StorageInit => StorageInv
<1> SUFFICES ASSUME StorageInit PROVE StorageInv
  OBVIOUS
<1> USE FailureStorageAssumption DEF StorageInit
<1>1. QueueTyped
  BY EmptySeq DEF QueueTyped
<1>2. StepsTyped
  BY DEF StepsTyped, ServerSteps, ArchiverSteps, Party
<1>3. SectionIsLocked
  BY DEF SectionIsLocked, Inside
<1>4. FilesTyped
  BY EmptySeq DEF FilesTyped
<1>5. Raw = <<>> /\ Len(Raw) = 0 /\ Len(log) = 0
  BY <1>4, RawIsASequence
<1>6. NewestAreKept
  <2>1. <<>> \in Seq(Record) /\ appended = <<>> \o (Raw \o log)
    BY <1>5, EmptySeq
  <2> QED
    BY <2>1 DEF NewestAreKept
<1>7. BudgetIsOwed
  BY <1>5 DEF BudgetIsOwed, Total
<1>8. ArchivesAreSummarized /\ OnlyFailedArchivesLackSummaries
  BY DEF ArchivesAreSummarized, OnlyFailedArchivesLackSummaries
<1> QED
  BY <1>1, <1>2, <1>3, <1>4, <1>6, <1>7, <1>8 DEF StorageInv

\* The invariant holds in every behaviour of the failure log (failureLog.ts,
\* failureStorage.ts, failureStorageWorker.ts), whatever fails and whoever dies.
THEOREM StorageInvariance == StorageSpec => []StorageInv
<1>1. StorageInv /\ [StorageNext]_storageVars => StorageInv'
  BY QueueStep, StepsStep, SectionStep, FilesStep, NewestStep, BudgetStep, SummariesStep,
     PrunedStep
  DEF StorageInv
<1> QED
  BY <1>1, StorageInvInitially, PTL DEF StorageSpec

\* The types, with what they say of the counters: a server never counts fewer pending writes
\* than are on their way, and never more than the code's bound (enqueueFailureRecord); who
\* lives in the section has the lock (acquireLock).
THEOREM FailureTypes == StorageSpec => []FailureTypeOK
<1>1. StorageInv => FailureTypeOK
  BY DEF StorageInv, QueueTyped, StepsTyped, SectionIsLocked, FilesTyped, BudgetIsOwed,
     FailureTypeOK
<1> QED
  BY <1>1, StorageInvariance, PTL

\* What is kept is the newest of all that was appended, for any number of servers and
\* archiving calls, whoever dies where (enforceBudget).
THEOREM NewestRecords == StorageSpec => []NewestRecordsAreKept
<1>1. StorageInv => NewestRecordsAreKept
  <2> SUFFICES ASSUME StorageInv PROVE NewestRecordsAreKept
    OBVIOUS
  <2>1. PICK old \in Seq(Record) : appended = old \o (Raw \o log)
    BY DEF StorageInv, NewestAreKept
  <2>2. Raw \o log \in Seq(Record)
    BY RawIsASequence, ConcatProperties DEF StorageInv, FilesTyped
  <2> QED
    BY <2>1, <2>2, SuffixOfConcat DEF NewestRecordsAreKept
<1> QED
  BY <1>1, StorageInvariance, PTL

\* Whatever fails in a prune and whoever dies there, the budget is exceeded by no more than
\* one record for each such append, and by none once a prune has ended (appendFailureRecord,
\* enforceBudget).
THEOREM BudgetIsHeld == StorageSpec => []BudgetHolds
<1>1. StorageInv => BudgetHolds
  <2> SUFFICES ASSUME StorageInv, \A p \in alive : pc[p] # "budget"
               PROVE  Total <= Budget + overdue
    BY DEF BudgetHolds
  <2>1. Enforcing = {}
    BY DEF Enforcing
  <2>2. overdue \in Nat /\ Budget \in Nat /\ Total \in Nat
    BY LengthsAreNumbers, FailureStorageAssumption
    DEF StorageInv, BudgetIsOwed, TotalIsNumber
  <2> QED
    BY <2>1, <2>2 DEF StorageInv, BudgetIsOwed
<1> QED
  BY <1>1, StorageInvariance, PTL

\* README.md, "compact summaries are written before raw pruning": an archive that is pruned
\* without one is that of a call that died or failed (archiveFailureLog).
THEOREM SummariesComeFirst == StorageSpec => []OnlyFailedArchivesLackSummaries
  BY StorageInvariance, PTL DEF StorageInv
=============================================================================
