------------------------- MODULE RunReconciliation -------------------------
(***************************************************************************)
(* What the other server processes make of a run they do not own           *)
(* (getPersistedRunTask and persistedRunLiveness in src/runTask.ts).       *)
(*                                                                         *)
(* The durable claim of a run says working until its owner settles it.  A  *)
(* process that reads a working claim looks for the run's lease, then for  *)
(* its ticket; finding neither twice, the second time under the claim      *)
(* lock, it settles the run itself as restart_drift: its owner is lost.    *)
(* The claims are those of runs without a client_start_id, whose liveness  *)
(* comes from lease and ticket alone.                                      *)
(***************************************************************************)
EXTENDS ActiveChildLease

VARIABLES
    claim,      \* the status in the durable claim of each run
    observing,  \* the run each process reads the claim of, or Free
    look        \* what the observer does next

reconcileVars == <<claim, observing, look>>
allVars == <<vars, reconcileVars>>

Claims == {"none", "working", "terminal", "restart_drift"}

\* Phase one, then the same questions again under the claim lock.
Looks == {"idle", "lease", "ticket", "reread", "leaseAgain", "ticketAgain", "settle"}

ReconciliationInit ==
    /\ Init
    /\ claim = [r \in Runs |-> "none"]
    /\ observing = [s \in Servers |-> Free]
    /\ look = [s \in Servers |-> "idle"]

\* The claim lock of run r is held by an observer in its second phase.
ClaimLocked(r) ==
    \E s \in alive : observing[s] = r /\ look[s] \in {"leaseAgain", "ticketAgain", "settle"}

-----------------------------------------------------------------------------
(* The owner.                                                               *)

RegisterClaim(r) ==
    /\ Register(r)
    /\ claim' = [claim EXCEPT ![r] = "working"]
    /\ UNCHANGED <<observing, look>>

\* A registration may fail behind the rename of its claim, or when the lineage is
\* recorded: nobody takes the claim back.
FailRegistration(r) ==
    /\ RegisterFails(r)
    /\ \/ UNCHANGED claim
       \/ claim[r] = "none" /\ claim' = [claim EXCEPT ![r] = "working"]
    /\ UNCHANGED <<observing, look>>

\* settleRunClaim preserves a terminal claim that another process has written.
SettleClaim(r) ==
    /\ Settle(r) /\ ~ClaimLocked(r)
    /\ claim' = [claim EXCEPT ![r] = IF @ = "working" THEN "terminal" ELSE @]
    /\ UNCHANGED <<observing, look>>

\* Behind a terminal claim the lease is released whatever was thrown.
RefuseSettlement(r) == SettleRefused(r) /\ claim[r] = "working"

OwnerStep ==
    /\ \/ \E r \in Runs :
            \/ Start(r) \/ SerialSectionStep(r) \/ GiveBack(r) \/ Launch(r) \/ Cancel(r)
            \/ CancelEarly(r) \/ Finish(r) \/ ReadTicket(r) \/ UnlinkTicket(r)
            \/ RefuseSettlement(r) \/ ReleaseLease(r)
       \/ \E s \in Servers : PumpStep(s) \/ PumpThrows(s) \/ Crash(s)
    /\ UNCHANGED reconcileVars

-----------------------------------------------------------------------------
(* The observer.                                                            *)

Looking(s, step) == s \in alive /\ look[s] = step

LookNext(s, step) == look' = [look EXCEPT ![s] = step]

\* The run is live, or settled meanwhile: its claim is returned as it is.
ReturnClaim(s) ==
    /\ LookNext(s, "idle")
    /\ observing' = [observing EXCEPT ![s] = Free]

ReadClaim(s, r) ==
    /\ Looking(s, "idle") /\ Owner[r] # s
    /\ claim[r] = "working"
    /\ observing' = [observing EXCEPT ![s] = r]
    /\ LookNext(s, "lease")
    /\ UNCHANGED <<vars, claim>>

\* activeChildLeaseLiveness removes the leases of dead processes on its way.
LookForLease(s) ==
    /\ Looking(s, "lease") \/ Looking(s, "leaseAgain")
    /\ IF observing[s] \in LiveLeases
         THEN ReturnClaim(s) /\ UNCHANGED leases
         ELSE /\ leases' = LiveLeases
              /\ LookNext(s, IF look[s] = "lease" THEN "ticket" ELSE "ticketAgain")
              /\ UNCHANGED observing
    /\ UNCHANGED <<alive, capLock, tickets, pc, queue, ready, aborted, pumpVars, claim>>

\* hasLiveQueuedRunTicket.
LookForTicket(s) ==
    /\ Looking(s, "ticket") \/ Looking(s, "ticketAgain")
    /\ IF observing[s] \in LiveTickets
         THEN ReturnClaim(s) /\ UNCHANGED tickets
         ELSE /\ tickets' = tickets \ {observing[s]}
              /\ LookNext(s, IF look[s] = "ticket" THEN "reread" ELSE "settle")
              /\ UNCHANGED observing
    /\ UNCHANGED <<alive, capLock, leases, pc, queue, ready, aborted, pumpVars, claim>>

\* Bug: what phase one has found is acted upon at once.
SettleAtOnce(s) ==
    /\ Looking(s, "reread") /\ ~ClaimLocked(observing[s])
    /\ IF claim[observing[s]] = "working"
         THEN LookNext(s, "settle") /\ UNCHANGED observing
         ELSE ReturnClaim(s)
    /\ UNCHANGED <<vars, claim>>

\* Bug: the status read in phase one is not read again.
TrustFirstRead(s) ==
    /\ Looking(s, "reread") /\ ~ClaimLocked(observing[s])
    /\ LookNext(s, "leaseAgain")
    /\ UNCHANGED <<vars, claim, observing>>

\* Phase two enters the claim lock and reads the claim again.
RereadClaim(s) ==
    /\ Looking(s, "reread") /\ ~ClaimLocked(observing[s])
    /\ IF claim[observing[s]] = "working"
         THEN LookNext(s, "leaseAgain") /\ UNCHANGED observing
         ELSE ReturnClaim(s)
    /\ UNCHANGED <<vars, claim>>

SettleOwnerLoss(s) ==
    /\ Looking(s, "settle")
    /\ claim' = [claim EXCEPT ![observing[s]] = "restart_drift"]
    /\ ReturnClaim(s)
    /\ UNCHANGED vars

ObserverStep(s) ==
    \/ \E r \in Runs : ReadClaim(s, r)
    \/ LookForLease(s) \/ LookForTicket(s) \/ RereadClaim(s) \/ SettleOwnerLoss(s)

ReconciliationNext ==
    \/ OwnerStep
    \/ \E r \in Runs : RegisterClaim(r) \/ FailRegistration(r) \/ SettleClaim(r)
    \/ \E s \in Servers : ObserverStep(s)

ReconciliationSpec == ReconciliationInit /\ [][ReconciliationNext]_allVars

-----------------------------------------------------------------------------
\* "Definite owner loss produces honest terminal restart_drift"
\* (.mex/context/architecture.md:34): no run is settled so while the process
\* that owns it lives.  Refuted for a run that was cancelled in the queue and for
\* one whose registration failed.
OwnerLossIsTrue == \A r \in Runs : claim[r] = "restart_drift" => ~Live(r)

\* The two-phase check makes it so for every other run, although the lease and the
\* ticket are read one after the other while the owner's pump trades the one for
\* the other: whoever is settled so under a living owner holds no lease, and was
\* cancelled, or never began because its registration failed behind its claim
\* (src/runTask.ts:2795, 3019-3030).
AdmittedRunsAreNotLost ==
    \A r \in Runs : claim[r] = "restart_drift" /\ Live(r) =>
        r \notin leases /\ (r \in aborted \/ pc[r] = "failed")

\* A claim that is terminal stays what it is, whoever settled it first.
TerminalClaimIsFinal ==
    [][\A r \in Runs : claim[r] \in {"terminal", "restart_drift"} => claim'[r] = claim[r]]_allVars
=============================================================================
