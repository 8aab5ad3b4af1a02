------------------------ MODULE RunReconciliationProofs ------------------------
(***************************************************************************)
(* Proofs about ActiveChildLease and RunReconciliation for any servers,    *)
(* runs and limits, in the executions in which removals of a dead          *)
(* process's lock do not overlap and no living section outlasts            *)
(* LOCK_STALE_MS.                                                          *)
(*                                                                         *)
(* ActiveChildLease: the type invariant, the ceilings, the attribution of  *)
(* living runs and what an ended run keeps.  One living run at a time is   *)
(* in a section, so the count a lease is written after is still true then; *)
(* one run of a process at a time is promoted, and it is the head of the   *)
(* queue that has waited; and the place where a run is tells whether it    *)
(* has its lease and its ticket.                                           *)
(*                                                                         *)
(* RunReconciliation: no living run is settled as lost unless it was       *)
(* cancelled in the queue or its registration failed, and a terminal claim *)
(* is final.  The first phase of an observer ends with the run's ticket    *)
(* not found, and a registered run never gets a ticket back.  So when the  *)
(* second phase finds no lease either, the run has neither: where a run    *)
(* has its files this is one of those two kinds, and it stays one until    *)
(* the observer settles it.                                                *)
(***************************************************************************)
EXTENDS RunReconciliation, FiniteSetTheorems, SequenceTheorems, TLAPS

-----------------------------------------------------------------------------
(* The invariant of ActiveChildLease.                                       *)

TypeInv == TypeOK /\ IsFiniteSet(leases) /\ IsFiniteSet(tickets)

\* The lock belongs to the living run in a section, or to the dead one whose lock is
\* being removed.
LockInv ==
    /\ \A r \in Runs : Live(r) /\ pc[r] \in SectionSteps \ {"steal"} => capLock = r
    /\ \A r \in Runs : At(r, "steal") => capLock # Free /\ ~Live(capLock)
    /\ SoleThief

\* The run is on its way from the queue to a lease.
Promotion(r) == r \in ready /\ pc[r] \in SectionSteps \cup {"lock"}

\* A process promotes one run at a time.
PumpInv ==
    \A r \in Runs : Live(r) /\ Promotion(r) =>
        /\ pump[Owner[r]] = "promoting"
        /\ \A q \in Runs : Owner[q] = Owner[r] /\ Promotion(q) => q = r

Queued(r) ==
    \/ pc[r] \in {"queued", "waiting"}
    \/ Promotion(r)
    \/ pc[r] = "unlock" /\ r \notin ready /\ r \in tickets

Distinct(q) == \A i, j \in DOMAIN q : q[i] = q[j] => i = j

\* A queue holds the waiting runs of its process, once each.
QueueInv ==
    \A s \in alive :
       /\ Distinct(queue[s])
       /\ \A i \in DOMAIN queue[s] : Owner[queue[s][i]] = s /\ Queued(queue[s][i])

\* Behind the run's own end, and where a failed or cancelled start is left.
Ending == {"readTicket", "unlinkTicket", "settle", "stuck", "releaseLease", "done"}
Unready == {"attaching", "giveBack", "failed", "stranded"}

\* What a run is allowed where it is, if its process lives.
RunInv(r) ==
    /\ r \in aborted => r \in ready \/ pc[r] \in Unready
    /\ r \in ready =>
          pc[r] \in {"lock", "waiting", "active"} \cup (SectionSteps \ {"ticket"}) \cup Ending
    /\ r \notin ready => pc[r] \notin {"verify", "removeTicket", "undoLease", "waiting"}
    /\ pc[r] \in {"admitted", "attaching", "active", "removeTicket", "undoLease", "stranded"}
          => r \in leases
    /\ pc[r] \in {"idle", "lock", "steal", "verify", "count", "lease", "ticket", "queued",
                  "waiting", "done", "failed"} => r \notin leases
    /\ pc[r] \in {"idle", "admitted", "attaching", "ticket", "undoLease", "active", "settle",
                  "stuck", "releaseLease", "done", "failed", "stranded"} => r \notin tickets
    /\ pc[r] = "giveBack" => r \in leases \cup tickets
    /\ pc[r] = "unlock" /\ r \in leases => r \notin tickets
    /\ r \notin ready /\ pc[r] \in {"lock", "steal", "count", "lease"} => r \notin tickets
    /\ r \in ready /\ pc[r] \in {"lock", "steal", "verify", "count", "lease", "removeTicket"}
          => r \in tickets
    /\ pc[r] = "queued" => r \in tickets
    /\ pc[r] \in {"waiting", "unlock"} /\ r \in ready \ aborted /\ r \notin leases => r \in tickets
    /\ pc[r] = "undoLease" => r \in aborted

\* The pump releases the ticket of a run that it has rejected.
ReleasingInv ==
    \A s \in alive : releasing[s] # Free => Owner[releasing[s]] = s /\ pc[releasing[s]] \in Ending

RunsInv == (\A r \in Runs : Live(r) => RunInv(r)) /\ ReleasingInv

\* The count behind which a lease is written is still true.
CapacityInv ==
    /\ CapacityRespected
    /\ \A r \in Runs : At(r, "lease") => Cardinality(LiveLeases) < MaxActiveChildren

IInv == TypeInv /\ LockInv /\ PumpInv /\ QueueInv /\ RunsInv /\ CapacityInv

-----------------------------------------------------------------------------
(* Queues, wake-ups and counts.                                             *)

\* Removing the only occurrence of an element leaves the others in their order.
LEMMA RemoveAtFacts ==
    ASSUME NEW S, NEW q \in Seq(S), NEW i \in DOMAIN q
    PROVE  /\ RemoveAt(q, i) \in Seq(S)
           /\ Distinct(q) => Distinct(RemoveAt(q, i))
           /\ \A j \in DOMAIN RemoveAt(q, i) :
                 \E k \in DOMAIN q : k # i /\ RemoveAt(q, i)[j] = q[k]
<1> DEFINE before == SubSeq(q, 1, i - 1)
           after == SubSeq(q, i + 1, Len(q))
           p == before \o after
<1>1. i \in 1 .. Len(q) /\ Len(q) \in Nat
  BY LenProperties
<1>2. /\ before \in Seq(S) /\ Len(before) = i - 1
      /\ \A j \in 1 .. i - 1 : before[j] = q[j]
  <2>1. \A j \in 1 .. i - 1 : q[j] \in S
    BY <1>1, ElementOfSeq
  <2> QED
    BY <1>1, <2>1, SubSeqProperties
<1>3. /\ after \in Seq(S) /\ Len(after) = Len(q) - i
      /\ \A j \in 1 .. Len(q) - i : after[j] = q[i + j]
  <2>1. \A j \in i + 1 .. Len(q) : q[j] \in S
    BY <1>1, ElementOfSeq
  <2> QED
    BY <1>1, <2>1, SubSeqProperties
<1>4. /\ p \in Seq(S) /\ Len(p) = Len(q) - 1
      /\ \A j \in 1 .. Len(q) - 1 : p[j] = IF j < i THEN q[j] ELSE q[j + 1]
  <2> HIDE DEF before, after
  <2>1. /\ p \in Seq(S) /\ Len(p) = Len(before) + Len(after)
        /\ \A j \in 1 .. Len(before) + Len(after) :
              p[j] = IF j <= Len(before) THEN before[j] ELSE after[j - Len(before)]
    BY <1>2, <1>3, ConcatProperties
  <2> HIDE DEF p
  <2>2. p \in Seq(S) /\ Len(p) = Len(q) - 1
    BY <1>1, <1>2, <1>3, <2>1
  <2>3. ASSUME NEW j \in 1 .. Len(q) - 1, j < i PROVE p[j] = q[j]
    BY <1>1, <1>2, <1>3, <2>1, <2>3
  <2>4. ASSUME NEW j \in 1 .. Len(q) - 1, ~(j < i) PROVE p[j] = q[j + 1]
    <3>1. j - (i - 1) \in 1 .. Len(q) - i /\ i + (j - (i - 1)) = j + 1
      BY <1>1, <2>4, SMTT(60)
    <3>2. p[j] = after[j - (i - 1)]
      BY <1>1, <1>2, <1>3, <2>1, <2>4, SMTT(60)
    <3> QED
      BY <1>3, <3>1, <3>2
  <2> QED
    BY <2>2, <2>3, <2>4
<1>5. DOMAIN p = 1 .. Len(q) - 1 /\ DOMAIN q = 1 .. Len(q)
  BY <1>1, <1>4, LenProperties
<1>6. \A j \in DOMAIN p : p[j] = q[IF j < i THEN j ELSE j + 1]
  BY <1>1, <1>4, <1>5
<1> HIDE DEF p
<1>7. \A j \in DOMAIN p : \E k \in DOMAIN q : k # i /\ p[j] = q[k]
  BY <1>1, <1>5, <1>6
<1>8. ASSUME Distinct(q) PROVE Distinct(p)
  BY <1>1, <1>5, <1>6, <1>8 DEF Distinct
<1> QED
  BY <1>4, <1>7, <1>8 DEF RemoveAt, p

\* What Dequeue does.
LEMMA DequeueFacts ==
    ASSUME TypeOK, QueueInv, NEW r \in Runs, Live(r), Dequeue(r)
    PROVE  /\ queue' \in [Servers -> Seq(Runs)]
           /\ \A s \in Servers : s # Owner[r] => queue'[s] = queue[s]
           /\ Distinct(queue'[Owner[r]])
           /\ \A j \in DOMAIN queue'[Owner[r]] :
                 /\ queue'[Owner[r]][j] # r
                 /\ \E k \in DOMAIN queue[Owner[r]] : queue'[Owner[r]][j] = queue[Owner[r]][k]
<1> DEFINE q == queue[Owner[r]]
<1>1. Owner[r] \in Servers /\ q \in Seq(Runs)
  BY OwnerAssumption DEF TypeOK
<1>2. PICK i \in DOMAIN q : q[i] = r /\ queue' = [queue EXCEPT ![Owner[r]] = RemoveAt(@, i)]
  BY DEF Dequeue
<1>3. Distinct(q)
  BY DEF QueueInv, Live
<1>4. queue'[Owner[r]] = RemoveAt(q, i)
  BY <1>1, <1>2 DEF TypeOK
<1>5. /\ RemoveAt(q, i) \in Seq(Runs) /\ Distinct(RemoveAt(q, i))
      /\ \A j \in DOMAIN RemoveAt(q, i) :
            \E k \in DOMAIN q : k # i /\ RemoveAt(q, i)[j] = q[k]
  BY <1>1, <1>3, RemoveAtFacts
<1>6. queue' \in [Servers -> Seq(Runs)]
  BY <1>1, <1>2, <1>5 DEF TypeOK
<1>7. \A s \in Servers : s # Owner[r] => queue'[s] = queue[s]
  BY <1>2 DEF TypeOK
<1>8. \A k \in DOMAIN q : k # i => q[k] # r
  BY <1>2, <1>3 DEF Distinct
<1> QED
  BY <1>4, <1>5, <1>6, <1>7, <1>8

\* A wake-up starts a pump that sleeps, and disturbs no other.
LEMMA WakeFacts ==
    ASSUME TypeOK, NEW s \in Servers, Wake(s)
    PROVE  /\ pump' \in [Servers -> PumpSteps] /\ wake' \in [Servers -> BOOLEAN]
           /\ timer' \in [Servers -> BOOLEAN] /\ releasing' = releasing
           /\ \A t \in Servers : pump[t] # "asleep" => pump'[t] = pump[t]
           /\ \A t \in Servers : pump[t] = "asleep" => pump'[t] \in {"asleep", "awake"}
  BY DEF TypeOK, PumpSteps, Wake

\* A pump that ends starts again or sleeps.
LEMMA PumpEndsFacts ==
    ASSUME TypeOK, NEW s \in Servers, NEW poll \in BOOLEAN, PumpEnds(s, poll)
    PROVE  /\ pump' \in [Servers -> PumpSteps] /\ wake' \in [Servers -> BOOLEAN]
           /\ timer' \in [Servers -> BOOLEAN] /\ releasing' = releasing
           /\ pump'[s] \in {"asleep", "awake"}
           /\ \A t \in Servers : t # s => pump'[t] = pump[t]
<1>1. pump' \in [Servers -> PumpSteps] /\ releasing' = releasing
  BY DEF TypeOK, PumpSteps, PumpEnds
<1>2. wake' \in [Servers -> BOOLEAN]
  BY DEF TypeOK, PumpEnds
<1>3. timer' \in [Servers -> BOOLEAN]
  <2>1. ((timer[s] \/ poll) /\ ~wake[s]) \in BOOLEAN
    OBVIOUS
  <2>2. timer' = [timer EXCEPT ![s] = (timer[s] \/ poll) /\ ~wake[s]]
    BY DEF PumpEnds
  <2> HIDE DEF TypeOK
  <2>3. timer \in [Servers -> BOOLEAN]
    BY DEF TypeOK
  <2> QED
    BY <2>1, <2>2, <2>3, Zenon
<1>4. pump'[s] \in {"asleep", "awake"} /\ \A t \in Servers : t # s => pump'[t] = pump[t]
  BY DEF TypeOK, PumpEnds
<1> QED
  BY <1>1, <1>2, <1>3, <1>4

\* One more stays within a limit that was not reached.
LEMMA OneMore ==
    ASSUME NEW S, IsFiniteSet(S), NEW e, NEW limit \in Nat, Cardinality(S) < limit
    PROVE  Cardinality(S \cup {e}) <= limit
<1>1. Cardinality(S) \in Nat
  BY FS_CardinalityType
<1>2. Cardinality(S \cup {e}) \in {Cardinality(S), Cardinality(S) + 1}
  BY FS_AddElement
<1> QED
  BY <1>1, <1>2

\* What nobody adds to stays below its limit.
LEMMA CapacityKept ==
    ASSUME TypeInv, CapacityInv,
           LiveLeases' \subseteq LiveLeases, LiveTickets' \subseteq LiveTickets,
           \A q \in Runs : At(q, "lease")' => At(q, "lease")
    PROVE  CapacityInv'
<1>1. IsFiniteSet(LiveLeases) /\ IsFiniteSet(LiveTickets)
  BY FS_Subset DEF TypeInv, LiveLeases, LiveTickets
<1>2. /\ Cardinality(LiveLeases) \in Nat /\ Cardinality(LiveLeases') \in Nat
      /\ Cardinality(LiveLeases') <= Cardinality(LiveLeases)
  BY <1>1, FS_Subset, FS_CardinalityType
<1>3. /\ Cardinality(LiveTickets) \in Nat /\ Cardinality(LiveTickets') \in Nat
      /\ Cardinality(LiveTickets') <= Cardinality(LiveTickets)
  BY <1>1, FS_Subset, FS_CardinalityType
<1> QED
  BY <1>2, <1>3, CapacityAssumption DEF CapacityInv, CapacityRespected

\* A step that touches no queue and keeps its members what they are.
LEMMA StaysInQueue ==
    ASSUME TypeOK, QueueInv, queue' = queue, alive' = alive,
           \A q \in Runs : Live(q) /\ Queued(q) => Queued(q)'
    PROVE  QueueInv'
<1> SUFFICES ASSUME NEW s \in alive, NEW i \in DOMAIN queue[s] PROVE Queued(queue[s][i])'
  BY DEF QueueInv
<1>1. s \in Servers /\ queue[s] \in Seq(Runs)
  BY DEF TypeOK
<1>2. queue[s][i] \in Runs
  BY <1>1, ElementOfSeq, LenProperties
<1> QED
  BY <1>2 DEF QueueInv, Live

\* A step that removes a run from its queue and keeps the other members what they are.
LEMMA LeavesQueue ==
    ASSUME TypeOK, QueueInv, NEW r \in Runs, Live(r), Dequeue(r), alive' = alive,
           \A q \in Runs : q # r /\ Live(q) /\ Queued(q) => Queued(q)'
    PROVE  QueueInv'
<1> SUFFICES ASSUME NEW s \in alive
             PROVE  /\ Distinct(queue[s])'
                    /\ (\A i \in DOMAIN queue[s] : Owner[queue[s][i]] = s /\ Queued(queue[s][i]))'
  BY DEF QueueInv
<1>1. s \in Servers /\ queue[s] \in Seq(Runs)
  BY DEF TypeOK
<1>2. /\ Distinct(queue[s])
      /\ \A k \in DOMAIN queue[s] :
            /\ queue[s][k] \in Runs
            /\ Owner[queue[s][k]] = s /\ Queued(queue[s][k])
  BY <1>1, ElementOfSeq, LenProperties DEF QueueInv
<1>3. CASE s # Owner[r]
  <2>1. queue'[s] = queue[s]
    BY <1>1, <1>3, DequeueFacts
  <2> QED
    BY <1>2, <1>3, <2>1 DEF Live, Queued, Promotion
<1>4. CASE s = Owner[r]
  <2>1. /\ Distinct(queue'[s])
        /\ \A j \in DOMAIN queue'[s] :
              queue'[s][j] # r /\ \E k \in DOMAIN queue[s] : queue'[s][j] = queue[s][k]
    BY <1>4, DequeueFacts
  <2>2. ASSUME NEW i \in DOMAIN queue'[s]
        PROVE  (Owner[queue[s][i]] = s /\ Queued(queue[s][i]))'
    <3>1. PICK q \in Runs : queue'[s][i] = q /\ q # r /\ Owner[q] = s /\ Queued(q)
      BY <1>2, <2>1
    <3>2. Queued(q)'
      BY <3>1 DEF Live
    <3> QED
      BY <3>1, <3>2 DEF Queued, Promotion
  <2> QED
    BY <2>1, <2>2 DEF Distinct
<1> QED
  BY <1>3, <1>4

\* A step that appends a run to its queue.
LEMMA JoinsQueue ==
    ASSUME TypeOK, QueueInv, NEW r \in Runs, Live(r), alive' = alive,
           queue' = [queue EXCEPT ![Owner[r]] = Append(@, r)],
           ~Queued(r), Queued(r)',
           \A q \in Runs : Live(q) /\ Queued(q) => Queued(q)'
    PROVE  QueueInv'
<1> SUFFICES ASSUME NEW s \in alive
             PROVE  /\ Distinct(queue[s])'
                    /\ (\A i \in DOMAIN queue[s] : Owner[queue[s][i]] = s /\ Queued(queue[s][i]))'
  BY DEF QueueInv
<1>1. s \in Servers /\ queue[s] \in Seq(Runs) /\ Owner[r] \in Servers
  BY OwnerAssumption DEF TypeOK
<1>2. /\ Distinct(queue[s])
      /\ \A k \in DOMAIN queue[s] :
            /\ queue[s][k] \in Runs
            /\ Owner[queue[s][k]] = s /\ Queued(queue[s][k])
  BY <1>1, ElementOfSeq, LenProperties DEF QueueInv
<1>3. CASE s # Owner[r]
  <2>1. queue'[s] = queue[s]
    BY <1>1, <1>3 DEF TypeOK
  <2> QED
    BY <1>2, <1>3, <2>1 DEF Live, Queued, Promotion
<1>4. CASE s = Owner[r]
  <2> DEFINE p == Append(queue[s], r)
  <2>1. queue'[s] = p
    BY <1>1, <1>4 DEF TypeOK
  <2>2. /\ DOMAIN queue[s] = 1 .. Len(queue[s]) /\ DOMAIN p = 1 .. Len(queue[s]) + 1
        /\ Len(queue[s]) \in Nat
        /\ \A i \in 1 .. Len(queue[s]) : p[i] = queue[s][i]
        /\ p[Len(queue[s]) + 1] = r
    BY <1>1, AppendProperties, LenProperties
  <2>3. \A k \in DOMAIN queue[s] : queue[s][k] # r
    BY <1>2
  <2> HIDE DEF p
  <2>4. Distinct(p)
    BY <1>2, <2>2, <2>3 DEF Distinct
  <2>5. ASSUME NEW i \in DOMAIN p
        PROVE  \E q \in Runs : p[i] = q /\ Owner[q] = s /\ Queued(q)'
    BY <1>2, <1>4, <2>2 DEF Live
  <2> QED
    BY <2>1, <2>4, <2>5 DEF Queued, Promotion, Distinct
<1> QED
  BY <1>3, <1>4

-----------------------------------------------------------------------------
(* The invariant holds initially.                                           *)

LEMMA InitEstablishes == Init => IInv
<1> SUFFICES ASSUME Init PROVE IInv
  OBVIOUS
<1> USE OwnerAssumption, FreeAssumption, CapacityAssumption DEF Init
<1>1. TypeInv
  <2>1. IsFiniteSet(leases) /\ IsFiniteSet(tickets)
    BY FS_EmptySet
  <2>2. queue \in [Servers -> Seq(Runs)]
    BY EmptySeq
  <2>3. wake \in [Servers -> BOOLEAN] /\ timer \in [Servers -> BOOLEAN]
    OBVIOUS
  <2>4. pc \in [Runs -> RunSteps] /\ pump \in [Servers -> PumpSteps]
    BY DEF RunSteps, Over, PumpSteps
  <2>5. /\ releasing \in [Servers -> Runs \cup {Free}]
        /\ \A s \in Servers : releasing[s] # Free <=> pump[s] \in {"readTicket", "unlinkTicket"}
    OBVIOUS
  <2> QED
    BY <2>1, <2>2, <2>3, <2>4, <2>5 DEF TypeInv, TypeOK
<1>2. LockInv
  BY DEF LockInv, SoleThief, At, SectionSteps
<1>3. PumpInv
  BY DEF PumpInv, Promotion
<1>4. QueueInv
  BY EmptySeq DEF QueueInv, Distinct
<1>5. RunsInv
  BY DEF RunsInv, RunInv, ReleasingInv
<1>6. CapacityInv
  <2>1. LiveLeases = {} /\ LiveTickets = {}
    BY DEF LiveLeases, LiveTickets
  <2> QED
    BY <2>1, FS_EmptySet DEF CapacityInv, CapacityRespected, At
<1> QED
  BY <1>1, <1>2, <1>3, <1>4, <1>5, <1>6 DEF IInv

-----------------------------------------------------------------------------
(* Every step preserves the invariant.                                       *)

\* The type invariant; a pump that ends had no ticket to release.
LEMMA TypeSteps == IInv /\ [SerialNext]_vars => TypeInv'
<1> SUFFICES ASSUME IInv, [SerialNext]_vars PROVE TypeInv'
  OBVIOUS
<1> USE OwnerAssumption, FreeAssumption, TopLevelAssumption, CapacityAssumption DEF IInv
<1> USE DEF TypeInv, TypeOK, RunSteps, Over, PumpSteps
<1> USE DEF At, GoTo, Live, SectionSteps, Promoting, pumpVars, diskVars
<1>1. ASSUME NEW r \in Runs, Start(r) PROVE TypeInv'
  BY <1>1 DEF Start
<1>2. ASSUME NEW r \in Runs, TakeLock(r) PROVE TypeInv'
  BY <1>2 DEF TakeLock
<1>3. ASSUME NEW r \in Runs, SerialFindStaleLock(r) PROVE TypeInv'
  BY <1>3 DEF SerialFindStaleLock, FindStaleLock
<1>4. ASSUME NEW r \in Runs, StealLock(r) PROVE TypeInv'
  BY <1>4 DEF StealLock
<1>5. ASSUME NEW r \in Runs, LockBusy(r) PROVE TypeInv'
  <2>1. CASE Promoting(r)
    <3>1. Owner[r] \in Servers /\ PumpEnds(Owner[r], TRUE) /\ pump[Owner[r]] = "promoting"
      BY <1>5, <2>1 DEF LockBusy, PumpPolls, PumpInv, Promotion
    <3> QED
      BY <1>5, <2>1, <3>1, PumpEndsFacts, ZenonT(60) DEF LockBusy
  <2>2. CASE ~Promoting(r)
    BY <1>5, <2>2 DEF LockBusy
  <2> QED
    BY <2>1, <2>2
<1>6. ASSUME NEW r \in Runs, VerifyTicket(r) PROVE TypeInv'
  BY <1>6 DEF VerifyTicket
<1>7. ASSUME NEW r \in Runs, CountActive(r) PROVE TypeInv'
  <2>1. IsFiniteSet(leases') /\ IsFiniteSet(tickets')
    BY <1>7, FS_Subset DEF CountActive, LiveLeases
  <2>2. TypeOK'
    BY <1>7 DEF CountActive, LiveLeases
  <2> QED
    BY <2>1, <2>2
<1>8. ASSUME NEW r \in Runs, WriteLease(r) PROVE TypeInv'
  <2>1. IsFiniteSet(leases') /\ IsFiniteSet(tickets')
    BY <1>8, FS_AddElement DEF WriteLease
  <2>2. TypeOK'
    BY <1>8 DEF WriteLease
  <2> QED
    BY <2>1, <2>2
<1>9. ASSUME NEW r \in Runs, WriteTicket(r) PROVE TypeInv'
  <2>1. IsFiniteSet(LiveTickets)
    BY FS_Subset DEF LiveTickets
  <2>2. IsFiniteSet(leases') /\ IsFiniteSet(tickets')
    <3>1. IsFiniteSet(LiveTickets \cup {r})
      BY <2>1, FS_AddElement
    <3> QED
      BY <1>9, <2>1, <3>1 DEF WriteTicket
  <2>3. queue' \in [Servers -> Seq(Runs)]
    <3>1. Owner[r] \in Servers /\ Append(queue[Owner[r]], r) \in Seq(Runs)
      BY AppendProperties
    <3> QED
      BY <1>9, <3>1 DEF WriteTicket
  <2>4. TypeOK'
    BY <1>9, <2>3 DEF WriteTicket, LiveTickets
  <2> QED
    BY <2>2, <2>4
<1>10. ASSUME NEW r \in Runs, RemoveTicket(r) PROVE TypeInv'
  <2>1. IsFiniteSet(leases') /\ IsFiniteSet(tickets')
    BY <1>10, FS_RemoveElement DEF RemoveTicket
  <2>2. TypeOK'
    BY <1>10 DEF RemoveTicket
  <2> QED
    BY <2>1, <2>2
<1>11. ASSUME NEW r \in Runs, UndoLease(r) PROVE TypeInv'
  <2>1. IsFiniteSet(leases') /\ IsFiniteSet(tickets')
    BY <1>11, FS_RemoveElement DEF UndoLease
  <2>2. TypeOK'
    BY <1>11, WakeFacts DEF UndoLease
  <2> QED
    BY <2>1, <2>2
<1>12. ASSUME NEW r \in Runs, Unlock(r) PROVE TypeInv'
  <2>1. /\ capLock' = Free
        /\ UNCHANGED <<alive, leases, tickets, ready, aborted>>
    BY <1>12 DEF Unlock
  <2>2. CASE ~Promoting(r)
    BY <1>12, <2>2 DEF Unlock
  <2>3. CASE Promoting(r)
    <3>1. pump[Owner[r]] = "promoting" /\ Owner[r] \in Servers
      BY <1>12, <2>3 DEF Unlock, PumpInv, Promotion
    <3>2. \E step \in {"active", "waiting"} : pc' = [pc EXCEPT ![r] = step]
      BY <1>12, <2>3 DEF Unlock
    <3>3. queue' \in [Servers -> Seq(Runs)]
      BY <1>12, <2>3, DequeueFacts DEF Unlock
    <3>4. \/ pump' = [pump EXCEPT ![Owner[r]] = "awake"] /\ UNCHANGED <<releasing, wake, timer>>
          \/ PumpEnds(Owner[r], TRUE)
      BY <1>12, <2>3 DEF Unlock, PumpPolls
    <3>5. TypeOK /\ IsFiniteSet(leases) /\ IsFiniteSet(tickets)
      OBVIOUS
    <3> HIDE DEF TypeInv, IInv
    <3>6. /\ pump' \in [Servers -> PumpSteps] /\ releasing' = releasing
          /\ wake' \in [Servers -> BOOLEAN] /\ timer' \in [Servers -> BOOLEAN]
          /\ pump'[Owner[r]] \in {"asleep", "awake"}
          /\ \A t \in Servers : t # Owner[r] => pump'[t] = pump[t]
      <4>1. CASE PumpEnds(Owner[r], TRUE)
        BY <3>1, <3>5, <4>1, PumpEndsFacts
      <4>2. CASE /\ pump' = [pump EXCEPT ![Owner[r]] = "awake"]
                 /\ UNCHANGED <<releasing, wake, timer>>
        BY <3>1, <3>5, <4>2 DEF TypeOK, PumpSteps
      <4> QED
        BY <3>4, <4>1, <4>2
    <3>7. pc' \in [Runs -> RunSteps]
      BY <3>2, <3>5
    <3>8. \A s \in Servers : releasing'[s] # Free <=> pump'[s] \in {"readTicket", "unlinkTicket"}
      BY <3>1, <3>5, <3>6
    <3> QED
      BY <2>1, <3>3, <3>5, <3>6, <3>7, <3>8 DEF TypeInv
  <2> QED
    BY <2>2, <2>3
<1>13. ASSUME NEW r \in Runs, Register(r) PROVE TypeInv'
  BY <1>13, ZenonT(60) DEF Register, Wake
<1>14. ASSUME NEW r \in Runs, Finish(r) PROVE TypeInv'
  BY <1>14 DEF Finish
<1>15. ASSUME NEW r \in Runs, ReadTicket(r) PROVE TypeInv'
  BY <1>15, ZenonT(60) DEF ReadTicket, Wake
<1>16. ASSUME NEW r \in Runs, UnlinkTicket(r) PROVE TypeInv'
  <2>1. IsFiniteSet(leases') /\ IsFiniteSet(tickets')
    BY <1>16, FS_RemoveElement DEF UnlinkTicket
  <2>2. TypeOK'
    BY <1>16, WakeFacts DEF UnlinkTicket
  <2> QED
    BY <2>1, <2>2
<1>17. ASSUME NEW r \in Runs, Settle(r) PROVE TypeInv'
  BY <1>17 DEF Settle
<1>18. ASSUME NEW r \in Runs, ReleaseLease(r) PROVE TypeInv'
  <2>1. IsFiniteSet(leases') /\ IsFiniteSet(tickets')
    BY <1>18, FS_RemoveElement DEF ReleaseLease
  <2>2. TypeOK'
    BY <1>18, WakeFacts DEF ReleaseLease
  <2> QED
    BY <2>1, <2>2
<1>19. ASSUME NEW r \in Runs, RegisterFails(r) PROVE TypeInv'
  <2>1. queue' \in [Servers -> Seq(Runs)]
    BY <1>19, DequeueFacts DEF RegisterFails
  <2> QED
    BY <1>19, <2>1 DEF RegisterFails
<1>20. ASSUME NEW r \in Runs, Cancel(r) PROVE TypeInv'
  BY <1>20 DEF Cancel, Wake
<1>21. ASSUME NEW s \in Servers, TimerFires(s) PROVE TypeInv'
  BY <1>21 DEF TimerFires
<1>22. ASSUME NEW s \in Servers, PumpIdles(s) PROVE TypeInv'
  BY <1>22 DEF PumpIdles, HeadReady
<1>23. ASSUME NEW s \in Servers, PumpReturns(s) PROVE TypeInv'
  BY <1>23 DEF PumpReturns, PumpEnds
<1>24. ASSUME NEW s \in Servers, PumpPromotes(s) PROVE TypeInv'
  BY <1>24 DEF PumpPromotes, HeadReady
<1>25. ASSUME NEW s \in Servers, PumpRejects(s) PROVE TypeInv'
  <2> DEFINE r == Head(queue[s])
  <2>1. r \in Runs /\ Owner[r] = s
    BY <1>25, HeadTailProperties, LenProperties DEF PumpRejects, HeadReady, QueueInv
  <2>2. queue' \in [Servers -> Seq(Runs)]
    BY <1>25, <2>1, DequeueFacts DEF PumpRejects
  <2> HIDE DEF r
  <2>3. /\ pc' = [pc EXCEPT ![r] = "readTicket"] /\ releasing' = [releasing EXCEPT ![s] = r]
        /\ pump' = [pump EXCEPT ![s] = "readTicket"]
        /\ UNCHANGED <<alive, capLock, leases, tickets, ready, aborted, wake, timer>>
    BY <1>25 DEF PumpRejects, r
  <2> QED
    BY <2>1, <2>2, <2>3
<1>26. ASSUME NEW s \in Servers, PumpReadsTicket(s) PROVE TypeInv'
  BY <1>26 DEF PumpReadsTicket
<1>27. ASSUME NEW s \in Servers, PumpUnlinksTicket(s) PROVE TypeInv'
  <2>1. IsFiniteSet(leases') /\ IsFiniteSet(tickets')
    BY <1>27, FS_RemoveElement DEF PumpUnlinksTicket
  <2>2. TypeOK'
    BY <1>27 DEF PumpUnlinksTicket
  <2> QED
    BY <2>1, <2>2
<1>28. ASSUME NEW s \in Servers, PumpThrows(s) PROVE TypeInv'
  BY <1>28 DEF PumpThrows
<1>29. ASSUME NEW s \in Servers, Crash(s) PROVE TypeInv'
  BY <1>29 DEF Crash
<1>30. CASE UNCHANGED vars
  BY <1>30 DEF vars
<1>31. ASSUME NEW r \in Runs, GiveBack(r) PROVE TypeInv'
  <2>1. IsFiniteSet(leases') /\ IsFiniteSet(tickets')
    BY <1>31, FS_RemoveElement DEF GiveBack
  <2>2. TypeOK'
    BY <1>31, WakeFacts DEF GiveBack
  <2> QED
    BY <2>1, <2>2
<1>32. ASSUME NEW r \in Runs, Launch(r) PROVE TypeInv'
  BY <1>32 DEF Launch
<1>33. ASSUME NEW r \in Runs, CancelEarly(r) PROVE TypeInv'
  BY <1>33 DEF CancelEarly
<1>34. ASSUME NEW r \in Runs, SettleRefused(r) PROVE TypeInv'
  BY <1>34 DEF SettleRefused
<1> HIDE DEF IInv, TypeInv
<1> QED
  BY <1>1, <1>2, <1>3, <1>4, <1>5, <1>6, <1>7, <1>8, <1>9, <1>10, <1>11, <1>12,
    <1>13, <1>14, <1>15, <1>16, <1>17, <1>18, <1>19, <1>20, <1>21, <1>22, <1>23, <1>24,
    <1>25, <1>26, <1>27, <1>28, <1>29, <1>30, <1>31, <1>32, <1>33, <1>34
    DEF SerialNext, SerialSectionStep, RunStep, RunTrouble, PumpStep

\* A section is entered through the lock, and only a dead run's lock is removed.
LEMMA LockSteps == IInv /\ [SerialNext]_vars => LockInv'
<1> SUFFICES ASSUME IInv, [SerialNext]_vars PROVE LockInv'
  OBVIOUS
<1> USE OwnerAssumption, FreeAssumption, TopLevelAssumption, CapacityAssumption DEF IInv
<1> USE DEF LockInv, TypeInv, TypeOK, RunSteps, SoleThief
<1> USE DEF At, GoTo, Live, SectionSteps, Promoting, pumpVars, diskVars
<1>1. ASSUME NEW r \in Runs, Start(r) PROVE LockInv'
  BY <1>1 DEF Start
<1>2. ASSUME NEW r \in Runs, TakeLock(r) PROVE LockInv'
  BY <1>2 DEF TakeLock
<1>3. ASSUME NEW r \in Runs, SerialFindStaleLock(r) PROVE LockInv'
  BY <1>3 DEF SerialFindStaleLock, FindStaleLock
<1>4. ASSUME NEW r \in Runs, StealLock(r) PROVE LockInv'
  BY <1>4 DEF StealLock
<1>5. ASSUME NEW r \in Runs, LockBusy(r) PROVE LockInv'
  BY <1>5, ZenonT(60) DEF LockBusy
<1>6. ASSUME NEW r \in Runs, VerifyTicket(r) PROVE LockInv'
  BY <1>6 DEF VerifyTicket
<1>7. ASSUME NEW r \in Runs, CountActive(r) PROVE LockInv'
  BY <1>7 DEF CountActive
<1>8. ASSUME NEW r \in Runs, WriteLease(r) PROVE LockInv'
  BY <1>8 DEF WriteLease
<1>9. ASSUME NEW r \in Runs, WriteTicket(r) PROVE LockInv'
  BY <1>9 DEF WriteTicket
<1>10. ASSUME NEW r \in Runs, RemoveTicket(r) PROVE LockInv'
  BY <1>10 DEF RemoveTicket
<1>11. ASSUME NEW r \in Runs, UndoLease(r) PROVE LockInv'
  BY <1>11 DEF UndoLease
<1>12. ASSUME NEW r \in Runs, Unlock(r) PROVE LockInv'
  <2>1. capLock = r /\ Live(r)
    BY <1>12 DEF Unlock
  <2>2. capLock' = Free /\ alive' = alive
    BY <1>12 DEF Unlock
  <2>3. \A q \in Runs : q # r => pc'[q] = pc[q]
    BY <1>12 DEF Unlock
  <2>4. pc'[r] \notin SectionSteps
    BY <1>12 DEF Unlock
  <2> QED
    BY <2>1, <2>2, <2>3, <2>4
<1>13. ASSUME NEW r \in Runs, Register(r) PROVE LockInv'
  BY <1>13, ZenonT(60) DEF Register
<1>14. ASSUME NEW r \in Runs, Finish(r) PROVE LockInv'
  BY <1>14 DEF Finish
<1>15. ASSUME NEW r \in Runs, ReadTicket(r) PROVE LockInv'
  BY <1>15, ZenonT(60) DEF ReadTicket
<1>16. ASSUME NEW r \in Runs, UnlinkTicket(r) PROVE LockInv'
  BY <1>16 DEF UnlinkTicket
<1>17. ASSUME NEW r \in Runs, Settle(r) PROVE LockInv'
  BY <1>17 DEF Settle
<1>18. ASSUME NEW r \in Runs, ReleaseLease(r) PROVE LockInv'
  BY <1>18 DEF ReleaseLease
<1>19. ASSUME NEW r \in Runs, RegisterFails(r) PROVE LockInv'
  BY <1>19 DEF RegisterFails
<1>20. ASSUME NEW r \in Runs, Cancel(r) PROVE LockInv'
  BY <1>20 DEF Cancel
<1>21. ASSUME NEW s \in Servers, TimerFires(s) PROVE LockInv'
  BY <1>21 DEF TimerFires
<1>22. ASSUME NEW s \in Servers, PumpIdles(s) PROVE LockInv'
  BY <1>22 DEF PumpIdles
<1>23. ASSUME NEW s \in Servers, PumpReturns(s) PROVE LockInv'
  BY <1>23 DEF PumpReturns
<1>24. ASSUME NEW s \in Servers, PumpPromotes(s) PROVE LockInv'
  BY <1>24 DEF PumpPromotes
<1>25. ASSUME NEW s \in Servers, PumpRejects(s) PROVE LockInv'
  BY <1>25 DEF PumpRejects
<1>26. ASSUME NEW s \in Servers, PumpReadsTicket(s) PROVE LockInv'
  BY <1>26 DEF PumpReadsTicket
<1>27. ASSUME NEW s \in Servers, PumpUnlinksTicket(s) PROVE LockInv'
  BY <1>27 DEF PumpUnlinksTicket
<1>28. ASSUME NEW s \in Servers, PumpThrows(s) PROVE LockInv'
  BY <1>28 DEF PumpThrows
<1>29. ASSUME NEW s \in Servers, Crash(s) PROVE LockInv'
  BY <1>29 DEF Crash
<1>30. CASE UNCHANGED vars
  BY <1>30 DEF vars
<1>31. ASSUME NEW r \in Runs, GiveBack(r) PROVE LockInv'
  BY <1>31 DEF GiveBack
<1>32. ASSUME NEW r \in Runs, Launch(r) PROVE LockInv'
  BY <1>32 DEF Launch
<1>33. ASSUME NEW r \in Runs, CancelEarly(r) PROVE LockInv'
  BY <1>33 DEF CancelEarly
<1>34. ASSUME NEW r \in Runs, SettleRefused(r) PROVE LockInv'
  BY <1>34 DEF SettleRefused
<1> HIDE DEF IInv, LockInv
<1> QED
  BY <1>1, <1>2, <1>3, <1>4, <1>5, <1>6, <1>7, <1>8, <1>9, <1>10, <1>11, <1>12,
    <1>13, <1>14, <1>15, <1>16, <1>17, <1>18, <1>19, <1>20, <1>21, <1>22, <1>23, <1>24,
    <1>25, <1>26, <1>27, <1>28, <1>29, <1>30, <1>31, <1>32, <1>33, <1>34
    DEF SerialNext, SerialSectionStep, RunStep, RunTrouble, PumpStep

\* A pump promotes the head that waits, and ends when the promotion does.
LEMMA PumpingSteps == IInv /\ [SerialNext]_vars => PumpInv'
<1> SUFFICES ASSUME IInv, [SerialNext]_vars PROVE PumpInv'
  OBVIOUS
<1> USE OwnerAssumption, FreeAssumption, TopLevelAssumption, CapacityAssumption DEF IInv
<1> USE DEF PumpInv, TypeInv, TypeOK, RunSteps, LockInv, QueueInv, RunsInv, RunInv, Ending,
    Unready, Queued, Promotion
<1> USE DEF At, GoTo, Live, SectionSteps, Promoting, pumpVars, diskVars
<1>1. ASSUME NEW r \in Runs, Start(r) PROVE PumpInv'
  <2>1. r \notin ready
    BY <1>1 DEF Start
  <2> QED
    BY <1>1, <2>1 DEF Start
<1>2. ASSUME NEW r \in Runs, TakeLock(r) PROVE PumpInv'
  BY <1>2 DEF TakeLock
<1>3. ASSUME NEW r \in Runs, SerialFindStaleLock(r) PROVE PumpInv'
  BY <1>3 DEF SerialFindStaleLock, FindStaleLock
<1>4. ASSUME NEW r \in Runs, StealLock(r) PROVE PumpInv'
  BY <1>4 DEF StealLock
<1>5. ASSUME NEW r \in Runs, LockBusy(r) PROVE PumpInv'
  <2>1. CASE ~Promoting(r)
    BY <1>5, <2>1 DEF LockBusy
  <2>2. CASE Promoting(r)
    <3>1. \A q \in Runs : Promotion(q)' => Promotion(q) /\ q # r
      BY <1>5, <2>2 DEF LockBusy
    <3>2. \A q \in Runs : Live(q) /\ Promotion(q)' => Owner[q] # Owner[r]
      BY <1>5, <2>2, <3>1 DEF LockBusy
    <3>3. \A t \in Servers : t # Owner[r] => pump'[t] = pump[t]
      BY <1>5, <2>2 DEF LockBusy, PumpPolls, PumpEnds
    <3>4. alive' = alive
      BY <1>5 DEF LockBusy
    <3> HIDE DEF Promotion
    <3> QED
      BY <3>1, <3>2, <3>3, <3>4 DEF PumpInv
  <2> QED
    BY <2>1, <2>2
<1>6. ASSUME NEW r \in Runs, VerifyTicket(r) PROVE PumpInv'
  BY <1>6 DEF VerifyTicket
<1>7. ASSUME NEW r \in Runs, CountActive(r) PROVE PumpInv'
  BY <1>7 DEF CountActive, LiveLeases
<1>8. ASSUME NEW r \in Runs, WriteLease(r) PROVE PumpInv'
  BY <1>8 DEF WriteLease
<1>9. ASSUME NEW r \in Runs, WriteTicket(r) PROVE PumpInv'
  BY <1>9 DEF WriteTicket, LiveTickets
<1>10. ASSUME NEW r \in Runs, RemoveTicket(r) PROVE PumpInv'
  BY <1>10 DEF RemoveTicket
<1>11. ASSUME NEW r \in Runs, UndoLease(r) PROVE PumpInv'
  BY <1>11 DEF UndoLease, Wake
<1>12. ASSUME NEW r \in Runs, Unlock(r) PROVE PumpInv'
  <2>1. CASE ~Promoting(r)
    BY <1>12, <2>1 DEF Unlock
  <2>2. CASE Promoting(r)
    <3>1. \A q \in Runs : Promotion(q)' => Promotion(q) /\ q # r
      BY <1>12, <2>2 DEF Unlock
    <3>2. \A q \in Runs : Live(q) /\ Promotion(q)' => Owner[q] # Owner[r]
      BY <1>12, <2>2, <3>1 DEF Unlock
    <3>3. \A t \in Servers : t # Owner[r] => pump'[t] = pump[t]
      BY <1>12, <2>2 DEF Unlock, PumpPolls, PumpEnds
    <3>4. alive' = alive
      BY <1>12 DEF Unlock
    <3> HIDE DEF Promotion
    <3> QED
      BY <3>1, <3>2, <3>3, <3>4 DEF PumpInv
  <2> QED
    BY <2>1, <2>2
<1>13. ASSUME NEW r \in Runs, Register(r) PROVE PumpInv'
  BY <1>13 DEF Register, Wake
<1>14. ASSUME NEW r \in Runs, Finish(r) PROVE PumpInv'
  BY <1>14 DEF Finish
<1>15. ASSUME NEW r \in Runs, ReadTicket(r) PROVE PumpInv'
  BY <1>15 DEF ReadTicket, Wake
<1>16. ASSUME NEW r \in Runs, UnlinkTicket(r) PROVE PumpInv'
  BY <1>16 DEF UnlinkTicket, Wake
<1>17. ASSUME NEW r \in Runs, Settle(r) PROVE PumpInv'
  BY <1>17 DEF Settle
<1>18. ASSUME NEW r \in Runs, ReleaseLease(r) PROVE PumpInv'
  BY <1>18 DEF ReleaseLease, Wake
<1>19. ASSUME NEW r \in Runs, RegisterFails(r) PROVE PumpInv'
  BY <1>19 DEF RegisterFails
<1>20. ASSUME NEW r \in Runs, Cancel(r) PROVE PumpInv'
  BY <1>20 DEF Cancel, Wake
<1>21. ASSUME NEW s \in Servers, TimerFires(s) PROVE PumpInv'
  BY <1>21 DEF TimerFires
<1>22. ASSUME NEW s \in Servers, PumpIdles(s) PROVE PumpInv'
  BY <1>22 DEF PumpIdles, HeadReady
<1>23. ASSUME NEW s \in Servers, PumpReturns(s) PROVE PumpInv'
  BY <1>23 DEF PumpReturns, PumpEnds
<1>24. ASSUME NEW s \in Servers, PumpPromotes(s) PROVE PumpInv'
  BY <1>24 DEF PumpPromotes, HeadReady
<1>25. ASSUME NEW s \in Servers, PumpRejects(s) PROVE PumpInv'
  BY <1>25 DEF PumpRejects, HeadReady
<1>26. ASSUME NEW s \in Servers, PumpReadsTicket(s) PROVE PumpInv'
  BY <1>26 DEF PumpReadsTicket
<1>27. ASSUME NEW s \in Servers, PumpUnlinksTicket(s) PROVE PumpInv'
  BY <1>27 DEF PumpUnlinksTicket
<1>28. ASSUME NEW s \in Servers, PumpThrows(s) PROVE PumpInv'
  BY <1>28 DEF PumpThrows
<1>29. ASSUME NEW s \in Servers, Crash(s) PROVE PumpInv'
  BY <1>29 DEF Crash
<1>30. CASE UNCHANGED vars
  BY <1>30 DEF vars
<1>31. ASSUME NEW r \in Runs, GiveBack(r) PROVE PumpInv'
  BY <1>31 DEF GiveBack, Wake
<1>32. ASSUME NEW r \in Runs, Launch(r) PROVE PumpInv'
  BY <1>32 DEF Launch
<1>33. ASSUME NEW r \in Runs, CancelEarly(r) PROVE PumpInv'
  BY <1>33 DEF CancelEarly
<1>34. ASSUME NEW r \in Runs, SettleRefused(r) PROVE PumpInv'
  BY <1>34 DEF SettleRefused
<1> HIDE DEF IInv, PumpInv
<1> QED
  BY <1>1, <1>2, <1>3, <1>4, <1>5, <1>6, <1>7, <1>8, <1>9, <1>10, <1>11, <1>12,
    <1>13, <1>14, <1>15, <1>16, <1>17, <1>18, <1>19, <1>20, <1>21, <1>22, <1>23, <1>24,
    <1>25, <1>26, <1>27, <1>28, <1>29, <1>30, <1>31, <1>32, <1>33, <1>34
    DEF SerialNext, SerialSectionStep, RunStep, RunTrouble, PumpStep

\* A run leaves the queue with the step that makes it active or rejects it.
LEMMA QueueSteps == IInv /\ [SerialNext]_vars => QueueInv'
<1> SUFFICES ASSUME IInv, [SerialNext]_vars PROVE QueueInv'
  OBVIOUS
<1> USE OwnerAssumption, FreeAssumption, TopLevelAssumption, CapacityAssumption DEF IInv
<1> USE DEF QueueInv, TypeInv, TypeOK, RunSteps, PumpInv, RunsInv, RunInv, ReleasingInv,
    Ending, Unready, Queued, Promotion
<1> USE DEF At, GoTo, Live, SectionSteps, Promoting, pumpVars, diskVars
<1>1. ASSUME NEW r \in Runs, Start(r) PROVE QueueInv'
  BY <1>1 DEF Start
<1>2. ASSUME NEW r \in Runs, TakeLock(r) PROVE QueueInv'
  BY <1>2 DEF TakeLock
<1>3. ASSUME NEW r \in Runs, SerialFindStaleLock(r) PROVE QueueInv'
  BY <1>3 DEF SerialFindStaleLock, FindStaleLock
<1>4. ASSUME NEW r \in Runs, StealLock(r) PROVE QueueInv'
  BY <1>4 DEF StealLock
<1>5. ASSUME NEW r \in Runs, LockBusy(r) PROVE QueueInv'
  <2>1. queue' = queue /\ alive' = alive
    BY <1>5 DEF LockBusy
  <2>2. \A q \in Runs : Live(q) /\ Queued(q) => Queued(q)'
    BY <1>5 DEF LockBusy
  <2> QED
    BY <2>1, <2>2, StaysInQueue
<1>6. ASSUME NEW r \in Runs, VerifyTicket(r) PROVE QueueInv'
  BY <1>6 DEF VerifyTicket
<1>7. ASSUME NEW r \in Runs, CountActive(r) PROVE QueueInv'
  <2>1. queue' = queue /\ alive' = alive
    BY <1>7 DEF CountActive
  <2>2. \A q \in Runs : Live(q) /\ Queued(q) => Queued(q)'
    BY <1>7 DEF CountActive
  <2> QED
    BY <2>1, <2>2, StaysInQueue
<1>8. ASSUME NEW r \in Runs, WriteLease(r) PROVE QueueInv'
  BY <1>8 DEF WriteLease
<1>9. ASSUME NEW r \in Runs, WriteTicket(r) PROVE QueueInv'
  <2>1. Live(r) /\ alive' = alive /\ ~Queued(r)
    BY <1>9 DEF WriteTicket
  <2>2. \A q \in Runs : Live(q) /\ Queued(q) => Queued(q)'
    BY <1>9 DEF WriteTicket, LiveTickets
  <2>3. CASE queue' = queue
    BY <2>1, <2>2, <2>3, StaysInQueue
  <2>4. CASE queue' # queue
    <3>1. queue' = [queue EXCEPT ![Owner[r]] = Append(@, r)] /\ tickets' = LiveTickets \cup {r}
      BY <1>9, <2>4 DEF WriteTicket
    <3>2. Queued(r)'
      BY <1>9, <3>1 DEF WriteTicket
    <3> QED
      BY <2>1, <2>2, <3>1, <3>2, JoinsQueue
  <2> QED
    BY <2>3, <2>4
<1>10. ASSUME NEW r \in Runs, RemoveTicket(r) PROVE QueueInv'
  BY <1>10 DEF RemoveTicket
<1>11. ASSUME NEW r \in Runs, UndoLease(r) PROVE QueueInv'
  BY <1>11 DEF UndoLease
<1>12. ASSUME NEW r \in Runs, Unlock(r) PROVE QueueInv'
  <2>1. \A q \in Runs : q # r /\ Live(q) /\ Queued(q) => Queued(q)'
    BY <1>12 DEF Unlock
  <2>2. Live(r) /\ alive' = alive
    BY <1>12 DEF Unlock
  <2>3. CASE Promoting(r) /\ r \in leases
    BY <1>12, <2>1, <2>2, <2>3, LeavesQueue DEF Unlock
  <2>4. CASE ~(Promoting(r) /\ r \in leases)
    <3>1. queue' = queue
      BY <1>12, <2>4 DEF Unlock
    <3>2. Queued(r) => Queued(r)'
      BY <1>12, <2>4 DEF Unlock
    <3> QED
      <4>1. \A q \in Runs : Live(q) /\ Queued(q) => Queued(q)'
        BY <2>1, <3>2
      <4> QED
        BY <2>2, <3>1, <4>1, StaysInQueue
  <2> QED
    BY <2>3, <2>4
<1>13. ASSUME NEW r \in Runs, Register(r) PROVE QueueInv'
  <2>1. queue' = queue /\ alive' = alive
    BY <1>13 DEF Register
  <2>2. \A q \in Runs : Live(q) /\ Queued(q) => Queued(q)'
    BY <1>13 DEF Register
  <2> QED
    BY <2>1, <2>2, StaysInQueue
<1>14. ASSUME NEW r \in Runs, Finish(r) PROVE QueueInv'
  BY <1>14 DEF Finish
<1>15. ASSUME NEW r \in Runs, ReadTicket(r) PROVE QueueInv'
  <2>1. queue' = queue /\ alive' = alive
    BY <1>15 DEF ReadTicket
  <2>2. \A q \in Runs : Live(q) /\ Queued(q) => Queued(q)'
    BY <1>15 DEF ReadTicket
  <2> QED
    BY <2>1, <2>2, StaysInQueue
<1>16. ASSUME NEW r \in Runs, UnlinkTicket(r) PROVE QueueInv'
  BY <1>16 DEF UnlinkTicket
<1>17. ASSUME NEW r \in Runs, Settle(r) PROVE QueueInv'
  BY <1>17 DEF Settle
<1>18. ASSUME NEW r \in Runs, ReleaseLease(r) PROVE QueueInv'
  BY <1>18 DEF ReleaseLease
<1>19. ASSUME NEW r \in Runs, RegisterFails(r) PROVE QueueInv'
  <2>1. Live(r) /\ alive' = alive
    BY <1>19 DEF RegisterFails
  <2>2. \A q \in Runs : q # r /\ Live(q) /\ Queued(q) => Queued(q)'
    BY <1>19 DEF RegisterFails
  <2>3. TypeOK /\ QueueInv
    OBVIOUS
  <2>4. CASE pc[r] = "queued"
    BY <1>19, <2>1, <2>2, <2>4, LeavesQueue DEF RegisterFails
  <2>5. CASE pc[r] # "queued"
    <3>1. queue' = queue /\ ~Queued(r)
      BY <1>19, <2>5 DEF RegisterFails
    <3> QED
      <4>1. \A q \in Runs : Live(q) /\ Queued(q) => Queued(q)'
        BY <2>2, <3>1
      <4> HIDE DEF IInv, QueueInv, TypeInv, Queued
      <4> QED
        BY <2>1, <3>1, <4>1, <2>3, StaysInQueue
  <2> QED
    BY <2>4, <2>5
<1>20. ASSUME NEW r \in Runs, Cancel(r) PROVE QueueInv'
  BY <1>20 DEF Cancel
<1>21. ASSUME NEW s \in Servers, TimerFires(s) PROVE QueueInv'
  BY <1>21 DEF TimerFires
<1>22. ASSUME NEW s \in Servers, PumpIdles(s) PROVE QueueInv'
  BY <1>22 DEF PumpIdles, HeadReady
<1>23. ASSUME NEW s \in Servers, PumpReturns(s) PROVE QueueInv'
  BY <1>23 DEF PumpReturns
<1>24. ASSUME NEW s \in Servers, PumpPromotes(s) PROVE QueueInv'
  BY <1>24 DEF PumpPromotes, HeadReady
<1>25. ASSUME NEW s \in Servers, PumpRejects(s) PROVE QueueInv'
  <2> DEFINE r == Head(queue[s])
  <2>1. r \in Runs /\ Owner[r] = s
    BY <1>25, HeadTailProperties, LenProperties DEF PumpRejects, HeadReady
  <2>2. Dequeue(r) /\ Live(r) /\ alive' = alive
    BY <1>25, <2>1 DEF PumpRejects
  <2>3. \A q \in Runs : q # r /\ Live(q) /\ Queued(q) => Queued(q)'
    BY <1>25, <2>1 DEF PumpRejects
  <2> HIDE DEF r
  <2> QED
    BY <2>1, <2>2, <2>3, LeavesQueue
<1>26. ASSUME NEW s \in Servers, PumpReadsTicket(s) PROVE QueueInv'
  BY <1>26 DEF PumpReadsTicket
<1>27. ASSUME NEW s \in Servers, PumpUnlinksTicket(s) PROVE QueueInv'
  <2>1. queue' = queue /\ alive' = alive
    BY <1>27 DEF PumpUnlinksTicket
  <2>2. \A q \in Runs : Live(q) /\ Queued(q) => Queued(q)'
    BY <1>27, ZenonT(60) DEF PumpUnlinksTicket
  <2> QED
    BY <2>1, <2>2, StaysInQueue
<1>28. ASSUME NEW s \in Servers, PumpThrows(s) PROVE QueueInv'
  BY <1>28 DEF PumpThrows
<1>29. ASSUME NEW s \in Servers, Crash(s) PROVE QueueInv'
  BY <1>29 DEF Crash
<1>30. CASE UNCHANGED vars
  BY <1>30 DEF vars
<1>31. ASSUME NEW r \in Runs, GiveBack(r) PROVE QueueInv'
  BY <1>31 DEF GiveBack
<1>32. ASSUME NEW r \in Runs, Launch(r) PROVE QueueInv'
  BY <1>32 DEF Launch
<1>33. ASSUME NEW r \in Runs, CancelEarly(r) PROVE QueueInv'
  BY <1>33 DEF CancelEarly
<1>34. ASSUME NEW r \in Runs, SettleRefused(r) PROVE QueueInv'
  BY <1>34 DEF SettleRefused
<1> HIDE DEF IInv, QueueInv
<1> QED
  BY <1>1, <1>2, <1>3, <1>4, <1>5, <1>6, <1>7, <1>8, <1>9, <1>10, <1>11, <1>12,
    <1>13, <1>14, <1>15, <1>16, <1>17, <1>18, <1>19, <1>20, <1>21, <1>22, <1>23, <1>24,
    <1>25, <1>26, <1>27, <1>28, <1>29, <1>30, <1>31, <1>32, <1>33, <1>34
    DEF SerialNext, SerialSectionStep, RunStep, RunTrouble, PumpStep

\* A run has its lease or its ticket where it should, whoever prunes those of the dead.
LEMMA RunsSteps == IInv /\ [SerialNext]_vars => RunsInv'
<1> SUFFICES ASSUME IInv, [SerialNext]_vars PROVE RunsInv'
  OBVIOUS
<1> USE OwnerAssumption, FreeAssumption, TopLevelAssumption, CapacityAssumption DEF IInv
<1> USE DEF RunsInv, TypeInv, TypeOK, RunSteps, LockInv, PumpInv, QueueInv, RunInv,
    ReleasingInv, Queued, Promotion, Ending, Unready
<1> USE DEF At, GoTo, Live, SectionSteps, Promoting, pumpVars, diskVars
<1>1. ASSUME NEW r \in Runs, Start(r) PROVE RunsInv'
  BY <1>1 DEF Start
<1>2. ASSUME NEW r \in Runs, TakeLock(r) PROVE RunsInv'
  BY <1>2 DEF TakeLock
<1>3. ASSUME NEW r \in Runs, SerialFindStaleLock(r) PROVE RunsInv'
  BY <1>3 DEF SerialFindStaleLock, FindStaleLock
<1>4. ASSUME NEW r \in Runs, StealLock(r) PROVE RunsInv'
  BY <1>4 DEF StealLock
<1>5. ASSUME NEW r \in Runs, LockBusy(r) PROVE RunsInv'
  <2>1. \A q \in Runs : Live(q)' => RunInv(q)'
    BY <1>5 DEF LockBusy
  <2>2. releasing' = releasing /\ alive' = alive
    BY <1>5 DEF LockBusy, PumpPolls, PumpEnds
  <2>3. \A q \in Runs : pc[q] \in Ending => pc'[q] \in Ending
    BY <1>5 DEF LockBusy
  <2> QED
    BY <2>1, <2>2, <2>3
<1>6. ASSUME NEW r \in Runs, VerifyTicket(r) PROVE RunsInv'
  BY <1>6 DEF VerifyTicket
<1>7. ASSUME NEW r \in Runs, CountActive(r) PROVE RunsInv'
  <2>1. \A q \in Runs : Live(q) => (q \in leases' <=> q \in leases)
    BY <1>7 DEF CountActive, LiveLeases
  <2>2. \E step \in {"lease", "ticket", "unlock"} :
           /\ pc' = [pc EXCEPT ![r] = step]
           /\ step = "lease" => ~(r \in ready /\ r \in aborted)
           /\ step = "ticket" => r \notin ready
    BY <1>7 DEF CountActive
  <2>3. pc[r] = "count" /\ UNCHANGED <<alive, tickets, ready, aborted, releasing>>
    BY <1>7 DEF CountActive
  <2> QED
    BY <2>1, <2>2, <2>3
<1>8. ASSUME NEW r \in Runs, WriteLease(r) PROVE RunsInv'
  BY <1>8 DEF WriteLease
<1>9. ASSUME NEW r \in Runs, WriteTicket(r) PROVE RunsInv'
  BY <1>9 DEF WriteTicket, LiveTickets
<1>10. ASSUME NEW r \in Runs, RemoveTicket(r) PROVE RunsInv'
  BY <1>10 DEF RemoveTicket
<1>11. ASSUME NEW r \in Runs, UndoLease(r) PROVE RunsInv'
  BY <1>11 DEF UndoLease, Wake
<1>12. ASSUME NEW r \in Runs, Unlock(r) PROVE RunsInv'
  <2>1. \A q \in Runs : Live(q)' => RunInv(q)'
    BY <1>12 DEF Unlock
  <2>2. releasing' = releasing /\ alive' = alive
    BY <1>12 DEF Unlock, PumpPolls, PumpEnds
  <2>3. \A q \in Runs : pc[q] \in Ending => pc'[q] \in Ending
    BY <1>12 DEF Unlock
  <2> QED
    BY <2>1, <2>2, <2>3
<1>13. ASSUME NEW r \in Runs, Register(r) PROVE RunsInv'
  <2>1. \A q \in Runs : Live(q)' => RunInv(q)'
    BY <1>13 DEF Register
  <2>2. releasing' = releasing /\ alive' = alive
    BY <1>13 DEF Register, Wake
  <2>3. \A q \in Runs : pc[q] \in Ending => pc'[q] \in Ending
    BY <1>13 DEF Register
  <2> QED
    BY <2>1, <2>2, <2>3
<1>14. ASSUME NEW r \in Runs, Finish(r) PROVE RunsInv'
  BY <1>14 DEF Finish
<1>15. ASSUME NEW r \in Runs, ReadTicket(r) PROVE RunsInv'
  <2>1. \A q \in Runs : Live(q)' => RunInv(q)'
    BY <1>15 DEF ReadTicket
  <2>2. releasing' = releasing /\ alive' = alive
    BY <1>15 DEF ReadTicket, Wake
  <2>3. \A q \in Runs : pc[q] \in Ending => pc'[q] \in Ending
    BY <1>15 DEF ReadTicket
  <2> QED
    BY <2>1, <2>2, <2>3
<1>16. ASSUME NEW r \in Runs, UnlinkTicket(r) PROVE RunsInv'
  BY <1>16 DEF UnlinkTicket, Wake
<1>17. ASSUME NEW r \in Runs, Settle(r) PROVE RunsInv'
  BY <1>17 DEF Settle
<1>18. ASSUME NEW r \in Runs, ReleaseLease(r) PROVE RunsInv'
  BY <1>18 DEF ReleaseLease, Wake
<1>19. ASSUME NEW r \in Runs, RegisterFails(r) PROVE RunsInv'
  BY <1>19 DEF RegisterFails, Dequeue
<1>20. ASSUME NEW r \in Runs, Cancel(r) PROVE RunsInv'
  BY <1>20 DEF Cancel, Wake
<1>21. ASSUME NEW s \in Servers, TimerFires(s) PROVE RunsInv'
  BY <1>21 DEF TimerFires
<1>22. ASSUME NEW s \in Servers, PumpIdles(s) PROVE RunsInv'
  BY <1>22 DEF PumpIdles, HeadReady
<1>23. ASSUME NEW s \in Servers, PumpReturns(s) PROVE RunsInv'
  BY <1>23 DEF PumpReturns, PumpEnds
<1>24. ASSUME NEW s \in Servers, PumpPromotes(s) PROVE RunsInv'
  BY <1>24 DEF PumpPromotes, HeadReady
<1>25. ASSUME NEW s \in Servers, PumpRejects(s) PROVE RunsInv'
  BY <1>25 DEF PumpRejects, HeadReady, Dequeue
<1>26. ASSUME NEW s \in Servers, PumpReadsTicket(s) PROVE RunsInv'
  <2>1. /\ releasing' \in {releasing, [releasing EXCEPT ![s] = Free]}
        /\ UNCHANGED <<alive, leases, tickets, pc, ready, aborted>>
    BY <1>26 DEF PumpReadsTicket
  <2> QED
    BY <2>1
<1>27. ASSUME NEW s \in Servers, PumpUnlinksTicket(s) PROVE RunsInv'
  <2>1. /\ releasing[s] \in Runs /\ pc[releasing[s]] \in Ending
        /\ tickets' = tickets \ {releasing[s]}
        /\ releasing' = [releasing EXCEPT ![s] = Free]
        /\ UNCHANGED <<alive, leases, pc, ready, aborted>>
    BY <1>27 DEF PumpUnlinksTicket
  <2> QED
    BY <2>1
<1>28. ASSUME NEW s \in Servers, PumpThrows(s) PROVE RunsInv'
  BY <1>28 DEF PumpThrows
<1>29. ASSUME NEW s \in Servers, Crash(s) PROVE RunsInv'
  BY <1>29 DEF Crash
<1>30. CASE UNCHANGED vars
  BY <1>30 DEF vars
<1>31. ASSUME NEW r \in Runs, GiveBack(r) PROVE RunsInv'
  <2>1. /\ pc[r] = "giveBack" /\ pc' = [pc EXCEPT ![r] = "failed"]
        /\ leases' = leases \ {r} /\ tickets' = tickets \ {r}
        /\ UNCHANGED <<alive, ready, aborted>>
    BY <1>31 DEF GiveBack
  <2>2. releasing' = releasing
    BY <1>31 DEF GiveBack, Wake
  <2>3. \A q \in Runs : Live(q)' => RunInv(q)'
    BY <2>1
  <2>4. \A q \in Runs : pc[q] \in Ending => pc'[q] \in Ending
    BY <2>1
  <2> QED
    BY <2>1, <2>2, <2>3, <2>4
<1>32. ASSUME NEW r \in Runs, Launch(r) PROVE RunsInv'
  BY <1>32 DEF Launch
<1>33. ASSUME NEW r \in Runs, CancelEarly(r) PROVE RunsInv'
  BY <1>33 DEF CancelEarly
<1>34. ASSUME NEW r \in Runs, SettleRefused(r) PROVE RunsInv'
  BY <1>34 DEF SettleRefused
<1> HIDE DEF IInv, RunsInv
<1> QED
  BY <1>1, <1>2, <1>3, <1>4, <1>5, <1>6, <1>7, <1>8, <1>9, <1>10, <1>11, <1>12,
    <1>13, <1>14, <1>15, <1>16, <1>17, <1>18, <1>19, <1>20, <1>21, <1>22, <1>23, <1>24,
    <1>25, <1>26, <1>27, <1>28, <1>29, <1>30, <1>31, <1>32, <1>33, <1>34
    DEF SerialNext, SerialSectionStep, RunStep, RunTrouble, PumpStep

\* Leases and tickets are only added behind a count that the lock has kept true.
LEMMA CapacitySteps == IInv /\ [SerialNext]_vars => CapacityInv'
<1> SUFFICES ASSUME IInv, [SerialNext]_vars PROVE CapacityInv'
  OBVIOUS
<1> USE OwnerAssumption, FreeAssumption, TopLevelAssumption, CapacityAssumption DEF IInv
<1> USE DEF CapacityInv, TypeInv, TypeOK, LockInv, CapacityRespected, LiveLeases,
    LiveTickets
<1> USE DEF At, GoTo, Live, SectionSteps, Promoting, pumpVars, diskVars
<1>1. ASSUME NEW r \in Runs, Start(r) PROVE CapacityInv'
  BY <1>1 DEF Start
<1>2. ASSUME NEW r \in Runs, TakeLock(r) PROVE CapacityInv'
  BY <1>2 DEF TakeLock
<1>3. ASSUME NEW r \in Runs, SerialFindStaleLock(r) PROVE CapacityInv'
  BY <1>3 DEF SerialFindStaleLock, FindStaleLock
<1>4. ASSUME NEW r \in Runs, StealLock(r) PROVE CapacityInv'
  BY <1>4 DEF StealLock
<1>5. ASSUME NEW r \in Runs, LockBusy(r) PROVE CapacityInv'
  BY <1>5 DEF LockBusy
<1>6. ASSUME NEW r \in Runs, VerifyTicket(r) PROVE CapacityInv'
  BY <1>6 DEF VerifyTicket
<1>7. ASSUME NEW r \in Runs, CountActive(r) PROVE CapacityInv'
  <2>1. LiveLeases' = LiveLeases /\ LiveTickets' = LiveTickets
    BY <1>7 DEF CountActive
  <2>2. At(r, "lease")' => Cardinality(LiveLeases) < MaxActiveChildren
    BY <1>7 DEF CountActive
  <2>3. \A q \in Runs \ {r} : At(q, "lease")' => At(q, "lease")
    BY <1>7 DEF CountActive
  <2> HIDE DEF LiveLeases, LiveTickets
  <2> QED
    BY <2>1, <2>2, <2>3
<1>8. ASSUME NEW r \in Runs, WriteLease(r) PROVE CapacityInv'
  <2>1. LiveLeases' = LiveLeases \cup {r} /\ LiveTickets' = LiveTickets
    BY <1>8 DEF WriteLease
  <2>2. IsFiniteSet(LiveLeases) /\ Cardinality(LiveLeases) < MaxActiveChildren
    BY <1>8, FS_Subset DEF WriteLease
  <2>3. \A q \in Runs : ~At(q, "lease")'
    BY <1>8 DEF WriteLease
  <2> HIDE DEF LiveLeases, LiveTickets
  <2>4. Cardinality(LiveLeases') <= MaxActiveChildren
    BY <2>1, <2>2, OneMore
  <2> QED
    BY <2>1, <2>3, <2>4
<1>9. ASSUME NEW r \in Runs, WriteTicket(r) PROVE CapacityInv'
  <2>1. LiveLeases' = LiveLeases
    BY <1>9 DEF WriteTicket
  <2>2. \A q \in Runs : At(q, "lease")' => At(q, "lease")
    BY <1>9 DEF WriteTicket
  <2>3. CASE Cardinality(LiveTickets) < MaxQueuedRuns
    <3>1. LiveTickets' = LiveTickets \cup {r} /\ IsFiniteSet(LiveTickets)
      BY <1>9, <2>3, FS_Subset DEF WriteTicket
    <3> HIDE DEF LiveLeases, LiveTickets
    <3>2. Cardinality(LiveTickets') <= MaxQueuedRuns
      BY <2>3, <3>1, OneMore
    <3> QED
      BY <2>1, <2>2, <3>2
  <2>4. CASE ~(Cardinality(LiveTickets) < MaxQueuedRuns)
    <3>1. LiveTickets' \subseteq LiveTickets
      BY <1>9, <2>4 DEF WriteTicket
    <3> QED
      BY <2>1, <2>2, <3>1, CapacityKept
  <2> QED
    BY <2>3, <2>4
<1>10. ASSUME NEW r \in Runs, RemoveTicket(r) PROVE CapacityInv'
  <2>1. LiveLeases' \subseteq LiveLeases /\ LiveTickets' \subseteq LiveTickets
    BY <1>10 DEF RemoveTicket
  <2>2. \A q \in Runs : At(q, "lease")' => At(q, "lease")
    BY <1>10 DEF RemoveTicket
  <2> QED
    BY <2>1, <2>2, CapacityKept
<1>11. ASSUME NEW r \in Runs, UndoLease(r) PROVE CapacityInv'
  <2>1. LiveLeases' \subseteq LiveLeases /\ LiveTickets' \subseteq LiveTickets
    BY <1>11 DEF UndoLease
  <2>2. \A q \in Runs : At(q, "lease")' => At(q, "lease")
    BY <1>11 DEF UndoLease
  <2> QED
    BY <2>1, <2>2, CapacityKept
<1>12. ASSUME NEW r \in Runs, Unlock(r) PROVE CapacityInv'
  <2>1. LiveLeases' \subseteq LiveLeases /\ LiveTickets' \subseteq LiveTickets
    BY <1>12 DEF Unlock
  <2>2. \A q \in Runs : At(q, "lease")' => At(q, "lease")
    BY <1>12 DEF Unlock
  <2> QED
    BY <2>1, <2>2, CapacityKept
<1>13. ASSUME NEW r \in Runs, Register(r) PROVE CapacityInv'
  BY <1>13 DEF Register
<1>14. ASSUME NEW r \in Runs, Finish(r) PROVE CapacityInv'
  BY <1>14 DEF Finish
<1>15. ASSUME NEW r \in Runs, ReadTicket(r) PROVE CapacityInv'
  BY <1>15 DEF ReadTicket
<1>16. ASSUME NEW r \in Runs, UnlinkTicket(r) PROVE CapacityInv'
  <2>1. LiveLeases' \subseteq LiveLeases /\ LiveTickets' \subseteq LiveTickets
    BY <1>16 DEF UnlinkTicket
  <2>2. \A q \in Runs : At(q, "lease")' => At(q, "lease")
    BY <1>16 DEF UnlinkTicket
  <2> QED
    BY <2>1, <2>2, CapacityKept
<1>17. ASSUME NEW r \in Runs, Settle(r) PROVE CapacityInv'
  BY <1>17 DEF Settle
<1>18. ASSUME NEW r \in Runs, ReleaseLease(r) PROVE CapacityInv'
  <2>1. LiveLeases' \subseteq LiveLeases /\ LiveTickets' \subseteq LiveTickets
    BY <1>18 DEF ReleaseLease
  <2>2. \A q \in Runs : At(q, "lease")' => At(q, "lease")
    BY <1>18 DEF ReleaseLease
  <2> QED
    BY <2>1, <2>2, CapacityKept
<1>19. ASSUME NEW r \in Runs, RegisterFails(r) PROVE CapacityInv'
  BY <1>19 DEF RegisterFails
<1>20. ASSUME NEW r \in Runs, Cancel(r) PROVE CapacityInv'
  BY <1>20 DEF Cancel
<1>21. ASSUME NEW s \in Servers, TimerFires(s) PROVE CapacityInv'
  BY <1>21 DEF TimerFires
<1>22. ASSUME NEW s \in Servers, PumpIdles(s) PROVE CapacityInv'
  BY <1>22 DEF PumpIdles
<1>23. ASSUME NEW s \in Servers, PumpReturns(s) PROVE CapacityInv'
  BY <1>23 DEF PumpReturns
<1>24. ASSUME NEW s \in Servers, PumpPromotes(s) PROVE CapacityInv'
  BY <1>24 DEF PumpPromotes
<1>25. ASSUME NEW s \in Servers, PumpRejects(s) PROVE CapacityInv'
  BY <1>25 DEF PumpRejects
<1>26. ASSUME NEW s \in Servers, PumpReadsTicket(s) PROVE CapacityInv'
  BY <1>26 DEF PumpReadsTicket
<1>27. ASSUME NEW s \in Servers, PumpUnlinksTicket(s) PROVE CapacityInv'
  <2>1. LiveLeases' \subseteq LiveLeases /\ LiveTickets' \subseteq LiveTickets
    BY <1>27 DEF PumpUnlinksTicket
  <2>2. \A q \in Runs : At(q, "lease")' => At(q, "lease")
    BY <1>27 DEF PumpUnlinksTicket
  <2> QED
    BY <2>1, <2>2, CapacityKept
<1>28. ASSUME NEW s \in Servers, PumpThrows(s) PROVE CapacityInv'
  <2>1. LiveLeases' \subseteq LiveLeases /\ LiveTickets' \subseteq LiveTickets
    BY <1>28 DEF PumpThrows
  <2>2. \A q \in Runs : At(q, "lease")' => At(q, "lease")
    BY <1>28 DEF PumpThrows
  <2> QED
    BY <2>1, <2>2, CapacityKept
<1>29. ASSUME NEW s \in Servers, Crash(s) PROVE CapacityInv'
  <2>1. LiveLeases' \subseteq LiveLeases /\ LiveTickets' \subseteq LiveTickets
    BY <1>29 DEF Crash
  <2>2. \A q \in Runs : At(q, "lease")' => At(q, "lease")
    BY <1>29 DEF Crash
  <2> QED
    BY <2>1, <2>2, CapacityKept
<1>30. CASE UNCHANGED vars
  BY <1>30 DEF vars
<1>31. ASSUME NEW r \in Runs, GiveBack(r) PROVE CapacityInv'
  <2>1. LiveLeases' \subseteq LiveLeases /\ LiveTickets' \subseteq LiveTickets
    BY <1>31 DEF GiveBack
  <2>2. \A q \in Runs : At(q, "lease")' => At(q, "lease")
    BY <1>31 DEF GiveBack
  <2> QED
    BY <2>1, <2>2, CapacityKept
<1>32. ASSUME NEW r \in Runs, Launch(r) PROVE CapacityInv'
  BY <1>32 DEF Launch
<1>33. ASSUME NEW r \in Runs, CancelEarly(r) PROVE CapacityInv'
  BY <1>33 DEF CancelEarly
<1>34. ASSUME NEW r \in Runs, SettleRefused(r) PROVE CapacityInv'
  BY <1>34 DEF SettleRefused
<1> HIDE DEF IInv, CapacityInv
<1> QED
  BY <1>1, <1>2, <1>3, <1>4, <1>5, <1>6, <1>7, <1>8, <1>9, <1>10, <1>11, <1>12,
    <1>13, <1>14, <1>15, <1>16, <1>17, <1>18, <1>19, <1>20, <1>21, <1>22, <1>23, <1>24,
    <1>25, <1>26, <1>27, <1>28, <1>29, <1>30, <1>31, <1>32, <1>33, <1>34
    DEF SerialNext, SerialSectionStep, RunStep, RunTrouble, PumpStep

\* The inductive invariant.
LEMMA Invariance == SerialSpec => []IInv
<1>1. IInv /\ [SerialNext]_vars => IInv'
  BY TypeSteps, LockSteps, PumpingSteps, QueueSteps, RunsSteps, CapacitySteps DEF IInv
<1> QED
  BY <1>1, InitEstablishes, PTL DEF SerialSpec

-----------------------------------------------------------------------------
(* The theorems.                                                            *)

\* Every variable keeps its type, and the pump releases a ticket exactly while it is in the
\* middle of doing so (src/activeChildLease.ts:349).
THEOREM LeaseTypes == SerialSpec => []TypeOK
<1>1. IInv => TypeOK
  BY DEF IInv, TypeInv
<1> QED
  BY <1>1, Invariance, PTL

\* However many processes admit, promote and die, the leases of the living never exceed the
\* execution ceiling, nor their tickets the queue's limit (README.md:413).
THEOREM RespectedCapacity == SerialSpec => []CapacityRespected
<1>1. IInv => CapacityRespected
  BY DEF IInv, CapacityInv
<1> QED
  BY <1>1, Invariance, PTL

\* A living run that is queued or active has a file that tells so to other processes
\* (persistedRunLiveness, src/runTask.ts:4141).
THEOREM AttributableRuns == SerialSpec => []LiveRunsAreAttributable
<1>1. IInv => LiveRunsAreAttributable
  <2> SUFFICES ASSUME IInv, NEW r \in Runs, Live(r)
               PROVE  /\ r \in InQueue /\ r \notin aborted => r \in leases \cup tickets
                      /\ pc[r] \in {"attaching", "active"} => r \in leases
    BY DEF LiveRunsAreAttributable
  <2>1. RunInv(r) /\ pc[r] \in RunSteps
    BY DEF IInv, RunsInv, TypeInv, TypeOK
  <2>2. r \in InQueue => Queued(r)
    BY DEF IInv, QueueInv, InQueue, Live
  <2>3. Queued(r) /\ r \notin aborted => r \in leases \cup tickets
    BY <2>1 DEF RunInv, Queued, Promotion, SectionSteps, Ending, Unready
  <2> QED
    BY <2>1, <2>2, <2>3 DEF RunInv
<1> QED
  BY <1>1, Invariance, PTL

\* A run that is over has left neither lease nor ticket, but for the lease of one whose
\* settlement was refused or that was cancelled before its launch (src/runTask.ts:3033,
\* 3119, 4773).
THEOREM NothingLeaked == SerialSpec => []NothingLeaks
<1>1. IInv => NothingLeaks
  BY DEF IInv, RunsInv, RunInv, NothingLeaks, At, Over
<1> QED
  BY <1>1, Invariance, PTL

-----------------------------------------------------------------------------
(* The invariant of RunReconciliation.                                      *)

Confirming == {"leaseAgain", "ticketAgain", "settle"}

ReconciliationTypeOK ==
    /\ claim \in [Runs -> Claims]
    /\ observing \in [Servers -> Runs \cup {Free}]
    /\ look \in [Servers -> Looks]
    /\ \A s \in Servers : look[s] # "idle" => observing[s] # Free

\* What the status of its claim tells about a run whose process lives.
Standing(r) ==
    /\ claim[r] # "none" => pc[r] \notin {"idle", "admitted", "queued"}
    /\ claim[r] # "none" /\ r \notin ready => pc[r] \in Ending \cup Unready \cup {"active"}
    /\ claim[r] = "working" => pc[r] \notin {"releaseLease", "done"}
    /\ claim[r] = "working" /\ pc[r] \in {"readTicket", "unlinkTicket", "settle", "stuck"}
          /\ r \notin aborted => r \in leases

\* A run that others may take for lost: it was cancelled in the queue, or its
\* registration failed behind its claim.
Forsaken(r) ==
    /\ r \notin leases /\ r \notin tickets
    /\ \/ r \in aborted /\ pc[r] \in Ending \cup {"waiting", "unlock"}
       \/ pc[r] = "failed"

\* What an observer has seen in its two phases; the second has the claim lock.
Sight(s) ==
    /\ look[s] # "idle" => claim[observing[s]] # "none"
    /\ look[s] \in Confirming =>
          /\ claim[observing[s]] = "working"
          /\ \A t \in alive : look[t] \in Confirming /\ observing[t] = observing[s] => t = s
    /\ look[s] \in {"reread", "leaseAgain"} /\ Live(observing[s]) =>
          observing[s] \notin tickets
    /\ look[s] \in {"ticketAgain", "settle"} /\ Live(observing[s]) => Forsaken(observing[s])

StandingInv == \A r \in Runs : Live(r) => Standing(r)
SightInv == \A s \in alive : Sight(s)
LossInv == \A r \in Runs : claim[r] = "restart_drift" /\ Live(r) => Forsaken(r)

RInv == ReconciliationTypeOK /\ StandingInv /\ SightInv /\ LossInv

-----------------------------------------------------------------------------
(* The invariant of the capacity survives the observers.                    *)

\* Whoever looks for leases and tickets removes only those of dead processes.
LEMMA PruningKeeps ==
    ASSUME IInv, UNCHANGED <<alive, capLock, pc, queue, ready, aborted, pumpVars>>,
           leases' \subseteq leases, tickets' \subseteq tickets,
           \A r \in Runs : Live(r) =>
              (r \in leases => r \in leases') /\ (r \in tickets => r \in tickets')
    PROVE  IInv'
<1> USE OwnerAssumption DEF IInv, pumpVars
<1>1. TypeInv'
  BY FS_Subset DEF TypeInv, TypeOK
<1>2. LockInv'
  BY DEF LockInv, SoleThief, At, Live
<1>3. PumpInv'
  BY DEF PumpInv, Promotion, Live
<1>4. QueueInv'
  <2>1. \A r \in Runs : Live(r) /\ Queued(r) => Queued(r)'
    BY DEF Queued, Promotion
  <2> QED
    BY <2>1, StaysInQueue DEF TypeInv
<1>5. RunsInv'
  <2>1. \A r \in Runs : Live(r)' => RunInv(r)'
    BY DEF RunsInv, RunInv, Live
  <2> QED
    BY <2>1 DEF RunsInv, ReleasingInv
<1>6. CapacityInv'
  <2>1. LiveLeases' \subseteq LiveLeases /\ LiveTickets' \subseteq LiveTickets
    BY DEF LiveLeases, LiveTickets, Live
  <2>2. \A r \in Runs : At(r, "lease")' => At(r, "lease")
    BY DEF At, Live
  <2> QED
    BY <2>1, <2>2, CapacityKept
<1> QED
  BY <1>1, <1>2, <1>3, <1>4, <1>5, <1>6

LEMMA CapacitySurvives == IInv /\ RInv /\ [ReconciliationNext]_allVars => IInv'
<1> SUFFICES ASSUME IInv, RInv, [ReconciliationNext]_allVars PROVE IInv'
  OBVIOUS
<1>1. ASSUME [SerialNext]_vars PROVE IInv'
  BY <1>1, TypeSteps, LockSteps, PumpingSteps, QueueSteps, RunsSteps, CapacitySteps DEF IInv
<1>2. CASE OwnerStep
  <2>1. SerialNext
    BY <1>2 DEF OwnerStep, RefuseSettlement, SerialNext, RunStep, RunTrouble
  <2> QED
    BY <1>1, <2>1
<1>3. ASSUME NEW r \in Runs, RegisterClaim(r) \/ FailRegistration(r) \/ SettleClaim(r)
      PROVE  IInv'
  <2>1. SerialNext
    BY <1>3 DEF RegisterClaim, FailRegistration, SettleClaim, SerialNext, RunStep, RunTrouble
  <2> QED
    BY <1>1, <2>1
<1>4. ASSUME NEW s \in Servers, LookForLease(s) PROVE IInv'
  <2>1. /\ leases' \in {leases, LiveLeases} /\ tickets' = tickets
        /\ UNCHANGED <<alive, capLock, pc, queue, ready, aborted, pumpVars>>
    BY <1>4 DEF LookForLease
  <2> QED
    BY <2>1, PruningKeeps DEF LiveLeases
<1>5. ASSUME NEW s \in Servers, LookForTicket(s) PROVE IInv'
  <2>1. /\ \/ tickets' = tickets
           \/ tickets' = tickets \ {observing[s]} /\ observing[s] \notin LiveTickets
        /\ leases' = leases
        /\ UNCHANGED <<alive, capLock, pc, queue, ready, aborted, pumpVars>>
    BY <1>5 DEF LookForTicket
  <2> QED
    BY <2>1, PruningKeeps DEF LiveTickets
<1>6. ASSUME NEW s \in Servers,
             (\E r \in Runs : ReadClaim(s, r)) \/ RereadClaim(s) \/ SettleOwnerLoss(s)
      PROVE  IInv'
  <2>1. UNCHANGED vars
    BY <1>6 DEF ReadClaim, RereadClaim, SettleOwnerLoss
  <2> QED
    BY <1>1, <2>1
<1>7. CASE UNCHANGED allVars
  BY <1>1, <1>7 DEF allVars
<1> QED
  BY <1>2, <1>3, <1>4, <1>5, <1>6, <1>7 DEF ReconciliationNext, ObserverStep

-----------------------------------------------------------------------------
(* The owner.                                                               *)

\* Whatever its owner does, a run stays what its claim says, gets no ticket back, and stays
\* forsaken.
Kept ==
    /\ alive' \subseteq alive
    /\ \A r \in Runs : Live(r)' =>
          /\ Live(r)
          /\ Standing(r) => Standing(r)'
          /\ claim[r] # "none" /\ Standing(r) /\ r \notin tickets => r \notin tickets'
          /\ Forsaken(r) => Forsaken(r)'

\* A step of the owner that leaves all claims as they are.
PlainStep == OwnerStep \/ \E r \in Runs : FailRegistration(r) /\ UNCHANGED claim

LEMMA OwnerKeeps == ASSUME IInv, RInv, PlainStep PROVE Kept
<1> USE OwnerAssumption, FreeAssumption DEF IInv, TypeInv, TypeOK, RunSteps, RunsInv, RunInv
<1> USE DEF Kept, Standing, Forsaken, Ending, Unready, reconcileVars
<1> USE DEF At, GoTo, Live, SectionSteps, Promoting, diskVars
<1>0. UNCHANGED <<claim, observing, look>>
  BY DEF PlainStep, OwnerStep, FailRegistration
<1>1. ASSUME NEW r \in Runs, Start(r) PROVE Kept
  BY <1>0, <1>1 DEF Start
<1>2. ASSUME NEW r \in Runs, TakeLock(r) PROVE Kept
  BY <1>0, <1>2 DEF TakeLock
<1>3. ASSUME NEW r \in Runs, SerialFindStaleLock(r) PROVE Kept
  BY <1>0, <1>3 DEF SerialFindStaleLock, FindStaleLock
<1>4. ASSUME NEW r \in Runs, StealLock(r) PROVE Kept
  BY <1>0, <1>4 DEF StealLock
<1>5. ASSUME NEW r \in Runs, LockBusy(r) PROVE Kept
  BY <1>0, <1>5 DEF LockBusy
<1>6. ASSUME NEW r \in Runs, VerifyTicket(r) PROVE Kept
  BY <1>0, <1>6 DEF VerifyTicket
<1>7. ASSUME NEW r \in Runs, CountActive(r) PROVE Kept
  BY <1>0, <1>7 DEF CountActive, LiveLeases
<1>8. ASSUME NEW r \in Runs, WriteLease(r) PROVE Kept
  BY <1>0, <1>8 DEF WriteLease
<1>9. ASSUME NEW r \in Runs, WriteTicket(r) PROVE Kept
  BY <1>0, <1>9 DEF WriteTicket, LiveTickets
<1>10. ASSUME NEW r \in Runs, RemoveTicket(r) PROVE Kept
  BY <1>0, <1>10 DEF RemoveTicket
<1>11. ASSUME NEW r \in Runs, UndoLease(r) PROVE Kept
  BY <1>0, <1>11 DEF UndoLease
<1>12. ASSUME NEW r \in Runs, Unlock(r) PROVE Kept
  BY <1>0, <1>12 DEF Unlock
<1>13. ASSUME NEW r \in Runs, Finish(r) PROVE Kept
  BY <1>0, <1>13 DEF Finish
<1>14. ASSUME NEW r \in Runs, ReadTicket(r) PROVE Kept
  BY <1>0, <1>14 DEF ReadTicket
<1>15. ASSUME NEW r \in Runs, UnlinkTicket(r) PROVE Kept
  BY <1>0, <1>15 DEF UnlinkTicket
<1>16. ASSUME NEW r \in Runs, ReleaseLease(r) PROVE Kept
  BY <1>0, <1>16 DEF ReleaseLease
<1>17. ASSUME NEW r \in Runs, RegisterFails(r) PROVE Kept
  BY <1>0, <1>17 DEF RegisterFails
<1>18. ASSUME NEW r \in Runs, Cancel(r) PROVE Kept
  BY <1>0, <1>18 DEF Cancel
<1>19. ASSUME NEW s \in Servers, TimerFires(s) PROVE Kept
  BY <1>0, <1>19 DEF TimerFires
<1>20. ASSUME NEW s \in Servers, PumpIdles(s) PROVE Kept
  BY <1>0, <1>20 DEF PumpIdles
<1>21. ASSUME NEW s \in Servers, PumpReturns(s) PROVE Kept
  BY <1>0, <1>21 DEF PumpReturns
<1>22. ASSUME NEW s \in Servers, PumpPromotes(s) PROVE Kept
  BY <1>0, <1>22 DEF PumpPromotes, HeadReady
<1>23. ASSUME NEW s \in Servers, PumpRejects(s) PROVE Kept
  BY <1>0, <1>23 DEF PumpRejects, HeadReady
<1>24. ASSUME NEW s \in Servers, PumpReadsTicket(s) PROVE Kept
  BY <1>0, <1>24 DEF PumpReadsTicket
<1>25. ASSUME NEW s \in Servers, PumpUnlinksTicket(s) PROVE Kept
  BY <1>0, <1>25 DEF PumpUnlinksTicket
<1>26. ASSUME NEW s \in Servers, PumpThrows(s) PROVE Kept
  BY <1>0, <1>26 DEF PumpThrows
<1>27. ASSUME NEW s \in Servers, Crash(s) PROVE Kept
  BY <1>0, <1>27 DEF Crash
<1>28. ASSUME NEW r \in Runs, GiveBack(r) PROVE Kept
  BY <1>0, <1>28 DEF GiveBack
<1>29. ASSUME NEW r \in Runs, Launch(r) PROVE Kept
  BY <1>0, <1>29 DEF Launch
<1>30. ASSUME NEW r \in Runs, CancelEarly(r) PROVE Kept
  BY <1>0, <1>30 DEF CancelEarly
<1>31. ASSUME NEW r \in Runs, RefuseSettlement(r) PROVE Kept
  BY <1>0, <1>31 DEF RefuseSettlement, SettleRefused
<1> HIDE DEF IInv, TypeInv, TypeOK, RunsInv, Kept
<1> QED
  BY <1>1, <1>2, <1>3, <1>4, <1>5, <1>6, <1>7, <1>8, <1>9, <1>10, <1>11, <1>12, <1>13, <1>14,
    <1>15, <1>16, <1>17, <1>18, <1>19, <1>20, <1>21, <1>22, <1>23, <1>24, <1>25, <1>26, <1>27,
    <1>28, <1>29, <1>30, <1>31
    DEF PlainStep, OwnerStep, FailRegistration, SerialSectionStep, PumpStep

LEMMA OwnerSteps == ASSUME IInv, RInv, PlainStep PROVE RInv'
<1>1. Kept /\ UNCHANGED <<claim, observing, look>>
  BY OwnerKeeps DEF PlainStep, OwnerStep, FailRegistration, reconcileVars
<1> USE <1>1 DEF RInv, Kept
<1>2. ReconciliationTypeOK'
  BY DEF ReconciliationTypeOK
<1>3. StandingInv'
  BY DEF StandingInv
<1>4. SightInv'
  <2> SUFFICES ASSUME NEW s \in alive' PROVE Sight(s)'
    BY DEF SightInv
  <2>1. s \in alive /\ s \in Servers /\ Sight(s)
    BY DEF SightInv, IInv, TypeInv, TypeOK
  <2>2. look[s] # "idle" => observing[s] \in Runs
    BY <2>1 DEF ReconciliationTypeOK
  <2>3. \A r \in Runs : Live(r)' => Standing(r) /\ Live(r)
    BY DEF StandingInv
  <2>4. look[s] = "idle" => Sight(s)'
    BY DEF Sight, Confirming
  <2>5. CASE look[s] # "idle"
    <3> DEFINE r == observing[s]
    <3>1. r \in Runs /\ claim[r] # "none"
      BY <2>1, <2>2, <2>5 DEF Sight
    <3>2. look[s] \in {"reread", "leaseAgain"} /\ Live(r)' => r \notin tickets'
      BY <2>1, <2>3, <3>1 DEF Sight
    <3>3. look[s] \in {"ticketAgain", "settle"} /\ Live(r)' => Forsaken(r)'
      BY <2>1, <2>3, <3>1 DEF Sight
    <3> QED
      BY <2>1, <3>1, <3>2, <3>3 DEF Sight, Live, Forsaken
  <2> QED
    BY <2>4, <2>5
<1>5. LossInv'
  BY DEF LossInv
<1> QED
  BY <1>2, <1>3, <1>4, <1>5

\* The owner writes a claim where there is none.
LEMMA ClaimSteps ==
    ASSUME IInv, RInv, NEW r \in Runs, Live(r), claim[r] = "none",
           pc[r] \in {"admitted", "attaching", "queued"},
           claim' = [claim EXCEPT ![r] = "working"],
           UNCHANGED <<alive, leases, tickets, aborted, observing, look>>,
           \/ /\ \E step \in Unready \cup {"active"} : pc' = [pc EXCEPT ![r] = step]
              /\ ready' = ready
           \/ pc' = [pc EXCEPT ![r] = "waiting"] /\ ready' = ready \cup {r}
    PROVE  RInv'
<1> USE OwnerAssumption DEF IInv, TypeInv, TypeOK, RInv, ReconciliationTypeOK
<1>1. ReconciliationTypeOK'
  BY DEF Claims
<1>2. StandingInv'
  BY DEF StandingInv, Standing, Live, Unready
<1>3. \A q \in Runs : q # r /\ Forsaken(q) => Forsaken(q)'
  BY DEF Forsaken
<1>4. SightInv'
  <2> SUFFICES ASSUME NEW s \in alive PROVE Sight(s)'
    BY DEF SightInv
  <2>1. Sight(s) /\ (look[s] # "idle" => observing[s] \in Runs \ {r})
    BY DEF SightInv, Sight
  <2>2. look[s] \in {"ticketAgain", "settle"} /\ Live(observing[s]) => Forsaken(observing[s])'
    BY <1>3, <2>1 DEF Sight, Forsaken
  <2> QED
    BY <2>1, <2>2 DEF Sight, Confirming, Live, Forsaken
<1>5. LossInv'
  BY <1>3 DEF LossInv, Live
<1> QED
  BY <1>1, <1>2, <1>4, <1>5

LEMMA RegisterSteps ==
    ASSUME IInv, RInv, NEW r \in Runs, RegisterClaim(r)
    PROVE  RInv' /\ claim[r] = "none"
<1>1. /\ Live(r) /\ pc[r] \in {"admitted", "queued"}
      /\ claim' = [claim EXCEPT ![r] = "working"]
      /\ UNCHANGED <<alive, leases, tickets, aborted, observing, look>>
  BY DEF RegisterClaim, Register, At, diskVars
<1>2. \/ /\ \E step \in Unready \cup {"active"} : pc' = [pc EXCEPT ![r] = step]
         /\ ready' = ready
      \/ pc' = [pc EXCEPT ![r] = "waiting"] /\ ready' = ready \cup {r}
  BY DEF RegisterClaim, Register, GoTo, Unready
<1>3. claim[r] = "none"
  BY <1>1 DEF RInv, StandingInv, Standing
<1> QED
  BY <1>1, <1>2, <1>3, ClaimSteps

\* A registration that fails behind its claim.
LEMMA FailSteps ==
    ASSUME IInv, RInv, NEW r \in Runs, FailRegistration(r)
    PROVE  RInv' /\ (claim' # claim => claim[r] = "none")
<1>1. CASE UNCHANGED claim
  BY <1>1, OwnerSteps DEF PlainStep
<1>2. CASE claim[r] = "none" /\ claim' = [claim EXCEPT ![r] = "working"]
  <2>1. /\ Live(r) /\ pc[r] \in {"admitted", "attaching", "queued"}
        /\ pc' = [pc EXCEPT ![r] = "giveBack"]
        /\ UNCHANGED <<alive, leases, tickets, ready, aborted, observing, look>>
    BY DEF FailRegistration, RegisterFails, At, GoTo, diskVars
  <2> QED
    BY <1>2, <2>1, ClaimSteps DEF Unready
<1> QED
  BY <1>1, <1>2 DEF FailRegistration

\* The owner settles a claim that no observer has locked.
LEMMA SettleSteps ==
    ASSUME IInv, RInv, NEW r \in Runs, SettleClaim(r)
    PROVE  RInv'
<1> USE OwnerAssumption DEF IInv, TypeInv, TypeOK, RInv, ReconciliationTypeOK
<1>1. /\ Live(r) /\ pc[r] = "settle" /\ ~ClaimLocked(r)
      /\ pc' = [pc EXCEPT ![r] = "releaseLease"]
      /\ claim' = [claim EXCEPT ![r] = IF @ = "working" THEN "terminal" ELSE @]
      /\ UNCHANGED <<alive, leases, tickets, ready, aborted, observing, look>>
  BY DEF SettleClaim, Settle, At, GoTo, diskVars
<1>2. ReconciliationTypeOK'
  BY <1>1 DEF Claims
<1>3. StandingInv'
  BY <1>1 DEF StandingInv, Standing, Live, Ending
<1>4. \A q \in Runs : Forsaken(q) => Forsaken(q)'
  BY <1>1 DEF Forsaken, Ending
<1>5. SightInv'
  <2> SUFFICES ASSUME NEW s \in alive PROVE Sight(s)'
    BY <1>1 DEF SightInv
  <2>1. Sight(s) /\ (look[s] # "idle" => observing[s] \in Runs)
    BY DEF SightInv
  <2>2. look[s] \in Confirming => observing[s] # r
    BY <1>1 DEF ClaimLocked, Confirming
  <2>3. look[s] \in {"ticketAgain", "settle"} /\ Live(observing[s]) => Forsaken(observing[s])'
    BY <1>1, <1>4, <2>1 DEF Sight, Forsaken
  <2> QED
    BY <1>1, <2>1, <2>2, <2>3 DEF Sight, Confirming, Live, Forsaken
<1>6. LossInv'
  BY <1>1, <1>4 DEF LossInv, Live
<1> QED
  BY <1>2, <1>3, <1>5, <1>6

-----------------------------------------------------------------------------
(* The observers.                                                           *)

\* The files of a registered run whose process lives tell that it is forsaken.
LEMMA NeitherFile ==
    ASSUME IInv, RInv, NEW r \in Runs, Live(r), claim[r] = "working",
           r \notin leases, r \notin tickets
    PROVE  Forsaken(r)
<1>1. RunInv(r) /\ Standing(r) /\ pc[r] \in RunSteps
  BY DEF IInv, RunsInv, RInv, StandingInv, TypeInv, TypeOK
<1>2. CASE r \in ready
  BY <1>1, <1>2 DEF RunInv, Standing, Forsaken, SectionSteps, Ending, Unready
<1>3. CASE r \notin ready
  BY <1>1, <1>3 DEF RunInv, Standing, Forsaken, Ending, Unready
<1> QED
  BY <1>2, <1>3

\* Looking changes what the observer has seen, and prunes the files of dead processes.
LEMMA LookingKeeps ==
    ASSUME IInv, RInv, NEW s \in alive, NEW step \in Looks, NEW run \in Runs \cup {Free},
           step # "idle" => run # Free,
           look' = [look EXCEPT ![s] = step], observing' = [observing EXCEPT ![s] = run],
           UNCHANGED <<alive, pc, ready, aborted, claim>>,
           \A r \in Runs : Live(r) =>
              (r \in leases' <=> r \in leases) /\ (r \in tickets' <=> r \in tickets),
           Sight(s)'
    PROVE  RInv'
<1> USE OwnerAssumption DEF IInv, TypeInv, TypeOK, RInv, ReconciliationTypeOK
<1>1. ReconciliationTypeOK'
  OBVIOUS
<1>2. StandingInv'
  BY DEF StandingInv, Standing, Live
<1>3. \A r \in Runs : Live(r) /\ Forsaken(r) => Forsaken(r)'
  BY DEF Forsaken
<1>4. LossInv'
  BY <1>3 DEF LossInv, Live
<1>5. ASSUME NEW t \in alive, t # s PROVE Sight(t)'
  <2>1. /\ Sight(t) /\ look'[t] = look[t] /\ observing'[t] = observing[t]
        /\ look[t] # "idle" => observing[t] \in Runs
    BY <1>5 DEF SightInv
  <2>2. ASSUME look[t] \in Confirming, look'[s] \in Confirming PROVE observing'[s] # observing[t]
    BY <1>5, <2>1, <2>2 DEF Sight
  <2>3. \A u \in alive : u # s => look'[u] = look[u] /\ observing'[u] = observing[u]
    OBVIOUS
  <2>4. look[t] \in {"ticketAgain", "settle"} /\ Live(observing[t]) => Forsaken(observing[t])'
    BY <1>3, <2>1 DEF Sight, Forsaken
  <2>5. look[t] \in {"reread", "leaseAgain"} /\ Live(observing[t]) => observing[t] \notin tickets'
    BY <2>1 DEF Sight
  <2>6. look[t] \in Confirming =>
           \A u \in alive : look'[u] \in Confirming /\ observing'[u] = observing[t] => u = t
    BY <2>1, <2>2, <2>3 DEF Sight
  <2> QED
    BY <2>1, <2>4, <2>5, <2>6 DEF Sight, Live, Forsaken
<1>6. SightInv'
  BY <1>5 DEF SightInv
<1> QED
  BY <1>1, <1>2, <1>4, <1>6

\* The status that an observer returns needs nothing else.
LEMMA ReturningKeeps ==
    ASSUME IInv, RInv, NEW s \in alive, ReturnClaim(s),
           UNCHANGED <<alive, pc, ready, aborted, leases, tickets, claim>>
    PROVE  RInv'
<1> USE DEF IInv, TypeInv, TypeOK, RInv, ReconciliationTypeOK
<1>1. look'[s] = "idle"
  BY DEF ReturnClaim, LookNext
<1>2. Sight(s)'
  BY <1>1 DEF Sight, Confirming
<1> QED
  BY <1>2, LookingKeeps DEF ReturnClaim, LookNext, Looks

LEMMA ObserverSteps ==
    ASSUME IInv, RInv, NEW s \in Servers, ObserverStep(s)
    PROVE  RInv' /\ \A r \in Runs : claim'[r] # claim[r] => claim[r] = "working"
<1> DEFINE run == observing[s]
<1> USE OwnerAssumption, FreeAssumption
<1> USE DEF IInv, TypeInv, TypeOK, RInv, ReconciliationTypeOK
<1>0. /\ look[s] \in Looks /\ (look[s] # "idle" => run \in Runs)
      /\ s \in alive => Sight(s)
  BY DEF SightInv
<1>1. ASSUME NEW r \in Runs, ReadClaim(s, r) PROVE RInv' /\ claim' = claim
  <2>1. /\ s \in alive /\ claim[r] = "working" /\ UNCHANGED <<vars, claim>>
        /\ look' = [look EXCEPT ![s] = "lease"] /\ observing' = [observing EXCEPT ![s] = r]
    BY <1>1 DEF ReadClaim, Looking, LookNext
  <2>2. Sight(s)'
    BY <2>1 DEF Sight, Confirming
  <2> QED
    BY <2>1, <2>2, LookingKeeps DEF Looks, vars, diskVars
<1>2. CASE LookForLease(s)
  <2>1. /\ s \in alive /\ look[s] \in {"lease", "leaseAgain"} /\ run \in Runs
        /\ UNCHANGED <<alive, pc, tickets, ready, aborted, claim>>
    BY <1>0, <1>2 DEF LookForLease, Looking
  <2>2. CASE run \in LiveLeases
    BY <1>2, <2>1, <2>2, ReturningKeeps DEF LookForLease
  <2>3. CASE run \notin LiveLeases
    <3>1. \E step \in {"ticket", "ticketAgain"} :
             /\ look' = [look EXCEPT ![s] = step]
             /\ step = "ticketAgain" <=> look[s] = "leaseAgain"
      BY <1>2, <2>1, <2>3 DEF LookForLease, LookNext
    <3>2. leases' = LiveLeases /\ observing' = observing
      BY <1>2, <2>3 DEF LookForLease
    <3>3. \A r \in Runs : Live(r) => (r \in leases' <=> r \in leases)
      BY <3>2 DEF LiveLeases
    <3>4. look[s] = "leaseAgain" /\ Live(run) => Forsaken(run)
      BY <1>0, <2>1, <2>3, NeitherFile DEF Sight, LiveLeases, Confirming
    <3>5. Sight(s)'
      <4>1. look'[s] # "idle" /\ observing'[s] = run /\ claim[run] # "none"
        BY <1>0, <2>1, <3>1, <3>2 DEF Sight
      <4>2. look'[s] \in {"ticketAgain", "settle"} /\ Live(run) => Forsaken(run)'
        BY <2>1, <3>1, <3>2, <3>3, <3>4 DEF Forsaken
      <4>3. look'[s] \in Confirming => look[s] = "leaseAgain"
        BY <3>1 DEF Confirming
      <4>4. \A u \in alive : u # s => look'[u] = look[u]
        BY <3>1
      <4>5. look'[s] \in Confirming =>
               /\ claim[run] = "working"
               /\ \A u \in alive : look'[u] \in Confirming /\ observing[u] = run => u = s
        BY <1>0, <2>1, <4>3, <4>4 DEF Sight, Confirming
      <4>6. look'[s] \notin {"reread", "leaseAgain"}
        BY <3>1
      <4> QED
        BY <2>1, <3>2, <4>1, <4>2, <4>5, <4>6 DEF Sight, Live, Forsaken
    <3>6. observing' = [observing EXCEPT ![s] = run]
      BY <3>2
    <3> QED
      BY <2>1, <3>1, <3>3, <3>5, <3>6, LookingKeeps DEF Looks
  <2> QED
    BY <2>1, <2>2, <2>3
<1>3. CASE LookForTicket(s)
  <2>1. /\ s \in alive /\ look[s] \in {"ticket", "ticketAgain"} /\ run \in Runs
        /\ UNCHANGED <<alive, pc, leases, ready, aborted, claim>>
    BY <1>0, <1>3 DEF LookForTicket, Looking
  <2>2. CASE run \in LiveTickets
    BY <1>3, <2>1, <2>2, ReturningKeeps DEF LookForTicket
  <2>3. CASE run \notin LiveTickets
    <3>1. \E step \in {"reread", "settle"} :
             /\ look' = [look EXCEPT ![s] = step] /\ (step = "settle" <=> look[s] = "ticketAgain")
      BY <1>3, <2>1, <2>3 DEF LookForTicket, LookNext
    <3>2. tickets' = tickets \ {run} /\ observing' = observing
      BY <1>3, <2>3 DEF LookForTicket
    <3>3. \A r \in Runs : Live(r) => (r \in tickets' <=> r \in tickets)
      BY <2>3, <3>2 DEF LiveTickets
    <3>4. Sight(s)'
      <4>1. look'[s] # "idle" /\ observing'[s] = run /\ claim[run] # "none"
        BY <1>0, <2>1, <3>1, <3>2 DEF Sight
      <4>2. look'[s] \in {"ticketAgain", "settle"} /\ Live(run) => Forsaken(run)'
        BY <1>0, <2>1, <3>1, <3>2, <3>3 DEF Forsaken, Sight
      <4>3. look'[s] \in Confirming => look[s] = "ticketAgain"
        BY <3>1 DEF Confirming
      <4>4. \A u \in alive : u # s => look'[u] = look[u]
        BY <3>1
      <4>5. look'[s] \in Confirming =>
               /\ claim[run] = "working"
               /\ \A u \in alive : look'[u] \in Confirming /\ observing[u] = run => u = s
        BY <1>0, <2>1, <4>3, <4>4 DEF Sight, Confirming
      <4>6. run \notin tickets'
        BY <3>2
      <4> QED
        BY <2>1, <3>2, <4>1, <4>2, <4>5, <4>6 DEF Sight, Live, Forsaken
    <3>5. observing' = [observing EXCEPT ![s] = run]
      BY <3>2
    <3> QED
      BY <2>1, <3>1, <3>3, <3>4, <3>5, LookingKeeps DEF Looks
  <2> QED
    BY <2>1, <2>2, <2>3
<1>4. CASE RereadClaim(s)
  <2>1. /\ s \in alive /\ look[s] = "reread" /\ run \in Runs /\ ~ClaimLocked(run)
        /\ UNCHANGED <<vars, claim>>
    BY <1>0, <1>4 DEF RereadClaim, Looking
  <2>2. CASE claim[run] # "working"
    BY <1>4, <2>1, <2>2, ReturningKeeps DEF RereadClaim, vars, diskVars
  <2>3. CASE claim[run] = "working"
    <3>1. look' = [look EXCEPT ![s] = "leaseAgain"] /\ observing' = observing
      BY <1>4, <2>3 DEF RereadClaim, LookNext
    <3>2. \A u \in alive : u # s /\ look'[u] \in Confirming => observing[u] # run
      BY <2>1, <3>1 DEF ClaimLocked, Confirming
    <3>3. Live(run) => run \notin tickets
      BY <1>0, <2>1 DEF Sight
    <3>4. Sight(s)'
      BY <2>1, <2>3, <3>1, <3>2, <3>3 DEF Sight, Live, vars, diskVars, Confirming
    <3>5. observing' = [observing EXCEPT ![s] = run]
      BY <3>1
    <3> QED
      BY <2>1, <3>1, <3>4, <3>5, LookingKeeps DEF Looks, vars, diskVars
  <2> QED
    BY <2>1, <2>2, <2>3
<1>5. CASE SettleOwnerLoss(s)
  <2>1. /\ s \in alive /\ look[s] = "settle" /\ run \in Runs /\ UNCHANGED vars
        /\ claim' = [claim EXCEPT ![run] = "restart_drift"]
        /\ look' = [look EXCEPT ![s] = "idle"] /\ observing' = [observing EXCEPT ![s] = Free]
    BY <1>0, <1>5 DEF SettleOwnerLoss, Looking, ReturnClaim, LookNext
  <2>2. claim[run] = "working" /\ (Live(run) => Forsaken(run))
    BY <1>0, <2>1 DEF Sight, Confirming
  <2>3. ReconciliationTypeOK'
    BY <2>1 DEF Looks, Claims
  <2>4. StandingInv'
    BY <2>1, <2>2 DEF StandingInv, Standing, Live, vars, diskVars
  <2>5. \A r \in Runs : Forsaken(r) => Forsaken(r)'
    BY <2>1 DEF Forsaken, vars, diskVars
  <2>6. LossInv'
    BY <2>1, <2>2, <2>5 DEF LossInv, Live, vars
  <2>7. SightInv'
    <3> SUFFICES ASSUME NEW t \in alive PROVE Sight(t)'
      BY <2>1 DEF SightInv, vars
    <3>1. t = s => Sight(t)'
      BY <2>1 DEF Sight, Confirming
    <3>2. CASE t # s
      <4>1. /\ Sight(t) /\ look'[t] = look[t] /\ observing'[t] = observing[t]
            /\ look[t] # "idle" => observing[t] \in Runs
        BY <2>1, <3>2 DEF SightInv
      <4>2. look[t] \in Confirming => observing[t] # run
        BY <1>0, <2>1, <3>2 DEF Sight, Confirming
      <4>3. look[t] \in Confirming =>
               \A u \in alive : look'[u] \in Confirming /\ observing'[u] = observing[t] => u = t
        BY <2>1, <4>1 DEF Sight, Confirming
      <4>4. look[t] \in {"ticketAgain", "settle"} /\ Live(observing[t]) => Forsaken(observing[t])'
        BY <2>5, <4>1 DEF Sight, Forsaken
      <4> QED
        BY <2>1, <4>1, <4>2, <4>3, <4>4 DEF Sight, Live, Forsaken, Confirming, vars, diskVars
    <3> QED
      BY <3>1, <3>2
  <2> QED
    BY <2>1, <2>2, <2>3, <2>4, <2>6, <2>7
<1> QED
  BY <1>1, <1>2, <1>3, <1>4, <1>5
    DEF ObserverStep, LookForLease, LookForTicket, RereadClaim, SettleOwnerLoss

LEMMA ReconciliationInvariance == ReconciliationSpec => [](IInv /\ RInv)
<1>1. ReconciliationInit => IInv /\ RInv
  <2> SUFFICES ASSUME ReconciliationInit PROVE RInv
    BY InitEstablishes DEF ReconciliationInit
  <2> QED
    BY OwnerAssumption DEF ReconciliationInit, Init, RInv, ReconciliationTypeOK, Claims, Looks,
      StandingInv, Standing, SightInv, Sight, Confirming, LossInv
<1>2. IInv /\ RInv /\ [ReconciliationNext]_allVars => (IInv /\ RInv)'
  <2> SUFFICES ASSUME IInv, RInv, [ReconciliationNext]_allVars PROVE RInv'
    BY CapacitySurvives
  <2>1. CASE UNCHANGED allVars
    BY <2>1 DEF allVars, vars, diskVars, reconcileVars, RInv, ReconciliationTypeOK, StandingInv,
      Standing, SightInv, Sight, LossInv, Forsaken, Live, Confirming
  <2> QED
    BY <2>1, OwnerSteps, RegisterSteps, FailSteps, SettleSteps, ObserverSteps
    DEF ReconciliationNext, PlainStep
<1> QED
  BY <1>1, <1>2, PTL DEF ReconciliationSpec

-----------------------------------------------------------------------------
(* The theorems.                                                            *)

\* Every variable of the observers keeps its type, and an observer that looks has a run.
THEOREM ReconciliationTypes == ReconciliationSpec => []ReconciliationTypeOK
<1>1. IInv /\ RInv => ReconciliationTypeOK
  BY DEF RInv
<1> QED
  BY <1>1, ReconciliationInvariance, PTL

\* The two phases of any number of observers settle no living run as lost that holds its
\* lease, and none at all but those cancelled in the queue and those whose registration
\* failed behind the claim (src/runTask.ts:4141, 3019).
THEOREM RunsAreNotLost == ReconciliationSpec => []AdmittedRunsAreNotLost
<1>1. IInv /\ RInv => AdmittedRunsAreNotLost
  BY DEF RInv, LossInv, Forsaken, AdmittedRunsAreNotLost
<1> QED
  BY <1>1, ReconciliationInvariance, PTL

\* A terminal claim stays what it is, whether the owner or an observer was first
\* (src/runTask.ts:3033).
THEOREM FinalClaims == ReconciliationSpec => TerminalClaimIsFinal
<1>1. IInv /\ RInv /\ [ReconciliationNext]_allVars =>
         \A r \in Runs : claim[r] \in {"terminal", "restart_drift"} => claim'[r] = claim[r]
  <2> SUFFICES ASSUME IInv, RInv, [ReconciliationNext]_allVars,
                      NEW r \in Runs, claim[r] \in {"terminal", "restart_drift"}
               PROVE  claim'[r] = claim[r]
    OBVIOUS
  <2>1. claim \in [Runs -> Claims]
    BY DEF RInv, ReconciliationTypeOK
  <2>2. ASSUME NEW q \in Runs, RegisterClaim(q) PROVE claim'[r] = claim[r]
    BY <2>1, <2>2, RegisterSteps DEF RegisterClaim
  <2>3. ASSUME NEW q \in Runs, SettleClaim(q) PROVE claim'[r] = claim[r]
    BY <2>1, <2>3 DEF SettleClaim
  <2>4. ASSUME NEW s \in Servers, ObserverStep(s) PROVE claim'[r] = claim[r]
    BY <2>4, ObserverSteps
  <2>6. ASSUME NEW q \in Runs, FailRegistration(q) PROVE claim'[r] = claim[r]
    BY <2>1, <2>6 DEF FailRegistration
  <2>5. CASE OwnerStep \/ UNCHANGED allVars
    BY <2>5 DEF OwnerStep, reconcileVars, allVars
  <2> QED
    BY <2>2, <2>3, <2>4, <2>5, <2>6 DEF ReconciliationNext
<1> QED
  BY <1>1, ReconciliationInvariance, PTL DEF ReconciliationSpec, TerminalClaimIsFinal
================================================================================
