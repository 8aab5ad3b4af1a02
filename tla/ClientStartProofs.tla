--------------------------- MODULE ClientStartProofs ---------------------------
(***************************************************************************)
(* Proofs about ClientStart for any calls, servers and request bodies: the *)
(* type invariant, the safety invariants of the run client_start and the   *)
(* refinement of StartToken.                                               *)
(*                                                                         *)
(* The argument: everything that can be done with a run (to promote it, to *)
(* register, launch or settle it, to answer with it) is done by a call     *)
(* that has read the binding, and a binding is never changed but by its    *)
(* cancellation, which waits for the admission lock.  Its candidate goes   *)
(* only behind its record, and its record is final only when its owner is  *)
(* done or dead.                                                           *)
(***************************************************************************)
EXTENDS ClientStart, TLAPS

\* Where the call of the bound run may be.
Promoting == {"promoteRead", "promoteLink", "promoteDiscard"}
Owning == {"register", "admit", "launch", "spawn", "running", "settle"}

\* A call that is there has not read one.
Early == {"idle", "find", "orphanCheck", "reconcile", "reap", "prepare", "claim"}

\* A call that is there has read a binding for its own request.
Reading ==
    Promoting \cup {"replay", "replayOwner", "recover", "drift"} \cup
    {"containRead", "containWait"}

Same(c) == c \in Starts => ~Conflict(c)

\* What was done with runs was done with the bound one.
BindingInv ==
    /\ \A c \in Starts : record[c] # "none" => c = boundTo
    /\ \A c \in resident : c = boundTo /\ record[c] # "none"
    /\ boundTo \notin containing
    /\ Bound => pc[boundTo] \in Promoting \cup Owning \cup {"discardFailed", "done"}

\* What a call knows where it is.
PositionInv ==
    \A c \in Calls :
       /\ pc[c] \in Early /\ c \in Starts => c \notin containing
       /\ pc[c] \in Owning => c = boundTo
       /\ pc[c] \in Owning \ {"settle"} => record[boundTo] # "none"
       /\ pc[c] \in Reading => Bound /\ Same(c)
       /\ pc[c] = "contain" /\ c \in Starts => Bound /\ Same(c)
       /\ pc[c] \in {"promoteDiscard", "replayOwner", "drift"} => record[boundTo] # "none"
       /\ pc[c] \in {"recover", "drift"} => OwnerGone

\* The lock is held from the last look at the binding to the spawn.
LaunchInv ==
    /\ \A c \in launched : c = boundTo /\ pc[c] \in {"running", "settle", "done"}
    /\ \A c \in Starts : pc[c] = "spawn" =>
          guard = c /\ (Server[c] \in alive => token = "bound")

\* A candidate goes only behind its record, or behind its server.
CandidateInv ==
    /\ \A c \in Starts : pc[c] = "claim" /\ Server[c] \in alive => c \in candidates
    /\ BoundRunIsRecoverable

\* A record is final when its owner has nothing left to do.
AnswerInv ==
    /\ Bound /\ Ended(boundTo) /\ Server[boundTo] \in alive => pc[boundTo] = "done"
    /\ AnswersNameTheBoundRun
    /\ \A c \in Calls :
          /\ outcome[c] = "fenced" => token = "fenced"
          /\ outcome[c] = "terminal" => Ended(boundTo)

IInv == TypeOK /\ BindingInv /\ PositionInv /\ LaunchInv /\ CandidateInv /\ AnswerInv

-----------------------------------------------------------------------------
(* The invariant holds initially.                                           *)

LEMMA InitEstablishes == Init => IInv
<1> SUFFICES ASSUME Init PROVE IInv
  OBVIOUS
<1> USE CallsAssumption DEF Init, Calls
<1>1. TypeOK
  BY DEF TypeOK, Steps, Records, Outcomes
<1>2. BindingInv
  BY DEF BindingInv, Bound
<1>3. PositionInv
  BY DEF PositionInv, Owning, Reading, Promoting, Early
<1>4. LaunchInv
  BY DEF LaunchInv
<1>5. CandidateInv
  BY DEF CandidateInv, BoundRunIsRecoverable, Bound
<1>6. AnswerInv
  BY DEF AnswerInv, AnswersNameTheBoundRun, Bound
<1> QED
  BY <1>1, <1>2, <1>3, <1>4, <1>5, <1>6 DEF IInv

-----------------------------------------------------------------------------
(* Every step preserves it, one conjunct and one action at a time.          *)

\* The type invariant: a launch takes the lock for the bound run only.
LEMMA TypeSteps == IInv /\ [Next]_vars => TypeOK'
<1> SUFFICES ASSUME IInv, [Next]_vars PROVE TypeOK'
  OBVIOUS
<1> USE CallsAssumption, ServerAssumption DEF Calls, IInv
<1> USE DEF TypeOK, Steps, Records, Outcomes, PositionInv, Owning, Reading, Promoting
<1> USE DEF At, GoTo, Proceed, Return, Answer, Bound, Conflict, OwnerGone, Ended, fileVars,
    runVars, answerVars
<1>1. ASSUME NEW c \in Calls, Begin(c) PROVE TypeOK'
  BY <1>1 DEF Begin
<1>2. ASSUME NEW c \in Calls, PromoteRead(c) PROVE TypeOK'
  BY <1>2 DEF PromoteRead, Join, AfterPromotion
<1>3. ASSUME NEW c \in Calls, PromoteLink(c) PROVE TypeOK'
  BY <1>3 DEF PromoteLink, Join, AfterPromotion
<1>4. ASSUME NEW c \in Calls, PromoteDiscard(c) PROVE TypeOK'
  BY <1>4 DEF PromoteDiscard, AfterPromotion
<1>5. ASSUME NEW c \in Calls, Drift(c) PROVE TypeOK'
  BY <1>5 DEF Drift
<1>6. ASSUME NEW c \in Calls, RequestContainment(c) PROVE TypeOK'
  BY <1>6 DEF RequestContainment, AdmissionFree
<1>7. ASSUME NEW c \in Calls, ContainmentBusy(c) PROVE TypeOK'
  BY <1>7 DEF ContainmentBusy, AdmissionFree
<1>8. ASSUME NEW c \in Calls, ContainRead(c) PROVE TypeOK'
  BY <1>8 DEF ContainRead
<1>9. ASSUME NEW c \in Calls, ContainStop(c) PROVE TypeOK'
  BY <1>9 DEF ContainStop, HasResident
<1>10. ASSUME NEW c \in Calls, ContainTerminal(c) PROVE TypeOK'
  BY <1>10 DEF ContainTerminal
<1>11. ASSUME NEW c \in Calls, ContainOwnerGone(c) PROVE TypeOK'
  BY <1>11 DEF ContainOwnerGone
<1>12. ASSUME NEW c \in Calls, ContainUnknown(c) PROVE TypeOK'
  BY <1>12 DEF ContainUnknown, HasResident
<1>13. ASSUME NEW c \in Starts, Find(c) PROVE TypeOK'
  BY <1>13 DEF Find
<1>14. ASSUME NEW c \in Starts, OrphanCheck(c) PROVE TypeOK'
  BY <1>14 DEF OrphanCheck
<1>15. ASSUME NEW c \in Starts, Reconcile(c) PROVE TypeOK'
  BY <1>15 DEF Reconcile, PromoteBound
<1>16. ASSUME NEW c \in Starts, ReconcileReaps(c) PROVE TypeOK'
  BY <1>16 DEF ReconcileReaps, Reap
<1>17. ASSUME NEW c \in Starts, Prepare(c) PROVE TypeOK'
  BY <1>17 DEF Prepare
<1>18. ASSUME NEW c \in Starts, Claim(c) PROVE TypeOK'
  BY <1>18 DEF Claim, AdmissionFree
<1>19. ASSUME NEW c \in Starts, ClaimThrows(c) PROVE TypeOK'
  BY <1>19 DEF ClaimThrows, AdmissionFree
<1>20. ASSUME NEW c \in Starts, DiscardFailed(c) PROVE TypeOK'
  BY <1>20 DEF DiscardFailed
<1>21. ASSUME NEW c \in Starts, DiscardLoser(c) PROVE TypeOK'
  BY <1>21 DEF DiscardLoser
<1>22. ASSUME NEW c \in Starts, Replay(c) PROVE TypeOK'
  BY <1>22 DEF Replay, HasResident
<1>23. ASSUME NEW c \in Starts, ReplayOwner(c) PROVE TypeOK'
  BY <1>23 DEF ReplayOwner
<1>24. ASSUME NEW c \in Starts, Recover(c) PROVE TypeOK'
  BY <1>24 DEF Recover
<1>25. ASSUME NEW c \in Starts, Register(c) PROVE TypeOK'
  BY <1>25 DEF Register
<1>26. ASSUME NEW c \in Starts, Admit(c) PROVE TypeOK'
  BY <1>26 DEF Admit
<1>27. ASSUME NEW c \in Starts, GiveUpLaunch(c) PROVE TypeOK'
  BY <1>27 DEF GiveUpLaunch
<1>28. ASSUME NEW c \in Starts, Launch(c) PROVE TypeOK'
  BY <1>28 DEF Launch, AdmissionFree
<1>29. ASSUME NEW c \in Starts, Spawn(c) PROVE TypeOK'
  BY <1>29 DEF Spawn
<1>30. ASSUME NEW c \in Starts, ChildEnds(c) PROVE TypeOK'
  BY <1>30 DEF ChildEnds
<1>31. ASSUME NEW c \in Starts, Settle(c) PROVE TypeOK'
  BY <1>31 DEF Settle
<1>32. ASSUME NEW s \in Servers, Crash(s) PROVE TypeOK'
  BY <1>32 DEF Crash
<1>33. CASE StartupReconcile
  BY <1>33 DEF StartupReconcile, PromoteBound, Reap
<1>34. CASE UNCHANGED vars
  BY <1>34 DEF vars
<1> HIDE DEF IInv, TypeOK
<1> QED
  BY <1>1, <1>2, <1>3, <1>4, <1>5, <1>6, <1>7, <1>8, <1>9, <1>10, <1>11, <1>12,
    <1>13, <1>14, <1>15, <1>16, <1>17, <1>18, <1>19, <1>20, <1>21, <1>22, <1>23, <1>24,
    <1>25, <1>26, <1>27, <1>28, <1>29, <1>30, <1>31, <1>32, <1>33, <1>34
    DEF Next, StartStep, OwnerStep, CallStep

\* Only a call that has read the binding touches a run.
LEMMA BindingSteps == IInv /\ [Next]_vars => BindingInv'
<1> SUFFICES ASSUME IInv, [Next]_vars PROVE BindingInv'
  OBVIOUS
<1> USE CallsAssumption, ServerAssumption DEF Calls, IInv
<1> USE DEF TypeOK, BindingInv, PositionInv, Promoting, Owning, Reading, Early
<1> USE DEF At, GoTo, Proceed, Return, Answer, Bound, Conflict, OwnerGone, Ended, fileVars,
    runVars, answerVars
<1>1. ASSUME NEW c \in Calls, Begin(c) PROVE BindingInv'
  BY <1>1 DEF Begin
<1>2. ASSUME NEW c \in Calls, PromoteRead(c) PROVE BindingInv'
  BY <1>2 DEF PromoteRead, Join, AfterPromotion
<1>3. ASSUME NEW c \in Calls, PromoteLink(c) PROVE BindingInv'
  BY <1>3 DEF PromoteLink, Join, AfterPromotion
<1>4. ASSUME NEW c \in Calls, PromoteDiscard(c) PROVE BindingInv'
  BY <1>4 DEF PromoteDiscard, AfterPromotion
<1>5. ASSUME NEW c \in Calls, Drift(c) PROVE BindingInv'
  BY <1>5 DEF Drift
<1>6. ASSUME NEW c \in Calls, RequestContainment(c) PROVE BindingInv'
  BY <1>6 DEF RequestContainment, AdmissionFree
<1>7. ASSUME NEW c \in Calls, ContainmentBusy(c) PROVE BindingInv'
  BY <1>7 DEF ContainmentBusy, AdmissionFree
<1>8. ASSUME NEW c \in Calls, ContainRead(c) PROVE BindingInv'
  BY <1>8 DEF ContainRead
<1>9. ASSUME NEW c \in Calls, ContainStop(c) PROVE BindingInv'
  BY <1>9 DEF ContainStop, HasResident
<1>10. ASSUME NEW c \in Calls, ContainTerminal(c) PROVE BindingInv'
  BY <1>10 DEF ContainTerminal
<1>11. ASSUME NEW c \in Calls, ContainOwnerGone(c) PROVE BindingInv'
  BY <1>11 DEF ContainOwnerGone
<1>12. ASSUME NEW c \in Calls, ContainUnknown(c) PROVE BindingInv'
  BY <1>12 DEF ContainUnknown, HasResident
<1>13. ASSUME NEW c \in Starts, Find(c) PROVE BindingInv'
  BY <1>13 DEF Find
<1>14. ASSUME NEW c \in Starts, OrphanCheck(c) PROVE BindingInv'
  BY <1>14 DEF OrphanCheck
<1>15. ASSUME NEW c \in Starts, Reconcile(c) PROVE BindingInv'
  BY <1>15 DEF Reconcile, PromoteBound
<1>16. ASSUME NEW c \in Starts, ReconcileReaps(c) PROVE BindingInv'
  BY <1>16 DEF ReconcileReaps, Reap
<1>17. ASSUME NEW c \in Starts, Prepare(c) PROVE BindingInv'
  BY <1>17 DEF Prepare
<1>18. ASSUME NEW c \in Starts, Claim(c) PROVE BindingInv'
  BY <1>18 DEF Claim, AdmissionFree
<1>19. ASSUME NEW c \in Starts, ClaimThrows(c) PROVE BindingInv'
  BY <1>19 DEF ClaimThrows, AdmissionFree
<1>20. ASSUME NEW c \in Starts, DiscardFailed(c) PROVE BindingInv'
  BY <1>20 DEF DiscardFailed
<1>21. ASSUME NEW c \in Starts, DiscardLoser(c) PROVE BindingInv'
  BY <1>21 DEF DiscardLoser
<1>22. ASSUME NEW c \in Starts, Replay(c) PROVE BindingInv'
  BY <1>22 DEF Replay, HasResident
<1>23. ASSUME NEW c \in Starts, ReplayOwner(c) PROVE BindingInv'
  BY <1>23 DEF ReplayOwner
<1>24. ASSUME NEW c \in Starts, Recover(c) PROVE BindingInv'
  BY <1>24 DEF Recover
<1>25. ASSUME NEW c \in Starts, Register(c) PROVE BindingInv'
  BY <1>25 DEF Register
<1>26. ASSUME NEW c \in Starts, Admit(c) PROVE BindingInv'
  BY <1>26 DEF Admit
<1>27. ASSUME NEW c \in Starts, GiveUpLaunch(c) PROVE BindingInv'
  BY <1>27 DEF GiveUpLaunch
<1>28. ASSUME NEW c \in Starts, Launch(c) PROVE BindingInv'
  BY <1>28 DEF Launch, AdmissionFree
<1>29. ASSUME NEW c \in Starts, Spawn(c) PROVE BindingInv'
  BY <1>29 DEF Spawn
<1>30. ASSUME NEW c \in Starts, ChildEnds(c) PROVE BindingInv'
  BY <1>30 DEF ChildEnds
<1>31. ASSUME NEW c \in Starts, Settle(c) PROVE BindingInv'
  BY <1>31 DEF Settle
<1>32. ASSUME NEW s \in Servers, Crash(s) PROVE BindingInv'
  BY <1>32 DEF Crash
<1>33. CASE StartupReconcile
  BY <1>33 DEF StartupReconcile, PromoteBound, Reap
<1>34. CASE UNCHANGED vars
  BY <1>34 DEF vars
<1> HIDE DEF IInv, TypeOK, BindingInv
<1> QED
  BY <1>1, <1>2, <1>3, <1>4, <1>5, <1>6, <1>7, <1>8, <1>9, <1>10, <1>11, <1>12,
    <1>13, <1>14, <1>15, <1>16, <1>17, <1>18, <1>19, <1>20, <1>21, <1>22, <1>23, <1>24,
    <1>25, <1>26, <1>27, <1>28, <1>29, <1>30, <1>31, <1>32, <1>33, <1>34
    DEF Next, StartStep, OwnerStep, CallStep

\* What a call has read stays true: a binding is only ever cancelled, a record never
\* removed, and a dead server stays dead.
LEMMA PositionSteps == IInv /\ [Next]_vars => PositionInv'
<1> SUFFICES ASSUME IInv, [Next]_vars PROVE PositionInv'
  OBVIOUS
<1> USE CallsAssumption, ServerAssumption DEF Calls, IInv
<1> USE DEF TypeOK, PositionInv, BindingInv, Promoting, Owning, Reading, Early, Same
<1> USE DEF At, GoTo, Proceed, Return, Answer, Bound, Conflict, OwnerGone, Ended, fileVars,
    runVars, answerVars
<1>1. ASSUME NEW c \in Calls, Begin(c) PROVE PositionInv'
  BY <1>1 DEF Begin
<1>2. ASSUME NEW c \in Calls, PromoteRead(c) PROVE PositionInv'
  BY <1>2 DEF PromoteRead, Join, AfterPromotion
<1>3. ASSUME NEW c \in Calls, PromoteLink(c) PROVE PositionInv'
  BY <1>3 DEF PromoteLink, Join, AfterPromotion
<1>4. ASSUME NEW c \in Calls, PromoteDiscard(c) PROVE PositionInv'
  BY <1>4 DEF PromoteDiscard, AfterPromotion
<1>5. ASSUME NEW c \in Calls, Drift(c) PROVE PositionInv'
  BY <1>5 DEF Drift
<1>6. ASSUME NEW c \in Calls, RequestContainment(c) PROVE PositionInv'
  BY <1>6 DEF RequestContainment, AdmissionFree
<1>7. ASSUME NEW c \in Calls, ContainmentBusy(c) PROVE PositionInv'
  BY <1>7 DEF ContainmentBusy, AdmissionFree
<1>8. ASSUME NEW c \in Calls, ContainRead(c) PROVE PositionInv'
  BY <1>8 DEF ContainRead
<1>9. ASSUME NEW c \in Calls, ContainStop(c) PROVE PositionInv'
  BY <1>9 DEF ContainStop, HasResident
<1>10. ASSUME NEW c \in Calls, ContainTerminal(c) PROVE PositionInv'
  BY <1>10 DEF ContainTerminal
<1>11. ASSUME NEW c \in Calls, ContainOwnerGone(c) PROVE PositionInv'
  BY <1>11 DEF ContainOwnerGone
<1>12. ASSUME NEW c \in Calls, ContainUnknown(c) PROVE PositionInv'
  BY <1>12 DEF ContainUnknown, HasResident
<1>13. ASSUME NEW c \in Starts, Find(c) PROVE PositionInv'
  BY <1>13 DEF Find
<1>14. ASSUME NEW c \in Starts, OrphanCheck(c) PROVE PositionInv'
  BY <1>14 DEF OrphanCheck
<1>15. ASSUME NEW c \in Starts, Reconcile(c) PROVE PositionInv'
  BY <1>15 DEF Reconcile, PromoteBound
<1>16. ASSUME NEW c \in Starts, ReconcileReaps(c) PROVE PositionInv'
  BY <1>16 DEF ReconcileReaps, Reap
<1>17. ASSUME NEW c \in Starts, Prepare(c) PROVE PositionInv'
  BY <1>17 DEF Prepare
<1>18. ASSUME NEW c \in Starts, Claim(c) PROVE PositionInv'
  BY <1>18 DEF Claim, AdmissionFree
<1>19. ASSUME NEW c \in Starts, ClaimThrows(c) PROVE PositionInv'
  BY <1>19 DEF ClaimThrows, AdmissionFree
<1>20. ASSUME NEW c \in Starts, DiscardFailed(c) PROVE PositionInv'
  BY <1>20 DEF DiscardFailed
<1>21. ASSUME NEW c \in Starts, DiscardLoser(c) PROVE PositionInv'
  BY <1>21 DEF DiscardLoser
<1>22. ASSUME NEW c \in Starts, Replay(c) PROVE PositionInv'
  BY <1>22 DEF Replay, HasResident
<1>23. ASSUME NEW c \in Starts, ReplayOwner(c) PROVE PositionInv'
  BY <1>23 DEF ReplayOwner
<1>24. ASSUME NEW c \in Starts, Recover(c) PROVE PositionInv'
  BY <1>24 DEF Recover
<1>25. ASSUME NEW c \in Starts, Register(c) PROVE PositionInv'
  BY <1>25 DEF Register
<1>26. ASSUME NEW c \in Starts, Admit(c) PROVE PositionInv'
  BY <1>26 DEF Admit
<1>27. ASSUME NEW c \in Starts, GiveUpLaunch(c) PROVE PositionInv'
  BY <1>27 DEF GiveUpLaunch
<1>28. ASSUME NEW c \in Starts, Launch(c) PROVE PositionInv'
  BY <1>28 DEF Launch, AdmissionFree
<1>29. ASSUME NEW c \in Starts, Spawn(c) PROVE PositionInv'
  BY <1>29 DEF Spawn
<1>30. ASSUME NEW c \in Starts, ChildEnds(c) PROVE PositionInv'
  BY <1>30 DEF ChildEnds
<1>31. ASSUME NEW c \in Starts, Settle(c) PROVE PositionInv'
  BY <1>31 DEF Settle
<1>32. ASSUME NEW s \in Servers, Crash(s) PROVE PositionInv'
  BY <1>32 DEF Crash
<1>33. CASE StartupReconcile
  BY <1>33 DEF StartupReconcile, PromoteBound, Reap
<1>34. CASE UNCHANGED vars
  BY <1>34 DEF vars
<1> HIDE DEF IInv, TypeOK, PositionInv
<1> QED
  BY <1>1, <1>2, <1>3, <1>4, <1>5, <1>6, <1>7, <1>8, <1>9, <1>10, <1>11, <1>12,
    <1>13, <1>14, <1>15, <1>16, <1>17, <1>18, <1>19, <1>20, <1>21, <1>22, <1>23, <1>24,
    <1>25, <1>26, <1>27, <1>28, <1>29, <1>30, <1>31, <1>32, <1>33, <1>34
    DEF Next, StartStep, OwnerStep, CallStep

\* No cancellation gets between the last look at the binding and the spawn.
LEMMA LaunchSteps == IInv /\ [Next]_vars => LaunchInv'
<1> SUFFICES ASSUME IInv, [Next]_vars PROVE LaunchInv'
  OBVIOUS
<1> USE CallsAssumption, ServerAssumption DEF Calls, IInv
<1> USE DEF TypeOK, LaunchInv, BindingInv, PositionInv, Promoting, Owning
<1> USE DEF At, GoTo, Proceed, Return, Answer, Bound, Conflict, OwnerGone, Ended, fileVars,
    runVars, answerVars
<1>1. ASSUME NEW c \in Calls, Begin(c) PROVE LaunchInv'
  BY <1>1 DEF Begin
<1>2. ASSUME NEW c \in Calls, PromoteRead(c) PROVE LaunchInv'
  BY <1>2 DEF PromoteRead, Join, AfterPromotion
<1>3. ASSUME NEW c \in Calls, PromoteLink(c) PROVE LaunchInv'
  BY <1>3 DEF PromoteLink, Join, AfterPromotion
<1>4. ASSUME NEW c \in Calls, PromoteDiscard(c) PROVE LaunchInv'
  BY <1>4 DEF PromoteDiscard, AfterPromotion
<1>5. ASSUME NEW c \in Calls, Drift(c) PROVE LaunchInv'
  BY <1>5 DEF Drift
<1>6. ASSUME NEW c \in Calls, RequestContainment(c) PROVE LaunchInv'
  BY <1>6 DEF RequestContainment, AdmissionFree
<1>7. ASSUME NEW c \in Calls, ContainmentBusy(c) PROVE LaunchInv'
  BY <1>7 DEF ContainmentBusy, AdmissionFree
<1>8. ASSUME NEW c \in Calls, ContainRead(c) PROVE LaunchInv'
  BY <1>8 DEF ContainRead
<1>9. ASSUME NEW c \in Calls, ContainStop(c) PROVE LaunchInv'
  BY <1>9 DEF ContainStop, HasResident
<1>10. ASSUME NEW c \in Calls, ContainTerminal(c) PROVE LaunchInv'
  BY <1>10 DEF ContainTerminal
<1>11. ASSUME NEW c \in Calls, ContainOwnerGone(c) PROVE LaunchInv'
  BY <1>11 DEF ContainOwnerGone
<1>12. ASSUME NEW c \in Calls, ContainUnknown(c) PROVE LaunchInv'
  BY <1>12 DEF ContainUnknown, HasResident
<1>13. ASSUME NEW c \in Starts, Find(c) PROVE LaunchInv'
  BY <1>13 DEF Find
<1>14. ASSUME NEW c \in Starts, OrphanCheck(c) PROVE LaunchInv'
  BY <1>14 DEF OrphanCheck
<1>15. ASSUME NEW c \in Starts, Reconcile(c) PROVE LaunchInv'
  BY <1>15 DEF Reconcile, PromoteBound
<1>16. ASSUME NEW c \in Starts, ReconcileReaps(c) PROVE LaunchInv'
  BY <1>16 DEF ReconcileReaps, Reap
<1>17. ASSUME NEW c \in Starts, Prepare(c) PROVE LaunchInv'
  BY <1>17 DEF Prepare
<1>18. ASSUME NEW c \in Starts, Claim(c) PROVE LaunchInv'
  BY <1>18 DEF Claim, AdmissionFree
<1>19. ASSUME NEW c \in Starts, ClaimThrows(c) PROVE LaunchInv'
  BY <1>19 DEF ClaimThrows, AdmissionFree
<1>20. ASSUME NEW c \in Starts, DiscardFailed(c) PROVE LaunchInv'
  BY <1>20 DEF DiscardFailed
<1>21. ASSUME NEW c \in Starts, DiscardLoser(c) PROVE LaunchInv'
  BY <1>21 DEF DiscardLoser
<1>22. ASSUME NEW c \in Starts, Replay(c) PROVE LaunchInv'
  BY <1>22 DEF Replay, HasResident
<1>23. ASSUME NEW c \in Starts, ReplayOwner(c) PROVE LaunchInv'
  BY <1>23 DEF ReplayOwner
<1>24. ASSUME NEW c \in Starts, Recover(c) PROVE LaunchInv'
  BY <1>24 DEF Recover
<1>25. ASSUME NEW c \in Starts, Register(c) PROVE LaunchInv'
  BY <1>25 DEF Register
<1>26. ASSUME NEW c \in Starts, Admit(c) PROVE LaunchInv'
  BY <1>26 DEF Admit
<1>27. ASSUME NEW c \in Starts, GiveUpLaunch(c) PROVE LaunchInv'
  BY <1>27 DEF GiveUpLaunch
<1>28. ASSUME NEW c \in Starts, Launch(c) PROVE LaunchInv'
  BY <1>28 DEF Launch, AdmissionFree
<1>29. ASSUME NEW c \in Starts, Spawn(c) PROVE LaunchInv'
  BY <1>29 DEF Spawn
<1>30. ASSUME NEW c \in Starts, ChildEnds(c) PROVE LaunchInv'
  BY <1>30 DEF ChildEnds
<1>31. ASSUME NEW c \in Starts, Settle(c) PROVE LaunchInv'
  BY <1>31 DEF Settle
<1>32. ASSUME NEW s \in Servers, Crash(s) PROVE LaunchInv'
  BY <1>32 DEF Crash
<1>33. CASE StartupReconcile
  BY <1>33 DEF StartupReconcile, PromoteBound, Reap
<1>34. CASE UNCHANGED vars
  BY <1>34 DEF vars
<1> HIDE DEF IInv, TypeOK, LaunchInv
<1> QED
  BY <1>1, <1>2, <1>3, <1>4, <1>5, <1>6, <1>7, <1>8, <1>9, <1>10, <1>11, <1>12,
    <1>13, <1>14, <1>15, <1>16, <1>17, <1>18, <1>19, <1>20, <1>21, <1>22, <1>23, <1>24,
    <1>25, <1>26, <1>27, <1>28, <1>29, <1>30, <1>31, <1>32, <1>33, <1>34
    DEF Next, StartStep, OwnerStep, CallStep

\* The candidate of a bound run is removed by those who have seen its record, or by the
\* caller that a claim failed.
LEMMA CandidateSteps == IInv /\ [Next]_vars => CandidateInv'
<1> SUFFICES ASSUME IInv, [Next]_vars PROVE CandidateInv'
  OBVIOUS
<1> USE CallsAssumption, ServerAssumption DEF Calls, IInv
<1> USE DEF TypeOK, CandidateInv, BoundRunIsRecoverable, BindingInv, PositionInv, Promoting,
    Owning, Reading
<1> USE DEF At, GoTo, Proceed, Return, Answer, Bound, Conflict, OwnerGone, Ended, fileVars,
    runVars, answerVars
<1>1. ASSUME NEW c \in Calls, Begin(c) PROVE CandidateInv'
  BY <1>1 DEF Begin
<1>2. ASSUME NEW c \in Calls, PromoteRead(c) PROVE CandidateInv'
  BY <1>2 DEF PromoteRead, Join, AfterPromotion
<1>3. ASSUME NEW c \in Calls, PromoteLink(c) PROVE CandidateInv'
  BY <1>3 DEF PromoteLink, Join, AfterPromotion
<1>4. ASSUME NEW c \in Calls, PromoteDiscard(c) PROVE CandidateInv'
  BY <1>4 DEF PromoteDiscard, AfterPromotion
<1>5. ASSUME NEW c \in Calls, Drift(c) PROVE CandidateInv'
  BY <1>5 DEF Drift
<1>6. ASSUME NEW c \in Calls, RequestContainment(c) PROVE CandidateInv'
  BY <1>6 DEF RequestContainment, AdmissionFree
<1>7. ASSUME NEW c \in Calls, ContainmentBusy(c) PROVE CandidateInv'
  BY <1>7 DEF ContainmentBusy, AdmissionFree
<1>8. ASSUME NEW c \in Calls, ContainRead(c) PROVE CandidateInv'
  BY <1>8 DEF ContainRead
<1>9. ASSUME NEW c \in Calls, ContainStop(c) PROVE CandidateInv'
  BY <1>9 DEF ContainStop, HasResident
<1>10. ASSUME NEW c \in Calls, ContainTerminal(c) PROVE CandidateInv'
  BY <1>10 DEF ContainTerminal
<1>11. ASSUME NEW c \in Calls, ContainOwnerGone(c) PROVE CandidateInv'
  BY <1>11 DEF ContainOwnerGone
<1>12. ASSUME NEW c \in Calls, ContainUnknown(c) PROVE CandidateInv'
  BY <1>12 DEF ContainUnknown, HasResident
<1>13. ASSUME NEW c \in Starts, Find(c) PROVE CandidateInv'
  BY <1>13 DEF Find
<1>14. ASSUME NEW c \in Starts, OrphanCheck(c) PROVE CandidateInv'
  BY <1>14 DEF OrphanCheck
<1>15. ASSUME NEW c \in Starts, Reconcile(c) PROVE CandidateInv'
  BY <1>15 DEF Reconcile, PromoteBound
<1>16. ASSUME NEW c \in Starts, ReconcileReaps(c) PROVE CandidateInv'
  BY <1>16 DEF ReconcileReaps, Reap
<1>17. ASSUME NEW c \in Starts, Prepare(c) PROVE CandidateInv'
  BY <1>17 DEF Prepare
<1>18. ASSUME NEW c \in Starts, Claim(c) PROVE CandidateInv'
  BY <1>18 DEF Claim, AdmissionFree
<1>19. ASSUME NEW c \in Starts, ClaimThrows(c) PROVE CandidateInv'
  BY <1>19 DEF ClaimThrows, AdmissionFree
<1>20. ASSUME NEW c \in Starts, DiscardFailed(c) PROVE CandidateInv'
  BY <1>20 DEF DiscardFailed
<1>21. ASSUME NEW c \in Starts, DiscardLoser(c) PROVE CandidateInv'
  BY <1>21 DEF DiscardLoser
<1>22. ASSUME NEW c \in Starts, Replay(c) PROVE CandidateInv'
  BY <1>22 DEF Replay, HasResident
<1>23. ASSUME NEW c \in Starts, ReplayOwner(c) PROVE CandidateInv'
  BY <1>23 DEF ReplayOwner
<1>24. ASSUME NEW c \in Starts, Recover(c) PROVE CandidateInv'
  BY <1>24 DEF Recover
<1>25. ASSUME NEW c \in Starts, Register(c) PROVE CandidateInv'
  BY <1>25 DEF Register
<1>26. ASSUME NEW c \in Starts, Admit(c) PROVE CandidateInv'
  BY <1>26 DEF Admit
<1>27. ASSUME NEW c \in Starts, GiveUpLaunch(c) PROVE CandidateInv'
  BY <1>27 DEF GiveUpLaunch
<1>28. ASSUME NEW c \in Starts, Launch(c) PROVE CandidateInv'
  BY <1>28 DEF Launch, AdmissionFree
<1>29. ASSUME NEW c \in Starts, Spawn(c) PROVE CandidateInv'
  BY <1>29 DEF Spawn
<1>30. ASSUME NEW c \in Starts, ChildEnds(c) PROVE CandidateInv'
  BY <1>30 DEF ChildEnds
<1>31. ASSUME NEW c \in Starts, Settle(c) PROVE CandidateInv'
  BY <1>31 DEF Settle
<1>32. ASSUME NEW s \in Servers, Crash(s) PROVE CandidateInv'
  BY <1>32 DEF Crash
<1>33. CASE StartupReconcile
  BY <1>33 DEF StartupReconcile, PromoteBound, Reap
<1>34. CASE UNCHANGED vars
  BY <1>34 DEF vars
<1> HIDE DEF IInv, TypeOK, CandidateInv
<1> QED
  BY <1>1, <1>2, <1>3, <1>4, <1>5, <1>6, <1>7, <1>8, <1>9, <1>10, <1>11, <1>12,
    <1>13, <1>14, <1>15, <1>16, <1>17, <1>18, <1>19, <1>20, <1>21, <1>22, <1>23, <1>24,
    <1>25, <1>26, <1>27, <1>28, <1>29, <1>30, <1>31, <1>32, <1>33, <1>34
    DEF Next, StartStep, OwnerStep, CallStep

\* An answer is given behind a record, and a record ends behind its owner.
LEMMA AnswerSteps == IInv /\ [Next]_vars => AnswerInv'
<1> SUFFICES ASSUME IInv, [Next]_vars PROVE AnswerInv'
  OBVIOUS
<1> USE CallsAssumption, ServerAssumption DEF Calls, IInv
<1> USE DEF TypeOK, AnswerInv, AnswersNameTheBoundRun, BindingInv, PositionInv, Same,
    Owning, Promoting, Reading, Records
<1> USE DEF At, GoTo, Proceed, Return, Answer, Bound, Conflict, OwnerGone, Ended, fileVars,
    runVars, answerVars
<1>1. ASSUME NEW c \in Calls, Begin(c) PROVE AnswerInv'
  BY <1>1 DEF Begin
<1>2. ASSUME NEW c \in Calls, PromoteRead(c) PROVE AnswerInv'
  BY <1>2 DEF PromoteRead, Join, AfterPromotion
<1>3. ASSUME NEW c \in Calls, PromoteLink(c) PROVE AnswerInv'
  BY <1>3 DEF PromoteLink, Join, AfterPromotion
<1>4. ASSUME NEW c \in Calls, PromoteDiscard(c) PROVE AnswerInv'
  BY <1>4 DEF PromoteDiscard, AfterPromotion
<1>5. ASSUME NEW c \in Calls, Drift(c) PROVE AnswerInv'
  BY <1>5 DEF Drift
<1>6. ASSUME NEW c \in Calls, RequestContainment(c) PROVE AnswerInv'
  BY <1>6 DEF RequestContainment, AdmissionFree
<1>7. ASSUME NEW c \in Calls, ContainmentBusy(c) PROVE AnswerInv'
  BY <1>7 DEF ContainmentBusy, AdmissionFree
<1>8. ASSUME NEW c \in Calls, ContainRead(c) PROVE AnswerInv'
  BY <1>8 DEF ContainRead
<1>9. ASSUME NEW c \in Calls, ContainStop(c) PROVE AnswerInv'
  BY <1>9 DEF ContainStop, HasResident
<1>10. ASSUME NEW c \in Calls, ContainTerminal(c) PROVE AnswerInv'
  BY <1>10 DEF ContainTerminal
<1>11. ASSUME NEW c \in Calls, ContainOwnerGone(c) PROVE AnswerInv'
  BY <1>11 DEF ContainOwnerGone
<1>12. ASSUME NEW c \in Calls, ContainUnknown(c) PROVE AnswerInv'
  BY <1>12 DEF ContainUnknown, HasResident
<1>13. ASSUME NEW c \in Starts, Find(c) PROVE AnswerInv'
  BY <1>13 DEF Find
<1>14. ASSUME NEW c \in Starts, OrphanCheck(c) PROVE AnswerInv'
  BY <1>14 DEF OrphanCheck
<1>15. ASSUME NEW c \in Starts, Reconcile(c) PROVE AnswerInv'
  BY <1>15 DEF Reconcile, PromoteBound
<1>16. ASSUME NEW c \in Starts, ReconcileReaps(c) PROVE AnswerInv'
  BY <1>16 DEF ReconcileReaps, Reap
<1>17. ASSUME NEW c \in Starts, Prepare(c) PROVE AnswerInv'
  BY <1>17 DEF Prepare
<1>18. ASSUME NEW c \in Starts, Claim(c) PROVE AnswerInv'
  BY <1>18 DEF Claim, AdmissionFree
<1>19. ASSUME NEW c \in Starts, ClaimThrows(c) PROVE AnswerInv'
  BY <1>19 DEF ClaimThrows, AdmissionFree
<1>20. ASSUME NEW c \in Starts, DiscardFailed(c) PROVE AnswerInv'
  BY <1>20 DEF DiscardFailed
<1>21. ASSUME NEW c \in Starts, DiscardLoser(c) PROVE AnswerInv'
  BY <1>21 DEF DiscardLoser
<1>22. ASSUME NEW c \in Starts, Replay(c) PROVE AnswerInv'
  BY <1>22 DEF Replay, HasResident
<1>23. ASSUME NEW c \in Starts, ReplayOwner(c) PROVE AnswerInv'
  BY <1>23 DEF ReplayOwner
<1>24. ASSUME NEW c \in Starts, Recover(c) PROVE AnswerInv'
  BY <1>24 DEF Recover
<1>25. ASSUME NEW c \in Starts, Register(c) PROVE AnswerInv'
  BY <1>25 DEF Register
<1>26. ASSUME NEW c \in Starts, Admit(c) PROVE AnswerInv'
  BY <1>26 DEF Admit
<1>27. ASSUME NEW c \in Starts, GiveUpLaunch(c) PROVE AnswerInv'
  BY <1>27 DEF GiveUpLaunch
<1>28. ASSUME NEW c \in Starts, Launch(c) PROVE AnswerInv'
  BY <1>28 DEF Launch, AdmissionFree
<1>29. ASSUME NEW c \in Starts, Spawn(c) PROVE AnswerInv'
  BY <1>29 DEF Spawn
<1>30. ASSUME NEW c \in Starts, ChildEnds(c) PROVE AnswerInv'
  BY <1>30 DEF ChildEnds
<1>31. ASSUME NEW c \in Starts, Settle(c) PROVE AnswerInv'
  BY <1>31 DEF Settle
<1>32. ASSUME NEW s \in Servers, Crash(s) PROVE AnswerInv'
  BY <1>32 DEF Crash
<1>33. CASE StartupReconcile
  BY <1>33 DEF StartupReconcile, PromoteBound, Reap
<1>34. CASE UNCHANGED vars
  BY <1>34 DEF vars
<1> HIDE DEF IInv, TypeOK, AnswerInv
<1> QED
  BY <1>1, <1>2, <1>3, <1>4, <1>5, <1>6, <1>7, <1>8, <1>9, <1>10, <1>11, <1>12,
    <1>13, <1>14, <1>15, <1>16, <1>17, <1>18, <1>19, <1>20, <1>21, <1>22, <1>23, <1>24,
    <1>25, <1>26, <1>27, <1>28, <1>29, <1>30, <1>31, <1>32, <1>33, <1>34
    DEF Next, StartStep, OwnerStep, CallStep

\* The inductive invariant.
LEMMA Invariance == Spec => []IInv
<1>1. Init => IInv
  BY InitEstablishes
<1>2. IInv /\ [Next]_vars => IInv'
  BY TypeSteps, BindingSteps, PositionSteps, LaunchSteps, CandidateSteps, AnswerSteps
    DEF IInv
<1> QED
  BY <1>1, <1>2, PTL DEF Spec

-----------------------------------------------------------------------------
(* The theorems.                                                            *)

\* Every variable keeps its type, and the admission lock is only ever held by the launch of
\* the bound run (src/src/clientStartAdmission.ts).
THEOREM StartTypes == Spec => []TypeOK
<1>1. IInv => TypeOK
  BY DEF IInv
<1> QED
  BY <1>1, Invariance, PTL

\* A bound run of a living server is never without candidate and record, whoever promotes,
\* reconciles or discards at the same time, unless its claim threw
\* (src/src/clientStartAdmission.ts:347 and src/src/runTask.ts:1021).
THEOREM RecoverableRuns == Spec => []BoundRunIsRecoverable
<1>1. IInv => BoundRunIsRecoverable
  BY DEF IInv, CandidateInv
<1> QED
  BY <1>1, Invariance, PTL

\* Whoever answers with a run answers with the bound one, for its own request and with a
\* record to read (README.md:314).
THEOREM TrueAnswers == Spec => []AnswersNameTheBoundRun
<1>1. IInv => AnswersNameTheBoundRun
  BY DEF IInv, AnswerInv
<1> QED
  BY <1>1, Invariance, PTL

\* A containment that was reported holds for ever after
\* (src/src/clientStartAdmission.ts:410).
THEOREM TrueContainment == Spec => []ContainmentIsTrue
<1>1. IInv => ContainmentIsTrue
  <2> SUFFICES ASSUME IInv, NEW c \in Calls
               PROVE /\ outcome[c] = "fenced" => token = "fenced" /\ launched = {}
                     /\ outcome[c] = "terminal" =>
                           /\ Ended(boundTo)
                           /\ Server[boundTo] \in alive => pc[boundTo] = "done"
    BY DEF ContainmentIsTrue
  <2>1. token = "fenced" => launched = {}
    BY CallsAssumption DEF IInv, TypeOK, LaunchInv, Calls
  <2>2. outcome[c] = "fenced" => token = "fenced"
    BY DEF IInv, AnswerInv
  <2>3. outcome[c] = "terminal" => Ended(boundTo) /\ Bound
    BY DEF IInv, AnswerInv, AnswersNameTheBoundRun
  <2> QED
    BY <2>1, <2>2, <2>3 DEF IInv, AnswerInv
<1> QED
  BY <1>1, Invariance, PTL

-----------------------------------------------------------------------------
(* The files implement the token.                                           *)

\* What the calls and crashes do to the token is a step of the promise or none.
LEMMA TokenSteps == IInv /\ [Next]_vars => [Promise!Next]_<<token, boundTo, launched>>
<1> SUFFICES ASSUME IInv, [Next]_vars PROVE [Promise!Next]_<<token, boundTo, launched>>
  OBVIOUS
<1> USE DEF fileVars, runVars, answerVars
<1>1. ASSUME NEW c \in Starts, Claim(c) \/ ClaimThrows(c)
      PROVE  Promise!Bind(c) \/ UNCHANGED <<token, boundTo, launched>>
  BY <1>1 DEF Claim, ClaimThrows, Promise!Bind
<1>2. ASSUME NEW c \in Calls, RequestContainment(c)
      PROVE  Promise!Fence \/ Promise!Cancel \/ UNCHANGED <<token, boundTo, launched>>
  BY <1>2 DEF RequestContainment, Bound, Promise!Fence, Promise!Cancel
<1>3. ASSUME NEW c \in Starts, Spawn(c)
      PROVE  Promise!Launch(c) \/ UNCHANGED <<token, boundTo, launched>>
  <2>1. token = "bound" /\ boundTo = c
    BY <1>3 DEF Spawn, At, IInv, LaunchInv, PositionInv, Owning, Calls
  <2>2. launched = {}
    BY <1>3, <2>1 DEF Spawn, At, IInv, LaunchInv
  <2> QED
    BY <1>3, <2>1, <2>2 DEF Spawn, Promise!Launch
<1>4. ASSUME NEW c \in Calls, \/ Begin(c) \/ PromoteRead(c) \/ PromoteLink(c)
                              \/ PromoteDiscard(c) \/ Drift(c) \/ ContainmentBusy(c)
                              \/ ContainRead(c) \/ ContainStop(c) \/ ContainTerminal(c)
                              \/ ContainOwnerGone(c) \/ ContainUnknown(c)
      PROVE  UNCHANGED <<token, boundTo, launched>>
  BY <1>4 DEF Begin, PromoteRead, PromoteLink, PromoteDiscard, Drift, ContainmentBusy,
    ContainRead, ContainStop, ContainTerminal, ContainOwnerGone, ContainUnknown
<1>5. ASSUME NEW c \in Starts, \/ Find(c) \/ OrphanCheck(c) \/ Reconcile(c)
                               \/ ReconcileReaps(c) \/ Prepare(c) \/ DiscardFailed(c)
                               \/ DiscardLoser(c) \/ Replay(c) \/ ReplayOwner(c)
                               \/ Recover(c)
      PROVE  UNCHANGED <<token, boundTo, launched>>
  BY <1>5 DEF Find, OrphanCheck, Reconcile, ReconcileReaps, Prepare, DiscardFailed,
    DiscardLoser, Replay, ReplayOwner, Recover
<1>6. ASSUME NEW c \in Starts, \/ Register(c) \/ Admit(c) \/ GiveUpLaunch(c)
                               \/ Launch(c) \/ ChildEnds(c) \/ Settle(c)
      PROVE  UNCHANGED <<token, boundTo, launched>>
  BY <1>6 DEF Register, Admit, GiveUpLaunch, Launch, ChildEnds, Settle
<1>7. CASE (\E s \in Servers : Crash(s)) \/ StartupReconcile \/ UNCHANGED vars
  BY <1>7 DEF Crash, StartupReconcile, vars
<1> QED
  BY <1>1, <1>2, <1>3, <1>4, <1>5, <1>6, <1>7
    DEF Next, StartStep, OwnerStep, CallStep, Promise!Next

\* Starts, replays, promotions, cancellations, reconciliations and crashes, in any number,
\* implement the token: bound or fenced once, at most one launch, none behind a
\* cancellation (README.md:314).
THEOREM StartRefinement == Spec => ImplementsStartToken
<1>1. Init => Promise!Init
  BY DEF Init, Promise!Init
<1>2. IInv /\ [Next]_vars => [Promise!Next]_<<token, boundTo, launched>>
  BY TokenSteps
<1> QED
  BY <1>1, <1>2, Invariance, PTL DEF Spec, ImplementsStartToken, Promise!Spec
================================================================================
