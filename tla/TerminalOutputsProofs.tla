----------------------- MODULE TerminalOutputsProofs -----------------------
(***************************************************************************)
(* What TerminalOutputs promises of the documents of a run, proved for any *)
(* set of observers and any number of failures and crashes.                *)
(*                                                                         *)
(* The heart of the argument is when the note of a claim may go.  Once it  *)
(* is written core stages nothing of the pair any more (Late), so that     *)
(* what one cleanup, of the owner or of a server, has passed in its order  *)
(* stays gone (Swept): at its end no document of the pair is public, and   *)
(* none can become so, whoever else is at work on the same files.          *)
(***************************************************************************)
EXTENDS TerminalOutputs, TLAPS

(***************************************************************************)
(* The inductive invariant.                                                *)
(***************************************************************************)
\* From the note on core stages nothing of the pair any more.
Late == {"publishPrimary", "publishPacket", "discard", "returned", "undo", "failed"}
Publishing == {"publishPrimary", "publishPacket"}
Sealed == core \in Late \/ ~ownerAlive

\* What the first n removals of a cleanup leave of the pair.
Swept(n) ==
    /\ n >= 1 => file["primary"] # "staged"
    /\ n >= 2 => file["primary"] = "none"
    /\ n >= 3 => file["packet"] # "staged"
    /\ n >= 4 => file["packet"] = "none"

\* Who goes on removing has a path left.
TypeInv ==
    /\ OutputsTypeOK
    /\ finalizer \in {"waiting", "cleanup"} => cleaned < AllPaths
    /\ \A o \in Observers :
         observer[o].step \in {"sweep", "cleaning"} => observer[o].removed < AllPaths

\* The claim: who may have written what it says.
ClaimInv ==
    /\ claim.status = "working" => claim.references = {}
    /\ claim.status \in Terminal /\ ownerAlive => finalizer = "done"
    /\ finalizer = "done" => claim.status \in Terminal
    /\ claim.status = "drift" => ~ownerAlive /\ claim.references \subseteq {"transcript"}
    /\ claim.status \in Terminal /\ claim.pending => claim.references \cap Pair = {}

\* Core: where it is says what it has staged, noted, published and answered.
CoreInv ==
    /\ core = "start" => file["transcript"] = "none"
    /\ core \notin Late => ~claim.pending /\ ~noted /\ \A d \in Pair : file[d] # "final"
    /\ core \in Publishing =>
         prepared = {} /\ ((\E d \in Pair : file[d] = "staged") => claim.pending /\ noted)
    /\ \A d \in prepared : file[d] # "final"
    /\ core = "publishPacket" => result = {"primary"}
    /\ core = "discard" => result \in {Pair, {"message"}}
    /\ core = "returned" => result \in {Pair, {"message"}, {"transcript"}}
    /\ core \notin {"publishPacket", "discard", "returned"} => result = {}

\* The finalization: its note covers the pair, and what its result refers to is there.
FinalizerInv ==
    /\ outcome \in {{}, Pair, {"message"}, {"transcript"}}
    /\ ownerAlive /\ claim.status = "working" =>
         \A d \in Pair : file[d] = "final" => noted
    /\ ownerAlive /\ finalizer = "waiting" => \A d \in result : file[d] = "final"
    /\ ownerAlive /\ finalizer \in {"cleanup", "clear", "settle"} =>
         \A d \in outcome : file[d] = "final"
    /\ finalizer \in {"cleanup", "clear"} => noted /\ outcome # Pair
    /\ finalizer = "clear" => cleaned = AllPaths
    /\ cleaned > 0 => core \in Late
    /\ Swept(cleaned)

\* An observer: what it has seen, removed and locked.
ObserverInv(o) ==
    /\ observer[o].removed > 0 \/ observer[o].step \in {"sweep", "swept", "cleaning"} => Sealed
    /\ Swept(observer[o].removed)
    /\ observer[o].step = "swept" \/ observer[o].cleaned => observer[o].removed = AllPaths
    /\ observer[o].step \in {"sweep", "swept"} =>
         claim.status \in Terminal /\ claim.references \cap Pair = {}
    /\ observer[o].step \in {"cleaning", "settling", "locked", "recovered"} => ~ownerAlive
    /\ observer[o].step = "cleaning" => claim.status \in {"working", "drift"}
    /\ observer[o].step \in {"locked", "recovered"} => lock = o /\ claim.status = "working"
    /\ observer[o].step = "recovered" =>
         \/ observer[o].recovered = {"transcript"} /\ file["transcript"] = "final"
         \/ observer[o].recovered = {} /\ (file["transcript"] = "none" \/ ~claim.partial)

\* A run whose launch was not granted has at most a staged transcript.
UngrantedInv ==
    claim.status = "working" /\ ~claim.partial =>
      core \in {"start", "transcript", "undo", "failed"} /\ file["transcript"] # "final"

IInv ==
    /\ TypeInv
    /\ ClaimInv /\ CoreInv /\ FinalizerInv
    /\ \A o \in Observers : ObserverInv(o)
    /\ UngrantedInv
    /\ PublishedOutputsAreOwned /\ ReferencedOutputsExist

USE BoundsAreNaturals, FreeIsNobody
    DEF Pair, Documents, FileStates, AllPaths, Terminal

-----------------------------------------------------------------------------
\* The state of an observer, and the steps that change it.
Views == [step : ObserverSteps, pending : BOOLEAN, removed : 0 .. AllPaths, cleaned : BOOLEAN,
          recovered : SUBSET {"transcript"}]

Sound(view) == view \in Views /\ (view.step \in {"sweep", "cleaning"} => view.removed < AllPaths)
ViewsInv == observer \in [Observers -> Views] /\ \A o \in Observers : Sound(observer[o])

\* All the other types.
OthersInv ==
    /\ file \in [Documents -> FileStates]
    /\ claim \in Claims
    /\ lock \in Observers \cup {Free}
    /\ ownerAlive \in BOOLEAN
    /\ core \in CoreSteps /\ prepared \subseteq Pair /\ result \subseteq Documents
    /\ finalizer \in FinalizerSteps /\ outcome \subseteq Documents
    /\ cleaned \in 0 .. AllPaths /\ noted \in BOOLEAN
    /\ failures \in 0 .. MaxFailures /\ crashes \in 0 .. MaxCrashes
    /\ finalizer \in {"waiting", "cleanup"} => cleaned < AllPaths

\* Types are kept in two parts, because a step either changes a view or something else.
LEMMA TypeInvParts == TypeInv <=> OthersInv /\ ViewsInv
BY DEF TypeInv, OutputsTypeOK, OthersInv, ViewsInv, Views, Sound

LEMMA OthersStep == OthersInv /\ ViewsInv /\ [Next]_vars => OthersInv'
<1> SUFFICES ASSUME OthersInv, ViewsInv, [Next]_vars PROVE OthersInv'
  OBVIOUS
<1> USE DEF OthersInv
<1>1. CASE CoreStep
  <2> USE DEF Core, RestOfCore, Quietly, Put, Publish, Removes, Fail, CoreSteps
  <2>1. CASE StageTranscript
    BY <2>1 DEF StageTranscript
  <2>2. CASE WriteMessage
    BY <2>2 DEF WriteMessage
  <2>3. CASE FinalizeTranscript
    BY <2>3 DEF FinalizeTranscript
  <2>4. CASE DiscardTranscript
    BY <2>4 DEF DiscardTranscript
  <2>5. CASE CompletionIsRendered \/ FinalMessageIsRead \/ TranscriptIsAllThereIs
    BY <2>5 DEF CompletionIsRendered, FinalMessageIsRead, TranscriptIsAllThereIs, ChildEnds
  <2>6. CASE PrepareRunOutput("primary", "packet") \/ PrepareRunOutput("packet", "note")
    BY <2>6 DEF PrepareRunOutput
  <2>7. CASE \/ PublishPair("primary", "publishPrimary", "publishPacket")
             \/ PublishPair("packet", "publishPacket", "discard")
    BY <2>7 DEF PublishPair
  <2>8. CASE GrantLaunch
    <3>1. [claim EXCEPT !.partial = TRUE] \in Claims
      BY DEF Claims
    <3> QED BY <2>8, <3>1 DEF GrantLaunch
  <2>9. CASE AcceptPendingTerminalOutputs \/ AcceptanceFails
    <3>1. [claim EXCEPT !.pending = TRUE] \in Claims
      BY DEF Claims
    <3>2. CASE AcceptPendingTerminalOutputs
      BY <3>2, <3>1 DEF AcceptPendingTerminalOutputs
    <3>3. CASE AcceptanceFails
      <4>1. claim' \in Claims
        BY <3>3, <3>1 DEF AcceptanceFails
      <4> QED BY <3>3, <4>1 DEF AcceptanceFails
    <3> QED BY <2>9, <3>2, <3>3
  <2>10. CASE CoreThrows
    BY <2>10 DEF CoreThrows
  <2>11. CASE UndoPrepared
    BY <2>11 DEF UndoPrepared
  <2> QED BY <1>1, <2>1, <2>2, <2>3, <2>4, <2>5, <2>6, <2>7, <2>8, <2>9, <2>10, <2>11 DEF CoreStep
<1>2. CASE FinalizerStep
  <2> USE DEF Finalizer, RestOfFinalizer, Quietly, Begin, OwnsPair, Fail, FinalizerSteps
  <2>1. CASE FinalizationBegins
    BY <2>1 DEF FinalizationBegins
  <2>2. CASE LaunchGuardFails
    BY <2>2 DEF LaunchGuardFails
  <2>3. CASE CleanupRemoves
    <3>1. file' \in [Documents -> FileStates]
      BY <2>3 DEF CleanupRemoves, RemovePath, Removes
    <3>2. cleaned' \in 0 .. AllPaths /\ (finalizer' = "cleanup" => cleaned' < AllPaths)
      BY <2>3 DEF CleanupRemoves
    <3> QED BY <2>3, <3>1, <3>2 DEF CleanupRemoves
  <2>4. CASE CleanupFails
    BY <2>4 DEF CleanupFails
  <2>5. CASE ClearPendingTerminalOutputs
    <3>1. [claim EXCEPT !.pending = FALSE] \in Claims
      BY DEF Claims
    <3>2. claim' \in Claims
      BY <2>5, <3>1 DEF ClearPendingTerminalOutputs
    <3>3. noted' \in BOOLEAN
      BY <2>5 DEF ClearPendingTerminalOutputs
    <3> QED BY <2>5, <3>2, <3>3 DEF ClearPendingTerminalOutputs
  <2>6. Settled \in Claims /\ Settled.pending \in BOOLEAN
    BY DEF Settled, Claims
  <2>7. CASE SettleRunClaim
    BY <2>6, <2>7 DEF SettleRunClaim
  <2>8. CASE SettlementFails
    BY <2>6, <2>8 DEF SettlementFails
  <2> QED BY <1>2, <2>1, <2>2, <2>3, <2>4, <2>5, <2>6, <2>7, <2>8 DEF FinalizerStep
<1>3. CASE OwnerDies
  BY <1>3 DEF OwnerDies, owner, counters
<1>4. ASSUME NEW o \in Observers, Start(o) \/ Inspect(o) \/ ObserverStep(o) \/ Crash(o) \/ Stop(o)
      PROVE OthersInv'
  <2> USE DEF RestOfObserver, Quietly, owner, counters, Fail
  <2>1. CASE Start(o) \/ Inspect(o) \/ NothingToReconcile(o) \/ ReadAgain(o) \/ Crash(o) \/ Stop(o)
    BY <2>1 DEF Start, Inspect, NothingToReconcile, ReadAgain, Crash, Stop
  <2>2. CASE \/ ObserverRemoves(o, "sweep", "swept") \/ ObserverRemoves(o, "cleaning", "settling")
             \/ ObserverCleanupFails(o, "sweep", "reconcile")
             \/ ObserverCleanupFails(o, "cleaning", "settling")
    BY <2>2 DEF ObserverRemoves, ObserverCleanupFails, RemovePath, Removes
  <2>3. CASE ClearSwept(o)
    <3>1. [claim EXCEPT !.pending = FALSE] \in Claims
      BY DEF Claims
    <3>2. claim' \in Claims
      BY <2>3, <3>1 DEF ClearSwept
    <3> QED BY <2>3, <3>2 DEF ClearSwept
  <2>4. CASE RecoverTranscript(o)
    BY <2>4 DEF RecoverTranscript, Recoverable
  <2>5. Drift(o) \in Claims
    BY DEF Drift, Claims, ViewsInv, Views
  <2>6. CASE SettleOwnerLoss(o)
    BY <2>5, <2>6 DEF SettleOwnerLoss
  <2>7. CASE SettlementThrows(o)
    BY <2>5, <2>7 DEF SettlementThrows, Recoverable
  <2> QED BY <1>4, <2>1, <2>2, <2>3, <2>4, <2>5, <2>6, <2>7 DEF ObserverStep
<1>5. CASE UNCHANGED vars
  BY <1>5 DEF vars
<1> QED BY <1>1, <1>2, <1>3, <1>4, <1>5 DEF Next

LEMMA ViewsStep == OthersInv /\ ViewsInv /\ [Next]_vars => ViewsInv'
<1> SUFFICES ASSUME OthersInv, ViewsInv, [Next]_vars PROVE ViewsInv'
  OBVIOUS
<1>1. CASE UNCHANGED observer
  BY <1>1 DEF ViewsInv
<1>2. ASSUME NEW o \in Observers, NEW view, Sound(view), Goes(o, view)
      PROVE  ViewsInv'
  BY <1>2 DEF ViewsInv, Goes, Sound
<1>3. ASSUME NEW step \in ObserverSteps
      PROVE  /\ Sound(Idle(step))
             /\ \A pending \in BOOLEAN : Sound([Idle(step) EXCEPT !.pending = pending])
  <2>1. Sound(Idle(step))
    BY DEF Idle, Views, Sound
  <2>2. ASSUME NEW pending \in BOOLEAN
        PROVE  Sound([Idle(step) EXCEPT !.pending = pending])
    <3>1. Idle(step) \in Views /\ Idle(step).step = step /\ Idle(step).removed = 0
      BY <2>1 DEF Idle, Sound
    <3>2. [Idle(step) EXCEPT !.pending = pending] \in Views
      BY <3>1 DEF Views
    <3> QED BY <3>1, <3>2 DEF Sound, Views
  <2> QED BY <2>1, <2>2
<1>4. ASSUME NEW o \in Observers, NEW step \in ObserverSteps \ {"sweep", "cleaning"}
      PROVE  /\ Sound([observer[o] EXCEPT !.step = step])
             /\ \A recovered \in SUBSET {"transcript"} :
                  Sound([observer[o] EXCEPT !.step = step, !.recovered = recovered])
  BY <1>4 DEF Views, Sound, ViewsInv
<1>5. claim.pending \in BOOLEAN
  BY DEF OthersInv, Claims
<1>6. ASSUME NEW o \in Observers, Start(o) \/ Inspect(o) \/ ObserverStep(o) \/ Crash(o) \/ Stop(o)
      PROVE ViewsInv'
  <2> USE DEF ObserverSteps
  <2>1. CASE Start(o) \/ Inspect(o)
    BY <2>1, <1>2, <1>3, <1>5 DEF Start, Inspect
  <2>2. CASE NothingToReconcile(o) \/ Crash(o) \/ Stop(o) \/ ClearSwept(o)
    BY <2>2, <1>2, <1>3 DEF NothingToReconcile, Crash, Stop, ClearSwept
  <2>3. ASSUME NEW from \in {"sweep", "cleaning"}, NEW next \in {"swept", "settling"},
               ObserverRemoves(o, from, next)
        PROVE  ViewsInv'
    <3> DEFINE removed == observer[o].removed + 1
               done == removed = AllPaths
               view == [observer[o] EXCEPT !.removed = removed, !.cleaned = done,
                                           !.step = IF done THEN next ELSE from]
    <3>1. observer[o] \in Views /\ observer[o].removed < AllPaths
      BY <2>3 DEF ViewsInv, Sound, ObserverRemoves, At
    <3>2. removed \in 0 .. AllPaths /\ done \in BOOLEAN
      BY <3>1 DEF Views
    <3>3. view \in Views
      <4> HIDE DEF removed, done
      <4> QED BY <2>3, <3>1, <3>2 DEF Views
    <3>4. view.removed = removed /\ view.step = IF done THEN next ELSE from
      <4> HIDE DEF removed, done
      <4> QED BY <3>1 DEF Views
    <3>5. Sound(view)
      <4> HIDE DEF view
      <4> QED BY <2>3, <3>2, <3>3, <3>4 DEF Sound
    <3> QED BY <2>3, <3>5, <1>2 DEF ObserverRemoves
  <2>4. CASE \/ ObserverCleanupFails(o, "sweep", "reconcile")
             \/ ObserverCleanupFails(o, "cleaning", "settling")
    BY <2>4, <1>2, <1>4 DEF ObserverCleanupFails, Steps, Goes
  <2>5. CASE ReadAgain(o)
    BY <2>5, <1>1, <1>2, <1>3, <1>4 DEF ReadAgain, Steps, Goes
  <2>6. CASE RecoverTranscript(o)
    BY <2>6, <1>2, <1>4 DEF RecoverTranscript, Recovered
  <2>7. CASE SettleOwnerLoss(o) \/ SettlementThrows(o)
    BY <2>7, <1>2, <1>3 DEF SettleOwnerLoss, SettlementThrows
  <2> QED BY <1>6, <2>1, <2>2, <2>3, <2>4, <2>5, <2>6, <2>7 DEF ObserverStep
<1>7. CASE CoreStep \/ FinalizerStep \/ OwnerDies \/ UNCHANGED vars
  BY <1>7, <1>1 DEF CoreStep, FinalizerStep, OwnerDies, vars, StageTranscript, GrantLaunch,
       CompletionIsRendered, FinalMessageIsRead, TranscriptIsAllThereIs, ChildEnds,
       PrepareRunOutput, AcceptPendingTerminalOutputs, AcceptanceFails, PublishPair,
       WriteMessage, FinalizeTranscript, DiscardTranscript, CoreThrows, UndoPrepared,
       FinalizationBegins, LaunchGuardFails, Begin, CleanupRemoves, CleanupFails,
       ClearPendingTerminalOutputs, SettleRunClaim, SettlementFails, RestOfCore, RestOfFinalizer
<1> QED BY <1>6, <1>7 DEF Next

\* A cleanup, too, always has a path left to remove.
LEMMA TypeStep == TypeInv /\ [Next]_vars => TypeInv'
<1>1. TypeInv' <=> OthersInv' /\ ViewsInv'
  BY DEF TypeInv, OutputsTypeOK, OthersInv, ViewsInv, Views, Sound
<1> QED BY <1>1, TypeInvParts, OthersStep, ViewsStep

\* No step of core breaks the invariant.
LEMMA CoreKeeps ==
  ASSUME IInv, TypeInv',
         \/ StageTranscript \/ GrantLaunch \/ CompletionIsRendered \/ FinalMessageIsRead
         \/ TranscriptIsAllThereIs \/ PrepareRunOutput("primary", "packet")
         \/ PrepareRunOutput("packet", "note") \/ AcceptPendingTerminalOutputs
         \/ AcceptanceFails \/ PublishPair("primary", "publishPrimary", "publishPacket")
         \/ PublishPair("packet", "publishPacket", "discard") \/ WriteMessage
         \/ FinalizeTranscript \/ DiscardTranscript \/ CoreThrows \/ UndoPrepared
  PROVE  IInv'
<1> USE DEF IInv, OutputsTypeOK, TypeInv, ClaimInv, CoreInv, FinalizerInv, ObserverInv,
            UngrantedInv, PublishedOutputsAreOwned, ReferencedOutputsExist,
            Core, RestOfCore, Quietly, CoreSteps, FinalizerSteps, ObserverSteps, Claims, Late,
            Publishing, Sealed, Swept
<1>1. CASE StageTranscript
  BY <1>1 DEF StageTranscript, Put
<1>2. CASE GrantLaunch
  <2>1. ClaimInv'
    BY <1>2 DEF GrantLaunch
  <2>2. CoreInv'
    BY <1>2 DEF GrantLaunch
  <2>3. FinalizerInv'
    BY <1>2 DEF GrantLaunch
  <2>4. ASSUME NEW o \in Observers PROVE ObserverInv(o)'
    BY <1>2 DEF GrantLaunch
  <2>5. UngrantedInv'
    BY <1>2 DEF GrantLaunch
  <2>6. PublishedOutputsAreOwned'
    BY <1>2 DEF GrantLaunch
  <2>7. ReferencedOutputsExist'
    BY <1>2 DEF GrantLaunch
  <2> QED BY <2>1, <2>2, <2>3, <2>4, <2>5, <2>6, <2>7 DEF IInv
<1>3. CASE CompletionIsRendered
  BY <1>3 DEF CompletionIsRendered, ChildEnds
<1>4. CASE FinalMessageIsRead
  BY <1>4 DEF FinalMessageIsRead, ChildEnds
<1>5. CASE TranscriptIsAllThereIs
  BY <1>5 DEF TranscriptIsAllThereIs, ChildEnds
<1>6. CASE PrepareRunOutput("primary", "packet")
  BY <1>6 DEF PrepareRunOutput, Put
<1>7. CASE PrepareRunOutput("packet", "note")
  BY <1>7 DEF PrepareRunOutput, Put
<1>8. CASE AcceptPendingTerminalOutputs
  <2>1. ClaimInv'
    BY <1>8 DEF AcceptPendingTerminalOutputs
  <2>2. CoreInv'
    BY <1>8 DEF AcceptPendingTerminalOutputs
  <2>3. FinalizerInv'
    BY <1>8 DEF AcceptPendingTerminalOutputs
  <2>4. ASSUME NEW o \in Observers PROVE ObserverInv(o)'
    BY <1>8 DEF AcceptPendingTerminalOutputs
  <2>5. UngrantedInv'
    BY <1>8 DEF AcceptPendingTerminalOutputs
  <2>6. PublishedOutputsAreOwned'
    BY <1>8 DEF AcceptPendingTerminalOutputs
  <2>7. ReferencedOutputsExist'
    BY <1>8 DEF AcceptPendingTerminalOutputs
  <2> QED BY <2>1, <2>2, <2>3, <2>4, <2>5, <2>6, <2>7 DEF IInv
<1>9. CASE AcceptanceFails
  <2>1. ClaimInv'
    BY <1>9 DEF AcceptanceFails, Fail
  <2>2. CoreInv'
    BY <1>9 DEF AcceptanceFails, Fail
  <2>3. FinalizerInv'
    BY <1>9 DEF AcceptanceFails, Fail
  <2>4. ASSUME NEW o \in Observers PROVE ObserverInv(o)'
    BY <1>9 DEF AcceptanceFails, Fail
  <2>5. UngrantedInv'
    BY <1>9 DEF AcceptanceFails, Fail
  <2>6. PublishedOutputsAreOwned'
    BY <1>9 DEF AcceptanceFails, Fail
  <2>7. ReferencedOutputsExist'
    BY <1>9 DEF AcceptanceFails, Fail
  <2> QED BY <2>1, <2>2, <2>3, <2>4, <2>5, <2>6, <2>7 DEF IInv
<1>10. CASE PublishPair("primary", "publishPrimary", "publishPacket")
  <2>1. ClaimInv'
    BY <1>10 DEF PublishPair, Publish, Put
  <2>2. CoreInv'
    BY <1>10, ZenonT(60) DEF PublishPair, Publish, Put
  <2>3. FinalizerInv'
    BY <1>10 DEF PublishPair, Publish, Put
  <2>4. ASSUME NEW o \in Observers PROVE ObserverInv(o)'
    BY <1>10 DEF PublishPair, Publish, Put
  <2>5. UngrantedInv'
    BY <1>10 DEF PublishPair, Publish, Put
  <2>6. PublishedOutputsAreOwned'
    BY <1>10 DEF PublishPair, Publish, Put
  <2>7. ReferencedOutputsExist'
    BY <1>10 DEF PublishPair, Publish, Put
  <2> QED BY <2>1, <2>2, <2>3, <2>4, <2>5, <2>6, <2>7 DEF IInv
<1>11. CASE PublishPair("packet", "publishPacket", "discard")
  <2>1. ClaimInv'
    BY <1>11 DEF PublishPair, Publish, Put
  <2>2. CoreInv'
    BY <1>11 DEF PublishPair, Publish, Put
  <2>3. FinalizerInv'
    BY <1>11 DEF PublishPair, Publish, Put
  <2>4. ASSUME NEW o \in Observers PROVE ObserverInv(o)'
    BY <1>11 DEF PublishPair, Publish, Put
  <2>5. UngrantedInv'
    BY <1>11 DEF PublishPair, Publish, Put
  <2>6. PublishedOutputsAreOwned'
    BY <1>11 DEF PublishPair, Publish, Put
  <2>7. ReferencedOutputsExist'
    BY <1>11 DEF PublishPair, Publish, Put
  <2> QED BY <2>1, <2>2, <2>3, <2>4, <2>5, <2>6, <2>7 DEF IInv
<1>12. CASE WriteMessage
  BY <1>12 DEF WriteMessage, Put
<1>13. CASE FinalizeTranscript
  BY <1>13 DEF FinalizeTranscript, Publish, Put
<1>14. CASE DiscardTranscript
  BY <1>14 DEF DiscardTranscript, Removes
<1>15. CASE CoreThrows
  BY <1>15 DEF CoreThrows, Fail, Removes
<1>16. CASE UndoPrepared
  BY <1>16 DEF UndoPrepared, Fail
<1> QED BY <1>1, <1>2, <1>3, <1>4, <1>5, <1>6, <1>7, <1>8, <1>9, <1>10,
            <1>11, <1>12, <1>13, <1>14, <1>15, <1>16

\* No step of the finalization breaks it.
LEMMA FinalizerKeeps ==
  ASSUME IInv, TypeInv',
         \/ FinalizationBegins \/ LaunchGuardFails \/ CleanupRemoves \/ CleanupFails
         \/ ClearPendingTerminalOutputs \/ SettleRunClaim \/ SettlementFails
  PROVE  IInv'
<1> USE DEF IInv, OutputsTypeOK, TypeInv, ClaimInv, CoreInv, FinalizerInv, ObserverInv,
            UngrantedInv, PublishedOutputsAreOwned, ReferencedOutputsExist,
            Finalizer, RestOfFinalizer, Quietly, CoreSteps, FinalizerSteps, ObserverSteps,
            Claims, Late, Publishing, Sealed, Swept
<1>1. CASE FinalizationBegins
  <2>1. ClaimInv'
    BY <1>1 DEF FinalizationBegins, Begin, OwnsPair
  <2>2. CoreInv'
    BY <1>1 DEF FinalizationBegins, Begin, OwnsPair
  <2>3. FinalizerInv'
    BY <1>1 DEF FinalizationBegins, Begin, OwnsPair
  <2>4. ASSUME NEW o \in Observers PROVE ObserverInv(o)'
    BY <1>1 DEF FinalizationBegins, Begin, OwnsPair
  <2>5. UngrantedInv'
    BY <1>1 DEF FinalizationBegins, Begin, OwnsPair
  <2>6. PublishedOutputsAreOwned'
    BY <1>1 DEF FinalizationBegins, Begin, OwnsPair
  <2>7. ReferencedOutputsExist'
    BY <1>1 DEF FinalizationBegins, Begin, OwnsPair
  <2> QED BY <2>1, <2>2, <2>3, <2>4, <2>5, <2>6, <2>7 DEF IInv
<1>2. CASE LaunchGuardFails
  <2>1. ClaimInv'
    BY <1>2 DEF LaunchGuardFails, Begin, OwnsPair, Fail
  <2>2. CoreInv'
    BY <1>2 DEF LaunchGuardFails, Begin, OwnsPair, Fail
  <2>3. FinalizerInv'
    BY <1>2 DEF LaunchGuardFails, Begin, OwnsPair, Fail
  <2>4. ASSUME NEW o \in Observers PROVE ObserverInv(o)'
    BY <1>2 DEF LaunchGuardFails, Begin, OwnsPair, Fail
  <2>5. UngrantedInv'
    BY <1>2 DEF LaunchGuardFails, Begin, OwnsPair, Fail
  <2>6. PublishedOutputsAreOwned'
    BY <1>2 DEF LaunchGuardFails, Begin, OwnsPair, Fail
  <2>7. ReferencedOutputsExist'
    BY <1>2 DEF LaunchGuardFails, Begin, OwnsPair, Fail
  <2> QED BY <2>1, <2>2, <2>3, <2>4, <2>5, <2>6, <2>7 DEF IInv
<1>3. CASE CleanupRemoves
  BY <1>3 DEF CleanupRemoves, RemovePath, Removes, CleanupPaths
<1>4. CASE CleanupFails
  BY <1>4 DEF CleanupFails, Fail
<1>5. CASE ClearPendingTerminalOutputs
  <2>1. ClaimInv'
    BY <1>5, ZenonT(60) DEF ClearPendingTerminalOutputs, Fail
  <2>2. CoreInv'
    BY <1>5 DEF ClearPendingTerminalOutputs, Fail
  <2>3. FinalizerInv'
    BY <1>5 DEF ClearPendingTerminalOutputs, Fail
  <2>4. ASSUME NEW o \in Observers PROVE ObserverInv(o)'
    BY <1>5 DEF ClearPendingTerminalOutputs, Fail
  <2>5. UngrantedInv'
    BY <1>5 DEF ClearPendingTerminalOutputs, Fail
  <2>6. PublishedOutputsAreOwned'
    <3>1. \A d \in Pair : file'[d] = "none"
      BY <1>5 DEF ClearPendingTerminalOutputs, Fail
    <3>2. claim'.status = claim.status /\ claim'.references = claim.references
      BY <1>5, ZenonT(60) DEF ClearPendingTerminalOutputs, Fail
    <3>3. claim'.status # "drift"
      BY <1>5, <3>2 DEF ClearPendingTerminalOutputs
    <3> QED BY <3>1, <3>3
  <2>7. ReferencedOutputsExist'
    BY <1>5 DEF ClearPendingTerminalOutputs, Fail
  <2> QED BY <2>1, <2>2, <2>3, <2>4, <2>5, <2>6, <2>7 DEF IInv
<1>6. CASE SettleRunClaim
  <2>1. ClaimInv'
    BY <1>6 DEF SettleRunClaim, Settled, OwnsPair
  <2>2. CoreInv'
    BY <1>6 DEF SettleRunClaim, Settled, OwnsPair
  <2>3. FinalizerInv'
    BY <1>6 DEF SettleRunClaim, Settled, OwnsPair
  <2>4. ASSUME NEW o \in Observers PROVE ObserverInv(o)'
    BY <1>6 DEF SettleRunClaim, Settled, OwnsPair
  <2>5. UngrantedInv'
    BY <1>6 DEF SettleRunClaim, Settled, OwnsPair
  <2>6. PublishedOutputsAreOwned'
    BY <1>6 DEF SettleRunClaim, Settled, OwnsPair
  <2>7. ReferencedOutputsExist'
    BY <1>6 DEF SettleRunClaim, Settled, OwnsPair
  <2> QED BY <2>1, <2>2, <2>3, <2>4, <2>5, <2>6, <2>7 DEF IInv
<1>7. CASE SettlementFails
  <2>1. ClaimInv'
    BY <1>7 DEF SettlementFails, Settled, OwnsPair, Fail
  <2>2. CoreInv'
    BY <1>7 DEF SettlementFails, Settled, OwnsPair, Fail
  <2>3. FinalizerInv'
    BY <1>7 DEF SettlementFails, Settled, OwnsPair, Fail
  <2>4. ASSUME NEW o \in Observers PROVE ObserverInv(o)'
    BY <1>7 DEF SettlementFails, Settled, OwnsPair, Fail
  <2>5. UngrantedInv'
    BY <1>7 DEF SettlementFails, Settled, OwnsPair, Fail
  <2>6. PublishedOutputsAreOwned'
    BY <1>7 DEF SettlementFails, Settled, OwnsPair, Fail
  <2>7. ReferencedOutputsExist'
    BY <1>7 DEF SettlementFails, Settled, OwnsPair, Fail
  <2> QED BY <2>1, <2>2, <2>3, <2>4, <2>5, <2>6, <2>7 DEF IInv
<1> QED BY <1>1, <1>2, <1>3, <1>4, <1>5, <1>6, <1>7

\* What one removal of a cleanup does to the documents.
LEMMA RemovalFacts ==
  ASSUME OutputsTypeOK, NEW i \in 1 .. AllPaths, RemovePath(i)
  PROVE  /\ \A d \in Documents : file'[d] \in {file[d], "none"}
         /\ \A d \in Documents \ Pair : file'[d] = file[d]
         /\ Swept(i - 1) => Swept(i)'
         /\ \A n \in 0 .. AllPaths : Swept(n) => Swept(n)'
<1> USE DEF OutputsTypeOK
<1>1. /\ CleanupPaths[i][1] \in Pair
      /\ \A d \in Documents : file'[d] = IF d = CleanupPaths[i][1] /\ file[d] = CleanupPaths[i][2]
                                           THEN "none" ELSE file[d]
  <2>1. CASE i = 1 BY <2>1 DEF RemovePath, Removes, CleanupPaths
  <2>2. CASE i = 2 BY <2>2 DEF RemovePath, Removes, CleanupPaths
  <2>3. CASE i = 3 BY <2>3 DEF RemovePath, Removes, CleanupPaths
  <2>4. CASE i = 4 BY <2>4 DEF RemovePath, Removes, CleanupPaths
  <2> QED BY <2>1, <2>2, <2>3, <2>4
<1>2. \A d \in Documents : file'[d] \in {file[d], "none"}
  BY <1>1
<1>3. Swept(i - 1) => Swept(i)'
  <2>1. CASE i = 1 BY <1>1, <2>1 DEF Swept, CleanupPaths
  <2>2. CASE i = 2 BY <1>1, <2>2 DEF Swept, CleanupPaths
  <2>3. CASE i = 3 BY <1>1, <2>3 DEF Swept, CleanupPaths
  <2>4. CASE i = 4 BY <1>1, <2>4 DEF Swept, CleanupPaths
  <2> QED BY <2>1, <2>2, <2>3, <2>4
<1>4. ASSUME NEW n \in 0 .. AllPaths, Swept(n) PROVE Swept(n)'
  BY <1>2, <1>4 DEF Swept
<1> QED BY <1>1, <1>2, <1>3, <1>4

\* A removal takes nothing away that a claim refers to, and the owner relies on nothing of it.
LEMMA ObserverRemovalKeeps ==
  ASSUME IInv, TypeInv', NEW o \in Observers, NEW from, NEW next,
         <<from, next>> \in {<<"sweep", "swept">>, <<"cleaning", "settling">>},
         ObserverRemoves(o, from, next)
  PROVE  IInv'
<1>1. /\ observer[o].step = from
      /\ observer \in [Observers -> [step : ObserverSteps, pending : BOOLEAN,
                                      removed : 0 .. AllPaths, cleaned : BOOLEAN,
                                      recovered : SUBSET {"transcript"}]]
  BY DEF ObserverRemoves, At, IInv, TypeInv, OutputsTypeOK
<1>0. PICK i \in 1 .. AllPaths : i = observer[o].removed + 1
  BY <1>1 DEF ObserverRemoves, At, IInv, TypeInv
<1>2. UNCHANGED <<claim, lock, ownerAlive, core, prepared, result, finalizer, outcome, cleaned,
                  noted>>
  BY DEF ObserverRemoves, RestOfObserver, owner
<1>3. /\ observer'[o].removed = i
      /\ observer'[o].cleaned = (i = AllPaths)
      /\ observer'[o].step = IF i = AllPaths THEN next ELSE from
      /\ \A p \in Observers \ {o} : observer'[p] = observer[p]
  BY <1>0, <1>1 DEF ObserverRemoves, Goes
<1>4. OutputsTypeOK /\ RemovePath(i)
  BY <1>0 DEF ObserverRemoves, IInv, TypeInv
<1>5. /\ \A d \in Documents : file'[d] \in {file[d], "none"}
      /\ \A d \in Documents \ Pair : file'[d] = file[d]
      /\ Swept(i - 1) => Swept(i)'
      /\ \A n \in 0 .. AllPaths : Swept(n) => Swept(n)'
  BY <1>4, RemovalFacts
<1>6. Sealed /\ claim.references \cap Pair = {} /\ claim.references \subseteq Documents
  <2>1. claim.references \subseteq Documents
    BY <1>4 DEF OutputsTypeOK, Claims
  <2>2. ObserverInv(o) /\ ClaimInv
    BY DEF IInv
  <2>3. CASE from = "sweep"
    BY <1>1, <2>1, <2>2, <2>3 DEF ObserverInv
  <2>4. CASE from = "cleaning"
    BY <1>1, <2>1, <2>2, <2>4 DEF ObserverInv, ClaimInv
  <2> QED BY <2>3, <2>4
<1>7. ClaimInv'
  BY <1>2 DEF IInv, ClaimInv
<1>8. CoreInv'
  <2>1. CoreInv /\ prepared \subseteq Documents
    BY <1>4 DEF IInv, OutputsTypeOK
  <2> QED BY <1>2, <1>5, <2>1 DEF CoreInv
<1>9. FinalizerInv'
  <2>1. cleaned \in 0 .. AllPaths
    BY <1>4 DEF OutputsTypeOK
  <2>2. ownerAlive => finalizer = "done"
    <3>1. ObserverInv(o) /\ ClaimInv
      BY DEF IInv
    <3> QED BY <1>1, <3>1 DEF ObserverInv, ClaimInv
  <2> QED BY <1>2, <1>5, <2>1, <2>2 DEF IInv, FinalizerInv
<1>10. ASSUME NEW p \in Observers PROVE ObserverInv(p)'
  <2>1. Sealed'
    BY <1>2, <1>6 DEF Sealed
  <2>2. ObserverInv(p) /\ observer[p].removed \in 0 .. AllPaths
    BY <1>1 DEF IInv
  <2>3. CASE p # o
    BY <1>2, <1>3, <1>5, <2>1, <2>2, <2>3 DEF ObserverInv
  <2>4. CASE p = o
    <3>1. Swept(i)'
      BY <1>0, <1>5, <2>2, <2>4 DEF ObserverInv
    <3>2. Swept(observer[p].removed)'
      BY <1>3, <2>4, <3>1 DEF Swept
    <3> QED BY <1>1, <1>2, <1>3, <2>1, <2>2, <2>4, <3>2 DEF ObserverInv
  <2> QED BY <2>3, <2>4
<1>11. UngrantedInv'
  BY <1>2, <1>5 DEF IInv, UngrantedInv
<1>12. PublishedOutputsAreOwned'
  BY <1>2, <1>5 DEF IInv, PublishedOutputsAreOwned
<1>13. ReferencedOutputsExist'
  BY <1>2, <1>5, <1>6 DEF IInv, ReferencedOutputsExist
<1> QED BY <1>7, <1>8, <1>9, <1>10, <1>11, <1>12, <1>13 DEF IInv

\* No step of another server breaks it.
LEMMA ObserverKeeps ==
  ASSUME IInv, TypeInv', NEW o \in Observers,
         \/ Start(o) \/ Inspect(o) \/ ObserverRemoves(o, "sweep", "swept")
         \/ ObserverRemoves(o, "cleaning", "settling")
         \/ ObserverCleanupFails(o, "sweep", "reconcile")
         \/ ObserverCleanupFails(o, "cleaning", "settling") \/ ClearSwept(o)
         \/ NothingToReconcile(o) \/ ReadAgain(o) \/ RecoverTranscript(o)
         \/ SettleOwnerLoss(o) \/ SettlementThrows(o) \/ Crash(o) \/ Stop(o)
  PROVE  IInv'
<1> USE DEF IInv, OutputsTypeOK, TypeInv, ClaimInv, CoreInv, FinalizerInv, ObserverInv,
            UngrantedInv, PublishedOutputsAreOwned, ReferencedOutputsExist,
            At, RestOfObserver, Quietly, owner, counters, CoreSteps, FinalizerSteps,
            ObserverSteps, Claims, Late, Publishing, Sealed, Swept
<1>1. CASE Start(o)
  <2>1. ClaimInv'
    BY <1>1 DEF Start, Goes, Idle
  <2>2. CoreInv'
    BY <1>1 DEF Start, Goes, Idle
  <2>3. FinalizerInv'
    BY <1>1 DEF Start, Goes, Idle
  <2>4. ASSUME NEW other \in Observers PROVE ObserverInv(other)'
    BY <1>1 DEF Start, Goes, Idle
  <2>5. UngrantedInv'
    BY <1>1 DEF Start, Goes, Idle
  <2>6. PublishedOutputsAreOwned'
    BY <1>1 DEF Start, Goes, Idle
  <2>7. ReferencedOutputsExist'
    BY <1>1 DEF Start, Goes, Idle
  <2> QED BY <2>1, <2>2, <2>3, <2>4, <2>5, <2>6, <2>7 DEF IInv
<1>2. CASE Inspect(o)
  <2>1. ClaimInv'
    BY <1>2 DEF Inspect, Goes, Idle
  <2>2. CoreInv'
    BY <1>2 DEF Inspect, Goes, Idle
  <2>3. FinalizerInv'
    BY <1>2 DEF Inspect, Goes, Idle
  <2>4. ASSUME NEW other \in Observers PROVE ObserverInv(other)'
    BY <1>2 DEF Inspect, Goes, Idle
  <2>5. UngrantedInv'
    BY <1>2 DEF Inspect, Goes, Idle
  <2>6. PublishedOutputsAreOwned'
    BY <1>2 DEF Inspect, Goes, Idle
  <2>7. ReferencedOutputsExist'
    BY <1>2 DEF Inspect, Goes, Idle
  <2> QED BY <2>1, <2>2, <2>3, <2>4, <2>5, <2>6, <2>7 DEF IInv
<1>3. CASE ObserverRemoves(o, "sweep", "swept")
  BY <1>3, ObserverRemovalKeeps
<1>4. CASE ObserverRemoves(o, "cleaning", "settling")
  BY <1>4, ObserverRemovalKeeps
<1>5. CASE ObserverCleanupFails(o, "sweep", "reconcile")
  BY <1>5 DEF ObserverCleanupFails, Fail, Steps
<1>6. CASE ObserverCleanupFails(o, "cleaning", "settling")
  BY <1>6 DEF ObserverCleanupFails, Fail, Steps
<1>7. CASE ClearSwept(o)
  <2>1. ClaimInv'
    BY <1>7 DEF ClearSwept, Goes, Idle, Fail
  <2>2. CoreInv'
    BY <1>7 DEF ClearSwept, Goes, Idle, Fail
  <2>3. FinalizerInv'
    BY <1>7 DEF ClearSwept, Goes, Idle, Fail
  <2>4. ASSUME NEW other \in Observers PROVE ObserverInv(other)'
    BY <1>7 DEF ClearSwept, Goes, Idle, Fail
  <2>5. UngrantedInv'
    BY <1>7 DEF ClearSwept, Goes, Idle, Fail
  <2>6. PublishedOutputsAreOwned'
    BY <1>7 DEF ClearSwept, Goes, Idle, Fail
  <2>7. ReferencedOutputsExist'
    BY <1>7 DEF ClearSwept, Goes, Idle, Fail
  <2> QED BY <2>1, <2>2, <2>3, <2>4, <2>5, <2>6, <2>7 DEF IInv
<1>8. CASE NothingToReconcile(o)
  BY <1>8 DEF NothingToReconcile, Goes, Idle
<1>9. CASE ReadAgain(o)
  <2>1. ClaimInv'
    BY <1>9 DEF ReadAgain, Goes, Steps, Idle
  <2>2. CoreInv'
    BY <1>9 DEF ReadAgain, Goes, Steps, Idle
  <2>3. FinalizerInv'
    BY <1>9 DEF ReadAgain, Goes, Steps, Idle
  <2>4. ASSUME NEW other \in Observers PROVE ObserverInv(other)'
    BY <1>9 DEF ReadAgain, Goes, Steps, Idle
  <2>5. UngrantedInv'
    BY <1>9 DEF ReadAgain, Goes, Steps, Idle
  <2>6. PublishedOutputsAreOwned'
    BY <1>9 DEF ReadAgain, Goes, Steps, Idle
  <2>7. ReferencedOutputsExist'
    BY <1>9 DEF ReadAgain, Goes, Steps, Idle
  <2> QED BY <2>1, <2>2, <2>3, <2>4, <2>5, <2>6, <2>7 DEF IInv
<1>10. CASE RecoverTranscript(o)
  <2>1. ClaimInv'
    BY <1>10 DEF RecoverTranscript, Recoverable, Recovered, Goes
  <2>2. CoreInv'
    BY <1>10 DEF RecoverTranscript, Recoverable, Recovered, Goes
  <2>3. FinalizerInv'
    BY <1>10 DEF RecoverTranscript, Recoverable, Recovered, Goes
  <2>4. ASSUME NEW other \in Observers PROVE ObserverInv(other)'
    BY <1>10 DEF RecoverTranscript, Recoverable, Recovered, Goes
  <2>5. UngrantedInv'
    BY <1>10 DEF RecoverTranscript, Recoverable, Recovered, Goes
  <2>6. PublishedOutputsAreOwned'
    BY <1>10 DEF RecoverTranscript, Recoverable, Recovered, Goes
  <2>7. ReferencedOutputsExist'
    BY <1>10 DEF RecoverTranscript, Recoverable, Recovered, Goes
  <2> QED BY <2>1, <2>2, <2>3, <2>4, <2>5, <2>6, <2>7 DEF IInv
<1>11. CASE SettleOwnerLoss(o)
  BY <1>11 DEF SettleOwnerLoss, Drift, Goes, Idle
<1>12. CASE SettlementThrows(o)
  <2>1. ClaimInv'
    BY <1>12 DEF SettlementThrows, Drift, Goes, Idle, Fail, Recoverable
  <2>2. CoreInv'
    BY <1>12 DEF SettlementThrows, Drift, Goes, Idle, Fail, Recoverable
  <2>3. FinalizerInv'
    BY <1>12 DEF SettlementThrows, Drift, Goes, Idle, Fail, Recoverable
  <2>4. ASSUME NEW other \in Observers PROVE ObserverInv(other)'
    BY <1>12 DEF SettlementThrows, Drift, Goes, Idle, Fail, Recoverable
  <2>5. UngrantedInv'
    BY <1>12 DEF SettlementThrows, Drift, Goes, Idle, Fail, Recoverable
  <2>6. PublishedOutputsAreOwned'
    BY <1>12 DEF SettlementThrows, Drift, Goes, Idle, Fail, Recoverable
  <2>7. ReferencedOutputsExist'
    BY <1>12 DEF SettlementThrows, Drift, Goes, Idle, Fail, Recoverable
  <2> QED BY <2>1, <2>2, <2>3, <2>4, <2>5, <2>6, <2>7 DEF IInv
<1>13. CASE Crash(o)
  BY <1>13 DEF Crash, Goes, Idle, Rest
<1>14. CASE Stop(o)
  BY <1>14 DEF Stop, Goes, Idle
<1> QED BY <1>1, <1>2, <1>3, <1>4, <1>5, <1>6, <1>7, <1>8, <1>9, <1>10, <1>11, <1>12, <1>13, <1>14

-----------------------------------------------------------------------------
\* Both lemmas on the invariant.
LEMMA Initially == Init => IInv
<1> SUFFICES ASSUME Init PROVE IInv
  OBVIOUS
<1>1. OthersInv
  <2>1. claim \in Claims
    BY DEF Init, Claims
  <2>2. file \in [Documents -> FileStates]
    BY DEF Init
  <2>3. core \in CoreSteps /\ finalizer \in FinalizerSteps
    BY DEF Init, CoreSteps, FinalizerSteps
  <2>4. /\ prepared \subseteq Pair /\ result \subseteq Documents /\ outcome \subseteq Documents
        /\ lock \in Observers \cup {Free} /\ ownerAlive \in BOOLEAN /\ noted \in BOOLEAN
    BY DEF Init
  <2>5. /\ cleaned \in 0 .. AllPaths /\ cleaned < AllPaths
        /\ failures \in 0 .. MaxFailures /\ crashes \in 0 .. MaxCrashes
    BY DEF Init
  <2> QED BY <2>1, <2>2, <2>3, <2>4, <2>5 DEF OthersInv
<1>2. ViewsInv
  <2>1. Sound(Idle("down"))
    BY DEF Idle, Sound, Views, ObserverSteps
  <2> QED BY <2>1 DEF Init, ViewsInv, Sound
<1>3. TypeInv
  BY <1>1, <1>2, TypeInvParts
<1>4. ClaimInv /\ CoreInv /\ FinalizerInv /\ UngrantedInv
  BY DEF Init, ClaimInv, CoreInv, FinalizerInv, UngrantedInv, Late, Publishing, Swept
<1>5. ASSUME NEW o \in Observers PROVE ObserverInv(o)
  BY DEF Init, Idle, ObserverInv, Sealed, Swept
<1>6. PublishedOutputsAreOwned /\ ReferencedOutputsExist
  BY DEF Init, PublishedOutputsAreOwned, ReferencedOutputsExist
<1> QED BY <1>3, <1>4, <1>5, <1>6 DEF IInv

LEMMA Inductive == IInv /\ [Next]_vars => IInv'
<1> SUFFICES ASSUME IInv, [Next]_vars PROVE IInv'
  OBVIOUS
<1>1. TypeInv'
  BY TypeStep DEF IInv
<1>2. CASE CoreStep
  BY <1>1, <1>2, CoreKeeps DEF CoreStep
<1>3. CASE FinalizerStep
  BY <1>1, <1>3, FinalizerKeeps DEF FinalizerStep
<1>4. CASE OwnerDies
  BY <1>1, <1>4 DEF OwnerDies, owner, counters, IInv, TypeInv, OutputsTypeOK, ClaimInv, CoreInv,
     FinalizerInv, ObserverInv, UngrantedInv, PublishedOutputsAreOwned, ReferencedOutputsExist,
     Swept, Sealed
<1>5. ASSUME NEW o \in Observers, Start(o) \/ Inspect(o) \/ ObserverStep(o) \/ Crash(o) \/ Stop(o)
      PROVE IInv'
  BY <1>1, <1>5, ObserverKeeps DEF ObserverStep
<1>6. CASE UNCHANGED vars
  BY <1>1, <1>6 DEF vars, IInv, TypeInv, OutputsTypeOK, ClaimInv, CoreInv,
     FinalizerInv, ObserverInv, UngrantedInv, PublishedOutputsAreOwned, ReferencedOutputsExist,
     Swept, Sealed
<1> QED BY <1>2, <1>3, <1>4, <1>5, <1>6 DEF Next

LEMMA Invariance == Spec => []IInv
BY Initially, Inductive, PTL DEF Spec

-----------------------------------------------------------------------------
\* The documents, the claim, the owner's two threads and the views of other servers keep
\* their types, and no cleanup runs beyond the four paths of a pair.
THEOREM OutputsTypes == Spec => []OutputsTypeOK
BY Invariance, PTL DEF IInv, TypeInv

\* Whatever fails or dies, and however many servers look: a public document of the pair is
\* always named by the claim, as pending or as referenced, and a run settled as lost leaves no
\* transcript that its claim does not name (runSubagent.ts:1120, runTask.ts:4265).
THEOREM OwnedOutputs == Spec => []PublishedOutputsAreOwned
BY Invariance, PTL DEF IInv

\* No cleanup, in the owner or in any number of servers that sweep and settle without each
\* other's knowledge, removes a document that a claim refers to (output.ts:565).
THEOREM ExistingOutputs == Spec => []ReferencedOutputsExist
BY Invariance, PTL DEF IInv
============================================================================
