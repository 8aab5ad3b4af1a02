------------------------- MODULE SkillSnapshotsProofs -------------------------
(***************************************************************************)
(* Proofs about SkillSnapshots for any calls, snapshots, requests and       *)
(* number of crashes: a registered reference has its snapshot, commits and  *)
(* closings keep their references, and a resolution answers for a retained  *)
(* source.                                                                  *)
(*                                                                          *)
(* The argument: a living call changes a snapshot, its references or a      *)
(* publication only while it holds the lock, so what it knew when it took   *)
(* the lock is still so (Section); a publication record belongs to one      *)
(* request for good (Claimed); a reference goes only behind a confirmation  *)
(* that lists it (Kept).  The resolver holds no lock: it is safe because    *)
(* references go after the bundle, and a new bundle is another directory.   *)
(***************************************************************************)
EXTENDS SkillSnapshots, FiniteSetTheorems, TLAPS

\* Which steps belong to which call; a publisher walks its bindings twice.
Role(c) ==
    /\ c \in Publisher => pc[c] \in
           {"lookup", "materialize", "claim", "writeClaim", "validate", "register",
            "writeReference", "commit", "checkBundle", "checkReference", "done"}
    /\ c \in Publisher /\ pc[c] \in {"lookup", "claim", "writeClaim"} => at[c] = 1
    /\ c \in Closer => pc[c] \in {"lookup", "takeLocks", "close", "done"}
    /\ c \in Deleter => pc[c] \in {"plan", "delete", "done"} \cup Removing
    /\ c \in Resolver => pc[c] \in
           {"validateFirst", "reference", "publication", "validateLast", "done"}
    /\ answer[c] # "none" => pc[c] = "done"
RoleInv == \A c \in Call : Role(c)

\* What a living call in the middle of a section knows.
Section(c) ==
    /\ pc[c] = "writeClaim" =>
          /\ locks[PublicationOfCall(c)] = c
          /\ publications[PublicationOfCall(c)].status = "torn"
    /\ pc[c] = "writeReference" =>
          /\ locks[Bound(c)] = c
          /\ bundle[Bound(c)] = "whole" /\ references[Bound(c)][Mine(c)] = "torn"
    /\ pc[c] = "close" =>
          \A s \in BindingsOf(Mine(c)) : locks[s] = c /\ Registered(s, Mine(c))
    /\ pc[c] \in Removing =>
          /\ locks[SnapshotOf[c]] = c
          /\ \A r \in Request : Registered(SnapshotOf[c], r) =>
                \E l \in Lifecycle : <<r, l>> \in impact[c]
    /\ pc[c] = "removeReferences" => bundle[SnapshotOf[c]] = "absent"

SectionInv == \A c \in alive : Section(c)

\* The record of its publication is this request's; it stays that.
Claimed(r) == publications[PublicationOf[r]].request = r

ClaimInv ==
    /\ \A p \in Publication :
          publications[p].status \in {"absent", "torn"} <=> publications[p].request = Nobody
    /\ \A s \in Snapshot : \A r \in Request : references[s][r] # "absent" => Claimed(r)
    /\ \A c \in Publisher :
          pc[c] \in {"validate", "register", "writeReference", "commit"} => Claimed(Mine(c))
    /\ \A c \in Closer : pc[c] \in {"takeLocks", "close"} => Claimed(Mine(c))

Kept(s, r) == Registered(s, r) \/ ConfirmedAway(s, r)

\* A publisher has registered the bindings it has behind it.
Progress(c) ==
    /\ pc[c] \in {"validate", "register", "writeReference"} =>
          \A i \in 1..(at[c] - 1) : Kept(Bindings[Mine(c)][i], Mine(c))
    /\ pc[c] = "commit" => \A s \in BindingsOf(Mine(c)) : Kept(s, Mine(c))
ProgressInv == \A c \in Publisher : Progress(c)

\* A resolver has seen the reference of the directory it has validated.
Retained(c) ==
    LET s == SnapshotOf[c]
    IN  /\ pc[c] \in {"reference", "publication", "validateLast"} => seen[c] <= inode[s]
        /\ pc[c] \in {"publication", "validateLast"} /\ seen[c] = inode[s] =>
              Registered(s, Mine(c)) \/ bundle[s] = "absent"
ResolverInv == \A c \in Resolver : Retained(c)

Basis == SnapshotsTypeOK /\ RoleInv /\ SectionInv
IInv ==
    /\ Basis
    /\ ClaimInv /\ ProgressInv /\ ResolverInv
    /\ ReferencedSnapshotsExist /\ ReferencesAreKept

-----------------------------------------------------------------------------
(* Names and locks.                                                         *)

Step(c) ==
    \/ LockStep(c) \/ PublisherStep(c) \/ CloserStep(c) \/ DeleterStep(c)
    \/ ResolverStep(c) \/ Crash(c)

\* The names that the arguments of a call give are names.
LEMMA Names ==
    ASSUME SnapshotsTypeOK, RoleInv
    PROVE  /\ \A c \in Publisher \cup Closer \cup Resolver : Mine(c) \in Request
           /\ \A r \in Request : PublicationOf[r] \in Publication
           /\ \A r \in Request : BindingsOf(r) \subseteq Snapshot /\ 1 \in DOMAIN Bindings[r]
           /\ \A c \in Publisher : Bound(c) \in BindingsOf(Mine(c)) /\ Bound(c) \in Snapshot
           /\ \A c \in Deleter \cup Resolver : SnapshotOf[c] \in Snapshot
<1> USE SnapshotsAssumption DEF Mine
<1>1. \A c \in Publisher \cup Closer \cup Resolver : Mine(c) \in Request
  OBVIOUS
<1>2. ASSUME NEW r \in Request PROVE BindingsOf(r) \subseteq Snapshot /\ 1 \in DOMAIN Bindings[r]
  <2>1. Bindings[r] \in Seq(Snapshot) /\ Bindings[r] # <<>>
    OBVIOUS
  <2>2. DOMAIN Bindings[r] = 1..Len(Bindings[r]) /\ Len(Bindings[r]) \in Nat \ {0}
    BY <2>1
  <2> QED
    BY <2>1, <2>2 DEF BindingsOf, Range
<1>3. ASSUME NEW c \in Publisher PROVE Bound(c) \in BindingsOf(Mine(c))
  BY DEF Bound, BindingsOf, Range, SnapshotsTypeOK, CallsOK
<1> QED
  BY <1>1, <1>2, <1>3

\* What a step of a call leaves alone: the steps of the others, what they have in hand,
\* which locks are theirs, and whether they live.
OwnStep(c) ==
    /\ \A d \in Call \ {c} :
          /\ pc'[d] = pc[d] /\ at'[d] = at[d] /\ got'[d] = got[d] /\ impact'[d] = impact[d]
          /\ seen'[d] = seen[d] /\ answer'[d] = answer[d]
          /\ d \in alive' <=> d \in alive
          /\ d \in alive => \A k \in Key : locks[k] = d => locks'[k] = d
    /\ c \in alive /\ alive' \subseteq alive

LEMMA OwnSteps ==
    ASSUME SnapshotsTypeOK, NEW c \in Call, Step(c)
    PROVE  OwnStep(c)
<1> USE SnapshotsAssumption DEF SnapshotsTypeOK, FilesOK, CallsOK, locals, files, At, Inside,
      Goto, Answers, Asks, Release, Released, NextBinding, OwnStep
<1>1. CASE Acquire(c)
  BY <1>1 DEF Acquire
<1>2. CASE Reclaim(c)
  BY <1>2 DEF Reclaim
<1>3. CASE GiveUp(c)
  BY <1>3 DEF GiveUp
<1>4. CASE Lookup(c)
  BY <1>4 DEF Lookup, Proceed
<1>5. CASE Materialize(c)
  BY <1>5 DEF Materialize
<1>6. CASE Claim(c)
  BY <1>6 DEF Claim, Proceed
<1>7. CASE WriteClaim(c)
  BY <1>7 DEF WriteClaim
<1>8. CASE Validate(c)
  BY <1>8 DEF Validate
<1>9. CASE Register(c)
  BY <1>9 DEF Register
<1>10. CASE WriteReference(c)
  BY <1>10 DEF WriteReference
<1>11. CASE Commit(c)
  BY <1>11 DEF Commit
<1>12. CASE CheckBundle(c)
  BY <1>12 DEF CheckBundle
<1>13. CASE CheckReference(c)
  BY <1>13 DEF CheckReference
<1>14. CASE BeginClosing(c)
  BY <1>14 DEF BeginClosing
<1>15. CASE Match(c)
  <2>1. /\ c \in alive /\ UNCHANGED <<files, alive, locals>>
        /\ \/ Goto(c, "close") /\ UNCHANGED locks
           \/ Answers(c, "refused") /\ Release(c)
    BY <1>15 DEF Match
  <2> QED
    BY <2>1
<1>16. CASE CloseOne(c)
  BY <1>16 DEF CloseOne
<1>17. CASE Plan(c)
  BY <1>17 DEF Plan
<1>18. CASE Delete(c)
  <2>1. /\ c \in alive /\ UNCHANGED <<alive, locals>>
        /\ \/ Goto(c, "removeBundle") /\ UNCHANGED locks
           \/ Answers(c, "refused") /\ Release(c)
    BY <1>18 DEF Delete
  <2> QED
    BY <2>1
<1>19. CASE RemoveBundle(c)
  BY <1>19 DEF RemoveBundle
<1>20. CASE RemoveReference(c)
  <2>1. /\ c \in alive /\ UNCHANGED <<alive, locals>>
        /\ \/ UNCHANGED <<pc, answer, locks>>
           \/ Answers(c, "deleted") /\ Release(c)
    BY <1>20 DEF RemoveReference
  <2> QED
    BY <2>1
<1>21. CASE ValidateFirst(c)
  BY <1>21 DEF ValidateFirst
<1>22. CASE ReadReference(c)
  BY <1>22 DEF ReadReference
<1>23. CASE ReadPublication(c)
  BY <1>23 DEF ReadPublication
<1>24. CASE ValidateLast(c)
  BY <1>24 DEF ValidateLast
<1>25. CASE Crash(c)
  BY <1>25 DEF Crash
<1> QED
  BY <1>1, <1>2, <1>3, <1>4, <1>5, <1>6, <1>7, <1>8, <1>9, <1>10, <1>11, <1>12, <1>13,
    <1>14, <1>15, <1>16, <1>17, <1>18, <1>19, <1>20, <1>21, <1>22, <1>23, <1>24, <1>25
    DEF Step, LockStep, PublisherStep, CloserStep, DeleterStep, ResolverStep

\* The next binding is one.
LEMMA NextBindingIsOne ==
    ASSUME SnapshotsTypeOK, RoleInv, NEW c \in Publisher
    PROVE  /\ (IF IsLast(c) THEN 1 ELSE at[c] + 1) \in DOMAIN Bindings[Mine(c)]
           /\ (IF IsLast(c) THEN 1 ELSE at[c] + 1) \in Nat
<1>1. Bindings[Mine(c)] \in Seq(Snapshot) /\ 1 \in DOMAIN Bindings[Mine(c)]
  BY Names, SnapshotsAssumption DEF Mine
<1>2. at[c] \in DOMAIN Bindings[Mine(c)]
  BY DEF SnapshotsTypeOK, FilesOK, CallsOK
<1> QED
  BY <1>1, <1>2 DEF IsLast

-----------------------------------------------------------------------------
(* The types and the roles.                                                 *)

\* One reference is written.
LEMMA OneReference ==
    ASSUME SnapshotsTypeOK, NEW s \in Snapshot, NEW r \in Request,
           NEW v \in {"absent", "torn"} \cup Lifecycle,
           references' = [references EXCEPT ![s][r] = v]
    PROVE  /\ references' \in [Snapshot -> [Request -> {"absent", "torn"} \cup Lifecycle]]
           /\ \A t \in Snapshot : \A q \in Request :
                 references'[t][q] = IF t = s /\ q = r THEN v ELSE references[t][q]
<1>1. references' = [references EXCEPT ![s] = [references[s] EXCEPT ![r] = v]]
  OBVIOUS
<1>2. [references[s] EXCEPT ![r] = v] \in [Request -> {"absent", "torn"} \cup Lifecycle]
  BY DEF SnapshotsTypeOK, FilesOK, CallsOK
<1> QED
  BY <1>1, <1>2 DEF SnapshotsTypeOK, FilesOK, CallsOK

\* Whose step it is.
LEMMA Roles ==
    ASSUME RoleInv, NEW c \in Call
    PROVE  /\ PublisherStep(c) => c \in Publisher
           /\ CloserStep(c) => c \in Closer
           /\ DeleterStep(c) => c \in Deleter
           /\ ResolverStep(c) => c \in Resolver
<1> USE DEF RoleInv, Role, Removing, At, Inside, Call
<1>1. ASSUME PublisherStep(c) PROVE c \in Publisher
  BY <1>1 DEF PublisherStep, Lookup, Materialize, Claim, WriteClaim, Validate, Register,
    WriteReference, Commit, CheckBundle, CheckReference
<1>2. ASSUME CloserStep(c) PROVE c \in Closer
  BY <1>2 DEF CloserStep, BeginClosing, Match, CloseOne
<1>3. ASSUME DeleterStep(c) PROVE c \in Deleter
  BY <1>3 DEF DeleterStep, Plan, Delete, RemoveBundle, RemoveReference
<1>4. ASSUME ResolverStep(c) PROVE c \in Resolver
  BY <1>4 DEF ResolverStep, ValidateFirst, ReadReference, ReadPublication, ValidateLast
<1> QED
  BY <1>1, <1>2, <1>3, <1>4

LEMMA FileSteps ==
    ASSUME SnapshotsTypeOK, RoleInv, NEW c \in Call, Step(c)
    PROVE  FilesOK'
<1> USE DEF FilesOK
<1>0. FilesOK
  BY DEF SnapshotsTypeOK
<1>1. CASE UNCHANGED files
  BY <1>0, <1>1 DEF files
<1>2. CASE PublisherStep(c)
  <2>1. c \in Publisher /\ Mine(c) \in Request /\ PublicationOfCall(c) \in Publication
    BY <1>2, Roles, Names DEF PublicationOfCall
  <2>2. Bound(c) \in Snapshot
    BY <2>1, Names
  <2>3. CASE Materialize(c)
    <3>1. /\ UNCHANGED <<references, publications>>
          /\ bundle' = bundle \/ bundle' = [bundle EXCEPT ![Bound(c)] = "whole"]
          /\ inode' = inode \/ inode' = [inode EXCEPT ![Bound(c)] = @ + 1]
      BY <2>3 DEF Materialize
    <3>2. bundle' \in [Snapshot -> {"absent", "whole", "partial"}]
      BY <1>0, <2>2, <3>1
    <3>3. inode' \in [Snapshot -> Nat]
      BY <1>0, <2>2, <3>1
    <3> QED
      BY <1>0, <3>1, <3>2, <3>3
  <2>4. CASE Claim(c)
    BY <1>0, <2>1, <2>4 DEF Claim
  <2>5. CASE WriteClaim(c)
    <3>1. <<>> \in Seq(Lifecycle)
      OBVIOUS
    <3> QED
      BY <1>0, <2>1, <2>5, <3>1 DEF WriteClaim
  <2>6. CASE Register(c)
    <3>1. /\ UNCHANGED <<bundle, inode, publications>>
          /\ \/ UNCHANGED references
             \/ references' = [references EXCEPT ![Bound(c)][Mine(c)] = "torn"]
      BY <2>6 DEF Register
    <3> QED
      BY <1>0, <2>1, <2>2, <3>1, OneReference
  <2>7. CASE WriteReference(c)
    BY <1>0, <2>1, <2>2, <2>7, OneReference DEF WriteReference, Lifecycle
  <2>8. CASE Commit(c)
    <3>1. got[c] \in Seq(Lifecycle)
      BY DEF SnapshotsTypeOK, CallsOK
    <3>2. /\ UNCHANGED <<bundle, inode, references>>
          /\ \/ UNCHANGED publications
             \/ publications' = [publications EXCEPT
                   ![PublicationOfCall(c)].status = "committed",
                   ![PublicationOfCall(c)].receipts = got[c]]
      BY <2>8 DEF Commit
    <3>3. [publications[PublicationOfCall(c)] EXCEPT !.status = "committed", !.receipts = got[c]]
             \in [status : {"absent", "torn", "pending", "committed"},
                  request : Request \cup {Nobody}, receipts : Seq(Lifecycle)]
      BY <1>0, <2>1, <3>1
    <3> QED
      BY <1>0, <2>1, <3>2, <3>3
  <2>9. CASE Lookup(c) \/ Validate(c) \/ CheckBundle(c) \/ CheckReference(c)
    BY <1>1, <2>9 DEF Lookup, Validate, CheckBundle, CheckReference
  <2> QED
    BY <1>2, <2>3, <2>4, <2>5, <2>6, <2>7, <2>8, <2>9 DEF PublisherStep
<1>3. CASE CloseOne(c)
  <2>1. Mine(c) \in Request
    BY <1>3, Roles, Names DEF CloserStep
  <2> QED
    BY <1>0, <1>3, <2>1, OneReference DEF CloseOne, Lifecycle
<1>4. CASE DeleterStep(c)
  <2>1. SnapshotOf[c] \in Snapshot
    BY <1>4, Roles, Names
  <2>2. CASE Delete(c)
    BY <1>0, <2>1, <2>2 DEF Delete
  <2>3. CASE RemoveBundle(c)
    BY <1>0, <2>1, <2>3 DEF RemoveBundle
  <2>4. CASE RemoveReference(c)
    BY <1>0, <2>1, <2>4, OneReference DEF RemoveReference
  <2> QED
    BY <1>1, <1>4, <2>2, <2>3, <2>4 DEF DeleterStep, Plan
<1>5. CASE LockStep(c) \/ BeginClosing(c) \/ Match(c) \/ ResolverStep(c) \/ Crash(c)
  BY <1>1, <1>5 DEF LockStep, Acquire, Reclaim, GiveUp, BeginClosing, Match, ResolverStep,
    ValidateFirst, ReadReference, ReadPublication, ValidateLast, Crash
<1> QED
  BY <1>2, <1>3, <1>4, <1>5 DEF Step, CloserStep

LEMMA CallSteps ==
    ASSUME SnapshotsTypeOK, RoleInv, NEW c \in Call, Step(c)
    PROVE  CallsOK'
<1> USE DEF CallsOK, Steps, locals, Goto, Answers
<1>0. CallsOK
  BY DEF SnapshotsTypeOK
<1>1. Released(c) \in [Key -> Call \cup {Nobody, Unreadable}]
  BY <1>0 DEF Released
<1>2. CASE LockStep(c)
  BY <1>0, <1>1, <1>2 DEF LockStep, Acquire, Reclaim, GiveUp, Release
<1>3. CASE PublisherStep(c)
  <2> DEFINE next == IF IsLast(c) THEN 1 ELSE at[c] + 1
  <2>0. c \in Publisher /\ Mine(c) \in Request /\ Bound(c) \in Snapshot
    BY <1>3, Roles, Names
  <2>1. [at EXCEPT ![c] = next] \in [Call -> Nat] /\ next \in DOMAIN Bindings[Mine(c)]
    BY <1>0, <2>0, NextBindingIsOne
  <2>2. ASSUME at' = at \/ at' = [at EXCEPT ![c] = next]
        PROVE  /\ at' \in [Call -> Nat]
               /\ \A d \in Publisher : at'[d] \in DOMAIN Bindings[Mine(d)]
    <3> HIDE DEF next
    <3> QED
      BY <1>0, <2>1, <2>2 DEF Call
  <2> HIDE DEF next
  <2>3. \/ UNCHANGED pc
        \/ \E step \in Steps : pc' = [pc EXCEPT ![c] = step]
    BY <1>3 DEF PublisherStep, Lookup, Materialize, Claim, WriteClaim, Validate, Register,
      WriteReference, Commit, CheckBundle, CheckReference, Proceed, NextBinding
  <2>4. \/ UNCHANGED answer
        \/ answer' = [answer EXCEPT ![c] = "refused"]
        \/ answer' = [answer EXCEPT ![c] = "published"]
    BY <1>3 DEF PublisherStep, Lookup, Materialize, Claim, WriteClaim, Validate, Register,
      WriteReference, Commit, CheckBundle, CheckReference, Proceed, NextBinding
  <2>5. at' = at \/ at' = [at EXCEPT ![c] = next]
    BY <1>3 DEF PublisherStep, Lookup, Materialize, Claim, WriteClaim, Validate, Register,
      WriteReference, Commit, CheckBundle, CheckReference, NextBinding, next
  <2>6. got' \in [Call -> Seq(Lifecycle)]
    <3>1. CASE UNCHANGED got
      BY <1>0, <3>1
    <3>2. CASE Register(c)
      <4>1. \/ UNCHANGED got
            \/ /\ references[Bound(c)][Mine(c)] \in Lifecycle
               /\ got' = [got EXCEPT ![c] = Append(@, references[Bound(c)][Mine(c)])]
        BY <3>2 DEF Register
      <4>2. Append(got[c], references[Bound(c)][Mine(c)]) \in Seq(Lifecycle)
            \/ references[Bound(c)][Mine(c)] \notin Lifecycle
        BY <1>0
      <4> QED
        BY <1>0, <4>1, <4>2
    <3>3. CASE WriteReference(c)
      BY <1>0, <3>3 DEF WriteReference, Lifecycle
    <3> QED
      BY <1>3, <3>1, <3>2, <3>3 DEF PublisherStep, Lookup, Materialize, Claim, WriteClaim,
        Validate, Commit, CheckBundle, CheckReference
  <2>7. /\ UNCHANGED <<alive, impact, seen>>
        /\ locks' = locks \/ locks' = Released(c)
    BY <1>3 DEF PublisherStep, Lookup, Materialize, Claim, WriteClaim, Validate, Register,
      WriteReference, Commit, CheckBundle, CheckReference, Release
  <2>8. pc' \in [Call -> Steps]
    BY <1>0, <2>3
  <2>9. answer' \in [Call -> {"none", "refused", "published", "closed", "deleted", "resolved"}]
    BY <1>0, <2>4
  <2> QED
    BY <1>0, <1>1, <2>2, <2>5, <2>6, <2>7, <2>8, <2>9
<1>4. CASE CloserStep(c)
  <2>1. /\ UNCHANGED <<alive, locals>> /\ (UNCHANGED locks \/ Release(c))
        /\ \/ UNCHANGED <<pc, answer>>
           \/ Goto(c, "takeLocks") \/ Goto(c, "close")
           \/ Answers(c, "refused") \/ Answers(c, "closed")
    BY <1>4 DEF CloserStep, BeginClosing, Match, CloseOne
  <2>2. locks' \in [Key -> Call \cup {Nobody, Unreadable}]
    BY <1>0, <1>1, <2>1 DEF Release
  <2>3. /\ pc' \in [Call -> Steps]
        /\ answer' \in
              [Call -> {"none", "refused", "published", "closed", "deleted", "resolved"}]
    BY <1>0, <2>1
  <2> QED
    BY <1>0, <2>1, <2>2, <2>3
<1>5. CASE DeleterStep(c)
  <2>1. References(SnapshotOf[c]) \subseteq Request \X Lifecycle
    BY DEF References, Registered
  <2>2. /\ UNCHANGED <<alive, at, got, seen>> /\ (UNCHANGED locks \/ Release(c))
        /\ impact' = impact \/ impact' = [impact EXCEPT ![c] = References(SnapshotOf[c])]
        /\ \/ UNCHANGED <<pc, answer>>
           \/ Goto(c, "delete") \/ Goto(c, "removeBundle") \/ Goto(c, "removeReferences")
           \/ Answers(c, "refused") \/ Answers(c, "deleted")
    BY <1>5 DEF DeleterStep, Plan, Delete, RemoveBundle, RemoveReference
  <2>3. impact' \in [Call -> SUBSET (Request \X Lifecycle)]
    <3> DEFINE T == SUBSET (Request \X Lifecycle)
    <3>1. impact \in [Call -> T] /\ References(SnapshotOf[c]) \in T
      BY <1>0, <2>1
    <3> HIDE DEF T
    <3>2. impact' \in [Call -> T]
      BY <2>2, <3>1
    <3> QED
      BY <3>2 DEF T
  <2>4. locks' \in [Key -> Call \cup {Nobody, Unreadable}]
    BY <1>0, <1>1, <2>2 DEF Release
  <2>5. /\ pc' \in [Call -> Steps]
        /\ answer' \in
              [Call -> {"none", "refused", "published", "closed", "deleted", "resolved"}]
    BY <1>0, <2>2
  <2> QED
    BY <1>0, <2>2, <2>3, <2>4, <2>5
<1>6. CASE ResolverStep(c)
  <2>0. SnapshotOf[c] \in Snapshot
    BY <1>6, Roles, Names
  <2>1. inode[SnapshotOf[c]] \in Nat
    BY <2>0 DEF SnapshotsTypeOK, FilesOK
  <2> QED
    BY <1>0, <1>6, <2>1
      DEF ResolverStep, ValidateFirst, ReadReference, ReadPublication, ValidateLast
<1>7. CASE Crash(c)
  BY <1>0, <1>7 DEF Crash
<1> QED
  BY <1>2, <1>3, <1>4, <1>5, <1>6, <1>7 DEF Step

LEMMA RoleSteps ==
    ASSUME SnapshotsTypeOK, RoleInv, NEW c \in Call, Step(c)
    PROVE  RoleInv'
<1>1. \A d \in Call \ {c} : Role(d)'
  BY OwnSteps DEF OwnStep, RoleInv, Role
<1>2. pc \in [Call -> Steps] /\ DOMAIN at = Call /\ DOMAIN answer = Call /\ Role(c)
  BY DEF SnapshotsTypeOK, CallsOK, RoleInv
<1>3. /\ c \in Publisher => c \notin Closer \cup Deleter \cup Resolver
      /\ c \in Closer => c \notin Deleter \cup Resolver
      /\ c \in Deleter => c \notin Resolver
  BY SnapshotsAssumption
<1> SUFFICES Role(c)'
  BY <1>1 DEF RoleInv
<1> USE <1>2, <1>3 DEF Role, Removing, Goto, Answers, At, Inside
<1>4. CASE LockStep(c)
  <2>1. UNCHANGED <<pc, at, answer>> \/ (Answers(c, "refused") /\ UNCHANGED at)
    BY <1>4 DEF LockStep, Acquire, Reclaim, GiveUp, locals
  <2> QED
    BY <2>1
<1>5. CASE PublisherStep(c)
  <2>0. c \in Publisher
    BY <1>5, Roles
  <2> USE <2>0 DEF NextBinding, Proceed, locals
  <2>1. CASE Lookup(c)
    BY <2>1 DEF Lookup
  <2>2. CASE Materialize(c)
    BY <2>2 DEF Materialize
  <2>3. CASE Claim(c)
    BY <2>3 DEF Claim
  <2>4. CASE WriteClaim(c)
    BY <2>4 DEF WriteClaim
  <2>5. CASE Validate(c)
    BY <2>5 DEF Validate
  <2>6. CASE Register(c)
    BY <2>6 DEF Register
  <2>7. CASE WriteReference(c)
    BY <2>7 DEF WriteReference
  <2>8. CASE Commit(c)
    BY <2>8 DEF Commit
  <2>9. CASE CheckBundle(c)
    BY <2>9 DEF CheckBundle
  <2>10. CASE CheckReference(c)
    BY <2>10 DEF CheckReference
  <2> QED
    BY <1>5, <2>1, <2>2, <2>3, <2>4, <2>5, <2>6, <2>7, <2>8, <2>9, <2>10 DEF PublisherStep
<1>6. CASE CloserStep(c)
  <2>1. c \in Closer
    BY <1>6, Roles
  <2>2. \/ UNCHANGED <<pc, answer>>
        \/ Goto(c, "takeLocks") \/ Goto(c, "close")
        \/ Answers(c, "refused") \/ Answers(c, "closed")
    BY <1>6 DEF CloserStep, BeginClosing, Match, CloseOne
  <2>3. pc[c] # "done"
    BY <1>6 DEF CloserStep, BeginClosing, Match, CloseOne
  <2> QED
    BY <2>1, <2>2, <2>3
<1>7. CASE DeleterStep(c)
  <2>1. c \in Deleter
    BY <1>7, Roles
  <2>2. \/ UNCHANGED <<pc, answer>>
        \/ Goto(c, "delete") \/ Goto(c, "removeBundle") \/ Goto(c, "removeReferences")
        \/ Answers(c, "refused") \/ Answers(c, "deleted")
    BY <1>7 DEF DeleterStep, Plan, Delete, RemoveBundle, RemoveReference
  <2>3. pc[c] # "done"
    BY <1>7 DEF DeleterStep, Plan, Delete, RemoveBundle, RemoveReference
  <2> QED
    BY <2>1, <2>2, <2>3
<1>8. CASE ResolverStep(c)
  <2>1. c \in Resolver
    BY <1>8, Roles
  <2> QED
    BY <1>8, <2>1
      DEF ResolverStep, ValidateFirst, ReadReference, ReadPublication, ValidateLast
<1>9. CASE Crash(c)
  BY <1>9 DEF Crash, locals
<1> QED
  BY <1>4, <1>5, <1>6, <1>7, <1>8, <1>9 DEF Step

-----------------------------------------------------------------------------
(* What is known in a section stays so.                                     *)

\* Files change under their lock.
Guarded(c) ==
    /\ \A s \in Snapshot :
          /\ bundle'[s] # bundle[s] => locks[s] = c
          /\ \A r \in Request : references'[s][r] # references[s][r] => locks[s] = c
    /\ \A p \in Publication : publications'[p] # publications[p] => locks[p] = c

LEMMA GuardedSteps ==
    ASSUME Basis, NEW c \in Call, Step(c)
    PROVE  Guarded(c)
<1> USE DEF Guarded
<1>0. FilesOK /\ SnapshotsTypeOK /\ RoleInv
  BY DEF Basis, SnapshotsTypeOK
<1>1. c \in alive => Section(c)
  BY DEF Basis, SectionInv
<1>2. CASE UNCHANGED files
  BY <1>2 DEF files
<1>3. CASE PublisherStep(c)
  <2>1. c \in Publisher /\ Mine(c) \in Request /\ PublicationOfCall(c) \in Publication
    BY <1>0, <1>3, Roles, Names DEF PublicationOfCall
  <2>2. Bound(c) \in Snapshot
    BY <1>0, <2>1, Names
  <2> USE DEF FilesOK
  <2>3. CASE Materialize(c)
    <3>1. locks[Bound(c)] = c
      BY <2>3 DEF Materialize, Inside, At, Missing, Needed
    <3>2. /\ UNCHANGED <<references, publications>>
          /\ bundle' = bundle \/ bundle' = [bundle EXCEPT ![Bound(c)] = "whole"]
      BY <2>3 DEF Materialize
    <3> QED
      BY <1>0, <3>1, <3>2
  <2>4. CASE Claim(c)
    <3>1. locks[PublicationOfCall(c)] = c
      BY <2>4 DEF Claim, Inside, At, Missing, Needed
    <3> QED
      BY <1>0, <2>4, <3>1 DEF Claim
  <2>5. CASE WriteClaim(c)
    BY <1>0, <1>1, <2>5 DEF WriteClaim, At, Section
  <2>6. CASE Register(c)
    <3>1. locks[Bound(c)] = c
      BY <2>6 DEF Register, Inside, At, Missing, Needed
    <3>2. /\ UNCHANGED <<bundle, publications>>
          /\ \/ UNCHANGED references
             \/ references' = [references EXCEPT ![Bound(c)][Mine(c)] = "torn"]
      BY <2>6 DEF Register
    <3> QED
      BY <1>0, <2>1, <2>2, <3>1, <3>2, OneReference
  <2>7. CASE WriteReference(c)
    <3>1. locks[Bound(c)] = c
      BY <1>1, <2>7 DEF WriteReference, At, Section
    <3>2. /\ UNCHANGED <<bundle, publications>>
          /\ references' = [references EXCEPT ![Bound(c)][Mine(c)] = "active"]
      BY <2>7 DEF WriteReference
    <3> QED
      BY <1>0, <2>1, <2>2, <3>1, <3>2, OneReference DEF Lifecycle
  <2>8. CASE Commit(c)
    <3>1. locks[PublicationOfCall(c)] = c
      BY <2>8 DEF Commit, Inside, At, Missing, Needed
    <3> QED
      BY <1>0, <2>8, <3>1 DEF Commit
  <2>9. CASE Lookup(c) \/ Validate(c) \/ CheckBundle(c) \/ CheckReference(c)
    BY <1>2, <2>9 DEF Lookup, Validate, CheckBundle, CheckReference
  <2> QED
    BY <1>3, <2>3, <2>4, <2>5, <2>6, <2>7, <2>8, <2>9 DEF PublisherStep
<1>4. CASE CloseOne(c)
  <2>1. Mine(c) \in Request
    BY <1>0, <1>4, Roles, Names DEF CloserStep
  <2>2. /\ UNCHANGED <<bundle, publications>>
        /\ \/ UNCHANGED references
           \/ \E s \in Snapshot :
                 /\ s \in BindingsOf(Mine(c))
                 /\ references' = [references EXCEPT ![s][Mine(c)] = "closed"]
    BY <1>4 DEF CloseOne, IsFirst, Open
  <2>3. \A s \in BindingsOf(Mine(c)) : locks[s] = c
    BY <1>1, <1>4 DEF CloseOne, At, Section
  <2> QED
    BY <1>0, <2>1, <2>2, <2>3, OneReference DEF Lifecycle
<1>5. CASE DeleterStep(c)
  <2>1. SnapshotOf[c] \in Snapshot
    BY <1>0, <1>5, Roles, Names
  <2> USE DEF FilesOK
  <2>2. CASE Delete(c)
    <3>1. locks[SnapshotOf[c]] = c
      BY <2>2 DEF Delete, Inside, At, Missing, Needed
    <3>2. /\ UNCHANGED <<references, publications>>
          /\ bundle' = bundle \/ bundle' = [bundle EXCEPT ![SnapshotOf[c]] = "partial"]
      BY <2>2 DEF Delete
    <3> QED
      BY <1>0, <3>1, <3>2
  <2>3. CASE RemoveBundle(c)
    <3>1. locks[SnapshotOf[c]] = c
      BY <1>1, <2>3 DEF RemoveBundle, At, Section, Removing
    <3> QED
      BY <1>0, <2>3, <3>1 DEF RemoveBundle
  <2>4. CASE RemoveReference(c)
    <3>1. locks[SnapshotOf[c]] = c
      BY <1>1, <2>4 DEF RemoveReference, At, Section, Removing
    <3>2. /\ UNCHANGED <<bundle, publications>>
          /\ \/ UNCHANGED references
             \/ \E r \in Request :
                   references' = [references EXCEPT ![SnapshotOf[c]][r] = "absent"]
      BY <2>4 DEF RemoveReference
    <3> QED
      BY <1>0, <2>1, <3>1, <3>2, OneReference
  <2> QED
    BY <1>2, <1>5, <2>2, <2>3, <2>4 DEF DeleterStep, Plan
<1>6. CASE LockStep(c) \/ BeginClosing(c) \/ Match(c) \/ ResolverStep(c) \/ Crash(c)
  BY <1>2, <1>6 DEF LockStep, Acquire, Reclaim, GiveUp, BeginClosing, Match, ResolverStep,
    ValidateFirst, ReadReference, ReadPublication, ValidateLast, Crash
<1> QED
  BY <1>3, <1>4, <1>5, <1>6 DEF Step, CloserStep

-----------------------------------------------------------------------------
(* How the files change.                                                    *)

BundleChange(c, s) ==
    \/ bundle'[s] = bundle[s] /\ inode'[s] = inode[s]
    \/ bundle[s] = "absent" /\ bundle'[s] = "whole" /\ inode'[s] = inode[s] + 1
    \/ /\ bundle[s] # "absent" /\ bundle'[s] = "partial" /\ inode'[s] = inode[s]
       /\ c \in Deleter /\ s = SnapshotOf[c] /\ pc'[c] = "removeBundle"
    \/ /\ bundle'[s] = "absent" /\ inode'[s] = inode[s]
       /\ c \in Deleter /\ s = SnapshotOf[c] /\ pc'[c] = "removeReferences"

LEMMA BundleChanges ==
    ASSUME SnapshotsTypeOK, RoleInv, NEW c \in Call, Step(c), NEW s \in Snapshot
    PROVE  BundleChange(c, s)
<1> USE DEF BundleChange
<1>0. FilesOK /\ pc \in [Call -> Steps]
  BY DEF SnapshotsTypeOK, CallsOK
<1>1. CASE UNCHANGED <<bundle, inode>>
  BY <1>1
<1>2. CASE Materialize(c)
  <2>1. Bound(c) \in Snapshot
    BY <1>2, Roles, Names DEF PublisherStep
  <2>2. \/ UNCHANGED <<bundle, inode>>
        \/ /\ bundle[Bound(c)] = "absent"
           /\ bundle' = [bundle EXCEPT ![Bound(c)] = "whole"]
           /\ inode' = [inode EXCEPT ![Bound(c)] = @ + 1]
    BY <1>2 DEF Materialize
  <2> QED
    BY <1>0, <2>1, <2>2 DEF FilesOK
<1>3. CASE DeleterStep(c)
  <2>1. c \in Deleter /\ SnapshotOf[c] \in Snapshot
    BY <1>3, Roles, Names
  <2>2. \/ UNCHANGED <<bundle, inode>>
        \/ /\ bundle[SnapshotOf[c]] # "absent" /\ UNCHANGED inode
           /\ bundle' = [bundle EXCEPT ![SnapshotOf[c]] = "partial"]
           /\ Goto(c, "removeBundle")
        \/ /\ bundle' = [bundle EXCEPT ![SnapshotOf[c]] = "absent"] /\ UNCHANGED inode
           /\ Goto(c, "removeReferences")
    BY <1>3 DEF DeleterStep, Plan, Delete, RemoveBundle, RemoveReference, files
  <2> QED
    BY <1>0, <2>1, <2>2 DEF FilesOK, Goto
<1> QED
  BY <1>1, <1>2, <1>3 DEF Step, LockStep, Acquire, Reclaim, GiveUp, PublisherStep, Lookup,
    Claim, WriteClaim, Validate, Register, WriteReference, Commit, CheckBundle,
    CheckReference, CloserStep, BeginClosing, Match, CloseOne, ResolverStep, ValidateFirst,
    ReadReference, ReadPublication, ValidateLast, Crash, files

ReferenceChange(c, s, r) ==
    \/ references'[s][r] = references[s][r]
    \/ /\ references[s][r] = "absent" /\ references'[s][r] = "torn"
       /\ Register(c) /\ c \in Publisher /\ s = Bound(c) /\ r = Mine(c)
    \/ /\ references[s][r] = "torn" /\ references'[s][r] = "active"
       /\ WriteReference(c) /\ c \in Publisher /\ s = Bound(c) /\ r = Mine(c)
    \/ references[s][r] = "active" /\ references'[s][r] = "closed"
    \/ /\ references'[s][r] = "absent" /\ c \in Deleter \cap alive /\ s = SnapshotOf[c]
       /\ pc[c] = "removeReferences" /\ UNCHANGED <<pc, bundle, inode, impact>>

LEMMA ReferenceChanges ==
    ASSUME Basis, NEW c \in Call, Step(c), NEW s \in Snapshot, NEW r \in Request
    PROVE  ReferenceChange(c, s, r)
<1> USE DEF ReferenceChange
<1>0. FilesOK /\ SnapshotsTypeOK /\ RoleInv
  BY DEF Basis, SnapshotsTypeOK
<1>1. CASE UNCHANGED references
  BY <1>1
<1>2. CASE Register(c)
  <2>1. c \in Publisher /\ Bound(c) \in Snapshot /\ Mine(c) \in Request
    BY <1>0, <1>2, Roles, Names DEF PublisherStep
  <2>2. \/ UNCHANGED references
        \/ /\ references[Bound(c)][Mine(c)] = "absent"
           /\ references' = [references EXCEPT ![Bound(c)][Mine(c)] = "torn"]
    BY <1>2 DEF Register
  <2> QED
    BY <1>0, <1>2, <2>1, <2>2, OneReference
<1>3. CASE WriteReference(c)
  <2>1. c \in Publisher /\ Bound(c) \in Snapshot /\ Mine(c) \in Request
    BY <1>0, <1>3, Roles, Names DEF PublisherStep
  <2>2. references[Bound(c)][Mine(c)] = "torn"
    BY <1>3 DEF WriteReference, At, Basis, SectionInv, Section
  <2>3. references' = [references EXCEPT ![Bound(c)][Mine(c)] = "active"]
    BY <1>3 DEF WriteReference
  <2> QED
    BY <1>0, <1>3, <2>1, <2>2, <2>3, OneReference DEF Lifecycle
<1>4. CASE CloseOne(c)
  <2>1. Mine(c) \in Request
    BY <1>0, <1>4, Roles, Names DEF CloserStep
  <2>2. \/ UNCHANGED references
        \/ \E t \in Snapshot :
              /\ references[t][Mine(c)] = "active"
              /\ references' = [references EXCEPT ![t][Mine(c)] = "closed"]
    BY <1>4 DEF CloseOne, IsFirst, Open
  <2> QED
    BY <1>0, <2>1, <2>2, OneReference DEF Lifecycle
<1>5. CASE RemoveReference(c)
  <2>1. c \in Deleter /\ SnapshotOf[c] \in Snapshot
    BY <1>0, <1>5, Roles, Names DEF DeleterStep
  <2>2. \/ UNCHANGED references
        \/ /\ \E q \in Request :
                 references' = [references EXCEPT ![SnapshotOf[c]][q] = "absent"]
           /\ c \in alive /\ pc[c] = "removeReferences"
           /\ UNCHANGED <<pc, bundle, inode, impact>>
    BY <1>5 DEF RemoveReference, At, locals
  <2>3. ASSUME NEW q \in Request,
               references' = [references EXCEPT ![SnapshotOf[c]][q] = "absent"]
        PROVE  references'[s][r] = IF s = SnapshotOf[c] /\ r = q THEN "absent"
                                                                ELSE references[s][r]
    BY <1>0, <2>1, <2>3, OneReference
  <2> QED
    BY <2>1, <2>2, <2>3
<1> QED
  BY <1>1, <1>2, <1>3, <1>4, <1>5 DEF Step, LockStep, Acquire, Reclaim, GiveUp, PublisherStep,
    Lookup, Materialize, Claim, WriteClaim, Validate, Commit, CheckBundle, CheckReference,
    CloserStep, BeginClosing, Match, DeleterStep, Plan, Delete, RemoveBundle, ResolverStep,
    ValidateFirst, ReadReference, ReadPublication, ValidateLast, Crash, files

PublicationChange(c, p) ==
    \/ publications'[p] = publications[p]
    \/ /\ publications[p].status = "absent" /\ publications'[p].status = "torn"
       /\ publications'[p].request = publications[p].request
    \/ /\ publications[p].status = "torn" /\ publications'[p].status = "pending"
       /\ publications'[p].request = Mine(c) /\ Mine(c) \in Request
    \/ /\ publications[p].status = "pending" /\ publications'[p].status = "committed"
       /\ publications'[p].request = publications[p].request
       /\ publications[p].request = Mine(c) /\ c \in Publisher /\ pc[c] = "commit"

LEMMA PublicationChanges ==
    ASSUME Basis, NEW c \in Call, Step(c), NEW p \in Publication
    PROVE  PublicationChange(c, p)
<1> USE DEF PublicationChange
<1>0. FilesOK /\ SnapshotsTypeOK /\ RoleInv
  BY DEF Basis, SnapshotsTypeOK
<1>1. CASE UNCHANGED publications
  BY <1>1
<1>2. CASE PublisherStep(c)
  <2>1. c \in Publisher /\ Mine(c) \in Request /\ PublicationOfCall(c) \in Publication
    BY <1>0, <1>2, Roles, Names DEF PublicationOfCall
  <2>2. CASE Claim(c)
    <3>1. \/ UNCHANGED publications
          \/ /\ publications[PublicationOfCall(c)].status = "absent"
             /\ publications' = [publications EXCEPT ![PublicationOfCall(c)].status = "torn"]
      BY <2>2 DEF Claim
    <3> QED
      BY <1>0, <2>1, <3>1 DEF FilesOK
  <2>3. CASE WriteClaim(c)
    <3>1. publications[PublicationOfCall(c)].status = "torn"
      BY <2>3 DEF WriteClaim, At, Basis, SectionInv, Section
    <3> QED
      BY <1>0, <2>1, <2>3, <3>1 DEF FilesOK, WriteClaim
  <2>4. CASE Commit(c)
    <3>1. \/ UNCHANGED publications
          \/ /\ publications[PublicationOfCall(c)].status = "pending"
             /\ publications[PublicationOfCall(c)].request = Mine(c)
             /\ pc[c] = "commit"
             /\ publications' = [publications EXCEPT
                   ![PublicationOfCall(c)].status = "committed",
                   ![PublicationOfCall(c)].receipts = got[c]]
      BY <2>4 DEF Commit, Inside, At
    <3> QED
      BY <1>0, <2>1, <3>1 DEF FilesOK
  <2> QED
    BY <1>1, <1>2, <2>2, <2>3, <2>4 DEF PublisherStep, Lookup, Materialize, Validate, Register,
      WriteReference, CheckBundle, CheckReference, files
<1> QED
  BY <1>1, <1>2 DEF Step, LockStep, Acquire, Reclaim, GiveUp, CloserStep, BeginClosing, Match,
    CloseOne, DeleterStep, Plan, Delete, RemoveBundle, RemoveReference, ResolverStep,
    ValidateFirst, ReadReference, ReadPublication, ValidateLast, Crash, files

-----------------------------------------------------------------------------
(* The sections.                                                            *)

\* A section leaves the files of a call that is in one of its own alone.
LEMMA OtherSections ==
    ASSUME Basis, NEW c \in Call, Step(c), NEW d \in alive', d # c
    PROVE  Section(d)'
<1>0. SnapshotsTypeOK /\ RoleInv /\ SnapshotsTypeOK' /\ d \in Call /\ d \in alive
  <2>1. SnapshotsTypeOK /\ RoleInv
    BY DEF Basis
  <2> QED
    BY <2>1, FileSteps, CallSteps, OwnSteps DEF SnapshotsTypeOK, CallsOK, OwnStep
<1>1. Section(d) /\ Role(d) /\ Guarded(c)
  BY <1>0, GuardedSteps DEF Basis, SectionInv, RoleInv
<1>2. /\ pc'[d] = pc[d] /\ at'[d] = at[d] /\ impact'[d] = impact[d]
      /\ \A k \in Key : locks[k] = d => locks'[k] = d
  BY <1>0, OwnSteps DEF OwnStep
<1>3. /\ \A s \in Snapshot : locks[s] = d =>
            /\ locks'[s] = d /\ bundle'[s] = bundle[s]
            /\ \A r \in Request : references'[s][r] = references[s][r]
      /\ \A p \in Publication : locks[p] = d =>
            locks'[p] = d /\ publications'[p] = publications[p]
  BY <1>1, <1>2 DEF Guarded, Key
<1>4. Bound(d)' = Bound(d)
  BY <1>2 DEF Bound
<1>5. ASSUME pc[d] = "writeClaim"
      PROVE  /\ locks'[PublicationOfCall(d)] = d
             /\ publications'[PublicationOfCall(d)].status = "torn"
  <2>1. d \in Publisher
    BY <1>0, <1>1, <1>5 DEF Role, Removing, Call
  <2>2. PublicationOfCall(d) \in Publication
    BY <1>0, <2>1, Names DEF PublicationOfCall
  <2> QED
    BY <1>1, <1>3, <1>5, <2>2 DEF Section
<1>6. ASSUME pc[d] = "writeReference"
      PROVE  /\ locks'[Bound(d)] = d /\ bundle'[Bound(d)] = "whole"
             /\ references'[Bound(d)][Mine(d)] = "torn"
  <2>1. d \in Publisher
    BY <1>0, <1>1, <1>6 DEF Role, Removing, Call
  <2>2. Bound(d) \in Snapshot /\ Mine(d) \in Request
    BY <1>0, <2>1, Names
  <2> QED
    BY <1>1, <1>3, <1>6, <2>2 DEF Section
<1>7. ASSUME pc[d] = "close", NEW s \in BindingsOf(Mine(d))
      PROVE  locks'[s] = d /\ references'[s][Mine(d)] \in Lifecycle
  <2>1. d \in Closer
    BY <1>0, <1>1, <1>7 DEF Role, Removing, Call
  <2>2. s \in Snapshot /\ Mine(d) \in Request
    BY <1>0, <2>1, Names
  <2> QED
    BY <1>1, <1>3, <1>7, <2>2 DEF Section, Registered
<1>8. ASSUME pc[d] \in Removing
      PROVE  /\ locks'[SnapshotOf[d]] = d
             /\ \A r \in Request : references'[SnapshotOf[d]][r] \in Lifecycle =>
                   \E l \in Lifecycle : <<r, l>> \in impact'[d]
             /\ pc[d] = "removeReferences" => bundle'[SnapshotOf[d]] = "absent"
  <2>1. d \in Deleter
    BY <1>0, <1>1, <1>8 DEF Role, Removing, Call
  <2>2. SnapshotOf[d] \in Snapshot
    BY <1>0, <2>1, Names
  <2> QED
    BY <1>1, <1>2, <1>3, <1>8, <2>2 DEF Section, Registered
<1> QED
  BY <1>2, <1>4, <1>5, <1>6, <1>7, <1>8
    DEF Section, Registered, PublicationOfCall, Mine, Removing

\* A call enters its sections with what they need.
LEMMA OwnSection ==
    ASSUME Basis, ClaimInv, NEW c \in alive', Step(c)
    PROVE  Section(c)'
<1>0. /\ SnapshotsTypeOK /\ RoleInv /\ FilesOK /\ CallsOK /\ Role(c) /\ Section(c)
      /\ c \in Call /\ c \in alive /\ Mine(c)' = Mine(c)
  <2>1. SnapshotsTypeOK /\ RoleInv /\ FilesOK /\ CallsOK
    BY DEF Basis, SnapshotsTypeOK
  <2>2. c \in alive
    BY DEF Step, LockStep, Acquire, Reclaim, GiveUp, Asks, PublisherStep, Lookup, Materialize,
      Claim, WriteClaim, Validate, Register, WriteReference, Commit, CheckBundle,
      CheckReference, CloserStep, BeginClosing, Match, CloseOne, DeleterStep, Plan, Delete,
      RemoveBundle, RemoveReference, ResolverStep, ValidateFirst, ReadReference,
      ReadPublication, ValidateLast, Crash, Inside, At
  <2> QED
    BY <2>1, <2>2 DEF Basis, RoleInv, SectionInv, CallsOK, Mine
<1>00. pc \in [Call -> Steps] /\ pc[c] \in Steps
  BY <1>0 DEF CallsOK
<1> DEFINE Free == {"writeClaim", "writeReference", "close"} \cup Removing
<1>1. SUFFICES ASSUME pc'[c] \in Free PROVE Section(c)'
  BY DEF Section, Removing
<1> USE DEF Removing
<1>2. ~ LockStep(c) /\ ~ Crash(c)
  <2>1. ~ Crash(c)
    BY <1>0 DEF Crash
  <2>2. ASSUME LockStep(c) PROVE FALSE
    <3>1. /\ \E k \in Key : Asks(c, k)
          /\ UNCHANGED pc \/ Answers(c, "refused")
      BY <2>2 DEF LockStep, Acquire, Reclaim, GiveUp
    <3>2. pc'[c] = pc[c]
      BY <1>00, <1>0, <1>1, <3>1 DEF Answers
    <3>3. Needed(c) # {}
      BY <3>1 DEF Asks, IsFirst, Missing
    <3> QED
      BY <1>1, <3>2, <3>3 DEF Needed
  <2> QED
    BY <2>1, <2>2
<1>3. CASE PublisherStep(c)
  <2>0. /\ c \in Publisher /\ Mine(c) \in Request /\ PublicationOfCall(c) \in Publication
        /\ Bound(c) \in Snapshot
    BY <1>0, <1>3, Roles, Names DEF PublicationOfCall
  <2>1. CASE Claim(c)
    <3>1. /\ locks[PublicationOfCall(c)] = c /\ UNCHANGED locks /\ pc'[c] = "writeClaim"
          /\ publications' = [publications EXCEPT ![PublicationOfCall(c)].status = "torn"]
      BY <1>00, <1>0, <1>1, <2>1 DEF Claim, Inside, At, Missing, Needed, Goto, Proceed, Answers
    <3>2. publications'[PublicationOfCall(c)].status = "torn"
      BY <1>0, <2>0, <3>1 DEF FilesOK
    <3> QED
      BY <3>1, <3>2 DEF Section, PublicationOfCall, Mine
  <2>2. CASE Register(c)
    <3>1. /\ locks[Bound(c)] = c /\ UNCHANGED <<locks, at, bundle>> /\ pc'[c] = "writeReference"
          /\ bundle[Bound(c)] = "whole"
          /\ references' = [references EXCEPT ![Bound(c)][Mine(c)] = "torn"]
      BY <1>00, <1>0, <1>1, <2>2
        DEF Register, Inside, At, Missing, Needed, Goto, NextBinding, Answers
    <3>2. references'[Bound(c)][Mine(c)] = "torn"
      BY <1>0, <2>0, <3>1, OneReference
    <3>3. Bound(c)' = Bound(c)
      BY <3>1 DEF Bound
    <3> QED
      BY <1>0, <3>1, <3>2, <3>3 DEF Section
  <2>3. pc'[c] \notin Free
        \/ Claim(c) \/ Register(c)
    BY <1>00, <1>0, <1>3 DEF PublisherStep, Lookup, Materialize, WriteClaim, Validate,
      WriteReference, Commit, CheckBundle, CheckReference, Proceed, NextBinding, Goto, Answers
  <2> QED
    BY <1>1, <2>1, <2>2, <2>3
<1>4. CASE CloserStep(c)
  <2>0. c \in Closer /\ Mine(c) \in Request /\ BindingsOf(Mine(c)) \subseteq Snapshot
    BY <1>0, <1>4, Roles, Names
  <2>1. CASE Match(c)
    <3>1. pc'[c] = "close" /\ UNCHANGED <<locks, references>> /\ pc[c] = "takeLocks"
      BY <1>00, <1>0, <1>1, <2>1 DEF Match, Inside, At, Goto, Answers, files
    <3>2. \A s \in BindingsOf(Mine(c)) : locks[s] = c
      <4>1. Missing(c) = {} /\ Needed(c) = BindingsOf(Mine(c))
        BY <2>1, <3>1 DEF Match, Inside, Needed
      <4> QED
        BY <4>1 DEF Missing
    <3>3. ASSUME NEW s \in BindingsOf(Mine(c)) PROVE Registered(s, Mine(c))
      <4> DEFINE R == {r \in Request : /\ PublicationOf[r] = PublicationOfCall(c)
                                       /\ Registered(s, r)}
      <4>1. Cardinality(R) = 1
        BY <1>00, <1>0, <1>1, <2>1, <3>3 DEF Match, Goto, Answers
      <4>2. R # {}
        BY <4>1, FS_EmptySet
      <4>3. PICK r \in R : TRUE
        BY <4>2
      <4>4. Claimed(r) /\ Claimed(Mine(c))
        BY <2>0, <3>1, <3>3, <4>3 DEF ClaimInv, Registered, Lifecycle
      <4> QED
        BY <4>3, <4>4 DEF Claimed, PublicationOfCall
    <3> QED
      BY <1>0, <3>1, <3>2, <3>3 DEF Section, Registered
  <2>2. CASE CloseOne(c)
    <3>1. pc'[c] = "close" /\ UNCHANGED locks /\ pc[c] = "close"
      BY <1>00, <1>0, <1>1, <2>2 DEF CloseOne, At, Answers
    <3>2. ASSUME NEW s \in Snapshot, Registered(s, Mine(c)) PROVE Registered(s, Mine(c))'
      <4>1. \/ UNCHANGED references
            \/ \E t \in Snapshot :
                  references' = [references EXCEPT ![t][Mine(c)] = "closed"]
        BY <2>2 DEF CloseOne
      <4>2. ASSUME NEW t \in Snapshot,
                   references' = [references EXCEPT ![t][Mine(c)] = "closed"]
            PROVE  references'[s][Mine(c)] \in Lifecycle
        BY <1>0, <2>0, <3>2, <4>2, OneReference DEF Registered, Lifecycle
      <4> QED
        BY <1>0, <3>2, <4>1, <4>2 DEF Registered
    <3> QED
      BY <1>0, <2>0, <3>1, <3>2 DEF Section
  <2> QED
    BY <1>00, <1>0, <1>1, <1>4, <2>1, <2>2 DEF CloserStep, BeginClosing, Goto, Answers
<1>5. CASE DeleterStep(c)
  <2>0. c \in Deleter /\ SnapshotOf[c] \in Snapshot
    BY <1>0, <1>5, Roles, Names
  <2>1. CASE Delete(c)
    <3>1. /\ locks[SnapshotOf[c]] = c /\ UNCHANGED <<locks, references, impact>>
          /\ pc'[c] = "removeBundle" /\ References(SnapshotOf[c]) = impact[c]
      BY <1>00, <1>0, <1>1, <2>1
        DEF Delete, Inside, At, Missing, Needed, Goto, Answers, locals
    <3>2. ASSUME NEW r \in Request, Registered(SnapshotOf[c], r)
          PROVE  \E l \in Lifecycle : <<r, l>> \in impact[c]
      BY <3>1, <3>2 DEF References, Registered
    <3> QED
      BY <3>1, <3>2 DEF Section, Registered
  <2>2. CASE RemoveBundle(c)
    <3>1. /\ pc[c] = "removeBundle" /\ UNCHANGED <<locks, references, impact>>
          /\ pc'[c] = "removeReferences" /\ bundle'[SnapshotOf[c]] = "absent"
      BY <1>00, <1>0, <2>0, <2>2 DEF RemoveBundle, At, Goto, locals, FilesOK
    <3> QED
      BY <1>0, <3>1 DEF Section, Registered
  <2>3. CASE RemoveReference(c)
    <3>1. /\ pc[c] = "removeReferences" /\ UNCHANGED <<pc, locks, bundle, impact>>
          /\ \E q \in Request : references' = [references EXCEPT ![SnapshotOf[c]][q] = "absent"]
      BY <1>00, <1>0, <1>1, <2>3 DEF RemoveReference, At, Answers, locals
    <3>2. ASSUME NEW r \in Request, Registered(SnapshotOf[c], r)'
          PROVE  Registered(SnapshotOf[c], r)
      BY <1>0, <2>0, <3>1, <3>2, OneReference DEF Registered, Lifecycle
    <3> QED
      BY <1>0, <3>1, <3>2 DEF Section, Registered
  <2> QED
    BY <1>00, <1>0, <1>1, <1>5, <2>1, <2>2, <2>3 DEF DeleterStep, Plan, Goto, Answers
<1>6. CASE ResolverStep(c)
  BY <1>00, <1>0, <1>1, <1>6
    DEF ResolverStep, ValidateFirst, ReadReference, ReadPublication, ValidateLast, Goto, Answers
<1> QED
  BY <1>2, <1>3, <1>4, <1>5, <1>6 DEF Step

LEMMA BasisSteps ==
    ASSUME Basis, ClaimInv, NEW c \in Call, Step(c)
    PROVE  Basis'
<1>1. SnapshotsTypeOK' /\ RoleInv'
  BY FileSteps, CallSteps, RoleSteps DEF Basis, SnapshotsTypeOK
<1>2. ASSUME NEW d \in alive' PROVE Section(d)'
  BY OtherSections, OwnSection
<1> QED
  BY <1>1, <1>2 DEF Basis, SectionInv

-----------------------------------------------------------------------------
(* Claims and confirmations stay.                                           *)

LEMMA ClaimedStays ==
    ASSUME Basis, ClaimInv, NEW c \in Call, Step(c), NEW r \in Request, Claimed(r)
    PROVE  Claimed(r)'
<1>1. PublicationOf[r] \in Publication /\ r # Nobody
  BY SnapshotsAssumption
<1>2. publications[PublicationOf[r]].status \notin {"absent", "torn"}
  BY <1>1 DEF ClaimInv, Claimed
<1>3. PublicationChange(c, PublicationOf[r])
  BY <1>1, PublicationChanges
<1> QED
  BY <1>2, <1>3 DEF PublicationChange, Claimed

\* A call that has ended takes no step.
LEMMA NoStepAfterDone ==
    ASSUME NEW c \in Call, Step(c)
    PROVE  pc[c] # "done"
<1>1. ASSUME NEW k, Asks(c, k) PROVE pc[c] # "done"
  <2>1. Needed(c) # {}
    BY <1>1 DEF Asks, IsFirst, Missing
  <2> QED
    BY <2>1 DEF Needed
<1>2. LockStep(c) => \E k : Asks(c, k)
  BY DEF LockStep, Acquire, Reclaim, GiveUp
<1> QED
  BY <1>1, <1>2 DEF Step, PublisherStep, Lookup, Materialize, Claim, WriteClaim, Validate,
    Register, WriteReference, Commit, CheckBundle, CheckReference, CloserStep, BeginClosing,
    Match, CloseOne, DeleterStep, Plan, Delete, RemoveBundle, RemoveReference, ResolverStep,
    ValidateFirst, ReadReference, ReadPublication, ValidateLast, Crash, Inside, At

\* A deletion goes on until every reference is gone.
LEMMA RemovingStays ==
    ASSUME Basis, NEW c \in Call, Step(c), NEW d \in Deleter, pc[d] \in Removing
    PROVE  /\ impact'[d] = impact[d]
           /\ \/ pc'[d] \in Removing
              \/ /\ answer'[d] = "deleted" /\ UNCHANGED references
                 /\ \A r \in Request : references[SnapshotOf[d]][r] = "absent"
<1>0. SnapshotsTypeOK /\ RoleInv /\ d \in Call /\ CallsOK
  BY DEF Basis, Call, SnapshotsTypeOK
<1>1. CASE d # c
  BY <1>0, <1>1, OwnSteps DEF OwnStep
<1>2. CASE d = c
  <2> USE DEF Removing
  <2>1. c \notin Publisher \cup Closer \cup Resolver
    BY <1>2, SnapshotsAssumption
  <2>2. ASSUME LockStep(c) PROVE FALSE
    <3>1. \E k : Asks(c, k)
      BY <2>2 DEF LockStep, Acquire, Reclaim, GiveUp
    <3>2. Needed(c) # {}
      BY <3>1 DEF Asks, IsFirst, Missing
    <3> QED
      BY <1>2, <3>2 DEF Needed
  <2>3. RemoveBundle(c) \/ RemoveReference(c) \/ Crash(c)
    BY <1>0, <1>2, <2>1, <2>2, Roles DEF Step, DeleterStep, Plan, Delete, Inside, At
  <2> QED
    BY <1>0, <1>2, <2>3
      DEF RemoveBundle, RemoveReference, Crash, Goto, Answers, locals, CallsOK
<1> QED
  BY <1>1, <1>2

LEMMA ConfirmedStays ==
    ASSUME Basis, NEW c \in Call, Step(c), NEW s \in Snapshot, NEW r \in Request,
           ConfirmedAway(s, r)
    PROVE  ConfirmedAway(s, r)'
<1>1. PICK d \in Deleter : /\ SnapshotOf[d] = s /\ Removed(d)
                           /\ \E l \in Lifecycle : <<r, l>> \in impact[d]
  BY DEF ConfirmedAway
<1>2. CASE pc[d] \in Removing
  BY <1>1, <1>2, RemovingStays DEF ConfirmedAway, Removed
<1>3. CASE answer[d] = "deleted"
  <2>1. SnapshotsTypeOK /\ RoleInv /\ d \in Call
    BY DEF Basis, Call
  <2>2. d # c
    BY <1>3, <2>1, NoStepAfterDone DEF RoleInv, Role
  <2> QED
    BY <1>1, <1>3, <2>1, <2>2, OwnSteps DEF OwnStep, ConfirmedAway, Removed
<1> QED
  BY <1>1, <1>2, <1>3 DEF Removed

\* A registered reference goes only by a deletion that its plan has shown it to.
LEMMA RegisteredStays ==
    ASSUME Basis, NEW c \in Call, Step(c), NEW s \in Snapshot, NEW r \in Request,
           Registered(s, r)
    PROVE  \/ /\ Registered(s, r)'
              /\ references[s][r] = "closed" => references'[s][r] = "closed"
           \/ ConfirmedAway(s, r)'
<1>1. ReferenceChange(c, s, r)
  BY ReferenceChanges
<1>2. ASSUME c \in Deleter \cap alive, s = SnapshotOf[c], pc[c] = "removeReferences",
             UNCHANGED <<pc, impact>>
      PROVE  ConfirmedAway(s, r)'
  <2>1. Section(c)
    BY <1>2 DEF Basis, SectionInv
  <2> QED
    BY <1>2, <2>1 DEF Section, ConfirmedAway, Removed, Removing
<1> QED
  BY <1>1, <1>2 DEF ReferenceChange, Registered, Lifecycle

LEMMA KeptStays ==
    ASSUME Basis, NEW c \in Call, Step(c), NEW s \in Snapshot, NEW r \in Request, Kept(s, r)
    PROVE  Kept(s, r)'
<1>1. CASE Registered(s, r)
  BY <1>1, RegisteredStays DEF Kept, Registered, Lifecycle
<1>2. CASE ConfirmedAway(s, r)
  BY <1>2, ConfirmedStays DEF Kept
<1> QED
  BY <1>1, <1>2 DEF Kept

LEMMA ClaimSteps ==
    ASSUME Basis, ClaimInv, NEW c \in Call, Step(c)
    PROVE  ClaimInv'
<1>0. SnapshotsTypeOK /\ RoleInv /\ FilesOK /\ pc \in [Call -> Steps] /\ Role(c)
  BY DEF Basis, SnapshotsTypeOK, CallsOK, RoleInv
<1>1. ASSUME NEW p \in Publication
      PROVE  publications'[p].status \in {"absent", "torn"} <=> publications'[p].request = Nobody
  <2>1. PublicationChange(c, p) /\ Nobody \notin Request
    BY PublicationChanges, SnapshotsAssumption
  <2> QED
    BY <2>1 DEF PublicationChange, ClaimInv
<1>2. ASSUME NEW s \in Snapshot, NEW r \in Request, references'[s][r] # "absent"
      PROVE  Claimed(r)'
  <2>1. ReferenceChange(c, s, r)
    BY ReferenceChanges
  <2>2. Claimed(r)
    BY <1>2, <2>1 DEF ReferenceChange, ClaimInv, Register, Inside, At
  <2> QED
    BY <2>2, ClaimedStays
<1>3. ASSUME NEW d \in Publisher,
             pc'[d] \in {"validate", "register", "writeReference", "commit"}
      PROVE  Claimed(Mine(d))'
  <2>1. d \in Call /\ Mine(d) \in Request
    BY <1>0, Names DEF Call
  <2>2. CASE Claimed(Mine(d))
    BY <2>1, <2>2, ClaimedStays DEF Claimed, Mine
  <2>3. CASE ~ Claimed(Mine(d))
    <3>1. pc[d] \notin {"validate", "register", "writeReference", "commit"}
      BY <2>3 DEF ClaimInv
    <3>2. d = c
      BY <1>0, <1>3, <2>1, <3>1, OwnSteps DEF OwnStep
    <3>3. Lookup(c) \/ Claim(c) \/ WriteClaim(c)
      BY <1>0, <1>3, <3>1, <3>2, SnapshotsAssumption, Roles
        DEF Step, LockStep, Acquire, Reclaim, GiveUp,
        PublisherStep, Materialize, Validate, Register, WriteReference, Commit, CheckBundle,
        CheckReference, NextBinding, Crash, Inside, At, Goto, Answers
    <3>4. WriteClaim(c)
      BY <1>0, <1>3, <2>3, <3>2, <3>3
        DEF Lookup, Claim, Proceed, Goto, Answers, Claimed, PublicationOfCall
    <3>5. PublicationOfCall(c) \in Publication
      BY <2>1, <3>2, SnapshotsAssumption DEF PublicationOfCall
    <3> QED
      BY <1>0, <3>2, <3>4, <3>5 DEF WriteClaim, Claimed, FilesOK, PublicationOfCall, Mine
  <2> QED
    BY <2>2, <2>3
<1>4. ASSUME NEW d \in Closer, pc'[d] \in {"takeLocks", "close"}
      PROVE  Claimed(Mine(d))'
  <2>1. d \in Call /\ Mine(d) \in Request
    BY <1>0, Names DEF Call
  <2>2. CASE Claimed(Mine(d))
    BY <2>1, <2>2, ClaimedStays DEF Claimed, Mine
  <2>3. CASE ~ Claimed(Mine(d))
    <3>1. pc[d] \notin {"takeLocks", "close"}
      BY <2>3 DEF ClaimInv
    <3>2. d = c
      BY <1>0, <1>4, <2>1, <3>1, OwnSteps DEF OwnStep
    <3>3. BeginClosing(c)
      BY <1>0, <1>4, <3>1, <3>2, SnapshotsAssumption, Roles
        DEF Step, LockStep, Acquire, Reclaim, GiveUp,
        CloserStep, Match, CloseOne, Crash, Inside, At, Goto, Answers
    <3> QED
      BY <1>0, <1>4, <2>3, <3>2, <3>3
        DEF BeginClosing, Goto, Answers, Claimed, PublicationOfCall
  <2> QED
    BY <2>2, <2>3
<1> QED
  BY <1>1, <1>2, <1>3, <1>4 DEF ClaimInv

-----------------------------------------------------------------------------
(* A publisher registers its bindings one after the other.                  *)

\* Where a publisher's walk over its bindings takes it.
Walk(c) ==
    \/ pc'[c] \notin {"validate", "register", "writeReference", "commit"}
    \/ pc'[c] \in {"validate", "register", "writeReference"} /\ at'[c] = 1
    \/ /\ pc[c] \in {"validate", "register", "writeReference", "commit"}
       /\ at'[c] = at[c]
       /\ pc'[c] = "commit" <=> pc[c] = "commit"
    \/ /\ pc[c] \in {"validate", "register", "writeReference"}
       /\ references'[Bound(c)][Mine(c)] \in Lifecycle
       /\ IF IsLast(c) THEN pc'[c] = "commit" ELSE pc'[c] = "validate" /\ at'[c] = at[c] + 1

LEMMA Walks ==
    ASSUME Basis, NEW c \in Publisher, Step(c)
    PROVE  Walk(c)
<1> USE DEF Walk
<1>0. /\ SnapshotsTypeOK /\ RoleInv /\ FilesOK /\ pc \in [Call -> Steps] /\ at \in [Call -> Nat]
      /\ c \in Call /\ Role(c) /\ Mine(c) \in Request /\ Bound(c) \in Snapshot
  <2>1. SnapshotsTypeOK /\ RoleInv /\ c \in Call
    BY DEF Basis, Call
  <2> QED
    BY <2>1, Names DEF SnapshotsTypeOK, CallsOK, RoleInv
<1>1. CASE UNCHANGED <<pc, at>>
  BY <1>0, <1>1 DEF Steps
<1>2. CASE LockStep(c) \/ Crash(c)
  BY <1>0, <1>1, <1>2 DEF LockStep, Acquire, Reclaim, GiveUp, Crash, Answers, locals
<1>3. CASE Register(c)
  <2>1. pc[c] = "register"
    BY <1>3 DEF Register, Inside, At
  <2>2. \/ Goto(c, "writeReference") /\ UNCHANGED at
        \/ Answers(c, "refused")
        \/ /\ references[Bound(c)][Mine(c)] \in Lifecycle /\ UNCHANGED references
           /\ NextBinding(c, "validate", "commit")
    BY <1>3 DEF Register
  <2> QED
    BY <1>0, <2>1, <2>2 DEF NextBinding, Goto, Answers
<1>4. CASE WriteReference(c)
  <2>1. references' = [references EXCEPT ![Bound(c)][Mine(c)] = "active"]
    BY <1>4 DEF WriteReference
  <2>2. references'[Bound(c)][Mine(c)] \in Lifecycle
    BY <1>0, <2>1, OneReference DEF Lifecycle
  <2> QED
    BY <1>0, <1>4, <2>2 DEF WriteReference, At, NextBinding, Goto
<1>5. CASE Lookup(c) \/ Claim(c) \/ WriteClaim(c)
  <2>1. pc[c] \in {"lookup", "claim", "writeClaim"} /\ at' = at
    BY <1>5 DEF Lookup, Claim, WriteClaim, Inside, At, locals
  <2>2. \E step \in {"materialize", "writeClaim", "validate", "checkBundle", "done"} :
           pc' = [pc EXCEPT ![c] = step]
    BY <1>5 DEF Lookup, Claim, WriteClaim, Proceed, Goto, Answers
  <2> QED
    BY <1>0, <2>1, <2>2 DEF Role
<1>6. CASE Validate(c)
  BY <1>0, <1>6 DEF Validate, At, Goto, Answers, locals
<1>7. CASE Materialize(c) \/ Commit(c) \/ CheckBundle(c) \/ CheckReference(c)
  <2>1. \E step \in {"materialize", "claim", "checkBundle", "checkReference", "done"} :
           pc' = [pc EXCEPT ![c] = step]
    BY <1>7 DEF Materialize, Commit, CheckBundle, CheckReference, NextBinding, Goto, Answers
  <2> QED
    BY <1>0, <2>1
<1> QED
  BY <1>0, <1>2, <1>3, <1>4, <1>5, <1>6, <1>7, Roles, SnapshotsAssumption DEF Step, PublisherStep

LEMMA ProgressSteps ==
    ASSUME Basis, ProgressInv, NEW c \in Call, Step(c)
    PROVE  ProgressInv'
<1>0. /\ SnapshotsTypeOK /\ RoleInv /\ CallsOK
      /\ \A d \in Publisher :
            /\ d \in Call /\ Mine(d) \in Request /\ Bindings[Mine(d)] \in Seq(Snapshot)
            /\ at[d] \in 1..Len(Bindings[Mine(d)])
  <2>1. SnapshotsTypeOK /\ RoleInv
    BY DEF Basis
  <2>2. ASSUME NEW d \in Publisher
        PROVE  /\ d \in Call /\ Mine(d) \in Request /\ Bindings[Mine(d)] \in Seq(Snapshot)
               /\ at[d] \in DOMAIN Bindings[Mine(d)]
    BY <2>1, Names, SnapshotsAssumption DEF Call, SnapshotsTypeOK, CallsOK
  <2> QED
    BY <2>1, <2>2 DEF SnapshotsTypeOK
<1> SUFFICES ASSUME NEW d \in Publisher PROVE Progress(d)'
  BY DEF ProgressInv
<1>1. Progress(d)
  BY DEF ProgressInv
<1> DEFINE b == Bindings[Mine(d)]
<1>2. /\ b \in Seq(Snapshot)
      /\ \A i \in 1..Len(b) : b[i] \in Snapshot /\ b[i] \in BindingsOf(Mine(d))
      /\ \A s \in BindingsOf(Mine(d)) : s \in Snapshot /\ \E i \in 1..Len(b) : s = b[i]
  BY <1>0 DEF BindingsOf, Range
<1>3. ASSUME NEW s \in Snapshot, Kept(s, Mine(d)) PROVE Kept(s, Mine(d))'
  <2>1. Mine(d) \in Request /\ Mine(d)' = Mine(d)
    BY <1>0 DEF Mine
  <2> QED
    BY <1>3, <2>1, KeptStays
<1> HIDE DEF b
<1>4. CASE \/ pc'[d] \notin {"validate", "register", "writeReference", "commit"}
           \/ pc'[d] \in {"validate", "register", "writeReference"} /\ at'[d] = 1
  BY <1>4 DEF Progress
<1>5. CASE /\ pc[d] \in {"validate", "register", "writeReference", "commit"}
           /\ at'[d] = at[d]
           /\ pc'[d] = "commit" <=> pc[d] = "commit"
  <2>1. ASSUME pc'[d] # "commit", NEW i \in 1..(at[d] - 1)
        PROVE  Kept(b[i], Mine(d))'
    BY <1>0, <1>1, <1>2, <1>3, <1>5, <2>1 DEF Progress, b
  <2>2. ASSUME pc'[d] = "commit", NEW s \in BindingsOf(Mine(d))
        PROVE  Kept(s, Mine(d))'
    BY <1>1, <1>2, <1>3, <1>5, <2>2 DEF Progress
  <2> QED
    BY <1>5, <2>1, <2>2 DEF Progress, b, Mine
<1>6. CASE /\ pc[d] \in {"validate", "register", "writeReference"}
           /\ references'[Bound(d)][Mine(d)] \in Lifecycle
           /\ IF IsLast(d) THEN pc'[d] = "commit" ELSE pc'[d] = "validate" /\ at'[d] = at[d] + 1
  <2>1. ASSUME NEW i \in 1..at[d] PROVE Kept(b[i], Mine(d))'
    <3>1. CASE i = at[d]
      BY <1>6, <3>1 DEF Kept, Registered, Bound, b, Mine
    <3>2. CASE i # at[d]
      <4>1. i \in 1..(at[d] - 1) /\ i \in 1..Len(b)
        BY <1>0, <3>2 DEF b
      <4> QED
        BY <1>1, <1>2, <1>3, <1>6, <4>1 DEF Progress, b
    <3> QED
      BY <3>1, <3>2
  <2>2. CASE IsLast(d)
    <3>1. \A s \in BindingsOf(Mine(d)) : Kept(s, Mine(d))'
      BY <1>2, <2>1, <2>2 DEF IsLast, b
    <3> QED
      BY <1>6, <2>2, <3>1 DEF Progress, Mine
  <2>3. CASE ~ IsLast(d)
    <3>1. 1..(at'[d] - 1) = 1..at[d]
      BY <1>0, <1>6, <2>3
    <3> QED
      BY <1>6, <2>1, <2>3, <3>1 DEF Progress, b, Mine
  <2> QED
    BY <2>2, <2>3
<1>7. CASE d = c
  BY <1>4, <1>5, <1>6, <1>7, Walks DEF Walk
<1>8. CASE d # c
  BY <1>0, <1>4, <1>5, <1>8, OwnSteps DEF OwnStep
<1> QED
  BY <1>7, <1>8

-----------------------------------------------------------------------------
(* The resolver, which takes no lock.                                       *)

LEMMA ResolverSteps ==
    ASSUME Basis, ResolverInv, NEW c \in Call, Step(c)
    PROVE  ResolverInv'
<1>0. /\ SnapshotsTypeOK /\ RoleInv /\ FilesOK /\ CallsOK
  BY DEF Basis, SnapshotsTypeOK
<1> SUFFICES ASSUME NEW d \in Resolver PROVE Retained(d)'
  BY DEF ResolverInv
<1>1. /\ d \in Call /\ Mine(d) \in Request /\ SnapshotOf[d] \in Snapshot /\ Retained(d)
      /\ inode[SnapshotOf[d]] \in Nat /\ seen[d] \in Nat
  BY <1>0, Names DEF ResolverInv, Call, FilesOK, CallsOK
<1> DEFINE s == SnapshotOf[d]
<1>2. CASE /\ pc'[d] = pc[d] /\ seen'[d] = seen[d]
  <2>1. BundleChange(c, s) /\ ReferenceChange(c, s, Mine(d))
    BY <1>0, <1>1, BundleChanges, ReferenceChanges
  <2>2. \/ inode'[s] = inode[s]
        \/ inode'[s] = inode[s] + 1 /\ bundle[s] = "absent"
    BY <2>1 DEF BundleChange
  <2>3. ASSUME pc[d] \in {"reference", "publication", "validateLast"}
        PROVE  seen[d] <= inode'[s]
    BY <1>1, <2>2, <2>3 DEF Retained
  <2>4. ASSUME pc[d] \in {"publication", "validateLast"}, seen[d] = inode'[s]
        PROVE  references'[s][Mine(d)] \in Lifecycle \/ bundle'[s] = "absent"
    <3>1. inode'[s] = inode[s] /\ (Registered(s, Mine(d)) \/ bundle[s] = "absent")
      BY <1>1, <2>2, <2>4 DEF Retained
    <3>2. CASE bundle[s] = "absent"
      BY <1>1, <2>1, <3>1, <3>2 DEF BundleChange
    <3>3. CASE Registered(s, Mine(d))
      <4>1. CASE references'[s][Mine(d)] # "absent"
        BY <2>1, <3>3, <4>1 DEF ReferenceChange, Registered, Lifecycle
      <4>2. CASE references'[s][Mine(d)] = "absent"
        <5>1. /\ c \in Deleter \cap alive /\ s = SnapshotOf[c] /\ pc[c] = "removeReferences"
              /\ UNCHANGED bundle
          BY <2>1, <3>3, <4>2 DEF ReferenceChange, Registered, Lifecycle
        <5>2. Section(c)
          BY <5>1 DEF Basis, SectionInv
        <5> QED
          BY <5>1, <5>2 DEF Section
      <4> QED
        BY <4>1, <4>2
    <3> QED
      BY <3>1, <3>2, <3>3
  <2> QED
    BY <1>2, <2>3, <2>4 DEF Retained, Registered, Mine
<1>3. CASE d # c
  BY <1>0, <1>1, <1>2, <1>3, OwnSteps DEF OwnStep
<1>4. CASE d = c /\ ResolverStep(c)
  BY <1>0, <1>1, <1>4 DEF Retained, ResolverStep, ValidateFirst, ReadReference,
    ReadPublication, ValidateLast, At, Goto, Answers, files, locals, CallsOK, Registered, Mine
<1>5. CASE d = c /\ ~ ResolverStep(c)
  <2>1. /\ UNCHANGED seen
        /\ UNCHANGED pc \/ pc' = [pc EXCEPT ![c] = "done"]
    BY <1>0, <1>1, <1>5, Roles, SnapshotsAssumption
      DEF Step, LockStep, Acquire, Reclaim, GiveUp, Crash, Answers, locals
  <2> QED
    BY <1>0, <1>1, <1>2, <1>5, <2>1 DEF Retained, CallsOK
<1> QED
  BY <1>3, <1>4, <1>5

-----------------------------------------------------------------------------
(* The three promises.                                                      *)

LEMMA ExistenceSteps ==
    ASSUME Basis, ReferencedSnapshotsExist, NEW c \in Call, Step(c)
    PROVE  ReferencedSnapshotsExist'
<1> SUFFICES ASSUME NEW s \in Snapshot, NEW r \in Request, Registered(s, r)'
             PROVE  \/ bundle'[s] = "whole"
                    \/ \E d \in Deleter : SnapshotOf[d] = s /\ pc'[d] \in Removing
  BY DEF ReferencedSnapshotsExist
<1>1. SnapshotsTypeOK /\ RoleInv /\ BundleChange(c, s) /\ ReferenceChange(c, s, r)
  BY BundleChanges, ReferenceChanges DEF Basis
<1>2. CASE Registered(s, r)
  <2>1. CASE bundle[s] = "whole"
    BY <1>1, <2>1 DEF BundleChange, Removing
  <2>2. CASE \E d \in Deleter : SnapshotOf[d] = s /\ pc[d] \in Removing
    <3>1. PICK d \in Deleter : SnapshotOf[d] = s /\ pc[d] \in Removing
      BY <2>2
    <3>2. pc'[d] \in Removing
      BY <1>2, <3>1, RemovingStays DEF Registered, Lifecycle
    <3> QED
      BY <3>1, <3>2
  <2> QED
    BY <1>2, <2>1, <2>2 DEF ReferencedSnapshotsExist
<1>3. CASE ~ Registered(s, r)
  <2>1. WriteReference(c) /\ s = Bound(c)
    BY <1>1, <1>3 DEF ReferenceChange, Registered, Lifecycle
  <2>2. bundle[s] = "whole" /\ UNCHANGED bundle
    BY <2>1 DEF WriteReference, At, Basis, SectionInv, Section
  <2> QED
    BY <2>2
<1> QED
  BY <1>2, <1>3

LEMMA CommitmentSteps ==
    ASSUME Basis, ClaimInv, ProgressInv, CommittedBindingsAreReferenced,
           NEW c \in Call, Step(c)
    PROVE  CommittedBindingsAreReferenced'
<1>0. SnapshotsTypeOK /\ RoleInv
  BY DEF Basis
<1>1. ASSUME NEW p \in Publication, publications'[p].status = "committed"
      PROVE  /\ publications'[p].request = publications[p].request
             /\ \A s \in BindingsOf(publications[p].request) : Kept(s, publications[p].request)'
  <2> DEFINE r == publications[p].request
  <2>1. PublicationChange(c, p)
    BY PublicationChanges
  <2>2. publications'[p].request = r /\ publications[p].status \in {"pending", "committed"}
    BY <1>1, <2>1 DEF PublicationChange
  <2>3. r \in Request /\ BindingsOf(r) \subseteq Snapshot
    <3>1. r \in Request
      BY <1>0, <2>2 DEF ClaimInv, SnapshotsTypeOK, FilesOK
    <3> QED
      BY <1>0, <3>1, Names
  <2>4. \A s \in BindingsOf(r) : Kept(s, r)
    <3>1. CASE publications[p].status = "committed"
      BY <3>1 DEF CommittedBindingsAreReferenced, Kept
    <3>2. CASE publications[p].status = "pending"
      BY <1>1, <2>1, <3>2 DEF PublicationChange, ProgressInv, Progress
    <3> QED
      BY <2>2, <3>1, <3>2
  <2>5. ASSUME NEW s \in Snapshot, NEW q \in Request, Kept(s, q)
        PROVE  /\ \/ references'[s][q] \in Lifecycle
                  \/ \E d \in Deleter : /\ SnapshotOf[d] = s
                                        /\ pc'[d] \in Removing \/ answer'[d] = "deleted"
                                        /\ \E l \in Lifecycle : <<q, l>> \in impact'[d]
    BY <2>5, KeptStays DEF Kept, Registered, ConfirmedAway, Removed
  <2>6. \A s \in BindingsOf(r) :
           \/ references'[s][r] \in Lifecycle
           \/ \E d \in Deleter : /\ SnapshotOf[d] = s
                                 /\ pc'[d] \in Removing \/ answer'[d] = "deleted"
                                 /\ \E l \in Lifecycle : <<r, l>> \in impact'[d]
    BY <2>3, <2>4, <2>5
  <2> QED
    BY <2>2, <2>6 DEF Kept, Registered, ConfirmedAway, Removed, BindingsOf
<1> QED
  BY <1>1 DEF CommittedBindingsAreReferenced, Kept

LEMMA ClosureSteps ==
    ASSUME Basis, ClosureIsKept, NEW c \in Call, Step(c)
    PROVE  ClosureIsKept'
<1> SUFFICES ASSUME NEW d \in Closer, answer'[d] = "closed", NEW s \in BindingsOf(Mine(d))
             PROVE  references'[s][Mine(d)] = "closed" \/ ConfirmedAway(s, Mine(d))'
  BY DEF ClosureIsKept, BindingsOf, Mine
<1>0. SnapshotsTypeOK /\ RoleInv /\ CallsOK /\ d \in Call
  BY DEF Basis, SnapshotsTypeOK, Call
<1>1. Mine(d) \in Request /\ s \in Snapshot /\ Mine(d)' = Mine(d)
  BY <1>0, Names DEF Mine
<1>2. CASE answer[d] = "closed"
  <2>1. CASE references[s][Mine(d)] = "closed"
    BY <1>1, <2>1, RegisteredStays DEF Registered, Lifecycle
  <2>2. CASE ConfirmedAway(s, Mine(d))
    BY <1>1, <2>2, ConfirmedStays
  <2> QED
    BY <1>2, <2>1, <2>2 DEF ClosureIsKept
<1>3. CASE answer[d] # "closed"
  <2>1. d = c
    BY <1>0, <1>3, OwnSteps DEF OwnStep
  <2>2. Open(c) = {} /\ UNCHANGED references /\ pc[c] = "close" /\ c \in alive
    <3>1. c \notin Publisher \cup Deleter \cup Resolver
      BY <2>1, SnapshotsAssumption
    <3>2. answer' # answer /\ answer' # [answer EXCEPT ![c] = "refused"]
      BY <1>0, <1>3, <2>1 DEF CallsOK
    <3>3. CloserStep(c)
      BY <1>0, <3>1, <3>2, Roles
        DEF Step, LockStep, Acquire, Reclaim, GiveUp, Crash, Goto, Answers
    <3>4. CloseOne(c)
      BY <3>2, <3>3 DEF CloserStep, BeginClosing, Match, Goto, Answers
    <3> QED
      BY <3>2, <3>4 DEF CloseOne, At
  <2>3. Registered(s, Mine(d))
    BY <2>1, <2>2 DEF Basis, SectionInv, Section
  <2> QED
    BY <2>1, <2>2, <2>3 DEF Open, Registered, Lifecycle
<1> QED
  BY <1>2, <1>3

-----------------------------------------------------------------------------
(* The inductive invariant.                                                 *)

LEMMA Initial ==
    ASSUME Init
    PROVE  IInv
<1> USE SnapshotsAssumption DEF Init, Start, Call
<1>1. SnapshotsTypeOK
  <2>1. FilesOK
    BY DEF FilesOK, NoRecord
  <2>2. CallsOK
    <3>1. \A c \in Publisher : at[c] \in DOMAIN Bindings[Mine(c)]
      BY DEF Mine
    <3> QED
      BY <3>1 DEF CallsOK, Steps
  <2> QED
    BY <2>1, <2>2 DEF SnapshotsTypeOK
<1>2. RoleInv
  BY DEF RoleInv, Role, Removing
<1>3. SectionInv
  BY DEF SectionInv, Section, Removing
<1>4. ClaimInv
  BY DEF ClaimInv, NoRecord
<1>5. ProgressInv /\ ResolverInv
  BY DEF ProgressInv, Progress, ResolverInv, Retained
<1>6. ReferencedSnapshotsExist
  BY DEF ReferencedSnapshotsExist, Registered, Lifecycle
<1>7. ReferencesAreKept
  BY DEF ReferencesAreKept, CommittedBindingsAreReferenced, ClosureIsKept, NoRecord
<1> QED
  BY <1>1, <1>2, <1>3, <1>4, <1>5, <1>6, <1>7 DEF IInv, Basis

LEMMA Inductive ==
    ASSUME IInv, [Next]_vars
    PROVE  IInv'
<1>1. CASE Next
  <2>1. PICK c \in Call : Step(c)
    BY <1>1 DEF Next, Step
  <2>2. Basis' /\ ClaimInv' /\ ProgressInv' /\ ResolverInv'
    BY <2>1, BasisSteps, ClaimSteps, ProgressSteps, ResolverSteps DEF IInv
  <2>3. ReferencedSnapshotsExist' /\ ReferencesAreKept'
    BY <2>1, ExistenceSteps, CommitmentSteps, ClosureSteps DEF IInv, ReferencesAreKept
  <2> QED
    BY <2>2, <2>3 DEF IInv
<1>2. CASE UNCHANGED vars
  <2> USE <1>2 DEF vars, files, locals
  <2>1. Basis'
    <3>1. FilesOK' /\ CallsOK' /\ RoleInv'
      BY DEF IInv, Basis, SnapshotsTypeOK, FilesOK, CallsOK, RoleInv, Role, Mine
    <3>2. ASSUME NEW c \in alive PROVE Section(c)'
      <4>1. Section(c)
        BY DEF IInv, Basis, SectionInv
      <4> QED
        BY <4>1 DEF Section, Bound, PublicationOfCall, Mine, BindingsOf, Registered
    <3> QED
      BY <3>1, <3>2 DEF Basis, SnapshotsTypeOK, SectionInv
  <2>2. ClaimInv' /\ ProgressInv' /\ ResolverInv'
    BY DEF IInv, ClaimInv, Claimed, ProgressInv, Progress, Kept, ResolverInv, Retained,
      Mine, BindingsOf, Registered, ConfirmedAway, Removed
  <2>3. ReferencedSnapshotsExist' /\ ReferencesAreKept'
    BY DEF IInv, ReferencedSnapshotsExist, ReferencesAreKept, CommittedBindingsAreReferenced,
      ClosureIsKept, Mine, BindingsOf, Registered, ConfirmedAway, Removed
  <2> QED
    BY <2>1, <2>2, <2>3 DEF IInv
<1> QED
  BY <1>1, <1>2

\* The invariant holds in every behaviour of the store, whichever calls die at whichever
\* file operation (skillSnapshotStore.ts, skillSnapshot.ts).
THEOREM Invariance == Spec => []IInv
<1>1. Init => IInv
  BY Initial
<1>2. IInv /\ [Next]_vars => IInv'
  BY Inductive
<1> QED
  BY <1>1, <1>2, PTL DEF Spec

\* Files, locks and the state of the calls keep their types: a binding a publisher is at is
\* one of its request (publishSkillSnapshots).
THEOREM SnapshotTypes == Spec => []SnapshotsTypeOK
<1>1. IInv => SnapshotsTypeOK
  BY DEF IInv, Basis
<1> QED
  BY <1>1, Invariance, PTL

\* A registered reference has its snapshot, whole, or a deletion of it is under way or was
\* cut off (registerSkillSnapshotReference against deleteSkillSnapshot).
THEOREM ReferencedSnapshots == Spec => []ReferencedSnapshotsExist
<1>1. IInv => ReferencedSnapshotsExist
  BY DEF IInv
<1> QED
  BY <1>1, Invariance, PTL

\* What was committed stays referenced and what was closed stays closed, until somebody who
\* was shown the reference confirms its removal (finalizePublicationRecord,
\* closeSkillSnapshotReferences, deleteSkillSnapshot).
THEOREM KeptReferences == Spec => []ReferencesAreKept
<1>1. IInv => ReferencesAreKept
  BY DEF IInv
<1> QED
  BY <1>1, Invariance, PTL

\* A resolution is answered while its source is whole and retained, although it takes no
\* lock (resolveRetainedSkillSnapshotSourceRequest).
THEOREM RetainedSources == Spec => ResolvedSourcesAreRetained
<1>1. ASSUME IInv, [Next]_vars, NEW d \in Resolver,
             answer'[d] = "resolved", answer[d] # "resolved"
      PROVE  bundle[SnapshotOf[d]] = "whole" /\ Registered(SnapshotOf[d], Mine(d))
  <2>1. PICK c \in Call : Step(c)
    BY <1>1 DEF Next, Step, vars
  <2>2. SnapshotsTypeOK /\ RoleInv /\ CallsOK /\ d \in Call /\ Retained(d)
    BY <1>1 DEF IInv, Basis, SnapshotsTypeOK, Call, ResolverInv
  <2>3. d = c
    BY <1>1, <2>1, <2>2, OwnSteps DEF OwnStep
  <2>4. ValidateLast(c)
    BY <1>1, <2>1, <2>2, <2>3, Roles, SnapshotsAssumption DEF Step, LockStep, Acquire, Reclaim,
      GiveUp, ResolverStep, ValidateFirst, ReadReference, ReadPublication, Crash, Goto, Answers,
      CallsOK
  <2>5. /\ bundle[SnapshotOf[d]] = "whole" /\ inode[SnapshotOf[d]] = seen[d]
        /\ pc[d] = "validateLast"
    BY <1>1, <2>2, <2>3, <2>4 DEF ValidateLast, At, Answers, CallsOK
  <2> QED
    BY <2>2, <2>5 DEF Retained
<1>2. IInv /\ [Next]_vars =>
         \A c \in Resolver :
             answer'[c] = "resolved" /\ answer[c] # "resolved" =>
                 bundle[SnapshotOf[c]] = "whole" /\ Registered(SnapshotOf[c], Mine(c))
  BY <1>1
<1> QED
  BY <1>2, Invariance, PTL DEF Spec, ResolvedSourcesAreRetained

=============================================================================
