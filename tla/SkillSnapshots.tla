--------------------------- MODULE SkillSnapshots ---------------------------
(***************************************************************************)
(* The store of skill snapshots: skillSnapshotStore.ts with the publication *)
(* and the source resolution of skillSnapshot.ts.  Servers share it through *)
(* files: a bundle per snapshot, a reference file per snapshot and request, *)
(* a record per publication, and a lock file per snapshot and per           *)
(* publication.                                                             *)
(*                                                                         *)
(* A call runs in a process of its own; calls share no memory.  A lock is   *)
(* reclaimed from a dead process in one step (the premise of serial         *)
(* reclaims), and given back in the last step of its section, because only  *)
(* a call that waits for it can tell the two apart.  Hashes are collision   *)
(* free, so a snapshot is its content, a reference is the pair of its       *)
(* snapshot and its request, and an impact is the set of references that it *)
(* lists.                                                                   *)
(***************************************************************************)
EXTENDS Naturals, Sequences, FiniteSets, Functions

CONSTANTS
    Publisher,       \* calls of publish_skill_snapshots
    Closer,          \* calls of close_skill_snapshot_references
    Deleter,         \* a plan of a deletion and the deletion it confirms
    Resolver,        \* calls of resolve_retained_skill_snapshot_source
    Request,         \* canonical publication requests
    Publication,     \* publication identities
    Snapshot,        \* identities of snapshots, in their order
    RequestOf,       \* of a publisher, a closer or a resolver
    SnapshotOf,      \* of a deleter or a resolver
    PublicationOf,   \* of a request
    Bindings,        \* of a request: its snapshots, in the order of its skills
    Nobody,          \* not a call: the owner of a free lock
    Unreadable,      \* not a call: the owner in a lock file without content
    MaxCrashes       \* bound on the calls that die

Call == Publisher \cup Closer \cup Deleter \cup Resolver
Key == Snapshot \cup Publication

ASSUME SnapshotsAssumption ==
    /\ Snapshot \subseteq Nat /\ Snapshot \cap Publication = {}
    /\ Publisher \cap Closer = {} /\ (Publisher \cup Closer) \cap (Deleter \cup Resolver) = {}
    /\ Deleter \cap Resolver = {}
    /\ PublicationOf \in [Request -> Publication]
    /\ Bindings \in [Request -> Seq(Snapshot) \ {<<>>}]
    /\ \A r \in Request : IsInjective(Bindings[r])
    /\ RequestOf \in [Publisher \cup Closer \cup Resolver -> Request]
    /\ SnapshotOf \in [Deleter \cup Resolver -> Snapshot]
    /\ Nobody \notin Call \cup Request /\ Unreadable \notin Call /\ Nobody # Unreadable
    /\ MaxCrashes \in Nat

VARIABLES
    bundle,          \* bundles/<snapshot>
    inode,           \* which directory that is
    references,      \* references/<snapshot>/<request>.json
    publications,    \* publications/<publication>.json
    locks,           \* locks/<key>.lock
    alive,           \* the calls whose process lives
    pc,              \* the step each call is at
    at,              \* the binding a call is at, of those of its request
    got,             \* lifecycles of the references a publisher has in hand
    impact,          \* the references its caller was shown by a deleter's plan
    seen,            \* the directory a resolver has validated
    answer           \* what a call has answered; its reasons to refuse are left out

files == <<bundle, inode, references, publications>>
locals == <<at, got, impact, seen>>
vars == <<files, locks, alive, pc, locals, answer>>

NoRecord == [status |-> "absent", request |-> Nobody, receipts |-> <<>>]
Lifecycle == {"active", "closed"}
Registered(s, r) == references[s][r] \in Lifecycle

BindingsOf(r) == Range(Bindings[r])

\* The order of close_skill_snapshot_references: the first of a set.
IsFirst(s, S) == s \in S /\ \A t \in S \ {s} : s < t

Start(c) ==
    CASE c \in Publisher -> "lookup"
      [] c \in Closer -> "lookup"
      [] c \in Deleter -> "plan"
      [] c \in Resolver -> "validateFirst"

Init ==
    /\ bundle = [s \in Snapshot |-> "absent"]
    /\ inode = [s \in Snapshot |-> 0]
    /\ references = [s \in Snapshot |-> [r \in Request |-> "absent"]]
    /\ publications = [p \in Publication |-> NoRecord]
    /\ locks = [k \in Key |-> Nobody]
    /\ alive = Call
    /\ pc = [c \in Call |-> Start(c)]
    /\ at = [c \in Call |-> 1]
    /\ got = [c \in Call |-> <<>>]
    /\ impact = [c \in Call |-> {}]
    /\ seen = [c \in Call |-> 0]
    /\ answer = [c \in Call |-> "none"]

-----------------------------------------------------------------------------
\* Steps and answers

At(c, step) == c \in alive /\ pc[c] = step
Goto(c, step) == pc' = [pc EXCEPT ![c] = step] /\ UNCHANGED answer
Answers(c, what) ==
    pc' = [pc EXCEPT ![c] = "done"] /\ answer' = [answer EXCEPT ![c] = what]

Mine(c) == RequestOf[c]
PublicationOfCall(c) == PublicationOf[Mine(c)]
Bound(c) == Bindings[Mine(c)][at[c]]
IsLast(c) == at[c] = Len(Bindings[Mine(c)])

\* The snapshots of the call, one after the other: then the step after them.
NextBinding(c, step, then) ==
    /\ at' = [at EXCEPT ![c] = IF IsLast(c) THEN 1 ELSE @ + 1]
    /\ Goto(c, IF IsLast(c) THEN then ELSE step)

-----------------------------------------------------------------------------
\* The lock files

\* The locks a call has to have for its step.
Needed(c) ==
    CASE pc[c] \in {"materialize", "register"} -> {Bound(c)}
      [] pc[c] \in {"claim", "commit"} -> {PublicationOfCall(c)}
      [] pc[c] = "takeLocks" -> BindingsOf(Mine(c))
      [] pc[c] = "delete" -> {SnapshotOf[c]}
      [] OTHER -> {}
Missing(c) == {k \in Needed(c) : locks[k] # c}

\* It asks for them one by one.
Asks(c, k) == c \in alive /\ IsFirst(k, Missing(c))
Inside(c, step) == At(c, step) /\ Missing(c) = {}
Released(c) == [k \in Key |-> IF locks[k] = c THEN Nobody ELSE locks[k]]
Release(c) == locks' = Released(c)

\* acquireSnapshotLock: the exclusive creation of the file and its content.
Acquire(c) ==
    /\ \E k \in Key :
          /\ Asks(c, k) /\ locks[k] = Nobody
          /\ locks' = [locks EXCEPT ![k] = c]
    /\ UNCHANGED <<files, alive, pc, locals, answer>>

\* The owner in the file is definitely gone: the file is removed and the creation
\* tried again.
Reclaim(c) ==
    /\ \E k \in Key :
          /\ Asks(c, k) /\ locks[k] \in Call \ alive
          /\ locks' = [locks EXCEPT ![k] = Nobody]
    /\ UNCHANGED <<files, alive, pc, locals, answer>>

\* All attempts have met a lock; a closer gives back the locks that it has.
GiveUp(c) ==
    /\ \E k \in Key : Asks(c, k) /\ locks[k] # Nobody
    /\ Release(c)
    /\ Answers(c, "refused")
    /\ UNCHANGED <<files, alive, locals>>

-----------------------------------------------------------------------------
\* publish_skill_snapshots

\* A record that is unreadable or of another request refuses the call; for one of its
\* own request finalizePublicationRecord goes on by the status.
Proceed(c, record) ==
    IF record.status = "torn" \/ record.request # Mine(c)
    THEN Answers(c, "refused")
    ELSE Goto(c, IF record.status = "committed" THEN "checkBundle" ELSE "validate")

\* getSkillSnapshotPublicationRecord, without a lock.  Without a record the sources are
\* captured, which touches nothing here, and are what the request says or are not.
Lookup(c) ==
    LET record == publications[PublicationOfCall(c)]
    IN  /\ c \in Publisher /\ At(c, "lookup")
        /\ \/ record.status = "absent" /\ (Goto(c, "materialize") \/ Answers(c, "refused"))
           \/ record.status # "absent" /\ Proceed(c, record)
        /\ UNCHANGED <<files, locks, alive, locals>>

\* materializeSkillSnapshot: what is there is validated; nothing is there: a stage is
\* filled and renamed.
Materialize(c) ==
    LET s == Bound(c)
    IN  /\ Inside(c, "materialize")
        /\ \/ /\ bundle[s] = "absent"
              /\ bundle' = [bundle EXCEPT ![s] = "whole"]
              /\ inode' = [inode EXCEPT ![s] = @ + 1]
              /\ NextBinding(c, "materialize", "claim")
           \/ /\ bundle[s] = "whole"
              /\ NextBinding(c, "materialize", "claim")
              /\ UNCHANGED <<bundle, inode>>
           \/ /\ bundle[s] = "partial"
              /\ Answers(c, "refused")
              /\ UNCHANGED <<bundle, inode, at>>
        /\ Release(c)
        /\ UNCHANGED <<references, publications, alive, got, impact, seen>>

\* claimSkillSnapshotPublication: an existing record decides, else one is created.
Claim(c) ==
    LET p == PublicationOfCall(c)
        record == publications[p]
    IN  /\ Inside(c, "claim")
        /\ \/ /\ record.status = "absent"
              /\ publications' = [publications EXCEPT ![p].status = "torn"]
              /\ Goto(c, "writeClaim")
              /\ UNCHANGED locks
           \/ /\ record.status # "absent"
              /\ Proceed(c, record)
              /\ Release(c)
              /\ UNCHANGED publications
        /\ UNCHANGED <<bundle, inode, references, alive, locals>>

WriteClaim(c) ==
    /\ At(c, "writeClaim")
    /\ publications' = [publications EXCEPT ![PublicationOfCall(c)] =
                            [status |-> "pending", request |-> Mine(c), receipts |-> <<>>]]
    /\ Goto(c, "validate")
    /\ Release(c)
    /\ UNCHANGED <<bundle, inode, references, alive, locals>>

\* A pending record: validateRecordedSkillSnapshot of a binding, without a lock.
Validate(c) ==
    /\ At(c, "validate")
    /\ IF bundle[Bound(c)] = "whole" THEN Goto(c, "register")
                                     ELSE Answers(c, "refused")
    /\ UNCHANGED <<files, locks, alive, locals>>

\* Bug: the reference is registered without another look at the snapshot.
RegisterUnvalidated(c) ==
    LET s == Bound(c)
    IN  /\ Inside(c, "register")
        /\ references' = [references EXCEPT ![s][Mine(c)] =
                              IF @ = "absent" THEN "active" ELSE @]
        /\ got' = [got EXCEPT ![c] = Append(@, references'[s][Mine(c)])]
        /\ NextBinding(c, "validate", "commit")
        /\ Release(c)
        /\ UNCHANGED <<bundle, inode, publications, alive, impact, seen>>

\* registerSkillSnapshotReference: the snapshot is validated again, now under its lock;
\* an existing reference is taken as it is if it is this one, active or closed.
Register(c) ==
    LET s == Bound(c)
        reference == references[s][Mine(c)]
    IN  /\ Inside(c, "register")
        /\ \/ /\ bundle[s] = "whole" /\ reference = "absent"
              /\ references' = [references EXCEPT ![s][Mine(c)] = "torn"]
              /\ Goto(c, "writeReference")
              /\ UNCHANGED <<locks, at, got>>
           \/ /\ bundle[s] = "whole" /\ reference \in Lifecycle
              /\ got' = [got EXCEPT ![c] = Append(@, reference)]
              /\ NextBinding(c, "validate", "commit")
              /\ Release(c)
              /\ UNCHANGED references
           \/ /\ bundle[s] # "whole" \/ reference = "torn"
              /\ Answers(c, "refused")
              /\ Release(c)
              /\ UNCHANGED <<references, at, got>>
        /\ UNCHANGED <<bundle, inode, publications, alive, impact, seen>>

\* Bug: the publication is committed after its first reference.
WriteOneReference(c) ==
    /\ At(c, "writeReference")
    /\ references' = [references EXCEPT ![Bound(c)][Mine(c)] = "active"]
    /\ got' = [got EXCEPT ![c] = Append(@, "active")]
    /\ Goto(c, "commit")
    /\ Release(c)
    /\ UNCHANGED <<bundle, inode, publications, alive, at, impact, seen>>

WriteReference(c) ==
    /\ At(c, "writeReference")
    /\ references' = [references EXCEPT ![Bound(c)][Mine(c)] = "active"]
    /\ got' = [got EXCEPT ![c] = Append(@, "active")]
    /\ NextBinding(c, "validate", "commit")
    /\ Release(c)
    /\ UNCHANGED <<bundle, inode, publications, alive, impact, seen>>

\* commitSkillSnapshotPublication: the pending record is replaced; a committed one must
\* hold the same receipts.
Commit(c) ==
    LET p == PublicationOfCall(c)
        record == publications[p]
    IN  /\ Inside(c, "commit")
        /\ \/ /\ record.status = "pending" /\ record.request = Mine(c)
              /\ publications' = [publications EXCEPT
                     ![p].status = "committed", ![p].receipts = got[c]]
              /\ Answers(c, "published")
           \/ /\ record.status = "committed" /\ record.request = Mine(c)
              /\ Answers(c, IF record.receipts = got[c] THEN "published" ELSE "refused")
              /\ UNCHANGED publications
        /\ Release(c)
        /\ UNCHANGED <<bundle, inode, references, alive, locals>>

\* referenceRecords throws for the snapshot if any of its files is unreadable.
Listable(s) == \A r \in Request : references[s][r] # "torn"

\* A committed record: each of its bindings is validated, and then its reference.
CheckBundle(c) ==
    /\ At(c, "checkBundle")
    /\ IF bundle[Bound(c)] = "whole" THEN Goto(c, "checkReference")
                                     ELSE Answers(c, "refused")
    /\ UNCHANGED <<files, locks, alive, locals>>

CheckReference(c) ==
    /\ At(c, "checkReference")
    /\ IF Listable(Bound(c)) /\ Registered(Bound(c), Mine(c))
       THEN IF IsLast(c) THEN Answers(c, "published") /\ UNCHANGED at
                         ELSE NextBinding(c, "checkBundle", "checkBundle")
       ELSE Answers(c, "refused") /\ UNCHANGED at
    /\ UNCHANGED <<files, locks, alive, got, impact, seen>>

PublisherStep(c) ==
    \/ Lookup(c) \/ Materialize(c) \/ Claim(c) \/ WriteClaim(c)
    \/ Validate(c) \/ Register(c) \/ WriteReference(c) \/ Commit(c)
    \/ CheckBundle(c) \/ CheckReference(c)

-----------------------------------------------------------------------------
\* close_skill_snapshot_references

\* The record is read without a lock; it must be committed and name the snapshots.
BeginClosing(c) ==
    LET record == publications[PublicationOfCall(c)]
    IN  /\ c \in Closer /\ At(c, "lookup")
        /\ IF record.status = "committed" /\ record.request = Mine(c)
           THEN Goto(c, "takeLocks")
           ELSE Answers(c, "refused")
        /\ UNCHANGED <<files, locks, alive, locals>>

\* With all the locks: each snapshot must have exactly one reference of the publication.
Match(c) ==
    /\ Inside(c, "takeLocks")
    /\ IF \A s \in BindingsOf(Mine(c)) :
             /\ Listable(s)
             /\ Cardinality({r \in Request : /\ PublicationOf[r] = PublicationOfCall(c)
                                             /\ Registered(s, r)}) = 1
       THEN Goto(c, "close") /\ UNCHANGED locks
       ELSE Answers(c, "refused") /\ Release(c)
    /\ UNCHANGED <<files, alive, locals>>

\* They are replaced one by one; what is closed is left as it is.
Open(c) == {s \in BindingsOf(Mine(c)) : references[s][Mine(c)] = "active"}
CloseOne(c) ==
    /\ At(c, "close")
    /\ \/ \E s \in Snapshot :
             /\ IsFirst(s, Open(c))
             /\ references' = [references EXCEPT ![s][Mine(c)] = "closed"]
             /\ UNCHANGED <<locks, pc, answer>>
       \/ /\ Open(c) = {}
          /\ Answers(c, "closed") /\ Release(c)
          /\ UNCHANGED references
    /\ UNCHANGED <<bundle, inode, publications, alive, locals>>

CloserStep(c) == BeginClosing(c) \/ Match(c) \/ CloseOne(c)

-----------------------------------------------------------------------------
\* plan_skill_snapshot_deletion and delete_skill_snapshot

References(s) == {<<r, references[s][r]>> : r \in {q \in Request : Registered(s, q)}}

\* planSkillSnapshotDeletion, without a lock.
Plan(c) ==
    LET s == SnapshotOf[c]
    IN  /\ At(c, "plan")
        /\ IF bundle[s] # "absent" /\ Listable(s)
           THEN Goto(c, "delete") /\ impact' = [impact EXCEPT ![c] = References(s)]
           ELSE Answers(c, "refused") /\ UNCHANGED impact
        /\ UNCHANGED <<files, locks, alive, at, got, seen>>

\* deleteSkillSnapshot computes the impact again under the lock; it starts to remove the
\* bundle if it is the one that was confirmed.
Delete(c) ==
    LET s == SnapshotOf[c]
    IN  /\ Inside(c, "delete")
        /\ IF bundle[s] # "absent" /\ Listable(s) /\ References(s) = impact[c]
           THEN /\ bundle' = [bundle EXCEPT ![s] = "partial"]
                /\ Goto(c, "removeBundle")
                /\ UNCHANGED locks
           ELSE /\ Answers(c, "refused") /\ Release(c)
                /\ UNCHANGED bundle
        /\ UNCHANGED <<inode, references, publications, alive, locals>>

RemoveBundle(c) ==
    /\ At(c, "removeBundle")
    /\ bundle' = [bundle EXCEPT ![SnapshotOf[c]] = "absent"]
    /\ Goto(c, "removeReferences")
    /\ UNCHANGED <<inode, references, publications, locks, alive, locals>>

\* The files of the reference directory go one after the other.
RemoveReference(c) ==
    LET s == SnapshotOf[c]
    IN  /\ At(c, "removeReferences")
        /\ \/ \E r \in Request :
                 /\ references[s][r] # "absent"
                 /\ references' = [references EXCEPT ![s][r] = "absent"]
                 /\ UNCHANGED <<pc, answer, locks>>
           \/ /\ \A r \in Request : references[s][r] = "absent"
              /\ Answers(c, "deleted") /\ Release(c)
              /\ UNCHANGED references
        /\ UNCHANGED <<bundle, inode, publications, alive, locals>>

DeleterStep(c) == Plan(c) \/ Delete(c) \/ RemoveBundle(c) \/ RemoveReference(c)

-----------------------------------------------------------------------------
\* resolve_retained_skill_snapshot_source takes no lock

\* validateExactRetainedSnapshotSource: the bundle, and which directory it is.
ValidateFirst(c) ==
    LET s == SnapshotOf[c]
    IN  /\ At(c, "validateFirst")
        /\ IF bundle[s] = "whole"
           THEN Goto(c, "reference") /\ seen' = [seen EXCEPT ![c] = inode[s]]
           ELSE Answers(c, "refused") /\ UNCHANGED seen
        /\ UNCHANGED <<files, locks, alive, at, got, impact>>

ReadReference(c) ==
    /\ At(c, "reference")
    /\ IF Listable(SnapshotOf[c]) /\ Registered(SnapshotOf[c], Mine(c))
       THEN Goto(c, "publication")
       ELSE Answers(c, "refused")
    /\ UNCHANGED <<files, locks, alive, locals>>

ReadPublication(c) ==
    LET record == publications[PublicationOfCall(c)]
    IN  /\ At(c, "publication")
        /\ IF /\ record.status = "committed" /\ record.request = Mine(c)
              /\ SnapshotOf[c] \in BindingsOf(Mine(c))
           THEN Goto(c, "validateLast")
           ELSE Answers(c, "refused")
        /\ UNCHANGED <<files, locks, alive, locals>>

\* Bug: what was validated is not validated again.
ResolveUnvalidated(c) ==
    /\ At(c, "validateLast")
    /\ Answers(c, "resolved")
    /\ UNCHANGED <<files, locks, alive, locals>>

\* The bundle must be whole and the same directory as before.
ValidateLast(c) ==
    LET s == SnapshotOf[c]
    IN  /\ At(c, "validateLast")
        /\ Answers(c, IF bundle[s] = "whole" /\ inode[s] = seen[c]
                      THEN "resolved" ELSE "refused")
        /\ UNCHANGED <<files, locks, alive, locals>>

ResolverStep(c) ==
    ValidateFirst(c) \/ ReadReference(c) \/ ReadPublication(c) \/ ValidateLast(c)

-----------------------------------------------------------------------------
\* A process dies between two steps, or between the creation of a lock file and the
\* writing of its owner.
Crash(c) ==
    /\ c \in alive /\ pc[c] # "done"
    /\ Cardinality(Call \ alive) < MaxCrashes
    /\ alive' = alive \ {c}
    /\ \/ UNCHANGED locks
       \/ \E k \in Key :
             /\ Asks(c, k) /\ locks[k] = Nobody
             /\ locks' = [locks EXCEPT ![k] = Unreadable]
    /\ UNCHANGED <<files, pc, locals, answer>>

LockStep(c) == Acquire(c) \/ Reclaim(c) \/ GiveUp(c)

Next ==
    \E c \in Call :
        \/ LockStep(c) \/ PublisherStep(c) \/ CloserStep(c) \/ DeleterStep(c)
        \/ ResolverStep(c) \/ Crash(c)

Spec == Init /\ [][Next]_vars

-----------------------------------------------------------------------------
Steps ==
    {"lookup", "materialize", "claim", "writeClaim", "validate", "register",
     "writeReference", "commit", "checkBundle", "checkReference", "takeLocks", "close",
     "plan", "delete", "removeBundle", "removeReferences", "validateFirst", "reference",
     "publication", "validateLast", "done"}

FilesOK ==
    /\ bundle \in [Snapshot -> {"absent", "whole", "partial"}]
    /\ inode \in [Snapshot -> Nat]
    /\ references \in [Snapshot -> [Request -> {"absent", "torn"} \cup Lifecycle]]
    /\ publications \in
           [Publication -> [status : {"absent", "torn", "pending", "committed"},
                            request : Request \cup {Nobody}, receipts : Seq(Lifecycle)]]

CallsOK ==
    /\ locks \in [Key -> Call \cup {Nobody, Unreadable}]
    /\ alive \in SUBSET Call
    /\ pc \in [Call -> Steps]
    /\ at \in [Call -> Nat]
    /\ \A c \in Publisher : at[c] \in DOMAIN Bindings[Mine(c)]
    /\ got \in [Call -> Seq(Lifecycle)]
    /\ impact \in [Call -> SUBSET (Request \X Lifecycle)]
    /\ seen \in [Call -> Nat]
    /\ answer \in [Call -> {"none", "refused", "published", "closed", "deleted", "resolved"}]

SnapshotsTypeOK == FilesOK /\ CallsOK

\* A deletion that has begun; that of a dead process never ends.
Removing == {"removeBundle", "removeReferences"}
Removed(c) == c \in Deleter /\ (pc[c] \in Removing \/ answer[c] = "deleted")
ConfirmedAway(s, r) ==
    \E d \in Deleter : SnapshotOf[d] = s /\ Removed(d) /\ \E l \in Lifecycle : <<r, l>> \in impact[d]

\* A registered reference has its snapshot (deleteSkillSnapshot against
\* registerSkillSnapshotReference), unless a deletion of the snapshot is under way or was
\* cut off by a crash.
ReferencedSnapshotsExist ==
    \A s \in Snapshot : \A r \in Request :
        Registered(s, r) =>
            \/ bundle[s] = "whole"
            \/ \E d \in Deleter : SnapshotOf[d] = s /\ pc[d] \in Removing

\* Every binding of a committed publication is referenced, or somebody who was shown that
\* reference has confirmed its removal (finalizePublicationRecord,
\* commitSkillSnapshotPublication, deleteSkillSnapshot).
CommittedBindingsAreReferenced ==
    \A p \in Publication : publications[p].status = "committed" =>
        LET r == publications[p].request
        IN  \A s \in BindingsOf(r) : Registered(s, r) \/ ConfirmedAway(s, r)

\* What a closer has closed is closed, whatever late replays of the publication do, until
\* its removal is confirmed (closeSkillSnapshotReferences, registerSkillSnapshotReference).
ClosureIsKept ==
    \A c \in Closer : answer[c] = "closed" =>
        \A s \in BindingsOf(Mine(c)) :
            references[s][Mine(c)] = "closed" \/ ConfirmedAway(s, Mine(c))

\* References stand for what was promised to those who made and those who closed them.
ReferencesAreKept == CommittedBindingsAreReferenced /\ ClosureIsKept

\* A resolution is answered while its source is whole and its reference is retained,
\* although it takes no lock (resolveRetainedSkillSnapshotSourceRequest): a deletion
\* removes the bundle before the references, and a new bundle is another directory.
ResolvedSourcesAreRetained ==
    [][\A c \in Resolver :
          answer'[c] = "resolved" /\ answer[c] # "resolved" =>
              bundle[SnapshotOf[c]] = "whole" /\ Registered(SnapshotOf[c], Mine(c))]_vars

\* README.md says that an exact replay of a pending claim resumes it.  For that its
\* snapshots must be there, unless somebody confirmed the removal of its reference.
ClaimedSnapshotsExist ==
    \A p \in Publication : publications[p].status = "pending" =>
        LET r == publications[p].request
        IN  \A s \in BindingsOf(r) : bundle[s] = "whole" \/ ConfirmedAway(s, r)

=============================================================================
