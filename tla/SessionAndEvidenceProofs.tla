---------------------- MODULE SessionAndEvidenceProofs ----------------------
(***************************************************************************)
(* Proofs about what is written down of finished work: NamedSession, for   *)
(* every number of turns, servers and crashes, under the premise that      *)
(* removals of stale locks do not overlap (SerialSpec), and ClaimEvidence, *)
(* for any declarations, lines, cancellations and failures.                *)
(*                                                                         *)
(* The session.  A living call that has the lock is alone with the files.  *)
(* What the files say at any moment is one of four stages of the pending   *)
(* commit, and a call that applies it knows from its step which one.       *)
(*                                                                         *)
(* The evidence.  The flags and the receipts in the owner's memory only    *)
(* grow, and each has its cause (EvidenceInv); a result is put together of *)
(* what they are at that moment.  So a terminal claim, which tells that    *)
(* result or one of the ways a run fails, is true of the child when it is  *)
(* written, and nothing it speaks of can change any more.                  *)
(*                                                                         *)
(* The refusals.  What the owner has told agrees with what it remembers,   *)
(* however the list of events was shortened (StoryAgrees), and the claim   *)
(* of an active run was a copy of it; a result tells how it was put        *)
(* together (CausesInv).  So the terminal view takes nothing back and is   *)
(* evidence of a result or of an owner, but for five corners.              *)
(***************************************************************************)
EXTENDS NamedSession, ClaimEvidence, FiniteSetTheorems, WellFoundedInduction, TLAPS

\* The log the session consists of: what the next recovery will make of it.
TheLog == IF pending = NoCommit THEN canonical ELSE pending.successor

Has(s, c) == \E i \in 1 .. Len(s) : s[i] = c

\* The ledger and the manifest that go with a session file.
Numbered(s) == [i \in 1 .. Len(s) |-> [call |-> s[i], sequence |-> i]]

ManifestOf(s) ==
    IF s = <<>> THEN NoManifest ELSE [run_count |-> Len(s), last |-> s[Len(s)]]

-----------------------------------------------------------------------------
\* A call that is about to remove a stale lock sees that of a dead process.
RemoverSeesDead ==
    \A c \in Calls : At(c, "remove") => lock.by \in Calls /\ DefinitelyGone(lock.by)

SoleRemover == \A c, d \in Removers : c = d

OwnerIsACall == lock.written => lock.by \in Calls

LockInv == HolderKeepsLock /\ RemoverSeesDead /\ SoleRemover /\ OwnerIsACall

WellFormed(p) ==
    /\ p \in Commits
    /\ p.successor = Append(p.predecessor, p.call)
    /\ p.record = [call |-> p.call, sequence |-> Len(p.predecessor) + 1]
    /\ ~Has(p.predecessor, p.call)

LedgerIs(s) == ledger = Numbered(s)

ManifestIs(s) == manifest = ManifestOf(s)

\* No commit is pending, or one is and none, one, two or three of the files
\* have been published.
Settled == pending = NoCommit /\ LedgerIs(canonical) /\ ManifestIs(canonical)

Prepared ==
    /\ WellFormed(pending)
    /\ canonical = pending.predecessor /\ workspace[pending.call] = pending.successor
    /\ LedgerIs(pending.predecessor) /\ ManifestIs(pending.predecessor)

Published ==
    /\ WellFormed(pending)
    /\ canonical = pending.successor
    /\ LedgerIs(pending.predecessor) /\ ManifestIs(pending.predecessor)

Recorded ==
    /\ WellFormed(pending)
    /\ canonical = pending.successor
    /\ LedgerIs(pending.successor)
    /\ ManifestIs(pending.predecessor) \/ ManifestIs(pending.successor)

FilesInv == Settled \/ Prepared \/ Published \/ Recorded

\* What a living holder knows from the step it is at.
Knows(c) ==
    /\ pc[c] \in Applying => pending # NoCommit /\ work[c] = pending
    /\ pc[c] = "rename" => canonical = pending.predecessor
    /\ pc[c] \in {"append", "install", "verify", "discard", "clear"}
           => canonical = pending.successor
    /\ pc[c] \in {"install", "verify", "discard", "clear"} => LedgerIs(pending.successor)
    /\ pc[c] \in {"verify", "discard", "clear"} => ManifestIs(pending.successor)
    /\ pc[c] = "clear" => workspace[pending.call] = <<>>
    /\ pc[c] \in {"open", "prepare", "run", "commit", "note"} => pending = NoCommit
    /\ pc[c] \in {"prepare", "run", "commit"} => sequence[c] = Len(canonical) + 1
    /\ pc[c] = "run" => workspace[c] = canonical
    /\ pc[c] = "commit" => workspace[c] = Append(canonical, c)
    /\ pc[c] \in {"release", "unlock"} => pending.call = c \/ workspace[c] = <<>> \/ c \in kept

ProgressInv == \A c \in Holders : Knows(c)

Ending == {"tidy", "release", "unlock"}

\* What a turn has to do with the log: it enters it with its own commit, and
\* what it is going to answer is true.
AnswerInv ==
    \A c \in Calls :
        /\ Has(TheLog, c) =>
            /\ pc[c] \in Applying \cup Ending \cup {"done"}
            /\ pc[c] \in Applying => work[c].call = c
            /\ pc[c] \in Ending => result[c] # "failed"
        /\ pc[c] \in Ending =>
            /\ result[c] \in {"success", "failed", "error"}
            /\ result[c] = "success" => Has(TheLog, c)

-----------------------------------------------------------------------------
(* Types. *)

CommitOrNone == Commits \cup {NoCommit}

\* The shapes of the files, and those of the locals.
FileTypes ==
    /\ lock \in [by : Calls \cup {NoCall}, written : BOOLEAN]
    /\ canonical \in Seq(Calls)
    /\ ledger \in Seq(Records)
    /\ manifest \in [run_count : Nat, last : Calls \cup {NoCall}]
    /\ pending \in CommitOrNone
    /\ work \in [Calls -> CommitOrNone]
    /\ workspace \in [Calls -> Seq(Calls)]
    /\ alive \subseteq Processes

LocalTypes ==
    /\ pc \in [Calls -> Steps]
    /\ retried \in [Calls -> BOOLEAN] /\ sequence \in [Calls -> Nat]
    /\ result \in [Calls -> Answers] /\ answer \in [Calls -> Answers]
    /\ kept \subseteq Calls

\* A call that ends has its answer ready.
Consistent ==
    \A c \in Calls :
        /\ work[c] # NoCommit <=> pc[c] \in Applying
        /\ pc[c] = "remove" => ~retried[c]
        /\ answer[c] # "none" <=> pc[c] = "done"
        /\ pc[c] \in Ending => result[c] \in Answers \ {"none"}

TypeInv == FileTypes /\ LocalTypes /\ Consistent

LEMMA CommitFacts ==
    /\ NoCommit \notin Commits
    /\ \A w \in Commits : /\ w.call \in Calls /\ w.record \in Records
                          /\ w.predecessor \in Seq(Calls) /\ w.successor \in Seq(Calls)
    /\ \A c \in Calls, s, t \in Seq(Calls), n \in Nat :
        [call |-> c, predecessor |-> s, successor |-> t,
         record |-> [call |-> c, sequence |-> n]] \in Commits
  BY NoCallAssumption DEF Commits, Records, NoCommit

\* The manifest that catches up with the ledger.
LEMMA ReconciledType == FileTypes => Reconciled \in [run_count : Nat, last : Calls \cup {NoCall}]
<1> SUFFICES ASSUME FileTypes PROVE Reconciled \in [run_count : Nat, last : Calls \cup {NoCall}]
  OBVIOUS
<1>1. CASE manifest # NoManifest /\ Len(ledger) > manifest.run_count
  <2>1. Len(ledger) \in Nat /\ Len(ledger) \in 1 .. Len(ledger)
    BY <1>1 DEF FileTypes
  <2>2. ledger[Len(ledger)] \in Records
    BY <2>1 DEF FileTypes
  <2>3. ledger[Len(ledger)].call \in Calls
    BY <2>2 DEF Records
  <2> QED
    BY <1>1, <2>1, <2>3 DEF Reconciled
<1>2. CASE ~(manifest # NoManifest /\ Len(ledger) > manifest.run_count)
  BY <1>2 DEF Reconciled, FileTypes
<1> QED
  BY <1>1, <1>2

\* Every step keeps the shapes of the locals.
LEMMA LocalStep == TypeInv /\ [Next]_vars => LocalTypes'
<1> SUFFICES ASSUME TypeInv, [Next]_vars PROVE LocalTypes'
  OBVIOUS
<1> USE DEF TypeInv, FileTypes, LocalTypes, Steps, Holding, Applying, Answers,
            At, GoTo, lockVars, files, turn
<1>1. ASSUME NEW c \in Calls, Begin(c) PROVE LocalTypes'
  BY <1>1 DEF Begin, Answer
<1>2. ASSUME NEW c \in Calls, Create(c) PROVE LocalTypes'
  BY <1>2 DEF Create
<1>3. ASSUME NEW c \in Calls, Fill(c) PROVE LocalTypes'
  BY <1>3 DEF Fill
<1>4. ASSUME NEW c \in Calls, ReadOwner(c) PROVE LocalTypes'
  BY <1>4 DEF ReadOwner, Answer
<1>5. ASSUME NEW c \in Calls, RemoveStale(c) PROVE LocalTypes'
  BY <1>5 DEF RemoveStale
<1>6. ASSUME NEW c \in Calls, Release(c) PROVE LocalTypes'
  BY <1>6 DEF Release, Answer
<1>7. ASSUME NEW c \in Calls, Unlock(c) PROVE LocalTypes'
  BY <1>7 DEF Unlock, Answer
<1>8. ASSUME NEW c \in Calls, Recover(c) PROVE LocalTypes'
  BY <1>8 DEF Recover
<1>9. ASSUME NEW c \in Calls, Publish(c) PROVE LocalTypes'
  BY <1>9 DEF Publish
<1>10. ASSUME NEW c \in Calls, Rename(c) PROVE LocalTypes'
  BY <1>10 DEF Rename
<1>11. ASSUME NEW c \in Calls, AppendRecord(c) PROVE LocalTypes'
  BY <1>11 DEF AppendRecord
<1>12. ASSUME NEW c \in Calls, InstallManifest(c) PROVE LocalTypes'
  BY <1>12 DEF InstallManifest, Successor
<1>13. ASSUME NEW c \in Calls, Verify(c) PROVE LocalTypes'
  BY <1>13 DEF Verify
<1>14. ASSUME NEW c \in Calls, DiscardWorkspace(c) PROVE LocalTypes'
  BY <1>14 DEF DiscardWorkspace
<1>15. ASSUME NEW c \in Calls, ClearPending(c) PROVE LocalTypes'
  BY <1>15, ZenonT(60) DEF ClearPending, Finally
<1>16. ASSUME NEW c \in Calls, ApplyFails(c) PROVE LocalTypes'
  BY <1>16 DEF ApplyFails, Finally
<1>17. ASSUME NEW c \in Calls, Open(c) PROVE LocalTypes'
  <2>1. \E n \in Nat : sequence' \in {sequence, [sequence EXCEPT ![c] = n]}
    <3>1. manifest'.run_count + 1 \in Nat
      BY <1>17, ReconciledType DEF Open
    <3> QED
      BY <1>17, <3>1 DEF Open
  <2>2. sequence' \in [Calls -> Nat]
    BY <2>1
  <2>3. pc' \in [Calls -> Steps] /\ result' \in [Calls -> Answers]
    BY <1>17 DEF Open, Finally
  <2> QED
    BY <1>17, <2>2, <2>3 DEF Open

<1>18. ASSUME NEW c \in Calls, Prepare(c) PROVE LocalTypes'
  BY <1>18 DEF Prepare
<1>19. ASSUME NEW c \in Calls, Run(c) PROVE LocalTypes'
  BY <1>19 DEF Run, Finally
<1>20. ASSUME NEW c \in Calls, WritePending(c) PROVE LocalTypes'
  BY <1>20 DEF WritePending
<1>21. ASSUME NEW c \in Calls, NoteFailedTurn(c) PROVE LocalTypes'
  BY <1>21 DEF NoteFailedTurn, Finally
<1>22. ASSUME NEW c \in Calls, Tidy(c) PROVE LocalTypes'
  BY <1>22 DEF Tidy
<1>23. ASSUME NEW p \in Processes, Crash(p) PROVE LocalTypes'
  BY <1>23 DEF Crash
<1>24. CASE UNCHANGED vars
  BY <1>24 DEF vars
<1> QED
  BY <1>1, <1>2, <1>3, <1>4, <1>5, <1>6, <1>7, <1>8, <1>9, <1>10, <1>11, <1>12, <1>13,
     <1>14, <1>15, <1>16, <1>17, <1>18, <1>19, <1>20, <1>21, <1>22, <1>23, <1>24
  DEF Next, OtherStep

\* Every step keeps the locals consistent.
LEMMA ConsistentStep == TypeInv /\ [Next]_vars => Consistent'
<1> SUFFICES ASSUME TypeInv, [Next]_vars PROVE Consistent'
  OBVIOUS
<1> USE DEF TypeInv, FileTypes, LocalTypes, Consistent, Steps, Holding, Applying, Ending, Answers,
            At, GoTo, lockVars, files, turn
<1>1. ASSUME NEW c \in Calls, Begin(c) PROVE Consistent'
  <2>1. UNCHANGED <<work, retried, result>> /\ pc[c] = "idle"
    BY <1>1 DEF Begin
  <2>2. CASE GoTo(c, "create") /\ UNCHANGED answer
    BY <2>1, <2>2
  <2>3. CASE Answer(c, "failed")
    BY <2>1, <2>3 DEF Answer
  <2> QED
    BY <1>1, <2>2, <2>3 DEF Begin
<1>2. ASSUME NEW c \in Calls, Create(c) PROVE Consistent'
  BY <1>2 DEF Create
<1>3. ASSUME NEW c \in Calls, Fill(c) PROVE Consistent'
  BY <1>3 DEF Fill
<1>4. ASSUME NEW c \in Calls, ReadOwner(c) PROVE Consistent'
  BY <1>4 DEF ReadOwner, Answer
<1>5. ASSUME NEW c \in Calls, RemoveStale(c) PROVE Consistent'
  BY <1>5 DEF RemoveStale
<1>6. ASSUME NEW c \in Calls, Release(c) PROVE Consistent'
  <2>1. UNCHANGED <<work, retried, result>> /\ pc[c] = "release"
    BY <1>6 DEF Release
  <2>2. result[c] \in Answers \ {"none"}
    BY <2>1
  <2>3. ASSUME NEW a \in Answers \ {"none"}, Answer(c, a) PROVE Consistent'
    BY <2>1, <2>3 DEF Answer
  <2>4. CASE GoTo(c, "unlock") /\ UNCHANGED answer
    BY <2>1, <2>4
  <2> QED
    BY <1>6, <2>2, <2>3, <2>4 DEF Release

<1>7. ASSUME NEW c \in Calls, Unlock(c) PROVE Consistent'
  BY <1>7 DEF Unlock, Answer
<1>8. ASSUME NEW c \in Calls, Recover(c) PROVE Consistent'
  BY <1>8 DEF Recover
<1>9. ASSUME NEW c \in Calls, Publish(c) PROVE Consistent'
  BY <1>9 DEF Publish
<1>10. ASSUME NEW c \in Calls, Rename(c) PROVE Consistent'
  BY <1>10 DEF Rename
<1>11. ASSUME NEW c \in Calls, AppendRecord(c) PROVE Consistent'
  BY <1>11 DEF AppendRecord
<1>12. ASSUME NEW c \in Calls, InstallManifest(c) PROVE Consistent'
  BY <1>12 DEF InstallManifest, Successor
<1>13. ASSUME NEW c \in Calls, Verify(c) PROVE Consistent'
  BY <1>13 DEF Verify
<1>14. ASSUME NEW c \in Calls, DiscardWorkspace(c) PROVE Consistent'
  BY <1>14 DEF DiscardWorkspace
<1>15. ASSUME NEW c \in Calls, ClearPending(c) PROVE Consistent'
  BY <1>15 DEF ClearPending, Finally
<1>16. ASSUME NEW c \in Calls, ApplyFails(c) PROVE Consistent'
  BY <1>16 DEF ApplyFails, Finally
<1>17. ASSUME NEW c \in Calls, Open(c) PROVE Consistent'
  <2>1. UNCHANGED <<work, retried, answer>> /\ pc[c] = "open"
    BY <1>17 DEF Open
  <2>2. CASE GoTo(c, "prepare") /\ UNCHANGED result
    BY <2>1, <2>2
  <2>3. CASE Finally(c, "failed")
    BY <2>1, <2>3 DEF Finally
  <2> QED
    BY <1>17, <2>2, <2>3 DEF Open

<1>18. ASSUME NEW c \in Calls, Prepare(c) PROVE Consistent'
  BY <1>18 DEF Prepare
<1>19. ASSUME NEW c \in Calls, Run(c) PROVE Consistent'
  <2>1. UNCHANGED <<work, retried, answer>> /\ pc[c] = "run"
    BY <1>19 DEF Run
  <2>2. CASE GoTo(c, "commit") /\ UNCHANGED result
    BY <2>1, <2>2
  <2>3. CASE GoTo(c, "note") /\ UNCHANGED result
    BY <2>1, <2>3
  <2>4. CASE Finally(c, "error")
    BY <2>1, <2>4 DEF Finally
  <2> QED
    BY <1>19, <2>2, <2>3, <2>4 DEF Run

<1>20. ASSUME NEW c \in Calls, WritePending(c) PROVE Consistent'
  <2>1. UNCHANGED <<retried, answer, result>> /\ pc[c] = "commit" /\ GoTo(c, "publish")
    BY <1>20 DEF WritePending
  <2>2. work' = [work EXCEPT ![c] = pending'] /\ pending' \in Commits
    BY <1>20, CommitFacts DEF WritePending
  <2> QED
    BY <2>1, <2>2, CommitFacts

<1>21. ASSUME NEW c \in Calls, NoteFailedTurn(c) PROVE Consistent'
  BY <1>21 DEF NoteFailedTurn, Finally
<1>22. ASSUME NEW c \in Calls, Tidy(c) PROVE Consistent'
  BY <1>22 DEF Tidy
<1>23. ASSUME NEW p \in Processes, Crash(p) PROVE Consistent'
  BY <1>23 DEF Crash
<1>24. CASE UNCHANGED vars
  BY <1>24 DEF vars
<1> QED
  BY <1>1, <1>2, <1>3, <1>4, <1>5, <1>6, <1>7, <1>8, <1>9, <1>10, <1>11, <1>12, <1>13,
     <1>14, <1>15, <1>16, <1>17, <1>18, <1>19, <1>20, <1>21, <1>22, <1>23, <1>24
  DEF Next, OtherStep

\* Every step keeps the shapes of the files.
LEMMA FileTypesStep == TypeInv /\ [Next]_vars => FileTypes'
<1> SUFFICES ASSUME TypeInv, [Next]_vars PROVE FileTypes'
  OBVIOUS
<1> USE CommitFacts
    DEF TypeInv, FileTypes, LocalTypes, CommitOrNone, At, GoTo, lockVars, files, turn
<1>1. ASSUME NEW c \in Calls, Begin(c) PROVE FileTypes'
  BY <1>1 DEF Begin, Answer
<1>2. ASSUME NEW c \in Calls, Create(c) PROVE FileTypes'
  <2>1. [by |-> c, written |-> FALSE] \in [by : Calls \cup {NoCall}, written : BOOLEAN]
    OBVIOUS
  <2>2. lock' \in {lock, [by |-> c, written |-> FALSE]}
    BY <1>2 DEF Create
  <2>3. lock' \in [by : Calls \cup {NoCall}, written : BOOLEAN]
    BY <2>1, <2>2
  <2> QED
    BY <1>2, <2>3 DEF Create

<1>3. ASSUME NEW c \in Calls, Fill(c) PROVE FileTypes'
  BY <1>3 DEF Fill
<1>4. ASSUME NEW c \in Calls, ReadOwner(c) PROVE FileTypes'
  BY <1>4 DEF ReadOwner, Answer
<1>5. ASSUME NEW c \in Calls, RemoveStale(c) PROVE FileTypes'
  BY <1>5 DEF RemoveStale, NoLock

<1>6. ASSUME NEW c \in Calls, Release(c) PROVE FileTypes'
  BY <1>6 DEF Release, Answer
<1>7. ASSUME NEW c \in Calls, Unlock(c) PROVE FileTypes'
  BY <1>7 DEF Unlock, Answer, NoLock

<1>8. ASSUME NEW c \in Calls, Recover(c) PROVE FileTypes'
  BY <1>8 DEF Recover
<1>9. ASSUME NEW c \in Calls, Publish(c) PROVE FileTypes'
  BY <1>9 DEF Publish
<1>10. ASSUME NEW c \in Calls, Rename(c) PROVE FileTypes'
  <2>1. work[c] \in Commits
    BY <1>10 DEF Rename, Consistent, Applying
  <2> QED
    BY <1>10, <2>1 DEF Rename

<1>11. ASSUME NEW c \in Calls, AppendRecord(c) PROVE FileTypes'
  <2>1. work[c].record \in Records
    BY <1>11 DEF AppendRecord, Consistent, Applying
  <2>2. ledger' = Append(ledger, work[c].record) \/ ledger' = ledger
    BY <1>11 DEF AppendRecord
  <2>3. ledger' \in Seq(Records)
    <3>1. \A r \in Records : Append(ledger, r) \in Seq(Records)
      OBVIOUS
    <3> QED
      BY <2>1, <2>2, <3>1
  <2> QED
    BY <1>11, <2>3 DEF AppendRecord

<1>12. ASSUME NEW c \in Calls, InstallManifest(c) PROVE FileTypes'
  <2>1. work[c] \in Commits
    BY <1>12 DEF InstallManifest, Consistent, Applying
  <2>2. work[c].record.sequence \in Nat /\ work[c].call \in Calls
    BY <2>1 DEF Records
  <2> QED
    BY <1>12, <2>2 DEF InstallManifest, Successor

<1>13. ASSUME NEW c \in Calls, Verify(c) PROVE FileTypes'
  BY <1>13 DEF Verify
<1>14. ASSUME NEW c \in Calls, DiscardWorkspace(c) PROVE FileTypes'
  <2>1. work[c] \in Commits
    BY <1>14 DEF DiscardWorkspace, Consistent, Applying
  <2>2. <<>> \in Seq(Calls)
    OBVIOUS
  <2> QED
    BY <1>14, <2>1, <2>2 DEF DiscardWorkspace

<1>15. ASSUME NEW c \in Calls, ClearPending(c) PROVE FileTypes'
  BY <1>15 DEF ClearPending, Finally
<1>16. ASSUME NEW c \in Calls, ApplyFails(c) PROVE FileTypes'
  BY <1>16 DEF ApplyFails, Finally
<1>17. ASSUME NEW c \in Calls, Open(c) PROVE FileTypes'
  BY <1>17, ReconciledType DEF Open

<1>18. ASSUME NEW c \in Calls, Prepare(c) PROVE FileTypes'
  BY <1>18 DEF Prepare
<1>19. ASSUME NEW c \in Calls, Run(c) PROVE FileTypes'
  BY <1>19 DEF Run, Finally
<1>20. ASSUME NEW c \in Calls, WritePending(c) PROVE FileTypes'
  BY <1>20 DEF WritePending
<1>21. ASSUME NEW c \in Calls, NoteFailedTurn(c) PROVE FileTypes'
  BY <1>21 DEF NoteFailedTurn, Finally
<1>22. ASSUME NEW c \in Calls, Tidy(c) PROVE FileTypes'
  <2>1. UNCHANGED <<lock, canonical, ledger, manifest, pending, work, alive>>
    BY <1>22 DEF Tidy
  <2>2. /\ <<>> \in Seq(Calls) /\ workspace[c] \in Seq(Calls)
        /\ \/ UNCHANGED workspace
           \/ workspace' = [workspace EXCEPT ![c] = IF pending.call = c THEN @ ELSE <<>>]
    BY <1>22 DEF Tidy
  <2>3. workspace' \in [Calls -> Seq(Calls)]
    BY <2>2
  <2> QED
    BY <2>1, <2>3
<1>23. ASSUME NEW p \in Processes, Crash(p) PROVE FileTypes'
  BY <1>23 DEF Crash
<1>24. CASE UNCHANGED vars
  BY <1>24 DEF vars
<1> QED
  BY <1>1, <1>2, <1>3, <1>4, <1>5, <1>6, <1>7, <1>8, <1>9, <1>10, <1>11, <1>12, <1>13,
     <1>14, <1>15, <1>16, <1>17, <1>18, <1>19, <1>20, <1>21, <1>22, <1>23, <1>24
  DEF Next, OtherStep

\* The files and locals always have the shapes of SessionTypeOK, whatever the
\* schedule (src/session.ts:57-128).
THEOREM SessionTypes == Spec => []SessionTypeOK
<1> USE DEF TypeInv
<1>1. Init => TypeInv
  BY DEF Init, FileTypes, LocalTypes, Consistent, CommitOrNone, Steps, Holding, Applying,
         Ending, Answers, NoLock, NoManifest
<1>2. TypeInv /\ [Next]_vars => TypeInv'
  BY LocalStep, ConsistentStep, FileTypesStep
<1>3. TypeInv => SessionTypeOK
  BY DEF FileTypes, LocalTypes, Consistent, CommitOrNone, SessionTypeOK
<1> QED
  BY <1>1, <1>2, <1>3, PTL DEF Spec

-----------------------------------------------------------------------------
(* The lock. *)

\* No two living calls hold the lock.
LEMMA OneHolder == HolderKeepsLock => \A c, d \in Holders : c = d
  BY DEF HolderKeepsLock

\* A step from a holding step to another, or out of them, keeps the lock.
LEMMA HolderMoves ==
    ASSUME TypeInv, LockInv, NEW c \in Calls, NEW s \in Steps \ {"remove"},
           At(c, pc[c]), pc[c] \in Holding, GoTo(c, s), UNCHANGED <<lock, alive>>
    PROVE LockInv'
<1>1. Holders' \subseteq Holders
  BY DEF Holders, GoTo, TypeInv, LocalTypes, At
<1>2. Removers' \subseteq Removers
  BY DEF Removers, GoTo, TypeInv, LocalTypes, At
<1>3. HolderKeepsLock'
  BY <1>1 DEF HolderKeepsLock, LockInv
<1>4. RemoverSeesDead'
  BY <1>2 DEF RemoverSeesDead, LockInv, Removers, DefinitelyGone
<1>5. SoleRemover'
  BY <1>2 DEF SoleRemover, LockInv
<1> QED
  BY <1>3, <1>4, <1>5 DEF LockInv, OwnerIsACall

\* Every step keeps the lock with its holder.
LEMMA LockStep == TypeInv /\ LockInv /\ [SerialNext]_vars => LockInv'
<1> SUFFICES ASSUME TypeInv, LockInv, [SerialNext]_vars PROVE LockInv'
  OBVIOUS
<1> USE DEF At, lockVars, files, turn
<1>1. ASSUME NEW c \in Calls, Begin(c) PROVE LockInv'
  <2>1. Holders' \subseteq Holders /\ Removers' \subseteq Removers
    BY <1>1 DEF Begin, GoTo, Answer, Holders, Holding, Applying, Removers, TypeInv, LocalTypes
  <2> QED
    BY <1>1, <2>1 DEF Begin, LockInv, HolderKeepsLock, RemoverSeesDead, SoleRemover, Removers,
                      OwnerIsACall, DefinitelyGone
<1>2. ASSUME NEW c \in Calls, Create(c) PROVE LockInv'
  <2>1. CASE lock = NoLock
    <3>1. Holders = {} /\ Removers = {}
      BY <2>1, NoCallAssumption DEF LockInv, HolderKeepsLock, Holders, RemoverSeesDead, Removers, NoLock
    <3>2. lock'.by = c /\ ~lock'.written
      BY <1>2, <2>1 DEF Create
    <3>3. Holders' \subseteq Holders \cup {c} /\ Removers' \subseteq Removers
      BY <1>2, <2>1 DEF Create, GoTo, Holders, Removers, TypeInv, LocalTypes
    <3> QED
      BY <3>1, <3>2, <3>3 DEF LockInv, HolderKeepsLock, RemoverSeesDead, SoleRemover, Removers,
                              OwnerIsACall
  <2>2. CASE lock # NoLock
    <3>1. Holders' \subseteq Holders /\ Removers' \subseteq Removers
      BY <1>2, <2>2 DEF Create, GoTo, Holders, Holding, Applying, Removers, TypeInv, LocalTypes
    <3> QED
      BY <1>2, <2>2, <3>1 DEF Create, LockInv, HolderKeepsLock, RemoverSeesDead, SoleRemover,
                              Removers, OwnerIsACall, DefinitelyGone
  <2> QED
    BY <2>1, <2>2
<1>3. ASSUME NEW c \in Calls, Fill(c) PROVE LockInv'
  <2>1. c \in Holders /\ lock.by = c
    BY <1>3 DEF Fill, Holders, Holding, LockInv, HolderKeepsLock
  <2>2. lock'.by = c
    BY <1>3, <2>1 DEF Fill, TypeInv, FileTypes
  <2>3. Holders' \subseteq Holders /\ Removers' \subseteq Removers /\ alive' = alive
    BY <1>3, <2>1 DEF Fill, GoTo, Holders, Removers, TypeInv, LocalTypes
  <2>4. Holders' \subseteq {c} /\ Removers = {}
    BY <2>1, <2>3, OneHolder DEF LockInv, RemoverSeesDead, Removers, Holders, DefinitelyGone
  <2> QED
    BY <2>2, <2>3, <2>4 DEF LockInv, HolderKeepsLock, RemoverSeesDead, SoleRemover, Removers,
                            OwnerIsACall
<1>4. ASSUME NEW c \in Calls, SerialReadOwner(c) PROVE LockInv'
  <2>1. ReadOwner(c) /\ SoleRemover'
    BY <1>4 DEF SerialReadOwner, SoleRemover
  <2>2. Holders' \subseteq Holders
    BY <2>1 DEF ReadOwner, GoTo, Answer, Holders, Holding, Applying, TypeInv, LocalTypes
  <2>3. Removers' \subseteq Removers \/ (lock.written /\ DefinitelyGone(lock.by))
    <3>1. CASE GoTo(c, "remove")
      BY <2>1, <3>1 DEF ReadOwner, GoTo, Answer, TypeInv, LocalTypes
    <3>2. CASE Answer(c, "failed") /\ UNCHANGED alive
      <4>1. pc \in [Calls -> Steps] /\ pc' = [pc EXCEPT ![c] = "done"] /\ alive' = alive
        BY <3>2 DEF GoTo, Answer, TypeInv, LocalTypes
      <4>2. Removers' \subseteq Removers
        BY <4>1 DEF Removers
      <4> QED
        BY <4>2
    <3> QED
      BY <2>1, <3>1, <3>2 DEF ReadOwner
  <2>4. UNCHANGED <<lock, alive>>
    BY <2>1 DEF ReadOwner
  <2>5. RemoverSeesDead'
    BY <2>3, <2>4 DEF LockInv, RemoverSeesDead, Removers, OwnerIsACall, DefinitelyGone
  <2> QED
    BY <2>1, <2>2, <2>4, <2>5 DEF LockInv, HolderKeepsLock, OwnerIsACall
<1>5. ASSUME NEW c \in Calls, RemoveStale(c) PROVE LockInv'
  <2>1. Holders = {} /\ Removers \subseteq {c}
    BY <1>5 DEF RemoveStale, LockInv, HolderKeepsLock, RemoverSeesDead, SoleRemover, Holders,
                Removers, DefinitelyGone
  <2>2. Holders' \subseteq Holders /\ Removers' \subseteq Removers \ {c}
    BY <1>5 DEF RemoveStale, GoTo, Holders, Holding, Applying, Removers, TypeInv, LocalTypes
  <2> QED
    BY <1>5, <2>1, <2>2 DEF RemoveStale, LockInv, HolderKeepsLock, RemoverSeesDead, SoleRemover,
                            Removers, OwnerIsACall, NoLock
<1>6. ASSUME NEW c \in Calls, Release(c) PROVE LockInv'
  BY <1>6, HolderMoves DEF Release, Answer, Holding, Steps
<1>7. ASSUME NEW c \in Calls, Unlock(c) PROVE LockInv'
  <2>1. c \in Holders /\ lock.by = c
    BY <1>7 DEF Unlock, Holders, Holding, LockInv, HolderKeepsLock
  <2>2. Holders' \subseteq Holders \ {c} /\ Removers' \subseteq Removers
    BY <1>7 DEF Unlock, Answer, GoTo, Holders, Holding, Applying, Removers, TypeInv, LocalTypes
  <2>3. Holders' = {} /\ Removers = {}
    BY <2>1, <2>2, OneHolder DEF LockInv, RemoverSeesDead, Removers, Holders, DefinitelyGone
  <2> QED
    BY <1>7, <2>2, <2>3 DEF Unlock, LockInv, HolderKeepsLock, RemoverSeesDead, SoleRemover,
                            Removers, OwnerIsACall, NoLock
<1>8. ASSUME NEW c \in Calls,
             \/ Recover(c) \/ Publish(c) \/ Rename(c) \/ AppendRecord(c) \/ InstallManifest(c)
             \/ Verify(c) \/ DiscardWorkspace(c) \/ ClearPending(c) \/ ApplyFails(c)
             \/ Open(c) \/ Prepare(c) \/ Run(c) \/ WritePending(c) \/ NoteFailedTurn(c) \/ Tidy(c)
      PROVE LockInv'
  <2> USE DEF Finally, Holding, Applying, Steps
  <2>1. UNCHANGED <<lock, alive>> /\ pc[c] \in Holding /\ Host[c] \in alive
    BY <1>8 DEF Recover, Publish, Rename, AppendRecord, InstallManifest, Verify, DiscardWorkspace,
                ClearPending, ApplyFails, Open, Prepare, Run, WritePending, NoteFailedTurn, Tidy
  <2>2. \E s \in Steps \ {"remove"} : GoTo(c, s)
    <3>1. CASE Recover(c) \/ Publish(c) \/ Rename(c) \/ AppendRecord(c) \/ InstallManifest(c)
      BY <3>1 DEF Recover, Publish, Rename, AppendRecord, InstallManifest
    <3>2. CASE Verify(c) \/ DiscardWorkspace(c) \/ ClearPending(c) \/ ApplyFails(c)
      BY <3>2 DEF Verify, DiscardWorkspace, ClearPending, ApplyFails
    <3>3. CASE Open(c) \/ Prepare(c) \/ Run(c) \/ WritePending(c) \/ NoteFailedTurn(c) \/ Tidy(c)
      BY <3>3 DEF Open, Prepare, Run, WritePending, NoteFailedTurn, Tidy
    <3> QED
      BY <1>8, <3>1, <3>2, <3>3
  <2> QED
    BY <2>1, <2>2, HolderMoves
<1>9. ASSUME NEW p \in Processes, Crash(p) PROVE LockInv'
  <2>1. Holders' \subseteq Holders /\ Removers' \subseteq Removers
    BY <1>9 DEF Crash, Holders, Removers
  <2> QED
    BY <1>9, <2>1 DEF Crash, LockInv, HolderKeepsLock, RemoverSeesDead, SoleRemover, Removers,
                      OwnerIsACall, DefinitelyGone
<1>10. CASE UNCHANGED vars
  BY <1>10 DEF vars, LockInv, HolderKeepsLock, Holders, RemoverSeesDead, SoleRemover, Removers,
               OwnerIsACall, DefinitelyGone
<1> QED
  BY <1>1, <1>2, <1>3, <1>4, <1>5, <1>6, <1>7, <1>8, <1>9, <1>10 DEF SerialNext, OtherStep

-----------------------------------------------------------------------------
(* Session files, their ledgers and their manifests. *)

Record(c, n) == [call |-> c, sequence |-> n]

\* A session file has its turns and the appended one.
LEMMA HasAppend ==
    \A s \in Seq(Calls), c, d \in Calls : Has(Append(s, c), d) <=> Has(s, d) \/ c = d
<1> SUFFICES ASSUME NEW s \in Seq(Calls), NEW c \in Calls, NEW d \in Calls
             PROVE Has(Append(s, c), d) <=> Has(s, d) \/ c = d
  OBVIOUS
<1>1. Len(Append(s, c)) = Len(s) + 1 /\ Append(s, c)[Len(s) + 1] = c
  OBVIOUS
<1>2. \A i \in 1 .. Len(s) : Append(s, c)[i] = s[i]
  OBVIOUS
<1>3. Len(s) \in Nat
  OBVIOUS
<1>4. 1 .. Len(s) + 1 = (1 .. Len(s)) \cup {Len(s) + 1}
  BY <1>3
<1> QED
  BY <1>1, <1>2, <1>3, <1>4 DEF Has

\* A session file is not what it was before a turn, and not empty.
LEMMA AppendGrows ==
    \A s \in Seq(Calls), c \in Calls :
        /\ Append(s, c) \in Seq(Calls) /\ Append(s, c) # s /\ Append(s, c) # <<>>
        /\ Len(Append(s, c)) = Len(s) + 1
<1> SUFFICES ASSUME NEW s \in Seq(Calls), NEW c \in Calls
             PROVE /\ Append(s, c) \in Seq(Calls) /\ Append(s, c) # s /\ Append(s, c) # <<>>
                   /\ Len(Append(s, c)) = Len(s) + 1
  OBVIOUS
<1>1. Append(s, c) \in Seq(Calls) /\ Len(Append(s, c)) = Len(s) + 1 /\ Len(s) \in Nat
  OBVIOUS
<1>2. Len(<<>>) = 0
  OBVIOUS
<1> QED
  BY <1>1, <1>2

\* The ledger of a session file.
LEMMA NumberedType ==
    \A s \in Seq(Calls) :
        /\ Numbered(s) \in Seq(Records) /\ Len(Numbered(s)) = Len(s)
        /\ \A i \in 1 .. Len(s) : Numbered(s)[i] = Record(s[i], i)
<1> SUFFICES ASSUME NEW s \in Seq(Calls)
             PROVE /\ Numbered(s) \in Seq(Records) /\ Len(Numbered(s)) = Len(s)
                   /\ \A i \in 1 .. Len(s) : Numbered(s)[i] = Record(s[i], i)
  OBVIOUS
<1>1. Len(s) \in Nat /\ \A i \in 1 .. Len(s) : s[i] \in Calls
  OBVIOUS
<1>2. \A i \in 1 .. Len(s) : [call |-> s[i], sequence |-> i] \in Records
  BY <1>1 DEF Records
<1>3. Numbered(s) \in [1 .. Len(s) -> Records]
  BY <1>2 DEF Numbered
<1>4. Numbered(s) \in Seq(Records) /\ Len(Numbered(s)) = Len(s)
  BY <1>1, <1>3
<1>5. \A i \in 1 .. Len(s) : Numbered(s)[i] = Record(s[i], i)
  BY DEF Numbered, Record
<1> QED
  BY <1>4, <1>5

\* The ledger of a longer session file is a longer ledger.
LEMMA NumberedAppend ==
    \A s \in Seq(Calls), c \in Calls :
        Numbered(Append(s, c)) = Append(Numbered(s), Record(c, Len(s) + 1))
<1> SUFFICES ASSUME NEW s \in Seq(Calls), NEW c \in Calls
             PROVE Numbered(Append(s, c)) = Append(Numbered(s), Record(c, Len(s) + 1))
  OBVIOUS
<1> DEFINE t == Append(s, c)
           n == Len(s)
           u == Append(Numbered(s), Record(c, n + 1))
<1>1. n \in Nat /\ t \in Seq(Calls) /\ Len(t) = n + 1 /\ t[n + 1] = c
  OBVIOUS
<1>2. \A i \in 1 .. n : t[i] = s[i]
  OBVIOUS
<1>3. Numbered(s) \in Seq(Records) /\ Len(Numbered(s)) = n
  BY NumberedType
<1>4. Record(c, n + 1) \in Records
  BY <1>1 DEF Record, Records
<1>5. u \in Seq(Records) /\ Len(u) = n + 1 /\ u[n + 1] = Record(c, n + 1)
  BY <1>1, <1>3, <1>4
<1>6. \A i \in 1 .. n : u[i] = Numbered(s)[i]
  BY <1>1, <1>3, <1>4
<1>7. Numbered(t) \in Seq(Records) /\ Len(Numbered(t)) = n + 1
  BY <1>1, NumberedType
<1>8. \A i \in 1 .. n + 1 : Numbered(t)[i] = Record(t[i], i)
  BY <1>1, NumberedType
<1>9. \A i \in 1 .. n : Numbered(t)[i] = u[i]
  BY <1>1, <1>2, <1>6, <1>8, NumberedType
<1>10. Numbered(t)[n + 1] = u[n + 1]
  BY <1>1, <1>5, <1>8
<1> HIDE DEF t, u, n
<1>11. \A i \in 1 .. n + 1 : Numbered(t)[i] = u[i]
  <2>1. 1 .. n + 1 = (1 .. n) \cup {n + 1}
    BY <1>1
  <2> QED
    BY <2>1, <1>9, <1>10
<1>12. Numbered(t) = u
  BY <1>1, <1>5, <1>7, <1>11
<1> QED
  BY <1>12 DEF t, u, n

\* A ledger records the turns of its session file.
LEMMA NumberedHas ==
    \A s \in Seq(Calls), c \in Calls : RecordsCall(Numbered(s), c) <=> Has(s, c)
<1> SUFFICES ASSUME NEW s \in Seq(Calls), NEW c \in Calls
             PROVE RecordsCall(Numbered(s), c) <=> Has(s, c)
  OBVIOUS
<1>1. Len(Numbered(s)) = Len(s)
  BY NumberedType
<1>2. \A i \in 1 .. Len(s) : Numbered(s)[i].call = s[i]
  BY DEF Numbered
<1> QED
  BY <1>1, <1>2 DEF RecordsCall, Has

\* The manifest of a session file.
LEMMA ManifestFacts ==
    \A s \in Seq(Calls) :
        /\ ManifestOf(s).run_count = Len(s)
        /\ ManifestOf(s) = NoManifest <=> s = <<>>
        /\ \A c \in Calls : ManifestOf(Append(s, c)) = [run_count |-> Len(s) + 1, last |-> c]
<1> SUFFICES ASSUME NEW s \in Seq(Calls)
             PROVE /\ ManifestOf(s).run_count = Len(s)
                   /\ ManifestOf(s) = NoManifest <=> s = <<>>
                   /\ \A c \in Calls : ManifestOf(Append(s, c)) = [run_count |-> Len(s) + 1, last |-> c]
  OBVIOUS
<1>1. s # <<>> => Len(s) # 0
  OBVIOUS
<1>2. Len(<<>>) = 0
  OBVIOUS
<1>3. ManifestOf(s).run_count = Len(s)
  BY <1>2 DEF ManifestOf, NoManifest
<1>4. ManifestOf(s) = NoManifest <=> s = <<>>
  BY <1>1, <1>3 DEF ManifestOf, NoManifest
<1>5. ASSUME NEW c \in Calls
      PROVE ManifestOf(Append(s, c)) = [run_count |-> Len(s) + 1, last |-> c]
  <2>1. Append(s, c)[Len(Append(s, c))] = c
    OBVIOUS
  <2> QED
    BY <2>1, AppendGrows DEF ManifestOf
<1> QED
  BY <1>3, <1>4, <1>5

-----------------------------------------------------------------------------
(* The stages of a commit. *)

IInv ==
    /\ TypeInv /\ LockInv
    /\ FilesInv /\ ProgressInv /\ AnswerInv /\ WorkspacesAreOwned

\* What a well-formed commit says of its files.
LEMMA WellFormedFacts ==
    ASSUME NEW p, WellFormed(p)
    PROVE /\ p # NoCommit /\ p \in Commits /\ p.call \in Calls
          /\ p.predecessor \in Seq(Calls) /\ p.successor \in Seq(Calls)
          /\ p.successor # p.predecessor
          /\ Has(p.successor, p.call) /\ ~Has(p.predecessor, p.call)
          /\ Numbered(p.successor) = Append(Numbered(p.predecessor), p.record)
          /\ Numbered(p.successor) # Numbered(p.predecessor)
          /\ ManifestOf(p.successor) = Successor(p)
          /\ p.record.call = p.call
<1>1. p \in Commits /\ p # NoCommit /\ p.call \in Calls
      /\ p.predecessor \in Seq(Calls) /\ p.successor \in Seq(Calls)
  BY CommitFacts DEF WellFormed
<1>2. p.successor = Append(p.predecessor, p.call) /\ ~Has(p.predecessor, p.call)
  BY DEF WellFormed
<1>3. Has(p.successor, p.call)
  BY <1>1, <1>2, HasAppend
<1>4. p.record = Record(p.call, Len(p.predecessor) + 1)
  BY DEF WellFormed, Record
<1>5. Numbered(p.successor) = Append(Numbered(p.predecessor), p.record)
  BY <1>1, <1>2, <1>4, NumberedAppend
<1>6. Numbered(p.successor) # Numbered(p.predecessor)
  BY <1>1, <1>2, <1>3, NumberedHas
<1>7. ManifestOf(p.successor) = Successor(p)
  BY <1>1, <1>2, <1>4, ManifestFacts DEF Successor, Record
<1>8. p.record.call = p.call
  BY <1>4 DEF Record
<1> QED
  BY <1>1, <1>2, <1>3, <1>5, <1>6, <1>7, <1>8, AppendGrows

\* Which stage it is, from the pending commit and the canonical file.
LEMMA Stages ==
    ASSUME FilesInv
    PROVE /\ pending = NoCommit => Settled
          /\ pending # NoCommit => WellFormed(pending)
          /\ pending # NoCommit /\ canonical = pending.predecessor => Prepared
          /\ pending # NoCommit /\ canonical = pending.successor => Published \/ Recorded
          /\ pending # NoCommit /\ LedgerIs(pending.successor) => Recorded
<1>1. CASE Settled
  <2>1. pending = NoCommit
    BY <1>1 DEF Settled
  <2> QED
    BY <1>1, <2>1
<1>2. CASE Prepared
  <2>1. WellFormed(pending) /\ canonical = pending.predecessor /\ LedgerIs(pending.predecessor)
    BY <1>2 DEF Prepared
  <2> QED
    BY <1>2, <2>1, WellFormedFacts DEF LedgerIs
<1>3. CASE Published
  <2>1. WellFormed(pending) /\ canonical = pending.successor /\ LedgerIs(pending.predecessor)
    BY <1>3 DEF Published
  <2> QED
    BY <1>3, <2>1, WellFormedFacts DEF LedgerIs
<1>4. CASE Recorded
  <2>1. WellFormed(pending) /\ canonical = pending.successor
    BY <1>4 DEF Recorded
  <2> QED
    BY <1>4, <2>1, WellFormedFacts
<1> QED
  BY <1>1, <1>2, <1>3, <1>4 DEF FilesInv

\* What a call that applies a commit has in hand.
LEMMA Applies ==
    ASSUME IInv, NEW c \in Calls, pc[c] \in Applying, Host[c] \in alive
    PROVE /\ pending # NoCommit /\ work[c] = pending /\ WellFormed(pending)
          /\ pc[c] = "rename" => Prepared
          /\ pc[c] = "append" => Published \/ Recorded
          /\ pc[c] \in {"install", "verify", "discard", "clear"} => Recorded /\ LedgerIs(pending.successor)
          /\ pc[c] \in {"verify", "discard", "clear"} => ManifestIs(pending.successor)
          /\ pc[c] = "clear" => workspace[pending.call] = <<>>
<1>1. c \in Holders
  BY DEF Holders, Holding
<1> QED
  BY <1>1, Stages DEF IInv, ProgressInv, Knows

\* No step of a call that is not at it touches the files.
LEMMA FilesStay ==
    FilesInv /\ UNCHANGED <<canonical, ledger, manifest, pending, workspace>> => FilesInv'
  BY DEF FilesInv, Settled, Prepared, Published, Recorded, LedgerIs, ManifestIs

\* The ledger is not ahead of the manifest when no commit is pending.
LEMMA NothingToReconcile ==
    IInv /\ pending = NoCommit => /\ Reconciled = manifest /\ Len(ledger) = manifest.run_count
                                  /\ manifest.run_count = Len(canonical)
<1> SUFFICES ASSUME IInv, pending = NoCommit
             PROVE /\ Reconciled = manifest /\ Len(ledger) = manifest.run_count
                   /\ manifest.run_count = Len(canonical)
  OBVIOUS
<1>1. ledger = Numbered(canonical) /\ manifest = ManifestOf(canonical) /\ canonical \in Seq(Calls)
  BY Stages DEF IInv, Settled, LedgerIs, ManifestIs, TypeInv, FileTypes
<1>2. Len(ledger) = Len(canonical) /\ manifest.run_count = Len(canonical) /\ Len(canonical) \in Nat
  BY <1>1, NumberedType, ManifestFacts
<1> QED
  BY <1>2 DEF Reconciled

\* Every step leaves the files at a stage.
LEMMA FilesStep == IInv /\ [SerialNext]_vars => FilesInv'
<1> SUFFICES ASSUME IInv, [SerialNext]_vars PROVE FilesInv'
  OBVIOUS
<1> USE DEF lockVars, files, turn
<1>1. ASSUME NEW c \in Calls,
             \/ Begin(c) \/ Create(c) \/ Fill(c) \/ SerialReadOwner(c) \/ RemoveStale(c)
             \/ Release(c) \/ Unlock(c) \/ Recover(c) \/ Publish(c) \/ Verify(c)
             \/ ApplyFails(c) \/ NoteFailedTurn(c)
      PROVE FilesInv'
  <2>1. UNCHANGED <<canonical, ledger, manifest, pending, workspace>>
    BY <1>1 DEF Begin, Create, Fill, SerialReadOwner, ReadOwner, RemoveStale, Release, Unlock,
                Recover, Publish, Verify, ApplyFails, NoteFailedTurn
  <2> QED
    BY <2>1, FilesStay DEF IInv
<1>2. ASSUME NEW c \in Calls, Rename(c) PROVE FilesInv'
  <2>1. Prepared /\ work[c] = pending
    BY <1>2, Applies DEF Rename, At, Applying
  <2>2. canonical' = pending.successor /\ UNCHANGED <<ledger, manifest, pending, workspace>>
    BY <1>2, <2>1 DEF Rename, Prepared
  <2>3. Published'
    BY <2>1, <2>2 DEF Prepared, Published, LedgerIs, ManifestIs
  <2> QED
    BY <2>3 DEF FilesInv
<1>3. ASSUME NEW c \in Calls, AppendRecord(c) PROVE FilesInv'
  <2>1. (Published \/ Recorded) /\ work[c] = pending /\ WellFormed(pending)
    BY <1>3, Applies DEF AppendRecord, At, Applying
  <2>2. UNCHANGED <<canonical, manifest, pending, workspace>>
    BY <1>3 DEF AppendRecord
  <2>3. CASE UNCHANGED ledger
    BY <2>2, <2>3, FilesStay DEF IInv
  <2>4. CASE ~RecordsCall(ledger, pending.call) /\ ledger' = Append(ledger, pending.record)
    <3>1. ~LedgerIs(pending.successor)
      BY <2>1, <2>4, WellFormedFacts, NumberedHas DEF LedgerIs
    <3>2. Published
      BY <2>1, <3>1 DEF Recorded
    <3>3. ledger' = Numbered(pending.successor)
      BY <2>4, <3>2, WellFormedFacts DEF Published, LedgerIs
    <3>4. Recorded'
      BY <2>2, <3>2, <3>3 DEF Published, Recorded, LedgerIs, ManifestIs
    <3> QED
      BY <3>4 DEF FilesInv
  <2> QED
    BY <1>3, <2>1, <2>3, <2>4 DEF AppendRecord
<1>4. ASSUME NEW c \in Calls, InstallManifest(c) PROVE FilesInv'
  <2>1. Recorded /\ LedgerIs(pending.successor) /\ work[c] = pending /\ WellFormed(pending)
    BY <1>4, Applies DEF InstallManifest, At, Applying
  <2>2. manifest' = ManifestOf(pending.successor) /\ UNCHANGED <<canonical, ledger, pending, workspace>>
    BY <1>4, <2>1, WellFormedFacts DEF InstallManifest
  <2>3. Recorded'
    BY <2>1, <2>2 DEF Recorded, LedgerIs, ManifestIs
  <2> QED
    BY <2>3 DEF FilesInv
<1>5. ASSUME NEW c \in Calls, DiscardWorkspace(c) PROVE FilesInv'
  <2>1. Recorded
    BY <1>5, Applies DEF DiscardWorkspace, At, Applying
  <2>2. UNCHANGED <<canonical, ledger, manifest, pending>>
    BY <1>5 DEF DiscardWorkspace
  <2>3. Recorded'
    BY <2>1, <2>2 DEF Recorded, LedgerIs, ManifestIs
  <2> QED
    BY <2>3 DEF FilesInv
<1>6. ASSUME NEW c \in Calls, ClearPending(c) PROVE FilesInv'
  <2>1. Recorded /\ LedgerIs(pending.successor) /\ ManifestIs(pending.successor)
    BY <1>6, Applies DEF ClearPending, At, Applying
  <2>2. pending' = NoCommit /\ UNCHANGED <<canonical, ledger, manifest>>
    BY <1>6 DEF ClearPending
  <2>3. Settled'
    BY <2>1, <2>2 DEF Recorded, Settled, LedgerIs, ManifestIs
  <2> QED
    BY <2>3 DEF FilesInv
<1>7. ASSUME NEW c \in Calls, Open(c) \/ Prepare(c) \/ Run(c) PROVE FilesInv'
  <2>1. c \in Holders /\ pc[c] \in {"open", "prepare", "run"}
    BY <1>7 DEF Open, Prepare, Run, At, Holders, Holding
  <2>2. pending = NoCommit /\ Settled
    BY <2>1, Stages DEF IInv, ProgressInv, Knows
  <2>3. UNCHANGED <<canonical, ledger, manifest, pending>>
    BY <1>7, <2>2, NothingToReconcile DEF Open, Prepare, Run
  <2>4. Settled'
    BY <2>2, <2>3 DEF Settled, LedgerIs, ManifestIs
  <2> QED
    BY <2>4 DEF FilesInv
<1>8. ASSUME NEW c \in Calls, WritePending(c) PROVE FilesInv'
  <2>1. c \in Holders /\ pc[c] = "commit"
    BY <1>8 DEF WritePending, At, Holders, Holding
  <2>2. /\ pending = NoCommit /\ Settled /\ workspace[c] = Append(canonical, c)
        /\ sequence[c] = Len(canonical) + 1 /\ canonical \in Seq(Calls)
    BY <2>1, Stages DEF IInv, ProgressInv, Knows, TypeInv, FileTypes
  <2>3. ~Has(canonical, c)
    BY <2>1, <2>2 DEF IInv, AnswerInv, TheLog, Applying, Ending
  <2>4. UNCHANGED <<canonical, ledger, manifest, workspace>>
    BY <1>8 DEF WritePending
  <2>5. pending' = [call |-> c, predecessor |-> canonical, successor |-> Append(canonical, c),
                    record |-> [call |-> c, sequence |-> Len(canonical) + 1]]
    BY <1>8, <2>2 DEF WritePending
  <2>6. pending' \in Commits
    <3>1. Len(canonical) + 1 \in Nat /\ Append(canonical, c) \in Seq(Calls)
      BY <2>2
    <3> QED
      BY <2>2, <2>5, <3>1, CommitFacts
  <2>7. WellFormed(pending')
    BY <2>3, <2>5, <2>6 DEF WellFormed
  <2>8. Prepared'
    BY <2>2, <2>4, <2>5, <2>7 DEF Settled, Prepared, LedgerIs, ManifestIs
  <2> QED
    BY <2>8 DEF FilesInv
<1>9. ASSUME NEW c \in Calls, Tidy(c) PROVE FilesInv'
  <2>1. UNCHANGED <<canonical, ledger, manifest, pending>>
    BY <1>9 DEF Tidy
  <2>2. pending.call \in Calls => workspace'[pending.call] = workspace[pending.call]
    BY <1>9 DEF Tidy, IInv, TypeInv, FileTypes
  <2>3. WellFormed(pending) => pending.call \in Calls
    BY WellFormedFacts
  <2> QED
    BY <2>1, <2>2, <2>3 DEF IInv, FilesInv, Settled, Prepared, Published, Recorded, LedgerIs, ManifestIs
<1>10. ASSUME NEW p \in Processes, Crash(p) PROVE FilesInv'
  BY <1>10, FilesStay DEF Crash, IInv
<1>11. CASE UNCHANGED vars
  BY <1>11, FilesStay DEF vars, IInv
<1> QED
  BY <1>1, <1>2, <1>3, <1>4, <1>5, <1>6, <1>7, <1>8, <1>9, <1>10, <1>11 DEF SerialNext, OtherStep

-----------------------------------------------------------------------------
(* What a living holder knows. *)

\* What others do elsewhere does not change what a call knows.
LEMMA KnowsStays ==
    ASSUME NEW c \in Calls, Knows(c),
           UNCHANGED <<canonical, ledger, manifest, pending, workspace, kept>>,
           UNCHANGED <<pc[c], work[c], sequence[c]>>
    PROVE Knows(c)'
  BY DEF Knows, LedgerIs, ManifestIs

\* Every step leaves the living holder with what it needs to know next.
LEMMA ProgressStep == IInv /\ LockInv' /\ [SerialNext]_vars => ProgressInv'
<1> SUFFICES ASSUME IInv, LockInv', [SerialNext]_vars, NEW d \in Holders'
             PROVE Knows(d)'
  BY DEF ProgressInv
<1> USE DEF lockVars, files, turn, At
<1>a. d \in Calls /\ \A c \in Holders' : c = d
  BY OneHolder DEF Holders, LockInv, HolderKeepsLock
<1>b. /\ pc \in [Calls -> Steps] /\ work \in [Calls -> CommitOrNone] /\ sequence \in [Calls -> Nat]
      /\ workspace \in [Calls -> Seq(Calls)] /\ canonical \in Seq(Calls)
  BY DEF IInv, TypeInv, FileTypes, LocalTypes
<1>c. \A c \in Holders : Knows(c)
  BY DEF IInv, ProgressInv
<1>1. ASSUME NEW c \in Calls, Begin(c) \/ SerialReadOwner(c) \/ RemoveStale(c) PROVE Knows(d)'
  <2>1. /\ UNCHANGED <<canonical, ledger, manifest, pending, workspace, work, sequence, alive,
                       kept>>
        /\ pc[c] \notin Holding
    BY <1>1 DEF Begin, SerialReadOwner, ReadOwner, RemoveStale, Holding, Applying
  <2>2. \E s \in Steps \ Holding : GoTo(c, s)
    BY <1>1 DEF Begin, SerialReadOwner, ReadOwner, RemoveStale, Answer, Steps, Holding, Applying
  <2>3. d \in Holders /\ pc'[d] = pc[d]
    BY <1>a, <1>b, <2>1, <2>2 DEF Holders, GoTo
  <2> QED
    BY <1>a, <1>c, <2>1, <2>3, KnowsStays
<1>2. ASSUME NEW c \in Calls, Create(c) PROVE Knows(d)'
  <2>1. /\ UNCHANGED <<canonical, ledger, manifest, pending, workspace, work, sequence, alive,
                       kept>>
        /\ pc[c] \notin Holding /\ Host[c] \in alive
    BY <1>2 DEF Create, Holding, Applying
  <2>2. CASE GoTo(c, "readOwner")
    <3>1. d \in Holders /\ pc'[d] = pc[d]
      BY <1>a, <1>b, <2>1, <2>2 DEF Holders, GoTo, Holding, Applying
    <3> QED
      BY <1>a, <1>c, <2>1, <3>1, KnowsStays
  <2>3. CASE GoTo(c, "fill")
    <3>1. c \in Holders'
      BY <1>b, <2>1, <2>3 DEF Holders, GoTo, Holding
    <3> QED
      BY <1>a, <1>b, <2>3, <3>1 DEF Knows, GoTo, Applying
  <2> QED
    BY <1>2, <2>2, <2>3 DEF Create
<1>3. ASSUME NEW c \in Calls, Release(c) \/ Unlock(c) PROVE Knows(d)'
  <2>1. /\ UNCHANGED <<canonical, ledger, manifest, pending, workspace, work, sequence, alive,
                       kept>>
        /\ c \in Holders /\ pc[c] \in {"release", "unlock"}
    BY <1>3 DEF Release, Unlock, Holders, Holding
  <2>2. GoTo(c, "done") \/ (GoTo(c, "unlock") /\ pc[c] = "release")
    BY <1>3 DEF Release, Unlock, Answer
  <2>3. d \in Holders
    BY <1>a, <1>b, <2>1, <2>2 DEF Holders, GoTo
  <2>4. d = c
    BY <2>1, <2>3, OneHolder DEF IInv, LockInv
  <2>5. pc'[d] = "unlock"
    BY <1>a, <1>b, <2>1, <2>2, <2>4 DEF Holders, GoTo, Holding, Applying
  <2>6. Knows(c)
    BY <1>c, <2>1
  <2> QED
    BY <2>1, <2>4, <2>5, <2>6 DEF Knows, Applying
<1>4. ASSUME NEW c \in Calls, Fill(c) \/ ApplyFails(c) \/ NoteFailedTurn(c) PROVE Knows(d)'
  <2>1. \E s \in {"recover", "tidy"} : GoTo(c, s)
    BY <1>4 DEF Fill, ApplyFails, NoteFailedTurn, Finally
  <2>2. c \in Holders'
    BY <1>4, <1>b, <2>1 DEF Fill, ApplyFails, NoteFailedTurn, Holders, GoTo, Holding
  <2> QED
    BY <1>a, <1>b, <2>1, <2>2 DEF Knows, GoTo, Applying
<1>5. ASSUME NEW c \in Calls, Recover(c) PROVE Knows(d)'
  <2>1. /\ work'[c] = pending /\ pending' = pending
        /\ pc'[c] = IF pending = NoCommit THEN "open" ELSE "publish"
    BY <1>5, <1>b DEF Recover, GoTo
  <2>2. c \in Holders'
    BY <1>5, <2>1 DEF Recover, Holders, Holding, Applying
  <2> QED
    BY <1>a, <2>1, <2>2 DEF Knows, Applying
<1>6. ASSUME NEW c \in Calls,
             \/ Publish(c) \/ Rename(c) \/ AppendRecord(c) \/ InstallManifest(c)
             \/ Verify(c) \/ DiscardWorkspace(c)
      PROVE Knows(d)'
  <2>1. /\ pending' = pending /\ UNCHANGED <<work, alive>> /\ Host[c] \in alive /\ pc[c] \in Applying
    BY <1>6 DEF Publish, Rename, AppendRecord, InstallManifest, Verify, DiscardWorkspace, Applying
  <2>2. pc'[c] \in {"rename", "append", "install", "verify", "discard", "clear"}
    BY <1>6, <1>b DEF Publish, Rename, AppendRecord, InstallManifest, Verify, DiscardWorkspace, GoTo
  <2>3. c \in Holders' /\ d = c
    BY <1>a, <2>1, <2>2 DEF Holders, Holding, Applying
  <2>4. pending # NoCommit /\ work[c] = pending /\ WellFormed(pending)
    BY <2>1, Applies
  <2>5. CASE Publish(c)
    <3>1. \/ pc'[c] = "append" /\ canonical' = pending.successor
          \/ pc'[c] = "rename" /\ canonical' = pending.predecessor
      BY <1>b, <2>4, <2>5 DEF Publish, GoTo
    <3> QED
      BY <2>1, <2>3, <2>4, <3>1 DEF Knows
  <2>6. CASE Rename(c)
    <3>1. Prepared
      BY <2>1, <2>6, Applies DEF Rename
    <3>2. pc'[c] = "append" /\ canonical' = pending.successor
      BY <1>b, <2>4, <2>6, <3>1 DEF Rename, GoTo, Prepared
    <3> QED
      BY <2>1, <2>3, <2>4, <3>2 DEF Knows
  <2>7. CASE AppendRecord(c)
    <3>1. Published \/ Recorded
      BY <2>1, <2>7, Applies DEF AppendRecord
    <3>2. canonical = pending.successor
      BY <3>1 DEF Published, Recorded
    <3>3. pc'[c] = "install" /\ canonical' = pending.successor
      BY <1>b, <2>7, <3>2 DEF AppendRecord, GoTo
    <3>4. ledger' = Numbered(pending.successor)
      <4>1. CASE RecordsCall(ledger, pending.call)
        <5>1. ~Published
          BY <4>1, WellFormedFacts, NumberedHas DEF Published, LedgerIs
        <5>2. LedgerIs(pending.successor)
          BY <3>1, <5>1 DEF Recorded
        <5> QED
          BY <2>4, <2>7, <4>1, <5>2 DEF AppendRecord, LedgerIs
      <4>2. CASE ~RecordsCall(ledger, pending.call)
        <5>1. ~Recorded
          BY <4>2, WellFormedFacts, NumberedHas DEF Recorded, LedgerIs
        <5>2. ledger = Numbered(pending.predecessor)
          BY <3>1, <5>1 DEF Published, LedgerIs
        <5>3. ~\E i \in 1 .. Len(ledger) : ledger[i] = pending.record
          BY <2>4, <4>2, WellFormedFacts DEF RecordsCall
        <5>4. ledger' = Append(ledger, pending.record)
          BY <2>4, <2>7, <5>3 DEF AppendRecord
        <5> QED
          BY <2>4, <5>2, <5>4, WellFormedFacts
      <4> QED
        BY <4>1, <4>2
    <3> QED
      BY <2>1, <2>3, <2>4, <3>3, <3>4 DEF Knows, LedgerIs
  <2>8. CASE InstallManifest(c)
    <3>1. Recorded /\ LedgerIs(pending.successor)
      BY <2>1, <2>8, Applies DEF InstallManifest
    <3>2. /\ pc'[c] = "verify" /\ canonical' = pending.successor
          /\ ledger' = Numbered(pending.successor) /\ manifest' = ManifestOf(pending.successor)
      BY <1>b, <2>4, <2>8, <3>1, WellFormedFacts DEF InstallManifest, GoTo, Recorded, LedgerIs
    <3> QED
      BY <2>1, <2>3, <2>4, <3>2 DEF Knows, LedgerIs, ManifestIs
  <2>9. CASE Verify(c)
    <3>1. Recorded /\ LedgerIs(pending.successor) /\ ManifestIs(pending.successor)
      BY <2>1, <2>9, Applies DEF Verify
    <3>2. /\ pc'[c] = "discard" /\ canonical' = pending.successor
          /\ ledger' = Numbered(pending.successor) /\ manifest' = ManifestOf(pending.successor)
      BY <1>b, <2>9, <3>1 DEF Verify, GoTo, Recorded, LedgerIs, ManifestIs
    <3> QED
      BY <2>1, <2>3, <2>4, <3>2 DEF Knows, LedgerIs, ManifestIs
  <2>10. CASE DiscardWorkspace(c)
    <3>1. Recorded /\ LedgerIs(pending.successor) /\ ManifestIs(pending.successor)
      BY <2>1, <2>10, Applies DEF DiscardWorkspace
    <3>2. /\ pc'[c] = "clear" /\ canonical' = pending.successor
          /\ ledger' = Numbered(pending.successor) /\ manifest' = ManifestOf(pending.successor)
      BY <1>b, <2>10, <3>1 DEF DiscardWorkspace, GoTo, Recorded, LedgerIs, ManifestIs
    <3>3. workspace'[pending.call] = <<>>
      BY <1>b, <2>4, <2>10, WellFormedFacts DEF DiscardWorkspace
    <3> QED
      BY <2>1, <2>3, <2>4, <3>2, <3>3 DEF Knows, LedgerIs, ManifestIs
  <2> QED
    BY <1>6, <2>5, <2>6, <2>7, <2>8, <2>9, <2>10
<1>7. ASSUME NEW c \in Calls, ClearPending(c) PROVE Knows(d)'
  <2>1. pending' = NoCommit /\ (GoTo(c, "tidy") \/ GoTo(c, "open")) /\ UNCHANGED alive
    BY <1>7 DEF ClearPending, Finally
  <2>2. pc'[c] \in {"tidy", "open"} /\ c \in Holders'
    BY <1>7, <1>b, <2>1 DEF ClearPending, GoTo, Holders, Holding
  <2> QED
    BY <1>a, <2>1, <2>2 DEF Knows, Applying
<1>8. ASSUME NEW c \in Calls, Open(c) PROVE Knows(d)'
  <2>1. c \in Holders /\ pc[c] = "open"
    BY <1>8 DEF Open, Holders, Holding
  <2>2. pending = NoCommit
    BY <1>c, <2>1 DEF Knows
  <2>3. manifest' = manifest /\ manifest.run_count = Len(canonical) /\ UNCHANGED <<pending, canonical>>
    BY <1>8, <2>2, NothingToReconcile DEF Open
  <2>4. \/ pc'[c] = "prepare" /\ sequence'[c] = Len(canonical) + 1
        \/ pc'[c] = "tidy"
    BY <1>8, <1>b, <2>3 DEF Open, GoTo, Finally
  <2>5. c \in Holders'
    BY <1>8, <2>4 DEF Open, Holders, Holding
  <2> QED
    BY <1>a, <2>2, <2>3, <2>4, <2>5 DEF Knows, Applying
<1>9. ASSUME NEW c \in Calls, Prepare(c) PROVE Knows(d)'
  <2>1. c \in Holders /\ pc[c] = "prepare"
    BY <1>9 DEF Prepare, Holders, Holding
  <2>2. pending = NoCommit /\ sequence[c] = Len(canonical) + 1
    BY <1>c, <2>1 DEF Knows
  <2>3. sequence[c] = 1 => canonical = <<>>
    BY <1>b, <2>2
  <2>4. workspace'[c] = canonical
    BY <1>9, <1>b, <2>3 DEF Prepare
  <2>5. pc'[c] = "run" /\ UNCHANGED <<pending, canonical, sequence>>
    BY <1>9, <1>b DEF Prepare, GoTo
  <2>6. c \in Holders'
    BY <1>9, <2>5 DEF Prepare, Holders, Holding
  <2> QED
    BY <1>a, <2>2, <2>4, <2>5, <2>6 DEF Knows, Applying
<1>10. ASSUME NEW c \in Calls, Run(c) PROVE Knows(d)'
  <2>1. c \in Holders /\ pc[c] = "run"
    BY <1>10 DEF Run, Holders, Holding
  <2>2. pending = NoCommit /\ sequence[c] = Len(canonical) + 1 /\ workspace[c] = canonical
    BY <1>c, <2>1 DEF Knows
  <2>3. workspace'[c] = Append(canonical, c)
    BY <1>10, <1>b, <2>2 DEF Run
  <2>4. pc'[c] \in {"commit", "note", "tidy"} /\ UNCHANGED <<pending, canonical, sequence>>
    BY <1>10, <1>b DEF Run, GoTo, Finally
  <2>5. c \in Holders'
    BY <1>10, <2>4 DEF Run, Holders, Holding
  <2> QED
    BY <1>a, <2>2, <2>3, <2>4, <2>5 DEF Knows, Applying
<1>11. ASSUME NEW c \in Calls, WritePending(c) PROVE Knows(d)'
  <2>1. pc'[c] = "publish" /\ work'[c] = pending'
    BY <1>11, <1>b DEF WritePending, GoTo
  <2>2. c \in Holders'
    BY <1>11, <2>1 DEF WritePending, Holders, Holding, Applying
  <2>3. pending'.call = c
    BY <1>11 DEF WritePending
  <2>4. pending' # NoCommit
    BY <2>3, NoCallAssumption DEF NoCommit
  <2> QED
    BY <1>a, <2>1, <2>2, <2>4 DEF Knows, Applying
<1>12. ASSUME NEW c \in Calls, Tidy(c) PROVE Knows(d)'
  <2>1. pc'[c] = "release" /\ pending' = pending
    BY <1>12, <1>b DEF Tidy, GoTo
  <2>2. c \in Holders'
    BY <1>12, <2>1 DEF Tidy, Holders, Holding
  <2>3. pending'.call = c \/ workspace'[c] = <<>> \/ c \in kept'
    BY <1>12, <1>b, <2>1 DEF Tidy
  <2> QED
    BY <1>a, <2>1, <2>2, <2>3 DEF Knows, Applying
<1>13. ASSUME NEW p \in Processes, Crash(p) PROVE Knows(d)'
  <2>1. d \in Holders /\ UNCHANGED <<canonical, ledger, manifest, pending, workspace, work, sequence, pc, kept>>
    BY <1>13, <1>a DEF Crash, Holders
  <2> QED
    BY <1>a, <1>c, <2>1, KnowsStays
<1>14. CASE UNCHANGED vars
  <2>1. /\ d \in Holders
        /\ UNCHANGED <<canonical, ledger, manifest, pending, workspace, work, sequence, pc, kept>>
    BY <1>14, <1>a DEF vars, Holders
  <2> QED
    BY <1>a, <1>c, <2>1, KnowsStays
<1> QED
  BY <1>1, <1>2, <1>3, <1>4, <1>5, <1>6, <1>7, <1>8, <1>9, <1>10, <1>11, <1>12, <1>13, <1>14
  DEF SerialNext, OtherStep

-----------------------------------------------------------------------------
(* The log, the answers and the workspaces. *)

\* Only the step that writes a pending commit changes the log.
LEMMA LogStep == IInv /\ [SerialNext]_vars => TheLog' = TheLog \/ \E c \in Calls : WritePending(c)
<1> SUFFICES ASSUME IInv, [SerialNext]_vars, \A c \in Calls : ~WritePending(c)
             PROVE TheLog' = TheLog
  OBVIOUS
<1> USE DEF lockVars, files, turn, At
<1>1. ASSUME NEW c \in Calls, Rename(c) PROVE TheLog' = TheLog
  <2>1. pending # NoCommit
    BY <1>1, Applies DEF Rename, Applying
  <2> QED
    BY <1>1, <2>1 DEF Rename, TheLog
<1>2. ASSUME NEW c \in Calls, ClearPending(c) PROVE TheLog' = TheLog
  <2>1. pending # NoCommit /\ Recorded
    BY <1>2, Applies DEF ClearPending, Applying
  <2> QED
    BY <1>2, <2>1 DEF ClearPending, TheLog, Recorded
<1>3. CASE UNCHANGED <<canonical, pending>>
  BY <1>3 DEF TheLog
<1>4. ASSUME NEW c \in Calls,
             \/ Begin(c) \/ Create(c) \/ Fill(c) \/ SerialReadOwner(c) \/ RemoveStale(c)
             \/ Release(c) \/ Unlock(c) \/ Recover(c) \/ Publish(c) \/ AppendRecord(c)
             \/ InstallManifest(c) \/ Verify(c) \/ DiscardWorkspace(c) \/ ApplyFails(c)
             \/ Open(c) \/ Prepare(c) \/ Run(c) \/ NoteFailedTurn(c) \/ Tidy(c)
      PROVE UNCHANGED <<canonical, pending>>
  BY <1>4 DEF Begin, Create, Fill, SerialReadOwner, ReadOwner, RemoveStale, Release, Unlock,
              Recover, Publish, AppendRecord, InstallManifest, Verify, DiscardWorkspace,
              ApplyFails, Open, Prepare, Run, NoteFailedTurn, Tidy
<1>5. ASSUME NEW p \in Processes, Crash(p) PROVE UNCHANGED <<canonical, pending>>
  BY <1>5 DEF Crash
<1>6. CASE UNCHANGED vars
  BY <1>6, <1>3 DEF vars
<1> QED
  BY <1>1, <1>2, <1>3, <1>4, <1>5, <1>6 DEF SerialNext, OtherStep

\* A pending commit puts a turn in the log that was not in it.
LEMMA WritesTurn ==
    ASSUME IInv, NEW c \in Calls, WritePending(c)
    PROVE /\ TheLog \in Seq(Calls) /\ TheLog' = Append(TheLog, c)
          /\ ~Has(TheLog, c) /\ answer[c] = "none"
<1>1. c \in Holders /\ pc[c] = "commit"
  BY DEF WritePending, At, Holders, Holding
<1>2. pending = NoCommit /\ workspace[c] = Append(canonical, c)
  BY <1>1 DEF IInv, ProgressInv, Knows
<1>3. TheLog = canonical /\ canonical \in Seq(Calls)
  BY <1>2 DEF TheLog, IInv, TypeInv, FileTypes
<1>4. pending'.call = c /\ pending'.successor = workspace[c]
  BY DEF WritePending
<1>5. TheLog' = Append(canonical, c)
  BY <1>2, <1>4, NoCallAssumption DEF TheLog, NoCommit
<1>6. ~Has(TheLog, c)
  BY <1>1 DEF IInv, AnswerInv, Applying, Ending
<1>7. answer[c] = "none"
  BY <1>1 DEF IInv, TypeInv, Consistent
<1> QED
  BY <1>3, <1>5, <1>6, <1>7

\* What a call has to do with the log, from its own state.
Truthful(c) ==
    /\ Has(TheLog, c) =>
        /\ pc[c] \in Applying \cup Ending \cup {"done"}
        /\ pc[c] \in Applying => work[c].call = c
        /\ pc[c] \in Ending => result[c] # "failed"
    /\ pc[c] \in Ending =>
        /\ result[c] \in {"success", "failed", "error"}
        /\ result[c] = "success" => Has(TheLog, c)

\* Every step keeps the answers true.
LEMMA AnswerStep == IInv /\ [SerialNext]_vars => AnswerInv'
<1> SUFFICES ASSUME IInv, [SerialNext]_vars, NEW d \in Calls PROVE Truthful(d)'
  BY DEF AnswerInv, Truthful
<1> USE DEF lockVars, files, turn, At
<1>a. /\ pc \in [Calls -> Steps] /\ work \in [Calls -> CommitOrNone] /\ result \in [Calls -> Answers]
      /\ Truthful(d)
  BY DEF IInv, TypeInv, FileTypes, LocalTypes, AnswerInv, Truthful
<1>b. ASSUME TheLog' = TheLog, UNCHANGED <<pc[d], work[d], result[d]>> PROVE Truthful(d)'
  BY <1>a, <1>b DEF Truthful
<1>1. ASSUME NEW c \in Calls, WritePending(c) PROVE Truthful(d)'
  <2>1. TheLog \in Seq(Calls) /\ TheLog' = Append(TheLog, c)
    BY <1>1, WritesTurn
  <2>2. Has(TheLog', d) <=> Has(TheLog, d) \/ c = d
    BY <2>1, HasAppend
  <2>3. pc'[c] = "publish" /\ work'[c].call = c
    BY <1>1, <1>a DEF WritePending, GoTo
  <2>4. d # c => UNCHANGED <<pc[d], work[d], result[d]>>
    BY <1>1, <1>a DEF WritePending, GoTo
  <2>5. result' = result /\ Has(TheLog, d)' = Has(TheLog', d)
    BY <1>1 DEF WritePending, Has
  <2>6. CASE d = c
    BY <2>3, <2>6 DEF Truthful, Applying, Ending
  <2>7. CASE d # c
    BY <1>a, <2>2, <2>4, <2>5, <2>7 DEF Truthful
  <2> QED
    BY <2>6, <2>7
<1> SUFFICES ASSUME TheLog' = TheLog PROVE Truthful(d)'
  BY <1>1, LogStep
<1>2. ASSUME NEW c \in Calls, OtherStep(c) \/ SerialReadOwner(c), d # c
      PROVE UNCHANGED <<pc[d], work[d], result[d]>>
  <2>1. CASE Begin(c) \/ Create(c) \/ Fill(c) \/ SerialReadOwner(c) \/ RemoveStale(c) \/ Release(c)
             \/ Unlock(c)
    BY <1>a, <1>2, <2>1 DEF Begin, Create, Fill, SerialReadOwner, ReadOwner, RemoveStale, Release,
                            Unlock, GoTo, Answer
  <2>2. CASE Recover(c) \/ Publish(c) \/ Rename(c) \/ AppendRecord(c) \/ InstallManifest(c)
             \/ Verify(c) \/ DiscardWorkspace(c)
    BY <1>a, <1>2, <2>2 DEF Recover, Publish, Rename, AppendRecord, InstallManifest, Verify,
                            DiscardWorkspace, GoTo
  <2>3. CASE ClearPending(c) \/ ApplyFails(c) \/ Open(c) \/ Prepare(c) \/ Run(c)
             \/ WritePending(c) \/ NoteFailedTurn(c) \/ Tidy(c)
    BY <1>a, <1>2, <2>3 DEF ClearPending, ApplyFails, Open, Prepare, Run, WritePending,
                            NoteFailedTurn, Tidy, GoTo, Finally
  <2> QED
    BY <1>2, <2>1, <2>2, <2>3 DEF OtherStep
<1>3. CASE \E c \in Calls : (OtherStep(c) \/ SerialReadOwner(c)) /\ d # c
  BY <1>3, <1>2, <1>b
<1>4. CASE \/ Begin(d) \/ Create(d) \/ Fill(d) \/ SerialReadOwner(d) \/ RemoveStale(d)
  <2>1. /\ pc[d] \notin Applying \cup Ending \cup {"done"} /\ result' = result
        /\ \E s \in Steps \ (Applying \cup Ending) : GoTo(d, s)
    BY <1>4 DEF Begin, Create, Fill, SerialReadOwner, ReadOwner, RemoveStale, Answer, Steps,
                Holding, Applying, Ending
  <2>2. pc'[d] \notin Applying \cup Ending
    BY <1>a, <2>1 DEF GoTo
  <2> QED
    BY <1>a, <2>1, <2>2 DEF Truthful
<1>5. CASE Release(d) \/ Unlock(d)
  <2>1. pc[d] \in Ending /\ (GoTo(d, "unlock") \/ GoTo(d, "done")) /\ result' = result
    BY <1>5 DEF Release, Unlock, Answer, Ending
  <2>2. pc'[d] \in {"unlock", "done"}
    BY <1>a, <2>1 DEF GoTo
  <2> QED
    BY <1>a, <2>1, <2>2 DEF Truthful, Ending, Applying
<1>6. CASE Recover(d) \/ Prepare(d)
  <2>1. ~Has(TheLog, d)
    BY <1>a, <1>6 DEF Recover, Prepare, Truthful, Applying, Ending
  <2>2. pc'[d] \in {"open", "publish", "run"}
    BY <1>a, <1>6 DEF Recover, Prepare, GoTo
  <2> QED
    BY <2>1, <2>2 DEF Truthful, Ending
<1>7. CASE \/ Publish(d) \/ Rename(d) \/ AppendRecord(d) \/ InstallManifest(d)
           \/ Verify(d) \/ DiscardWorkspace(d)
  <2>1. pc[d] \in Applying /\ UNCHANGED <<work, result>>
    BY <1>7 DEF Publish, Rename, AppendRecord, InstallManifest, Verify, DiscardWorkspace, Applying
  <2>2. pc'[d] \in {"rename", "append", "install", "verify", "discard", "clear"}
    BY <1>7, <1>a DEF Publish, Rename, AppendRecord, InstallManifest, Verify, DiscardWorkspace, GoTo
  <2> QED
    BY <1>a, <2>1, <2>2 DEF Truthful, Applying, Ending
<1>8. CASE ClearPending(d)
  <2>1. pending # NoCommit /\ work[d] = pending /\ WellFormed(pending) /\ pc[d] \in Applying
    BY <1>8, Applies DEF ClearPending, Applying
  <2>2. CASE work[d].call = d
    <3>1. pc'[d] = "tidy" /\ result'[d] = "success"
      BY <1>8, <1>a, <2>2 DEF ClearPending, Finally, GoTo
    <3>2. Has(TheLog, d)
      BY <2>1, <2>2, WellFormedFacts DEF TheLog
    <3> QED
      BY <3>1, <3>2 DEF Truthful, Applying, Ending
  <2>3. CASE work[d].call # d
    <3>1. pc'[d] = "open"
      BY <1>8, <1>a, <2>3 DEF ClearPending, GoTo
    <3>2. ~Has(TheLog, d)
      BY <1>a, <2>1, <2>3 DEF Truthful
    <3> QED
      BY <3>1, <3>2 DEF Truthful, Ending
  <2> QED
    BY <2>2, <2>3
<1>9. CASE ApplyFails(d)
  <2>1. pc'[d] = "tidy" /\ result'[d] = "error"
    BY <1>9, <1>a DEF ApplyFails, Finally, GoTo
  <2> QED
    BY <2>1 DEF Truthful, Applying, Ending
<1>10. CASE Open(d) \/ Run(d) \/ NoteFailedTurn(d)
  <2>1. ~Has(TheLog, d)
    BY <1>a, <1>10 DEF Open, Run, NoteFailedTurn, Truthful, Applying, Ending
  <2>2. \/ pc'[d] \in {"prepare", "commit", "note"}
        \/ pc'[d] = "tidy" /\ result'[d] \in {"failed", "error"}
    BY <1>a, <1>10 DEF Open, Run, NoteFailedTurn, GoTo, Finally
  <2> QED
    BY <2>1, <2>2 DEF Truthful, Ending
<1>11. CASE Tidy(d)
  <2>1. pc[d] = "tidy" /\ pc'[d] = "release" /\ result' = result
    BY <1>11, <1>a DEF Tidy, GoTo
  <2> QED
    BY <1>a, <2>1 DEF Truthful, Applying, Ending
<1>12. ASSUME NEW p \in Processes, Crash(p) PROVE Truthful(d)'
  BY <1>12, <1>b DEF Crash
<1>13. CASE UNCHANGED vars
  BY <1>13, <1>b DEF vars
<1>14. CASE WritePending(d)
  BY <1>1, <1>14
<1> QED
  BY <1>3, <1>4, <1>5, <1>6, <1>7, <1>8, <1>9, <1>10, <1>11, <1>12, <1>13, <1>14
  DEF SerialNext, OtherStep

Owned(c) == workspace[c] # <<>> => pc[c] \in Holding \/ pending.call = c \/ DefinitelyGone(c) \/ c \in kept

\* Every step keeps the workspaces owned.
LEMMA OwnedStep == IInv /\ [SerialNext]_vars => WorkspacesAreOwned'
<1> SUFFICES ASSUME IInv, [SerialNext]_vars, NEW d \in Calls PROVE Owned(d)'
  BY DEF WorkspacesAreOwned, Owned, DefinitelyGone
<1> USE DEF lockVars, files, turn, At
<1>a. /\ pc \in [Calls -> Steps] /\ workspace \in [Calls -> Seq(Calls)] /\ Owned(d)
  BY DEF IInv, TypeInv, FileTypes, LocalTypes, WorkspacesAreOwned, Owned
<1>b. ASSUME UNCHANGED <<workspace[d], pc[d], pending, alive>>, kept \subseteq kept' PROVE Owned(d)'
  BY <1>a, <1>b DEF Owned, DefinitelyGone
<1>1. ASSUME NEW c \in Calls, Begin(c) \/ Create(c) \/ SerialReadOwner(c) \/ RemoveStale(c)
      PROVE Owned(d)'
  <2>1. /\ UNCHANGED <<workspace, pending, alive, kept>> /\ Host[c] \in alive /\ pc[c] \notin Holding
        /\ \E s \in Steps : GoTo(c, s)
    BY <1>1 DEF Begin, Create, SerialReadOwner, ReadOwner, RemoveStale, Answer, Steps, Holding, Applying
  <2>2. CASE d = c
    BY <1>a, <2>1, <2>2 DEF Owned, DefinitelyGone
  <2>3. CASE d # c
    BY <1>a, <1>b, <2>1, <2>3 DEF GoTo
  <2> QED
    BY <2>2, <2>3
<1>2. ASSUME NEW c \in Calls, Release(c) \/ Unlock(c) PROVE Owned(d)'
  <2>1. /\ UNCHANGED <<workspace, pending, alive, kept>> /\ \E s \in Steps : GoTo(c, s)
        /\ c \in Holders /\ pc[c] \in {"release", "unlock"}
    BY <1>2 DEF Release, Unlock, Answer, Steps, Holding, Holders
  <2>2. pending.call = c \/ workspace[c] = <<>> \/ c \in kept
    BY <2>1 DEF IInv, ProgressInv, Knows
  <2>3. CASE d = c
    BY <2>1, <2>2, <2>3 DEF Owned
  <2>4. CASE d # c
    BY <1>a, <1>b, <2>1, <2>4 DEF GoTo
  <2> QED
    BY <2>3, <2>4
<1>3. ASSUME NEW c \in Calls,
             \/ Fill(c) \/ Recover(c) \/ Publish(c) \/ Rename(c) \/ AppendRecord(c)
             \/ InstallManifest(c) \/ Verify(c) \/ ApplyFails(c) \/ Open(c) \/ NoteFailedTurn(c)
      PROVE Owned(d)'
  <2>1. UNCHANGED <<workspace, pending, alive, kept>> /\ \E s \in Holding : GoTo(c, s)
    BY <1>3 DEF Fill, Recover, Publish, Rename, AppendRecord, InstallManifest, Verify, ApplyFails,
                Open, NoteFailedTurn, Finally, Holding, Applying
  <2>2. CASE d = c
    BY <1>a, <2>1, <2>2 DEF Owned, GoTo
  <2>3. CASE d # c
    BY <1>a, <1>b, <2>1, <2>3 DEF GoTo
  <2> QED
    BY <2>2, <2>3
<1>4. ASSUME NEW c \in Calls, Prepare(c) \/ Run(c) \/ Tidy(c) PROVE Owned(d)'
  <2>1. UNCHANGED <<pending, alive>> /\ kept \subseteq kept' /\ \E s \in Holding : GoTo(c, s)
    BY <1>4 DEF Prepare, Run, Tidy, Finally, Holding, Applying
  <2>2. CASE d = c
    BY <1>a, <2>1, <2>2 DEF Owned, GoTo
  <2>3. CASE d # c
    <3>1. workspace'[d] = workspace[d]
      BY <1>a, <1>4, <2>3 DEF Prepare, Run, Tidy
    <3> QED
      BY <1>a, <1>b, <2>1, <2>3, <3>1 DEF GoTo
  <2> QED
    BY <2>2, <2>3
<1>5. ASSUME NEW c \in Calls, DiscardWorkspace(c) PROVE Owned(d)'
  <2>1. UNCHANGED <<pending, alive, kept>> /\ GoTo(c, "clear") /\ workspace'[d] \in {workspace[d], <<>>}
    BY <1>5, <1>a DEF DiscardWorkspace
  <2>2. CASE d = c
    BY <1>a, <2>1, <2>2 DEF Owned, GoTo, Holding, Applying
  <2>3. CASE d # c
    BY <1>a, <2>1, <2>3 DEF Owned, GoTo, DefinitelyGone
  <2> QED
    BY <2>2, <2>3
<1>6. ASSUME NEW c \in Calls, ClearPending(c) PROVE Owned(d)'
  <2>1. UNCHANGED <<workspace, alive, kept>> /\ \E s \in Holding : GoTo(c, s)
    BY <1>6 DEF ClearPending, Finally, Holding
  <2>2. workspace[pending.call] = <<>>
    BY <1>6, Applies DEF ClearPending, Applying
  <2>3. CASE d = c
    BY <1>a, <2>1, <2>3 DEF Owned, GoTo
  <2>4. CASE d # c
    BY <1>a, <2>1, <2>2, <2>4 DEF Owned, GoTo, DefinitelyGone
  <2> QED
    BY <2>3, <2>4
<1>7. ASSUME NEW c \in Calls, WritePending(c) PROVE Owned(d)'
  <2>1. UNCHANGED <<workspace, alive, kept>> /\ GoTo(c, "publish") /\ pending'.call = c
    BY <1>7 DEF WritePending
  <2>2. pending.call # d
    BY <1>7, NoCallAssumption DEF WritePending, IInv, ProgressInv, Knows, Holders, Holding, NoCommit
  <2> QED
    BY <1>a, <2>1, <2>2 DEF Owned, GoTo, DefinitelyGone
<1>8. ASSUME NEW p \in Processes, Crash(p) PROVE Owned(d)'
  BY <1>8, <1>a DEF Crash, Owned, DefinitelyGone
<1>9. CASE UNCHANGED vars
  BY <1>9, <1>b DEF vars
<1> QED
  BY <1>1, <1>2, <1>3, <1>4, <1>5, <1>6, <1>7, <1>8, <1>9 DEF SerialNext, OtherStep

-----------------------------------------------------------------------------
(* The theorems. *)

LEMMA InitIInv == Init => IInv
<1> SUFFICES ASSUME Init PROVE IInv
  OBVIOUS
<1> USE DEF Init
<1>1. TypeInv
  BY DEF TypeInv, FileTypes, LocalTypes, Consistent, CommitOrNone, Steps, Holding, Applying,
         Ending, Answers, NoLock, NoManifest
<1>2. LockInv
  BY DEF LockInv, HolderKeepsLock, RemoverSeesDead, SoleRemover, OwnerIsACall, Holders, Removers,
         At, Holding, Applying, NoLock
<1>3. Settled
  <2>1. <<>> \in Seq(Calls) /\ Len(<<>>) = 0
    OBVIOUS
  <2>2. Len(Numbered(<<>>)) = 0 /\ Numbered(<<>>) \in Seq(Records)
    BY <2>1, NumberedType
  <2>3. Numbered(<<>>) = <<>>
    BY <2>2
  <2> QED
    BY <2>3 DEF Settled, LedgerIs, ManifestIs, ManifestOf
<1>4. ProgressInv
  BY DEF ProgressInv, Holders, Holding, Applying
<1>5. AnswerInv
  <2>1. Len(TheLog) = 0
    BY DEF TheLog
  <2>2. 1 .. Len(TheLog) = {}
    BY <2>1
  <2>3. \A c \in Calls : ~Has(TheLog, c)
    BY <2>2 DEF Has
  <2> QED
    BY <2>3 DEF AnswerInv, Ending
<1>6. WorkspacesAreOwned
  BY DEF WorkspacesAreOwned
<1> QED
  BY <1>1, <1>2, <1>3, <1>4, <1>5, <1>6 DEF IInv, FilesInv

LEMMA SerialIsNext == [SerialNext]_vars => [Next]_vars
  BY DEF SerialNext, SerialReadOwner, Next

LEMMA StepIInv == IInv /\ [SerialNext]_vars => IInv'
<1> SUFFICES ASSUME IInv, [SerialNext]_vars PROVE IInv'
  OBVIOUS
<1>1. TypeInv'
  BY SerialIsNext, LocalStep, ConsistentStep, FileTypesStep DEF IInv, TypeInv
<1>2. LockInv'
  BY LockStep DEF IInv
<1> QED
  BY <1>1, <1>2, FilesStep, ProgressStep, AnswerStep, OwnedStep DEF IInv

\* What the files of a session say when no commit is pending.
LEMMA SettledAgrees == IInv => PublishedStateAgrees
<1> SUFFICES ASSUME IInv, pending = NoCommit
             PROVE /\ manifest.run_count = Len(ledger)
                   /\ ledger = Numbered(canonical)
                   /\ ledger # <<>> => manifest.last = ledger[Len(ledger)].call
  BY DEF PublishedStateAgrees, Numbered
<1>1. ledger = Numbered(canonical) /\ manifest = ManifestOf(canonical) /\ canonical \in Seq(Calls)
  BY Stages DEF IInv, Settled, LedgerIs, ManifestIs, TypeInv, FileTypes
<1>2. Len(ledger) = Len(canonical) /\ ledger \in Seq(Records)
  BY <1>1, NumberedType
<1>3. ASSUME ledger # <<>> PROVE manifest.last = ledger[Len(ledger)].call
  <2>1. Len(ledger) \in 1 .. Len(canonical)
    BY <1>2, <1>3
  <2>2. canonical # <<>>
    BY <2>1
  <2>3. manifest.last = canonical[Len(canonical)]
    BY <1>1, <2>2 DEF ManifestOf
  <2>4. ledger[Len(canonical)].call = canonical[Len(canonical)]
    BY <1>1, <1>2, <2>1 DEF Numbered
  <2> QED
    BY <1>2, <2>3, <2>4
<1> QED
  BY <1>1, <1>3, NothingToReconcile

\* A pending commit is at one of its stages.
LEMMA StagesApply == IInv => PendingCommitApplies
  BY WellFormedFacts DEF IInv, FilesInv, Settled, Prepared, Published, Recorded, PendingCommitApplies

\* Whatever crashed and whatever failed, the session file, the ledger and the
\* manifest tell the same turns whenever no commit is pending
\* (src/session.ts:644-676).
THEOREM SerialPublishedStateAgrees == SerialSpec => []PublishedStateAgrees
  BY InitIInv, StepIInv, SettledAgrees, PTL DEF SerialSpec

\* A pending commit can always be applied (src/session.ts:617-642).
THEOREM SerialPendingCommitApplies == SerialSpec => []PendingCommitApplies
  BY InitIInv, StepIInv, StagesApply, PTL DEF SerialSpec

\* A workspace outlives its call only for a pending commit or a dead server
\* (src/session.ts:1008-1027).
THEOREM SerialWorkspacesAreOwned == SerialSpec => []WorkspacesAreOwned
<1>1. IInv => WorkspacesAreOwned
  BY DEF IInv
<1> QED
  BY InitIInv, StepIInv, <1>1, PTL DEF SerialSpec

-----------------------------------------------------------------------------
(* The refinement. *)

\* A step that answers tells the truth.
LEMMA AnswerIsReply ==
    ASSUME IInv, NEW c \in Calls, NEW a \in {"success", "failed", "error"}, Answer(c, a),
           pc[c] # "done", TheLog' = TheLog,
           a = "success" => Has(TheLog, c), a = "failed" => ~Has(TheLog, c)
    PROVE Promise!Reply(c)
<1>1. answer[c] = "none" /\ answer' = [answer EXCEPT ![c] = a]
  BY DEF IInv, TypeInv, Consistent, Answer
<1>2. Promise!InLog(c) <=> Has(TheLog, c)
  BY DEF Promise!InLog, Has, TheLog
<1> QED
  BY <1>1, <1>2 DEF Promise!Reply, TheLog

\* Every step is one of the log or none.
LEMMA RefinesStep == IInv /\ [SerialNext]_vars => Promise!Next \/ UNCHANGED <<TheLog, answer>>
<1> SUFFICES ASSUME IInv, [SerialNext]_vars
             PROVE Promise!Next \/ UNCHANGED <<TheLog, answer>>
  OBVIOUS
<1> USE DEF lockVars, files, turn, At
<1>1. ASSUME NEW c \in Calls, WritePending(c) PROVE Promise!Commit(c)
  <2>1. /\ TheLog' = Append(TheLog, c) /\ ~Has(TheLog, c) /\ answer[c] = "none"
        /\ UNCHANGED answer
    BY <1>1, WritesTurn DEF WritePending
  <2> QED
    BY <2>1 DEF Promise!Commit, Promise!InLog, Has, TheLog
<1> SUFFICES ASSUME TheLog' = TheLog PROVE (\E c \in Calls : Promise!Reply(c)) \/ UNCHANGED answer
  BY <1>1, LogStep DEF Promise!Next
<1>2. ASSUME NEW c \in Calls, Begin(c) \/ SerialReadOwner(c)
      PROVE Promise!Reply(c) \/ UNCHANGED answer
  <2>1. Answer(c, "failed") \/ UNCHANGED answer
    BY <1>2 DEF Begin, SerialReadOwner, ReadOwner
  <2>2. pc[c] \in {"idle", "readOwner"}
    BY <1>2 DEF Begin, SerialReadOwner, ReadOwner
  <2>3. ~Has(TheLog, c)
    BY <2>2 DEF IInv, AnswerInv, Applying, Ending
  <2> QED
    BY <2>1, <2>2, <2>3, AnswerIsReply
<1>3. ASSUME NEW c \in Calls, Release(c) \/ Unlock(c)
      PROVE Promise!Reply(c) \/ UNCHANGED answer
  <2>1. Answer(c, result[c]) \/ Answer(c, "error") \/ UNCHANGED answer
    BY <1>3 DEF Release, Unlock
  <2>2. pc[c] \in Ending /\ pc[c] # "done"
    BY <1>3 DEF Release, Unlock, Ending
  <2>3. /\ result[c] \in {"success", "failed", "error"}
        /\ result[c] = "success" => Has(TheLog, c)
        /\ result[c] = "failed" => ~Has(TheLog, c)
    BY <2>2 DEF IInv, AnswerInv
  <2> QED
    BY <2>1, <2>2, <2>3, AnswerIsReply
<1>4. ASSUME NEW c \in Calls,
             \/ Create(c) \/ Fill(c) \/ RemoveStale(c) \/ Recover(c) \/ Publish(c) \/ Rename(c)
             \/ AppendRecord(c) \/ InstallManifest(c) \/ Verify(c) \/ DiscardWorkspace(c)
             \/ ClearPending(c) \/ ApplyFails(c) \/ Open(c) \/ Prepare(c) \/ Run(c)
             \/ WritePending(c) \/ NoteFailedTurn(c) \/ Tidy(c)
      PROVE UNCHANGED answer
  BY <1>4 DEF Create, Fill, RemoveStale, Recover, Publish, Rename, AppendRecord, InstallManifest,
              Verify, DiscardWorkspace, ClearPending, ApplyFails, Open, Prepare, Run, WritePending,
              NoteFailedTurn, Tidy
<1>5. ASSUME NEW p \in Processes, Crash(p) PROVE UNCHANGED answer
  BY <1>5 DEF Crash
<1>6. CASE UNCHANGED vars
  BY <1>6 DEF vars
<1> QED
  BY <1>2, <1>3, <1>4, <1>5, <1>6 DEF SerialNext, OtherStep

\* Crashes, failed commits and recoveries implement one log that only grows,
\* and the answers of the calls are true of it (README.md:387).
THEOREM SerialImplementsSessionLog == SerialSpec => ImplementsSessionLog
<1>1. Init => Promise!Init
  BY DEF Init, Promise!Init
<1>2. IInv /\ [SerialNext]_vars => [Promise!Next]_<<TheLog, answer>>
  BY RefinesStep
<1> QED
  BY InitIInv, StepIInv, <1>1, <1>2, PTL DEF SerialSpec, ImplementsSessionLog, Promise!Spec, TheLog

-----------------------------------------------------------------------------
(***************************************************************************)
(* ClaimEvidence: the inductive invariant.                                 *)
(***************************************************************************)
\* What the records look like.  What the owner remembers of the receipts it has read.
EvidenceShapes ==
    /\ run \in Runs
    /\ step \in Running \cup Over \cup {"finished", "inspected", "concluded"}
    /\ mem = [launched |-> mem.launched, started |-> mem.started, cancelled |-> mem.cancelled,
              receipts |-> mem.receipts, events |-> mem.events]
    /\ mem.started \in BOOLEAN /\ mem.cancelled \in BOOLEAN
    /\ mem.receipts \subseteq parsed
    /\ flags \in [timedOut : BOOLEAN, cancelled : BOOLEAN, exhausted : BOOLEAN,
                  outputError : BOOLEAN, spawnError : BOOLEAN, spawnRefused : BOOLEAN]

\* Only a run that is running has a child that lives, and lines of it.
ChildRuns ==
    step # "running" => child \in {None, "gone"} /\ line = NoLine

\* The runner is told of a cancellation by the signal, and the signal by an acceptance.
CancellationsAreAccepted ==
    /\ aborted => mem.cancelled
    /\ flags.cancelled => aborted
    /\ flags.spawnRefused => flags.outputError

\* From the inspection on the task root is what it was found to be.
TreeIsInspected ==
    step = "inspected" /\ run.scoped /\ ~drift => tree # "altered"

\* A result tells the end of the child as the runner and the lines told it.
ResultIsTold ==
    /\ outcome = [kind |-> "result", stop |-> StopReason, success |-> outcome.success,
                  exit |-> exit, timedOut |-> flags.timedOut, pair |-> outcome.pair,
                  class |-> outcome.class, receipts |-> parsed \cap Receipts]
    /\ outcome.success =>
         /\ run.receipts \subseteq parsed
         /\ run.strict => outcome.pair
         /\ run.scoped => tree # "altered"

OutcomeIsTold ==
    IF step \in {"concluded"} \cup Over THEN outcome = Error \/ ResultIsTold
    ELSE outcome = NoOutcome

\* Before the settlement every write is of an active claim.
ClaimIsOpen == step \notin Over => claim.status = "working"

EvidenceInv ==
    /\ EvidenceShapes /\ ChildRuns /\ CancellationsAreAccepted
    /\ TreeIsInspected /\ OutcomeIsTold /\ ClaimIsOpen
    /\ TerminalClaimIsTrue

\* A line that is printed leaves the owner and its run alone.
LEMMA PrintingKeeps ==
    ASSUME NEW name, Prints(name)
    PROVE  UNCHANGED <<run, step, mem, claim, flags, aborted, child, exit, parsed, drift, tree,
                       outcome>>
  BY DEF Prints, Keep, core

\* The records keep their fields; a receipt is remembered once it was read.
LEMMA ShapesStep ==
    EvidenceInv /\ [EvidenceNext]_evidenceVars => EvidenceShapes'
<1> SUFFICES ASSUME EvidenceInv, [EvidenceNext]_evidenceVars PROVE EvidenceShapes'
  OBVIOUS
<1> USE DEF EvidenceInv, EvidenceShapes, Running, Over, Keep, core, process
<1>1. CASE Grant
  BY <1>1 DEF Grant, Persist, Throws
<1>2. CASE ObserveSpawn
  BY <1>2 DEF ObserveSpawn, Persist, Note
<1>3. CASE TranscriptFails
  BY <1>3 DEF TranscriptFails, LineFails
<1>4. CASE AcceptReceipt
  <2>1. /\ UNCHANGED <<run, step>> /\ parsed' = parsed \cup {line.name}
        /\ mem' = mem \/ mem' = [mem EXCEPT !.receipts = @ \cup {line.name}]
        /\ flags' = flags \/ LineFails
    BY <1>4 DEF AcceptReceipt, Persist
  <2>2. LineFails => \E full \in BOOLEAN :
          flags' = [flags EXCEPT !.outputError = TRUE, !.exhausted = @ \/ full]
    BY DEF LineFails
  <2>3. flags' \in [timedOut : BOOLEAN, cancelled : BOOLEAN, exhausted : BOOLEAN,
                    outputError : BOOLEAN, spawnError : BOOLEAN, spawnRefused : BOOLEAN]
    BY <2>1, <2>2
  <2>4. /\ mem' = [launched |-> mem'.launched, started |-> mem'.started,
                   cancelled |-> mem'.cancelled, receipts |-> mem'.receipts,
                   events |-> mem'.events]
        /\ mem'.started \in BOOLEAN /\ mem'.cancelled \in BOOLEAN
        /\ mem'.receipts \subseteq parsed'
    BY <2>1
  <2> QED
    BY <2>1, <2>3, <2>4
<1>5. CASE ObserveReceipt
  BY <1>5 DEF ObserveReceipt, Observe, Observed, Note
<1>6. CASE ObserveOther
  BY <1>6 DEF ObserveOther, Observe, Observed, Note
<1>7. CASE Cancel
  BY <1>7 DEF Cancel, Persist, Note
<1>8. CASE Settle
  BY <1>8 DEF Settle, Persist, Running
<1>9. CASE PreflightThrows \/ Launch \/ Finish \/ Inspect \/ Conclude \/ ConclusionThrows
  BY <1>9 DEF PreflightThrows, Throws, Launch, Finish, Inspect, Conclude, ConclusionThrows
<1>10. CASE Timeout \/ DiskFills \/ Abort \/ LaunchesNothing
  BY <1>10 DEF Timeout, Raises, DiskFills, Abort, LaunchesNothing
<1>11. CASE ChildBinds \/ ChildOpensSession \/ ChildPrints \/ AgentSays \/ AgentWrites \/
       ChildEnds \/ OutsiderEdits
  BY <1>11 DEF ChildBinds, ChildOpensSession, ChildPrints, Prints, AgentSays, AgentWrites,
     ChildEnds, OutsiderEdits
<1>12. CASE UNCHANGED evidenceVars
  BY <1>12 DEF evidenceVars
<1> QED
  BY <1>1, <1>2, <1>3, <1>4, <1>5, <1>6, <1>7, <1>8, <1>9, <1>10, <1>11, <1>12 DEF
     EvidenceNext

\* The child ends and its last line is read before the runner is done.
LEMMA ChildRunsStep ==
    EvidenceInv /\ [EvidenceNext]_evidenceVars => ChildRuns'
<1> SUFFICES ASSUME EvidenceInv, [EvidenceNext]_evidenceVars PROVE ChildRuns'
  OBVIOUS
<1> USE DEF EvidenceInv, EvidenceShapes, ChildRuns, Running, Over, None, NoLine, Keep,
    core, process
<1>1. CASE Grant
  BY <1>1 DEF Grant, Persist, Throws
<1>2. CASE ObserveSpawn
  BY <1>2 DEF ObserveSpawn, Persist, Note
<1>3. CASE TranscriptFails
  BY <1>3 DEF TranscriptFails, LineFails
<1>4. CASE AcceptReceipt
  <2>1. LineFails => line' = NoLine
    BY DEF LineFails
  <2> QED
    BY <1>4, <2>1 DEF AcceptReceipt, Persist
<1>5. CASE Cancel
  BY <1>5 DEF Cancel, Persist, Note
<1>6. CASE Settle
  BY <1>6 DEF Settle, Persist
<1>7. CASE PreflightThrows
  BY <1>7 DEF PreflightThrows, Throws
<1>8. CASE Launch
  BY <1>8 DEF Launch
<1>9. CASE Finish
  BY <1>9 DEF Finish, Throws
<1>10. CASE Inspect
  BY <1>10 DEF Inspect
<1>11. CASE Conclude \/ ConclusionThrows
  BY <1>11 DEF Conclude, ConclusionThrows, Throws
<1>12. CASE LaunchesNothing \/ ObserveReceipt \/ ObserveOther \/ Timeout \/ DiskFills \/
       Abort \/ ChildBinds \/ ChildOpensSession \/ ChildPrints \/ AgentSays \/ AgentWrites
       \/ ChildEnds \/ OutsiderEdits
  BY <1>12 DEF LaunchesNothing, ObserveReceipt, Observe, ObserveOther, Timeout, Raises,
     DiskFills, Abort, ChildBinds, ChildOpensSession, ChildPrints, Prints, AgentSays,
     AgentWrites, ChildEnds, OutsiderEdits
<1>13. CASE UNCHANGED evidenceVars
  BY <1>13 DEF evidenceVars
<1> QED
  BY <1>1, <1>2, <1>3, <1>4, <1>5, <1>6, <1>7, <1>8, <1>9, <1>10, <1>11, <1>12, <1>13 DEF
     EvidenceNext

\* Nobody raises the signal but Abort, behind an acceptance.
LEMMA CancellationsStep ==
    EvidenceInv /\ [EvidenceNext]_evidenceVars => CancellationsAreAccepted'
<1> SUFFICES ASSUME EvidenceInv, [EvidenceNext]_evidenceVars PROVE CancellationsAreAccepted'
  OBVIOUS
<1> USE DEF EvidenceInv, EvidenceShapes, CancellationsAreAccepted, Keep, core, process
<1>1. CASE Grant
  BY <1>1 DEF Grant, Persist, Throws
<1>2. CASE ObserveSpawn
  BY <1>2 DEF ObserveSpawn, Persist, Note
<1>3. CASE TranscriptFails
  BY <1>3 DEF TranscriptFails, LineFails
<1>4. CASE AcceptReceipt
  BY <1>4 DEF AcceptReceipt, Persist, LineFails
<1>5. CASE ObserveReceipt
  BY <1>5 DEF ObserveReceipt, Observe, Observed, Note
<1>6. CASE ObserveOther
  BY <1>6 DEF ObserveOther, Observe, Observed, Note
<1>7. CASE Cancel
  BY <1>7 DEF Cancel, Persist, Note
<1>8. CASE Settle
  BY <1>8 DEF Settle, Persist
<1>9. CASE ChildPrints
  BY <1>9, PrintingKeeps DEF ChildPrints
<1>10. CASE AgentSays
  BY <1>10, PrintingKeeps DEF AgentSays
<1>11. CASE PreflightThrows
  BY <1>11 DEF PreflightThrows, Throws
<1>12. CASE Launch
  BY <1>12 DEF Launch
<1>13. CASE Finish
  BY <1>13 DEF Finish, Throws
<1>14. CASE Inspect
  BY <1>14 DEF Inspect
<1>15. CASE Conclude
  BY <1>15 DEF Conclude
<1>16. CASE ConclusionThrows
  BY <1>16 DEF ConclusionThrows, Throws
<1>17. CASE Timeout \/ DiskFills \/ Abort \/ LaunchesNothing
  BY <1>17 DEF Timeout, Raises, DiskFills, Abort, LaunchesNothing
<1>18. CASE ChildBinds \/ ChildOpensSession \/ AgentWrites \/ ChildEnds \/ OutsiderEdits
  BY <1>18 DEF ChildBinds, ChildOpensSession, AgentWrites, ChildEnds, OutsiderEdits
<1>19. CASE UNCHANGED evidenceVars
  BY <1>19 DEF evidenceVars
<1> QED
  BY <1>1, <1>2, <1>3, <1>4, <1>5, <1>6, <1>7, <1>8, <1>9, <1>10, <1>11, <1>12, <1>13,
     <1>14, <1>15, <1>16, <1>17, <1>18, <1>19 DEF EvidenceNext

\* Nobody writes into the task root any more when it is inspected.
LEMMA TreeStep ==
    EvidenceInv /\ [EvidenceNext]_evidenceVars => TreeIsInspected'
<1> SUFFICES ASSUME EvidenceInv, [EvidenceNext]_evidenceVars PROVE TreeIsInspected'
  OBVIOUS
<1> USE DEF EvidenceInv, EvidenceShapes, ChildRuns, TreeIsInspected, None, Keep, core,
    process
<1>1. CASE Grant
  BY <1>1 DEF Grant, Persist, Throws
<1>2. CASE ObserveSpawn
  BY <1>2 DEF ObserveSpawn, Persist, Note
<1>3. CASE AcceptReceipt
  BY <1>3 DEF AcceptReceipt, Persist
<1>4. CASE Cancel
  BY <1>4 DEF Cancel, Persist, Note
<1>5. CASE Inspect
  BY <1>5 DEF Inspect, TreeIsSettled
<1>6. CASE Settle
  BY <1>6 DEF Settle, Persist
<1>7. CASE PreflightThrows \/ Launch \/ LaunchesNothing \/ TranscriptFails \/
       ObserveReceipt \/ ObserveOther \/ Timeout \/ DiskFills \/ Abort \/ Finish \/
       Conclude \/ ConclusionThrows \/ ChildBinds \/ ChildOpensSession \/ ChildPrints \/
       AgentSays \/ AgentWrites \/ ChildEnds \/ OutsiderEdits
  BY <1>7 DEF PreflightThrows, Throws, Launch, LaunchesNothing, TranscriptFails,
     LineFails, ObserveReceipt, Observe, ObserveOther, Timeout, Raises, DiskFills, Abort,
     Finish, Conclude, ConclusionThrows, ChildBinds, ChildOpensSession, ChildPrints,
     Prints, AgentSays, AgentWrites, ChildEnds, OutsiderEdits
<1>8. CASE UNCHANGED evidenceVars
  BY <1>8 DEF evidenceVars
<1> QED
  BY <1>1, <1>2, <1>3, <1>4, <1>5, <1>6, <1>7, <1>8 DEF EvidenceNext

\* Only the settlement writes a view that is not of an active run.
LEMMA ClaimStep ==
    EvidenceInv /\ [EvidenceNext]_evidenceVars => ClaimIsOpen'
<1> SUFFICES ASSUME EvidenceInv, [EvidenceNext]_evidenceVars PROVE ClaimIsOpen'
  OBVIOUS
<1> USE DEF EvidenceInv, EvidenceShapes, ChildRuns, ClaimIsOpen, Running, Over,
    ActiveView, Keep, core, process
<1>1. CASE Grant
  BY <1>1 DEF Grant, Persist, Throws
<1>2. CASE ObserveSpawn
  BY <1>2 DEF ObserveSpawn, Persist, Note
<1>3. CASE AcceptReceipt
  BY <1>3 DEF AcceptReceipt, Persist
<1>4. CASE Cancel
  BY <1>4 DEF Cancel, Persist, Note
<1>5. CASE Settle
  BY <1>5 DEF Settle, Persist
<1>6. CASE PreflightThrows \/ Launch \/ LaunchesNothing \/ TranscriptFails \/
       ObserveReceipt \/ ObserveOther \/ Timeout \/ DiskFills \/ Abort \/ Finish \/
       Inspect \/ Conclude \/ ConclusionThrows \/ ChildBinds \/ ChildOpensSession \/
       ChildPrints \/ AgentSays \/ AgentWrites \/ ChildEnds \/ OutsiderEdits
  BY <1>6 DEF PreflightThrows, Throws, Launch, LaunchesNothing, TranscriptFails,
     LineFails, ObserveReceipt, Observe, ObserveOther, Timeout, Raises, DiskFills, Abort,
     Finish, Inspect, Conclude, ConclusionThrows, ChildBinds, ChildOpensSession,
     ChildPrints, Prints, AgentSays, AgentWrites, ChildEnds, OutsiderEdits
<1>7. CASE UNCHANGED evidenceVars
  BY <1>7 DEF evidenceVars
<1> QED
  BY <1>1, <1>2, <1>3, <1>4, <1>5, <1>6, <1>7 DEF EvidenceNext
-----------------------------------------------------------------------------
\* Behind its conclusion a run can only be cancelled, its root edited, and be settled, and
\* then nothing.
LEMMA EndedRunIsFrozen ==
    ASSUME EvidenceInv, step \in {"concluded"} \cup Over, [EvidenceNext]_evidenceVars
    PROVE  \/ step = "concluded" /\ (Cancel \/ Settle \/ OutsiderEdits)
           \/ UNCHANGED evidenceVars
<1> USE DEF EvidenceInv, ChildRuns, Over, Running, None, NoLine
<1>1. ~(Grant \/ PreflightThrows \/ Launch \/ LaunchesNothing \/ ObserveSpawn)
  BY DEF Grant, PreflightThrows, Launch, LaunchesNothing, ObserveSpawn
<1>2. ~(TranscriptFails \/ AcceptReceipt \/ ObserveReceipt \/ ObserveOther)
  BY DEF TranscriptFails, AcceptReceipt, ObserveReceipt, ObserveOther
<1>3. ~(Timeout \/ DiskFills \/ Abort)
  BY DEF Timeout, DiskFills, Raises, Abort
<1>4. ~(Finish \/ Inspect \/ Conclude \/ ConclusionThrows)
  BY DEF Finish, Inspect, Conclude, ConclusionThrows
<1>5. ~(ChildBinds \/ ChildOpensSession \/ AgentWrites \/ ChildEnds)
  BY DEF ChildBinds, ChildOpensSession, AgentWrites, ChildEnds
<1>6. ~(ChildPrints \/ AgentSays)
  <2>1. ASSUME NEW name, Prints(name) PROVE FALSE
    BY <2>1 DEF Prints
  <2> QED
    BY <2>1 DEF ChildPrints, AgentSays
<1>7. Cancel \/ Settle \/ OutsiderEdits => step = "concluded"
  BY DEF Cancel, Settle, OutsiderEdits
<1> QED
  BY <1>1, <1>2, <1>3, <1>4, <1>5, <1>6, <1>7 DEF EvidenceNext

\* Nothing but the settlement ends the execution.
LEMMA OnlySettleEnds ==
    ASSUME EvidenceInv, step \notin Over, [EvidenceNext]_evidenceVars, ~Settle
    PROVE  step' \notin Over
<1> USE DEF EvidenceInv, EvidenceShapes, Over, Running, Keep, core, process
<1>1. CASE Grant
  BY <1>1 DEF Grant, Persist, Throws
<1>2. CASE PreflightThrows \/ Launch \/ LaunchesNothing \/ Finish \/ Inspect \/ ConclusionThrows
  BY <1>2 DEF PreflightThrows, Launch, LaunchesNothing, Finish, Inspect, ConclusionThrows, Throws
<1>3. CASE Conclude
  BY <1>3 DEF Conclude
<1>4. CASE ObserveSpawn \/ TranscriptFails \/ AcceptReceipt \/ ObserveReceipt \/ ObserveOther
  BY <1>4 DEF ObserveSpawn, TranscriptFails, AcceptReceipt, ObserveReceipt, ObserveOther, Observe
<1>5. CASE Timeout \/ DiskFills \/ Cancel \/ Abort
  BY <1>5 DEF Timeout, DiskFills, Raises, Cancel, Abort
<1>6. CASE ChildBinds \/ ChildOpensSession \/ AgentWrites \/ ChildEnds \/ OutsiderEdits
  BY <1>6 DEF ChildBinds, ChildOpensSession, AgentWrites, ChildEnds, OutsiderEdits
<1>7. CASE ChildPrints \/ AgentSays
  BY <1>7, PrintingKeeps DEF ChildPrints, AgentSays
<1>8. CASE UNCHANGED evidenceVars
  BY <1>8 DEF evidenceVars
<1> QED
  BY <1>1, <1>2, <1>3, <1>4, <1>5, <1>6, <1>7, <1>8 DEF EvidenceNext

\* Before its conclusion a run has no outcome; an error or a result is its conclusion.
LEMMA OutcomeArises ==
    ASSUME EvidenceInv, step \notin {"concluded"} \cup Over, [EvidenceNext]_evidenceVars
    PROVE  \/ Throws
           \/ Conclude
           \/ outcome' = outcome /\ step' \notin {"concluded"} \cup Over
<1> USE DEF EvidenceInv, EvidenceShapes, Over, Running, Keep, core, process
<1>1. CASE Grant
  BY <1>1 DEF Grant, Persist
<1>2. CASE PreflightThrows \/ Finish \/ ConclusionThrows
  BY <1>2 DEF PreflightThrows, Finish, ConclusionThrows
<1>3. CASE Launch \/ LaunchesNothing \/ Inspect
  BY <1>3 DEF Launch, LaunchesNothing, Inspect
<1>4. CASE ObserveSpawn \/ TranscriptFails \/ AcceptReceipt \/ ObserveReceipt \/ ObserveOther
  BY <1>4 DEF ObserveSpawn, TranscriptFails, AcceptReceipt, ObserveReceipt, ObserveOther, Observe
<1>5. CASE Timeout \/ DiskFills \/ Cancel \/ Abort
  BY <1>5 DEF Timeout, DiskFills, Raises, Cancel, Abort
<1>6. CASE ChildBinds \/ ChildOpensSession \/ AgentWrites \/ ChildEnds \/ OutsiderEdits
  BY <1>6 DEF ChildBinds, ChildOpensSession, AgentWrites, ChildEnds, OutsiderEdits
<1>7. CASE ChildPrints \/ AgentSays
  BY <1>7, PrintingKeeps DEF ChildPrints, AgentSays
<1>8. CASE UNCHANGED evidenceVars
  BY <1>8 DEF evidenceVars
<1>9. ~Settle
  BY DEF Settle
<1> QED
  BY <1>1, <1>2, <1>3, <1>4, <1>5, <1>6, <1>7, <1>8, <1>9 DEF EvidenceNext

\* What the result says of flags, exit and lines cannot become untrue behind it.
LEMMA OutcomeStep ==
    EvidenceInv /\ [EvidenceNext]_evidenceVars => OutcomeIsTold'
<1> SUFFICES ASSUME EvidenceInv, [EvidenceNext]_evidenceVars PROVE OutcomeIsTold'
  OBVIOUS
<1> USE DEF EvidenceInv, OutcomeIsTold
<1>1. CASE step \in {"concluded"} \cup Over
  <2>1. UNCHANGED <<run, flags, exit, parsed, outcome>> /\ step' \in {"concluded"} \cup Over
        /\ (tree' = tree \/ tree' = "late")
    BY <1>1, EndedRunIsFrozen DEF Cancel, Settle, OutsiderEdits, Persist, Keep, core, process,
       evidenceVars, Over
  <2>2. UNCHANGED StopReason
    BY <2>1 DEF StopReason
  <2>3. ResultIsTold => ResultIsTold'
    BY <2>1, <2>2 DEF ResultIsTold
  <2> QED
    BY <1>1, <2>1, <2>3 DEF Error, NoOutcome
<1>2. CASE Conclude
  <2>1. step' = "concluded" /\ UNCHANGED <<run, flags, exit, parsed, tree>>
    BY <1>2 DEF Conclude, Keep, core, process
  <2>2. UNCHANGED StopReason
    BY <2>1 DEF StopReason
  <2>3. PICK message \in BOOLEAN, pair \in BOOLEAN :
          outcome' = [kind |-> "result", stop |-> StopReason, success |-> Succeeds(pair) /\ message,
                      exit |-> exit, timedOut |-> flags.timedOut, pair |-> pair,
                      class |-> drift \/ ~((Succeeds(pair) /\ message) \/ flags.cancelled),
                      receipts |-> parsed \cap Receipts]
    BY <1>2 DEF Conclude
  <2>4. outcome' = [kind |-> "result", stop |-> StopReason, success |-> outcome'.success,
                    exit |-> exit, timedOut |-> flags.timedOut, pair |-> outcome'.pair,
                    class |-> outcome'.class, receipts |-> parsed \cap Receipts]
    BY <2>3
  <2>5. outcome'.success = (Succeeds(pair) /\ message) /\ outcome'.pair = pair
    BY <2>3
  <2>6. ASSUME outcome'.success
        PROVE  /\ run.receipts \subseteq parsed
               /\ run.strict => outcome'.pair
               /\ run.scoped => tree # "altered"
    <3>1. Succeeds(pair)
      BY <2>5, <2>6
    <3> QED
      BY <1>2, <2>5, <3>1 DEF Succeeds, TreeIsInspected, Conclude
  <2>7. ResultIsTold'
    BY <2>1, <2>2, <2>4, <2>6 DEF ResultIsTold
  <2> QED
    BY <2>1, <2>7
<1>3. CASE step \notin {"concluded"} \cup Over /\ ~Conclude
  BY <1>3, OutcomeArises DEF Throws, Error, NoOutcome
<1> QED
  BY <1>1, <1>2, <1>3

-----------------------------------------------------------------------------
\* What is settled is the outcome, or what an accepted cancellation makes of it.
LEMMA NormalizedOutcome ==
    ASSUME EvidenceInv, step = "concluded", NEW o, o = NormalizeAcceptedCancellation(outcome)
    PROVE  /\ o.kind \in {"error", "result"} /\ o.receipts \subseteq parsed
           /\ o.kind = "result" => outcome.kind = "result"
           /\ o.kind = "result" /\ mem.cancelled => o.stop = "cancelled"
           /\ ~mem.cancelled => o = outcome
<1> USE DEF EvidenceInv, OutcomeIsTold
<1>1. CASE outcome = Error
  BY <1>1 DEF NormalizeAcceptedCancellation, Error, NoOutcome
<1>2. CASE ResultIsTold
  <2>1. outcome.kind = "result" /\ outcome.receipts \subseteq parsed
    BY <1>2 DEF ResultIsTold
  <2>2. CASE o = outcome
    BY <2>1, <2>2 DEF NormalizeAcceptedCancellation
  <2>3. CASE mem.cancelled /\ o = Error
    BY <2>3 DEF Error, NoOutcome
  <2>4. CASE /\ mem.cancelled
             /\ o = [outcome EXCEPT !.success = FALSE, !.timedOut = FALSE, !.stop = "cancelled",
                                    !.class = FALSE]
    BY <1>2, <2>1, <2>4 DEF ResultIsTold
  <2> QED
    BY <2>2, <2>3, <2>4 DEF NormalizeAcceptedCancellation
<1> QED
  BY <1>1, <1>2

\* A claim that is told completed has the evidence of a result that says so.
LEMMA CompletedClaims ==
    ASSUME NEW c, Admissible(c), c.status = "completed"
    PROVE  /\ c.started /\ c.launched /\ c.outcome.kind = "result"
           /\ ResultStatus(c.outcome) = "completed" /\ c.outcome.success
           /\ c.outcome.exit = "zero" /\ c.outcome.stop = "completed"
<1>1. HasResultEvidence(c) /\ ResultIsConsistent(c)
  BY DEF Admissible, Terminal, HasOwnerEvidence
<1> QED
  BY <1>1 DEF Admissible, LaunchIsConsistent, HasResultEvidence, ResultIsConsistent

\* What a claim tells of a child is of one that was started and of receipts it has.
LEMMA AdmissibleClaims ==
    ASSUME NEW c, Admissible(c), c.status \in Terminal
    PROVE  /\ c.receipts # {} => c.started
           /\ "child_prompt_submitted" \in Names(c.events) => run.receipts \subseteq c.receipts
<1>1. CASE c.started
  BY <1>1 DEF Admissible, LaunchIsConsistent, PromptIsCovered
<1>2. CASE ~c.started
  <2>1. c.receipts = {} /\ \A e \in ToSet(c.events) : ~IsChilds(e)
    BY <1>2 DEF Admissible, HasOwnerEvidence, LifecycleIsDerivable, ResultIsConsistent
  <2>2. ASSUME NEW i \in DOMAIN c.events PROVE c.events[i][1] # "child_prompt_submitted"
    BY <2>1, <2>2 DEF ToSet, IsChilds, Childs
  <2> QED
    BY <2>1, <2>2 DEF Names
<1> QED
  BY <1>1, <1>2

\* The terminal claim the owner composes, if its validators admit it.
LEMMA SettledViewIsTrue ==
    ASSUME EvidenceInv, step = "concluded", NEW o, o = NormalizeAcceptedCancellation(outcome),
           NEW c, c = TerminalView(o), Admissible(c)
    PROVE  /\ c.status = "completed" =>
                /\ exit = "zero" /\ flags = NoFlags
                /\ run.receipts \subseteq c.receipts
                /\ run.strict => c.outcome.pair
                /\ run.scoped => tree # "altered"
           /\ c.status = "cancelled" <=> mem.cancelled
           /\ c.status = "timed_out" => flags.timedOut
           /\ c.started <=> mem.started
           /\ c.receipts # {} => c.started
           /\ "child_prompt_submitted" \in Names(c.events) => run.receipts \subseteq parsed
<1> USE DEF EvidenceInv
<1>1. /\ c.status = IF o.kind = "result" THEN ResultStatus(o)
                    ELSE IF mem.cancelled THEN "cancelled" ELSE "failed"
      /\ c.started = mem.started
      /\ c.receipts = mem.receipts \cup o.receipts
      /\ o.kind # "error" => c.outcome = o
  BY DEF TerminalView
<1>2. c.status \in Terminal
  BY <1>1 DEF ResultStatus, Terminal
<1>3. /\ o.kind \in {"error", "result"} /\ o.receipts \subseteq parsed
      /\ o.kind = "result" => outcome.kind = "result"
      /\ o.kind = "result" /\ mem.cancelled => o.stop = "cancelled"
      /\ ~mem.cancelled => o = outcome
  BY NormalizedOutcome
<1>4. ASSUME o.kind = "result", ~mem.cancelled
      PROVE  ResultIsTold /\ o = outcome
  BY <1>3, <1>4 DEF OutcomeIsTold, Error, NoOutcome
<1>5. c.receipts \subseteq parsed
  BY <1>1, <1>3 DEF EvidenceShapes
<1>6. c.status = "cancelled" => mem.cancelled
  <2> SUFFICES ASSUME c.status = "cancelled", ~mem.cancelled PROVE FALSE
    OBVIOUS
  <2>1. o.kind = "result" /\ o.stop = "cancelled"
    BY <1>1, <1>3 DEF ResultStatus
  <2>2. StopReason = "cancelled"
    BY <1>4, <2>1 DEF ResultIsTold
  <2> QED
    BY <2>2 DEF StopReason, CancellationsAreAccepted
<1>7. mem.cancelled => c.status = "cancelled"
  BY <1>1, <1>3 DEF ResultStatus
<1>8. c.status = "timed_out" => flags.timedOut
  <2> SUFFICES ASSUME c.status = "timed_out" PROVE flags.timedOut
    OBVIOUS
  <2>1. ~mem.cancelled /\ o.kind = "result"
    BY <1>1, <1>3, <1>7
  <2>2. o.timedOut \/ o.stop = "timeout"
    BY <1>1, <2>1 DEF ResultStatus
  <2>3. o.timedOut = flags.timedOut /\ o.stop = StopReason
    BY <1>4, <2>1 DEF ResultIsTold
  <2> QED
    BY <2>2, <2>3 DEF StopReason
<1>9. ASSUME c.status = "completed"
      PROVE  /\ exit = "zero" /\ flags = NoFlags
             /\ run.receipts \subseteq c.receipts
             /\ run.strict => c.outcome.pair
             /\ run.scoped => tree # "altered"
  <2>1. ~mem.cancelled /\ o.kind = "result"
    BY <1>1, <1>3, <1>7, <1>9
  <2>2. c.outcome = outcome /\ outcome.success /\ outcome.stop = "completed" /\ ResultIsTold
    BY <1>1, <1>4, <1>9, <2>1, CompletedClaims
  <2>3. StopReason = "completed"
    BY <2>2 DEF ResultIsTold
  <2>4. exit = "zero" /\ ~flags.spawnError /\ ~flags.exhausted /\ ~flags.timedOut
        /\ ~flags.cancelled /\ ~flags.outputError
    BY <2>3 DEF StopReason
  <2>5. flags = NoFlags
    BY <2>4 DEF NoFlags, EvidenceShapes, CancellationsAreAccepted
  <2>6. run.receipts \subseteq parsed \cap Receipts
    BY <2>2, RunsAreDeclarations DEF ResultIsTold, EvidenceShapes, IsDeclaration
  <2>7. outcome.receipts = parsed \cap Receipts
    BY <2>2 DEF ResultIsTold
  <2> QED
    BY <1>1, <1>4, <2>1, <2>2, <2>4, <2>5, <2>6, <2>7 DEF ResultIsTold
<1> QED
  BY <1>1, <1>2, <1>5, <1>6, <1>7, <1>8, <1>9, AdmissibleClaims

\* A terminal claim is written by the settlement, and nothing changes behind it.
LEMMA TruthStep ==
    EvidenceInv /\ [EvidenceNext]_evidenceVars => TerminalClaimIsTrue'
<1> SUFFICES ASSUME EvidenceInv, [EvidenceNext]_evidenceVars PROVE TerminalClaimIsTrue'
  OBVIOUS
<1>1. CASE step \in Over
  <2>1. UNCHANGED evidenceVars
    BY <1>1, EndedRunIsFrozen DEF Over
  <2> QED
    BY <2>1 DEF EvidenceInv, TerminalClaimIsTrue, evidenceVars
<1>2. CASE step \notin Over /\ ~Settle
  BY <1>2, OnlySettleEnds, ClaimStep DEF ClaimIsOpen, TerminalClaimIsTrue, Terminal
<1>3. CASE Settle
  <2> DEFINE o == NormalizeAcceptedCancellation(outcome)
             c == TerminalView(o)
  <2>1. step = "concluded" /\ (claim' = claim \/ (claim' = c /\ Acceptable(c)))
    BY <1>3 DEF Settle, Persist
  <2>2. UNCHANGED <<run, mem, flags, exit, tree, parsed>>
    BY <1>3 DEF Settle, Keep, core, process
  <2>3. CASE claim' = claim
    BY <2>1, <2>3 DEF EvidenceInv, ClaimIsOpen, TerminalClaimIsTrue, Terminal, Over
  <2>4. CASE claim' = c /\ Acceptable(c)
    <3>1. Admissible(c)
      BY <2>4 DEF Acceptable
    <3> HIDE DEF o, c
    <3> QED
      BY <2>1, <2>2, <2>4, <3>1, SettledViewIsTrue DEF TerminalClaimIsTrue, o, c
  <2> QED
    BY <2>1, <2>3, <2>4
<1> QED
  BY <1>1, <1>2, <1>3

-----------------------------------------------------------------------------
\* The invariant holds in every behaviour of a run and its claim (runTask.ts,
\* runSubagent.ts, processRunner.ts, piChild.ts).
THEOREM EvidenceInvariance == EvidenceSpec => []EvidenceInv
<1>1. EvidenceInit => EvidenceInv
  BY DEF EvidenceInit, EvidenceInv, EvidenceShapes, ChildRuns, CancellationsAreAccepted,
     TreeIsInspected, OutcomeIsTold, ClaimIsOpen, TerminalClaimIsTrue, Running, Over, Terminal,
     NoFlags, NoLine, None
<1>2. EvidenceInv /\ [EvidenceNext]_evidenceVars => EvidenceInv'
  BY ShapesStep, ChildRunsStep, CancellationsStep, TreeStep, OutcomeStep, ClaimStep, TruthStep
  DEF EvidenceInv
<1> QED
  BY <1>1, <1>2, PTL DEF EvidenceSpec

\* What a terminal claim says is what happened, for every declaration of a run and however
\* many lines, cancellations and failed writes (writeRunClaimOwned, settleRunClaim).
THEOREM TrueTerminalClaims == EvidenceSpec => []TerminalClaimIsTrue
  BY EvidenceInvariance, PTL DEF EvidenceInv

-----------------------------------------------------------------------------
(***************************************************************************)
(* The second invariant of the evidence: why a terminal view is accepted.  *)
(***************************************************************************)
\* What the owner tells of a run: the run once, its child once, one cancellation at most.
Told == ({"run_started", "child_spawned", "child_prompt_submitted", "lifecycle", "message"} \X {0})
          \cup ({"cancellation_requested"} \X Nat)

IsCancellation(e) == e[1] = "cancellation_requested"

AnchorsAreSingle(events) ==
    \A i, j \in DOMAIN events : events[i] = events[j] /\ IsAnchor(events[i]) => i = j

\* The events of an owner's copy of the run agree with its other fields.
StoryAgrees(m) ==
    /\ m.events \in Seq(Told) /\ Len(m.events) <= MaxRecent /\ AnchorsAreSingle(m.events)
    /\ Event("child_spawned") \in ToSet(m.events) <=> m.started
    /\ Event("child_prompt_submitted") \in ToSet(m.events) => run.receipts \subseteq m.receipts
    /\ \A e, f \in ToSet(m.events) : IsCancellation(e) /\ IsCancellation(f) => e = f
    /\ ~m.cancelled => \A e \in ToSet(m.events) : ~IsCancellation(e)
    /\ m.started => m.launched
    /\ ~m.started => m.receipts = {}
    /\ m.receipts \subseteq Receipts

\* Receipts come from a child that was let run.
MemoryIsCaused ==
    /\ StoryAgrees(mem)
    /\ step \in {"granted", "running"} => mem.launched
    /\ line # NoLine \/ child \in {"running", "bound", "open"} => mem.started

\* Without a child that was let run the owner's flags tell why there is none.
FlagsAreCaused ==
    /\ step \in {"preparing", "granted"} => flags = NoFlags
    /\ step \in {"finished", "inspected"} =>
         mem.started \/ flags.spawnError \/ flags = [NoFlags EXCEPT !.cancelled = TRUE]

\* How a result was put together, and that its child was let run.
ResultIsCaused ==
    outcome.kind = "result" =>
        /\ mem.started \/ flags.spawnError \/ flags = [NoFlags EXCEPT !.cancelled = TRUE]
        /\ outcome.success =>
             /\ exit = "zero" /\ run.receipts \subseteq parsed
             /\ ~flags.timedOut /\ ~flags.cancelled /\ ~flags.exhausted
             /\ ~drift
        /\ outcome.class = (drift \/ ~(outcome.success \/ flags.cancelled))
        /\ outcome.pair => IsStrict(parsed)

\* The claim of a run that goes on was a copy of the owner's memory.
ClaimIsCopied ==
    step \notin Over =>
        /\ claim.events \in Seq(Told)
        /\ Event("child_spawned") \in ToSet(claim.events) => claim.started

CausesInv ==
    /\ EvidenceInv
    /\ failures \in Nat /\ cancels \in Nat
    /\ MemoryIsCaused /\ FlagsAreCaused /\ ResultIsCaused /\ ClaimIsCopied
    /\ RejectionsAreExplained

-----------------------------------------------------------------------------
(***************************************************************************)
(* The lists of events.  Induction over numbers is stated with a set in    *)
(* the place of a predicate; it rests on the order of the numbers.         *)
(***************************************************************************)
LEMMA LeastNumber ==
    ASSUME NEW S, S \subseteq Nat, S # {}
    PROVE  \E x \in S : \A y \in S : x <= y
<1>1. PICK x \in S : \A y \in S : ~ (<<y, x>> \in OpToRel(<, Nat))
  BY NatLessThanWellFounded, WFMin
<1>2. ASSUME NEW y \in S PROVE x <= y
  <2>1. <<y, x>> \notin OpToRel(<, Nat) /\ x \in Nat /\ y \in Nat
    BY <1>1
  <2> QED
    BY <2>1 DEF OpToRel
<1> QED
  BY <1>2

\* Induction over the numbers.
LEMMA EveryNumber ==
    ASSUME NEW G, 0 \in G, \A n \in Nat : n \in G => n + 1 \in G
    PROVE  Nat \subseteq G
<1> SUFFICES ASSUME Nat \ G # {} PROVE FALSE
  OBVIOUS
<1>1. PICK x \in Nat \ G : \A y \in Nat \ G : x <= y
  <2>1. Nat \ G \subseteq Nat
    OBVIOUS
  <2> QED
    BY <2>1, LeastNumber
<1>2. x - 1 \in Nat /\ (x - 1) + 1 = x /\ x - 1 \in G
  BY <1>1
<1> QED
  BY <1>1, <1>2

\* The partial results of Without, up to a position.
Keeps(f, s, names, n) ==
    f = [i \in 0 .. n |-> IF i = 0 THEN <<>>
                          ELSE IF s[i][1] \in names THEN f[i - 1]
                          ELSE Append(f[i - 1], s[i])]

\* What is kept of the first n events: all that have another name; none more often than before.
KeptOf(w, s, names, n) ==
    /\ Len(w) <= n
    /\ \A k \in 1 .. Len(w) : \E i \in 1 .. n : w[k] = s[i] /\ s[i][1] \notin names
    /\ \A i \in 1 .. n : s[i][1] \notin names => \E k \in 1 .. Len(w) : w[k] = s[i]
    /\ \A k, l \in 1 .. Len(w) :
         k # l /\ w[k] = w[l] => \E i, j \in 1 .. n : i # j /\ s[i] = w[k] /\ s[j] = w[k]

\* One more event, kept or left out.
LEMMA KeptGrows ==
    ASSUME NEW T, NEW s \in Seq(T), NEW names, NEW n \in Nat, n + 1 <= Len(s),
           NEW w \in Seq(T), KeptOf(w, s, names, n)
    PROVE  /\ s[n + 1][1] \in names => KeptOf(w, s, names, n + 1)
           /\ s[n + 1][1] \notin names => /\ Append(w, s[n + 1]) \in Seq(T)
                                          /\ KeptOf(Append(w, s[n + 1]), s, names, n + 1)
<1>1. ASSUME s[n + 1][1] \in names PROVE KeptOf(w, s, names, n + 1)
  <2>1. Len(w) <= n + 1
    BY DEF KeptOf
  <2>2. \A k \in 1 .. Len(w) : \E i \in 1 .. n + 1 : w[k] = s[i] /\ s[i][1] \notin names
    <3>1. \A k \in 1 .. Len(w) : \E i \in 1 .. n : w[k] = s[i] /\ s[i][1] \notin names
      BY DEF KeptOf
    <3>2. 1 .. n \subseteq 1 .. n + 1
      OBVIOUS
    <3> QED
      BY <3>1, <3>2
  <2>3. \A i \in 1 .. n + 1 : s[i][1] \notin names => \E k \in 1 .. Len(w) : w[k] = s[i]
    <3>1. ASSUME NEW i \in 1 .. n + 1, s[i][1] \notin names PROVE i \in 1 .. n
      BY <1>1, <3>1
    <3> QED
      BY <3>1 DEF KeptOf
  <2>4. ASSUME NEW k \in 1 .. Len(w), NEW l \in 1 .. Len(w), k # l, w[k] = w[l]
        PROVE  \E i, j \in 1 .. n + 1 : i # j /\ s[i] = w[k] /\ s[j] = w[k]
    <3>1. PICK i \in 1 .. n, j \in 1 .. n : i # j /\ s[i] = w[k] /\ s[j] = w[k]
      BY <2>4 DEF KeptOf
    <3> QED
      BY <3>1
  <2> QED
    BY <2>1, <2>2, <2>3, <2>4 DEF KeptOf
<1>2. ASSUME s[n + 1][1] \notin names
      PROVE  /\ Append(w, s[n + 1]) \in Seq(T)
             /\ KeptOf(Append(w, s[n + 1]), s, names, n + 1)
  <2> DEFINE v == Append(w, s[n + 1])
  <2>1. /\ v \in Seq(T) /\ Len(v) = Len(w) + 1 /\ Len(w) \in Nat
        /\ v[Len(w) + 1] = s[n + 1] /\ \A k \in 1 .. Len(w) : v[k] = w[k]
    OBVIOUS
  <2> HIDE DEF v
  <2>2. \A k \in 1 .. Len(v) : \E i \in 1 .. n + 1 : v[k] = s[i] /\ s[i][1] \notin names
    <3> TAKE k \in 1 .. Len(v)
    <3>1. CASE k = Len(w) + 1
      BY <1>2, <2>1, <3>1
    <3>2. CASE k \in 1 .. Len(w)
      <4>1. \E i \in 1 .. n : w[k] = s[i] /\ s[i][1] \notin names
        BY <3>2 DEF KeptOf
      <4> QED
        BY <2>1, <3>2, <4>1
    <3> QED
      BY <2>1, <3>1, <3>2
  <2>3. \A i \in 1 .. n + 1 : s[i][1] \notin names => \E k \in 1 .. Len(v) : v[k] = s[i]
    <3> SUFFICES ASSUME NEW i \in 1 .. n + 1, s[i][1] \notin names
                 PROVE  \E k \in 1 .. Len(v) : v[k] = s[i]
      OBVIOUS
    <3>1. CASE i = n + 1
      BY <2>1, <3>1
    <3>2. CASE i \in 1 .. n
      <4>1. PICK k \in 1 .. Len(w) : w[k] = s[i]
        BY <3>2 DEF KeptOf
      <4> QED
        BY <2>1, <4>1
    <3> QED
      BY <3>1, <3>2
  <2>4. \A k, l \in 1 .. Len(v) :
          k # l /\ v[k] = v[l] => \E i, j \in 1 .. n + 1 : i # j /\ s[i] = v[k] /\ s[j] = v[k]
    <3>1. ASSUME NEW k \in 1 .. Len(w)
          PROVE  \E i \in 1 .. n : i # n + 1 /\ s[i] = v[k]
      BY <2>1, <3>1 DEF KeptOf
    <3>2. ASSUME NEW k \in 1 .. Len(v), NEW l \in 1 .. Len(v), k # l, v[k] = v[l]
          PROVE  \E i, j \in 1 .. n + 1 : i # j /\ s[i] = v[k] /\ s[j] = v[k]
      <4>1. CASE k \in 1 .. Len(w) /\ l \in 1 .. Len(w)
        <5>1. w[k] = v[k] /\ w[l] = v[l]
          BY <2>1, <4>1
        <5>2. PICK i \in 1 .. n, j \in 1 .. n : i # j /\ s[i] = w[k] /\ s[j] = w[k]
          BY <3>2, <4>1, <5>1 DEF KeptOf
        <5> QED
          BY <5>1, <5>2
      <4>2. CASE k = Len(w) + 1
        <5>1. l \in 1 .. Len(w)
          BY <2>1, <3>2, <4>2
        <5>2. PICK i \in 1 .. n : i # n + 1 /\ s[i] = v[l]
          BY <3>1, <5>1
        <5>3. s[n + 1] = v[k] /\ i \in 1 .. n + 1 /\ n + 1 \in 1 .. n + 1
          BY <2>1, <4>2
        <5>4. s[i] = v[k]
          BY <3>2, <5>2
        <5> QED
          BY <5>2, <5>3, <5>4
      <4>3. CASE l = Len(w) + 1
        <5>1. k \in 1 .. Len(w)
          BY <2>1, <3>2, <4>3
        <5>2. PICK i \in 1 .. n : i # n + 1 /\ s[i] = v[k]
          BY <3>1, <5>1
        <5>3. s[n + 1] = v[k] /\ i \in 1 .. n + 1 /\ n + 1 \in 1 .. n + 1
          BY <2>1, <3>2, <4>3
        <5> QED
          BY <5>2, <5>3
      <4> QED
        BY <2>1, <4>1, <4>2, <4>3
    <3> QED
      BY <3>2
  <2>5. Len(v) <= n + 1
    BY <2>1 DEF KeptOf
  <2> QED
    BY <2>1, <2>2, <2>3, <2>4, <2>5 DEF KeptOf, v
<1> QED
  BY <1>1, <1>2

\* What such a function gives, and that there is one.
LEMMA KeepingKeeps ==
    ASSUME NEW T, NEW s \in Seq(T), NEW names, NEW f, Keeps(f, s, names, Len(s))
    PROVE  f[Len(s)] \in Seq(T) /\ KeptOf(f[Len(s)], s, names, Len(s))
<1> DEFINE G == {n \in Nat : n <= Len(s) => f[n] \in Seq(T) /\ KeptOf(f[n], s, names, n)}
<1>1. ASSUME NEW i \in 0 .. Len(s)
      PROVE  f[i] = IF i = 0 THEN <<>>
                    ELSE IF s[i][1] \in names THEN f[i - 1] ELSE Append(f[i - 1], s[i])
  BY DEF Keeps
<1>2. 0 \in G
  <2>1. 0 \in 0 .. Len(s)
    OBVIOUS
  <2>2. f[0] = <<>> /\ f[0] \in Seq(T)
    <3>1. f[0] = <<>>
      BY <1>1, <2>1, Zenon
    <3> QED
      BY <3>1
  <2>3. KeptOf(<<>>, s, names, 0)
    BY DEF KeptOf
  <2> QED
    BY <2>2, <2>3
<1>3. ASSUME NEW n \in Nat, n \in G PROVE n + 1 \in G
  <2> SUFFICES ASSUME n + 1 <= Len(s)
               PROVE  f[n + 1] \in Seq(T) /\ KeptOf(f[n + 1], s, names, n + 1)
    OBVIOUS
  <2>1. f[n] \in Seq(T) /\ KeptOf(f[n], s, names, n)
    <3>1. n <= Len(s)
      OBVIOUS
    <3> QED
      BY <1>3, <3>1
  <2>2. f[n + 1] = IF s[n + 1][1] \in names THEN f[n] ELSE Append(f[n], s[n + 1])
    <3>1. n + 1 \in 0 .. Len(s) /\ n + 1 # 0 /\ (n + 1) - 1 = n
      OBVIOUS
    <3> QED
      BY <1>1, <3>1
  <2>3. /\ s[n + 1][1] \in names => KeptOf(f[n], s, names, n + 1)
        /\ s[n + 1][1] \notin names => /\ Append(f[n], s[n + 1]) \in Seq(T)
                                       /\ KeptOf(Append(f[n], s[n + 1]), s, names, n + 1)
    BY <2>1, KeptGrows
  <2> QED
    BY <2>1, <2>2, <2>3
<1> HIDE DEF G
<1>4. Nat \subseteq G
  BY <1>2, <1>3, EveryNumber
<1>5. Len(s) \in G
  BY <1>4
<1> QED
  BY <1>5 DEF G

\* There is a function that keeps, for every list.
LEMMA KeepingExists ==
    ASSUME NEW s, Len(s) \in Nat, NEW names
    PROVE  \E f : Keeps(f, s, names, Len(s))
<1> DEFINE G == {n \in Nat : \E f : Keeps(f, s, names, n)}
<1>1. 0 \in G
  <2>1. Keeps([i \in 0 .. 0 |-> <<>>], s, names, 0)
    BY DEF Keeps
  <2> QED
    BY <2>1
<1>2. ASSUME NEW n \in Nat, n \in G PROVE n + 1 \in G
  <2>1. PICK f : Keeps(f, s, names, n)
    BY <1>2
  <2> DEFINE last == IF s[n + 1][1] \in names THEN f[n] ELSE Append(f[n], s[n + 1])
             g == [i \in 0 .. n + 1 |-> IF i <= n THEN f[i] ELSE last]
  <2>2. ASSUME NEW i \in 0 .. n
        PROVE  f[i] = IF i = 0 THEN <<>>
                      ELSE IF s[i][1] \in names THEN f[i - 1] ELSE Append(f[i - 1], s[i])
    BY <2>1 DEF Keeps
  <2>3. ASSUME NEW i \in 0 .. n + 1
        PROVE  g[i] = IF i = 0 THEN <<>>
                      ELSE IF s[i][1] \in names THEN g[i - 1] ELSE Append(g[i - 1], s[i])
    <3>1. CASE i \in 0 .. n
      <4>1. g[i] = f[i] /\ (i # 0 => g[i - 1] = f[i - 1])
        BY <3>1
      <4> QED
        BY <2>2, <3>1, <4>1
    <3>2. CASE i = n + 1
      BY <3>2
    <3> QED
      BY <3>1, <3>2
  <2>4. Keeps(g, s, names, n + 1)
    <3>1. g = [i \in 0 .. n + 1 |-> g[i]]
      OBVIOUS
    <3> HIDE DEF g
    <3> QED
      BY <2>3, <3>1 DEF Keeps
  <2> QED
    BY <2>4
<1> HIDE DEF G
<1>3. Nat \subseteq G
  BY <1>1, <1>2, EveryNumber
<1>4. Len(s) \in G
  BY <1>3
<1> QED
  BY <1>4 DEF G

\* What Without leaves of a list of events.
LEMMA KeptEvents ==
    ASSUME NEW T, NEW s \in Seq(T), NEW names
    PROVE  Without(s, names) \in Seq(T) /\ KeptOf(Without(s, names), s, names, Len(s))
<1> DEFINE f == CHOOSE f : Keeps(f, s, names, Len(s))
<1>1. Len(s) \in Nat
  OBVIOUS
<1>2. Keeps(f, s, names, Len(s))
  BY <1>1, KeepingExists, Zenon
<1>3. Without(s, names) = f[Len(s)]
  BY DEF Without, Keeps
<1>4. f[Len(s)] \in Seq(T) /\ KeptOf(f[Len(s)], s, names, Len(s))
  <2> HIDE DEF f
  <2> QED
    BY <1>2, KeepingKeeps
<1> QED
  BY <1>3, <1>4

-----------------------------------------------------------------------------
(***************************************************************************)
(* What the list of a claim keeps.  A list thins another when it has no    *)
(* other events, and none of them more often.                              *)
(***************************************************************************)
Thins(w, s) ==
    /\ Len(w) <= Len(s)
    /\ \A k \in 1 .. Len(w) : \E i \in 1 .. Len(s) : w[k] = s[i]
    /\ \A k, l \in 1 .. Len(w) :
         k # l /\ w[k] = w[l] =>
             \E i, j \in 1 .. Len(s) : i # j /\ s[i] = w[k] /\ s[j] = w[k]

\* The length of two lists that are joined.
LEMMA JoinedLength ==
    ASSUME NEW T, NEW a \in Seq(T), NEW b \in Seq(T)
    PROVE  Len(a \o b) = Len(a) + Len(b)
  OBVIOUS

\* One place of a list is left out.
LEMMA RemovedOne ==
    ASSUME NEW T, NEW s \in Seq(T), NEW m \in 1 .. Len(s)
    PROVE  LET r == RemoveAt(s, m) IN
           /\ r \in Seq(T) /\ Len(r) = Len(s) - 1
           /\ \A k \in 1 .. Len(r) : r[k] = IF k < m THEN s[k] ELSE s[k + 1]
<1> DEFINE a == SubSeq(s, 1, m - 1)
           b == SubSeq(s, m + 1, Len(s))
<1>1. /\ a \in Seq(T) /\ Len(a) = m - 1
      /\ \A k \in 1 .. m - 1 : a[k] = s[k]
  OBVIOUS
<1>2. /\ b \in Seq(T) /\ Len(b) = Len(s) - m
      /\ \A k \in 1 .. Len(s) - m : b[k] = s[m + k]
  <2>1. CASE m = Len(s)
    BY <2>1
  <2>2. CASE m < Len(s)
    BY <2>2
  <2> QED
    BY <2>1, <2>2
<1>3. RemoveAt(s, m) = a \o b
  BY DEF RemoveAt
<1> HIDE DEF a, b
<1>4. /\ a \o b \in Seq(T) /\ Len(a \o b) = Len(s) - 1
      /\ \A k \in 1 .. Len(s) - 1 : (a \o b)[k] = IF k <= m - 1 THEN a[k] ELSE b[k - (m - 1)]
  <2>1. a \o b \in Seq(T)
    BY <1>1, <1>2
  <2>2. Len(a \o b) = Len(a) + Len(b)
    BY <1>1, <1>2, JoinedLength
  <2>3. \A k \in 1 .. Len(a) + Len(b) :
          (a \o b)[k] = IF k <= Len(a) THEN a[k] ELSE b[k - Len(a)]
    BY <1>1, <1>2
  <2>4. Len(a) = m - 1 /\ Len(a) + Len(b) = Len(s) - 1
    BY <1>1, <1>2
  <2> QED
    BY <2>1, <2>2, <2>3, <2>4
<1> DEFINE r == a \o b
<1>5. ASSUME NEW k \in 1 .. Len(s) - 1 PROVE r[k] = IF k < m THEN s[k] ELSE s[k + 1]
  <2> HIDE DEF r
  <2>1. CASE k < m
    <3>1. k \in 1 .. m - 1 /\ r[k] = a[k]
      BY <1>4, <2>1 DEF r
    <3> QED
      BY <1>1, <2>1, <3>1
  <2>2. CASE ~(k < m)
    <3>1. k - (m - 1) \in 1 .. Len(s) - m /\ m + (k - (m - 1)) = k + 1
      BY <2>2
    <3>2. r[k] = b[k - (m - 1)]
      BY <1>4, <2>2 DEF r
    <3> QED
      BY <1>2, <2>2, <3>1, <3>2
  <2> QED
    BY <2>1, <2>2
<1> QED
  BY <1>3, <1>4, <1>5

\* Among the first three of single anchors and others there is another.
LEMMA RoomBesideAnchors ==
    ASSUME NEW T, NEW t \in Seq(T), Len(t) = MaxRecent, AnchorsAreSingle(t),
           \A x \in T : IsAnchor(x) => x \in {Event("run_started"), Event("child_spawned")}
    PROVE  \E i \in 1 .. Len(t) : ~IsAnchor(t[i])
<1>1. 1 \in 1 .. Len(t) /\ 2 \in 1 .. Len(t) /\ 3 \in 1 .. Len(t)
  BY RecentHasRoom, EvidenceBounds
<1> SUFFICES ASSUME IsAnchor(t[1]), IsAnchor(t[2]), IsAnchor(t[3]) PROVE FALSE
  BY <1>1
<1>2. /\ t[1] \in {Event("run_started"), Event("child_spawned")}
      /\ t[2] \in {Event("run_started"), Event("child_spawned")}
      /\ t[3] \in {Event("run_started"), Event("child_spawned")}
  <2>1. t[1] \in T /\ t[2] \in T /\ t[3] \in T
    BY <1>1
  <2> QED
    BY <2>1
<1>3. DOMAIN t = 1 .. Len(t)
  OBVIOUS
<1>4. t[1] # t[2] /\ t[1] # t[3] /\ t[2] # t[3]
  BY <1>1, <1>3 DEF AnchorsAreSingle
<1> QED
  BY <1>2, <1>4

\* Recent keeps the newest event and the anchors.
LEMMA RecentKeeps ==
    ASSUME NEW T, NEW t \in Seq(T), Len(t) <= MaxRecent, AnchorsAreSingle(t),
           \A x \in T : IsAnchor(x) => x \in {Event("run_started"), Event("child_spawned")},
           NEW e \in T
    PROVE  LET r == Recent(Append(t, e)) IN
           /\ r \in Seq(T) /\ Len(r) <= MaxRecent /\ Thins(r, Append(t, e))
           /\ e \in ToSet(r)
           /\ \A x \in ToSet(t) : IsAnchor(x) => x \in ToSet(r)
<1> DEFINE s == Append(t, e)
           r == Recent(s)
<1>1. /\ s \in Seq(T) /\ Len(s) = Len(t) + 1 /\ Len(t) \in Nat /\ MaxRecent \in Nat
      /\ s[Len(t) + 1] = e /\ \A k \in 1 .. Len(t) : s[k] = t[k]
  BY EvidenceBounds
<1> HIDE DEF s
<1>2. DOMAIN s = 1 .. Len(s) /\ DOMAIN t = 1 .. Len(t)
  BY <1>1
<1>3. CASE Len(s) <= MaxRecent
  <2>1. r = s
    BY <1>3 DEF Recent
  <2>2. Thins(s, s)
    BY <1>1 DEF Thins
  <2>3. e \in ToSet(s) /\ \A x \in ToSet(t) : x \in ToSet(s)
    BY <1>1, <1>2 DEF ToSet
  <2> QED
    BY <1>1, <1>3, <2>1, <2>2, <2>3 DEF s
<1>4. CASE ~(Len(s) <= MaxRecent)
  <2>1. Len(t) = MaxRecent
    BY <1>1, <1>4
  <2> DEFINE D == {i \in DOMAIN s : ~IsAnchor(s[i])}
             m == Min(D)
  <2>2. PICK i \in 1 .. Len(t) : ~IsAnchor(t[i])
    BY <2>1, RoomBesideAnchors
  <2>3. i \in D
    BY <1>1, <1>2, <2>2
  <2>4. \E x \in D : \A y \in D : x <= y
    <3>1. D \subseteq Nat /\ D # {}
      BY <1>1, <1>2, <2>3
    <3> HIDE DEF D
    <3> QED
      BY <3>1, LeastNumber
  <2>5. m \in D /\ \A y \in D : m <= y
    <3> HIDE DEF D
    <3> QED
      BY <2>4 DEF Min
  <2>6. m \in 1 .. Len(t) /\ ~IsAnchor(s[m])
    <3>1. m \in 1 .. Len(s) /\ m <= i /\ ~IsAnchor(s[m])
      <4> HIDE DEF m
      <4> QED
        BY <1>2, <2>3, <2>5
    <3> HIDE DEF m
    <3> QED
      BY <1>1, <3>1
  <2>7. r = RemoveAt(s, m)
    BY <1>4 DEF Recent
  <2> HIDE DEF m, r
  <2>8. /\ r \in Seq(T) /\ Len(r) = Len(s) - 1
        /\ \A k \in 1 .. Len(r) : r[k] = IF k < m THEN s[k] ELSE s[k + 1]
    <3>1. m \in 1 .. Len(s)
      BY <1>1, <2>6
    <3> QED
      BY <1>1, <2>7, <3>1, RemovedOne
  <2>9. DOMAIN r = 1 .. Len(r) /\ Len(r) = Len(t)
    BY <1>1, <2>8
  <2>10. Thins(r, s)
    <3> DEFINE at(k) == IF k < m THEN k ELSE k + 1
    <3>1. ASSUME NEW k \in 1 .. Len(r) PROVE at(k) \in 1 .. Len(s) /\ r[k] = s[at(k)]
      BY <1>1, <2>6, <2>8
    <3>2. ASSUME NEW k \in 1 .. Len(r), NEW l \in 1 .. Len(r), k # l PROVE at(k) # at(l)
      BY <1>1, <2>6, <2>8, <3>2
    <3> HIDE DEF at
    <3>3. \A k \in 1 .. Len(r) : \E j \in 1 .. Len(s) : r[k] = s[j]
      BY <3>1
    <3>4. ASSUME NEW k \in 1 .. Len(r), NEW l \in 1 .. Len(r), k # l, r[k] = r[l]
          PROVE  \E j, h \in 1 .. Len(s) : j # h /\ s[j] = r[k] /\ s[h] = r[k]
      <4>1. at(k) \in 1 .. Len(s) /\ r[k] = s[at(k)]
        BY <3>1
      <4>2. at(l) \in 1 .. Len(s) /\ r[l] = s[at(l)]
        BY <3>1
      <4>3. at(k) # at(l)
        BY <3>2, <3>4
      <4> QED
        BY <3>4, <4>1, <4>2, <4>3
    <3>5. Len(r) <= Len(s)
      BY <1>1, <2>9
    <3> QED
      BY <3>3, <3>4, <3>5 DEF Thins
  <2>11. e \in ToSet(r)
    <3>1. Len(t) \in 1 .. Len(r) /\ r[Len(t)] = e
      BY <1>1, <2>6, <2>8, <2>9
    <3> QED
      BY <2>9, <3>1 DEF ToSet
  <2>12. ASSUME NEW x \in ToSet(t), IsAnchor(x) PROVE x \in ToSet(r)
    <3>1. PICK k \in 1 .. Len(t) : x = t[k]
      BY <1>2 DEF ToSet
    <3>2. s[k] = x /\ k # m
      BY <1>1, <2>6, <2>12, <3>1
    <3>3. CASE k < m
      <4>1. r[k] = x
        BY <2>8, <2>9, <3>1, <3>2, <3>3
      <4> QED
        BY <2>9, <3>1, <4>1 DEF ToSet
    <3>4. CASE k > m
      <4>1. k - 1 \in 1 .. Len(r) /\ ~(k - 1 < m) /\ (k - 1) + 1 = k
        BY <2>6, <2>9, <3>1, <3>4
      <4>2. r[k - 1] = x
        BY <2>8, <3>2, <4>1
      <4> QED
        BY <2>9, <4>1, <4>2 DEF ToSet
    <3> QED
      BY <2>6, <3>1, <3>2, <3>3, <3>4
  <2>13. Len(r) <= MaxRecent
    BY <2>1, <2>9
  <2> QED
    BY <2>8, <2>10, <2>11, <2>12, <2>13 DEF r, s
<1> QED
  BY <1>3, <1>4

-----------------------------------------------------------------------------
(***************************************************************************)
(* What the owner remembers agrees with what it has told.                  *)
(***************************************************************************)
LEMMA ToldAnchors ==
    ASSUME NEW x \in Told \cup {Event("settled")}
    PROVE  /\ IsAnchor(x) => x \in {Event("run_started"), Event("child_spawned")}
           /\ x[1] = "child_spawned" => x = Event("child_spawned")
           /\ x[1] = "child_prompt_submitted" => x = Event("child_prompt_submitted")
           /\ x[1] = "settled" => x = Event("settled")
           /\ x \in Told => x[1] # "settled" /\ x # Event("settled")
  BY DEF Told, Event, IsAnchor

\* A list that thins one with single anchors has single anchors.
LEMMA ThinAnchors ==
    ASSUME NEW T, NEW s \in Seq(T), NEW w \in Seq(T), Thins(w, s), AnchorsAreSingle(s)
    PROVE  AnchorsAreSingle(w)
<1>1. DOMAIN s = 1 .. Len(s) /\ DOMAIN w = 1 .. Len(w)
  OBVIOUS
<1>2. ASSUME NEW k \in 1 .. Len(w), NEW l \in 1 .. Len(w), w[k] = w[l], IsAnchor(w[k]), k # l
      PROVE  FALSE
  <2>1. PICK i \in 1 .. Len(s), j \in 1 .. Len(s) : i # j /\ s[i] = w[k] /\ s[j] = w[k]
    BY <1>2 DEF Thins
  <2> QED
    BY <1>1, <1>2, <2>1 DEF AnchorsAreSingle
<1> QED
  BY <1>1, <1>2 DEF AnchorsAreSingle

\* An event that is noted is there, the anchors stay, and nothing else comes in.
LEMMA NotedEvents ==
    ASSUME NEW t \in Seq(Told), Len(t) <= MaxRecent, AnchorsAreSingle(t),
           NEW e \in Told, IsAnchor(e) => e \notin ToSet(t)
    PROVE  LET r == Recent(Append(t, e)) IN
           /\ r \in Seq(Told) /\ Len(r) <= MaxRecent /\ AnchorsAreSingle(r)
           /\ e \in ToSet(r) /\ ToSet(r) \subseteq ToSet(t) \cup {e}
           /\ \A x \in ToSet(t) : IsAnchor(x) => x \in ToSet(r)
<1> DEFINE s == Append(t, e)
           r == Recent(s)
<1>1. /\ r \in Seq(Told) /\ Len(r) <= MaxRecent /\ Thins(r, s) /\ e \in ToSet(r)
      /\ \A x \in ToSet(t) : IsAnchor(x) => x \in ToSet(r)
  BY ToldAnchors, RecentKeeps
<1>2. /\ s \in Seq(Told) /\ Len(s) = Len(t) + 1 /\ Len(t) \in Nat
      /\ s[Len(t) + 1] = e /\ \A k \in 1 .. Len(t) : s[k] = t[k]
  OBVIOUS
<1> HIDE DEF s, r
<1>3. /\ DOMAIN s = 1 .. Len(s) /\ DOMAIN t = 1 .. Len(t) /\ DOMAIN r = 1 .. Len(r)
  BY <1>1, <1>2
<1>4. AnchorsAreSingle(s)
  <2>1. ASSUME NEW k \in 1 .. Len(t), IsAnchor(e) PROVE t[k] # e
    BY <1>3, <2>1 DEF ToSet
  <2>2. ASSUME NEW i \in 1 .. Len(s), NEW j \in 1 .. Len(s), s[i] = s[j], IsAnchor(s[i])
        PROVE  i = j
    <3>1. CASE i \in 1 .. Len(t) /\ j \in 1 .. Len(t)
      BY <1>2, <1>3, <2>2, <3>1 DEF AnchorsAreSingle
    <3>2. CASE i = Len(t) + 1 /\ j \in 1 .. Len(t)
      BY <1>2, <2>1, <2>2, <3>2
    <3>3. CASE j = Len(t) + 1 /\ i \in 1 .. Len(t)
      BY <1>2, <2>1, <2>2, <3>3
    <3> QED
      BY <1>2, <3>1, <3>2, <3>3
  <2> QED
    BY <1>3, <2>2 DEF AnchorsAreSingle
<1>5. AnchorsAreSingle(r)
  BY <1>1, <1>2, <1>4, ThinAnchors
<1>6. ToSet(r) \subseteq ToSet(t) \cup {e}
  <2> SUFFICES ASSUME NEW x \in ToSet(r) PROVE x \in ToSet(t) \cup {e}
    OBVIOUS
  <2>1. PICK k \in 1 .. Len(r) : x = r[k]
    BY <1>3 DEF ToSet
  <2>2. PICK i \in 1 .. Len(s) : x = s[i]
    BY <1>1, <2>1 DEF Thins
  <2>3. CASE i \in 1 .. Len(t)
    BY <1>2, <1>3, <2>2, <2>3 DEF ToSet
  <2> QED
    BY <1>2, <2>2, <2>3
<1> QED
  BY <1>1, <1>5, <1>6 DEF r, s

\* Noting an event keeps the owner's copy in agreement, when its fields say the same.
LEMMA NoteAgrees ==
    ASSUME NEW m, StoryAgrees(m), NEW e \in Told, NEW n,
           n.events = Recent(Append(m.events, e)),
           n.receipts = m.receipts, n.launched = m.launched,
           n.started <=> m.started \/ e = Event("child_spawned"),
           n.cancelled <=> m.cancelled \/ IsCancellation(e),
           e # Event("run_started"),
           e = Event("child_spawned") => ~m.started /\ m.launched,
           e = Event("child_prompt_submitted") => run.receipts \subseteq m.receipts,
           IsCancellation(e) => ~m.cancelled
    PROVE  StoryAgrees(n)
<1>1. m.events \in Seq(Told) /\ Len(m.events) <= MaxRecent /\ AnchorsAreSingle(m.events)
  BY DEF StoryAgrees
<1>2. IsAnchor(e) => e \notin ToSet(m.events)
  BY ToldAnchors DEF StoryAgrees
<1>3. /\ n.events \in Seq(Told) /\ Len(n.events) <= MaxRecent /\ AnchorsAreSingle(n.events)
      /\ e \in ToSet(n.events) /\ ToSet(n.events) \subseteq ToSet(m.events) \cup {e}
      /\ \A x \in ToSet(m.events) : IsAnchor(x) => x \in ToSet(n.events)
  BY <1>1, <1>2, NotedEvents
<1>4. IsAnchor(Event("child_spawned"))
  BY DEF IsAnchor, Event
<1>5. Event("child_spawned") \in ToSet(n.events) <=> n.started
  BY <1>3, <1>4 DEF StoryAgrees
<1>6. \A x, y \in ToSet(n.events) : IsCancellation(x) /\ IsCancellation(y) => x = y
  BY <1>3 DEF StoryAgrees
<1>7. ~n.cancelled => \A x \in ToSet(n.events) : ~IsCancellation(x)
  BY <1>3 DEF StoryAgrees
<1>8. Event("child_prompt_submitted") \in ToSet(n.events) => run.receipts \subseteq n.receipts
  BY <1>3 DEF StoryAgrees
<1> QED
  BY <1>3, <1>5, <1>6, <1>7, <1>8 DEF StoryAgrees

\* The writes of an active claim, and what the memory is then.
LEMMA GrantedMemory ==
    ASSUME CausesInv PROVE StoryAgrees([mem EXCEPT !.launched = TRUE])
  BY DEF CausesInv, MemoryIsCaused, EvidenceInv, EvidenceShapes, StoryAgrees

\* The launch that was observed.
LEMMA SpawnedMemory ==
    ASSUME CausesInv, ~mem.started, mem.launched
    PROVE  LET m == Note([mem EXCEPT !.started = TRUE], Event("child_spawned"))
           IN  StoryAgrees(m) /\ m.started /\ m.launched
<1> DEFINE e == Event("child_spawned")
           m == Note([mem EXCEPT !.started = TRUE], e)
<1>1. /\ m.events = Recent(Append(mem.events, e)) /\ m.receipts = mem.receipts
      /\ m.launched = mem.launched /\ m.started /\ m.cancelled = mem.cancelled
  BY DEF Note, CausesInv, EvidenceInv, EvidenceShapes
<1>2. e \in Told /\ ~IsCancellation(e) /\ e # Event("run_started")
      /\ e # Event("child_prompt_submitted")
  BY DEF Told, Event, IsCancellation
<1>3. StoryAgrees(mem)
  BY DEF CausesInv, MemoryIsCaused
<1>4. StoryAgrees(m)
  <2> HIDE DEF m
  <2> QED
    BY <1>1, <1>2, <1>3, NoteAgrees
<1> QED
  BY <1>1, <1>4

\* A receipt of a child that was let run.
LEMMA ReceivedMemory ==
    ASSUME CausesInv, mem.started, NEW name \in Receipts
    PROVE  StoryAgrees([mem EXCEPT !.receipts = @ \cup {name}])
  BY DEF CausesInv, MemoryIsCaused, EvidenceInv, EvidenceShapes, StoryAgrees

\* A cancellation, the only one that is told.
LEMMA CancelledMemory ==
    ASSUME CausesInv, ~mem.cancelled
    PROVE  LET m == Note([mem EXCEPT !.cancelled = TRUE], Cancellation(cancels))
           IN  /\ StoryAgrees(m)
               /\ m.started = mem.started /\ m.launched = mem.launched
<1> DEFINE e == Cancellation(cancels)
           m == Note([mem EXCEPT !.cancelled = TRUE], e)
<1>1. /\ m.events = Recent(Append(mem.events, e)) /\ m.receipts = mem.receipts
      /\ m.launched = mem.launched /\ m.started = mem.started /\ m.cancelled
  BY DEF Note, CausesInv, EvidenceInv, EvidenceShapes
<1>2. /\ e \in Told /\ IsCancellation(e) /\ e # Event("run_started")
      /\ e # Event("child_prompt_submitted") /\ e # Event("child_spawned")
  <2>1. cancels \in Nat
    BY DEF CausesInv
  <2> QED
    BY <2>1 DEF Told, Event, Cancellation, IsCancellation
<1>3. StoryAgrees(mem)
  BY DEF CausesInv, MemoryIsCaused
<1>4. StoryAgrees(m)
  <2> HIDE DEF m, e
  <2> QED
    BY <1>1, <1>2, <1>3, NoteAgrees
<1> QED
  BY <1>1, <1>4

\* A line that was read.
LEMMA ObservedMemory ==
    ASSUME CausesInv
    PROVE  /\ StoryAgrees(Observed(mem))
           /\ Observed(mem).started = mem.started /\ Observed(mem).launched = mem.launched
<1>1. StoryAgrees(mem)
  BY DEF CausesInv, MemoryIsCaused
<1>2. ASSUME NEW e \in {Event("message"), Event("lifecycle"), Event("child_prompt_submitted")},
             e = Event("child_prompt_submitted") => run.receipts \subseteq mem.receipts
      PROVE  /\ StoryAgrees(Note(mem, e))
             /\ Note(mem, e).started = mem.started /\ Note(mem, e).launched = mem.launched
  <2> DEFINE m == Note(mem, e)
  <2>1. /\ m.events = Recent(Append(mem.events, e)) /\ m.receipts = mem.receipts
        /\ m.launched = mem.launched /\ m.started = mem.started /\ m.cancelled = mem.cancelled
    BY DEF Note, CausesInv, EvidenceInv, EvidenceShapes
  <2>2. /\ e \in Told /\ ~IsCancellation(e) /\ e # Event("run_started")
        /\ e # Event("child_spawned")
    BY DEF Told, Event, IsCancellation
  <2>3. StoryAgrees(m)
    <3> HIDE DEF m
    <3> QED
      BY <1>1, <1>2, <2>1, <2>2, NoteAgrees
  <2> QED
    BY <2>1, <2>3
<1>3. Event("message") # Event("child_prompt_submitted")
      /\ Event("lifecycle") # Event("child_prompt_submitted")
  BY DEF Event
<1>4. CASE Observed(mem) = mem
  BY <1>1, <1>4
<1>5. CASE Observed(mem) = Note(mem, Event("message"))
  BY <1>2, <1>3, <1>5
<1>6. CASE Observed(mem) = Note(mem, Event("lifecycle"))
  BY <1>2, <1>3, <1>6
<1>7. CASE Observed(mem) = Note(mem, Event("child_prompt_submitted")) /\ PromptIsProven(mem)
  BY <1>2, <1>7 DEF PromptIsProven
<1> QED
  BY <1>4, <1>5, <1>6, <1>7 DEF Observed

\* The claim of an active run tells a part of what the owner told.
LEMMA PersistedMemory ==
    ASSUME NEW m, StoryAgrees(m)
    PROVE  LET c == ActiveView(m) IN
           /\ c.events \in Seq(Told)
           /\ Event("child_spawned") \in ToSet(c.events) => c.started
<1> DEFINE w == Without(m.events, {"message"})
<1>1. m.events \in Seq(Told) /\ DOMAIN m.events = 1 .. Len(m.events)
  BY DEF StoryAgrees
<1>2. w \in Seq(Told) /\ KeptOf(w, m.events, {"message"}, Len(m.events))
  BY <1>1, KeptEvents
<1> HIDE DEF w
<1>3. ToSet(w) \subseteq ToSet(m.events)
  <2>1. DOMAIN w = 1 .. Len(w)
    BY <1>2
  <2> QED
    BY <1>1, <1>2, <2>1 DEF ToSet, KeptOf
<1>4. ActiveView(m).events = w /\ ActiveView(m).started = m.started
  BY DEF ActiveView, ClaimedEvents, w
<1> QED
  BY <1>2, <1>3, <1>4 DEF StoryAgrees

-----------------------------------------------------------------------------
\* Receipts and lines come from a child that was released, and what it tells is remembered.
LEMMA MemoryStep ==
    CausesInv /\ [EvidenceNext]_evidenceVars => MemoryIsCaused'
<1> SUFFICES ASSUME CausesInv, [EvidenceNext]_evidenceVars PROVE MemoryIsCaused'
  OBVIOUS
<1> DEFINE Bound == /\ step \in {"granted", "running"} => mem.launched
                    /\ line # NoLine \/ child \in {"running", "bound", "open"} => mem.started
<1>1. StoryAgrees(mem) /\ Bound /\ ChildRuns
  BY DEF CausesInv, MemoryIsCaused, EvidenceInv
<1>2. ASSUME UNCHANGED run, mem' = mem, Bound' PROVE MemoryIsCaused'
  BY <1>1, <1>2 DEF MemoryIsCaused, StoryAgrees
<1>3. ASSUME UNCHANGED run, NEW m, StoryAgrees(m), mem' = m, Bound' PROVE MemoryIsCaused'
  BY <1>3 DEF MemoryIsCaused, StoryAgrees
<1>4. CASE Grant
  <2> DEFINE m == [mem EXCEPT !.launched = TRUE]
  <2>1. /\ UNCHANGED <<run, child, line>>
        /\ \/ step' = "granted" /\ mem' = m
           \/ step' = "concluded" /\ mem' = mem
    BY <1>4 DEF Grant, Persist, Throws, Keep, process, core
  <2>2. StoryAgrees(m) /\ m.launched /\ m.started = mem.started
    BY GrantedMemory DEF CausesInv, EvidenceInv, EvidenceShapes
  <2> HIDE DEF m
  <2> QED
    BY <1>1, <1>2, <1>3, <2>1, <2>2
<1>5. CASE ObserveSpawn
  <2> DEFINE m == Note([mem EXCEPT !.started = TRUE], Event("child_spawned"))
  <2>1. /\ step = "running" /\ ~mem.started /\ UNCHANGED <<run, step, line>>
        /\ mem' = m \/ (mem' = mem /\ child' = child)
    BY <1>5 DEF ObserveSpawn, Persist, Keep, process, core
  <2>2. StoryAgrees(m) /\ m.started /\ m.launched
    BY <1>1, <2>1, SpawnedMemory
  <2> HIDE DEF m
  <2> QED
    BY <1>1, <1>2, <1>3, <2>1, <2>2
<1>6. CASE AcceptReceipt
  <2> DEFINE m == [mem EXCEPT !.receipts = @ \cup {line.name}]
  <2>1. /\ line.stage = "printed" /\ line.name \in Receipts /\ UNCHANGED <<run, step, child>>
        /\ mem' = m \/ mem' = mem
    BY <1>6 DEF AcceptReceipt, Persist, LineFails, Keep, process
  <2>2. mem.started
    BY <1>1, <2>1 DEF NoLine, None
  <2>3. StoryAgrees(m) /\ m.launched = mem.launched /\ m.started = mem.started
    BY <2>1, <2>2, ReceivedMemory DEF CausesInv, EvidenceInv, EvidenceShapes
  <2> HIDE DEF m
  <2> QED
    BY <1>1, <1>2, <1>3, <2>1, <2>2, <2>3
<1>7. CASE ObserveReceipt \/ ObserveOther
  <2>1. mem' = Observed(mem) /\ line' = NoLine /\ UNCHANGED <<run, step, child>>
    BY <1>7 DEF ObserveReceipt, ObserveOther, Observe, Keep, process
  <2> QED
    BY <1>1, <1>3, <2>1, ObservedMemory
<1>8. CASE Cancel
  <2> DEFINE m == Note([mem EXCEPT !.cancelled = TRUE], Cancellation(cancels))
  <2>1. /\ ~mem.cancelled /\ UNCHANGED <<run, step, line, child>>
        /\ mem' = m \/ mem' = mem
    BY <1>8 DEF Cancel, Persist, process
  <2>2. StoryAgrees(m) /\ m.started = mem.started /\ m.launched = mem.launched
    BY <2>1, CancelledMemory
  <2> HIDE DEF m
  <2> QED
    BY <1>1, <1>2, <1>3, <2>1, <2>2
<1>9. CASE ChildPrints \/ AgentSays
  <2>1. PICK name : Prints(name)
    BY <1>9 DEF ChildPrints, AgentSays
  <2>2. UNCHANGED <<run, step, mem, child>>
    BY <2>1, PrintingKeeps
  <2>3. child \in {"running", "open"}
    BY <2>1 DEF Prints
  <2> QED
    BY <1>1, <1>2, <2>2, <2>3
<1>10. CASE Settle
  <2>1. UNCHANGED <<run, mem, child, line>> /\ step' \notin {"granted", "running"}
    BY <1>10 DEF Settle, Persist, Keep, process
  <2> QED
    BY <1>1, <1>2, <2>1
<1>11. CASE PreflightThrows \/ Launch \/ LaunchesNothing
  BY <1>1, <1>2, <1>11 DEF PreflightThrows, Throws, Launch, LaunchesNothing, Keep, process
<1>12. CASE TranscriptFails \/ Timeout \/ DiskFills \/ Abort
  BY <1>1, <1>2, <1>12 DEF TranscriptFails, LineFails, Timeout, DiskFills, Raises, Abort, Keep,
     process
<1>13. CASE Finish \/ Inspect \/ Conclude \/ ConclusionThrows
  BY <1>1, <1>2, <1>13 DEF Finish, Inspect, Conclude, ConclusionThrows, Throws, Keep, process
<1>14. CASE ChildBinds \/ ChildOpensSession \/ AgentWrites \/ ChildEnds \/ OutsiderEdits
  BY <1>1, <1>2, <1>14 DEF ChildBinds, ChildOpensSession, AgentWrites, ChildEnds, OutsiderEdits,
     Keep, process
<1>15. CASE UNCHANGED evidenceVars
  BY <1>1, <1>2, <1>15 DEF evidenceVars
<1> QED
  BY <1>4, <1>5, <1>6, <1>7, <1>8, <1>9, <1>10, <1>11, <1>12, <1>13, <1>14, <1>15 DEF
     EvidenceNext

\* A child that was let run is never forgotten.
LEMMA SpawnsStay ==
    ASSUME EvidenceInv, [EvidenceNext]_evidenceVars, mem.started
    PROVE  mem'.started
<1> USE DEF EvidenceInv, EvidenceShapes, Keep, core, process
<1>1. CASE Grant
  BY <1>1 DEF Grant, Persist
<1>2. CASE ObserveSpawn
  BY <1>2 DEF ObserveSpawn
<1>3. CASE AcceptReceipt
  BY <1>3 DEF AcceptReceipt, Persist
<1>4. CASE ObserveReceipt
  BY <1>4 DEF ObserveReceipt, Observe, Observed, Note
<1>5. CASE ObserveOther
  BY <1>5 DEF ObserveOther, Observe, Observed, Note
<1>6. CASE Cancel
  BY <1>6 DEF Cancel, Persist, Note
<1>7. CASE PreflightThrows \/ Launch \/ LaunchesNothing \/ TranscriptFails \/ Timeout
           \/ DiskFills \/ Abort \/ Settle
  BY <1>7 DEF PreflightThrows, Launch, LaunchesNothing, TranscriptFails, Timeout, DiskFills,
     Raises, Abort, Settle
<1>8. CASE Finish \/ Inspect \/ Conclude \/ ConclusionThrows
  BY <1>8 DEF Finish, Inspect, Conclude, ConclusionThrows
<1>9. CASE ChildBinds \/ ChildOpensSession \/ AgentWrites \/ ChildEnds \/ OutsiderEdits
  BY <1>9 DEF ChildBinds, ChildOpensSession, AgentWrites, ChildEnds, OutsiderEdits
<1>10. CASE ChildPrints \/ AgentSays
  BY <1>10, PrintingKeeps DEF ChildPrints, AgentSays
<1>11. CASE UNCHANGED evidenceVars
  BY <1>11 DEF evidenceVars
<1> QED
  BY <1>1, <1>2, <1>3, <1>4, <1>5, <1>6, <1>7, <1>8, <1>9, <1>10, <1>11 DEF EvidenceNext

\* A run without a child has one of two flags for it.
LEMMA FlagsStep ==
    CausesInv /\ [EvidenceNext]_evidenceVars => FlagsAreCaused'
<1> SUFFICES ASSUME CausesInv, [EvidenceNext]_evidenceVars PROVE FlagsAreCaused'
  OBVIOUS
<1>1. FlagsAreCaused /\ ChildRuns /\ (mem.started => mem'.started)
  BY SpawnsStay DEF CausesInv, EvidenceInv
<1> USE DEF FlagsAreCaused, Keep, core, process
<1>2. CASE Grant \/ PreflightThrows \/ Launch
  BY <1>1, <1>2 DEF Grant, PreflightThrows, Launch, Persist, Throws
<1>3. CASE LaunchesNothing
  BY <1>1, <1>3 DEF LaunchesNothing, NoFlags
<1>4. CASE ObserveSpawn \/ AcceptReceipt \/ ObserveReceipt \/ ObserveOther \/ TranscriptFails
  <2>1. step = "running" \/ line.stage \in {"printed", "accepted"}
    BY <1>4 DEF ObserveSpawn, AcceptReceipt, ObserveReceipt, ObserveOther, TranscriptFails
  <2>2. step = "running"
    BY <1>1, <2>1 DEF ChildRuns, NoLine, None
  <2>3. step' = step
    BY <1>4 DEF ObserveSpawn, AcceptReceipt, ObserveReceipt, ObserveOther, TranscriptFails, Observe
  <2> QED
    BY <2>2, <2>3
<1>5. CASE Timeout \/ DiskFills
  BY <1>5 DEF Timeout, DiskFills, Raises
<1>6. CASE Abort
  <2>1. CASE step = "running"
    BY <1>6, <2>1 DEF Abort
  <2>2. CASE step # "running"
    <3>1. flags = NoFlags /\ step \in {"preparing", "granted"}
      BY <1>1, <1>6, <2>2 DEF Abort, Running
    <3>2. flags' = NoFlags /\ step' = step
      BY <1>6, <2>2, <3>1 DEF Abort, NoFlags
    <3> QED
      BY <3>1, <3>2
  <2> QED
    BY <2>1, <2>2
<1>7. CASE Cancel
  BY <1>1, <1>7 DEF Cancel
<1>8. CASE Settle
  BY <1>8 DEF Settle, Persist
<1>9. CASE Finish
  BY <1>1, <1>9 DEF Finish, Throws
<1>10. CASE Inspect \/ Conclude \/ ConclusionThrows
  BY <1>1, <1>10 DEF Inspect, Conclude, ConclusionThrows, Throws
<1>11. CASE ChildBinds \/ ChildOpensSession \/ AgentWrites \/ ChildEnds \/ OutsiderEdits
  BY <1>1, <1>11 DEF ChildBinds, ChildOpensSession, AgentWrites, ChildEnds, OutsiderEdits
<1>12. CASE ChildPrints \/ AgentSays
  BY <1>1, <1>12, PrintingKeeps DEF ChildPrints, AgentSays
<1>13. CASE UNCHANGED evidenceVars
  BY <1>1, <1>13 DEF evidenceVars
<1> QED
  BY <1>2, <1>3, <1>4, <1>5, <1>6, <1>7, <1>8, <1>9, <1>10, <1>11, <1>12, <1>13 DEF EvidenceNext

\* A result is put together of what was noted, and that does not change behind it.
LEMMA ResultStep ==
    CausesInv /\ [EvidenceNext]_evidenceVars => ResultIsCaused'
<1> SUFFICES ASSUME CausesInv, [EvidenceNext]_evidenceVars PROVE ResultIsCaused'
  OBVIOUS
<1>1. EvidenceInv /\ FlagsAreCaused /\ ResultIsCaused /\ (mem.started => mem'.started)
  BY SpawnsStay DEF CausesInv
<1>2. CASE step \in {"concluded"} \cup Over
  <2>1. UNCHANGED <<run, flags, exit, parsed, drift, outcome>>
    BY <1>1, <1>2, EndedRunIsFrozen DEF Cancel, Settle, OutsiderEdits, Keep, core, process,
       evidenceVars
  <2> QED
    BY <1>1, <2>1 DEF ResultIsCaused, IsStrict
<1>3. CASE Conclude
  <2>1. step = "inspected" /\ UNCHANGED <<run, mem, flags, exit, parsed, drift>>
    BY <1>3 DEF Conclude, Keep, core, process
  <2>2. PICK message \in BOOLEAN, pair \in IF IsStrict(parsed) /\ ~drift THEN BOOLEAN ELSE {FALSE} :
          outcome' = [kind |-> "result", stop |-> StopReason, success |-> Succeeds(pair) /\ message,
                      exit |-> exit, timedOut |-> flags.timedOut, pair |-> pair,
                      class |-> drift \/ ~((Succeeds(pair) /\ message) \/ flags.cancelled),
                      receipts |-> parsed \cap Receipts]
    BY <1>3 DEF Conclude
  <2>3. /\ outcome'.success = (Succeeds(pair) /\ message) /\ outcome'.pair = pair
        /\ outcome'.class = (drift \/ ~((Succeeds(pair) /\ message) \/ flags.cancelled))
    BY <2>2
  <2>4. mem.started \/ flags.spawnError \/ flags = [NoFlags EXCEPT !.cancelled = TRUE]
    BY <1>1, <2>1 DEF FlagsAreCaused
  <2>5. outcome'.class = (drift \/ ~(outcome'.success \/ flags.cancelled))
    BY <2>3
  <2>6. outcome'.pair => IsStrict(parsed)
    BY <2>2, <2>3
  <2>7. ASSUME outcome'.success
        PROVE  /\ exit = "zero" /\ run.receipts \subseteq parsed /\ ~drift
               /\ ~flags.timedOut /\ ~flags.cancelled /\ ~flags.exhausted
    <3>1. Succeeds(pair)
      BY <2>3, <2>7
    <3> QED
      BY <3>1 DEF Succeeds
  <2> QED
    BY <2>1, <2>4, <2>5, <2>6, <2>7 DEF ResultIsCaused, IsStrict
<1>4. CASE step \notin {"concluded"} \cup Over /\ ~Conclude
  <2>1. outcome'.kind # "result"
    <3>1. outcome = NoOutcome
      BY <1>1, <1>4 DEF EvidenceInv, OutcomeIsTold
    <3>2. outcome' = Error \/ outcome' = NoOutcome
      BY <1>1, <1>4, <3>1, OutcomeArises DEF Throws
    <3>3. Error.kind = "error" /\ NoOutcome.kind = "none"
      BY DEF Error, NoOutcome, None
    <3> QED
      BY <3>2, <3>3
  <2> QED
    BY <2>1 DEF ResultIsCaused
<1> QED
  BY <1>2, <1>3, <1>4

\* Every claim of an active run is a copy of what the owner remembered.
LEMMA CopyStep ==
    CausesInv /\ [EvidenceNext]_evidenceVars => ClaimIsCopied'
<1> SUFFICES ASSUME CausesInv, [EvidenceNext]_evidenceVars PROVE ClaimIsCopied'
  OBVIOUS
<1>1. EvidenceInv /\ ClaimIsCopied /\ MemoryIsCaused /\ ChildRuns
  BY DEF CausesInv, EvidenceInv
<1>2. ASSUME step \notin Over, claim' = claim PROVE ClaimIsCopied'
  BY <1>1, <1>2 DEF ClaimIsCopied
<1>3. ASSUME NEW m, StoryAgrees(m), claim' = ActiveView(m) PROVE ClaimIsCopied'
  BY <1>3, PersistedMemory DEF ClaimIsCopied
<1>4. CASE Grant
  <2> DEFINE m == [mem EXCEPT !.launched = TRUE]
  <2>1. claim' = claim \/ claim' = ActiveView(m)
    BY <1>4 DEF Grant, Persist
  <2>2. StoryAgrees(m) /\ step \notin Over
    BY <1>4, GrantedMemory DEF Grant, Over
  <2> HIDE DEF m
  <2> QED
    BY <1>2, <1>3, <2>1, <2>2
<1>5. CASE ObserveSpawn
  <2> DEFINE m == Note([mem EXCEPT !.started = TRUE], Event("child_spawned"))
  <2>1. step = "running" /\ ~mem.started /\ (claim' = claim \/ claim' = ActiveView(m))
    BY <1>5 DEF ObserveSpawn, Persist
  <2>2. StoryAgrees(m) /\ step \notin Over
    BY <1>1, <2>1, SpawnedMemory DEF MemoryIsCaused, Over
  <2> HIDE DEF m
  <2> QED
    BY <1>2, <1>3, <2>1, <2>2
<1>6. CASE AcceptReceipt
  <2> DEFINE m == [mem EXCEPT !.receipts = @ \cup {line.name}]
  <2>1. /\ line.stage = "printed" /\ line.name \in Receipts
        /\ claim' = claim \/ claim' = ActiveView(m)
    BY <1>6 DEF AcceptReceipt, Persist
  <2>2. line # NoLine
    BY <2>1 DEF NoLine, None
  <2>3. mem.started /\ step \notin Over
    BY <1>1, <2>2 DEF MemoryIsCaused, ChildRuns, Over
  <2>4. StoryAgrees(m)
    BY <2>1, <2>3, ReceivedMemory
  <2> HIDE DEF m
  <2> QED
    BY <1>2, <1>3, <2>1, <2>3, <2>4
<1>7. CASE Cancel
  <2> DEFINE m == Note([mem EXCEPT !.cancelled = TRUE], Cancellation(cancels))
  <2>1. /\ ~mem.cancelled /\ step \notin Over
        /\ claim' = claim \/ claim' = ActiveView(m)
    BY <1>7 DEF Cancel, Persist
  <2>2. StoryAgrees(m)
    BY <2>1, CancelledMemory
  <2> HIDE DEF m
  <2> QED
    BY <1>2, <1>3, <2>1, <2>2
<1>8. CASE Settle
  BY <1>8 DEF Settle, Persist, ClaimIsCopied, Over
<1>9. CASE step \in {"concluded"} \cup Over /\ ~Cancel /\ ~Settle
  <2>1. UNCHANGED <<claim, step>>
    BY <1>1, <1>9, EndedRunIsFrozen DEF OutsiderEdits, Keep, evidenceVars
  <2> QED
    BY <1>1, <2>1 DEF ClaimIsCopied
<1>10. ASSUME step \notin {"concluded"} \cup Over, ~Grant, ~ObserveSpawn, ~AcceptReceipt,
              ~Cancel, ~Settle
       PROVE  ClaimIsCopied'
  <2> USE DEF Keep, core, process
  <2>1. CASE PreflightThrows \/ Launch \/ LaunchesNothing \/ TranscriptFails \/ Timeout
             \/ DiskFills \/ Abort
    BY <1>2, <1>10, <2>1 DEF PreflightThrows, Launch, LaunchesNothing, TranscriptFails, Timeout,
       DiskFills, Raises, Abort
  <2>2. CASE ObserveReceipt \/ ObserveOther
    BY <1>2, <1>10, <2>2 DEF ObserveReceipt, ObserveOther, Observe
  <2>3. CASE Finish \/ Inspect \/ Conclude \/ ConclusionThrows
    BY <1>2, <1>10, <2>3 DEF Finish, Inspect, Conclude, ConclusionThrows
  <2>4. CASE ChildBinds \/ ChildOpensSession \/ AgentWrites \/ ChildEnds \/ OutsiderEdits
    BY <1>2, <1>10, <2>4 DEF ChildBinds, ChildOpensSession, AgentWrites, ChildEnds, OutsiderEdits
  <2>5. CASE ChildPrints \/ AgentSays
    BY <1>2, <1>10, <2>5, PrintingKeeps DEF ChildPrints, AgentSays
  <2>6. CASE UNCHANGED evidenceVars
    BY <1>2, <1>10, <2>6 DEF evidenceVars
  <2> QED
    BY <1>10, <2>1, <2>2, <2>3, <2>4, <2>5, <2>6 DEF EvidenceNext
<1> QED
  BY <1>4, <1>5, <1>6, <1>7, <1>8, <1>9, <1>10

\* The bounds of the model count.
LEMMA CountsStep ==
    ASSUME CausesInv, [EvidenceNext]_evidenceVars
    PROVE  cancels' \in Nat /\ failures' \in Nat
<1>1. cancels \in Nat /\ failures \in Nat
  BY DEF CausesInv
<1> USE DEF Keep, core, process
<1>2. CASE Grant \/ ObserveSpawn \/ AcceptReceipt
  BY <1>1, <1>2 DEF Grant, ObserveSpawn, AcceptReceipt, Persist
<1>3. CASE Cancel \/ Settle
  BY <1>1, <1>3 DEF Cancel, Settle, Persist
<1>4. CASE PreflightThrows \/ Launch \/ LaunchesNothing \/ TranscriptFails \/ Timeout
           \/ DiskFills \/ Abort
  BY <1>1, <1>4 DEF PreflightThrows, Launch, LaunchesNothing, TranscriptFails, Timeout,
     DiskFills, Raises, Abort
<1>5. CASE ObserveReceipt \/ ObserveOther
  BY <1>1, <1>5 DEF ObserveReceipt, ObserveOther, Observe
<1>6. CASE Finish \/ Inspect \/ Conclude \/ ConclusionThrows
  BY <1>1, <1>6 DEF Finish, Inspect, Conclude, ConclusionThrows
<1>7. CASE ChildBinds \/ ChildOpensSession \/ AgentWrites \/ ChildEnds \/ OutsiderEdits
  BY <1>1, <1>7 DEF ChildBinds, ChildOpensSession, AgentWrites, ChildEnds, OutsiderEdits
<1>8. CASE ChildPrints \/ AgentSays
  <2>1. PICK name : Prints(name)
    BY <1>8 DEF ChildPrints, AgentSays
  <2> QED
    BY <1>1, <2>1 DEF Prints
<1>9. CASE UNCHANGED evidenceVars
  BY <1>1, <1>9 DEF evidenceVars
<1> QED
  BY <1>2, <1>3, <1>4, <1>5, <1>6, <1>7, <1>8, <1>9 DEF EvidenceNext

-----------------------------------------------------------------------------
(***************************************************************************)
(* The terminal view, and why its judges admit it.                         *)
(***************************************************************************)
\* The events of a terminal claim: of those the owner remembers, and of a child only what a
\* child that was let run has told; and the settlement, once.
LEMMA TerminalTells ==
    ASSUME CausesInv
    PROVE  LET w == TerminalEvents IN
           /\ DOMAIN w = 1 .. Len(w)
           /\ ToSet(w) \subseteq ToSet(mem.events) \cup {Event("settled")}
           /\ \E k \in DOMAIN w : {i \in DOMAIN w : w[i] = Event("settled")} = {k}
           /\ mem.started => Event("child_spawned") \in ToSet(w)
           /\ ~mem.started => \A e \in ToSet(w) : ~IsChilds(e)
<1> DEFINE T == Told \cup {Event("settled")}
           t == mem.events
           e == Event("settled")
           names == IF mem.started THEN {} ELSE Childs
           s == Append(t, e)
           r == Recent(s)
           w == Without(r, names)
<1>1. /\ t \in Seq(Told) /\ Len(t) <= MaxRecent /\ AnchorsAreSingle(t)
      /\ Event("child_spawned") \in ToSet(t) <=> mem.started
      /\ e \in T /\ MaxRecent \in Nat
  BY EvidenceBounds DEF CausesInv, MemoryIsCaused, StoryAgrees
<1>2. /\ t \in Seq(T) /\ Len(t) \in Nat /\ DOMAIN t = 1 .. Len(t)
      /\ \A k \in 1 .. Len(t) : t[k] \in Told
  BY <1>1
<1>3. \A x \in T : IsAnchor(x) => x \in {Event("run_started"), Event("child_spawned")}
  BY ToldAnchors
<1>4. /\ r \in Seq(T) /\ Len(r) <= MaxRecent /\ Thins(r, s) /\ e \in ToSet(r)
      /\ \A x \in ToSet(t) : IsAnchor(x) => x \in ToSet(r)
  <2> HIDE DEF T, t, e
  <2> QED
    BY <1>1, <1>2, <1>3, RecentKeeps
<1>5. /\ s \in Seq(T) /\ Len(s) = Len(t) + 1
      /\ s[Len(t) + 1] = e /\ \A k \in 1 .. Len(t) : s[k] = t[k]
  BY <1>1, <1>2
<1> HIDE DEF s, r
<1>6. w \in Seq(T) /\ KeptOf(w, r, names, Len(r)) /\ Len(r) \in Nat
  <2> HIDE DEF T, names
  <2> QED
    BY <1>4, KeptEvents
<1> HIDE DEF w
<1>7. DOMAIN r = 1 .. Len(r) /\ DOMAIN w = 1 .. Len(w) /\ Len(w) \in Nat /\ Len(w) <= MaxRecent
  BY <1>1, <1>4, <1>6 DEF KeptOf
<1>8. TerminalEvents = w
  <2>1. Note(mem, e).events = r
    BY DEF Note, r, s, CausesInv, EvidenceInv, EvidenceShapes
  <2> QED
    BY <1>7, <2>1 DEF TerminalEvents, Recent, w
<1>9. ASSUME NEW i \in 1 .. Len(s), s[i] = e PROVE i = Len(t) + 1
  BY <1>2, <1>5, <1>9, ToldAnchors
<1>10. ASSUME NEW x \in ToSet(r) PROVE x \in ToSet(t) \cup {e}
  <2>1. PICK k \in 1 .. Len(r) : x = r[k]
    BY <1>7 DEF ToSet
  <2>2. PICK i \in 1 .. Len(s) : x = s[i]
    BY <1>4, <2>1 DEF Thins
  <2>3. CASE i \in 1 .. Len(t)
    BY <1>2, <1>5, <2>2, <2>3 DEF ToSet
  <2> QED
    BY <1>2, <1>5, <2>2, <2>3
<1>11. ASSUME NEW x \in ToSet(w) PROVE x \in ToSet(r) /\ x[1] \notin names
  <2> HIDE DEF names, t, e, T
  <2>1. PICK k \in 1 .. Len(w) : x = w[k]
    BY <1>7 DEF ToSet
  <2>2. PICK i \in 1 .. Len(r) : w[k] = r[i] /\ r[i][1] \notin names
    BY <1>6 DEF KeptOf
  <2> QED
    BY <1>7, <2>1, <2>2 DEF ToSet
<1>12. ASSUME NEW x \in ToSet(r), x[1] \notin names PROVE x \in ToSet(w)
  <2>1. PICK i \in 1 .. Len(r) : x = r[i]
    BY <1>7 DEF ToSet
  <2>2. PICK k \in 1 .. Len(w) : w[k] = x
    BY <1>6, <1>12, <2>1 DEF KeptOf
  <2> QED
    BY <1>7, <2>2 DEF ToSet
<1>13. ToSet(w) \subseteq ToSet(t) \cup {e}
  BY <1>10, <1>11
<1>14. \E k \in DOMAIN w : {i \in DOMAIN w : w[i] = e} = {k}
  <2>1. e[1] \notin names
    BY DEF Event, Childs
  <2>2. PICK k \in DOMAIN w : w[k] = e
    BY <1>4, <1>12, <2>1 DEF ToSet
  <2>3. ASSUME NEW l \in DOMAIN w, w[l] = e, l # k PROVE FALSE
    <3> HIDE DEF e, names, t, T
    <3>1. PICK i \in 1 .. Len(r), j \in 1 .. Len(r) : i # j /\ r[i] = e /\ r[j] = e
      <4>1. k \in 1 .. Len(w) /\ l \in 1 .. Len(w) /\ k # l /\ w[k] = w[l]
        BY <1>7, <2>2, <2>3
      <4>2. \A k2, l2 \in 1 .. Len(w) :
              k2 # l2 /\ w[k2] = w[l2] =>
                  \E i, j \in 1 .. Len(r) : i # j /\ r[i] = w[k2] /\ r[j] = w[k2]
        BY <1>6 DEF KeptOf
      <4>3. \E i, j \in 1 .. Len(r) : i # j /\ r[i] = w[k] /\ r[j] = w[k]
        BY <4>1, <4>2
      <4> QED
        BY <2>2, <4>3
    <3>2. PICK i2 \in 1 .. Len(s), j2 \in 1 .. Len(s) : i2 # j2 /\ s[i2] = e /\ s[j2] = e
      <4>1. \A k2, l2 \in 1 .. Len(r) :
              k2 # l2 /\ r[k2] = r[l2] =>
                  \E i2, j2 \in 1 .. Len(s) : i2 # j2 /\ s[i2] = r[k2] /\ s[j2] = r[k2]
        BY <1>4 DEF Thins
      <4>2. i # j /\ r[i] = r[j]
        BY <3>1
      <4>3. \E i2, j2 \in 1 .. Len(s) : i2 # j2 /\ s[i2] = r[i] /\ s[j2] = r[i]
        BY <4>1, <4>2
      <4> QED
        BY <3>1, <4>3
    <3> QED
      BY <1>9, <3>2
  <2> QED
    BY <2>2, <2>3
<1>15. mem.started => Event("child_spawned") \in ToSet(w)
  <2> SUFFICES ASSUME mem.started PROVE Event("child_spawned") \in ToSet(w)
    OBVIOUS
  <2>1. IsAnchor(Event("child_spawned")) /\ names = {}
    BY DEF IsAnchor, Event
  <2> QED
    BY <1>1, <1>4, <1>12, <2>1
<1>16. ~mem.started => \A x \in ToSet(w) : ~IsChilds(x)
  BY <1>11 DEF IsChilds
<1> HIDE DEF t, e
<1> QED
  BY <1>7, <1>8, <1>13, <1>14, <1>15, <1>16 DEF t, e

\* The five corners.
Explained ==
    \/ ChildNeverRan \/ ExhaustedInTheGrace \/ ZeroBehindAFailure
    \/ CancellationIsEvicted \/ ClaimIsAhead

\* What is common to every terminal view.
LEMMA TerminalFields ==
    ASSUME NEW o
    PROVE  LET c == TerminalView(o) IN
           /\ c.status = IF o.kind = "result" THEN ResultStatus(o)
                         ELSE IF mem.cancelled THEN "cancelled" ELSE "failed"
           /\ c.launched = (mem.launched \/ claim.launched) /\ c.started = mem.started
           /\ c.receipts = mem.receipts \cup o.receipts /\ c.events = TerminalEvents
           /\ c.outcome = IF o.kind = "error" /\ mem.cancelled /\ ~mem.started
                          THEN [o EXCEPT !.class = FALSE] ELSE o
  BY DEF TerminalView

\* A name is told by the one event that has it.
LEMMA NamesOfTerminal ==
    ASSUME CausesInv
    PROVE  /\ "child_spawned" \in Names(TerminalEvents) <=> mem.started
           /\ "child_prompt_submitted" \in Names(TerminalEvents) =>
                  run.receipts \subseteq mem.receipts
<1> DEFINE w == TerminalEvents
<1>1. /\ ToSet(w) \subseteq ToSet(mem.events) \cup {Event("settled")}
      /\ mem.started => Event("child_spawned") \in ToSet(w)
      /\ ~mem.started => \A e \in ToSet(w) : ~IsChilds(e)
  BY TerminalTells
<1>2. /\ ToSet(mem.events) \subseteq Told
      /\ Event("child_prompt_submitted") \in ToSet(mem.events) =>
             run.receipts \subseteq mem.receipts
  BY DEF CausesInv, MemoryIsCaused, StoryAgrees, ToSet
<1> HIDE DEF w
<1>3. ASSUME NEW name, name \in Names(w) PROVE \E e \in ToSet(w) : e[1] = name
  BY <1>3 DEF Names, ToSet
<1>4. ASSUME NEW e \in ToSet(w) PROVE e[1] \in Names(w)
  BY DEF Names, ToSet
<1>5. "child_spawned" \in Names(w) => mem.started
  BY <1>1, <1>3 DEF IsChilds, Childs
<1>6. mem.started => "child_spawned" \in Names(w)
  BY <1>1, <1>4 DEF Event
<1>7. ASSUME "child_prompt_submitted" \in Names(w) PROVE run.receipts \subseteq mem.receipts
  <2>1. PICK e \in ToSet(w) : e[1] = "child_prompt_submitted"
    BY <1>3, <1>7
  <2>2. e \in Told \cup {Event("settled")}
    BY <1>1, <1>2
  <2>3. e = Event("child_prompt_submitted") /\ e # Event("settled")
    BY <2>1, <2>2, ToldAnchors DEF Event
  <2> QED
    BY <1>1, <1>2, <2>3
<1> QED
  BY <1>5, <1>6, <1>7 DEF w

\* The claim on disk is taken back in nothing, save in the corners.
LEMMA TerminalFollows ==
    ASSUME CausesInv, step = "concluded", ~Explained, NEW o
    PROVE  Follows(claim, TerminalView(o))
<1> DEFINE c == TerminalView(o)
           w == TerminalEvents
<1>1. c.started = mem.started /\ c.receipts = mem.receipts \cup o.receipts /\ c.events = w
  BY TerminalFields
<1>2. /\ claim.started => mem.started
      /\ claim.receipts \subseteq mem.receipts
      /\ \A e \in Stable(claim) : e[1] = "cancellation_requested" => e \in ToSet(mem.events)
  BY DEF Explained, ClaimIsAhead
<1>3. /\ ToSet(w) \subseteq ToSet(mem.events) \cup {Event("settled")}
      /\ mem.started => Event("child_spawned") \in ToSet(w)
  BY TerminalTells
<1>4. step \notin Over
  BY DEF Over
<1>5. /\ ToSet(claim.events) \subseteq Told
      /\ Event("child_spawned") \in ToSet(claim.events) => claim.started
  BY <1>4 DEF CausesInv, ClaimIsCopied, ToSet
<1>6. /\ \A e, f \in ToSet(mem.events) : IsCancellation(e) /\ IsCancellation(f) => e = f
      /\ ~mem.cancelled => \A e \in ToSet(mem.events) : ~IsCancellation(e)
  BY DEF CausesInv, MemoryIsCaused, StoryAgrees
<1> HIDE DEF w, c
<1>7. ASSUME NEW e \in Stable(claim) PROVE e \in ToSet(w)
  <2>1. e \in ToSet(claim.events) /\ e \in Told /\ IsStable(e)
    BY <1>5 DEF Stable
  <2>2. CASE e[1] = "child_spawned"
    BY <1>2, <1>3, <1>5, <2>1, <2>2, ToldAnchors
  <2>3. CASE e[1] = "cancellation_requested"
    <3>1. e \in ToSet(mem.events) /\ IsCancellation(e)
      BY <1>2, <2>3 DEF IsCancellation
    <3>2. "cancellation_requested" \in Names(w)
      BY <1>6, <3>1 DEF Explained, CancellationIsEvicted, w
    <3>3. PICK f \in ToSet(w) : f[1] = "cancellation_requested"
      BY <3>2 DEF Names, ToSet
    <3>4. f \in ToSet(mem.events)
      BY <1>3, <3>3 DEF Event
    <3> QED
      BY <1>6, <3>1, <3>3, <3>4 DEF IsCancellation
  <2> QED
    BY <2>1, <2>2, <2>3, ToldAnchors DEF IsStable
<1>8. Stable(claim) \subseteq Stable(c)
  BY <1>1, <1>7 DEF Stable
<1>9. claim.status \notin Terminal
  BY <1>4 DEF CausesInv, EvidenceInv, ClaimIsOpen, Terminal
<1> QED
  BY <1>1, <1>2, <1>8, <1>9 DEF Follows, c

\* A terminal view tells the spawn and the prompt as they were.
LEMMA TerminalLaunches ==
    ASSUME CausesInv, NEW o
    PROVE  LaunchIsConsistent(TerminalView(o)) /\ PromptIsCovered(TerminalView(o))
<1> DEFINE c == TerminalView(o)
<1>1. /\ c.launched = (mem.launched \/ claim.launched) /\ c.started = mem.started
      /\ c.receipts = mem.receipts \cup o.receipts /\ c.events = TerminalEvents
  BY TerminalFields
<1>2. mem.started => mem.launched
  BY DEF CausesInv, MemoryIsCaused, StoryAgrees
<1>3. /\ "child_spawned" \in Names(c.events) <=> c.started
      /\ "child_prompt_submitted" \in Names(c.events) => run.receipts \subseteq c.receipts
  BY <1>1, NamesOfTerminal
<1> HIDE DEF c
<1> QED
  BY <1>1, <1>2, <1>3 DEF LaunchIsConsistent, PromptIsCovered, c

\* An error is always the evidence of an owner.
LEMMA ErrorsAreEvidence ==
    ASSUME CausesInv
    PROVE  HasOwnerEvidence(TerminalView(Error))
<1> DEFINE c == TerminalView(Error)
<1>1. Error.kind = "error" /\ Error.class = TRUE /\ Error.receipts = {}
      /\ [Error EXCEPT !.class = FALSE].class = FALSE
      /\ [Error EXCEPT !.class = FALSE].kind = "error"
  BY DEF Error, NoOutcome
<1>2. /\ c.status = IF mem.cancelled THEN "cancelled" ELSE "failed"
      /\ c.started = mem.started /\ c.receipts = mem.receipts /\ c.events = TerminalEvents
      /\ c.outcome = IF mem.cancelled /\ ~mem.started
                     THEN [Error EXCEPT !.class = FALSE] ELSE Error
  <2>1. /\ c.status = IF Error.kind = "result" THEN ResultStatus(Error)
                       ELSE IF mem.cancelled THEN "cancelled" ELSE "failed"
        /\ c.started = mem.started /\ c.receipts = mem.receipts \cup Error.receipts
        /\ c.events = TerminalEvents
        /\ c.outcome = IF Error.kind = "error" /\ mem.cancelled /\ ~mem.started
                       THEN [Error EXCEPT !.class = FALSE] ELSE Error
    BY TerminalFields
  <2> HIDE DEF c
  <2> QED
    BY <1>1, <2>1
<1>3. LifecycleIsDerivable(c)
  <2>1. PromptIsCovered(c)
    BY TerminalLaunches
  <2>2. ~mem.started => mem.receipts = {} /\ \A e \in ToSet(TerminalEvents) : ~IsChilds(e)
    BY TerminalTells DEF CausesInv, MemoryIsCaused, StoryAgrees
  <2> HIDE DEF c
  <2> QED
    BY <1>2, <2>1, <2>2 DEF LifecycleIsDerivable
<1>4. SettlesOnce(c)
  <2>1. PICK k : {i \in DOMAIN c.events : c.events[i] = Event("settled")} = {k}
    BY <1>2, TerminalTells
  <2> HIDE DEF c
  <2> QED
    BY <2>1, FS_Singleton DEF SettlesOnce
<1> HIDE DEF c
<1>5. c.outcome.kind = "error" /\ c.status \in {"failed", "cancelled"}
  BY <1>1, <1>2
<1>6. c.outcome.class <=> ~(c.status = "cancelled" /\ ~c.started)
  BY <1>1, <1>2
<1> QED
  BY <1>3, <1>4, <1>5, <1>6 DEF HasOwnerEvidence, c

\* A result is that of a child that was let run, and says how it ended.
LEMMA ResultsAreEvidence ==
    ASSUME CausesInv, step = "concluded", ~Explained,
           NEW o, o = NormalizeAcceptedCancellation(outcome), o # Error
    PROVE  HasResultEvidence(TerminalView(o)) /\ ResultIsConsistent(TerminalView(o))
<1>1. EvidenceInv /\ ResultIsCaused /\ CancellationsAreAccepted
  BY DEF CausesInv, EvidenceInv
<1>2. outcome # Error => ResultIsTold
  BY <1>1 DEF EvidenceInv, OutcomeIsTold
<1>3. outcome # Error /\ ResultIsTold
  <2>1. Error.kind # "result"
    BY DEF Error, NoOutcome
  <2>2. outcome # Error
    BY <2>1 DEF NormalizeAcceptedCancellation
  <2> QED
    BY <1>2, <2>2
<1>4. /\ outcome.kind = "result" /\ outcome.stop = StopReason /\ outcome.exit = exit
      /\ outcome.timedOut = flags.timedOut /\ outcome.receipts = parsed \cap Receipts
  BY <1>3 DEF ResultIsTold
<1>5. /\ outcome.success =>
           /\ exit = "zero" /\ run.receipts \subseteq parsed
           /\ run.strict => outcome.pair
           /\ ~flags.timedOut /\ ~flags.cancelled /\ ~flags.exhausted /\ ~drift
      /\ outcome.class = (drift \/ ~(outcome.success \/ flags.cancelled))
      /\ outcome.pair => IsStrict(parsed)
  BY <1>1, <1>3, <1>4 DEF ResultIsCaused, ResultIsTold
<1>6. /\ ~flags.spawnError /\ ~(flags.timedOut /\ flags.exhausted)
      /\ ~(flags.outputError /\ exit = "zero")
  BY DEF Explained, ChildNeverRan, ExhaustedInTheGrace, ZeroBehindAFailure
<1>7. flags.cancelled => mem.cancelled
  BY <1>1 DEF CancellationsAreAccepted
\* What an accepted cancellation left of it.
<1>8. IF mem.cancelled
      THEN /\ o.kind = "result" /\ o.stop = "cancelled" /\ ~o.success /\ ~o.timedOut
           /\ o.pair = outcome.pair /\ o.receipts = outcome.receipts
      ELSE o = outcome
  <2>1. CASE ~mem.cancelled
    BY <2>1 DEF NormalizeAcceptedCancellation
  <2>2. CASE mem.cancelled /\ outcome.stop = "cancelled"
    <3>1. o = outcome
      BY <1>4, <2>2 DEF NormalizeAcceptedCancellation
    <3>2. flags.cancelled /\ ~flags.timedOut
      BY <1>4, <2>2 DEF StopReason
    <3> QED
      BY <1>4, <1>5, <2>2, <3>1, <3>2
  <2>3. CASE mem.cancelled /\ outcome.stop # "cancelled"
    <3>1. o = [outcome EXCEPT !.success = FALSE, !.timedOut = FALSE, !.stop = "cancelled",
                              !.class = FALSE]
      BY <1>4, <2>3 DEF NormalizeAcceptedCancellation
    <3>2. outcome = [kind |-> outcome.kind, stop |-> outcome.stop, success |-> outcome.success,
                     exit |-> outcome.exit, timedOut |-> outcome.timedOut,
                     pair |-> outcome.pair, class |-> outcome.class,
                     receipts |-> outcome.receipts]
      BY <1>3, <1>4 DEF ResultIsTold
    <3> QED
      BY <1>4, <2>3, <3>1, <3>2
  <2> QED
    BY <2>1, <2>2, <2>3
<1>9. mem.started
  <2> SUFFICES ASSUME ~mem.started PROVE FALSE
    OBVIOUS
  <2>1. flags = [NoFlags EXCEPT !.cancelled = TRUE]
    BY <1>1, <1>4, <1>6 DEF ResultIsCaused
  <2>2. ~flags.exhausted /\ ~flags.timedOut /\ flags.cancelled
    BY <2>1 DEF NoFlags
  <2>3. outcome.stop = "cancelled" /\ mem.cancelled
    BY <1>4, <1>6, <1>7, <2>2 DEF StopReason
  <2> QED
    BY <1>4, <2>3 DEF NormalizeAcceptedCancellation
<1> DEFINE c == TerminalView(o)
<1>10. /\ c.status = ResultStatus(o) /\ c.started /\ c.outcome = o
       /\ c.receipts = mem.receipts \cup (parsed \cap Receipts)
  <2>1. o.kind = "result" /\ o.receipts = parsed \cap Receipts
    BY <1>4, <1>8
  <2> QED
    BY <1>9, <2>1, TerminalFields
<1>11. /\ mem.receipts \subseteq parsed /\ run \in Runs
       /\ IsStrict(c.receipts) <=> run.strict /\ "activation" \in parsed
  <2>1. mem.receipts \subseteq parsed /\ run \in Runs
    BY <1>1 DEF EvidenceInv, EvidenceShapes
  <2> HIDE DEF c
  <2> QED
    BY <1>10, <2>1 DEF IsStrict, Receipts
<1> HIDE DEF c
<1>12. o.pair = outcome.pair /\ (o.pair => IsStrict(c.receipts))
  BY <1>5, <1>8, <1>11 DEF IsStrict
<1>13. CASE mem.cancelled
  <2>1. c.status = "cancelled"
    BY <1>8, <1>10, <1>13 DEF ResultStatus
  <2>2. ResultIsConsistent(c)
    BY <1>8, <1>10, <1>13, <2>1 DEF ResultIsConsistent
  <2>3. HasResultEvidence(c)
    BY <1>8, <1>10, <1>12, <1>13, <2>1 DEF HasResultEvidence, ProjectionIsValid
  <2> QED
    BY <2>2, <2>3 DEF c
<1>14. CASE ~mem.cancelled
  <2>1. o = outcome /\ ~flags.cancelled /\ o.stop # "cancelled"
    BY <1>4, <1>7, <1>8, <1>14 DEF StopReason
  <2>2. CASE flags.timedOut
    <3>1. o.stop = "timeout" /\ o.timedOut /\ ~o.success
      BY <1>4, <1>5, <1>6, <2>1, <2>2 DEF StopReason
    <3>2. c.status = "timed_out"
      BY <1>10, <3>1 DEF ResultStatus
    <3>3. ResultIsConsistent(c)
      BY <1>10, <3>1, <3>2 DEF ResultIsConsistent
    <3>4. HasResultEvidence(c)
      BY <1>4, <1>10, <1>12, <2>1, <3>2 DEF HasResultEvidence, ProjectionIsValid
    <3> QED
      BY <3>3, <3>4 DEF c
  <2>3. CASE ~flags.timedOut /\ ~o.success
    <3>1. o.stop \notin {"timeout", "cancelled"} /\ ~o.timedOut /\ o.class
      BY <1>4, <1>5, <2>1, <2>3 DEF StopReason
    <3>2. c.status = "failed"
      BY <1>10, <2>3, <3>1 DEF ResultStatus
    <3>3. ResultIsConsistent(c)
      BY <1>10, <2>3, <3>1, <3>2 DEF ResultIsConsistent
    <3>4. HasResultEvidence(c)
      BY <1>4, <1>10, <1>12, <2>1, <3>2 DEF HasResultEvidence, ProjectionIsValid
    <3> QED
      BY <3>3, <3>4 DEF c
  <2>4. CASE ~flags.timedOut /\ o.success
    <3>1. /\ exit = "zero" /\ run.receipts \subseteq parsed
          /\ run.strict => o.pair
          /\ ~flags.exhausted /\ ~drift
      BY <1>5, <2>1, <2>4
    <3>2. o.stop = "completed" /\ ~o.timedOut /\ ~o.class /\ o.exit = "zero"
      <4>1. StopReason = "completed"
        BY <1>6, <2>1, <2>4, <3>1 DEF StopReason
      <4>2. ~outcome.class
        BY <1>5, <2>1, <2>4, <3>1
      <4> QED
        BY <1>4, <2>1, <2>4, <3>1, <4>1, <4>2
    <3>3. c.status = "completed"
      BY <1>10, <2>4, <3>2 DEF ResultStatus
    <3>4. ResultIsConsistent(c)
      BY <1>10, <2>4, <3>2, <3>3 DEF ResultIsConsistent
    <3>5. run.strict => IsStrict(c.receipts)
      <4>1. run.strict => "activation" \in run.receipts
        BY <1>11, RunsAreDeclarations DEF IsDeclaration
      <4> QED
        BY <1>11, <3>1, <4>1
    <3>6. HasResultEvidence(c)
      <4>1. IsStrict(c.receipts) => run.strict
        BY DEF IsStrict
      <4>2. ProjectionIsValid(c.status, c.receipts, o.pair)
        BY <1>12, <3>1, <3>5, <4>1 DEF ProjectionIsValid
      <4> QED
        BY <1>4, <1>10, <2>1, <4>2 DEF HasResultEvidence
    <3> QED
      BY <3>4, <3>6 DEF c
  <2> QED
    BY <2>2, <2>3, <2>4
<1> QED
  BY <1>13, <1>14

\* Outside the corners the terminal view is accepted.
LEMMA TerminalIsAcceptable ==
    ASSUME CausesInv, step = "concluded", ~Explained
    PROVE  Acceptable(TerminalView(NormalizeAcceptedCancellation(outcome)))
<1> DEFINE o == NormalizeAcceptedCancellation(outcome)
<1>1. CASE o = Error
  BY <1>1, ErrorsAreEvidence, TerminalFollows, TerminalLaunches DEF Acceptable, Admissible
<1>2. CASE o # Error
  <2> HIDE DEF o
  <2>1. HasResultEvidence(TerminalView(o)) /\ ResultIsConsistent(TerminalView(o))
    BY <1>2, ResultsAreEvidence DEF o
  <2> QED
    BY <2>1, TerminalFollows, TerminalLaunches DEF Acceptable, Admissible, o
<1> QED
  BY <1>1, <1>2

\* The settlement is refused only where the terminal view is not acceptable.
LEMMA ExplainedStep ==
    CausesInv /\ [EvidenceNext]_evidenceVars => RejectionsAreExplained'
<1> SUFFICES ASSUME CausesInv, [EvidenceNext]_evidenceVars, step' = "rejected"
             PROVE  Explained'
  BY DEF RejectionsAreExplained, Explained
<1>1. EvidenceInv /\ RejectionsAreExplained /\ failures \in Nat
  BY DEF CausesInv
<1>2. ASSUME Explained, UNCHANGED <<mem, claim, flags, exit>> PROVE Explained'
  BY <1>2 DEF Explained, ChildNeverRan, ExhaustedInTheGrace, ZeroBehindAFailure,
     CancellationIsEvicted, ClaimIsAhead, TerminalEvents, Note
<1>3. CASE step \in Over
  <2>1. UNCHANGED evidenceVars
    BY <1>1, <1>3, EndedRunIsFrozen DEF Over
  <2> QED
    BY <1>1, <1>2, <2>1 DEF evidenceVars, RejectionsAreExplained, Explained
<1>4. CASE step \notin Over
  <2>1. Settle
    BY <1>1, <1>4, OnlySettleEnds DEF Over
  <2>2. step = "concluded" /\ UNCHANGED <<mem, flags, exit>>
    BY <2>1 DEF Settle, Keep, process
  <2>3. /\ ~Acceptable(TerminalView(NormalizeAcceptedCancellation(outcome)))
        /\ UNCHANGED claim
    <3> DEFINE c == TerminalView(NormalizeAcceptedCancellation(outcome))
    <3> HIDE DEF c
    <3> QED
      BY <1>1, <2>1 DEF Settle, Persist, c
  <2> QED
    BY <1>2, <2>2, <2>3, TerminalIsAcceptable
<1> QED
  BY <1>3, <1>4

\* What the owner remembers, tells and concludes has its causes in every behaviour
\* (projectPublicEvent, runSubagentCore, settleRunClaim).
THEOREM CausesInvariance == EvidenceSpec => []CausesInv
<1>1. EvidenceInit => CausesInv
  <2> SUFFICES ASSUME EvidenceInit PROVE CausesInv
    OBVIOUS
  <2>1. EvidenceInv
    BY DEF EvidenceInit, EvidenceInv, EvidenceShapes, ChildRuns, CancellationsAreAccepted,
       TreeIsInspected, OutcomeIsTold, ClaimIsOpen, TerminalClaimIsTrue, Running, Over, Terminal,
       NoFlags, NoLine, None
  <2> DEFINE t == <<Event("run_started")>>
  <2>2. /\ t \in Seq(Told) /\ Len(t) <= MaxRecent /\ AnchorsAreSingle(t)
        /\ ToSet(t) = {Event("run_started")}
    BY RecentHasRoom, EvidenceBounds DEF Told, Event, AnchorsAreSingle, ToSet
  <2>3. /\ mem.events = t /\ claim.events = t /\ mem.receipts = {}
        /\ ~mem.started /\ ~mem.launched /\ ~mem.cancelled /\ run \in Runs
    BY DEF EvidenceInit
  <2> HIDE DEF t
  <2>4. /\ ~IsCancellation(Event("run_started"))
        /\ Event("run_started") # Event("child_spawned")
        /\ Event("run_started") # Event("child_prompt_submitted")
    BY DEF IsCancellation, Event
  <2>5. StoryAgrees(mem)
    BY <2>2, <2>3, <2>4 DEF StoryAgrees
  <2>6. MemoryIsCaused
    BY <2>5 DEF EvidenceInit, MemoryIsCaused, NoLine, None
  <2>7. ClaimIsCopied
    BY <2>2, <2>3, <2>4 DEF ClaimIsCopied
  <2>8. FlagsAreCaused /\ ResultIsCaused /\ RejectionsAreExplained
    BY DEF EvidenceInit, FlagsAreCaused, ResultIsCaused, RejectionsAreExplained, NoOutcome, None
  <2> QED
    BY <2>1, <2>6, <2>7, <2>8 DEF EvidenceInit, CausesInv
<1>2. CausesInv /\ [EvidenceNext]_evidenceVars => CausesInv'
  <2>1. CausesInv /\ [EvidenceNext]_evidenceVars => EvidenceInv'
    BY ShapesStep, ChildRunsStep, CancellationsStep, TreeStep, OutcomeStep, ClaimStep, TruthStep
    DEF EvidenceInv, CausesInv
  <2> QED
    BY <2>1, CountsStep, MemoryStep, FlagsStep, ResultStep, CopyStep, ExplainedStep DEF CausesInv
<1> QED
  BY <1>1, <1>2, PTL DEF EvidenceSpec

\* For every declaration of a run and every number of events a claim keeps: the owner composes
\* only terminal claims that its own validators admit, save in the five corners
\* (settleRunClaim, assertOwnerViewTransition, hasOwnerTerminalEvidence).
THEOREM ExplainedRejections == EvidenceSpec => []RejectionsAreExplained
  BY CausesInvariance, PTL DEF CausesInv
=============================================================================
