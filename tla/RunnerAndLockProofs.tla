------------------------- MODULE RunnerAndLockProofs -------------------------
(***************************************************************************)
(* Proofs about the two mechanisms that one server process has for one     *)
(* run: ProcessRunner, for any commands, lines and checks of the disk, and *)
(* RunClaimLock, for any calls and processes.                              *)
(*                                                                         *)
(* The runner.  A command is let run only by an answer that the owner gave *)
(* behind taking its group (CustodyInv), so at each of the ends of a run   *)
(* the groups the owner signals are all that run or may still be let run   *)
(* (Doomed); nothing is answered any more once a termination has begun or  *)
(* the child has gone (EndInv).  A line is handled, awaited or in out as   *)
(* long as no consumer is broken (LinesInv), so nothing is missing behind  *)
(* a completed result; and whatever is taken behind a result was left by a *)
(* forced end or by the stream that had not failed (QuietInv).             *)
(*                                                                         *)
(* The lock.  Two calls that reclaim an abandoned record may overlap, and  *)
(* the later one then removes the record of a new owner.  Races included,  *)
(* nobody is inside with another unless one of them was robbed, and the    *)
(* calls that were not robbed implement a critical section; a robbery      *)
(* needs two overlapping reclaims.                                         *)
(***************************************************************************)
EXTENDS ProcessRunner, RunClaimLock, TLAPS

One(g) == IF g = Line THEN 1 ELSE 0

\* s holds n lines: m counts those behind each place.
HoldsLines(s, n) ==
    \E m \in [0 .. Len(s) -> Nat] :
        /\ m[0] = n /\ m[Len(s)] = 0
        /\ \A i \in 1 .. Len(s) : m[i - 1] = m[i] + One(s[i])

Operations == Streams \cup {"marker"}

\* A chain holds a line of a stream; it holds one at most.
HasLine(s, k) == \E i \in DOMAIN s : s[i] = k
OneLine(s, k) == \A i, j \in DOMAIN s : s[i] = k /\ s[j] = k => i = j

Awaited(k) == IF consumer[k] = "awaiting" THEN 1 ELSE 0

Broken == \E k \in Streams : consumer[k] = "broken"

\* The lines that are handled, awaited, or still to be read: n per stream.
Counted(n) ==
    handled + n["stdout"] + n["stderr"] + Awaited("stdout") + Awaited("stderr")

\* No more lines are counted than were printed, and all while no consumer is broken.
LinesCounted ==
    \E n \in [Streams -> Nat] :
        /\ \A k \in Streams : HoldsLines(out[k], n[k])
        /\ Counted(n) <= printed /\ (Broken \/ Counted(n) = printed)

\* A consumer awaits its only line in the chain.
LinesInv ==
    owner = "alive" =>
        /\ \A k \in Streams :
              OneLine(chain, k) /\ (HasLine(chain, k) => consumer[k] = "awaiting")
        /\ Broken => cause # "none" /\ terminating
        /\ LinesCounted

\* How far the child is.
ChildInv ==
    /\ observation = "pending" \/ child = "exited" => control = {}
    /\ observation # "released" => Release \notin control
    /\ child = "gated" => printed = 0 /\ \A c \in Commands : call[c] = "none"
    /\ printed > 0 \/ (\E c \in Commands : call[c] # "none") => observation = "released"
    /\ cause = "spawn_error" =>
          child = "exited" /\ group[Own] = "gone" /\ \A c \in Commands : call[c] = "none"

\* A command runs, or may be let run, in a group the owner knows.
CustodyInv ==
    /\ group[Own] \in {"running", "gone"}
    /\ \A c \in Commands :
          /\ call[c] = "none" => group[c] = "none" /\ c \notin control
          /\ group[c] = "running" \/ (c \in control /\ group[c] = "gated") => c \in owned

\* Whatever runs, or may still be let run, was sent SIGKILL.
Doomed ==
    \A g \in Groups : group[g] = "running" \/ (g \in control /\ group[g] = "gated") => g \in killed

NothingRuns == \A g \in Groups : group[g] # "running"

\* What the settlement, the kill timer and the end of the runner leave behind.
EndInv ==
    /\ settlement # "none" \/ closed => child = "exited"
    /\ settlement = "absent" => NothingRuns
    /\ settlement \in {"killing", "remained"} => Doomed
    /\ "force" \in timers => terminating
    /\ "force" \in timers /\ "kill" \notin timers => Doomed
    /\ Settled \/ owner = "exited" => Doomed
    /\ Settled /\ owner = "alive" => terminating \/ child = "exited"

CompletedInv ==
    result = "completed" =>
        /\ child = "exited" /\ exitCode = "zero" /\ NothingRuns
        /\ handled = printed
        /\ \A k \in Streams : consumer[k] = "reading" /\ out[k] = <<>>

\* Behind a result that was not forced, and with no consumer broken, there is no
\* line to take, and what is queued any more was queued by a late check.
QuietInv ==
    /\ returned => owner = "alive" /\ due = 0 /\ observation # "pending"
    /\ Settled /\ owner = "alive" =>
          /\ "timeout" \notin timers /\ "abort" \notin timers
          /\ ~closed => terminating
          /\ closed => child = "exited"
          /\ closed /\ ~Broken =>
                /\ \A k \in Streams : consumer[k] = "reading" /\ out[k] = <<>>
                /\ Len(chain) <= due \/ terminating

\* The shapes of RunnerTypeOK, for the owner, its queues and the child.
CauseNames ==
    {"spawn_error", "resource_exhausted", "timeout", "cancelled", "output_error", "none"}

OwnerTypes ==
    /\ owner \in {"alive", "exited", "crashed"}
    /\ observation \in {"pending", "released", "resolved", "failed"}
    /\ cause \in CauseNames /\ terminating \in BOOLEAN
    /\ timers \subseteq {"timeout", "abort", "kill", "force"}
    /\ consumer \in [Streams -> {"reading", "awaiting", "broken"}]
    /\ settlement \in {"none", "terminating", "killing", "absent", "remained"}
    /\ closed \in BOOLEAN
    /\ checks \in [begun : 0 .. MaxChecks, inFlight : BOOLEAN]
    /\ result \in Reasons \cup {"none"} /\ returned \in BOOLEAN
    /\ returned => result # "none"

QueueTypes ==
    /\ chain \in Seq(Operations) /\ due \in 0 .. Len(chain)
    /\ out \in [Streams -> Seq(Groups)]
    /\ printed \in 0 .. MaxLines /\ handled \in 0 .. MaxLines

ChildTypes ==
    /\ owned \subseteq Commands /\ control \subseteq Groups /\ killed \subseteq Groups
    /\ child \in {"gated", "working", "exited"} /\ exitCode \in {"none", "zero", "other"}
    /\ call \in [Commands -> {"none", "registering", "released", "ended"}]
    /\ group \in [Groups -> {"none", "gated", "running", "gone"}]
    /\ child = "working" => observation = "released"

RunnerInv ==
    /\ OwnerTypes /\ QueueTypes /\ ChildTypes
    /\ LinesInv /\ ChildInv /\ CustodyInv /\ EndInv /\ CompletedInv /\ QuietInv

-----------------------------------------------------------------------------
(* The helpers of the runner.                                               *)

\* A nonempty set of small numbers has a least one.
LEMMA LeastIsFirst ==
    ASSUME NEW S \in SUBSET (1 .. 6), S # {}
    PROVE  Min(S) \in S /\ \A y \in S : Min(S) <= y
<1>1. \E x \in S : \A y \in S : x <= y
  <2>1. 1 \in S \/ 2 \in S \/ 3 \in S \/ 4 \in S \/ 5 \in S \/ 6 \in S
    <3>1. PICK x \in S : TRUE
      OBVIOUS
    <3>2. x \in {1, 2, 3, 4, 5, 6}
      OBVIOUS
    <3> QED
      BY <3>1, <3>2
  <2>2. \A y \in S : y \in {1, 2, 3, 4, 5, 6}
    OBVIOUS
  <2> QED
    BY <2>1, <2>2
<1> QED
  BY <1>1 DEF Min

\* The stronger of two causes is one of them; it is "none" only if both are.
LEMMA StrongerCause ==
    ASSUME NEW a \in CauseNames, NEW b \in CauseNames
    PROVE  /\ Stronger(a, b) \in {a, b}
           /\ b # "none" => Stronger(a, b) # "none"
           /\ a = "spawn_error" => Stronger(a, b) = "spawn_error"
<1> DEFINE S == {i \in DOMAIN Causes : Causes[i] \in {a, b}}
<1>1. DOMAIN Causes = 1 .. 6
  BY DEF Causes
<1>2. S \in SUBSET (1 .. 6) /\ S # {}
  BY DEF CauseNames, Causes
<1>3. Min(S) \in S /\ \A y \in S : Min(S) <= y
  BY <1>2, LeastIsFirst
<1>4. Stronger(a, b) = Causes[Min(S)] /\ Causes[Min(S)] \in {a, b}
  BY <1>3 DEF Stronger
<1>5. ASSUME b # "none" PROVE Causes[Min(S)] # "none"
  <2>1. PICK i \in 1 .. 5 : Causes[i] = b
    BY <1>5 DEF CauseNames, Causes
  <2>2. Min(S) \in 1 .. 5
    BY <1>1, <1>2, <1>3, <2>1
  <2> QED
    BY <2>2 DEF Causes
<1>6. ASSUME a = "spawn_error" PROVE Causes[Min(S)] = "spawn_error"
  <2>1. Causes[1] = a /\ 1 \in S
    BY <1>1, <1>6 DEF Causes
  <2>2. Min(S) = 1
    BY <1>2, <1>3, <2>1
  <2> QED
    BY <1>6, <2>1, <2>2
<1> QED
  BY <1>4, <1>5, <1>6

\* What the termination of a step leaves of the cause and the timers.
Stopped ==
    /\ cause' \in CauseNames
    /\ cause # "none" /\ owner' = "alive" => cause' # "none"
    /\ cause' = "spawn_error" => cause = "spawn_error" \/ SpawnFails
    /\ terminating' \in BOOLEAN /\ timers' \subseteq {"timeout", "abort", "kill", "force"}
    /\ terminating /\ owner' = "alive" => terminating'
    /\ "force" \in timers' => terminating'
    /\ "force" \in timers' /\ "kill" \notin timers' =>
          KillFires \/ ("force" \in timers /\ "kill" \notin timers)
    /\ \A t \in {"timeout", "abort"} : t \in timers' => t \in timers

Terminates ==
    \E why \in {"timeout", "cancelled", "resource_exhausted", "output_error"} :
        \E live \in {timers, timers \ {"timeout"}, timers \ {"abort"}} : Terminate(why, live)

LEMMA TerminationStops ==
    ASSUME OwnerTypes, EndInv, Terminates
    PROVE  Stopped /\ cause' # "none" /\ terminating'
<1>1. PICK why \in {"timeout", "cancelled", "resource_exhausted", "output_error"},
           live \in {timers, timers \ {"timeout"}, timers \ {"abort"}} : Terminate(why, live)
  BY DEF Terminates
<1>2. cause \in CauseNames /\ why \in CauseNames /\ why # "none" /\ why # "spawn_error"
  BY DEF OwnerTypes, CauseNames
<1>3. cause' = Stronger(cause, why) /\ terminating' = TRUE
      /\ timers' = IF terminating THEN live ELSE live \cup {"kill", "force"}
  BY <1>1 DEF Terminate
<1>4. cause' \in {cause, why} /\ cause' # "none"
  BY <1>2, <1>3, StrongerCause
<1>5. /\ "force" \in timers => terminating
      /\ timers \subseteq {"timeout", "abort", "kill", "force"}
  BY DEF EndInv, OwnerTypes
<1>6. /\ timers' \subseteq {"timeout", "abort", "kill", "force"}
      /\ "force" \in timers' /\ "kill" \notin timers' => "force" \in timers /\ "kill" \notin timers
      /\ \A t \in {"timeout", "abort"} : t \in timers' => t \in timers
  BY <1>3, <1>5
<1> QED
  BY <1>2, <1>3, <1>4, <1>6 DEF Stopped

\* Lines are counted as they come and go.
LEMMA NoLines == \A n \in Nat : HoldsLines(<<>>, n) => n = 0
BY DEF HoldsLines

LEMMA LinesStart == HoldsLines(<<>>, 0)
<1> DEFINE m == [i \in 0 .. 0 |-> 0]
<1>1. Len(<<>>) = 0 /\ m \in [0 .. 0 -> Nat] /\ m[0] = 0
  OBVIOUS
<1> HIDE DEF m
<1> QED
  BY <1>1 DEF HoldsLines

LEMMA LineArrives ==
    ASSUME NEW s \in Seq(Groups), NEW g \in Groups, NEW n \in Nat, HoldsLines(s, n)
    PROVE  HoldsLines(Append(s, g), n + One(g))
<1>1. PICK m \in [0 .. Len(s) -> Nat] :
         /\ m[0] = n /\ m[Len(s)] = 0
         /\ \A i \in 1 .. Len(s) : m[i - 1] = m[i] + One(s[i])
  BY DEF HoldsLines
<1> DEFINE k == [i \in 0 .. Len(s) + 1 |-> IF i = Len(s) + 1 THEN 0 ELSE m[i] + One(g)]
<1>2. Len(Append(s, g)) = Len(s) + 1 /\ Len(s) \in Nat
  OBVIOUS
<1>3. One(g) \in Nat
  BY DEF One
<1>4. k \in [0 .. Len(Append(s, g)) -> Nat]
  BY <1>2, <1>3
<1>5. k[0] = n + One(g) /\ k[Len(s) + 1] = 0
  BY <1>1, <1>2
<1>6. ASSUME NEW i \in 1 .. Len(s) + 1 PROVE k[i - 1] = k[i] + One(Append(s, g)[i])
  <2>1. CASE i = Len(s) + 1
    BY <1>1, <1>2, <1>3, <2>1
  <2>2. CASE i # Len(s) + 1
    <3>1. i \in 1 .. Len(s) /\ Append(s, g)[i] = s[i]
      BY <2>2
    <3>2. m[i - 1] = m[i] + One(s[i]) /\ m[i] \in Nat /\ One(s[i]) \in Nat
      BY <1>1, <3>1 DEF One
    <3>3. k[i - 1] = m[i - 1] + One(g) /\ k[i] = m[i] + One(g)
      BY <1>2, <3>1
    <3> QED
      BY <1>3, <3>1, <3>2, <3>3
  <2> QED
    BY <2>1, <2>2
<1> HIDE DEF k
<1> QED
  BY <1>2, <1>4, <1>5, <1>6 DEF HoldsLines

LEMMA LineGoes ==
    ASSUME NEW s \in Seq(Groups), s # <<>>, NEW n \in Nat, HoldsLines(s, n)
    PROVE  \E k \in Nat : n = k + One(Head(s)) /\ HoldsLines(Tail(s), k)
<1>1. PICK m \in [0 .. Len(s) -> Nat] :
         /\ m[0] = n /\ m[Len(s)] = 0
         /\ \A i \in 1 .. Len(s) : m[i - 1] = m[i] + One(s[i])
  BY DEF HoldsLines
<1> DEFINE k == [i \in 0 .. Len(s) - 1 |-> m[i + 1]]
<1>2. Len(s) \in Nat /\ Len(s) > 0 /\ Len(Tail(s)) = Len(s) - 1
  OBVIOUS
<1>3. k \in [0 .. Len(Tail(s)) -> Nat]
  BY <1>2
<1>4. k[0] = m[1] /\ k[Len(s) - 1] = 0
  BY <1>1, <1>2
<1>5. ASSUME NEW i \in 1 .. Len(s) - 1 PROVE k[i - 1] = k[i] + One(Tail(s)[i])
  <2>1. i + 1 \in 1 .. Len(s) /\ Tail(s)[i] = s[i + 1]
    BY <1>2
  <2>2. m[(i + 1) - 1] = m[i + 1] + One(s[i + 1])
    BY <1>1, <2>1
  <2> QED
    BY <1>2, <2>1, <2>2
<1>6. n = m[1] + One(Head(s)) /\ m[1] \in Nat
  BY <1>1, <1>2
<1>7. HoldsLines(Tail(s), m[1])
  <2> HIDE DEF k
  <2> QED
    BY <1>2, <1>3, <1>4, <1>5 DEF HoldsLines
<1> QED
  BY <1>6, <1>7

\* The lines of a stream in a chain when an operation is queued, and when the first is done.
LEMMA LinesInChain ==
    ASSUME NEW s \in Seq(Operations), NEW k \in Streams, OneLine(s, k)
    PROVE  /\ \A g \in Operations \ {k} :
                 OneLine(Append(s, g), k) /\ (HasLine(Append(s, g), k) => HasLine(s, k))
           /\ ~HasLine(s, k) => OneLine(Append(s, k), k)
           /\ s # <<>> =>
                 /\ OneLine(Tail(s), k) /\ (HasLine(Tail(s), k) => HasLine(s, k))
                 /\ Head(s) = k => HasLine(s, k) /\ ~HasLine(Tail(s), k)
<1>1. ASSUME NEW g \in Operations
      PROVE  /\ DOMAIN Append(s, g) = DOMAIN s \cup {Len(s) + 1}
             /\ Append(s, g)[Len(s) + 1] = g
             /\ \A i \in DOMAIN s : Append(s, g)[i] = s[i]
  OBVIOUS
<1>2. ASSUME NEW g \in Operations, g # k
      PROVE  OneLine(Append(s, g), k) /\ (HasLine(Append(s, g), k) => HasLine(s, k))
  BY <1>1, <1>2 DEF OneLine, HasLine
<1>3. ASSUME ~HasLine(s, k) PROVE OneLine(Append(s, k), k)
  BY <1>1, <1>3 DEF OneLine, HasLine, Operations
<1>4. ASSUME s # <<>>
      PROVE  /\ \A i \in DOMAIN Tail(s) : i \in Nat /\ i + 1 \in DOMAIN s /\ i + 1 # 1
             /\ \A i \in DOMAIN Tail(s) : Tail(s)[i] = s[i + 1]
             /\ 1 \in DOMAIN s /\ Head(s) = s[1]
  BY <1>4
<1>5. ASSUME s # <<>>, NEW i \in DOMAIN Tail(s), NEW j \in DOMAIN Tail(s),
             Tail(s)[i] = k, Tail(s)[j] = k
      PROVE  i = j
  <2>1. i + 1 = j + 1
    BY <1>4, <1>5 DEF OneLine
  <2> QED
    BY <1>4, <1>5, <2>1
<1>6. ASSUME s # <<>> PROVE OneLine(Tail(s), k) /\ (HasLine(Tail(s), k) => HasLine(s, k))
  BY <1>4, <1>5, <1>6 DEF OneLine, HasLine
<1>7. ASSUME s # <<>>, Head(s) = k PROVE HasLine(s, k) /\ ~HasLine(Tail(s), k)
  BY <1>4, <1>7 DEF OneLine, HasLine
<1> QED
  BY <1>2, <1>3, <1>6, <1>7

-----------------------------------------------------------------------------
(* The cause, the timers and the types of the runner.                       *)

SomeLineIsRead == \E k \in Streams : ReadLine(k)
SomeLineIsHandled == \E k \in Streams : HandleLine(k)
SomeLineFails == \E k \in Streams : LineFails(k)
SomeLineIsPrinted == \E k \in Streams : ChildPrints(k)

\* The line that is handled next is awaited.
LEMMA HeadIsAwaited ==
    ASSUME RunnerInv, NEW k \in Streams, NextOperation(k)
    PROVE  /\ owner = "alive" /\ consumer[k] = "awaiting" /\ chain' = Tail(chain)
           /\ HasLine(chain, k) /\ ~HasLine(Tail(chain), k)
<1>1. owner = "alive" /\ chain # <<>> /\ Head(chain) = k /\ chain' = Tail(chain)
  BY DEF NextOperation
<1>2. chain \in Seq(Operations) /\ OneLine(chain, k)
  BY <1>1 DEF RunnerInv, QueueTypes, LinesInv
<1>3. HasLine(chain, k) /\ ~HasLine(Tail(chain), k)
  BY <1>1, <1>2, LinesInChain
<1> QED
  BY <1>1, <1>3 DEF RunnerInv, LinesInv

LEMMA StoppingSteps == RunnerInv /\ [RunnerNext]_runnerVars => Stopped
<1> SUFFICES ASSUME RunnerInv, [RunnerNext]_runnerVars PROVE Stopped
  OBVIOUS
<1> USE DEF RunnerInv, stopping, reading, ending, childVars, ownerVars, Settled
<1>1. ASSUME UNCHANGED stopping PROVE Stopped
  BY <1>1 DEF OwnerTypes, EndInv, Stopped
<1>2. ASSUME Terminates PROVE Stopped
  BY <1>2, TerminationStops
<1>3. CASE TimeoutFires \/ Cancel \/ ReleaseFails \/ SomeLineFails \/ WriteMarker \/ EndDiskCheck
  <2>1. Terminates \/ UNCHANGED stopping
    BY <1>3 DEF TimeoutFires, Cancel, ReleaseFails, LineFails, SomeLineFails, WriteMarker,
      EndDiskCheck, WriteErrors, Terminates
  <2> QED
    BY <1>1, <1>2, <2>1
<1>4. ASSUME NEW c \in Commands, RegisterFails(c) PROVE Stopped
  BY <1>2, <1>4 DEF RegisterFails, Terminates
<1>5. CASE SpawnFails
  BY <1>5 DEF SpawnFails, OwnerTypes, EndInv, Stopped, CauseNames
<1>6. CASE KillFires
  BY <1>6 DEF KillFires, OwnerTypes, EndInv, Stopped
<1>7. CASE ForceFires \/ FinishClosed
  <2>1. PICK weak \in {cause, Stronger(cause, "output_error")} :
           /\ cause' = weak /\ UNCHANGED terminating
           /\ timers' = {} \/ timers' = timers \ {"force"}
    BY <1>7 DEF ForceFires, FinishClosed, Finish
  <2>2. cause \in CauseNames /\ "output_error" \in CauseNames
    BY DEF OwnerTypes, CauseNames
  <2>3. Stronger(cause, "output_error") \in {cause, "output_error"}
        /\ Stronger(cause, "output_error") # "none"
    BY <2>2, StrongerCause
  <2> QED
    BY <2>1, <2>2, <2>3 DEF OwnerTypes, Stopped
<1>8. CASE OwnerExits \/ OwnerCrashes
  BY <1>8 DEF OwnerExits, OwnerCrashes, MemoryIsLost, OwnerTypes, Stopped, CauseNames
<1>9. CASE ReleaseChild \/ SomeLineIsRead \/ SomeLineIsHandled \/ BeginSettlement \/ KillRemaining
           \/ EndSettlement \/ Close \/ Return \/ Retire \/ BeginDiskCheck \/ ChildStarts
           \/ SomeLineIsPrinted \/ ControlLost
  BY <1>1, <1>9 DEF ReleaseChild, ReadLine, SomeLineIsRead, HandleLine, SomeLineIsHandled,
    BeginSettlement, KillRemaining, EndSettlement, Close, Return, Retire, BeginDiskCheck,
    ChildStarts, ChildPrints, SomeLineIsPrinted, ControlLost
<1>10. ASSUME NEW c \in Commands,
              Register(c) \/ RegisterLate(c) \/ SpawnBash(c) \/ Acknowledged(c)
                \/ CallStopped(c) \/ CallReturns(c)
       PROVE  Stopped
  BY <1>1, <1>10 DEF Register, RegisterLate, SpawnBash, Acknowledged, CallStopped, CallReturns
<1>11. ASSUME NEW code \in {"zero", "other"}, ChildExits(code) PROVE Stopped
  BY <1>1, <1>11 DEF ChildExits
<1>12. ASSUME NEW g \in Groups, GroupEnds(g) PROVE Stopped
  BY <1>1, <1>12 DEF GroupEnds
<1>13. CASE UNCHANGED runnerVars
  BY <1>1, <1>13 DEF runnerVars
<1> QED
  BY <1>3, <1>4, <1>5, <1>6, <1>7, <1>8, <1>9, <1>10, <1>11, <1>12, <1>13 DEF RunnerNext,
    OwnerCallback, OwnerTimer, ChildStep, SomeLineIsRead, SomeLineIsHandled, SomeLineFails,
    SomeLineIsPrinted

LEMMA OwnerTypeStep == RunnerInv /\ [RunnerNext]_runnerVars => OwnerTypes'
<1> SUFFICES ASSUME RunnerInv, [RunnerNext]_runnerVars PROVE OwnerTypes'
  OBVIOUS
<1>0. Stopped
  BY StoppingSteps
<1> USE <1>0, BoundsAssumption DEF RunnerInv, OwnerTypes, Stopped, stopping,
    reading, ending, childVars, ownerVars, Settled
<1>1. CASE ReleaseChild
  BY <1>1 DEF ReleaseChild
<1>2. CASE ReleaseFails
  BY <1>2 DEF ReleaseFails
<1>3. CASE SpawnFails
  BY <1>3 DEF SpawnFails
<1>4. ASSUME NEW k \in Streams, ReadLine(k) PROVE OwnerTypes'
  BY <1>4 DEF ReadLine
<1>5. ASSUME NEW k \in Streams, HandleLine(k) PROVE OwnerTypes'
  BY <1>5 DEF HandleLine, NextOperation
<1>6. ASSUME NEW k \in Streams, LineFails(k) PROVE OwnerTypes'
  BY <1>6 DEF LineFails, NextOperation
<1>7. CASE WriteMarker
  BY <1>7 DEF WriteMarker, NextOperation
<1>8. ASSUME NEW c \in Commands, RegisterFails(c) PROVE OwnerTypes'
  BY <1>8 DEF RegisterFails
<1>9. CASE BeginSettlement
  BY <1>9 DEF BeginSettlement
<1>10. CASE KillRemaining
  BY <1>10 DEF KillRemaining
<1>11. CASE EndSettlement
  BY <1>11 DEF EndSettlement
<1>12. CASE Close
  BY <1>12 DEF Close
<1>13. CASE FinishClosed
  BY <1>13 DEF FinishClosed, Finish, Reason, Reasons, CauseNames
<1>14. CASE Return
  BY <1>14 DEF Return
<1>15. CASE ForceFires
  <2>1. (result' \in Reasons /\ result' # "none") \/ result' = result
    BY <1>15, StrongerCause DEF ForceFires, Finish, Reason, Reasons, CauseNames
  <2>2. UNCHANGED <<owner, observation, consumer, settlement, closed, checks, returned>>
    BY <1>15 DEF ForceFires
  <2> QED
    BY <2>1, <2>2
<1>16. CASE BeginDiskCheck
  <2>1. checks.begun < MaxChecks /\ checks' = [begun |-> checks.begun + 1, inFlight |-> TRUE]
    BY <1>16 DEF BeginDiskCheck
  <2>2. checks' \in [begun : 0 .. MaxChecks, inFlight : BOOLEAN]
    BY <2>1
  <2> QED
    BY <1>16, <2>2 DEF BeginDiskCheck
<1>17. CASE EndDiskCheck
  BY <1>17 DEF EndDiskCheck
<1>18. CASE OwnerExits
  BY <1>18 DEF OwnerExits, MemoryIsLost
<1>19. CASE OwnerCrashes
  BY <1>19 DEF OwnerCrashes, MemoryIsLost
<1>20. CASE KillFires \/ TimeoutFires \/ Cancel \/ Retire \/ ChildStarts \/ SomeLineIsPrinted \/
       ControlLost
  BY <1>20 DEF KillFires, TimeoutFires, Cancel, Retire, ChildStarts, ChildPrints,
    SomeLineIsPrinted, ControlLost
<1>21. ASSUME NEW c \in Commands, Register(c) \/ RegisterLate(c) \/ SpawnBash(c) \/
       Acknowledged(c) \/ CallStopped(c) \/ CallReturns(c)
      PROVE  OwnerTypes'
  BY <1>21 DEF Register, RegisterLate, SpawnBash, Acknowledged, CallStopped, CallReturns
<1>22. ASSUME NEW code \in {"zero", "other"}, ChildExits(code)
      PROVE  OwnerTypes'
  BY <1>22 DEF ChildExits
<1>23. ASSUME NEW g \in Groups, GroupEnds(g)
      PROVE  OwnerTypes'
  BY <1>23 DEF GroupEnds
<1>24. CASE UNCHANGED runnerVars
  BY <1>24 DEF runnerVars
<1> QED
  BY <1>1, <1>2, <1>3, <1>4, <1>5, <1>6, <1>7, <1>8, <1>9, <1>10, <1>11, <1>12, <1>13, <1>14,
     <1>15, <1>16, <1>17, <1>18, <1>19, <1>20, <1>21, <1>22, <1>23, <1>24
    DEF RunnerNext, OwnerCallback, OwnerTimer, ChildStep, SomeLineIsRead, SomeLineIsHandled,
      SomeLineFails, SomeLineIsPrinted

\* No more lines are taken than were printed: whoever is at the head of the chain
\* is awaited.
LEMMA QueueTypeStep == RunnerInv /\ [RunnerNext]_runnerVars => QueueTypes'
<1> SUFFICES ASSUME RunnerInv, [RunnerNext]_runnerVars PROVE QueueTypes'
  OBVIOUS
<1>0. "marker" \in Operations /\ "stdout" \in Streams /\ \A k \in Streams : k \in Operations
  BY DEF Operations, Streams
<1> USE <1>0, BoundsAssumption DEF RunnerInv, QueueTypes, Groups, stopping, reading, ending,
    childVars, ownerVars, Settled
<1>1. CASE SpawnFails
  BY <1>1 DEF SpawnFails, QueueMarker
<1>2. ASSUME NEW k \in Streams, ReadLine(k) PROVE QueueTypes'
  BY <1>2 DEF ReadLine, Reads
<1>3. ASSUME NEW k \in Streams, HandleLine(k) PROVE QueueTypes'
  <2>1. owner = "alive" /\ consumer[k] = "awaiting"
    BY <1>3, HeadIsAwaited DEF HandleLine
  <2>2. PICK n \in [Streams -> Nat] : Counted(n) <= printed
    BY <2>1 DEF LinesInv, LinesCounted
  <2>3. Awaited(k) = 1 /\ \A q \in Streams : Awaited(q) \in Nat /\ n[q] \in Nat
    BY <2>1 DEF Awaited
  <2>4. handled + 1 <= printed
    BY <2>2, <2>3 DEF Counted, Streams
  <2>5. handled' \in 0 .. MaxLines
    BY <1>3, <2>4 DEF HandleLine
  <2> QED
    BY <1>3, <2>5 DEF HandleLine, NextOperation
<1>4. ASSUME NEW k \in Streams, LineFails(k) PROVE QueueTypes'
  BY <1>4 DEF LineFails, NextOperation
<1>5. CASE WriteMarker
  BY <1>5 DEF WriteMarker, NextOperation
<1>6. ASSUME NEW c \in Commands, Register(c) PROVE QueueTypes'
  BY <1>6 DEF Register, ReadsRegistration, RegistrationIsRead, Reads
<1>7. ASSUME NEW c \in Commands, RegisterLate(c) PROVE QueueTypes'
  BY <1>7 DEF RegisterLate, ReadsRegistration, RegistrationIsRead, Reads
<1>8. ASSUME NEW c \in Commands, RegisterFails(c) PROVE QueueTypes'
  BY <1>8 DEF RegisterFails
<1>9. CASE FinishClosed
  BY <1>9 DEF FinishClosed, Finish
<1>10. CASE ForceFires
  BY <1>10 DEF ForceFires, Finish
<1>11. CASE TimeoutFires
  BY <1>11 DEF TimeoutFires, QueueMarker
<1>12. CASE Cancel
  BY <1>12 DEF Cancel, QueueMarker
<1>13. CASE EndDiskCheck
  <2>1. /\ chain' = chain \/ chain' = Append(chain, "marker")
        /\ UNCHANGED <<due, out, printed, handled>>
    BY <1>13 DEF EndDiskCheck, QueueMarker
  <2>2. chain' \in Seq(Operations) /\ Len(chain') >= Len(chain)
    BY <2>1
  <2> QED
    BY <2>1, <2>2
<1>14. CASE OwnerExits
  BY <1>14 DEF OwnerExits, MemoryIsLost
<1>15. CASE OwnerCrashes
  BY <1>15 DEF OwnerCrashes, MemoryIsLost
<1>16. ASSUME NEW k \in Streams, ChildPrints(k) PROVE QueueTypes'
  BY <1>16 DEF ChildPrints, Line
<1>17. ASSUME NEW c \in Commands, SpawnBash(c) PROVE QueueTypes'
  BY <1>17 DEF SpawnBash
<1>18. CASE ReleaseChild \/ ReleaseFails \/ BeginSettlement \/ KillRemaining \/
       EndSettlement \/ Close \/ Return \/ KillFires \/ Retire \/ BeginDiskCheck \/
       ChildStarts \/ ControlLost
  BY <1>18 DEF ReleaseChild, ReleaseFails, BeginSettlement, KillRemaining, EndSettlement, Close,
    Return, KillFires, Retire, BeginDiskCheck, ChildStarts, ControlLost
<1>19. ASSUME NEW c \in Commands, Acknowledged(c) \/ CallStopped(c) \/ CallReturns(c)
      PROVE  QueueTypes'
  BY <1>19 DEF Acknowledged, CallStopped, CallReturns
<1>20. ASSUME NEW code \in {"zero", "other"}, ChildExits(code)
      PROVE  QueueTypes'
  BY <1>20 DEF ChildExits
<1>21. ASSUME NEW g \in Groups, GroupEnds(g)
      PROVE  QueueTypes'
  BY <1>21 DEF GroupEnds
<1>22. CASE UNCHANGED runnerVars
  BY <1>22 DEF runnerVars
<1> QED
  BY <1>1, <1>2, <1>3, <1>4, <1>5, <1>6, <1>7, <1>8, <1>9, <1>10, <1>11, <1>12, <1>13, <1>14,
     <1>15, <1>16, <1>17, <1>18, <1>19, <1>20, <1>21, <1>22
    DEF RunnerNext, OwnerCallback, OwnerTimer, ChildStep, SomeLineIsRead, SomeLineIsHandled,
      SomeLineFails, SomeLineIsPrinted

\* A consumer takes a frame, and what it counts for stays counted.
LEMMA FrameIsTaken ==
    ASSUME RunnerInv, owner = "alive", NEW k \in Streams, NEW frame \in Groups, Reads(k, frame),
           out' = [out EXCEPT ![k] = Tail(@)], UNCHANGED <<handled, printed>>,
           \A q \in Streams : consumer'[q] = "broken" <=> consumer[q] = "broken",
           \A q \in Streams \ {k} : consumer'[q] = consumer[q],
           consumer'[k] = IF frame = Line THEN "awaiting" ELSE "reading"
    PROVE  LinesCounted'
<1>1. /\ out \in [Streams -> Seq(Groups)] /\ handled \in Nat /\ printed \in Nat
      /\ consumer[k] = "reading" /\ out[k] # <<>> /\ Head(out[k]) = frame
  BY BoundsAssumption DEF RunnerInv, QueueTypes, Reads
<1>2. PICK n \in [Streams -> Nat] :
         /\ \A q \in Streams : HoldsLines(out[q], n[q])
         /\ Counted(n) <= printed /\ (Broken \/ Counted(n) = printed)
  BY DEF RunnerInv, LinesInv, LinesCounted
<1>3. PICK m \in Nat : n[k] = m + One(frame) /\ HoldsLines(Tail(out[k]), m)
  BY <1>1, <1>2, LineGoes
<1> DEFINE rest == [n EXCEPT ![k] = m]
<1>4. rest \in [Streams -> Nat] /\ \A q \in Streams : HoldsLines(out'[q], rest[q])
  BY <1>1, <1>2, <1>3
<1>5. /\ Awaited(k) = 0 /\ Awaited(k)' = One(frame)
      /\ \A q \in Streams \ {k} : Awaited(q)' = Awaited(q)
      /\ \A q \in Streams : Awaited(q) \in Nat /\ n[q] \in Nat /\ One(frame) \in Nat
  BY <1>1 DEF Awaited, One
<1>6. rest[k] = m /\ \A q \in Streams \ {k} : rest[q] = n[q]
  OBVIOUS
<1> HIDE DEF rest
<1>7. Counted(rest)' = Counted(n)
  <2>1. CASE k = "stdout"
    BY <1>1, <1>3, <1>5, <1>6, <2>1 DEF Counted, Streams
  <2>2. CASE k = "stderr"
    BY <1>1, <1>3, <1>5, <1>6, <2>2 DEF Counted, Streams
  <2> QED
    BY <2>1, <2>2 DEF Streams
<1>8. Broken' <=> Broken
  BY DEF Broken
<1> QED
  BY <1>2, <1>4, <1>7, <1>8 DEF LinesCounted

\* What is counted grows with one of its terms.
LEMMA CountGrows ==
    ASSUME handled \in Nat, NEW n \in [Streams -> Nat], NEW k \in Streams, NEW o \in Nat,
           NEW m \in [Streams -> Nat], m[k] = n[k] + o, \A q \in Streams \ {k} : m[q] = n[q],
           UNCHANGED <<handled, consumer>>
    PROVE  Counted(m)' = Counted(n) + o /\ Counted(n) \in Nat
<1>1. /\ Awaited("stdout")' = Awaited("stdout") /\ Awaited("stdout") \in Nat
      /\ Awaited("stderr")' = Awaited("stderr") /\ Awaited("stderr") \in Nat
      /\ n["stdout"] \in Nat /\ n["stderr"] \in Nat
  BY DEF Awaited, Streams
<1>2. CASE k = "stdout"
  <2>1. m["stdout"] = n["stdout"] + o /\ m["stderr"] = n["stderr"]
    BY <1>2 DEF Streams
  <2> QED
    BY <1>1, <2>1 DEF Counted
<1>3. CASE k = "stderr"
  <2>1. m["stderr"] = n["stderr"] + o /\ m["stdout"] = n["stdout"]
    BY <1>3 DEF Streams
  <2> QED
    BY <1>1, <2>1 DEF Counted
<1> QED
  BY <1>2, <1>3 DEF Streams

\* The child writes a frame, and a line is counted.
LEMMA FrameIsWritten ==
    ASSUME RunnerInv, owner = "alive", NEW k \in Streams, NEW frame \in Groups,
           out' = [out EXCEPT ![k] = Append(@, frame)],
           printed' = printed + One(frame), UNCHANGED <<handled, consumer>>
    PROVE  LinesCounted'
<1>1. /\ out \in [Streams -> Seq(Groups)] /\ handled \in Nat /\ printed \in Nat
      /\ One(frame) \in Nat
  BY BoundsAssumption DEF RunnerInv, QueueTypes, One
<1>2. PICK n \in [Streams -> Nat] :
         /\ \A q \in Streams : HoldsLines(out[q], n[q])
         /\ Counted(n) <= printed /\ (Broken \/ Counted(n) = printed)
  BY DEF RunnerInv, LinesInv, LinesCounted
<1>3. n[k] \in Nat /\ HoldsLines(Append(out[k], frame), n[k] + One(frame))
  BY <1>1, <1>2, LineArrives
<1>a. PICK m \in Nat : m = n[k] + One(frame)
  BY <1>1, <1>3
<1> DEFINE more == [n EXCEPT ![k] = m]
<1>4. more \in [Streams -> Nat] /\ \A q \in Streams : HoldsLines(out'[q], more[q])
  BY <1>1, <1>2, <1>3, <1>a
<1>5. \A q \in Streams : Awaited(q)' = Awaited(q) /\ Awaited(q) \in Nat /\ n[q] \in Nat
  BY DEF Awaited
<1>6. more[k] = n[k] + One(frame) /\ \A q \in Streams \ {k} : more[q] = n[q]
  BY <1>a
<1> HIDE DEF more
<1>7. Counted(more)' = Counted(n) + One(frame) /\ Counted(n) \in Nat
  BY <1>1, <1>4, <1>6, CountGrows
<1>8. Broken' <=> Broken
  BY DEF Broken
<1> QED
  BY <1>1, <1>2, <1>4, <1>7, <1>8 DEF LinesCounted

\* What becomes of an awaited line: it is handled, or its consumer breaks; a
\* consumer may also break while it reads.
LEMMA LineIsSettled ==
    ASSUME RunnerInv, owner = "alive", NEW k \in Streams, UNCHANGED <<out, printed>>,
           \/ /\ consumer[k] = "awaiting" /\ handled' = handled + 1
              /\ consumer' = [consumer EXCEPT ![k] = "reading"]
           \/ /\ handled' = handled
              /\ consumer' = [consumer EXCEPT ![k] = "broken"]
    PROVE  LinesCounted'
<1>1. /\ handled \in Nat /\ printed \in Nat
      /\ consumer \in [Streams -> {"reading", "awaiting", "broken"}]
  BY BoundsAssumption DEF RunnerInv, QueueTypes, OwnerTypes
<1>2. PICK n \in [Streams -> Nat] :
         /\ \A q \in Streams : HoldsLines(out[q], n[q])
         /\ Counted(n) <= printed /\ (Broken \/ Counted(n) = printed)
  BY DEF RunnerInv, LinesInv, LinesCounted
<1>3. /\ \A q \in Streams \ {k} : Awaited(q)' = Awaited(q)
      /\ \A q \in Streams : Awaited(q) \in Nat /\ n[q] \in Nat
  BY <1>1 DEF Awaited
<1>4. CASE handled' = handled + 1 /\ consumer[k] = "awaiting"
           /\ consumer' = [consumer EXCEPT ![k] = "reading"]
  <2>1. Awaited(k) = 1 /\ Awaited(k)' = 0
    BY <1>1, <1>4 DEF Awaited
  <2>2. Counted(n)' = Counted(n)
    BY <1>1, <1>3, <1>4, <2>1 DEF Counted, Streams
  <2>3. Broken => Broken'
    BY <1>1, <1>4 DEF Broken
  <2> QED
    BY <1>2, <2>2, <2>3 DEF LinesCounted
<1>5. CASE handled' = handled /\ consumer' = [consumer EXCEPT ![k] = "broken"]
  <2>1. Awaited(k)' = 0 /\ Broken'
    BY <1>1, <1>5 DEF Awaited, Broken
  <2>2. Counted(n)' <= Counted(n) /\ Counted(n) \in Nat /\ Counted(n)' \in Nat
    BY <1>1, <1>3, <1>5, <2>1 DEF Counted, Streams
  <2> QED
    BY <1>1, <1>2, <2>1, <2>2 DEF LinesCounted
<1> QED
  BY <1>4, <1>5

\* Every line is handled, awaited or still to be read as long as the consumers read.
LEMMA LinesStep == RunnerInv /\ [RunnerNext]_runnerVars => LinesInv'
<1> SUFFICES ASSUME RunnerInv, [RunnerNext]_runnerVars PROVE LinesInv'
  OBVIOUS
<1>0. /\ cause # "none" /\ owner' = "alive" => cause' # "none"
      /\ terminating /\ owner' = "alive" => terminating'
  BY StoppingSteps DEF Stopped
<1>a. "marker" \in Operations /\ "marker" \notin Streams
      /\ \A k \in Streams : k \in Operations
  BY DEF Operations, Streams
<1>b. owner = "alive" => LinesInv /\ chain \in Seq(Operations)
  BY DEF RunnerInv, QueueTypes
<1> USE DEF stopping, reading, ending, childVars, ownerVars, Settled
<1>1. ASSUME UNCHANGED <<owner, cause, terminating, consumer, chain, handled, printed, out>>
      PROVE  LinesInv'
  BY <1>1, <1>b DEF LinesInv, LinesCounted, Counted, Awaited, Broken
<1>2. ASSUME owner = "alive", UNCHANGED <<owner, consumer, printed, handled, out>>,
             \/ chain' = chain \/ chain' = Append(chain, "marker")
             \/ chain # <<>> /\ Head(chain) = "marker" /\ chain' = Tail(chain)
      PROVE  LinesInv'
  <2>1. ASSUME NEW k \in Streams
        PROVE  OneLine(chain', k) /\ (HasLine(chain', k) => consumer[k] = "awaiting")
    <3>1. OneLine(chain, k) /\ (HasLine(chain, k) => consumer[k] = "awaiting")
      BY <1>2, <1>b DEF LinesInv
    <3>2. CASE chain' = Append(chain, "marker")
      <4>1. "marker" \in Operations \ {k}
        BY <1>a
      <4> QED
        BY <1>2, <1>b, <3>1, <3>2, <4>1, LinesInChain
    <3>3. CASE chain # <<>> /\ chain' = Tail(chain)
      BY <1>2, <1>b, <3>1, <3>3, LinesInChain
    <3> QED
      BY <1>2, <3>1, <3>2, <3>3
  <2>2. LinesCounted'
    BY <1>2, <1>b DEF LinesInv, LinesCounted, Counted, Awaited, Broken
  <2> QED
    BY <1>0, <1>2, <1>b, <2>1, <2>2 DEF LinesInv, Broken
<1>3. CASE ReleaseFails
  BY <1>2, <1>3 DEF ReleaseFails
<1>4. CASE SpawnFails
  BY <1>2, <1>4 DEF SpawnFails, QueueMarker
<1>5. ASSUME NEW k \in Streams, ReadLine(k) PROVE LinesInv'
  <2>1. /\ owner = "alive" /\ Reads(k, Line) /\ consumer[k] = "reading"
        /\ consumer' = [consumer EXCEPT ![k] = "awaiting"] /\ chain' = Append(chain, k)
        /\ out' = [out EXCEPT ![k] = Tail(@)]
        /\ UNCHANGED <<owner, cause, terminating, printed, handled>>
    BY <1>5 DEF ReadLine, Reads
  <2>2. consumer \in [Streams -> {"reading", "awaiting", "broken"}]
    BY DEF RunnerInv, OwnerTypes
  <2>3. LinesCounted'
    BY <2>1, <2>2, FrameIsTaken DEF Line, Groups
  <2>4. \A q \in Streams : OneLine(chain', q) /\ (HasLine(chain', q) => consumer'[q] = "awaiting")
    BY <1>a, <1>b, <2>1, <2>2, LinesInChain DEF LinesInv
  <2> QED
    BY <1>b, <2>1, <2>2, <2>3, <2>4 DEF LinesInv, Broken
<1>6. ASSUME NEW k \in Streams, HandleLine(k) PROVE LinesInv'
  <2>1. /\ owner = "alive" /\ consumer[k] = "awaiting" /\ handled' = handled + 1
        /\ consumer' = [consumer EXCEPT ![k] = "reading"]
        /\ UNCHANGED <<owner, cause, terminating, printed, out>>
        /\ chain # <<>> /\ chain' = Tail(chain) /\ ~HasLine(chain', k)
    BY <1>6, HeadIsAwaited DEF HandleLine, NextOperation
  <2>2. consumer \in [Streams -> {"reading", "awaiting", "broken"}]
    BY DEF RunnerInv, OwnerTypes
  <2>3. LinesCounted'
    BY <2>1, LineIsSettled
  <2>4. \A q \in Streams : OneLine(chain', q) /\ (HasLine(chain', q) => consumer'[q] = "awaiting")
    BY <1>b, <2>1, <2>2, LinesInChain DEF LinesInv
  <2> QED
    BY <1>b, <2>1, <2>2, <2>3, <2>4 DEF LinesInv, Broken
<1>7. ASSUME NEW k \in Streams, LineFails(k) PROVE LinesInv'
  <2>1. /\ owner = "alive" /\ handled' = handled
        /\ consumer' = [consumer EXCEPT ![k] = "broken"]
        /\ UNCHANGED <<owner, printed, out>>
        /\ chain # <<>> /\ chain' = Tail(chain) /\ ~HasLine(chain', k)
    BY <1>7, HeadIsAwaited DEF LineFails, NextOperation
  <2>2. consumer \in [Streams -> {"reading", "awaiting", "broken"}]
    BY DEF RunnerInv, OwnerTypes
  <2>3. LinesCounted'
    BY <2>1, LineIsSettled
  <2>4. \A q \in Streams : OneLine(chain', q) /\ (HasLine(chain', q) => consumer'[q] = "awaiting")
    BY <1>b, <2>1, <2>2, LinesInChain DEF LinesInv
  <2>5. cause' # "none" /\ terminating'
    <3>1. Terminates
      BY <1>7 DEF LineFails, WriteErrors, Terminates
    <3> QED
      BY <3>1, TerminationStops DEF RunnerInv
  <2> QED
    BY <2>1, <2>3, <2>4, <2>5 DEF LinesInv
<1>8. CASE WriteMarker
  BY <1>2, <1>8 DEF WriteMarker, NextOperation
<1>9. ASSUME NEW c \in Commands, Register(c) \/ RegisterLate(c) PROVE LinesInv'
  <2>1. /\ owner = "alive" /\ Reads("stdout", c) /\ consumer["stdout"] = "reading"
        /\ out' = [out EXCEPT !["stdout"] = Tail(@)]
        /\ UNCHANGED <<owner, cause, terminating, consumer, chain, printed, handled>>
    BY <1>9 DEF Register, RegisterLate, ReadsRegistration, RegistrationIsRead, Reads
  <2>2. c # Line /\ c \in Groups /\ "stdout" \in Streams
    BY OwnAssumption DEF Line, Groups, Streams
  <2>3. LinesCounted'
    BY <2>1, <2>2, FrameIsTaken
  <2> QED
    BY <1>b, <2>1, <2>3 DEF LinesInv, Broken
<1>11. ASSUME NEW c \in Commands, RegisterFails(c) PROVE LinesInv'
  <2>1. /\ owner = "alive" /\ consumer["stdout"] = "reading" /\ "stdout" \in Streams
        /\ consumer' = [consumer EXCEPT !["stdout"] = "broken"]
        /\ UNCHANGED <<owner, chain, out, printed, handled>> /\ Terminates
    BY <1>11 DEF RegisterFails, ReadsRegistration, Reads, Terminates, Streams
  <2>2. cause' # "none" /\ terminating'
    BY <2>1, TerminationStops DEF RunnerInv
  <2>3. consumer \in [Streams -> {"reading", "awaiting", "broken"}]
    BY DEF RunnerInv, OwnerTypes
  <2>4. LinesCounted'
    BY <2>1, LineIsSettled
  <2> QED
    BY <1>b, <2>1, <2>2, <2>3, <2>4 DEF LinesInv
<1>12. CASE FinishClosed
  BY <1>2, <1>12 DEF FinishClosed, Finish
<1>13. CASE ForceFires
  BY <1>2, <1>13 DEF ForceFires, Finish
<1>14. CASE TimeoutFires
  BY <1>2, <1>14 DEF TimeoutFires, QueueMarker
<1>15. CASE Cancel
  BY <1>2, <1>15 DEF Cancel, QueueMarker
<1>16. CASE EndDiskCheck
  BY <1>2, <1>16 DEF EndDiskCheck, QueueMarker
<1>17. CASE OwnerExits
  BY <1>17 DEF OwnerExits, LinesInv
<1>18. CASE OwnerCrashes
  BY <1>18 DEF OwnerCrashes, LinesInv
<1>19. ASSUME NEW k \in Streams, ChildPrints(k) PROVE LinesInv'
  <2>1. /\ UNCHANGED <<owner, cause, terminating, consumer, chain, handled>>
        /\ printed' = printed + One(Line) /\ out' = [out EXCEPT ![k] = Append(@, Line)]
        /\ Line \in Groups
    BY <1>19 DEF ChildPrints, Line, One, Groups
  <2>2. owner = "alive" => LinesCounted'
    BY <2>1, FrameIsWritten
  <2> QED
    BY <1>b, <2>1, <2>2 DEF LinesInv, Broken
<1>20. ASSUME NEW c \in Commands, SpawnBash(c) PROVE LinesInv'
  <2>1. /\ UNCHANGED <<owner, cause, terminating, consumer, chain, handled, printed>>
        /\ out' = [out EXCEPT !["stdout"] = Append(@, c)]
        /\ c \in Groups /\ "stdout" \in Streams /\ One(c) = 0
    BY <1>20, OwnAssumption DEF SpawnBash, Groups, Streams, One, Line
  <2>2. printed' = printed + One(c)
    BY <2>1, BoundsAssumption DEF RunnerInv, QueueTypes
  <2>3. owner = "alive" => LinesCounted'
    BY <2>1, <2>2, FrameIsWritten
  <2> QED
    BY <1>b, <2>1, <2>3 DEF LinesInv, Broken
<1>21. CASE ReleaseChild \/ BeginSettlement \/ KillRemaining \/ EndSettlement \/ Close \/
       Return \/ KillFires \/ Retire \/ BeginDiskCheck \/ ChildStarts \/ ControlLost
  BY <1>1, <1>21 DEF ReleaseChild, BeginSettlement, KillRemaining, EndSettlement, Close,
    Return, KillFires, Retire, BeginDiskCheck, ChildStarts, ControlLost
<1>22. ASSUME NEW c \in Commands, Acknowledged(c) \/ CallStopped(c) \/ CallReturns(c)
      PROVE  LinesInv'
  BY <1>1, <1>22 DEF Acknowledged, CallStopped, CallReturns
<1>23. ASSUME NEW code \in {"zero", "other"}, ChildExits(code)
      PROVE  LinesInv'
  BY <1>1, <1>23 DEF ChildExits
<1>24. ASSUME NEW g \in Groups, GroupEnds(g)
      PROVE  LinesInv'
  BY <1>1, <1>24 DEF GroupEnds
<1>25. CASE UNCHANGED runnerVars
  BY <1>1, <1>25 DEF runnerVars
<1> QED
  BY <1>3, <1>4, <1>5, <1>6, <1>7, <1>8, <1>9, <1>11, <1>12, <1>13, <1>14, <1>15, <1>16,
     <1>17, <1>18, <1>19, <1>20, <1>21, <1>22, <1>23, <1>24, <1>25
    DEF RunnerNext, OwnerCallback, OwnerTimer, ChildStep

-----------------------------------------------------------------------------
(* The child and the custody of its commands.                               *)

LEMMA ChildTypeStep == RunnerInv /\ [RunnerNext]_runnerVars => ChildTypes'
<1> SUFFICES ASSUME RunnerInv, [RunnerNext]_runnerVars PROVE ChildTypes'
  OBVIOUS
<1> USE DEF RunnerInv, ChildTypes, Groups, stopping, reading, ending, childVars, ownerVars,
    Settled
<1>1. ASSUME UNCHANGED <<owned, control, killed, child, exitCode, call, group, observation>>
      PROVE  ChildTypes'
  BY <1>1
<1>2. CASE ReleaseChild
  BY <1>2 DEF ReleaseChild, Release
<1>3. CASE ReleaseFails
  BY <1>3 DEF ReleaseFails
<1>4. CASE SpawnFails
  BY <1>4 DEF SpawnFails
<1>5. ASSUME NEW c \in Commands, Register(c) PROVE ChildTypes'
  BY <1>5 DEF Register
<1>6. ASSUME NEW c \in Commands, RegisterLate(c) PROVE ChildTypes'
  BY <1>6 DEF RegisterLate
<1>7. ASSUME NEW c \in Commands, RegisterFails(c) PROVE ChildTypes'
  BY <1>7 DEF RegisterFails
<1>8. CASE KillRemaining
  BY <1>8 DEF KillRemaining, Remaining
<1>9. CASE KillFires
  BY <1>9 DEF KillFires, Remaining
<1>10. CASE Retire
  BY <1>10 DEF Retire, Remaining
<1>11. CASE OwnerExits
  BY <1>11 DEF OwnerExits, Remaining, MemoryIsLost
<1>12. CASE OwnerCrashes
  BY <1>12 DEF OwnerCrashes, MemoryIsLost
<1>13. CASE ChildStarts
  BY <1>13 DEF ChildStarts, Release, ChildInv
<1>14. ASSUME NEW c \in Commands, SpawnBash(c) PROVE ChildTypes'
  BY <1>14 DEF SpawnBash
<1>15. ASSUME NEW c \in Commands, Acknowledged(c) PROVE ChildTypes'
  BY <1>15 DEF Acknowledged
<1>16. ASSUME NEW c \in Commands, CallStopped(c) PROVE ChildTypes'
  BY <1>16 DEF CallStopped
<1>17. ASSUME NEW c \in Commands, CallReturns(c) PROVE ChildTypes'
  BY <1>17 DEF CallReturns
<1>18. ASSUME NEW code \in {"zero", "other"}, ChildExits(code) PROVE ChildTypes'
  BY <1>18 DEF ChildExits
<1>19. CASE ControlLost
  BY <1>19 DEF ControlLost
<1>20. ASSUME NEW g \in Groups, GroupEnds(g) PROVE ChildTypes'
  BY <1>20 DEF GroupEnds
<1> HIDE DEF ChildTypes
<1>21. CASE SomeLineIsRead \/ SomeLineIsHandled \/ SomeLineFails \/ WriteMarker \/
       BeginSettlement \/
       EndSettlement \/ Close \/ FinishClosed \/ Return \/ ForceFires \/ TimeoutFires \/
       Cancel \/ BeginDiskCheck \/ EndDiskCheck \/ SomeLineIsPrinted
  BY <1>1, <1>21 DEF ReadLine, SomeLineIsRead, HandleLine, SomeLineIsHandled, LineFails,
    SomeLineFails, WriteMarker, BeginSettlement, EndSettlement, Close, FinishClosed, Return,
    ForceFires, TimeoutFires, Cancel, BeginDiskCheck, EndDiskCheck, ChildPrints, SomeLineIsPrinted
<1>22. CASE UNCHANGED runnerVars
  BY <1>1, <1>22 DEF runnerVars
<1> QED
  BY <1>2, <1>3, <1>4, <1>5, <1>6, <1>7, <1>8, <1>9, <1>10, <1>11, <1>12, <1>13, <1>14, <1>15,
     <1>16, <1>17, <1>18, <1>19, <1>20, <1>21, <1>22
    DEF RunnerNext, OwnerCallback, OwnerTimer, ChildStep, SomeLineIsRead, SomeLineIsHandled,
      SomeLineFails, SomeLineIsPrinted

\* Nothing is done before the spawn is committed, and nothing was started by a child
\* that did not spawn.
LEMMA ChildInvStep == RunnerInv /\ [RunnerNext]_runnerVars => ChildInv'
<1> SUFFICES ASSUME RunnerInv, [RunnerNext]_runnerVars PROVE ChildInv'
  OBVIOUS
<1>0. cause' = "spawn_error" =>
        \/ cause = "spawn_error"
        \/ child' = "exited" /\ group'[Own] = "gone" /\ \A c \in Commands : call'[c] = "none"
  BY StoppingSteps DEF Stopped, SpawnFails, RunnerInv, ChildInv, ChildTypes, Groups
<1> USE <1>0, OwnAssumption DEF RunnerInv, ChildInv, ChildTypes, QueueTypes, CustodyInv, Groups,
    stopping, reading, ending, childVars, ownerVars, Settled
<1>1. ASSUME UNCHANGED <<observation, child, control, printed, call, group>> PROVE ChildInv'
  BY <1>1
<1>2. CASE ReleaseChild
  BY <1>2 DEF ReleaseChild, Release
<1>3. CASE ReleaseFails
  BY <1>3 DEF ReleaseFails
<1>4. CASE SpawnFails
  BY <1>4 DEF SpawnFails
<1>5. ASSUME NEW c \in Commands, Register(c) PROVE ChildInv'
  BY <1>5 DEF Register, ReadsRegistration, RegistrationIsRead, Reads, Release, Exists
<1>6. CASE OwnerExits
  BY <1>6 DEF OwnerExits, MemoryIsLost
<1>7. CASE OwnerCrashes
  BY <1>7 DEF OwnerCrashes, MemoryIsLost
<1>8. CASE ChildStarts
  BY <1>8 DEF ChildStarts, Release
<1>9. ASSUME NEW k \in Streams, ChildPrints(k) PROVE ChildInv'
  BY <1>9 DEF ChildPrints
<1>10. ASSUME NEW c \in Commands, SpawnBash(c) PROVE ChildInv'
  BY <1>10 DEF SpawnBash
<1>11. ASSUME NEW c \in Commands, Acknowledged(c) PROVE ChildInv'
  BY <1>11 DEF Acknowledged
<1>12. ASSUME NEW c \in Commands, CallStopped(c) PROVE ChildInv'
  BY <1>12 DEF CallStopped
<1>13. ASSUME NEW c \in Commands, CallReturns(c) PROVE ChildInv'
  BY <1>13 DEF CallReturns
<1>14. ASSUME NEW code \in {"zero", "other"}, ChildExits(code) PROVE ChildInv'
  BY <1>14 DEF ChildExits
<1>15. ASSUME NEW g \in Groups, GroupEnds(g) PROVE ChildInv'
  BY <1>15 DEF GroupEnds
<1> HIDE DEF ChildInv
<1>16. CASE SomeLineIsRead \/ SomeLineIsHandled \/ SomeLineFails \/ WriteMarker \/
       BeginSettlement \/
       KillRemaining \/ EndSettlement \/ Close \/ FinishClosed \/ Return \/ KillFires \/
       ForceFires \/ TimeoutFires \/ Cancel \/ Retire \/ BeginDiskCheck \/ EndDiskCheck \/
       ControlLost
  BY <1>1, <1>16 DEF ReadLine, SomeLineIsRead, HandleLine, SomeLineIsHandled, LineFails,
    SomeLineFails, WriteMarker, BeginSettlement, KillRemaining, EndSettlement, Close,
    FinishClosed, Return, KillFires, ForceFires, TimeoutFires, Cancel, Retire, BeginDiskCheck,
    EndDiskCheck, ControlLost
<1>17. ASSUME NEW c \in Commands, RegisterLate(c) \/ RegisterFails(c)
      PROVE  ChildInv'
  BY <1>1, <1>17 DEF RegisterLate, RegisterFails
<1>18. CASE UNCHANGED runnerVars
  BY <1>1, <1>18 DEF runnerVars
<1> QED
  BY <1>2, <1>3, <1>4, <1>5, <1>6, <1>7, <1>8, <1>9, <1>10, <1>11, <1>12, <1>13, <1>14, <1>15,
     <1>16, <1>17, <1>18
    DEF RunnerNext, OwnerCallback, OwnerTimer, ChildStep, SomeLineIsRead, SomeLineIsHandled,
      SomeLineFails, SomeLineIsPrinted

\* A command is answered, and so let run, only behind the taking of its group, which
\* is given up only when it is empty.
LEMMA CustodyStep == RunnerInv /\ [RunnerNext]_runnerVars => CustodyInv'
<1> SUFFICES ASSUME RunnerInv, [RunnerNext]_runnerVars PROVE CustodyInv'
  OBVIOUS
<1> USE OwnAssumption DEF RunnerInv, CustodyInv, ChildInv, ChildTypes, Groups, stopping,
    reading, ending, childVars, ownerVars, Settled
<1>1. ASSUME UNCHANGED <<group, call, control, owned>> PROVE CustodyInv'
  BY <1>1
<1>2. CASE ReleaseChild
  BY <1>2 DEF ReleaseChild, Release
<1>3. CASE SpawnFails
  BY <1>3 DEF SpawnFails
<1>4. ASSUME NEW c \in Commands, Register(c) PROVE CustodyInv'
  BY <1>4 DEF Register, ReadsRegistration, RegistrationIsRead, Reads, Exists
<1>5. ASSUME NEW c \in Commands, RegisterLate(c) PROVE CustodyInv'
  BY <1>5 DEF RegisterLate, ReadsRegistration, RegistrationIsRead, Reads, Exists
<1>6. ASSUME NEW c \in Commands, RegisterFails(c) PROVE CustodyInv'
  BY <1>6 DEF RegisterFails
<1>7. CASE Retire
  BY <1>7 DEF Retire, Remaining, Exists
<1>8. CASE OwnerExits
  BY <1>8 DEF OwnerExits, MemoryIsLost
<1>9. CASE OwnerCrashes
  BY <1>9 DEF OwnerCrashes, MemoryIsLost
<1>10. CASE ChildStarts
  BY <1>10 DEF ChildStarts
<1>11. ASSUME NEW c \in Commands, SpawnBash(c) PROVE CustodyInv'
  BY <1>11 DEF SpawnBash
<1>12. ASSUME NEW c \in Commands, Acknowledged(c) PROVE CustodyInv'
  BY <1>12 DEF Acknowledged
<1>13. ASSUME NEW c \in Commands, CallStopped(c) PROVE CustodyInv'
  BY <1>13 DEF CallStopped
<1>14. ASSUME NEW c \in Commands, CallReturns(c) PROVE CustodyInv'
  BY <1>14 DEF CallReturns
<1>15. ASSUME NEW code \in {"zero", "other"}, ChildExits(code) PROVE CustodyInv'
  BY <1>15 DEF ChildExits
<1>16. ASSUME NEW g \in Groups, GroupEnds(g) PROVE CustodyInv'
  BY <1>16 DEF GroupEnds
<1> HIDE DEF CustodyInv
<1>17. CASE ReleaseFails \/ SomeLineIsRead \/ SomeLineIsHandled \/ SomeLineFails \/ WriteMarker \/
       BeginSettlement \/ KillRemaining \/ EndSettlement \/ Close \/ FinishClosed \/ Return
       \/ KillFires \/ ForceFires \/ TimeoutFires \/ Cancel \/ BeginDiskCheck \/
       EndDiskCheck \/ SomeLineIsPrinted \/ ControlLost
  BY <1>1, <1>17 DEF ReleaseFails, ReadLine, SomeLineIsRead, HandleLine, SomeLineIsHandled,
    LineFails, SomeLineFails, WriteMarker, BeginSettlement, KillRemaining, EndSettlement, Close,
    FinishClosed, Return, KillFires, ForceFires, TimeoutFires, Cancel, BeginDiskCheck,
    EndDiskCheck, ChildPrints, SomeLineIsPrinted, ControlLost
<1>18. CASE UNCHANGED runnerVars
  BY <1>1, <1>18 DEF runnerVars
<1> QED
  BY <1>2, <1>3, <1>4, <1>5, <1>6, <1>7, <1>8, <1>9, <1>10, <1>11, <1>12, <1>13, <1>14, <1>15,
     <1>16, <1>17, <1>18
    DEF RunnerNext, OwnerCallback, OwnerTimer, ChildStep, SomeLineIsRead, SomeLineIsHandled,
      SomeLineFails, SomeLineIsPrinted

\* What is doomed stays so, as long as no command is answered.
LEMMA DoomedStays ==
    ASSUME RunnerInv, [RunnerNext]_runnerVars, Doomed, \A c \in Commands : ~Register(c)
    PROVE  Doomed'
<1> USE OwnAssumption DEF RunnerInv, Doomed, CustodyInv, ChildInv, ChildTypes, Groups,
    stopping, reading, ending, childVars, ownerVars, Settled
<1>1. ASSUME UNCHANGED <<group, control, killed>> PROVE Doomed'
  BY <1>1
<1>2. CASE ReleaseChild
  BY <1>2 DEF ReleaseChild, Release
<1>3. CASE SpawnFails
  BY <1>3 DEF SpawnFails
<1>4. CASE KillRemaining
  BY <1>4 DEF KillRemaining
<1>5. CASE KillFires
  BY <1>5 DEF KillFires
<1>6. CASE OwnerExits
  BY <1>6 DEF OwnerExits
<1>7. CASE ChildStarts
  BY <1>7 DEF ChildStarts
<1>8. ASSUME NEW c \in Commands, SpawnBash(c) PROVE Doomed'
  BY <1>8 DEF SpawnBash
<1>9. ASSUME NEW c \in Commands, Acknowledged(c) PROVE Doomed'
  BY <1>9 DEF Acknowledged
<1>10. ASSUME NEW c \in Commands, CallStopped(c) PROVE Doomed'
  BY <1>10 DEF CallStopped
<1>11. ASSUME NEW code \in {"zero", "other"}, ChildExits(code) PROVE Doomed'
  BY <1>11 DEF ChildExits
<1>12. CASE ControlLost
  BY <1>12 DEF ControlLost
<1>13. ASSUME NEW g \in Groups, GroupEnds(g) PROVE Doomed'
  BY <1>13 DEF GroupEnds
<1> HIDE DEF Doomed
<1>14. CASE ReleaseFails \/ SomeLineIsRead \/ SomeLineIsHandled \/ SomeLineFails \/ WriteMarker
            \/ BeginSettlement \/ EndSettlement \/ Close \/ FinishClosed \/ Return \/ ForceFires
            \/ TimeoutFires \/ Cancel \/ Retire \/ BeginDiskCheck \/ EndDiskCheck \/ OwnerCrashes
            \/ SomeLineIsPrinted
  BY <1>1, <1>14 DEF ReleaseFails, ReadLine, SomeLineIsRead, HandleLine, SomeLineIsHandled,
    LineFails, SomeLineFails, WriteMarker, BeginSettlement, EndSettlement, Close, FinishClosed,
    Return, ForceFires, TimeoutFires, Cancel, Retire, BeginDiskCheck, EndDiskCheck,
    OwnerCrashes, ChildPrints, SomeLineIsPrinted
<1>15. ASSUME NEW c \in Commands, RegisterLate(c) \/ RegisterFails(c) \/
       CallReturns(c)
      PROVE  Doomed'
  BY <1>1, <1>15 DEF RegisterLate, RegisterFails, CallReturns
<1>16. CASE UNCHANGED runnerVars
  BY <1>1, <1>16 DEF runnerVars
<1> QED
  BY <1>2, <1>3, <1>4, <1>5, <1>6, <1>7, <1>8, <1>9, <1>10, <1>11, <1>12, <1>13, <1>14, <1>15,
     <1>16
    DEF RunnerNext, OwnerCallback, OwnerTimer, ChildStep, SomeLineIsRead, SomeLineIsHandled,
      SomeLineFails, SomeLineIsPrinted

\* What a child that has gone leaves.
StaysGone ==
    child = "exited" =>
        /\ child' = "exited" /\ exitCode' = exitCode /\ printed' = printed
        /\ NothingRuns => NothingRuns'

LEMMA GoneStays == RunnerInv /\ [RunnerNext]_runnerVars => StaysGone
<1> SUFFICES ASSUME RunnerInv, [RunnerNext]_runnerVars PROVE StaysGone
  OBVIOUS
<1> USE DEF RunnerInv, StaysGone, NothingRuns, ChildTypes, Groups, stopping, reading,
    ending, childVars, ownerVars, Settled
<1>1. ASSUME UNCHANGED <<child, exitCode, printed, call, group>> PROVE StaysGone
  BY <1>1
<1>2. CASE SpawnFails
  BY <1>2 DEF SpawnFails
<1>3. CASE ChildStarts
  BY <1>3 DEF ChildStarts
<1>4. ASSUME NEW k \in Streams, ChildPrints(k) PROVE StaysGone
  BY <1>4 DEF ChildPrints
<1>5. ASSUME NEW c \in Commands, SpawnBash(c) PROVE StaysGone
  BY <1>5 DEF SpawnBash
<1>6. ASSUME NEW c \in Commands, Acknowledged(c) PROVE StaysGone
  BY <1>6 DEF Acknowledged
<1>7. ASSUME NEW c \in Commands, CallStopped(c) PROVE StaysGone
  BY <1>7 DEF CallStopped
<1>8. ASSUME NEW c \in Commands, CallReturns(c) PROVE StaysGone
  BY <1>8 DEF CallReturns
<1>9. ASSUME NEW code \in {"zero", "other"}, ChildExits(code) PROVE StaysGone
  BY <1>9 DEF ChildExits
<1>10. ASSUME NEW g \in Groups, GroupEnds(g) PROVE StaysGone
  BY <1>10 DEF GroupEnds
<1> HIDE DEF StaysGone
<1>11. CASE ReleaseChild \/ ReleaseFails \/ SomeLineIsRead \/ SomeLineIsHandled \/ SomeLineFails \/
       WriteMarker \/ BeginSettlement \/ KillRemaining \/ EndSettlement \/ Close \/
       FinishClosed \/ Return \/ KillFires \/ ForceFires \/ TimeoutFires \/ Cancel \/ Retire
       \/ BeginDiskCheck \/ EndDiskCheck \/ OwnerExits \/ OwnerCrashes \/ ControlLost
  BY <1>1, <1>11 DEF ReleaseChild, ReleaseFails, ReadLine, SomeLineIsRead, HandleLine,
    SomeLineIsHandled, LineFails, SomeLineFails, WriteMarker, BeginSettlement, KillRemaining,
    EndSettlement, Close, FinishClosed, Return, KillFires, ForceFires, TimeoutFires, Cancel,
    Retire, BeginDiskCheck, EndDiskCheck, OwnerExits, OwnerCrashes, ControlLost
<1>12. ASSUME NEW c \in Commands, Register(c) \/ RegisterLate(c) \/ RegisterFails(c)
      PROVE  StaysGone
  BY <1>1, <1>12 DEF Register, RegisterLate, RegisterFails
<1>13. CASE UNCHANGED runnerVars
  BY <1>1, <1>13 DEF runnerVars
<1> QED
  BY <1>2, <1>3, <1>4, <1>5, <1>6, <1>7, <1>8, <1>9, <1>10, <1>11, <1>12, <1>13 DEF RunnerNext,
    OwnerCallback, OwnerTimer, ChildStep, SomeLineIsRead, SomeLineIsHandled, SomeLineFails,
    SomeLineIsPrinted

-----------------------------------------------------------------------------
(* The ends of a run.                                                       *)

\* What runs, or may be let run, is what the owner signals.
LEMMA RemainingAreAll ==
    ASSUME RunnerInv, NEW g \in Groups,
           group[g] = "running" \/ (g \in control /\ group[g] = "gated")
    PROVE  g \in Remaining
  BY DEF RunnerInv, CustodyInv, Remaining, Exists, Groups

\* No group is answered any more behind an end; until then whatever runs when it
\* is sent a signal is doomed.
LEMMA EndStep == RunnerInv /\ [RunnerNext]_runnerVars => EndInv'
<1> SUFFICES ASSUME RunnerInv, [RunnerNext]_runnerVars PROVE EndInv'
  OBVIOUS
<1> USE DEF RunnerInv, EndInv, stopping, reading, ending, childVars, ownerVars, Settled
<1>1. ASSUME NEW c \in Commands, Register(c) PROVE EndInv'
  <2>1. /\ owner = "alive" /\ ~terminating /\ child # "exited"
        /\ UNCHANGED <<settlement, closed, child, timers, terminating, result, owner>>
    BY <1>1 DEF Register, ReadsRegistration, RegistrationIsRead, Reads
  <2> QED
    BY <2>1
<1>2. CASE KillFires
  <2>1. /\ killed' = killed \cup Remaining /\ timers' = timers \ {"kill"}
        /\ UNCHANGED <<settlement, closed, child, terminating, result, owner, group, control>>
    BY <1>2 DEF KillFires
  <2>2. Doomed'
    BY <2>1, RemainingAreAll DEF Doomed
  <2> QED
    BY <2>1, <2>2 DEF NothingRuns
<1>3. ASSUME \A c \in Commands : ~Register(c), ~KillFires PROVE EndInv'
  <2>1. Doomed => Doomed'
    BY <1>3, DoomedStays
  <2>2. child = "exited" => child' = "exited" /\ (NothingRuns => NothingRuns')
    BY GoneStays DEF StaysGone
  <2>3. /\ "force" \in timers' => terminating'
        /\ "force" \in timers' /\ "kill" \notin timers' => Doomed'
        /\ terminating /\ owner' = "alive" => terminating'
    BY <1>3, <2>1, StoppingSteps DEF Stopped
  <2>4. ASSUME UNCHANGED <<settlement, closed, result, owner>> PROVE EndInv'
    BY <2>1, <2>2, <2>3, <2>4
  <2>5. CASE BeginSettlement
    <3>1. Remaining = {} => NothingRuns'
      BY <2>5, RemainingAreAll DEF BeginSettlement, NothingRuns
    <3> QED
      BY <2>1, <2>2, <2>3, <2>5, <3>1 DEF BeginSettlement
  <2>6. CASE KillRemaining
    <3>1. Remaining = {} => NothingRuns'
      BY <2>6, RemainingAreAll DEF KillRemaining, NothingRuns
    <3>2. Doomed'
      BY <2>6, RemainingAreAll DEF KillRemaining, Doomed
    <3> QED
      BY <2>1, <2>2, <2>3, <2>6, <3>1, <3>2 DEF KillRemaining
  <2>7. CASE EndSettlement
    <3>1. Remaining = {} => NothingRuns'
      BY <2>7, RemainingAreAll DEF EndSettlement, NothingRuns
    <3> QED
      BY <2>1, <2>2, <2>3, <2>7, <3>1 DEF EndSettlement
  <2>8. CASE Close
    BY <2>1, <2>2, <2>3, <2>8 DEF Close
  <2>9. CASE FinishClosed
    <3>1. child = "exited" /\ UNCHANGED <<settlement, closed, owner>>
      BY <2>9 DEF FinishClosed
    <3>2. control = {}
      BY <3>1 DEF ChildInv
    <3>3. settlement = "absent" => Doomed
      BY <3>2 DEF Doomed, NothingRuns
    <3>4. cause = "spawn_error" => Doomed
      BY <3>2, OwnAssumption DEF ChildInv, CustodyInv, Doomed, Groups
    <3>5. Doomed
      BY <2>9, <3>3, <3>4 DEF FinishClosed
    <3> QED
      BY <2>1, <2>2, <2>3, <3>1, <3>5
  <2>10. CASE ForceFires
    <3>1. Doomed /\ terminating /\ UNCHANGED <<settlement, closed, owner>>
      BY <2>10 DEF ForceFires
    <3> QED
      BY <2>1, <2>2, <2>3, <2>10, <3>1 DEF ForceFires
  <2>11. CASE OwnerExits
    <3>1. ~Settled => Doomed'
      BY <2>11, RemainingAreAll DEF OwnerExits, Doomed
    <3> QED
      BY <2>1, <2>2, <2>3, <2>11, <3>1 DEF OwnerExits, MemoryIsLost
  <2>12. CASE OwnerCrashes
    BY <2>1, <2>2, <2>3, <2>12 DEF OwnerCrashes, MemoryIsLost, OwnerTypes
  <2> HIDE DEF EndInv
  <2>13. CASE ReleaseChild \/ ReleaseFails \/ SpawnFails \/ SomeLineIsRead \/ SomeLineIsHandled
              \/ SomeLineFails \/ WriteMarker \/ Return \/ TimeoutFires \/ Cancel \/ Retire
              \/ BeginDiskCheck \/ EndDiskCheck \/ ChildStarts \/ SomeLineIsPrinted \/ ControlLost
    <3>1. UNCHANGED <<settlement, closed, result, owner>>
      BY <2>13 DEF ReleaseChild, ReleaseFails, SpawnFails, ReadLine, SomeLineIsRead, HandleLine,
        SomeLineIsHandled, LineFails, SomeLineFails, WriteMarker, Return, TimeoutFires, Cancel,
        Retire, BeginDiskCheck, EndDiskCheck, ChildStarts, ChildPrints, SomeLineIsPrinted,
        ControlLost
    <3> QED
      BY <2>4, <3>1
  <2>14. ASSUME NEW c \in Commands,
                RegisterLate(c) \/ RegisterFails(c) \/ SpawnBash(c) \/ Acknowledged(c)
                  \/ CallStopped(c) \/ CallReturns(c)
         PROVE  EndInv'
    BY <2>4, <2>14 DEF RegisterLate, RegisterFails, SpawnBash, Acknowledged, CallStopped,
      CallReturns
  <2>15. ASSUME NEW code \in {"zero", "other"}, ChildExits(code) PROVE EndInv'
    BY <2>4, <2>15 DEF ChildExits
  <2>16. ASSUME NEW g \in Groups, GroupEnds(g) PROVE EndInv'
    BY <2>4, <2>16 DEF GroupEnds
  <2>17. CASE UNCHANGED runnerVars
    BY <2>4, <2>17 DEF runnerVars
  <2> QED
    BY <1>3, <2>5, <2>6, <2>7, <2>8, <2>9, <2>10, <2>11, <2>12, <2>13, <2>14, <2>15, <2>16,
      <2>17 DEF RunnerNext, OwnerCallback, OwnerTimer, ChildStep, SomeLineIsRead,
      SomeLineIsHandled, SomeLineFails, SomeLineIsPrinted
<1> QED
  BY <1>1, <1>2, <1>3

\* A completed run has left nothing, neither groups nor lines.
LEMMA CompletedStep == RunnerInv /\ [RunnerNext]_runnerVars => CompletedInv'
<1> SUFFICES ASSUME RunnerInv, [RunnerNext]_runnerVars PROVE CompletedInv'
  OBVIOUS
<1>0. child = "exited" => child' = "exited" /\ exitCode' = exitCode /\ printed' = printed
          /\ (NothingRuns => NothingRuns')
  BY GoneStays DEF StaysGone
<1> USE <1>0 DEF RunnerInv, CompletedInv, stopping, reading, ending, childVars, ownerVars,
    Settled
<1>1. ASSUME UNCHANGED <<result, child, exitCode, group, consumer, out, handled, printed>>
      PROVE  CompletedInv'
  BY <1>1 DEF NothingRuns
<1>2. CASE SpawnFails
  BY <1>2 DEF SpawnFails
<1>3. ASSUME NEW k \in Streams, ReadLine(k) PROVE CompletedInv'
  BY <1>3 DEF ReadLine, Reads
<1>4. ASSUME NEW k \in Streams, HandleLine(k) PROVE CompletedInv'
  <2>1. consumer[k] = "awaiting"
    BY <1>4, HeadIsAwaited DEF HandleLine
  <2> QED
    BY <1>4, <2>1 DEF HandleLine
<1>5. ASSUME NEW k \in Streams, LineFails(k) PROVE CompletedInv'
  <2>1. consumer[k] = "awaiting"
    BY <1>5, HeadIsAwaited DEF LineFails
  <2> QED
    BY <1>5, <2>1 DEF LineFails
<1>6. ASSUME NEW c \in Commands, Register(c) PROVE CompletedInv'
  BY <1>6 DEF Register, ReadsRegistration, RegistrationIsRead, Reads
<1>7. ASSUME NEW c \in Commands, RegisterLate(c) PROVE CompletedInv'
  BY <1>7 DEF RegisterLate, ReadsRegistration, RegistrationIsRead, Reads
<1>8. ASSUME NEW c \in Commands, RegisterFails(c) PROVE CompletedInv'
  BY <1>8 DEF RegisterFails, ReadsRegistration, Reads, Exists, NothingRuns, QueueTypes, Groups,
    Streams
<1>9. CASE FinishClosed
  <2>1. SUFFICES ASSUME result' = "completed" PROVE CompletedInv'
    OBVIOUS
  <2>2. /\ owner = "alive" /\ closed /\ Consumed
        /\ UNCHANGED <<child, exitCode, group, consumer, out, handled, printed>>
    BY <1>9 DEF FinishClosed
  <2>3. cause \in CauseNames /\ Stronger(cause, "output_error") \in CauseNames
    BY StrongerCause DEF OwnerTypes, CauseNames
  <2>4. ~Finish(Stronger(cause, "output_error"), "none")
    BY <2>1, <2>3 DEF Finish, Reason, CauseNames
  <2>5. Finish(cause, exitCode) /\ (settlement = "absent" \/ cause = "spawn_error")
    BY <1>9, <2>4 DEF FinishClosed
  <2>6. cause = "none" /\ exitCode = "zero"
    BY <2>1, <2>3, <2>5 DEF Finish, Reason, CauseNames
  <2>7. child = "exited" /\ NothingRuns
    BY <2>2, <2>5, <2>6 DEF EndInv
  <2>8. ~Broken /\ \A k \in Streams : consumer[k] = "reading" /\ out[k] = <<>>
    BY <2>2, <2>6 DEF LinesInv, Broken, Consumed
  <2>9. handled = printed
    <3>1. PICK n \in [Streams -> Nat] :
             (\A k \in Streams : HoldsLines(out[k], n[k])) /\ Counted(n) = printed
      BY <2>2, <2>8 DEF LinesInv, LinesCounted
    <3>2. \A k \in Streams : n[k] = 0 /\ Awaited(k) = 0
      BY <2>8, <3>1, NoLines DEF Awaited
    <3> QED
      BY <3>1, <3>2, BoundsAssumption DEF Counted, Streams, QueueTypes
  <2> QED
    BY <2>2, <2>6, <2>7, <2>8, <2>9 DEF NothingRuns
<1>10. CASE ForceFires
  <2>1. cause \in CauseNames /\ Stronger(cause, "output_error") \in CauseNames
    BY StrongerCause DEF OwnerTypes, CauseNames
  <2>2. Finish(cause, "none") => result' # "completed"
    BY <2>1 DEF Finish, Reason, CauseNames
  <2>3. Finish(Stronger(cause, "output_error"), "none") => result' # "completed"
    BY <2>1 DEF Finish, Reason, CauseNames
  <2>4. /\ result' = result \/ result' # "completed"
        /\ UNCHANGED <<child, exitCode, group, consumer, out, handled, printed>>
    BY <1>10, <2>2, <2>3 DEF ForceFires
  <2> QED
    BY <2>4 DEF NothingRuns
<1>11. CASE OwnerExits
  BY <1>11 DEF OwnerExits, MemoryIsLost
<1>12. CASE OwnerCrashes
  BY <1>12 DEF OwnerCrashes, MemoryIsLost
<1>13. CASE ChildStarts
  BY <1>13 DEF ChildStarts
<1>14. ASSUME NEW k \in Streams, ChildPrints(k) PROVE CompletedInv'
  BY <1>14 DEF ChildPrints
<1>15. ASSUME NEW c \in Commands, SpawnBash(c) PROVE CompletedInv'
  BY <1>15 DEF SpawnBash
<1>16. ASSUME NEW c \in Commands, Acknowledged(c) PROVE CompletedInv'
  BY <1>16 DEF Acknowledged
<1>17. ASSUME NEW c \in Commands, CallStopped(c) PROVE CompletedInv'
  BY <1>17 DEF CallStopped
<1>18. ASSUME NEW c \in Commands, CallReturns(c) PROVE CompletedInv'
  BY <1>18 DEF CallReturns
<1>19. ASSUME NEW code \in {"zero", "other"}, ChildExits(code) PROVE CompletedInv'
  BY <1>19 DEF ChildExits
<1>20. ASSUME NEW g \in Groups, GroupEnds(g) PROVE CompletedInv'
  BY <1>20 DEF GroupEnds
<1> HIDE DEF CompletedInv
<1>21. CASE ReleaseChild \/ ReleaseFails \/ WriteMarker \/ BeginSettlement \/ KillRemaining
       \/ EndSettlement \/ Close \/ Return \/ KillFires \/ TimeoutFires \/ Cancel \/ Retire
       \/ BeginDiskCheck \/ EndDiskCheck \/ ControlLost
  BY <1>1, <1>21 DEF ReleaseChild, ReleaseFails, WriteMarker, BeginSettlement, KillRemaining,
    EndSettlement, Close, Return, KillFires, TimeoutFires, Cancel, Retire, BeginDiskCheck,
    EndDiskCheck, ControlLost
<1>22. CASE UNCHANGED runnerVars
  BY <1>1, <1>22 DEF runnerVars
<1> QED
  BY <1>2, <1>3, <1>4, <1>5, <1>6, <1>7, <1>8, <1>9, <1>10, <1>11, <1>12, <1>13, <1>14, <1>15,
     <1>16, <1>17, <1>18, <1>19, <1>20, <1>21, <1>22
    DEF RunnerNext, OwnerCallback, OwnerTimer, ChildStep, SomeLineIsRead, SomeLineIsHandled,
      SomeLineFails, SomeLineIsPrinted

\* A result that was not forced is computed behind the last line.
LEMMA QuietStep == RunnerInv /\ [RunnerNext]_runnerVars => QuietInv'
<1> SUFFICES ASSUME RunnerInv, [RunnerNext]_runnerVars PROVE QuietInv'
  OBVIOUS
<1>0. /\ child = "exited" => child' = "exited"
      /\ terminating /\ owner' = "alive" => terminating'
      /\ \A t \in {"timeout", "abort"} : t \in timers' => t \in timers
  BY GoneStays, StoppingSteps DEF StaysGone, Stopped
<1> USE <1>0 DEF RunnerInv, QuietInv, QueueTypes, OwnerTypes, stopping, reading, ending,
    childVars, ownerVars, Settled, Broken
<1>1. ASSUME UNCHANGED <<owner, due, observation, result, returned, closed, consumer, out, chain>>
      PROVE  QuietInv'
  BY <1>1
<1>2. CASE ReleaseChild
  BY <1>2 DEF ReleaseChild
<1>3. CASE ReleaseFails
  BY <1>3 DEF ReleaseFails
<1>4. CASE SpawnFails
  BY <1>4 DEF SpawnFails
<1>5. ASSUME NEW k \in Streams, ReadLine(k) PROVE QuietInv'
  BY <1>5 DEF ReadLine, Reads
<1>6. ASSUME NEW k \in Streams, HandleLine(k) PROVE QuietInv'
  <2>1. consumer[k] = "awaiting"
    BY <1>6, HeadIsAwaited DEF HandleLine
  <2> QED
    BY <1>6, <2>1 DEF HandleLine, NextOperation
<1>7. ASSUME NEW k \in Streams, LineFails(k) PROVE QuietInv'
  <2>1. consumer[k] = "awaiting"
    BY <1>7, HeadIsAwaited DEF LineFails
  <2> QED
    BY <1>7, <2>1 DEF LineFails, NextOperation
<1>8. CASE WriteMarker
  BY <1>8 DEF WriteMarker, NextOperation
<1>9. ASSUME NEW c \in Commands, Register(c) PROVE QuietInv'
  BY <1>9 DEF Register, ReadsRegistration, RegistrationIsRead, Reads
<1>10. ASSUME NEW c \in Commands, RegisterLate(c) PROVE QuietInv'
  BY <1>10 DEF RegisterLate, ReadsRegistration, RegistrationIsRead, Reads
<1>11. ASSUME NEW c \in Commands, RegisterFails(c) PROVE QuietInv'
  BY <1>11 DEF RegisterFails, ReadsRegistration, Reads
<1>12. CASE FinishClosed
  BY <1>12 DEF FinishClosed, Consumed, Finish, Reason, EndInv
<1>13. CASE Return
  BY <1>13 DEF Return
<1>14. CASE ForceFires
  BY <1>14 DEF ForceFires, Finish, Reason, EndInv
<1>15. CASE TimeoutFires
  BY <1>15 DEF TimeoutFires
<1>16. CASE Cancel
  BY <1>16 DEF Cancel
<1>17. CASE EndDiskCheck
  BY <1>17 DEF EndDiskCheck, Terminate, QueueMarker
<1>18. CASE OwnerExits
  BY <1>18 DEF OwnerExits, MemoryIsLost
<1>19. CASE OwnerCrashes
  BY <1>19 DEF OwnerCrashes, MemoryIsLost
<1>20. ASSUME NEW k \in Streams, ChildPrints(k) PROVE QuietInv'
  BY <1>20 DEF ChildPrints
<1>21. ASSUME NEW c \in Commands, SpawnBash(c) PROVE QuietInv'
  BY <1>21 DEF SpawnBash
<1>22. ASSUME NEW code \in {"zero", "other"}, ChildExits(code) PROVE QuietInv'
  BY <1>22 DEF ChildExits
<1>27. CASE Close
  BY <1>27 DEF Close
<1> HIDE DEF QuietInv
<1>23. CASE BeginSettlement \/ KillRemaining \/ EndSettlement \/ KillFires \/ Retire
            \/ BeginDiskCheck \/ ChildStarts \/ ControlLost
  BY <1>1, <1>23 DEF BeginSettlement, KillRemaining, EndSettlement, KillFires, Retire,
    BeginDiskCheck, ChildStarts, ControlLost
<1>24. ASSUME NEW c \in Commands, Acknowledged(c) \/ CallStopped(c) \/ CallReturns(c)
      PROVE  QuietInv'
  BY <1>1, <1>24 DEF Acknowledged, CallStopped, CallReturns
<1>25. ASSUME NEW g \in Groups, GroupEnds(g)
      PROVE  QuietInv'
  BY <1>1, <1>25 DEF GroupEnds
<1>26. CASE UNCHANGED runnerVars
  BY <1>1, <1>26 DEF runnerVars
<1> QED
  BY <1>2, <1>3, <1>4, <1>5, <1>6, <1>7, <1>8, <1>9, <1>10, <1>11, <1>12, <1>13, <1>14, <1>15,
     <1>16, <1>17, <1>18, <1>19, <1>20, <1>21, <1>22, <1>23, <1>24, <1>25, <1>26, <1>27
    DEF RunnerNext, OwnerCallback, OwnerTimer, ChildStep, SomeLineIsRead, SomeLineIsHandled,
      SomeLineFails, SomeLineIsPrinted

-----------------------------------------------------------------------------
(* The runner's theorems.                                                   *)

LEMMA RunnerStarts == RunnerInit => RunnerInv
<1> SUFFICES ASSUME RunnerInit PROVE RunnerInv
  OBVIOUS
<1> USE OwnAssumption, BoundsAssumption DEF RunnerInit, Settled, Groups
<1>1. OwnerTypes
  <2>1. checks \in [begun : 0 .. MaxChecks, inFlight : BOOLEAN]
    OBVIOUS
  <2> QED
    BY <2>1 DEF OwnerTypes, CauseNames, Reasons
<1>2. QueueTypes
  <2>1. <<>> \in Seq(Groups) /\ <<>> \in Seq(Operations) /\ Len(<<>>) = 0
    OBVIOUS
  <2> QED
    BY <2>1 DEF QueueTypes
<1>3. ChildTypes
  BY DEF ChildTypes
<1>4. LinesInv
  <2> DEFINE none == [k \in Streams |-> 0]
  <2>1. /\ none \in [Streams -> Nat] /\ \A k \in Streams : HoldsLines(out[k], none[k])
        /\ Counted(none) = printed /\ ~Broken
    BY LinesStart DEF Awaited, Counted, Broken, Streams
  <2>2. DOMAIN chain = {}
    OBVIOUS
  <2>3. LinesCounted
    BY <2>1 DEF LinesCounted
  <2> HIDE DEF none
  <2> QED
    BY <2>1, <2>2, <2>3 DEF LinesInv, OneLine, HasLine
<1>5. ChildInv
  BY DEF ChildInv
<1>6. CustodyInv
  BY DEF CustodyInv
<1>7. EndInv /\ CompletedInv /\ QuietInv
  BY DEF EndInv, CompletedInv, QuietInv
<1> QED
  BY <1>1, <1>2, <1>3, <1>4, <1>5, <1>6, <1>7 DEF RunnerInv

LEMMA RunnerInvariance == RunnerSpec => []RunnerInv
<1>1. RunnerInv /\ [RunnerNext]_runnerVars => RunnerInv'
  BY OwnerTypeStep, QueueTypeStep, ChildTypeStep, LinesStep, ChildInvStep, CustodyStep, EndStep,
    CompletedStep, QuietStep DEF RunnerInv
<1> QED
  BY <1>1, RunnerStarts, PTL DEF RunnerSpec

\* The variables keep their types; in particular no line is taken that the child
\* has not printed.
THEOREM RunnerTypes == RunnerSpec => []RunnerTypeOK
<1>1. RunnerInv => RunnerTypeOK
  <2>1. {Causes[i] : i \in DOMAIN Causes} = CauseNames
    BY DEF Causes, CauseNames
  <2> QED
    BY <2>1 DEF RunnerInv, OwnerTypes, QueueTypes, ChildTypes, RunnerTypeOK, Operations
<1> QED
  BY <1>1, RunnerInvariance, PTL

\* Custody: a command that runs is in a group the owner knows, and the child does
\* nothing before its spawn is committed.
THEOREM OwnedGroups == RunnerSpec => []RunningGroupsAreOwned
<1>1. RunnerInv => RunningGroupsAreOwned
  BY DEF RunnerInv, ChildInv, CustodyInv, RunningGroupsAreOwned
<1> QED
  BY <1>1, RunnerInvariance, PTL

\* When the runner has returned, or its process has exited in order, every group
\* that still runs was sent SIGKILL; behind a completed run there is none.
THEOREM NothingOutlives == RunnerSpec => []NothingOutlivesTheRunner
<1>1. RunnerInv => NothingOutlivesTheRunner
  BY DEF RunnerInv, OwnerTypes, EndInv, CompletedInv, Doomed, NothingRuns, Settled,
    NothingOutlivesTheRunner
<1> QED
  BY <1>1, RunnerInvariance, PTL

\* A completed run has left exit code 0, and every line it printed was taken.
THEOREM TrueCompletion == RunnerSpec => []CompletedIsTrue
<1>1. RunnerInv => CompletedIsTrue
  BY DEF RunnerInv, CompletedInv, CompletedIsTrue
<1> QED
  BY <1>1, RunnerInvariance, PTL

\* The quiet of a runner that has returned.
Still ==
    returned =>
        /\ handled' = handled \/ Forced \/ Broken
        /\ timers' \subseteq timers \/ checks.inFlight

LEMMA StillStep == RunnerInv /\ [RunnerNext]_runnerVars => Still
<1> SUFFICES ASSUME RunnerInv, [RunnerNext]_runnerVars PROVE Still
  OBVIOUS
<1> USE DEF RunnerInv, Still, QuietInv, OwnerTypes, QueueTypes, stopping, reading, ending,
    childVars, ownerVars, Settled
<1>1. ASSUME UNCHANGED <<handled, timers>> PROVE Still
  BY <1>1
<1>a. ASSUME returned, Forced \/ Broken PROVE owner = "alive" /\ terminating
  BY <1>a DEF Forced, LinesInv
<1>b. ASSUME returned, ~Forced, ~Broken
      PROVE  /\ chain = <<>> \/ terminating
             /\ \A k \in Streams : consumer[k] = "reading" /\ out[k] = <<>>
  BY <1>b DEF Forced
<1>2. CASE ReleaseFails
  BY <1>2 DEF ReleaseFails
<1>3. ASSUME NEW k \in Streams, HandleLine(k) PROVE Still
  <2>1. consumer[k] = "awaiting"
    BY <1>3, HeadIsAwaited DEF HandleLine
  <2> QED
    BY <1>1, <1>3, <1>b, <2>1 DEF HandleLine
<1>4. ASSUME NEW k \in Streams, LineFails(k) PROVE Still
  <2>1. consumer[k] = "awaiting"
    BY <1>4, HeadIsAwaited DEF LineFails
  <2> QED
    BY <1>4, <1>a, <1>b, <2>1 DEF LineFails, Terminate
<1>5. CASE WriteMarker
  BY <1>5, <1>a, <1>b DEF WriteMarker, NextOperation, Terminate
<1>6. ASSUME NEW c \in Commands, RegisterFails(c) PROVE Still
  BY <1>6, <1>a, <1>b DEF RegisterFails, ReadsRegistration, Reads, Terminate, Streams
<1>7. CASE FinishClosed
  BY <1>7 DEF FinishClosed, Finish
<1>8. CASE KillFires
  BY <1>8 DEF KillFires
<1>9. CASE ForceFires
  BY <1>9 DEF ForceFires, Finish
<1>10. CASE TimeoutFires
  BY <1>10 DEF TimeoutFires
<1>11. CASE Cancel
  BY <1>11 DEF Cancel
<1>12. CASE EndDiskCheck
  BY <1>12 DEF EndDiskCheck, Terminate
<1>13. CASE OwnerExits
  BY <1>13 DEF OwnerExits, MemoryIsLost
<1>14. CASE OwnerCrashes
  BY <1>14 DEF OwnerCrashes, MemoryIsLost
<1> HIDE DEF Still
<1>15. CASE ReleaseChild \/ SpawnFails \/ SomeLineIsRead \/ BeginSettlement \/ KillRemaining \/
       EndSettlement \/ Close \/ Return \/ Retire \/ BeginDiskCheck \/ ChildStarts \/
       SomeLineIsPrinted \/ ControlLost
  BY <1>1, <1>15 DEF ReleaseChild, SpawnFails, ReadLine, SomeLineIsRead, BeginSettlement,
    KillRemaining, EndSettlement, Close, Return, Retire, BeginDiskCheck, ChildStarts, ChildPrints,
    SomeLineIsPrinted, ControlLost
<1>16. ASSUME NEW c \in Commands, Register(c) \/ RegisterLate(c) \/ SpawnBash(c) \/
       Acknowledged(c) \/ CallStopped(c) \/ CallReturns(c)
      PROVE  Still
  BY <1>1, <1>16 DEF Register, RegisterLate, SpawnBash, Acknowledged, CallStopped, CallReturns
<1>17. ASSUME NEW code \in {"zero", "other"}, ChildExits(code)
      PROVE  Still
  BY <1>1, <1>17 DEF ChildExits
<1>18. ASSUME NEW g \in Groups, GroupEnds(g)
      PROVE  Still
  BY <1>1, <1>18 DEF GroupEnds
<1>19. CASE UNCHANGED runnerVars
  BY <1>1, <1>19 DEF runnerVars
<1> QED
  BY <1>2, <1>3, <1>4, <1>5, <1>6, <1>7, <1>8, <1>9, <1>10, <1>11, <1>12, <1>13, <1>14, <1>15,
     <1>16, <1>17, <1>18, <1>19
    DEF RunnerNext, OwnerCallback, OwnerTimer, ChildStep, SomeLineIsRead, SomeLineIsHandled,
      SomeLineFails, SomeLineIsPrinted

\* After the runner has returned it takes no line, unless its end was forced or one of the two
\* streams had failed, and it starts no termination, unless a check of the disk was under way.
THEOREM QuietBehindReturn == RunnerSpec => QuietAfterReturn
<1>1. RunnerInv /\ [RunnerNext]_runnerVars =>
        (returned =>
            /\ \/ handled' = handled
               \/ Forced \/ \E s \in Streams : consumer[s] = "broken"
            /\ timers' \subseteq timers \/ checks.inFlight)
  BY StillStep DEF Still, Broken
<1> QED
  BY <1>1, RunnerInvariance, PTL DEF RunnerSpec, QuietAfterReturn

-----------------------------------------------------------------------------
(* The claim lock.                                                          *)

\* The calls that will come round the loop again still have an attempt to count.
AttemptsLeft ==
    \A c \in Callers :
        pc[c] \in {"read", "reread", "unlinkAbandoned"} => attempt[c] < WaitAttempts

TypeInv == TypeOK /\ AttemptsLeft

\* A call that has read a record and decided to remove it has read that of a
\* dead process.
SeenIsGone ==
    \A c \in Callers :
        At(c, "reread") \/ At(c, "unlinkAbandoned")
            => seen[c] \in Callers /\ DefinitelyGone(seen[c])

\* A robbery begins with two calls that reclaim the record of a dead process.
RobberyHasACause == robbed # {} => alive # Processes

IInv == TypeInv /\ OwnerKeepsPath /\ SeenIsGone /\ RobberyHasACause

-----------------------------------------------------------------------------
\* Every step keeps the types and leaves an attempt to whoever will count one.
LEMMA TypeStep == TypeInv /\ [Next]_vars => TypeInv'
<1> SUFFICES ASSUME TypeInv, [Next]_vars PROVE TypeInv'
  OBVIOUS
<1> USE HostAssumption, AttemptsAssumption, NoOwnerAssumption
    DEF TypeInv, TypeOK, AttemptsLeft, Steps, At, GoTo, NextAttempt
<1>1. ASSUME NEW c \in Callers, Begin(c) PROVE TypeInv'
  BY <1>1 DEF Begin
<1>2. ASSUME NEW c \in Callers, Link(c) PROVE TypeInv'
  BY <1>2 DEF Link
<1>3. ASSUME NEW c \in Callers, GiveUp(c) PROVE TypeInv'
  BY <1>3 DEF GiveUp
<1>4. ASSUME NEW c \in Callers, ReadOwner(c) PROVE TypeInv'
  BY <1>4 DEF ReadOwner, Abandoned
<1>5. ASSUME NEW c \in Callers, Reread(c) PROVE TypeInv'
  BY <1>5 DEF Reread
<1>6. ASSUME NEW c \in Callers, UnlinkAbandoned(c) PROVE TypeInv'
  BY <1>6 DEF UnlinkAbandoned
<1>7. ASSUME NEW c \in Callers, FinishOperation(c) PROVE TypeInv'
  BY <1>7 DEF FinishOperation
<1>8. ASSUME NEW c \in Callers, CheckOwner(c) PROVE TypeInv'
  BY <1>8 DEF CheckOwner
<1>9. ASSUME NEW c \in Callers, UnlinkOwn(c) PROVE TypeInv'
  BY <1>9 DEF UnlinkOwn
<1>10. ASSUME NEW p \in Processes, Crash(p) PROVE TypeInv'
  BY <1>10 DEF Crash
<1>11. CASE UNCHANGED vars
  BY <1>11 DEF vars
<1> QED
  BY <1>1, <1>2, <1>3, <1>4, <1>5, <1>6, <1>7, <1>8, <1>9, <1>10, <1>11
  DEF Next, CallStep

\* The variables keep their types whatever the interleaving, and the attempt
\* counter of acquireRunClaimLock never passes its bound.
THEOREM TypeCorrect == Spec => []TypeOK
<1>1. Init => TypeInv
  BY HostAssumption, AttemptsAssumption
  DEF Init, TypeInv, TypeOK, AttemptsLeft, Steps
<1>2. TypeInv /\ [Next]_vars => TypeInv'
  BY TypeStep
<1> QED
  BY <1>1, <1>2, PTL DEF Spec, TypeInv

-----------------------------------------------------------------------------
\* One step keeps the invariant: whoever loses the path to an unlink that was not meant for
\* him is robbed, and such an unlink is that of a reclaimer or of somebody who is robbed himself.
LEMMA LockStep ==
  ASSUME IInv, [Next]_vars, TypeInv'
  PROVE  IInv'
<1> USE HostAssumption, NoOwnerAssumption
    DEF IInv, TypeInv, TypeOK, At, GoTo, NextAttempt, DefinitelyGone,
        OwnerKeepsPath, SeenIsGone, RobberyHasACause
<1>1. ASSUME NEW c \in Callers, Begin(c) PROVE IInv'
  BY <1>1 DEF Begin
<1>2. ASSUME NEW c \in Callers, Link(c) PROVE IInv'
  BY <1>2 DEF Link
<1>3. ASSUME NEW c \in Callers, GiveUp(c) PROVE IInv'
  BY <1>3 DEF GiveUp
<1>4. ASSUME NEW c \in Callers, ReadOwner(c) PROVE IInv'
  BY <1>4 DEF ReadOwner, Abandoned
<1>5. ASSUME NEW c \in Callers, Reread(c) PROVE IInv'
  BY <1>5 DEF Reread
<1>6. ASSUME NEW c \in Callers, UnlinkAbandoned(c) PROVE IInv'
  <2>1. alive # Processes
    BY <1>6 DEF UnlinkAbandoned
  <2>2. OwnerKeepsPath'
    BY <1>6 DEF UnlinkAbandoned
  <2>3. SeenIsGone'
    BY <1>6 DEF UnlinkAbandoned
  <2>4. UNCHANGED alive
    BY <1>6 DEF UnlinkAbandoned
  <2> QED
    BY <2>1, <2>2, <2>3, <2>4
<1>7. ASSUME NEW c \in Callers, FinishOperation(c) PROVE IInv'
  BY <1>7 DEF FinishOperation
<1>8. ASSUME NEW c \in Callers, CheckOwner(c) PROVE IInv'
  BY <1>8 DEF CheckOwner
<1>9. ASSUME NEW c \in Callers, UnlinkOwn(c) PROVE IInv'
  <2>1. robbed' # {} => alive # Processes
    BY <1>9 DEF UnlinkOwn
  <2>2. OwnerKeepsPath' /\ SeenIsGone' /\ UNCHANGED alive
    BY <1>9 DEF UnlinkOwn
  <2> QED
    BY <2>1, <2>2
<1>10. ASSUME NEW p \in Processes, Crash(p) PROVE IInv'
  BY <1>10 DEF Crash
<1>11. CASE UNCHANGED vars
  BY <1>11 DEF vars
<1> QED
  BY <1>1, <1>2, <1>3, <1>4, <1>5, <1>6, <1>7, <1>8, <1>9, <1>10, <1>11
  DEF Next, CallStep

LEMMA LockInvariant == Spec => []IInv
<1>1. Init => IInv
  BY HostAssumption, AttemptsAssumption, NoOwnerAssumption
  DEF Init, IInv, TypeInv, TypeOK, AttemptsLeft, Steps, At, OwnerKeepsPath,
      SeenIsGone, RobberyHasACause
<1>2. IInv /\ [Next]_vars => IInv'
  <2> SUFFICES ASSUME IInv, [Next]_vars PROVE IInv'
    OBVIOUS
  <2>1. TypeInv'
    BY TypeStep DEF IInv
  <2> QED
    BY <2>1, LockStep
<1> QED
  BY <1>1, <1>2, PTL DEF Spec

\* In every execution, races of reclaimers included: a call that is inside and was not robbed
\* still owns the lock path, so two such calls are one, and a robbery has the death of a
\* process behind it (withRunClaimLock).
THEOREM RacesIncludedExclusion == Spec => [](MutualExclusion /\ OwnerKeepsPath)
<1>1. IInv => MutualExclusion /\ OwnerKeepsPath
  BY DEF IInv, MutualExclusion, OwnerKeepsPath, RobberyHasACause, Inside, At
<1> QED
  BY <1>1, LockInvariant, PTL

-----------------------------------------------------------------------------
\* Every step is a step of the critical section or leaves it alone: a link enters when nobody
\* is inside, an operation that ends, a process that dies or a call that is robbed leaves, and
\* nothing else is seen from outside.
THEOREM CriticalSectionRefinement == Spec => ImplementsCriticalSection
<1> DEFINE Owners == Inside \ robbed
<1>1. Init => Promise!Init
  BY DEF Init, Promise!Init, Inside, At
<1>2. IInv /\ [Next]_vars => [Promise!Next]_Owners
  <2> SUFFICES ASSUME IInv, [Next]_vars PROVE [Promise!Next]_Owners
    OBVIOUS
  <2>0. /\ pc \in [Callers -> Steps]
        /\ lockFile \in Callers \cup {NoOwner}
    BY DEF IInv, TypeInv, TypeOK
  <2>1. ASSUME Owners' \in SUBSET Owners PROVE [Promise!Next]_Owners
    BY <2>1 DEF Promise!Next, Promise!Leave
  <2>2. ASSUME NEW c \in Callers, Link(c) PROVE [Promise!Next]_Owners
    <3>1. CASE lockFile = NoOwner
      <4>1. Owners = {}
        BY <3>1, NoOwnerAssumption DEF IInv, OwnerKeepsPath, Inside
      <4>2. /\ GoTo(c, "operation") /\ UNCHANGED <<alive, robbed>> /\ Host[c] \in alive
        BY <2>2, <3>1 DEF Link, At
      <4>3. Owners' = {c} \/ Owners' = {}
        BY <2>0, <4>1, <4>2 DEF GoTo, Inside, At
      <4>4. CASE Owners' = {c}
        BY <4>1, <4>4 DEF Promise!Next, Promise!Enter
      <4>5. CASE Owners' = {}
        BY <2>1, <4>5
      <4> QED
        BY <4>3, <4>4, <4>5
    <3>2. CASE lockFile # NoOwner
      <4>1. Owners' \in SUBSET Owners
        BY <2>0, <2>2, <3>2 DEF Link, GoTo, Inside, At
      <4> QED
        BY <2>1, <4>1
    <3> QED
      BY <3>1, <3>2
  <2>3. ASSUME NEW c \in Callers,
               Begin(c) \/ GiveUp(c) \/ ReadOwner(c) \/ Reread(c) \/ UnlinkAbandoned(c)
                 \/ FinishOperation(c) \/ CheckOwner(c) \/ UnlinkOwn(c)
        PROVE  [Promise!Next]_Owners
    <3>1. Owners' \in SUBSET Owners
      BY <2>0, <2>3
      DEF Begin, GiveUp, ReadOwner, Reread, UnlinkAbandoned, FinishOperation,
          CheckOwner, UnlinkOwn, NextAttempt, GoTo, Inside, At
    <3> QED
      BY <2>1, <3>1
  <2>4. ASSUME NEW p \in Processes, Crash(p) PROVE [Promise!Next]_Owners
    <3>1. Owners' \in SUBSET Owners
      BY <2>4 DEF Crash, Inside, At
    <3> QED
      BY <2>1, <3>1
  <2>5. CASE UNCHANGED vars
    BY <2>5 DEF vars, Inside, At
  <2> QED
    BY <2>2, <2>3, <2>4, <2>5 DEF Next, CallStep
<1> QED
  BY <1>1, <1>2, LockInvariant, PTL
  DEF Spec, Promise!Spec, ImplementsCriticalSection

-----------------------------------------------------------------------------
\* At the unlink of an only reclaimer the path still holds what it has read.
ReclaimerSeesPath ==
    \A c \in Callers : At(c, "unlinkAbandoned") => lockFile = seen[c]

UnrobbedInv == ReclaimerSeesPath /\ NobodyIsRobbed

\* The race of two reclaimers is the only way to lose the lock: in an execution in which no two
\* calls are between their second read and their unlink at once, nobody is robbed, and the
\* lock excludes without exception (tryRemoveDefinitelyAbandonedLock).
THEOREM OnlyOverlappingReclaimsRob ==
    Spec /\ []SoleReclaimer => [](NobodyIsRobbed /\ \A c, d \in Inside : c = d)
<1>1. Init => UnrobbedInv
  BY DEF Init, UnrobbedInv, ReclaimerSeesPath, NobodyIsRobbed, At
<1>2. IInv /\ SoleReclaimer /\ SoleReclaimer' /\ UnrobbedInv /\ [Next]_vars => UnrobbedInv'
  <2> SUFFICES ASSUME IInv, SoleReclaimer, SoleReclaimer', UnrobbedInv, [Next]_vars
               PROVE  UnrobbedInv'
    OBVIOUS
  <2> USE HostAssumption, NoOwnerAssumption
      DEF IInv, TypeInv, TypeOK, At, GoTo, NextAttempt, DefinitelyGone, SoleReclaimer,
          Reclaimers, OwnerKeepsPath, SeenIsGone, UnrobbedInv, ReclaimerSeesPath, NobodyIsRobbed
  <2>1. ASSUME NEW c \in Callers, Begin(c) \/ GiveUp(c) \/ ReadOwner(c) \/ FinishOperation(c)
        PROVE  UnrobbedInv'
    BY <2>1 DEF Begin, GiveUp, ReadOwner, FinishOperation
  <2>2. ASSUME NEW c \in Callers, Link(c) PROVE UnrobbedInv'
    BY <2>2 DEF Link
  <2>3. ASSUME NEW c \in Callers, Reread(c) PROVE UnrobbedInv'
    BY <2>3 DEF Reread
  <2>4. ASSUME NEW c \in Callers, UnlinkAbandoned(c) PROVE UnrobbedInv'
    BY <2>4 DEF UnlinkAbandoned
  <2>5. ASSUME NEW c \in Callers, CheckOwner(c) PROVE UnrobbedInv'
    BY <2>5 DEF CheckOwner
  <2>6. ASSUME NEW c \in Callers, UnlinkOwn(c) PROVE UnrobbedInv'
    BY <2>6 DEF UnlinkOwn
  <2>7. ASSUME NEW p \in Processes, Crash(p) PROVE UnrobbedInv'
    BY <2>7 DEF Crash
  <2>8. CASE UNCHANGED vars
    BY <2>8 DEF vars
  <2> QED
    BY <2>1, <2>2, <2>3, <2>4, <2>5, <2>6, <2>7, <2>8 DEF Next, CallStep
<1>3. IInv /\ UnrobbedInv => NobodyIsRobbed /\ \A c, d \in Inside : c = d
  BY DEF IInv, UnrobbedInv, NobodyIsRobbed, OwnerKeepsPath, Inside
<1> QED
  BY <1>1, <1>2, <1>3, LockInvariant, PTL DEF Spec
=============================================================================
