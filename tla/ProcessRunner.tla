---------------------------- MODULE ProcessRunner ----------------------------
(***************************************************************************)
(* One call of runChildProcess (src/processRunner.ts): the owner spawns a  *)
(* child, commits the spawn, releases the child, reads its lines, and      *)
(* stops it on a timeout, a cancellation or a full disk.  The child runs   *)
(* bash commands (src/episodeBash.ts), each in a process group of its own  *)
(* and behind a gate that opens when the owner has registered the group    *)
(* over the child's control pipe (src/piChildControl.ts).                  *)
(*                                                                         *)
(* A callback, and the code between two awaits, is one action.  A timer    *)
(* that is set may fire at any later time; of one termination the kill     *)
(* timer fires before the force timer.  SIGTERM may be ignored; SIGKILL    *)
(* ends a group at some later time.                                        *)
(***************************************************************************)
EXTENDS Naturals, Sequences, FiniteSetsExt

CONSTANTS
    Commands,  \* the bash calls the child may make; each names its group
    Own,       \* the child's own process group
    MaxLines,  \* the lines the child prints at most
    MaxChecks  \* the checks of the disk reserve that are made at most

ASSUME OwnAssumption == Own \notin Commands
ASSUME BoundsAssumption == MaxLines \in Nat /\ MaxChecks \in Nat

VARIABLES
    owner,        \* the process that runs runChildProcess
    observation,  \* spawnObservation: the spawn is committed and the child released
    cause,        \* the strongest reason to stop the child: see Causes
    terminating,  \* terminationStarted
    timers,       \* the timers that are set, and the abort listener
    consumer,     \* consumeStream, per stream: at its next line, awaiting one, or broken
    chain,        \* the operations queued on outputChain
    handled,      \* the lines onOutputLine has accepted
    owned,        \* ownedProcessGroups
    settlement,   \* episodeSettlement
    closed,       \* the "close" event has fired
    checks,       \* the checks of the disk reserve begun, and whether one is under way
    result,       \* the reason that finish computed
    due,          \* the operations of the chain that finish waits for
    returned,     \* the promise of runChildProcess is settled
    child,        \* the child process
    exitCode,     \* what it left
    printed,      \* the lines it has printed
    call,         \* what the child knows of each bash call
    out,          \* lines and registration frames on their way to the owner, per stream
    control,      \* frames on their way to the child
    group,        \* the process groups
    killed        \* those that were sent SIGKILL

stopping == <<cause, terminating, timers>>
reading == <<observation, consumer, handled, owned>>
ending == <<settlement, closed, result, returned>>
childVars == <<child, exitCode, printed, call>>
runnerVars == <<owner, observation, cause, terminating, timers, consumer, chain, handled,
                owned, settlement, closed, checks, result, due, returned, child, exitCode,
                printed, call, out, control, group, killed>>

Groups == Commands \cup {Own}

\* In the order in which finish looks for its reason.
Causes == <<"spawn_error", "resource_exhausted", "timeout", "cancelled", "output_error", "none">>
Stronger(a, b) == Causes[Min({i \in DOMAIN Causes : Causes[i] \in {a, b}})]
Reasons == {"spawn_error", "resource_exhausted", "timeout", "cancelled", "completed", "failed"}

\* Frames are named by their command; the release frame by the child itself.
Line == Own
Release == Own

\* Each is consumed by a loop of its own; registrations are taken from stdout.
Streams == {"stdout", "stderr"}

\* The shapes; a child works only behind a committed spawn, and what is
\* returned was computed.
RunnerTypeOK ==
    /\ owner \in {"alive", "exited", "crashed"}
    /\ observation \in {"pending", "released", "resolved", "failed"}
    /\ cause \in {Causes[i] : i \in DOMAIN Causes} /\ terminating \in BOOLEAN
    /\ timers \subseteq {"timeout", "abort", "kill", "force"}
    /\ consumer \in [Streams -> {"reading", "awaiting", "broken"}]
    /\ chain \in Seq(Streams \cup {"marker"}) /\ due \in 0 .. Len(chain)
    /\ handled \in 0 .. MaxLines /\ owned \subseteq Commands
    /\ settlement \in {"none", "terminating", "killing", "absent", "remained"}
    /\ closed \in BOOLEAN
    /\ checks \in [begun : 0 .. MaxChecks, inFlight : BOOLEAN]
    /\ result \in Reasons \cup {"none"} /\ returned \in BOOLEAN
    /\ child \in {"gated", "working", "exited"} /\ exitCode \in {"none", "zero", "other"}
    /\ printed \in 0 .. MaxLines
    /\ call \in [Commands -> {"none", "registering", "released", "ended"}]
    /\ out \in [Streams -> Seq(Groups)] /\ control \subseteq Groups
    /\ group \in [Groups -> {"none", "gated", "running", "gone"}]
    /\ killed \subseteq Groups
    /\ child = "working" => observation = "released"
    /\ returned => result # "none"

RunnerInit ==
    /\ owner = "alive" /\ observation = "pending"
    /\ cause = "none" /\ terminating = FALSE /\ timers = {"timeout", "abort"}
    /\ consumer = [s \in Streams |-> "reading"] /\ chain = <<>> /\ handled = 0 /\ owned = {}
    /\ settlement = "none" /\ closed = FALSE
    /\ checks = [begun |-> 0, inFlight |-> FALSE]
    /\ result = "none" /\ due = 0 /\ returned = FALSE
    /\ child = "gated" /\ exitCode = "none" /\ printed = 0
    /\ call = [c \in Commands |-> "none"]
    /\ out = [s \in Streams |-> <<>>] /\ control = {}
    /\ group = [g \in Groups |-> IF g = Own THEN "running" ELSE "none"]
    /\ killed = {}

-----------------------------------------------------------------------------
(* The owner stops the child.                                               *)

Settled == result # "none"

\* processGroupExists.  The group of a gated command is a shell that waits.
Exists(g) == group[g] \in {"gated", "running"}

\* The groups the owner signals and looks for that are still there.
Remaining == {g \in owned \cup {Own} : Exists(g)}

\* startGracefulTermination: the first cause sets the two timers.
Terminate(why, live) ==
    /\ cause' = Stronger(cause, why)
    /\ terminating' = TRUE
    /\ timers' = IF terminating THEN live ELSE live \cup {"kill", "force"}

Reason(why, code) ==
    IF why \notin {"none", "output_error"} THEN why
    ELSE IF why = "none" /\ code = "zero" THEN "completed" ELSE "failed"

\* finish clears the timers and waits for what is queued by then.
Finish(why, code) ==
    /\ result' = Reason(why, code)
    /\ cause' = why
    /\ due' = Len(chain)
    /\ timers' = {}

\* appendControlMarker.
QueueMarker == chain' = Append(chain, "marker")

TimeoutFires ==
    /\ owner = "alive" /\ "timeout" \in timers
    /\ Terminate("timeout", timers \ {"timeout"})
    /\ QueueMarker
    /\ UNCHANGED <<owner, reading, ending, checks, due, childVars, out, control, group,
                   killed>>

\* The abort signal; it is ignored once the child's streams are closed.
Cancel ==
    /\ owner = "alive" /\ "abort" \in timers /\ ~closed
    /\ Terminate("cancelled", timers \ {"abort"})
    /\ QueueMarker
    /\ UNCHANGED <<owner, reading, ending, checks, due, childVars, out, control, group,
                   killed>>

\* checkDiskReserve, by its interval.
BeginDiskCheck ==
    /\ owner = "alive" /\ ~Settled /\ ~checks.inFlight /\ cause # "resource_exhausted"
    /\ checks.begun < MaxChecks
    /\ checks' = [begun |-> checks.begun + 1, inFlight |-> TRUE]
    /\ UNCHANGED <<owner, stopping, reading, ending, chain, due, childVars, out, control,
                   group, killed>>

\* statfs answers.  The runner may have finished meanwhile: nothing looks.
EndDiskCheck ==
    /\ owner = "alive" /\ checks.inFlight
    /\ checks' = [checks EXCEPT !.inFlight = FALSE]
    /\ \/ UNCHANGED <<stopping, chain>>
       \/ Terminate("resource_exhausted", timers) /\ QueueMarker
       \/ Terminate("output_error", timers) /\ UNCHANGED chain
    /\ UNCHANGED <<owner, reading, ending, due, childVars, out, control, group, killed>>

KillFires ==
    /\ owner = "alive" /\ "kill" \in timers
    /\ killed' = killed \cup Remaining
    /\ timers' = timers \ {"kill"}
    /\ UNCHANGED <<owner, cause, terminating, reading, ending, chain, checks, due, childVars,
                   out, control, group>>

\* The child's streams are waited for no longer.
ForceFires ==
    LET why == IF Remaining # {} THEN Stronger(cause, "output_error") ELSE cause IN
    /\ owner = "alive" /\ "force" \in timers /\ "kill" \notin timers
    /\ \/ /\ ~closed /\ ~Settled
          /\ Finish(why, "none")
       \/ /\ closed \/ Settled
          /\ timers' = timers \ {"force"}
          /\ UNCHANGED <<result, cause, due>>
    /\ UNCHANGED <<owner, terminating, reading, settlement, closed, returned, chain, checks,
                   childVars, out, control, group, killed>>

-----------------------------------------------------------------------------
(* The owner observes the spawn, the lines and the registrations.           *)

\* onChildSpawned has committed the spawn, and the release frame is written.
ReleaseChild ==
    /\ owner = "alive" /\ observation = "pending" /\ child # "exited"
    /\ observation' = "released"
    /\ control' = {Release}
    /\ UNCHANGED <<owner, stopping, consumer, handled, owned, ending, chain, checks, due,
                   childVars, out, group, killed>>

\* The commit is refused, or the child is gone before it is released.
ReleaseFails ==
    /\ owner = "alive" /\ observation = "pending"
    /\ observation' = "failed"
    /\ Terminate("output_error", timers)
    /\ UNCHANGED <<owner, consumer, handled, owned, ending, chain, checks, due, childVars, out,
                   control, group, killed>>

\* The "error" event: there is no child; "close" follows and "exit" does not.
SpawnFails ==
    /\ owner = "alive" /\ observation = "pending" /\ child = "gated"
    /\ observation' = "resolved"
    /\ cause' = "spawn_error"
    /\ QueueMarker
    /\ child' = "exited" /\ exitCode' = "other"
    /\ group' = [group EXCEPT ![Own] = "gone"]
    /\ UNCHANGED <<owner, terminating, timers, consumer, handled, owned, ending, checks, due,
                   printed, call, out, control, killed>>

\* What a failed write says of the disk.
WriteErrors == {"output_error", "resource_exhausted"}

Reads(s, frame) ==
    owner = "alive" /\ consumer[s] = "reading" /\ out[s] # <<>> /\ Head(out[s]) = frame

\* A consumer's next line; it awaits the operation it queues.
ReadLine(s) ==
    /\ Reads(s, Line)
    /\ consumer' = [consumer EXCEPT ![s] = "awaiting"] /\ chain' = Append(chain, s)
    /\ out' = [out EXCEPT ![s] = Tail(@)]
    /\ UNCHANGED <<owner, stopping, observation, handled, owned, ending, checks, due, childVars,
                   control, group, killed>>

\* The next operation of outputChain, which begins with the observation.
NextOperation(kind) ==
    /\ owner = "alive" /\ observation # "pending"
    /\ chain # <<>> /\ Head(chain) = kind
    /\ chain' = Tail(chain)
    /\ due' = IF due = 0 THEN 0 ELSE due - 1

\* onOutputLine takes the line.
HandleLine(s) ==
    /\ NextOperation(s) /\ observation # "failed"
    /\ handled' = handled + 1
    /\ consumer' = [consumer EXCEPT ![s] = "reading"]
    /\ UNCHANGED <<owner, stopping, observation, owned, ending, checks, childVars, out, control,
                   group, killed>>

\* It throws, or the spawn was not committed: this consumer reads no further,
\* the other one goes on.
LineFails(s) ==
    /\ NextOperation(s)
    /\ \E why \in WriteErrors : Terminate(why, timers)
    /\ consumer' = [consumer EXCEPT ![s] = "broken"]
    /\ UNCHANGED <<owner, observation, handled, owned, ending, checks, childVars, out, control,
                   group, killed>>

\* A marker is written or not; nobody awaits it.
WriteMarker ==
    /\ NextOperation("marker")
    /\ \/ observation # "failed" /\ UNCHANGED stopping
       \/ \E why \in WriteErrors : Terminate(why, timers)
    /\ UNCHANGED <<owner, reading, ending, checks, childVars, out, control, group, killed>>

ReadsRegistration(c) == Reads("stdout", c)
RegistrationIsRead == out' = [out EXCEPT !["stdout"] = Tail(@)]

\* The group is owned before the child is answered.
Register(c) ==
    /\ ReadsRegistration(c) /\ Exists(c) /\ ~terminating /\ child # "exited"
    /\ owned' = owned \cup {c}
    /\ control' = control \cup {c}
    /\ RegistrationIsRead
    /\ UNCHANGED <<owner, stopping, observation, consumer, handled, ending, chain, checks, due,
                   childVars, group, killed>>

\* During the termination the group is owned and stopped, the child not answered.
RegisterLate(c) ==
    /\ ReadsRegistration(c) /\ Exists(c) /\ terminating
    /\ owned' = owned \cup {c}
    /\ RegistrationIsRead
    /\ UNCHANGED <<owner, stopping, observation, consumer, handled, ending, chain, checks, due,
                   childVars, control, group, killed>>

\* The group is gone, or the child is: the consumer breaks.
RegisterFails(c) ==
    /\ ReadsRegistration(c) /\ (Exists(c) => child = "exited" /\ ~terminating)
    /\ owned' = IF Exists(c) THEN owned \cup {c} ELSE owned
    /\ Terminate("output_error", timers)
    /\ consumer' = [consumer EXCEPT !["stdout"] = "broken"]
    /\ UNCHANGED <<owner, observation, handled, ending, chain, checks, due, childVars, out,
                   control, group, killed>>

\* Bug: a group is forgotten when the shell that leads it returns.
RetireReturned ==
    /\ owner = "alive" /\ ~Settled
    /\ \E c \in owned : call[c] = "ended" /\ owned' = owned \ {c}
    /\ UNCHANGED <<owner, stopping, observation, consumer, handled, ending, chain, checks, due,
                   childVars, out, control, group, killed>>

\* retireAbsentOwnedProcessGroups: what the system no longer knows is forgotten.
Retire ==
    /\ owner = "alive" /\ ~Settled
    /\ \E c \in owned : ~Exists(c)
    /\ owned' = Remaining \ {Own}
    /\ UNCHANGED <<owner, stopping, observation, consumer, handled, ending, chain, checks, due,
                   childVars, out, control, group, killed>>

-----------------------------------------------------------------------------
(* The owner settles the groups and finishes.                               *)

\* Bug: the groups are settled on the "close" event.
SettleOnClose ==
    /\ owner = "alive" /\ settlement = "none"
    /\ child = "exited" /\ ~Exists(Own) /\ cause # "spawn_error"
    /\ settlement' = IF Remaining = {} THEN "absent" ELSE "terminating"
    /\ UNCHANGED <<owner, stopping, reading, closed, result, returned, chain, checks, due,
                   childVars, out, control, group, killed>>

\* settleEpisodeProcessGroups, on the "exit" event; it is begun once.
BeginSettlement ==
    /\ owner = "alive" /\ settlement = "none"
    /\ child = "exited" /\ cause # "spawn_error"
    /\ settlement' = IF Remaining = {} THEN "absent" ELSE "terminating"
    /\ UNCHANGED <<owner, stopping, reading, closed, result, returned, chain, checks, due,
                   childVars, out, control, group, killed>>

\* The groups are absent, or the kill grace is over.
KillRemaining ==
    /\ owner = "alive" /\ settlement = "terminating"
    /\ settlement' = IF Remaining = {} THEN "absent" ELSE "killing"
    /\ killed' = killed \cup Remaining
    /\ UNCHANGED <<owner, stopping, reading, closed, result, returned, chain, checks, due,
                   childVars, out, control, group>>

\* The groups are absent, or the force grace is over.
EndSettlement ==
    /\ owner = "alive" /\ settlement = "killing"
    /\ settlement' = IF Remaining = {} THEN "absent" ELSE "remained"
    /\ UNCHANGED <<owner, stopping, reading, closed, result, returned, chain, checks, due,
                   childVars, out, control, group, killed>>

\* The "close" event: the child is gone and nothing of its group holds its pipes.
\* Behind a forced result it changes nothing.
Close ==
    /\ owner = "alive" /\ ~closed /\ ~Settled
    /\ child = "exited" /\ ~Exists(Own)
    /\ settlement # "none" \/ cause = "spawn_error"
    /\ closed' = TRUE
    /\ UNCHANGED <<owner, stopping, reading, settlement, result, returned, chain, checks, due,
                   childVars, out, control, group, killed>>

\* Bug: the lines that are still to be read are not waited for.
FinishOnClose ==
    /\ owner = "alive" /\ closed /\ ~Settled
    /\ settlement = "absent" /\ Finish(cause, exitCode)
    /\ UNCHANGED <<owner, terminating, reading, settlement, closed, returned, chain, checks,
                   childVars, out, control, group, killed>>

\* consumers is resolved: both streams were read to their ends, or one has failed.
Consumed ==
    \/ \A s \in Streams : consumer[s] = "reading" /\ out[s] = <<>>
    \/ \E s \in Streams : consumer[s] = "broken"

\* Behind "close": the lines have been read, the groups are settled.
FinishClosed ==
    /\ owner = "alive" /\ closed /\ ~Settled /\ Consumed
    /\ \/ /\ settlement = "absent" \/ cause = "spawn_error"
          /\ Finish(cause, exitCode)
       \/ /\ settlement = "remained"
          /\ Finish(Stronger(cause, "output_error"), "none")
    /\ UNCHANGED <<owner, terminating, reading, settlement, closed, returned, chain, checks,
                   childVars, out, control, group, killed>>

\* What was queued when finish was called is done: the promise is settled,
\* by an error if the spawn was not committed.
Return ==
    /\ owner = "alive" /\ Settled /\ ~returned
    /\ due = 0 /\ observation # "pending"
    /\ returned' = TRUE
    /\ UNCHANGED <<owner, stopping, reading, settlement, closed, result, chain, checks, due,
                   childVars, out, control, group, killed>>

\* What the owner's process knew and had still to read; owned is kept to speak
\* of what it knew.
MemoryIsLost ==
    /\ cause' = "none" /\ terminating' = FALSE /\ timers' = {}
    /\ chain' = <<>> /\ due' = 0 /\ out' = [s \in Streams |-> <<>>]
    /\ settlement' = "none" /\ closed' = FALSE
    /\ checks' = [checks EXCEPT !.inFlight = FALSE]
    /\ UNCHANGED reading

\* Bug: only the child is stopped when the owner exits.
ExitWithChild ==
    /\ owner = "alive" /\ ~returned
    /\ owner' = "exited"
    /\ killed' = IF Exists(Own) THEN killed \cup {Own} ELSE killed
    /\ MemoryIsLost
    /\ UNCHANGED <<result, returned, childVars, control, group>>

\* cleanupOnParentExit, the "exit" listener that finish removes.
OwnerExits ==
    /\ owner = "alive" /\ ~returned
    /\ owner' = "exited"
    /\ killed' = IF Settled THEN killed ELSE killed \cup Remaining
    /\ MemoryIsLost
    /\ UNCHANGED <<result, returned, childVars, control, group>>

OwnerCrashes ==
    /\ owner = "alive" /\ ~returned
    /\ owner' = "crashed"
    /\ MemoryIsLost
    /\ UNCHANGED <<result, returned, childVars, control, group, killed>>

-----------------------------------------------------------------------------
(* The child and its bash calls.                                            *)

ownerVars == <<owner, stopping, reading, ending, chain, checks, due>>

\* Nothing consequential happens before the release frame.
ChildStarts ==
    /\ child = "gated" /\ Release \in control
    /\ child' = "working" /\ control' = control \ {Release}
    /\ UNCHANGED <<ownerVars, exitCode, printed, call, out, group, killed>>

ChildPrints(s) ==
    /\ child = "working" /\ printed < MaxLines
    /\ printed' = printed + 1 /\ out' = [out EXCEPT ![s] = Append(@, Line)]
    /\ UNCHANGED <<ownerVars, child, exitCode, call, control, group, killed>>

\* exec: the shell is spawned behind its gate and its group announced.
SpawnBash(c) ==
    /\ child = "working" /\ call[c] = "none"
    /\ call' = [call EXCEPT ![c] = "registering"]
    /\ group' = [group EXCEPT ![c] = "gated"]
    /\ out' = [out EXCEPT !["stdout"] = Append(@, c)]
    /\ UNCHANGED <<ownerVars, child, exitCode, printed, control, killed>>

\* The acknowledgement opens the gate, if the call still waits for it.
Acknowledged(c) ==
    /\ child = "working" /\ c \in control
    /\ control' = control \ {c}
    /\ call' = IF call[c] = "registering" THEN [call EXCEPT ![c] = "released"] ELSE call
    /\ group' = IF call[c] = "registering" /\ group[c] = "gated" /\ c \notin killed
                THEN [group EXCEPT ![c] = "running"] ELSE group
    /\ UNCHANGED <<ownerVars, child, exitCode, printed, out, killed>>

\* The call is aborted, or its time or that of the registration is over: its
\* group is killed.
CallStopped(c) ==
    /\ child = "working" /\ call[c] \in {"registering", "released"}
    /\ call' = [call EXCEPT ![c] = "ended"]
    /\ killed' = IF Exists(c) THEN killed \cup {c} ELSE killed
    /\ UNCHANGED <<ownerVars, child, exitCode, printed, out, control, group>>

\* The shell exits; what it has started may stay in the group.
CallReturns(c) ==
    /\ child = "working" /\ call[c] = "released"
    /\ call' = [call EXCEPT ![c] = "ended"]
    /\ UNCHANGED <<ownerVars, child, exitCode, printed, out, control, group, killed>>

\* terminateOwnedProcessGroupOnControlLoss: the control pipe is closed.
ControlLost ==
    /\ owner # "alive" /\ child # "exited" /\ Own \notin killed
    /\ killed' = killed \cup {Own}
    /\ UNCHANGED <<ownerVars, childVars, out, control, group>>

\* The child exits or is stopped, and what it knew is lost; others of its group may go on.
ChildExits(code) ==
    /\ child # "exited" /\ (code = "zero" => child = "working")
    /\ child' = "exited" /\ exitCode' = code
    /\ control' = {}
    /\ group' \in {group, [group EXCEPT ![Own] = "gone"]}
    /\ call' = [c \in Commands |-> IF call[c] = "none" THEN "none" ELSE "ended"]
    /\ UNCHANGED <<ownerVars, printed, out, killed>>

\* A group becomes empty.  A gate closes when its shell reads the end of its
\* input, which the child held, or when the shell is signalled.
GroupEnds(g) ==
    /\ \/ group[g] = "running" /\ (g = Own => child = "exited")
       \/ group[g] = "gated" /\ (child = "exited" \/ g \in killed \/ (g \in owned /\ terminating))
    /\ group' = [group EXCEPT ![g] = "gone"]
    /\ UNCHANGED <<ownerVars, childVars, out, control, killed>>

-----------------------------------------------------------------------------
OwnerCallback ==
    \/ ReleaseChild \/ ReleaseFails \/ SpawnFails
    \/ WriteMarker \/ \E s \in Streams : ReadLine(s) \/ HandleLine(s) \/ LineFails(s)
    \/ \E c \in Commands : Register(c) \/ RegisterLate(c) \/ RegisterFails(c)
    \/ BeginSettlement \/ KillRemaining \/ EndSettlement
    \/ Close \/ FinishClosed \/ Return

OwnerTimer == KillFires \/ ForceFires

ChildStep ==
    \/ ChildStarts \/ \E s \in Streams : ChildPrints(s)
    \/ \E c \in Commands :
          SpawnBash(c) \/ Acknowledged(c) \/ CallStopped(c) \/ CallReturns(c)
    \/ \E code \in {"zero", "other"} : ChildExits(code)

RunnerNext ==
    \/ OwnerCallback \/ OwnerTimer \/ TimeoutFires \/ Cancel \/ Retire
    \/ BeginDiskCheck \/ EndDiskCheck \/ OwnerExits \/ OwnerCrashes
    \/ ChildStep \/ ControlLost \/ \E g \in Groups : GroupEnds(g)

\* Callbacks are run and timers fire while the owner lives, and SIGKILL ends
\* the processes of a group.  Nothing makes a child, or a command, end by itself.
Fairness ==
    /\ WF_runnerVars(OwnerCallback) /\ WF_runnerVars(OwnerTimer)
    /\ \A g \in Groups : WF_runnerVars(g \in killed /\ GroupEnds(g))

RunnerSpec == RunnerInit /\ [][RunnerNext]_runnerVars /\ Fairness

-----------------------------------------------------------------------------
(* Properties.                                                              *)

\* Custody: whatever command runs while the owner lives, or has exited in
\* order, is in a group the owner knows; and the child has not worked before
\* its spawn was committed.  A command whose shell has returned still counts:
\* it may have left a service behind (gate and registration).
RunningGroupsAreOwned ==
    /\ owner # "crashed" => \A c \in Commands : group[c] = "running" => c \in owned
    /\ (printed > 0 \/ \E c \in Commands : call[c] # "none") => observation = "released"

\* When the runner has returned, or its process has exited in order, every
\* group that still runs was sent SIGKILL; behind a completed run none is left.
NothingOutlivesTheRunner ==
    /\ returned \/ owner = "exited" =>
          \A g \in Groups : group[g] = "running" => g \in killed
    /\ result = "completed" => \A g \in Groups : group[g] # "running"

\* A completed run has left exit code 0, and every line it printed was taken.
CompletedIsTrue == result = "completed" => exitCode = "zero" /\ handled = printed

\* The result was forced while the child's streams were open.
Forced == Settled /\ ~closed

\* After the runner has returned it takes no line, unless its end was forced or
\* one stream had failed while the other was read; and it starts no termination
\* that could signal a process group that is no longer its own, unless it was
\* waiting for an answer about the disk.
QuietAfterReturn ==
    [][returned =>
        /\ \/ handled' = handled
           \/ Forced \/ \E s \in Streams : consumer[s] = "broken"
        /\ timers' \subseteq timers \/ checks.inFlight]_runnerVars

\* Once a termination has begun, or the child has exited, the runner returns,
\* whatever the child, its commands and their groups do.
RunnerReturns ==
    (terminating \/ child = "exited") /\ owner = "alive" ~> returned \/ owner # "alive"

\* A bash call that is given up does not end the run.
CallCancellationIsLocal ==
    [][consumer["stdout"] = "reading" /\ consumer'["stdout"] = "broken"
          => child = "exited"]_runnerVars

=============================================================================
