----------------------- MODULE ResearchDispatchProofs -----------------------
(***************************************************************************)
(* Proofs about ResearchDispatch for any sets of calls and attempts, any   *)
(* arguments and any number of failures.                                   *)
(*                                                                         *)
(* The argument is that the job is only ever written by the command at the *)
(* head of the queue, from the job as it still is: nobody's write is lost, *)
(* so a reservation that is claimed or recorded for a call stays so. And   *)
(* the queue holds exactly the commands that wait, so nobody is stranded.  *)
(***************************************************************************)
EXTENDS ResearchDispatch, FiniteSetTheorems, SequenceTheorems, TLAPS

\* Whoever is at work on the job has the head of the queue, and has read what it is.
Active(k) == command[k].step \in {"prepared", "read"}
SerialInv ==
    \A k \in Commands :
        /\ Active(k) => queue # <<>> /\ Head(queue) = k
        /\ command[k].step = "read" => command[k].seen = job

\* The reservation of a call in the job, and that it has a result.
Reserved(c, states) ==
    \E a \in Attempts : Argument[a] = Argument[c] /\ job.by[a] = c /\ job.state[a] \in states
Held(c) == Reserved(c, {"claimed", "recorded"})
Recorded(c) == Reserved(c, {"recorded"})

\* What the job has claimed for a call is made for its tool and arguments.
JobInv ==
    \A a \in Attempts :
        job.state[a] \in {"claimed", "recorded"} =>
          job.by[a] \in Calls /\ Argument[a] = Argument[job.by[a]]

Answered(k) == command[k].step = "exited" /\ command[k].outcome = "success"

\* Answers of success are true, and so is what the mediator made of them.
AccountsInv ==
    \A c \in Calls :
        /\ Answered(ClaimOf(c)) => Held(c)
        /\ Answered(RecordOf(c)) => Recorded(c)
        /\ call[c] = "granted" => Held(c)
        /\ c \in provided => Held(c)
        /\ c \in provided /\ call[c] = "answered" => Recorded(c)

IInv == DispatchTypeOK /\ SerialInv /\ JobInv /\ AccountsInv

-----------------------------------------------------------------------------
\* The controller: what it makes of a job is a job, and takes no reservation away.
LEMMA CommandNames ==
    /\ Init0 \in Commands
    /\ \A a \in Attempts : StartOf(a) \in Commands
    /\ \A c \in Calls : ClaimOf(c) \in Commands /\ RecordOf(c) \in Commands
BY DEF Init0, StartOf, ClaimOf, RecordOf, Commands

LEMMA KindOfCommand ==
  ASSUME NEW k \in Commands
  PROVE  \/ k.kind = "init"
         \/ k.kind = "start" /\ k.of \in Attempts
         \/ k.kind = "claim" /\ k.of \in Calls
         \/ k.kind = "record" /\ k.of \in Calls
BY DEF Commands

LEMMA AppliedIsJob ==
  ASSUME NEW seen \in Jobs, NEW k \in Commands
  PROVE  Applied(seen, k) \in Jobs
<1> USE KindOfCommand DEF Applied, Jobs, Reservations
<1>1. CASE k.kind = "init"
  BY <1>1
<1>2. CASE k.kind = "start"
  BY <1>2
<1>3. CASE k.kind = "claim"
  BY <1>3
<1>4. CASE k.kind = "record"
  BY <1>4
<1> QED BY <1>1, <1>2, <1>3, <1>4

LEMMA AppliedFields ==
  ASSUME NEW seen \in Jobs, NEW k \in Commands, NEW a \in Attempts
  PROVE  /\ k.kind = "init" =>
              Applied(seen, k).state[a] = seen.state[a] /\ Applied(seen, k).by[a] = seen.by[a]
         /\ k.kind = "start" =>
              /\ Applied(seen, k).state[a] = IF a = k.of THEN "pending" ELSE seen.state[a]
              /\ Applied(seen, k).by[a] = seen.by[a]
         /\ k.kind = "claim" =>
              /\ Applied(seen, k).state[a] =
                   IF a \in Matching(seen, k.of) THEN "claimed" ELSE seen.state[a]
              /\ Applied(seen, k).by[a] =
                   IF a \in Matching(seen, k.of) THEN k.of ELSE seen.by[a]
         /\ k.kind = "record" =>
              /\ Applied(seen, k).state[a] =
                   IF a \in ClaimedBy(seen, k.of) THEN "recorded" ELSE seen.state[a]
              /\ Applied(seen, k).by[a] = seen.by[a]
BY KindOfCommand DEF Applied, Jobs

LEMMA AppliedKeeps ==
  ASSUME job \in Jobs, JobInv, NEW k \in Commands, Accepts(job, k), job' = Applied(job, k)
  PROVE  JobInv' /\ \A c \in Calls : (Held(c) => Held(c)') /\ (Recorded(c) => Recorded(c)')
<1>1. ASSUME NEW a \in Attempts
      PROVE  \/ job'.state[a] = job.state[a] /\ job'.by[a] = job.by[a]
             \/ job'.state[a] = "pending" /\ job.state[a] = "none"
             \/ /\ job'.state[a] = "claimed" /\ job.state[a] = "pending"
                /\ job'.by[a] \in Calls /\ Argument[a] = Argument[job'.by[a]]
             \/ /\ job'.state[a] = "recorded" /\ job.state[a] = "claimed"
                /\ job'.by[a] = job.by[a]
  <2>1. CASE k.kind = "init"
    BY <2>1, AppliedFields
  <2>2. CASE k.kind = "start"
    BY <2>2, AppliedFields DEF Accepts
  <2>3. CASE k.kind = "claim"
    BY <2>3, AppliedFields, KindOfCommand DEF Matching
  <2>4. CASE k.kind = "record"
    BY <2>4, AppliedFields DEF ClaimedBy
  <2> QED BY <2>1, <2>2, <2>3, <2>4, KindOfCommand
<1>2. JobInv'
  BY <1>1 DEF JobInv
<1>3. ASSUME NEW c \in Calls, NEW a \in Attempts, job.by[a] = c,
             job.state[a] \in {"claimed", "recorded"}
      PROVE  /\ job'.by[a] = c /\ job'.state[a] \in {"claimed", "recorded"}
             /\ job.state[a] = "recorded" => job'.state[a] = "recorded"
  BY <1>1, <1>3
<1>4. ASSUME NEW c \in Calls, Held(c) PROVE Held(c)'
  BY <1>3, <1>4 DEF Held, Reserved
<1>5. ASSUME NEW c \in Calls, Recorded(c) PROVE Recorded(c)'
  BY <1>3, <1>5 DEF Recorded, Reserved
<1> QED BY <1>2, <1>4, <1>5

LEMMA ClaimReserves ==
  ASSUME job \in Jobs, NEW c \in Calls, Accepts(job, ClaimOf(c)), job' = Applied(job, ClaimOf(c))
  PROVE  Held(c)'
<1>1. PICK a \in Matching(job, c) : TRUE
  BY FS_EmptySet DEF Accepts, ClaimOf
<1>2. a \in Attempts /\ Argument[a] = Argument[c]
  BY <1>1 DEF Matching
<1>3. job'.state[a] = "claimed" /\ job'.by[a] = c
  BY <1>1, <1>2, AppliedFields, CommandNames DEF ClaimOf
<1> QED BY <1>2, <1>3 DEF Held, Reserved

LEMMA RecordRecords ==
  ASSUME job \in Jobs, JobInv, NEW c \in Calls, Accepts(job, RecordOf(c)),
         job' = Applied(job, RecordOf(c))
  PROVE  Recorded(c)'
<1>1. PICK a \in ClaimedBy(job, c) : TRUE
  BY DEF Accepts, RecordOf
<1>2. a \in Attempts /\ Argument[a] = Argument[c] /\ job.by[a] = c
  BY <1>1 DEF ClaimedBy, JobInv
<1>3. job'.state[a] = "recorded" /\ job'.by[a] = c
  BY <1>1, <1>2, AppliedFields, CommandNames DEF RecordOf
<1> QED BY <1>2, <1>3 DEF Recorded, Reserved

-----------------------------------------------------------------------------
\* Every step keeps the types.
CommandStates == [step : CommandSteps, seen : Jobs, outcome : Outcomes]

LEMMA IdleIsState == Idle \in CommandStates /\ NoJob \in Jobs
<1>1. NoJob \in Jobs
  BY DEF NoJob, Jobs, Reservations
<1> QED BY <1>1 DEF Idle, CommandStates, CommandSteps, Outcomes

LEMMA CommandMoves ==
  ASSUME command \in [Commands -> CommandStates], job \in Jobs, queue \in Seq(Commands),
         NEW k \in Commands
  PROVE  /\ Enqueue(k) => command' \in [Commands -> CommandStates] /\ queue' \in Seq(Commands)
         /\ \A step \in CommandSteps : Step(k, step) => command' \in [Commands -> CommandStates]
         /\ \A outcome \in Outcomes : queue # <<>> /\ Released(k, outcome) =>
              command' \in [Commands -> CommandStates] /\ queue' \in Seq(Commands)
         /\ command' = [command EXCEPT ![k].step = "read", ![k].seen = job] =>
              command' \in [Commands -> CommandStates]
         /\ command' = [command EXCEPT ![k] = Idle] => command' \in [Commands -> CommandStates]
<1> USE DEF CommandStates, CommandSteps, Outcomes
<1>1. ASSUME Enqueue(k)
      PROVE  command' \in [Commands -> CommandStates] /\ queue' \in Seq(Commands)
  BY <1>1, IdleIsState, AppendProperties DEF Enqueue
<1>2. ASSUME NEW step \in CommandSteps, Step(k, step)
      PROVE  command' \in [Commands -> CommandStates]
  BY <1>2 DEF Step
<1>3. ASSUME NEW outcome \in Outcomes, queue # <<>>, Released(k, outcome)
      PROVE  command' \in [Commands -> CommandStates] /\ queue' \in Seq(Commands)
  <2>1. [command[k] EXCEPT !.step = "exited", !.outcome = outcome] \in CommandStates
    OBVIOUS
  <2>2. command' \in [Commands -> CommandStates]
    <3> HIDE DEF CommandStates
    <3> QED BY <1>3, <2>1 DEF Released
  <2>3. queue' \in Seq(Commands)
    BY <1>3, HeadTailProperties DEF Released
  <2> QED BY <2>2, <2>3
<1>4. ASSUME command' = [command EXCEPT ![k].step = "read", ![k].seen = job]
      PROVE  command' \in [Commands -> CommandStates]
  BY <1>4
<1>5. ASSUME command' = [command EXCEPT ![k] = Idle]
      PROVE  command' \in [Commands -> CommandStates]
  BY <1>5, IdleIsState
<1> QED BY <1>1, <1>2, <1>3, <1>4, <1>5

LEMMA TypeStep == DispatchTypeOK /\ SerialInv /\ [Next]_vars => DispatchTypeOK'
<1> SUFFICES ASSUME DispatchTypeOK, SerialInv, [Next]_vars PROVE DispatchTypeOK'
  OBVIOUS
<1>1. command \in [Commands -> CommandStates] /\ job \in Jobs /\ queue \in Seq(Commands)
  BY DEF DispatchTypeOK, CommandStates
<1>2. \A k \in Commands : command[k].seen \in Jobs
  BY <1>1 DEF CommandStates
<1>3. "prepared" \in CommandSteps /\ "success" \in Outcomes /\ "failure" \in Outcomes
  BY DEF CommandSteps, Outcomes
<1>4. ASSUME NEW k \in Commands, Run(k) \/ Execute(k) \/ ModelIsAnswered(k)
      PROVE  DispatchTypeOK'
  <2> USE DEF DispatchTypeOK, mediator, Fail
  <2>1. command[k].step = "read" => queue # <<>>
    BY DEF SerialInv, Active
  <2>2. job' \in Jobs
    BY <1>1, <1>2, <1>4, AppliedIsJob DEF Run, Prepare, PrepareThrows, SubprocessReads, Succeeds,
       Rejects, FailsAnyway, Execute, ModelIsAnswered
  <2>3. command' \in [Commands -> CommandStates] /\ queue' \in Seq(Commands)
    BY <1>1, <1>3, <1>4, <2>1, CommandMoves DEF Run, Prepare, PrepareThrows, SubprocessReads,
       Succeeds, Rejects, FailsAnyway, Execute, ModelIsAnswered, Admitted
  <2>4. failures' \in 0 .. MaxFailures
    BY <1>4, BoundsAreNaturals DEF Run, Prepare, PrepareThrows, SubprocessReads,
       Succeeds, Rejects, FailsAnyway, Execute, ModelIsAnswered
  <2>5. directories' \in BOOLEAN
    BY <1>4 DEF Run, Prepare, PrepareThrows, SubprocessReads,
       Succeeds, Rejects, FailsAnyway, Execute, ModelIsAnswered
  <2>6. UNCHANGED mediator
    BY <1>4 DEF Run, Prepare, PrepareThrows, SubprocessReads,
       Succeeds, Rejects, FailsAnyway, Execute, ModelIsAnswered
  <2> QED BY <2>2, <2>3, <2>4, <2>5, <2>6 DEF CommandStates
<1>5. ASSUME NEW c \in Calls,
             Claim(c) \/ Return(c) \/ ProviderRuns(c) \/ Abandon(c) \/ ToolResult(c)
      PROVE  DispatchTypeOK'
  <2>1. command' \in [Commands -> CommandStates] /\ queue' \in Seq(Commands)
    BY <1>1, <1>5, CommandMoves, CommandNames DEF Claim, Return, ClaimReturns, RecordReturns,
       ProviderRuns, Abandon, ToolResult
  <2>2. call' \in [Calls -> CallSteps]
    BY <1>5 DEF DispatchTypeOK, CallSteps, Goes, Claim, Return, ClaimReturns, RecordReturns,
       ProviderRuns, Abandon, ToolResult
  <2>3. claimed' \subseteq Calls /\ recording' \subseteq Calls /\ provided' \subseteq Calls
    BY <1>5 DEF DispatchTypeOK, Claim, Return, ClaimReturns, RecordReturns,
       ProviderRuns, Abandon, ToolResult
  <2>4. events' \in [Calls -> 0 .. MaxEvents]
    BY <1>5, BoundsAreNaturals DEF DispatchTypeOK, Claim, Return, ClaimReturns, RecordReturns,
       ProviderRuns, Abandon, ToolResult
  <2>5. UNCHANGED <<job, directories, failures>>
    BY <1>5 DEF RestOfMediator, Claim, Return, ClaimReturns, RecordReturns,
       ProviderRuns, Abandon, ToolResult
  <2> QED BY <2>1, <2>2, <2>3, <2>4, <2>5 DEF DispatchTypeOK, CommandStates
<1>6. CASE UNCHANGED vars
  BY <1>6 DEF vars, DispatchTypeOK
<1> QED BY <1>4, <1>5, <1>6 DEF Next

-----------------------------------------------------------------------------
\* One command at a time is at work on the job.
LEMMA Enqueued ==
  ASSUME DispatchTypeOK, SerialInv, NEW k \in Commands, Enqueue(k), job' = job
  PROVE  SerialInv'
<1>1. ASSUME NEW j \in Commands PROVE j # k => command'[j] = command[j]
  BY DEF Enqueue, DispatchTypeOK
<1>2. ~Active(k)'
  BY DEF Enqueue, DispatchTypeOK, Active, Idle
<1>3. queue # <<>> => queue' # <<>> /\ Head(queue') = Head(queue)
  BY HeadTailAppend, AppendProperties DEF Enqueue, DispatchTypeOK
<1> QED BY <1>1, <1>2, <1>3 DEF SerialInv, Active

LEMMA SerialStep == DispatchTypeOK /\ SerialInv /\ [Next]_vars => SerialInv'
<1> SUFFICES ASSUME DispatchTypeOK, SerialInv, [Next]_vars PROVE SerialInv'
  OBVIOUS
<1>1. ASSUME NEW k \in Commands, Run(k) PROVE SerialInv'
  <2>1. ASSUME NEW j \in Commands, j # k PROVE command'[j] = command[j] /\ ~Active(j)
    <3>1. command'[j] = command[j]
      BY <1>1, <2>1 DEF DispatchTypeOK, Run, Prepare, PrepareThrows, SubprocessReads, Succeeds,
         Rejects, FailsAnyway, Step, Released
    <3>2. queue # <<>> /\ Head(queue) = k
      BY <1>1 DEF SerialInv, Active, Run, Prepare, PrepareThrows, SubprocessReads, Succeeds,
         Rejects, FailsAnyway, Admitted
    <3> QED BY <2>1, <3>1, <3>2 DEF SerialInv
  <2>2. CASE Prepare(k) \/ SubprocessReads(k)
    <3>1. queue' = queue /\ job' = job /\ queue # <<>> /\ Head(queue) = k
      BY <2>2 DEF Prepare, SubprocessReads, Admitted, SerialInv, Active
    <3>2. command'[k].step = "read" => command'[k].seen = job
      BY <2>2 DEF Prepare, SubprocessReads, Step, DispatchTypeOK
    <3> QED BY <2>1, <3>1, <3>2 DEF SerialInv, Active
  <2>3. CASE PrepareThrows(k) \/ Succeeds(k) \/ Rejects(k) \/ FailsAnyway(k)
    <3>1. command'[k].step = "exited"
      BY <2>3 DEF DispatchTypeOK, PrepareThrows, Succeeds, Rejects, FailsAnyway, Released
    <3> QED BY <2>1, <3>1 DEF SerialInv, Active
  <2> QED BY <1>1, <2>2, <2>3 DEF Run
<1>2. ASSUME NEW k \in Commands, Execute(k) PROVE SerialInv'
  BY <1>2, Enqueued DEF Execute
<1>3. ASSUME UNCHANGED <<queue, job>>, NEW k \in Commands, command' = [command EXCEPT ![k] = Idle]
      PROVE  SerialInv'
  BY <1>3 DEF SerialInv, Active, Idle, DispatchTypeOK
<1>4. ASSUME NEW k \in Commands, ModelIsAnswered(k) PROVE SerialInv'
  BY <1>3, <1>4 DEF ModelIsAnswered
<1>5. ASSUME NEW c \in Calls, Claim(c) PROVE SerialInv'
  BY <1>5, Enqueued, CommandNames DEF Claim, RestOfMediator
<1>6. ASSUME NEW c \in Calls, Return(c) PROVE SerialInv'
  BY <1>3, <1>6, CommandNames DEF Return, ClaimReturns, RecordReturns, RestOfMediator
<1>7. ASSUME UNCHANGED <<queue, job, command>> PROVE SerialInv'
  BY <1>7 DEF SerialInv, Active
<1>8. ASSUME NEW c \in Calls, ProviderRuns(c) \/ Abandon(c) PROVE SerialInv'
  BY <1>7, <1>8 DEF ProviderRuns, Abandon, RestOfMediator
<1>9. ASSUME NEW c \in Calls, ToolResult(c) PROVE SerialInv'
  BY <1>7, <1>9, Enqueued, CommandNames DEF ToolResult, RestOfMediator
<1>10. CASE UNCHANGED vars
  BY <1>7, <1>10 DEF vars
<1> QED BY <1>1, <1>2, <1>4, <1>5, <1>6, <1>8, <1>9, <1>10 DEF Next

-----------------------------------------------------------------------------
\* What the job and the mediator say of each other.
LEMMA DistinctCommands ==
  \A c, d \in Calls :
     /\ ClaimOf(c) # RecordOf(d)
     /\ ClaimOf(c) = ClaimOf(d) => c = d
     /\ RecordOf(c) = RecordOf(d) => c = d
BY DEF ClaimOf, RecordOf

\* A command is answered with success by its own step only.
LEMMA AnswersStep ==
  ASSUME DispatchTypeOK, [Next]_vars, NEW k \in Commands, Answered(k)'
  PROVE  Answered(k) \/ Succeeds(k)
<1>1. ASSUME NEW j \in Commands, Run(j) PROVE Answered(k) \/ Succeeds(k)
  <2>1. CASE j # k
    <3>1. command'[k] = command[k]
      BY <1>1, <2>1 DEF DispatchTypeOK, Run, Prepare, PrepareThrows, SubprocessReads, Succeeds,
         Rejects, FailsAnyway, Step, Released
    <3> QED BY <3>1 DEF Answered
  <2>2. CASE j = k
    <3>1. CASE Prepare(k) \/ SubprocessReads(k)
      BY <3>1 DEF DispatchTypeOK, Prepare, SubprocessReads, Step, Answered
    <3>2. ASSUME Released(k, "failure") PROVE ~Answered(k)'
      BY <3>2 DEF DispatchTypeOK, Released, Answered
    <3>3. CASE PrepareThrows(k) \/ Rejects(k) \/ FailsAnyway(k)
      BY <3>2, <3>3 DEF PrepareThrows, Rejects, FailsAnyway
    <3> QED BY <1>1, <2>2, <3>1, <3>3 DEF Run
  <2> QED BY <2>1, <2>2
<1>2. ASSUME NEW j \in Commands,
             \/ Enqueue(j)
             \/ command' = [command EXCEPT ![j] = Idle]
             \/ UNCHANGED command
      PROVE  Answered(k)
  <2>1. Idle.step = "idle" /\ [Idle EXCEPT !.step = "queued"].step = "queued"
    BY DEF Idle
  <2>2. CASE Enqueue(j)
    BY <2>1, <2>2 DEF Enqueue, Answered, DispatchTypeOK
  <2>3. CASE command' = [command EXCEPT ![j] = Idle] \/ UNCHANGED command
    BY <2>1, <2>3 DEF Answered, DispatchTypeOK
  <2> QED BY <1>2, <2>2, <2>3
<1>3. ASSUME NEW j \in Commands, Execute(j) \/ ModelIsAnswered(j) PROVE Answered(k)
  BY <1>2, <1>3 DEF Execute, ModelIsAnswered
<1>4. ASSUME NEW c \in Calls,
             Claim(c) \/ Return(c) \/ ProviderRuns(c) \/ Abandon(c) \/ ToolResult(c)
      PROVE  Answered(k)
  BY <1>2, <1>4, CommandNames DEF Claim, Return, ClaimReturns, RecordReturns, ProviderRuns,
     Abandon, ToolResult
<1>5. CASE UNCHANGED vars
  BY <1>2, <1>5 DEF vars
<1> QED BY <1>1, <1>3, <1>4, <1>5 DEF Next

\* The job stays, or is what the head of the queue makes of it.
LEMMA JobStep ==
  ASSUME DispatchTypeOK, SerialInv, JobInv, [Next]_vars
  PROVE  JobInv' /\ \A c \in Calls : (Held(c) => Held(c)') /\ (Recorded(c) => Recorded(c)')
<1>1. CASE UNCHANGED job
  BY <1>1 DEF JobInv, Held, Recorded, Reserved
<1>2. ASSUME NEW k \in Commands, command[k].step = "read", Accepts(command[k].seen, k),
             job' = Applied(command[k].seen, k)
      PROVE  JobInv' /\ \A c \in Calls : (Held(c) => Held(c)') /\ (Recorded(c) => Recorded(c)')
  <2>1. command[k].seen = job
    BY <1>2 DEF SerialInv
  <2> QED BY <1>2, <2>1, AppliedKeeps DEF DispatchTypeOK
<1>3. ASSUME NEW k \in Commands, Run(k) \/ Execute(k) \/ ModelIsAnswered(k)
      PROVE  JobInv' /\ \A c \in Calls : (Held(c) => Held(c)') /\ (Recorded(c) => Recorded(c)')
  BY <1>1, <1>2, <1>3 DEF Run, Prepare, PrepareThrows, SubprocessReads, Succeeds, Rejects,
     FailsAnyway, Execute, ModelIsAnswered
<1>4. ASSUME NEW c \in Calls,
             Claim(c) \/ Return(c) \/ ProviderRuns(c) \/ Abandon(c) \/ ToolResult(c)
      PROVE  UNCHANGED job
  BY <1>4 DEF RestOfMediator, Claim, Return, ClaimReturns, RecordReturns, ProviderRuns, Abandon,
     ToolResult
<1>5. CASE UNCHANGED vars
  BY <1>1, <1>5 DEF vars
<1> QED BY <1>1, <1>3, <1>4, <1>5 DEF Next

\* A claim that succeeds reserves, a record that succeeds records.
LEMMA SuccessIsTrue ==
  ASSUME DispatchTypeOK, SerialInv, JobInv, NEW c \in Calls
  PROVE  (Succeeds(ClaimOf(c)) => Held(c)') /\ (Succeeds(RecordOf(c)) => Recorded(c)')
<1>1. ASSUME Succeeds(ClaimOf(c)) PROVE Held(c)'
  BY <1>1, ClaimReserves, CommandNames DEF Succeeds, SerialInv, DispatchTypeOK
<1>2. ASSUME Succeeds(RecordOf(c)) PROVE Recorded(c)'
  BY <1>2, RecordRecords, CommandNames DEF Succeeds, SerialInv, DispatchTypeOK
<1> QED BY <1>1, <1>2

LEMMA AccountsStep == IInv /\ [Next]_vars => AccountsInv'
<1> SUFFICES ASSUME IInv, [Next]_vars, NEW c \in Calls
             PROVE  /\ Answered(ClaimOf(c))' => Held(c)'
                    /\ Answered(RecordOf(c))' => Recorded(c)'
                    /\ call'[c] = "granted" => Held(c)'
                    /\ c \in provided' => Held(c)'
                    /\ c \in provided' /\ call'[c] = "answered" => Recorded(c)'
  BY DEF AccountsInv
<1>1. (Held(c) => Held(c)') /\ (Recorded(c) => Recorded(c)')
  BY JobStep DEF IInv
<1>2. Answered(ClaimOf(c))' => Held(c)'
  BY <1>1, AnswersStep, SuccessIsTrue, CommandNames DEF IInv, AccountsInv
<1>3. Answered(RecordOf(c))' => Recorded(c)'
  BY <1>1, AnswersStep, SuccessIsTrue, CommandNames DEF IInv, AccountsInv
<1>4. call'[c] = "granted" => call[c] = "granted" \/ Answered(ClaimOf(c))
  BY DEF IInv, DispatchTypeOK, Next, Run, Prepare, PrepareThrows, SubprocessReads, Succeeds,
     Rejects, FailsAnyway, Execute, ModelIsAnswered, mediator, Claim, Return, ClaimReturns,
     RecordReturns, ProviderRuns, Abandon, ToolResult, Goes, Answered, vars
<1>5. c \in provided' => c \in provided \/ call[c] = "granted"
  BY DEF IInv, DispatchTypeOK, Next, Run, Prepare, PrepareThrows, SubprocessReads, Succeeds,
     Rejects, FailsAnyway, Execute, ModelIsAnswered, mediator, Claim, Return, ClaimReturns,
     RecordReturns, ProviderRuns, Abandon, ToolResult, Goes, vars
<1>6. call'[c] = "answered" => call[c] = "answered" \/ Answered(RecordOf(c))
  BY DEF IInv, DispatchTypeOK, Next, Run, Prepare, PrepareThrows, SubprocessReads, Succeeds,
     Rejects, FailsAnyway, Execute, ModelIsAnswered, mediator, Claim, Return, ClaimReturns,
     RecordReturns, ProviderRuns, Abandon, ToolResult, Goes, Answered, vars
<1>7. c \in provided' /\ call'[c] = "answered" => c \in provided \/ Answered(RecordOf(c))
  BY <1>5, <1>6 DEF IInv, DispatchTypeOK
<1> QED BY <1>1, <1>2, <1>3, <1>4, <1>5, <1>6, <1>7 DEF IInv, AccountsInv

-----------------------------------------------------------------------------
LEMMA Initially == Init => IInv
<1> SUFFICES ASSUME Init PROVE IInv
  OBVIOUS
<1>1. DispatchTypeOK
  <2>1. command \in [Commands -> CommandStates] /\ job \in Jobs
    BY IdleIsState DEF Init
  <2>2. queue \in Seq(Commands)
    BY DEF Init
  <2>3. call \in [Calls -> CallSteps] /\ events \in [Calls -> 0 .. MaxEvents]
    BY BoundsAreNaturals DEF Init, CallSteps
  <2>4. failures \in 0 .. MaxFailures
    BY BoundsAreNaturals DEF Init
  <2>5. claimed \subseteq Calls /\ recording \subseteq Calls /\ provided \subseteq Calls
    BY DEF Init
  <2>6. directories \in BOOLEAN
    BY DEF Init
  <2> QED BY <2>1, <2>2, <2>3, <2>4, <2>5, <2>6 DEF DispatchTypeOK, CommandStates
<1>2. \A k \in Commands : command[k].step = "idle"
  BY DEF Init, Idle
<1>3. \A a \in Attempts : job.state[a] = "none"
  BY DEF Init, NoJob
<1>4. SerialInv /\ JobInv
  BY <1>2, <1>3 DEF SerialInv, Active, JobInv
<1>5. AccountsInv
  BY <1>2, CommandNames DEF Init, AccountsInv, Answered
<1> QED BY <1>1, <1>4, <1>5 DEF IInv

LEMMA Invariance == Spec => []IInv
<1>1. IInv /\ [Next]_vars => IInv'
  BY TypeStep, SerialStep, JobStep, AccountsStep DEF IInv
<1> QED BY Initially, <1>1, PTL DEF Spec

-----------------------------------------------------------------------------
\* Commands, calls and the job keep their types: the controller's subprocess only ever reads
\* and writes a job, whatever is killed half way (boundedController.ts:103).
THEOREM DispatchTypes == Spec => []DispatchTypeOK
BY Invariance, PTL DEF IInv

\* For any number of web calls and attempts: no provider runs without a reservation of its
\* own, made for its tool and arguments, and no result is taken as good that the job does not
\* have recorded (researchDispatchMediator.ts:64, 94).
THEOREM AccountedDispatches == Spec => []DispatchesAreAccounted
<1>1. IInv => DispatchesAreAccounted
  <2> SUFFICES ASSUME IInv, NEW c \in provided
               PROVE  \E a \in Attempts :
                        /\ Argument[a] = Argument[c] /\ job.by[a] = c
                        /\ job.state[a] \in {"claimed", "recorded"}
                        /\ call[c] = "answered" => job.state[a] = "recorded"
    BY DEF DispatchesAreAccounted
  <2>1. Held(c) /\ (call[c] = "answered" => Recorded(c))
    BY DEF IInv, AccountsInv, DispatchTypeOK
  <2> QED BY <2>1 DEF Held, Recorded, Reserved
<1> QED BY Invariance, <1>1, PTL

-----------------------------------------------------------------------------
(***************************************************************************)
(* Nobody is stranded: who waits is in the queue, once, or has its answer. *)
(***************************************************************************)
Waits(k) == command[k].step \in {"queued", "prepared", "read"}
Lists(s, k) == \E i \in 1 .. Len(s) : s[i] = k
IsDistinct(s) == \A i, j \in 1 .. Len(s) : s[i] = s[j] => i = j

QueueInv ==
    /\ IsDistinct(queue)
    /\ \A k \in Commands : Waits(k) <=> Lists(queue, k)

\* A call is accounted for exactly as long as one command of it is under way.
WaitersInv ==
    \A c \in Calls :
        /\ call[c] = "claiming" <=> command[ClaimOf(c)].step # "idle"
        /\ call[c] = "recording" <=> command[RecordOf(c)].step # "idle"

\* The guards of the queue's next operation, and those of the promise that continues.
CanRun(k) ==
    \/ command[k].step = "queued" /\ Admitted(k)
    \/ command[k].step = "prepared"
    \/ command[k].step = "read"
Proceeds(k) == command[k].step = "exited" \/ (Lists(queue, k) /\ CanRun(Head(queue)))

NobodyIsStranded ==
    /\ \A c \in Calls : /\ call[c] = "claiming" => Proceeds(ClaimOf(c))
                        /\ call[c] = "recording" => Proceeds(RecordOf(c))
    /\ \A k \in ModelCommands : command[k].step # "idle" => Proceeds(k)

OneController ==
    \A k, l \in Commands : Active(k) /\ Active(l) => k = l

LEMMA JoinsQueue ==
    ASSUME NEW s \in Seq(Commands), IsDistinct(s), NEW k \in Commands, ~Lists(s, k)
    PROVE  /\ IsDistinct(Append(s, k))
           /\ \A j \in Commands : Lists(Append(s, k), j) <=> Lists(s, j) \/ j = k
<1> DEFINE t == Append(s, k)
<1>1. /\ Len(t) = Len(s) + 1 /\ Len(s) \in Nat
      /\ t[Len(s) + 1] = k /\ \A i \in 1 .. Len(s) : t[i] = s[i]
  BY AppendProperties
<1> HIDE DEF t
<1>2. \A i \in 1 .. Len(t) : i \in 1 .. Len(s) \/ i = Len(s) + 1
  BY <1>1
<1>3. ASSUME NEW i \in 1 .. Len(s) PROVE t[i] # k
  BY <1>1 DEF Lists
<1>4. IsDistinct(t)
  <2> SUFFICES ASSUME NEW i \in 1 .. Len(t), NEW j \in 1 .. Len(t), t[i] = t[j] PROVE i = j
    BY DEF IsDistinct
  <2>1. CASE i \in 1 .. Len(s) /\ j \in 1 .. Len(s)
    BY <1>1, <2>1 DEF IsDistinct
  <2>2. CASE i = Len(s) + 1 \/ j = Len(s) + 1
    BY <1>1, <1>2, <1>3, <2>2
  <2> QED BY <1>2, <2>1, <2>2
<1>5. ASSUME NEW j \in Commands PROVE Lists(t, j) <=> Lists(s, j) \/ j = k
  <2>1. Len(s) + 1 \in 1 .. Len(t) /\ 1 .. Len(s) \subseteq 1 .. Len(t)
    BY <1>1
  <2> QED BY <1>1, <1>2, <2>1 DEF Lists
<1> QED BY <1>4, <1>5 DEF t

LEMMA LeavesQueue ==
    ASSUME NEW s \in Seq(Commands), IsDistinct(s), s # <<>>
    PROVE  /\ IsDistinct(Tail(s))
           /\ \A j \in Commands : Lists(Tail(s), j) <=> Lists(s, j) /\ j # Head(s)
<1> DEFINE t == Tail(s)
<1>1. /\ Len(t) = Len(s) - 1 /\ Len(s) \in Nat /\ Len(s) > 0 /\ Head(s) = s[1]
      /\ \A i \in 1 .. Len(t) : t[i] = s[i + 1]
  BY HeadTailProperties
<1> HIDE DEF t
<1>2. ASSUME NEW i \in 1 .. Len(t) PROVE i + 1 \in 1 .. Len(s) /\ i + 1 # 1
  BY <1>1
<1>3. IsDistinct(t)
  <2> SUFFICES ASSUME NEW i \in 1 .. Len(t), NEW j \in 1 .. Len(t), t[i] = t[j] PROVE i = j
    BY DEF IsDistinct
  <2>1. s[i + 1] = s[j + 1]
    BY <1>1
  <2>2. i + 1 = j + 1
    BY <1>2, <2>1 DEF IsDistinct
  <2> QED BY <2>2
<1>4. ASSUME NEW j \in Commands, Lists(t, j) PROVE Lists(s, j) /\ j # Head(s)
  <2>1. PICK i \in 1 .. Len(t) : t[i] = j
    BY <1>4 DEF Lists
  <2>2. s[i + 1] = j /\ i + 1 \in 1 .. Len(s) /\ i + 1 # 1 /\ 1 \in 1 .. Len(s)
    BY <1>1, <1>2, <2>1
  <2> QED BY <1>1, <2>2 DEF Lists, IsDistinct
<1>5. ASSUME NEW j \in Commands, Lists(s, j), j # Head(s) PROVE Lists(t, j)
  <2>1. PICK i \in 1 .. Len(s) : s[i] = j
    BY <1>5 DEF Lists
  <2>2. i - 1 \in 1 .. Len(t) /\ (i - 1) + 1 = i
    BY <1>1, <1>5, <2>1
  <2>3. t[i - 1] = j
    BY <1>1, <2>1, <2>2
  <2> QED BY <2>2, <2>3 DEF Lists
<1> QED BY <1>3, <1>4, <1>5 DEF t

\* A command enters the queue when it begins to wait and leaves it when it is answered.
LEMMA QueueStep == DispatchTypeOK /\ SerialInv /\ QueueInv /\ [Next]_vars => QueueInv'
<1> SUFFICES ASSUME DispatchTypeOK, SerialInv, QueueInv, [Next]_vars PROVE QueueInv'
  OBVIOUS
<1>1. ASSUME NEW k \in Commands, Enqueue(k) PROVE QueueInv'
  <2>1. command[k].step = "idle" /\ queue' = Append(queue, k)
    BY <1>1 DEF Enqueue
  <2>2. ~Lists(queue, k)
    BY <2>1 DEF QueueInv, Waits
  <2>3. /\ IsDistinct(queue')
        /\ \A j \in Commands : Lists(queue', j) <=> Lists(queue, j) \/ j = k
    BY <2>1, <2>2, JoinsQueue DEF QueueInv, DispatchTypeOK
  <2>4. ASSUME NEW j \in Commands PROVE Waits(j)' <=> Waits(j) \/ j = k
    BY <1>1 DEF Enqueue, Waits, Idle, DispatchTypeOK
  <2> QED BY <2>3, <2>4 DEF QueueInv
<1>2. ASSUME NEW k \in Commands, command[k].step \in {"idle", "exited"}, UNCHANGED queue,
             command' = [command EXCEPT ![k] = Idle]
      PROVE  QueueInv'
  <2>1. ASSUME NEW j \in Commands PROVE Waits(j)' <=> Waits(j)
    BY <1>2 DEF Waits, Idle, DispatchTypeOK
  <2> QED BY <1>2, <2>1 DEF QueueInv
<1>3. ASSUME UNCHANGED <<queue, command>> PROVE QueueInv'
  BY <1>3 DEF QueueInv, Waits
<1>4. ASSUME NEW k \in Commands, Prepare(k) \/ SubprocessReads(k) PROVE QueueInv'
  <2>1. UNCHANGED queue
    BY <1>4 DEF Prepare, SubprocessReads
  <2>2. ASSUME NEW j \in Commands PROVE Waits(j)' <=> Waits(j)
    BY <1>4 DEF Prepare, SubprocessReads, Step, Waits, DispatchTypeOK
  <2> QED BY <2>1, <2>2 DEF QueueInv
<1>5. ASSUME NEW k \in Commands,
             PrepareThrows(k) \/ Succeeds(k) \/ Rejects(k) \/ FailsAnyway(k)
      PROVE  QueueInv'
  <2>1. queue # <<>> /\ Head(queue) = k
    BY <1>5 DEF PrepareThrows, Succeeds, Rejects, FailsAnyway, Admitted, SerialInv, Active
  <2>2. PICK outcome : Released(k, outcome)
    BY <1>5 DEF PrepareThrows, Succeeds, Rejects, FailsAnyway
  <2>3. /\ IsDistinct(queue')
        /\ \A j \in Commands : Lists(queue', j) <=> Lists(queue, j) /\ j # k
    BY <2>1, <2>2, LeavesQueue DEF QueueInv, DispatchTypeOK, Released
  <2>4. ASSUME NEW j \in Commands PROVE Waits(j)' <=> Waits(j) /\ j # k
    <3>1. command'[j] = IF j = k THEN [command[k] EXCEPT !.step = "exited", !.outcome = outcome]
                        ELSE command[j]
      BY <2>2 DEF Released, DispatchTypeOK
    <3>2. command'[k].step = "exited"
      BY <2>2 DEF Released, DispatchTypeOK
    <3> QED BY <3>1, <3>2 DEF Waits
  <2> QED BY <2>3, <2>4 DEF QueueInv
<1>6. ASSUME NEW k \in Commands, Run(k) PROVE QueueInv'
  BY <1>4, <1>5, <1>6 DEF Run
<1>7. ASSUME NEW k \in Commands, Execute(k) \/ ModelIsAnswered(k) PROVE QueueInv'
  BY <1>1, <1>2, <1>7 DEF Execute, ModelIsAnswered
<1>8. ASSUME NEW c \in Calls, Claim(c) \/ Return(c) \/ ToolResult(c) PROVE QueueInv'
  BY <1>1, <1>2, <1>3, <1>8, CommandNames DEF Claim, Return, ClaimReturns, RecordReturns,
     ToolResult
<1>9. ASSUME NEW c \in Calls, ProviderRuns(c) \/ Abandon(c) PROVE QueueInv'
  BY <1>3, <1>9 DEF ProviderRuns, Abandon
<1>10. CASE UNCHANGED vars
  BY <1>3, <1>10 DEF vars
<1> QED BY <1>6, <1>7, <1>8, <1>9, <1>10 DEF Next

\* A call waits while its command does, and no longer.
LEMMA WaitersStep ==
    DispatchTypeOK /\ SerialInv /\ QueueInv /\ WaitersInv /\ [Next]_vars => WaitersInv'
<1> SUFFICES ASSUME DispatchTypeOK, SerialInv, QueueInv, WaitersInv, [Next]_vars
             PROVE  WaitersInv'
  OBVIOUS
<1> DEFINE Under(k) == command[k].step # "idle"
<1>1. ASSUME NEW k \in Commands, Enqueue(k)
      PROVE  ~Under(k) /\ \A j \in Commands : Under(j)' <=> Under(j) \/ j = k
  BY <1>1 DEF Enqueue, Idle, DispatchTypeOK
<1>2. ASSUME NEW k \in Commands, command' = [command EXCEPT ![k] = Idle]
      PROVE  \A j \in Commands : Under(j)' <=> Under(j) /\ j # k
  BY <1>2 DEF Idle, DispatchTypeOK
<1>3. ASSUME NEW k \in Commands, Run(k)
      PROVE  UNCHANGED call /\ \A j \in Commands : Under(j)' <=> Under(j)
  <2>1. UNCHANGED call /\ Under(k)
    BY <1>3 DEF Run, Prepare, PrepareThrows, SubprocessReads, Succeeds, Rejects, FailsAnyway,
       mediator
  <2>2. ASSUME Prepare(k) \/ SubprocessReads(k)
        PROVE  Under(k)' /\ \A j \in Commands : j # k => command'[j] = command[j]
    BY <2>2 DEF Prepare, SubprocessReads, Step, DispatchTypeOK
  <2>3. ASSUME PrepareThrows(k) \/ Succeeds(k) \/ Rejects(k) \/ FailsAnyway(k)
        PROVE  Under(k)' /\ \A j \in Commands : j # k => command'[j] = command[j]
    <3>1. PICK outcome : Released(k, outcome)
      BY <2>3 DEF PrepareThrows, Succeeds, Rejects, FailsAnyway
    <3> QED BY <3>1 DEF Released, DispatchTypeOK
  <2>4. Under(k)' /\ \A j \in Commands : j # k => command'[j] = command[j]
    BY <1>3, <2>2, <2>3 DEF Run
  <2> QED BY <2>1, <2>4
<1> HIDE DEF Under
<1>4. ASSUME UNCHANGED call, \A c \in Calls : /\ Under(ClaimOf(c))' <=> Under(ClaimOf(c))
                                              /\ Under(RecordOf(c))' <=> Under(RecordOf(c))
      PROVE  WaitersInv'
  BY <1>4 DEF WaitersInv, Under
<1>5. \A c \in Calls : /\ call[c] = "claiming" <=> Under(ClaimOf(c))
                       /\ call[c] = "recording" <=> Under(RecordOf(c))
  BY DEF WaitersInv, Under
<1>6. ASSUME NEW k \in Commands, Run(k) PROVE WaitersInv'
  BY <1>3, <1>4, <1>6, CommandNames
<1>7. ASSUME NEW k \in Commands, Execute(k) \/ ModelIsAnswered(k) PROVE WaitersInv'
  <2>1. \A c \in Calls : k # ClaimOf(c) /\ k # RecordOf(c)
    BY <1>7 DEF Execute, ModelIsAnswered, ModelCommands, Init0, StartOf, ClaimOf, RecordOf
  <2>2. UNCHANGED call /\ (Enqueue(k) \/ command' = [command EXCEPT ![k] = Idle])
    BY <1>7 DEF Execute, ModelIsAnswered, mediator
  <2>3. \A j \in Commands : j # k => (Under(j)' <=> Under(j))
    BY <1>1, <1>2, <2>2
  <2> QED BY <1>4, <2>1, <2>2, <2>3, CommandNames
<1>8. ASSUME NEW c \in Calls, Claim(c) PROVE WaitersInv'
  <2>1. /\ call[c] = "unsent" /\ call' = [call EXCEPT ![c] = "claiming"]
        /\ \A j \in Commands : Under(j)' <=> Under(j) \/ j = ClaimOf(c)
    BY <1>1, <1>8, CommandNames DEF Claim, Goes
  <2>2. /\ \A d \in Calls : Under(ClaimOf(d))' <=> Under(ClaimOf(d)) \/ d = c
        /\ \A d \in Calls : Under(RecordOf(d))' <=> Under(RecordOf(d))
    BY <2>1, DistinctCommands, CommandNames
  <2> QED BY <1>5, <2>1, <2>2 DEF WaitersInv, Under, DispatchTypeOK
<1>9. ASSUME NEW c \in Calls, ClaimReturns(c) PROVE WaitersInv'
  <2>1. /\ Under(ClaimOf(c)) /\ \E to \in {"granted", "blocked"} : call' = [call EXCEPT ![c] = to]
        /\ \A j \in Commands : Under(j)' <=> Under(j) /\ j # ClaimOf(c)
    BY <1>2, <1>9, CommandNames DEF ClaimReturns, Goes, Under
  <2>2. /\ \A d \in Calls : Under(ClaimOf(d))' <=> Under(ClaimOf(d)) /\ d # c
        /\ \A d \in Calls : Under(RecordOf(d))' <=> Under(RecordOf(d))
    BY <2>1, DistinctCommands, CommandNames
  <2> QED BY <1>5, <2>1, <2>2 DEF WaitersInv, Under, DispatchTypeOK
<1>10. ASSUME NEW c \in Calls, RecordReturns(c) PROVE WaitersInv'
  <2>1. /\ Under(RecordOf(c))
        /\ \E to \in {"answered", "unaccounted"} : call' = [call EXCEPT ![c] = to]
        /\ \A j \in Commands : Under(j)' <=> Under(j) /\ j # RecordOf(c)
    BY <1>2, <1>10, CommandNames DEF RecordReturns, Goes, Under
  <2>2. /\ \A d \in Calls : Under(RecordOf(d))' <=> Under(RecordOf(d)) /\ d # c
        /\ \A d \in Calls : Under(ClaimOf(d))' <=> Under(ClaimOf(d))
    BY <2>1, DistinctCommands, CommandNames
  <2> QED BY <1>5, <2>1, <2>2 DEF WaitersInv, Under, DispatchTypeOK
<1>11. ASSUME NEW c \in Calls, ProviderRuns(c) \/ Abandon(c) PROVE WaitersInv'
  <2>1. /\ call[c] \in {"granted", "ran"} /\ UNCHANGED command
        /\ \E to \in {"ran", "abandoned"} : call' = [call EXCEPT ![c] = to]
    BY <1>11 DEF ProviderRuns, Abandon, Goes
  <2> QED BY <2>1 DEF WaitersInv, DispatchTypeOK
<1>12. ASSUME NEW c \in Calls, ToolResult(c) PROVE WaitersInv'
  <2>1. CASE ~Recordable(c)
    BY <1>12, <2>1 DEF ToolResult, WaitersInv
  <2>2. CASE Recordable(c)
    <3>1. /\ call[c] \in {"ran", "recording", "answered", "unaccounted"}
          /\ call' = [call EXCEPT ![c] = "recording"] /\ ~Under(RecordOf(c))
          /\ \A j \in Commands : Under(j)' <=> Under(j) \/ j = RecordOf(c)
      BY <1>1, <1>12, <2>2, CommandNames DEF ToolResult, Goes
    <3>2. /\ \A d \in Calls : Under(RecordOf(d))' <=> Under(RecordOf(d)) \/ d = c
          /\ \A d \in Calls : Under(ClaimOf(d))' <=> Under(ClaimOf(d))
      BY <3>1, DistinctCommands, CommandNames
    <3> QED BY <1>5, <3>1, <3>2 DEF WaitersInv, Under, DispatchTypeOK
  <2> QED BY <2>1, <2>2
<1>13. CASE UNCHANGED vars
  BY <1>13 DEF vars, WaitersInv
<1> QED BY <1>6, <1>7, <1>8, <1>9, <1>10, <1>11, <1>12, <1>13 DEF Next, Return

LEMMA WaitingInvariance == Spec => [](QueueInv /\ WaitersInv)
<1>1. Init => QueueInv /\ WaitersInv
  <2> SUFFICES ASSUME Init PROVE QueueInv /\ WaitersInv
    OBVIOUS
  <2>1. queue = <<>> /\ \A k \in Commands : command[k].step = "idle"
    BY DEF Init, Idle
  <2>2. QueueInv
    BY <2>1 DEF QueueInv, IsDistinct, Lists, Waits
  <2>3. WaitersInv
    BY <2>1, CommandNames DEF Init, WaitersInv
  <2> QED BY <2>2, <2>3
<1>2. IInv /\ QueueInv /\ WaitersInv /\ [Next]_vars => (QueueInv /\ WaitersInv)'
  BY QueueStep, WaitersStep DEF IInv
<1> QED BY Invariance, <1>1, <1>2, PTL DEF Spec

\* One controller is at work at a time, however many callers there are
\* (BoundedControllerExecutionQueue, boundedController.ts:108).
THEOREM OneControllerAtATime == Spec => []OneController
<1>1. IInv => OneController
  BY DEF IInv, SerialInv, OneController
<1> QED BY Invariance, <1>1, PTL

\* Nobody waits for what cannot come: whoever waits for a command has its answer, or its command
\* is in the queue and the queue's next operation can take a step, whatever failed before
\* (boundedController.ts:108, researchDispatchMediator.ts:64).
THEOREM WaitersAreServed == Spec => []NobodyIsStranded
<1>1. IInv /\ QueueInv /\ WaitersInv => NobodyIsStranded
  <2> SUFFICES ASSUME IInv, QueueInv, WaitersInv PROVE NobodyIsStranded
    OBVIOUS
  <2>1. ASSUME NEW k \in Commands, command[k].step # "idle" PROVE Proceeds(k)
    <3>1. command[k].step = "exited" \/ Waits(k)
      BY <2>1 DEF Waits, IInv, DispatchTypeOK, CommandSteps
    <3>2. CASE Waits(k)
      <4>1. Lists(queue, k)
        BY <3>2 DEF QueueInv
      <4>2. queue # <<>> /\ Head(queue) \in Commands /\ Lists(queue, Head(queue))
        <5>1. queue \in Seq(Commands) /\ Len(queue) \in Nat /\ Len(queue) > 0
          BY <4>1 DEF Lists, IInv, DispatchTypeOK
        <5> QED BY <5>1 DEF Lists
      <4>3. Waits(Head(queue))
        BY <4>2 DEF QueueInv
      <4> QED BY <4>1, <4>2, <4>3 DEF Proceeds, CanRun, Waits, Admitted
    <3> QED BY <3>1, <3>2 DEF Proceeds
  <2>2. ModelCommands \subseteq Commands
    BY CommandNames DEF ModelCommands
  <2> QED BY <2>1, <2>2, CommandNames DEF NobodyIsStranded, WaitersInv
<1> QED BY Invariance, WaitingInvariance, <1>1, PTL
=============================================================================
