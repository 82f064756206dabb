---------------------------- MODULE PrimePipeline ----------------------------
(***************************************************************************)
(* One ProcessRequest call of the kernel, from the Prime server down to    *)
(* the executors: Prime turns the message into processes, the IR executor  *)
(* runs them one after the other (a process, its thread, an executor task, *)
(* a task that collects the executor's events), and Prime words the answer *)
(* (kernel-v2/src: server/prime_personality_server.rs, executor/, session/,*)
(* scheduler/thread_executor.rs, agent_thread/).                           *)
(*                                                                         *)
(* Handler, executor task and collector are tasks of a tokio runtime with  *)
(* many threads.  They meet in the event channel, in the two locks of the  *)
(* session host (the process manager and the table of executors) and in    *)
(* the thread's files; one action is the code between two such meetings.   *)
(* A section under the process manager's lock is one action: whoever waits *)
(* for the table of executors inside it holds no lock another waits for.   *)
(***************************************************************************)
EXTENDS Integers, Sequences, FiniteSets

CONSTANTS
  Requests,     \* ProcessRequest calls
  MaxProcesses, \* bound on the processes Prime puts into an answer
  MaxSteps,     \* ThreadExecutor.max_steps, 100 in the code
  MaxTools,     \* bound on the tool calls of one answer of the model
  ChannelSize,  \* capacity of the event channel, 100 in the code
  MaxFaults,    \* bound on file accesses that fail
  Phases        \* ExecutionPhase: Explore and those the model may ask for

ASSUME ConstantsAssumption ==
  /\ MaxProcesses \in Nat
  /\ MaxSteps \in Nat
  /\ MaxTools \in Nat
  /\ ChannelSize \in Nat \ {0}
  /\ MaxFaults \in Nat
  /\ "Explore" \in Phases

VARIABLES
  rpc,        \* where each call of process_request is
  size,       \* the number of processes of its IR
  current,    \* the process execute_ir is at
  waited,     \* how the wait for that process's completion ended
  results,    \* the results execute_ir has pushed
  summary,    \* the process manager's summary of each process's thread
  status,     \* ProcessMeta.status of each process
  handles,    \* the table of executors of the session host
  meta,       \* each thread's meta.json
  eventLog,   \* the tool results in each thread's event_log.jsonl
  exec,       \* where each executor task is
  step,       \* ThreadExecutor.current_step
  todo,       \* tool calls left of the current intent
  channel,    \* the events sent and not yet received
  collector,  \* each process's event collector
  log,        \* the execution log the collector builds
  completed,  \* the processes whose completion channel got a reason
  faults      \* file accesses that failed so far

requestVars == <<rpc, size, current, waited, results>>
hostVars == <<summary, status, handles>>
threadVars == <<meta, eventLog>>
executorVars == <<exec, step, todo>>
collectorVars == <<collector, log, completed>>
vars == <<requestVars, hostVars, threadVars, executorVars, channel, collectorVars, faults>>

\* The k-th process of a request, with its one thread and executor.
Jobs == Requests \X (1..MaxProcesses)
Job(r) == <<r, current[r]>>

NoThread == [status |-> "none", phase |-> "none"]
NewThread == [status |-> "Created", phase |-> "Explore"]

Init ==
  /\ rpc = [r \in Requests |-> "idle"]
  /\ size = [r \in Requests |-> 0]
  /\ current = [r \in Requests |-> 0]
  /\ waited = [r \in Requests |-> "none"]
  /\ results = [r \in Requests |-> <<>>]
  /\ summary = [j \in Jobs |-> NoThread]
  /\ status = [j \in Jobs |-> "none"]
  /\ handles = {}
  /\ meta = [j \in Jobs |-> NoThread]
  /\ eventLog = [j \in Jobs |-> <<>>]
  /\ exec = [j \in Jobs |-> "none"]
  /\ step = [j \in Jobs |-> 0]
  /\ todo = [j \in Jobs |-> 0]
  /\ channel = [j \in Jobs |-> <<>>]
  /\ collector = [j \in Jobs |-> "none"]
  /\ log = [j \in Jobs |-> <<>>]
  /\ completed = {}
  /\ faults = 0

\* A file access that returns an error.
FileFails == faults < MaxFaults /\ faults' = faults + 1

-----------------------------------------------------------------------------
(* Phase 1 of process_request: Prime generates the IR *)

Goto(r, from, to) == rpc[r] = from /\ rpc' = [rpc EXCEPT ![r] = to]

Receive(r) ==
  /\ Goto(r, "idle", "generating")
  /\ UNCHANGED <<size, current, waited, results, hostVars, threadVars, executorVars, channel,
                 collectorVars, faults>>

\* The prompt or the model fails: the call answers FAILED.
GenerateFails(r) ==
  /\ Goto(r, "generating", "failed")
  /\ UNCHANGED <<size, current, waited, results, hostVars, threadVars, executorVars, channel,
                 collectorVars, faults>>

\* An IR without processes is the answer itself; whatever cannot be parsed
\* becomes an IR of one process.
Generate(r) ==
  /\ rpc[r] = "generating"
  /\ \E n \in 0..MaxProcesses :
       /\ size' = [size EXCEPT ![r] = n]
       /\ current' = [current EXCEPT ![r] = IF n = 0 THEN 0 ELSE 1]
       /\ rpc' = [rpc EXCEPT ![r] = IF n = 0 THEN "sending" ELSE "creating"]
  /\ UNCHANGED <<waited, results, hostVars, threadVars, executorVars, channel, collectorVars, faults>>

-----------------------------------------------------------------------------
(* Phase 2: execute_ir, which calls execute_process for one after the other  *)

\* Push a result and go on, whatever the result.
Conclude(r, result) ==
  /\ results' = [results EXCEPT ![r] = Append(@, result)]
  /\ current' = [current EXCEPT ![r] = IF @ < size[r] THEN @ + 1 ELSE @]
  /\ rpc' = [rpc EXCEPT ![r] = IF current[r] < size[r] THEN "creating" ELSE "responding"]
  /\ waited' = [waited EXCEPT ![r] = "none"]
  /\ UNCHANGED size

\* ProcessManager::create_process.
CreateProcess(r) ==
  /\ Goto(r, "creating", "threading")
  /\ status' = [status EXCEPT ![Job(r)] = "Created"]
  /\ UNCHANGED <<size, current, waited, results, summary, handles, threadVars, executorVars,
                 channel, collectorVars, faults>>

\* create_thread_in_process: the thread's files, then its summary in the
\* process.  execute_process goes on to start the collector.
CreateThread(r) ==
  /\ Goto(r, "threading", "spawning")
  /\ meta' = [meta EXCEPT ![Job(r)] = NewThread]
  /\ summary' = [summary EXCEPT ![Job(r)] = NewThread]
  /\ collector' = [collector EXCEPT ![Job(r)] = "receiving"]
  /\ UNCHANGED <<size, current, waited, results, status, handles, eventLog, executorVars,
                 channel, log, completed, faults>>

\* spawn_executor_in_process_with_events up to tokio::spawn.
SpawnExecutor(r) ==
  /\ Goto(r, "spawning", "inserting")
  /\ exec' = [exec EXCEPT ![Job(r)] = "looping"]
  /\ UNCHANGED <<size, current, waited, results, hostVars, threadVars, step, todo, channel,
                 collectorVars, faults>>

\* The handle, with a sender of the event channel, goes into the table.
InsertHandle(r) ==
  /\ Goto(r, "inserting", "marking")
  /\ handles' = handles \cup {Job(r)}
  /\ UNCHANGED <<size, current, waited, results, summary, status, threadVars, executorVars,
                 channel, collectorVars, faults>>

\* update_process_status, for a process of one thread.
ProcessStatus(thread) ==
  CASE thread.status = "Error" -> "Error"
    [] thread.status = "Completed" -> "Completed"
    [] thread.status = "Active" -> "Active"
    [] OTHER -> "Paused"

\* Mutant: the copy taken when the executor was started.
UpdateAsCreated(j) ==
  /\ summary' = [summary EXCEPT ![j] = NewThread]
  /\ status' = [status EXCEPT ![j] = ProcessStatus(NewThread)]

\* Process::update_thread_status copies the thread's meta as it is now.
UpdateThreadStatus(j) ==
  /\ summary' = [summary EXCEPT ![j] = meta[j]]
  /\ status' = [status EXCEPT ![j] = ProcessStatus(meta[j])]

MarkThread(r) ==
  /\ Goto(r, "marking", "waiting")
  /\ UpdateThreadStatus(Job(r))
  /\ UNCHANGED <<size, current, waited, results, handles, threadVars, executorVars, channel,
                 collectorVars, faults>>

\* The wait for the completion channel: a reason, the end of the collector, or
\* five minutes.  Whatever it is, the handler goes on to join the collector.
WaitEnds(r) ==
  /\ Goto(r, "waiting", "joining")
  /\ \/ Job(r) \in completed /\ waited' = [waited EXCEPT ![r] = "completed"]
     \/ Job(r) \notin completed /\ collector[Job(r)] = "ended"
        /\ waited' = [waited EXCEPT ![r] = "closed"]
     \/ Job(r) \notin completed /\ collector[Job(r)] = "receiving"
        /\ waited' = [waited EXCEPT ![r] = "timeout"]
  /\ UNCHANGED <<size, current, results, hostVars, threadVars, executorVars, channel,
                 collectorVars, faults>>

\* Mutant: a join that is given up with the wait.
JoinOnlyCompleted(r) ==
  /\ Goto(r, "joining", "reading")
  /\ collector[Job(r)] = "ended" \/ waited[r] = "timeout"
  /\ UNCHANGED <<size, current, waited, results, hostVars, threadVars, executorVars, channel,
                 collectorVars, faults>>

\* event_collector.await, which has no timeout.
JoinCollector(r) ==
  /\ Goto(r, "joining", "reading")
  /\ collector[Job(r)] = "ended"
  /\ UNCHANGED <<size, current, waited, results, hostVars, threadVars, executorVars, channel,
                 collectorVars, faults>>

\* collect_thread_results: every tool result of the thread that succeeded.
Artifacts(events) == Cardinality({i \in DOMAIN events : events[i] = "success"})

\* Any completion reason counts as success, MaxStepsReached too.
ReadResults(r) ==
  /\ rpc[r] = "reading"
  /\ Conclude(r, [outcome |-> IF waited[r] = "completed" THEN "success" ELSE "failed",
                  log |-> log[Job(r)],
                  artifacts |-> Artifacts(eventLog[Job(r)])])
  /\ log' = [log EXCEPT ![Job(r)] = <<>>]
  /\ UNCHANGED <<hostVars, threadVars, executorVars, channel, collector, completed, faults>>

ErrorResult == [outcome |-> "error", log |-> <<>>, artifacts |-> 0]

\* The first file access of a step fails: execute_process returns its error,
\* and with it the collector and the executor it has started are left alone.
ExecuteProcessFails(r) ==
  /\ rpc[r] \in {"creating", "threading", "spawning", "marking", "reading"}
  /\ FileFails
  /\ Conclude(r, ErrorResult)
  /\ UNCHANGED <<hostVars, threadVars, executorVars, channel, collectorVars>>

-----------------------------------------------------------------------------
(* Phase 3: Prime words the answer, the gateway gets it, the call returns it *)

\* A failure of Prime falls back to the first IR.
Respond(r) ==
  /\ Goto(r, "responding", "sending")
  /\ UNCHANGED <<size, current, waited, results, hostVars, threadVars, executorVars, channel,
                 collectorVars, faults>>

\* send_result_to_gateway, whose failure is only logged, then COMPLETED.
Send(r) ==
  /\ Goto(r, "sending", "answered")
  /\ UNCHANGED <<size, current, waited, results, hostVars, threadVars, executorVars, channel,
                 collectorVars, faults>>

\* The client's connection ends: the server drops the handler where it awaits.
Disconnect(r) ==
  /\ rpc[r] \notin {"idle", "answered", "failed", "dropped"}
  /\ rpc' = [rpc EXCEPT ![r] = "dropped"]
  /\ UNCHANGED <<size, current, waited, results, hostVars, threadVars, executorVars, channel,
                 collectorVars, faults>>

-----------------------------------------------------------------------------
(* The event channel of a process *)

\* Inside ThreadExecutor::run, which owns a sender.
Running == {"looping", "thinking", "calling", "executing", "succeeded", "unsuccessful"}

SenderAlive(j) ==
  \/ exec[j] \in Running
  \/ j \in handles
  \/ rpc[j[1]] \in {"spawning", "inserting"} /\ j = Job(j[1])

\* Mutant: a send that never waits.
SendUnbounded(j, event) ==
  channel' = IF collector[j] = "receiving"
             THEN [channel EXCEPT ![j] = Append(@, event)]
             ELSE channel

\* send waits for room, and returns at once when nobody receives any more.
SendEvent(j, event) ==
  /\ collector[j] = "receiving" => Len(channel[j]) < ChannelSize
  /\ channel' = IF collector[j] = "receiving"
                THEN [channel EXCEPT ![j] = Append(@, event)]
                ELSE channel

\* The log of executed skills; a completion is passed on and ends the task,
\* which drops the receiver.
Collect(j) ==
  /\ collector[j] = "receiving" /\ channel[j] # <<>>
  /\ LET event == Head(channel[j]) IN
       IF event = "completed"
       THEN /\ completed' = completed \cup {j}
            /\ collector' = [collector EXCEPT ![j] = "ended"]
            /\ channel' = [channel EXCEPT ![j] = <<>>]
            /\ UNCHANGED log
       ELSE /\ log' = [log EXCEPT ![j] = IF event = "executing" THEN Append(@, event)
                                         ELSE [@ EXCEPT ![Len(@)] = event]]
            /\ channel' = [channel EXCEPT ![j] = Tail(@)]
            /\ UNCHANGED <<completed, collector>>
  /\ UNCHANGED <<requestVars, hostVars, threadVars, executorVars, faults>>

\* recv returns None: nothing is left and every sender is gone.
CollectorEnds(j) ==
  /\ collector[j] = "receiving" /\ channel[j] = <<>> /\ ~SenderAlive(j)
  /\ collector' = [collector EXCEPT ![j] = "ended"]
  /\ UNCHANGED <<requestVars, hostVars, threadVars, executorVars, channel, log, completed, faults>>

-----------------------------------------------------------------------------
(* ThreadExecutor::run and execute_step.  Of the events only those are kept   *)
(* that the collector acts on; neither parser of the model's output yields a  *)
(* clarification or a batch.                                                  *)

At(j, from, to) == exec[j] = from /\ exec' = [exec EXCEPT ![j] = to]

\* The loop is left, run returns and the executor is dropped, its sender too.
LeaveLoop(j) ==
  /\ exec' = [exec EXCEPT ![j] = "cleaning"]
  /\ step' = [step EXCEPT ![j] = 0]
  /\ todo' = [todo EXCEPT ![j] = 0]

\* Mutant: the step number is not advanced.
NextStepUncounted(j) ==
  /\ step[j] < MaxSteps
  /\ At(j, "looping", "thinking")
  /\ UNCHANGED <<requestVars, hostVars, threadVars, step, todo, channel, collectorVars, faults>>

NextStep(j) ==
  /\ step[j] < MaxSteps
  /\ At(j, "looping", "thinking")
  /\ step' = [step EXCEPT ![j] = @ + 1]
  /\ UNCHANGED <<requestVars, hostVars, threadVars, todo, channel, collectorVars, faults>>

StepLimit(j) ==
  /\ exec[j] = "looping" /\ step[j] >= MaxSteps
  /\ SendEvent(j, "completed")
  /\ LeaveLoop(j)
  /\ UNCHANGED <<requestVars, hostVars, threadVars, collectorVars, faults>>

ToolCalls(j) ==
  /\ At(j, "thinking", "calling")
  /\ \E n \in 1..MaxTools : todo' = [todo EXCEPT ![j] = n]
  /\ UNCHANGED <<requestVars, hostVars, threadVars, step, channel, collectorVars, faults>>

\* The new phase is on disk before the event of the change is.
PhaseTransition(j) ==
  /\ exec[j] = "thinking"
  /\ \E p \in Phases : meta' = [meta EXCEPT ![j].phase = p]
  /\ \/ At(j, "thinking", "looping") /\ UNCHANGED <<step, todo, faults>>
     \/ LeaveLoop(j) /\ FileFails
  /\ UNCHANGED <<requestVars, hostVars, eventLog, channel, collectorVars>>

FinalAnswer(j) ==
  /\ exec[j] = "thinking"
  /\ SendEvent(j, "completed")
  /\ LeaveLoop(j)
  /\ UNCHANGED <<requestVars, hostVars, threadVars, collectorVars, faults>>

\* The context, the model, its output or a lock makes execute_step return an
\* error: an Error event, which is no completion, and the loop ends.
StepFails(j) ==
  /\ exec[j] \in {"thinking", "executing"}
  /\ LeaveLoop(j)
  /\ UNCHANGED <<requestVars, hostVars, threadVars, channel, collectorVars, faults>>

CallTool(j) ==
  /\ exec[j] = "calling"
  /\ SendEvent(j, "executing")
  /\ \/ At(j, "calling", "executing") /\ UNCHANGED <<step, todo, faults>>
     \/ LeaveLoop(j) /\ FileFails
  /\ UNCHANGED <<requestVars, hostVars, threadVars, collectorVars>>

\* The event of the result is sent before the result is on disk.
ToolReturns(j) ==
  /\ \/ At(j, "executing", "succeeded") /\ SendEvent(j, "success")
     \/ At(j, "executing", "unsuccessful") /\ SendEvent(j, "failure")
  /\ UNCHANGED <<requestVars, hostVars, threadVars, step, todo, collectorVars, faults>>

\* Mutant: Every result is recorded as a success.
RecordAsSuccess(j) ==
  /\ exec[j] \in {"succeeded", "unsuccessful"}
  /\ exec' = [exec EXCEPT ![j] = IF todo[j] > 1 THEN "calling" ELSE "looping"]
  /\ todo' = [todo EXCEPT ![j] = @ - 1]
  /\ eventLog' = [eventLog EXCEPT ![j] = Append(@, "success")]
  /\ UNCHANGED <<requestVars, hostVars, meta, step, channel, collectorVars, faults>>

\* The result on disk and the artifact file: a failure of the second, or of
\* making the first durable, leaves the result recorded and ends the loop.
RecordResult(j) ==
  LET recorded == [eventLog EXCEPT ![j] =
                     Append(@, IF exec[j] = "succeeded" THEN "success" ELSE "failure")]
  IN /\ exec[j] \in {"succeeded", "unsuccessful"}
     /\ \/ /\ exec' = [exec EXCEPT ![j] = IF todo[j] > 1 THEN "calling" ELSE "looping"]
           /\ todo' = [todo EXCEPT ![j] = @ - 1]
           /\ eventLog' = recorded
           /\ UNCHANGED <<step, faults>>
        \/ LeaveLoop(j) /\ FileFails /\ eventLog' \in {eventLog, recorded}
     /\ UNCHANGED <<requestVars, hostVars, meta, channel, collectorVars>>

\* Mutant: the handle stays in the table.
CleanUpSummary(j) ==
  /\ At(j, "cleaning", "ended")
  /\ UpdateThreadStatus(j)
  /\ UNCHANGED <<requestVars, threadVars, handles, step, todo, channel, collectorVars, faults>>

\* The end of the spawned task: the thread's summary, then the handle.
CleanUp(j) ==
  /\ At(j, "cleaning", "ended")
  /\ \/ UpdateThreadStatus(j) /\ UNCHANGED faults
     \/ FileFails /\ UNCHANGED <<summary, status>>
  /\ handles' = handles \ {j}
  /\ UNCHANGED <<requestVars, threadVars, step, todo, channel, collectorVars>>

-----------------------------------------------------------------------------
RequestStep(r) ==
  \/ GenerateFails(r) \/ Generate(r) \/ CreateProcess(r) \/ CreateThread(r)
  \/ SpawnExecutor(r) \/ InsertHandle(r) \/ MarkThread(r) \/ WaitEnds(r)
  \/ JoinCollector(r) \/ ReadResults(r) \/ Respond(r) \/ Send(r)

ExecutorStep(j) ==
  \/ NextStep(j) \/ StepLimit(j) \/ ToolCalls(j) \/ PhaseTransition(j)
  \/ FinalAnswer(j) \/ StepFails(j) \/ CallTool(j) \/ ToolReturns(j)
  \/ RecordResult(j) \/ CleanUp(j)

CollectorStep(j) == Collect(j) \/ CollectorEnds(j)

Next ==
  \/ \E r \in Requests :
       Receive(r) \/ RequestStep(r) \/ ExecuteProcessFails(r) \/ Disconnect(r)
  \/ \E j \in Jobs : ExecutorStep(j) \/ CollectorStep(j)

Spec == Init /\ [][Next]_vars

\* Every task that can go on does, the model and the tools answer (each has a
\* timeout of its own), and the five minutes pass.  No client has to call.
FairSpec ==
  /\ Spec
  /\ \A r \in Requests : WF_vars(RequestStep(r))
  /\ \A j \in Jobs : WF_vars(ExecutorStep(j)) /\ WF_vars(CollectorStep(j))

-----------------------------------------------------------------------------
LogEntries == {"executing", "success", "failure"}
Outcomes == {"success", "failed", "error"}
Results == [outcome : Outcomes, log : Seq(LogEntries), artifacts : Nat]
Threads == [status : {"Created"}, phase : Phases] \cup {NoThread}

TypeOK ==
  /\ rpc \in [Requests -> {"idle", "generating", "creating", "threading", "spawning",
                           "inserting", "marking", "waiting", "joining", "reading",
                           "responding", "sending", "answered", "failed", "dropped"}]
  /\ size \in [Requests -> 0..MaxProcesses]
  /\ current \in [Requests -> 0..MaxProcesses]
  /\ waited \in [Requests -> {"none", "completed", "closed", "timeout"}]
  /\ results \in [Requests -> Seq(Results)]
  /\ summary \in [Jobs -> Threads]
  /\ status \in [Jobs -> {"none", "Created", "Active", "Paused", "Completed", "Error"}]
  /\ handles \subseteq Jobs
  /\ meta \in [Jobs -> Threads]
  /\ eventLog \in [Jobs -> Seq({"success", "failure"})]
  /\ exec \in [Jobs -> {"none", "cleaning", "ended"} \cup Running]
  /\ step \in [Jobs -> 0..MaxSteps]
  /\ todo \in [Jobs -> 0..MaxTools]
  /\ channel \in [Jobs -> Seq(LogEntries \cup {"completed"})]
  /\ \A j \in Jobs : Len(channel[j]) <= ChannelSize
  /\ collector \in [Jobs -> {"none", "receiving", "ended"}]
  /\ log \in [Jobs -> Seq(LogEntries)]
  /\ completed \subseteq Jobs
  /\ faults \in 0..MaxFaults

\* The executor may still act: call tools, change the thread.
Working(j) == exec[j] \in Running

\* execute_ir never runs two processes of a request at once, although it waits
\* for each only by way of an event channel and a timeout: an executor that
\* still works belongs to the current process, or its start was reported as an
\* error.
OneProcessAtATime ==
  \A r \in Requests : \A k \in 1..Len(results[r]) :
    Working(<<r, k>>) => results[r][k].outcome = "error"

\* What Prime is told about a process is final and agrees with the thread's
\* files: the log, built from events, has as many successes as the result lists
\* artifacts, read from disk, and the thread never gets another one.  Only a
\* failed process may lack the last one, or have a call without a result.
ReportIsFinal ==
  \A r \in Requests : \A k \in 1..Len(results[r]) :
    LET result == results[r][k]
        reported == Artifacts(result.log)
    IN result.outcome # "error" =>
         /\ result.artifacts = Artifacts(eventLog[<<r, k>>])
         /\ reported - result.artifacts \in (IF result.outcome = "success" THEN {0} ELSE {0, 1})
         /\ \A i \in DOMAIN result.log :
              result.log[i] = "executing" => result.outcome = "failed" /\ i = Len(result.log)

\* Once an executor has ended, the process manager's copy of the thread's state
\* is the thread's state, whichever of the spawner and the executor's task
\* copied it last.
SummaryIsCurrent ==
  \A j \in Jobs : exec[j] = "ended" /\ faults = 0 => summary[j] = meta[j]

Past(j) ==
  \/ Len(results[j[1]]) >= j[2]
  \/ rpc[j[1]] = "dropped"

\* Every executor ends, whatever the model answers and whoever stops listening.
ExecutorsEnd == \A j \in Jobs : exec[j] = "looping" ~> exec[j] = "ended"

\* A process whose executor is in the table while it still runs is concluded,
\* however the executor ends.
TrackedProcessReturns == \A j \in Jobs : j \in handles /\ exec[j] \in Running ~> Past(j)

\* The wait for a process has a timeout: when it is over, the process is
\* concluded.
TimeoutReturns ==
  \A r \in Requests : rpc[r] = "joining" /\ waited[r] = "timeout" ~> rpc[r] # "joining"

=============================================================================
