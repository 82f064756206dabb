------------------------- MODULE PrimePipelineProofs -------------------------
(***************************************************************************)
(* Proofs about a ProcessRequest call and its executors, for any number of *)
(* calls, processes, steps, tool calls and failing accesses and for any    *)
(* capacity of the event channel.                                          *)
(*                                                                         *)
(* The handler and an executor share nothing but the event channel, the    *)
(* collector at its other end and files.  That the handler never leaves a  *)
(* running executor behind without an error follows from who keeps the     *)
(* channel open (Heard): its collector does not end before the executor    *)
(* has left its loop, and the handler joins the collector.  That a report  *)
(* is final follows from what the log, the channel and the thread's files  *)
(* have in common at every moment (Counted, InOrder).                      *)
(***************************************************************************)
EXTENDS PrimePipeline, FiniteSetTheorems, SequenceTheorems, TLAPS

\* The handler is inside execute_process.
InProcess == {"creating", "threading", "spawning", "inserting", "marking", "waiting",
              "joining", "reading"}

\* One result for each process before the current one.
Numbered ==
  \A r \in Requests :
    /\ Len(results[r]) <= size[r]
    /\ rpc[r] \in {"idle", "generating"} => current[r] = 0 /\ Len(results[r]) = 0
    /\ rpc[r] \in InProcess => Len(results[r]) + 1 = current[r] /\ current[r] <= size[r]

\* Nobody has started anything for the process.
NotYet(j) ==
  \/ current[j[1]] < j[2]
  \/ current[j[1]] = j[2] /\ rpc[j[1]] \in {"creating", "threading"}

NothingEarly == \A j \in Jobs : NotYet(j) => exec[j] = "none"

\* The executor is about to be started, its thread is made.
Prepared ==
  \A r \in Requests : rpc[r] = "spawning" => exec[Job(r)] = "none" /\ meta[Job(r)] # NoThread

\* An executor has a thread, and a tool call to make while it makes one.
Equipped ==
  \A j \in Jobs :
    /\ exec[j] # "none" => meta[j] # NoThread
    /\ exec[j] \in {"calling", "executing", "succeeded", "unsuccessful"} => todo[j] >= 1

TypeInv == TypeOK /\ Numbered /\ NothingEarly /\ Prepared /\ Equipped

-----------------------------------------------------------------------------
\* As long as the executor runs, its events are received.
Heard(j) == exec[j] \in Running => collector[j] = "receiving"

\* Without an executor there are no events.
Unheard(j) ==
  exec[j] = "none" =>
    channel[j] = <<>> /\ log[j] = <<>> /\ eventLog[j] = <<>> /\ j \notin completed

\* Who has ended has received everything.
Drained(j) == collector[j] = "ended" => channel[j] = <<>>

Sent(j, event) == \E i \in 1..Len(channel[j]) : channel[j][i] = event

\* A completion is the last event of an executor, and ends its collector.
Final(j) ==
  /\ Sent(j, "completed") \/ j \in completed => exec[j] \in {"cleaning", "ended"}
  /\ j \in completed => collector[j] = "ended"

Attended(j) == Heard(j) /\ Unheard(j) /\ Drained(j) /\ Final(j)

\* What the handler knows about the current process.
Joined(r) ==
  /\ rpc[r] = "spawning" => collector[Job(r)] = "receiving"
  /\ rpc[r] = "reading" => collector[Job(r)] = "ended"
  /\ rpc[r] \in {"joining", "reading"} /\ waited[r] = "completed" => Job(r) \in completed

ReceiveInv == (\A j \in Jobs : Attended(j)) /\ (\A r \in Requests : Joined(r))

-----------------------------------------------------------------------------
ToolResult == {"success", "failure"}

\* The event that was sent last is the start of a tool call.
CallOpen(events, entries) ==
  IF events # <<>> THEN events[Len(events)] = "executing"
  ELSE entries # <<>> /\ entries[Len(entries)] = "executing"

\* Each start of a tool call is followed by its result and by nothing else, in
\* the log and in what the collector has yet to receive.
Alternate(events, entries) ==
  /\ \A i \in 1..Len(entries) : entries[i] = "executing" => i = Len(entries)
  /\ events # <<>> => (events[1] \in ToolResult <=> CallOpen(<<>>, entries))
  /\ \A i \in 1..Len(events) - 1 :
       /\ events[i] # "completed"
       /\ events[i + 1] \in ToolResult <=> events[i] = "executing"

InOrder(j) ==
  /\ Alternate(channel[j], log[j])
  /\ exec[j] \in Running => (CallOpen(channel[j], log[j]) <=> exec[j] = "executing")
  /\ Sent(j, "completed") \/ j \in completed => ~CallOpen(channel[j], log[j])

\* Successes that were reported and are not in the thread's files.
Ahead(j) == Artifacts(log[j]) + Artifacts(channel[j]) - Artifacts(eventLog[j])

\* At most one, of an executor between the two or one that failed between them.
Counted(j) ==
  /\ Ahead(j) \in {0, 1}
  /\ Ahead(j) = 1 => exec[j] \in {"succeeded", "cleaning", "ended"}
  /\ exec[j] = "succeeded" => Ahead(j) = 1
  /\ Sent(j, "completed") \/ j \in completed => Ahead(j) = 0

\* No result of the process has been pushed, its log is still the collector's.
Unreported(j) == Len(results[j[1]]) < j[2]

ReportInv == \A j \in Jobs : InOrder(j) /\ (Unreported(j) => Counted(j))

-----------------------------------------------------------------------------
(* Operators of the model *)

\* A job is a request's process.
LEMMA JobPair ==
  ASSUME NEW j \in Jobs
  PROVE  /\ j[1] \in Requests /\ j[2] \in 1..MaxProcesses
         /\ j = <<j[1], j[2]>>
  BY DEF Jobs

\* The current process of a request that is executed.
LEMMA CurrentJob ==
  ASSUME TypeOK, Numbered, NEW r \in Requests, rpc[r] \in InProcess
  PROVE  /\ Job(r) \in Jobs /\ Job(r)[1] = r /\ Job(r)[2] = current[r]
         /\ current[r] \in 1..MaxProcesses /\ current[r] <= size[r]
         /\ Len(results[r]) + 1 = current[r]
<1>1. current[r] \in 0..MaxProcesses /\ Len(results[r]) \in Nat /\ MaxProcesses \in Nat
  BY ConstantsAssumption DEF TypeOK
<1>2. current[r] \in 1..MaxProcesses
  BY <1>1 DEF Numbered
<1>. QED  BY <1>1, <1>2 DEF Numbered, Job, Jobs

\* The number of artifacts is a number.
LEMMA ArtifactsType ==
  ASSUME NEW S, NEW s \in Seq(S)
  PROVE  /\ Artifacts(s) \in Nat
         /\ IsFiniteSet({i \in DOMAIN s : s[i] = "success"})
<1>1. IsFiniteSet(1..Len(s)) /\ DOMAIN s = 1..Len(s)
  BY FS_Interval
<1>2. IsFiniteSet({i \in DOMAIN s : s[i] = "success"})
  BY <1>1, FS_Subset
<1>. QED  BY <1>2, FS_CardinalityType DEF Artifacts

-----------------------------------------------------------------------------
(* Type correctness *)

LEMMA InitialTypes == Init => TypeInv
<1>. SUFFICES ASSUME Init  PROVE TypeInv
  OBVIOUS
<1>1. TypeOK
  BY ConstantsAssumption DEF Init, TypeOK, Threads, NoThread
<1>2. Numbered
  BY DEF Init, Numbered, InProcess
<1>3. NothingEarly /\ Prepared /\ Equipped
  BY DEF Init, NothingEarly, Prepared, Equipped
<1>. QED  BY <1>1, <1>2, <1>3 DEF TypeInv

LEMMA ConcludeTypes ==
  ASSUME TypeOK, Numbered, NEW r \in Requests, rpc[r] \in InProcess,
         NEW result \in Results, Conclude(r, result)
  PROVE  /\ rpc' = [rpc EXCEPT ![r] = IF current[r] < size[r] THEN "creating" ELSE "responding"]
         /\ size' = size /\ current' \in [Requests -> 0..MaxProcesses]
         /\ waited' \in [Requests -> {"none", "completed", "closed", "timeout"}]
         /\ results' \in [Requests -> Seq(Results)]
<1>1. current[r] \in 1..MaxProcesses /\ size[r] \in 0..MaxProcesses /\ MaxProcesses \in Nat
  BY CurrentJob, ConstantsAssumption DEF TypeOK
<1>2. Append(results[r], result) \in Seq(Results)
  BY DEF TypeOK
<1>. QED  BY <1>1, <1>2 DEF Conclude, TypeOK

LEMMA SendTypes ==
  ASSUME TypeOK, NEW j \in Jobs, NEW event \in LogEntries \cup {"completed"}, SendEvent(j, event)
  PROVE  /\ channel' \in [Jobs -> Seq(LogEntries \cup {"completed"})]
         /\ \A k \in Jobs : Len(channel'[k]) <= ChannelSize
<1>1. CASE collector[j] = "receiving"
  <2>1. channel' = [channel EXCEPT ![j] = Append(@, event)] /\ Len(channel[j]) < ChannelSize
    BY <1>1 DEF SendEvent
  <2>2. channel[j] \in Seq(LogEntries \cup {"completed"}) /\ ChannelSize \in Nat
    BY ConstantsAssumption DEF TypeOK
  <2>3. /\ Append(channel[j], event) \in Seq(LogEntries \cup {"completed"})
        /\ Len(Append(channel[j], event)) <= ChannelSize
    BY <2>1, <2>2
  <2>. QED  BY <2>1, <2>3 DEF TypeOK
<1>2. CASE collector[j] # "receiving"
  BY <1>2 DEF SendEvent, TypeOK
<1>. QED  BY <1>1, <1>2

LEMMA LeaveTypes ==
  ASSUME TypeOK, NEW j \in Jobs, LeaveLoop(j)
  PROVE  /\ exec' \in [Jobs -> {"none", "cleaning", "ended"} \cup Running]
         /\ step' \in [Jobs -> 0..MaxSteps] /\ todo' \in [Jobs -> 0..MaxTools]
  BY ConstantsAssumption DEF TypeOK, LeaveLoop

LEMMA FaultTypes ==
  ASSUME TypeOK, FileFails
  PROVE  faults' \in 0..MaxFaults /\ faults' > faults
  BY ConstantsAssumption DEF TypeOK, FileFails

LEMMA UpdateTypes ==
  ASSUME TypeOK, NEW j \in Jobs, UpdateThreadStatus(j)
  PROVE  /\ summary' \in [Jobs -> Threads]
         /\ status' \in [Jobs -> {"none", "Created", "Active", "Paused", "Completed", "Error"}]
  BY DEF TypeOK, UpdateThreadStatus, ProcessStatus

LEMMA TypesStep == TypeInv /\ [Next]_vars => TypeOK'
<1>. SUFFICES ASSUME TypeInv, [Next]_vars  PROVE TypeOK'
  OBVIOUS
<1>. USE ConstantsAssumption DEF TypeInv, TypeOK, Goto, At, requestVars, hostVars, threadVars, executorVars, collectorVars, FileFails, LeaveLoop, Running, LogEntries, Threads
<1>1. ASSUME NEW r \in Requests, Receive(r)  PROVE TypeOK'
  BY <1>1, CurrentJob
     DEF Receive, InProcess, Conclude, NewThread, NoThread, UpdateThreadStatus, ProcessStatus
<1>2. ASSUME NEW r \in Requests, GenerateFails(r)  PROVE TypeOK'
  BY <1>2, CurrentJob
     DEF GenerateFails, InProcess, Conclude, NewThread, NoThread, UpdateThreadStatus,
         ProcessStatus
<1>3. ASSUME NEW r \in Requests, Generate(r)  PROVE TypeOK'
  BY <1>3, CurrentJob, SMTT(20)
     DEF Generate, InProcess, Conclude, NewThread, NoThread, UpdateThreadStatus, ProcessStatus
<1>4. ASSUME NEW r \in Requests, CreateProcess(r)  PROVE TypeOK'
  BY <1>4, CurrentJob
     DEF CreateProcess, InProcess, Conclude, NewThread, NoThread, UpdateThreadStatus,
         ProcessStatus
<1>5. ASSUME NEW r \in Requests, CreateThread(r)  PROVE TypeOK'
  BY <1>5, CurrentJob
     DEF CreateThread, InProcess, Conclude, NewThread, NoThread, UpdateThreadStatus,
         ProcessStatus
<1>6. ASSUME NEW r \in Requests, SpawnExecutor(r)  PROVE TypeOK'
  BY <1>6, CurrentJob
     DEF SpawnExecutor, InProcess, Conclude, NewThread, NoThread, UpdateThreadStatus,
         ProcessStatus
<1>7. ASSUME NEW r \in Requests, InsertHandle(r)  PROVE TypeOK'
  <2>1. Job(r) \in Jobs /\ rpc' = [rpc EXCEPT ![r] = "marking"] /\ handles' = handles \cup {Job(r)}
    BY <1>7, CurrentJob DEF InsertHandle, InProcess
  <2>. QED  BY <1>7, <2>1, SMTT(20) DEF InsertHandle
<1>8. ASSUME NEW r \in Requests, MarkThread(r)  PROVE TypeOK'
  BY <1>8, CurrentJob
     DEF MarkThread, InProcess, Conclude, NewThread, NoThread, UpdateThreadStatus, ProcessStatus
<1>9. ASSUME NEW r \in Requests, WaitEnds(r)  PROVE TypeOK'
  BY <1>9, CurrentJob, ZenonT(40)
     DEF WaitEnds, InProcess, Conclude, NewThread, NoThread, UpdateThreadStatus, ProcessStatus
<1>10. ASSUME NEW r \in Requests, JoinCollector(r)  PROVE TypeOK'
  BY <1>10, CurrentJob
     DEF JoinCollector, InProcess, Conclude, NewThread, NoThread, UpdateThreadStatus,
         ProcessStatus
<1>11. ASSUME NEW r \in Requests, ReadResults(r)  PROVE TypeOK'
  <2>1. Job(r) \in Jobs /\ rpc[r] \in InProcess
    BY <1>11, CurrentJob DEF ReadResults, InProcess
  <2>2. log[Job(r)] \in Seq(LogEntries) /\ Artifacts(eventLog[Job(r)]) \in Nat
    BY <2>1, ArtifactsType
  <2>3. PICK result \in Results : Conclude(r, result)
    BY <1>11, <2>2 DEF ReadResults, Results, Outcomes
  <2>4. /\ rpc' = [rpc EXCEPT ![r] = IF current[r] < size[r] THEN "creating" ELSE "responding"]
        /\ size' = size /\ current' \in [Requests -> 0..MaxProcesses]
        /\ waited' \in [Requests -> {"none", "completed", "closed", "timeout"}]
        /\ results' \in [Requests -> Seq(Results)]
    BY <2>1, <2>3, ConcludeTypes
  <2>5. log' \in [Jobs -> Seq(LogEntries)]
    BY <1>11, <2>1 DEF ReadResults
  <2>. QED  BY <1>11, <2>4, <2>5 DEF ReadResults
<1>12. ASSUME NEW r \in Requests, ExecuteProcessFails(r)  PROVE TypeOK'
  <2>1. rpc[r] \in InProcess
    BY <1>12 DEF ExecuteProcessFails, InProcess
  <2>2. ErrorResult \in Results
    BY DEF ErrorResult, Results, Outcomes
  <2>3. /\ rpc' = [rpc EXCEPT ![r] = IF current[r] < size[r] THEN "creating" ELSE "responding"]
        /\ size' = size /\ current' \in [Requests -> 0..MaxProcesses]
        /\ waited' \in [Requests -> {"none", "completed", "closed", "timeout"}]
        /\ results' \in [Requests -> Seq(Results)]
    BY <1>12, <2>1, <2>2, ConcludeTypes DEF ExecuteProcessFails
  <2>4. faults' \in 0..MaxFaults
    BY <1>12, FaultTypes DEF ExecuteProcessFails
  <2>. QED  BY <1>12, <2>3, <2>4 DEF ExecuteProcessFails
<1>13. ASSUME NEW r \in Requests, Respond(r)  PROVE TypeOK'
  BY <1>13, CurrentJob
     DEF Respond, InProcess, Conclude, NewThread, NoThread, UpdateThreadStatus, ProcessStatus
<1>14. ASSUME NEW r \in Requests, Send(r)  PROVE TypeOK'
  BY <1>14, CurrentJob
     DEF Send, InProcess, Conclude, NewThread, NoThread, UpdateThreadStatus, ProcessStatus
<1>15. ASSUME NEW r \in Requests, Disconnect(r)  PROVE TypeOK'
  BY <1>15, CurrentJob
     DEF Disconnect, InProcess, Conclude, NewThread, NoThread, UpdateThreadStatus, ProcessStatus
<1>16. ASSUME NEW j \in Jobs, NextStep(j)  PROVE TypeOK'
  BY <1>16, SMTT(20) DEF NextStep, SendEvent, Equipped, NoThread, UpdateThreadStatus, ProcessStatus
<1>17. ASSUME NEW j \in Jobs, StepLimit(j)  PROVE TypeOK'
  BY <1>17 DEF StepLimit, SendEvent, Equipped, NoThread, UpdateThreadStatus, ProcessStatus
<1>18. ASSUME NEW j \in Jobs, ToolCalls(j)  PROVE TypeOK'
  BY <1>18, SMTT(20) DEF ToolCalls, SendEvent, Equipped, NoThread, UpdateThreadStatus, ProcessStatus
<1>19. ASSUME NEW j \in Jobs, PhaseTransition(j)  PROVE TypeOK'
  <2>1. PICK p \in Phases : meta' = [meta EXCEPT ![j].phase = p]
    BY <1>19 DEF PhaseTransition
  <2>2. meta[j] \in [status : {"Created"}, phase : Phases]
    BY <1>19 DEF PhaseTransition, Equipped
  <2>3. meta' \in [Jobs -> Threads]
    <3>1. [meta[j] EXCEPT !.phase = p] \in Threads
      BY <2>2
    <3>. QED  BY <2>1, <3>1
  <2>4. CASE At(j, "thinking", "looping") /\ UNCHANGED <<step, todo, faults>>
    BY <1>19, <2>3, <2>4 DEF PhaseTransition
  <2>5. CASE LeaveLoop(j) /\ FileFails
    <3>1. /\ exec' \in [Jobs -> {"none", "cleaning", "ended"} \cup Running]
          /\ step' \in [Jobs -> 0..MaxSteps] /\ todo' \in [Jobs -> 0..MaxTools]
          /\ faults' \in 0..MaxFaults
      BY <2>5, LeaveTypes, FaultTypes
    <3>. QED  BY <1>19, <2>3, <3>1 DEF PhaseTransition
  <2>. QED  BY <1>19, <2>4, <2>5 DEF PhaseTransition
<1>20. ASSUME NEW j \in Jobs, FinalAnswer(j)  PROVE TypeOK'
  BY <1>20, SMTT(20)
     DEF FinalAnswer, SendEvent, Equipped, NoThread, UpdateThreadStatus, ProcessStatus
<1>21. ASSUME NEW j \in Jobs, StepFails(j)  PROVE TypeOK'
  BY <1>21 DEF StepFails, SendEvent, Equipped, NoThread, UpdateThreadStatus, ProcessStatus
<1>22. ASSUME NEW j \in Jobs, CallTool(j)  PROVE TypeOK'
  <2>1. /\ channel' \in [Jobs -> Seq(LogEntries \cup {"completed"})]
        /\ \A k \in Jobs : Len(channel'[k]) <= ChannelSize
    BY <1>22, SendTypes DEF CallTool
  <2>2. CASE At(j, "calling", "executing") /\ UNCHANGED <<step, todo, faults>>
    BY <1>22, <2>1, <2>2 DEF CallTool
  <2>3. CASE LeaveLoop(j) /\ FileFails
    <3>1. /\ exec' \in [Jobs -> {"none", "cleaning", "ended"} \cup Running]
          /\ step' \in [Jobs -> 0..MaxSteps] /\ todo' \in [Jobs -> 0..MaxTools]
          /\ faults' \in 0..MaxFaults
      BY <2>3, LeaveTypes, FaultTypes
    <3>. QED  BY <1>22, <2>1, <3>1 DEF CallTool
  <2>. QED  BY <1>22, <2>2, <2>3 DEF CallTool
<1>23. ASSUME NEW j \in Jobs, ToolReturns(j)  PROVE TypeOK'
  <2>1. /\ channel' \in [Jobs -> Seq(LogEntries \cup {"completed"})]
        /\ \A k \in Jobs : Len(channel'[k]) <= ChannelSize
    BY <1>23, SendTypes DEF ToolReturns
  <2>2. exec' \in [Jobs -> {"none", "cleaning", "ended"} \cup Running]
    BY <1>23 DEF ToolReturns
  <2>. QED  BY <1>23, <2>1, <2>2 DEF ToolReturns
<1>24. ASSUME NEW j \in Jobs, RecordResult(j)  PROVE TypeOK'
  <2>. DEFINE recorded == [eventLog EXCEPT ![j] =
                Append(@, IF exec[j] = "succeeded" THEN "success" ELSE "failure")]
  <2>1. recorded \in [Jobs -> Seq(ToolResult)]
    BY DEF ToolResult
  <2>2. eventLog' \in [Jobs -> Seq(ToolResult)]
    BY <1>24, <2>1 DEF RecordResult, ToolResult
  <2>3. CASE /\ exec' = [exec EXCEPT ![j] = IF todo[j] > 1 THEN "calling" ELSE "looping"]
             /\ todo' = [todo EXCEPT ![j] = @ - 1] /\ UNCHANGED <<step, faults>>
    <3>1. todo[j] >= 1 /\ todo[j] \in 0..MaxTools
      BY <1>24 DEF RecordResult, Equipped
    <3>2. todo' \in [Jobs -> 0..MaxTools] /\ exec' \in [Jobs -> {"none", "cleaning", "ended"} \cup Running]
      BY <2>3, <3>1
    <3>. QED  BY <1>24, <2>2, <2>3, <3>2 DEF RecordResult, ToolResult
  <2>4. CASE LeaveLoop(j) /\ FileFails
    <3>1. /\ exec' \in [Jobs -> {"none", "cleaning", "ended"} \cup Running]
          /\ step' \in [Jobs -> 0..MaxSteps] /\ todo' \in [Jobs -> 0..MaxTools]
          /\ faults' \in 0..MaxFaults
      BY <2>4, LeaveTypes, FaultTypes
    <3>. QED  BY <1>24, <2>2, <3>1 DEF RecordResult, ToolResult
  <2>. QED  BY <1>24, <2>3, <2>4 DEF RecordResult
<1>25. ASSUME NEW j \in Jobs, CleanUp(j)  PROVE TypeOK'
  <2>1. exec' \in [Jobs -> {"none", "cleaning", "ended"} \cup Running] /\ handles' \subseteq Jobs
    BY <1>25 DEF CleanUp
  <2>2. CASE UpdateThreadStatus(j) /\ UNCHANGED faults
    <3>1. /\ summary' \in [Jobs -> Threads]
          /\ status' \in [Jobs -> {"none", "Created", "Active", "Paused", "Completed", "Error"}]
      BY <2>2, UpdateTypes
    <3>. QED  BY <1>25, <2>1, <2>2, <3>1 DEF CleanUp
  <2>3. CASE FileFails /\ UNCHANGED <<summary, status>>
    <3>1. faults' \in 0..MaxFaults
      BY <2>3, FaultTypes
    <3>. QED  BY <1>25, <2>1, <2>3, <3>1 DEF CleanUp
  <2>. QED  BY <1>25, <2>2, <2>3 DEF CleanUp
<1>26. ASSUME NEW j \in Jobs, Collect(j)  PROVE TypeOK'
  <2>. DEFINE event == Head(channel[j])
  <2>1. event \in LogEntries \cup {"completed"} /\ Len(channel[j]) >= 1
    BY <1>26 DEF Collect
  <2>2. CASE event = "completed"
    <3>1. completed' \subseteq Jobs /\ collector' = [collector EXCEPT ![j] = "ended"] /\ log' = log
      BY <1>26, <2>2 DEF Collect
    <3>2. channel' = [channel EXCEPT ![j] = <<>>]
      BY <1>26, <2>2 DEF Collect
    <3>3. /\ channel' \in [Jobs -> Seq(LogEntries \cup {"completed"})]
          /\ \A k \in Jobs : Len(channel'[k]) <= ChannelSize
      BY <3>2
    <3>. QED  BY <1>26, <3>1, <3>3 DEF Collect
  <2>3. CASE event # "completed"
    <3>1. /\ log' = [log EXCEPT ![j] = IF event = "executing" THEN Append(@, event)
                                       ELSE [@ EXCEPT ![Len(@)] = event]]
          /\ channel' = [channel EXCEPT ![j] = Tail(@)] /\ UNCHANGED <<completed, collector>>
      BY <1>26, <2>3 DEF Collect
    <3>2. /\ Tail(channel[j]) \in Seq(LogEntries \cup {"completed"})
          /\ Len(Tail(channel[j])) <= ChannelSize
      BY <2>1
    <3>3. /\ Append(log[j], event) \in Seq(LogEntries)
          /\ [log[j] EXCEPT ![Len(log[j])] = event] \in Seq(LogEntries)
      <4>1. event \in LogEntries
        BY <2>1, <2>3
      <4>2. PICK n \in Nat : log[j] \in [1..n -> LogEntries]
        BY SeqDef
      <4>. HIDE DEF event, LogEntries
      <4>3. [log[j] EXCEPT ![Len(log[j])] = event] \in [1..n -> LogEntries]
        BY <4>1, <4>2
      <4>. QED  BY <4>1, <4>3, SeqDef
    <3>4. log' \in [Jobs -> Seq(LogEntries)]
      BY <3>1, <3>3
    <3>5. /\ channel' \in [Jobs -> Seq(LogEntries \cup {"completed"})]
          /\ \A k \in Jobs : Len(channel'[k]) <= ChannelSize
      BY <3>1, <3>2
    <3>. QED  BY <1>26, <3>1, <3>4, <3>5 DEF Collect
  <2>. QED  BY <2>2, <2>3
<1>27. ASSUME NEW j \in Jobs, CollectorEnds(j)  PROVE TypeOK'
  BY <1>27 DEF CollectorEnds, SendEvent, Equipped, NoThread, UpdateThreadStatus, ProcessStatus
<1>28. CASE UNCHANGED vars
  BY <1>28 DEF vars
<1>. QED  BY <1>1, <1>2, <1>3, <1>4, <1>5, <1>6, <1>7, <1>8, <1>9, <1>10, <1>11, <1>12, <1>13, <1>14,
       <1>15, <1>16, <1>17, <1>18, <1>19, <1>20, <1>21, <1>22, <1>23, <1>24, <1>25, <1>26,
       <1>27, <1>28
       DEF Next, RequestStep, ExecutorStep, CollectorStep
-----------------------------------------------------------------------------
(* What a step leaves alone *)

SameRequest(r) ==
  /\ rpc'[r] = rpc[r] /\ size'[r] = size[r] /\ current'[r] = current[r]
  /\ waited'[r] = waited[r] /\ results'[r] = results[r]

SameJob(j) ==
  /\ exec'[j] = exec[j] /\ todo'[j] = todo[j] /\ meta'[j] = meta[j]
  /\ eventLog'[j] = eventLog[j]
  /\ channel'[j] = channel[j] /\ collector'[j] = collector[j] /\ log'[j] = log[j]
  /\ j \in completed' <=> j \in completed

RequestMove(r) == Receive(r) \/ RequestStep(r) \/ ExecuteProcessFails(r) \/ Disconnect(r)
JobMove(j) == ExecutorStep(j) \/ CollectorStep(j)

LEMMA StepOfSomebody ==
  ASSUME [Next]_vars
  PROVE  \/ \E r \in Requests : RequestMove(r)
         \/ \E j \in Jobs : JobMove(j)
         \/ UNCHANGED vars
  BY DEF Next, RequestMove, JobMove

LEMMA RequestFrame ==
  ASSUME TypeInv, NEW r \in Requests, RequestMove(r)
  PROVE  /\ \A q \in Requests : q # r => SameRequest(q)
         /\ \A j \in Jobs : j # Job(r) => SameJob(j)
         /\ handles \subseteq handles' /\ faults' \in Nat /\ faults' >= faults
         /\ completed' = completed
<1>. DEFINE Frame == /\ \A q \in Requests : q # r => SameRequest(q)
                     /\ \A j \in Jobs : j # Job(r) => SameJob(j)
                     /\ handles \subseteq handles' /\ faults' \in Nat /\ faults' >= faults
                     /\ completed' = completed
<1>. SUFFICES Frame
  OBVIOUS
<1>. USE ConstantsAssumption DEF TypeOK, TypeInv, Goto, requestVars, hostVars, threadVars, executorVars, collectorVars, FileFails, SameRequest, SameJob
<1>1. CASE Receive(r)
  BY <1>1 DEF Receive, Conclude, UpdateThreadStatus
<1>2. CASE GenerateFails(r)
  BY <1>2 DEF GenerateFails, Conclude, UpdateThreadStatus
<1>3. CASE Generate(r)
  BY <1>3 DEF Generate, Conclude, UpdateThreadStatus
<1>4. CASE CreateProcess(r)
  BY <1>4 DEF CreateProcess, Conclude, UpdateThreadStatus
<1>5. CASE CreateThread(r)
  BY <1>5 DEF CreateThread, Conclude, UpdateThreadStatus
<1>6. CASE SpawnExecutor(r)
  BY <1>6 DEF SpawnExecutor, Conclude, UpdateThreadStatus
<1>7. CASE InsertHandle(r)
  BY <1>7 DEF InsertHandle, Conclude, UpdateThreadStatus
<1>8. CASE MarkThread(r)
  BY <1>8 DEF MarkThread, Conclude, UpdateThreadStatus
<1>9. CASE WaitEnds(r)
  BY <1>9 DEF WaitEnds, Conclude, UpdateThreadStatus
<1>10. CASE JoinCollector(r)
  BY <1>10 DEF JoinCollector, Conclude, UpdateThreadStatus
<1>11. CASE ReadResults(r)
  BY <1>11 DEF ReadResults, Conclude, UpdateThreadStatus
<1>12. CASE ExecuteProcessFails(r)
  BY <1>12 DEF ExecuteProcessFails, Conclude, UpdateThreadStatus
<1>13. CASE Respond(r)
  BY <1>13 DEF Respond, Conclude, UpdateThreadStatus
<1>14. CASE Send(r)
  BY <1>14 DEF Send, Conclude, UpdateThreadStatus
<1>15. CASE Disconnect(r)
  BY <1>15 DEF Disconnect, Conclude, UpdateThreadStatus
<1>. HIDE DEF Frame
<1>. QED  BY <1>1, <1>2, <1>3, <1>4, <1>5, <1>6, <1>7, <1>8, <1>9, <1>10, <1>11, <1>12, <1>13, <1>14,
       <1>15
       DEF RequestMove, RequestStep

LEMMA JobFrame ==
  ASSUME TypeInv, NEW j \in Jobs, JobMove(j)
  PROVE  /\ UNCHANGED requestVars
         /\ \A k \in Jobs : k # j => SameJob(k)
         /\ faults' \in Nat /\ faults' >= faults
<1>. DEFINE Frame == /\ UNCHANGED requestVars
                     /\ \A k \in Jobs : k # j => SameJob(k)
                     /\ faults' \in Nat /\ faults' >= faults
<1>. SUFFICES Frame
  OBVIOUS
<1>. USE ConstantsAssumption DEF TypeOK, TypeInv, At, requestVars, hostVars, threadVars, executorVars, collectorVars, FileFails, LeaveLoop, SameJob
<1>1. CASE NextStep(j)
  BY <1>1 DEF NextStep, SendEvent, UpdateThreadStatus
<1>2. CASE StepLimit(j)
  BY <1>2 DEF StepLimit, SendEvent, UpdateThreadStatus
<1>3. CASE ToolCalls(j)
  BY <1>3 DEF ToolCalls, SendEvent, UpdateThreadStatus
<1>4. CASE PhaseTransition(j)
  BY <1>4, SMTT(20) DEF PhaseTransition, SendEvent, UpdateThreadStatus
<1>5. CASE FinalAnswer(j)
  BY <1>5 DEF FinalAnswer, SendEvent, UpdateThreadStatus
<1>6. CASE StepFails(j)
  BY <1>6 DEF StepFails, SendEvent, UpdateThreadStatus
<1>7. CASE CallTool(j)
  BY <1>7 DEF CallTool, SendEvent, UpdateThreadStatus
<1>8. CASE ToolReturns(j)
  BY <1>8 DEF ToolReturns, SendEvent, UpdateThreadStatus
<1>9. CASE RecordResult(j)
  BY <1>9, SMTT(20) DEF RecordResult, SendEvent, UpdateThreadStatus
<1>10. CASE CleanUp(j)
  BY <1>10 DEF CleanUp, SendEvent, UpdateThreadStatus
<1>11. CASE Collect(j)
  BY <1>11 DEF Collect, SendEvent, UpdateThreadStatus
<1>12. CASE CollectorEnds(j)
  BY <1>12 DEF CollectorEnds, SendEvent, UpdateThreadStatus
<1>. HIDE DEF Frame
<1>. QED  BY <1>1, <1>2, <1>3, <1>4, <1>5, <1>6, <1>7, <1>8, <1>9, <1>10, <1>11, <1>12
       DEF JobMove, ExecutorStep, CollectorStep

\* A result is pushed.
ConcludesNow(r) == \E result \in Results : Conclude(r, result)

LEMMA ConcludedWith ==
  ASSUME TypeInv, NEW r \in Requests, ReadResults(r) \/ ExecuteProcessFails(r)
  PROVE  ConcludesNow(r)
<1>1. CASE ReadResults(r)
  <2>1. Job(r) \in Jobs
    BY <1>1, CurrentJob DEF ReadResults, InProcess, TypeInv
  <2>2. log[Job(r)] \in Seq(LogEntries) /\ Artifacts(eventLog[Job(r)]) \in Nat
    BY <2>1, ArtifactsType DEF TypeInv, TypeOK
  <2>. QED  BY <1>1, <2>2 DEF ReadResults, ConcludesNow, Results, Outcomes
<1>2. CASE ExecuteProcessFails(r)
  <2>1. ErrorResult \in Results
    BY DEF ErrorResult, Results, Outcomes
  <2>. QED  BY <1>2, <2>1 DEF ExecuteProcessFails, ConcludesNow
<1>. QED  BY <1>1, <1>2

-----------------------------------------------------------------------------
LEMMA NumberedStep == TypeInv /\ [Next]_vars => Numbered'
<1>. SUFFICES ASSUME TypeInv, [Next]_vars  PROVE Numbered'
  OBVIOUS
<1>. USE DEF Numbered
<1>1. ASSUME NEW r \in Requests, RequestMove(r)  PROVE Numbered'
  <2>. DEFINE Kept ==
         /\ Len(results'[r]) <= size'[r]
         /\ rpc'[r] \in {"idle", "generating"} => current'[r] = 0 /\ Len(results'[r]) = 0
         /\ rpc'[r] \in InProcess => Len(results'[r]) + 1 = current'[r] /\ current'[r] <= size'[r]
  <2>a. ASSUME NEW q \in Requests, q # r
        PROVE  /\ Len(results'[q]) <= size'[q]
               /\ rpc'[q] \in {"idle", "generating"} => current'[q] = 0 /\ Len(results'[q]) = 0
               /\ rpc'[q] \in InProcess => Len(results'[q]) + 1 = current'[q] /\ current'[q] <= size'[q]
    <3>1. SameRequest(q)
      BY <1>1, <2>a, RequestFrame
    <3>. QED  BY <3>1 DEF SameRequest, TypeInv
  <2>. SUFFICES Kept
    BY <2>a
  <2>0. /\ size[r] \in 0..MaxProcesses /\ current[r] \in 0..MaxProcesses /\ MaxProcesses \in Nat
        /\ Len(results[r]) \in Nat
    BY ConstantsAssumption DEF TypeInv, TypeOK
  <2>1. CASE Receive(r)
    BY <2>0, <2>1 DEF Receive, Goto, InProcess, TypeInv, TypeOK
  <2>2. CASE GenerateFails(r)
    BY <2>0, <2>2 DEF GenerateFails, Goto, InProcess, TypeInv, TypeOK
  <2>3. CASE Generate(r)
    BY <2>0, <2>3 DEF Generate, Goto, InProcess, TypeInv, TypeOK
  <2>4. CASE CreateProcess(r)
    BY <2>0, <2>4 DEF CreateProcess, Goto, InProcess, TypeInv, TypeOK
  <2>5. CASE CreateThread(r)
    BY <2>0, <2>5 DEF CreateThread, Goto, InProcess, TypeInv, TypeOK
  <2>6. CASE SpawnExecutor(r)
    BY <2>0, <2>6 DEF SpawnExecutor, Goto, InProcess, TypeInv, TypeOK
  <2>7. CASE InsertHandle(r)
    BY <2>0, <2>7 DEF InsertHandle, Goto, InProcess, TypeInv, TypeOK
  <2>8. CASE MarkThread(r)
    BY <2>0, <2>8 DEF MarkThread, Goto, InProcess, TypeInv, TypeOK
  <2>9. CASE WaitEnds(r)
    BY <2>0, <2>9 DEF WaitEnds, Goto, InProcess, TypeInv, TypeOK
  <2>10. CASE JoinCollector(r)
    BY <2>0, <2>10 DEF JoinCollector, Goto, InProcess, TypeInv, TypeOK
  <2>11. CASE ReadResults(r)
    <3>1. PICK result \in Results : Conclude(r, result)
      BY <2>11, ConcludedWith DEF ConcludesNow
    <3>2. Len(results'[r]) = Len(results[r]) + 1
      BY <3>1 DEF Conclude, TypeInv, TypeOK
    <3>3. rpc[r] \in InProcess
      BY <2>11 DEF ReadResults, InProcess
    <3>. QED  BY <2>0, <3>1, <3>2, <3>3 DEF Conclude, InProcess, TypeInv, TypeOK
  <2>12. CASE ExecuteProcessFails(r)
    <3>1. PICK result \in Results : Conclude(r, result)
      BY <2>12, ConcludedWith DEF ConcludesNow
    <3>2. Len(results'[r]) = Len(results[r]) + 1
      BY <3>1 DEF Conclude, TypeInv, TypeOK
    <3>3. rpc[r] \in InProcess
      BY <2>12 DEF ExecuteProcessFails, InProcess
    <3>. QED  BY <2>0, <3>1, <3>2, <3>3 DEF Conclude, InProcess, TypeInv, TypeOK
  <2>13. CASE Respond(r)
    BY <2>0, <2>13 DEF Respond, Goto, InProcess, TypeInv, TypeOK
  <2>14. CASE Send(r)
    BY <2>0, <2>14 DEF Send, Goto, InProcess, TypeInv, TypeOK
  <2>15. CASE Disconnect(r)
    BY <2>0, <2>15 DEF Disconnect, Goto, InProcess, TypeInv, TypeOK
  <2>. QED  BY <1>1, <2>1, <2>2, <2>3, <2>4, <2>5, <2>6, <2>7, <2>8, <2>9, <2>10, <2>11, <2>12, <2>13,
         <2>14, <2>15
         DEF RequestMove, RequestStep
<1>2. ASSUME NEW j \in Jobs, JobMove(j)  PROVE Numbered'
  BY <1>2, JobFrame DEF TypeInv, requestVars
<1>3. CASE UNCHANGED vars
  BY <1>3 DEF vars, requestVars, TypeInv
<1>. QED  BY <1>1, <1>2, <1>3, StepOfSomebody


\* What no step of an executor or a collector changes about its thread.
JobKept(j) ==
  /\ exec'[j] = "none" <=> exec[j] = "none"
  /\ meta[j] # NoThread => meta'[j] # NoThread
  /\ exec'[j] \in {"calling", "executing", "succeeded", "unsuccessful"} => todo'[j] >= 1

LEMMA JobKeeps ==
  ASSUME TypeInv, NEW j \in Jobs, JobMove(j)
  PROVE  JobKept(j)
<1>. USE DEF JobKept, TypeInv, TypeOK, Equipped, At, LeaveLoop
<1>0. todo[j] \in 0..MaxTools /\ MaxTools \in Nat
  BY ConstantsAssumption
<1>1. CASE NextStep(j)
  BY <1>0, <1>1 DEF NextStep, threadVars
<1>2. CASE StepLimit(j)
  BY <1>0, <1>2 DEF StepLimit, threadVars
<1>3. CASE ToolCalls(j)
  BY <1>0, <1>3 DEF ToolCalls, threadVars
<1>4. CASE PhaseTransition(j)
  <2>1. exec'[j] # "none" /\ exec'[j] \notin {"calling", "executing", "succeeded", "unsuccessful"}
    BY <1>4 DEF PhaseTransition
  <2>2. PICK p \in Phases : meta' = [meta EXCEPT ![j].phase = p]
    BY <1>4 DEF PhaseTransition
  <2>3. exec[j] = "thinking"
    BY <1>4 DEF PhaseTransition
  <2>4. meta[j] \in [status : {"Created"}, phase : Phases]
    BY <2>3 DEF Threads
  <2>5. meta'[j].status = "Created"
    BY <2>2, <2>4
  <2>. QED  BY <2>1, <2>3, <2>5 DEF NoThread
<1>5. CASE FinalAnswer(j)
  BY <1>0, <1>5 DEF FinalAnswer, threadVars
<1>6. CASE StepFails(j)
  BY <1>0, <1>6 DEF StepFails, threadVars
<1>7. CASE CallTool(j)
  BY <1>0, <1>7 DEF CallTool, threadVars
<1>8. CASE ToolReturns(j)
  BY <1>0, <1>8 DEF ToolReturns, threadVars
<1>9. CASE RecordResult(j)
  BY <1>0, <1>9 DEF RecordResult, threadVars
<1>10. CASE CleanUp(j)
  BY <1>0, <1>10 DEF CleanUp, threadVars
<1>11. CASE Collect(j)
  BY <1>0, <1>11 DEF Collect, executorVars, threadVars
<1>12. CASE CollectorEnds(j)
  BY <1>0, <1>12 DEF CollectorEnds, executorVars, threadVars
<1>. QED  BY <1>1, <1>2, <1>3, <1>4, <1>5, <1>6, <1>7, <1>8, <1>9, <1>10, <1>11, <1>12
       DEF JobMove, ExecutorStep, CollectorStep

LEMMA PreparedStep == TypeInv /\ [Next]_vars => (NothingEarly /\ Prepared /\ Equipped)'
<1>. SUFFICES ASSUME TypeInv, [Next]_vars  PROVE (NothingEarly /\ Prepared /\ Equipped)'
  OBVIOUS
<1>. DEFINE Early(k) == /\ NotYet(k)' => exec'[k] = "none"
                        /\ exec'[k] # "none" => meta'[k] # NoThread
                        /\ exec'[k] \in {"calling", "executing", "succeeded", "unsuccessful"} => todo'[k] >= 1
<1>. DEFINE Ready(q) == rpc'[q] = "spawning" =>
                          /\ exec'[Job(q)'] = "none" /\ meta'[Job(q)'] # NoThread
<1>0. SUFFICES (\A k \in Jobs : Early(k)) /\ (\A q \in Requests : Ready(q))
  BY DEF NothingEarly, Prepared, Equipped
<1>. USE DEF TypeInv, NothingEarly, Prepared, Equipped
<1>1. ASSUME NEW r \in Requests, RequestMove(r)
      PROVE  (\A k \in Jobs : Early(k)) /\ (\A q \in Requests : Ready(q))
  <2>0. ASSUME NEW k \in Jobs, k[1] # r  PROVE Early(k)
    <3>1. k # Job(r) /\ k[1] \in Requests
      BY <2>0, JobPair DEF Job
    <3>. QED  BY <1>1, <2>0, <3>1, RequestFrame DEF SameRequest, SameJob, NotYet
  <2>a. ASSUME NEW q \in Requests, q # r  PROVE Ready(q)
    <3>1. SUFFICES ASSUME rpc'[q] = "spawning"  PROVE Ready(q)
      OBVIOUS
    <3>2. rpc[q] = "spawning" /\ current'[q] = current[q]
      BY <1>1, <2>a, <3>1, RequestFrame DEF SameRequest
    <3>3. Job(q) \in Jobs /\ Job(q)' = Job(q) /\ Job(q) # Job(r)
      BY <2>a, <3>2, CurrentJob DEF InProcess, Job
    <3>. QED  BY <1>1, <3>2, <3>3, RequestFrame DEF SameJob
  <2>. DEFINE Mine == (\A k \in Jobs : k[1] = r => Early(k)) /\ Ready(r)
  <2>b. SUFFICES Mine
    BY <2>0, <2>a
  <2>c. \A k \in Jobs : k[1] \in Requests /\ k[2] \in 1..MaxProcesses /\ k = <<k[1], k[2]>>
    BY JobPair
  <2>d. MaxProcesses \in Nat /\ size[r] \in 0..MaxProcesses /\ current[r] \in 0..MaxProcesses
    BY ConstantsAssumption DEF TypeOK
  <2>1. CASE Receive(r)
    BY <2>c, <2>d, <2>1
       DEF Receive, Goto, NotYet, TypeOK, hostVars, threadVars, executorVars, collectorVars
  <2>2. CASE GenerateFails(r)
    BY <2>c, <2>d, <2>2
       DEF GenerateFails, Goto, NotYet, TypeOK, hostVars, threadVars, executorVars,
           collectorVars
  <2>3. CASE Generate(r)
    <3>1. current[r] = 0 /\ rpc'[r] # "spawning"
      BY <2>3 DEF Generate, Numbered, TypeOK
    <3>2. \A k \in Jobs : exec'[k] = exec[k] /\ meta'[k] = meta[k] /\ todo'[k] = todo[k]
      BY <2>3 DEF Generate, hostVars, threadVars, executorVars, collectorVars
    <3>. QED  BY <2>c, <2>d, <3>1, <3>2 DEF NotYet
  <2>4. CASE CreateProcess(r)
    BY <2>c, <2>d, <2>4
       DEF CreateProcess, Goto, NotYet, TypeOK, hostVars, threadVars, executorVars,
           collectorVars
  <2>5. CASE CreateThread(r)
    <3>1. Job(r) \in Jobs /\ Job(r)' = Job(r) /\ Job(r)[1] = r /\ Job(r)[2] = current[r]
      BY <2>5, CurrentJob DEF CreateThread, Goto, InProcess, Job
    <3>2. \A k \in Jobs : k[1] = r /\ k # Job(r) => k[2] # current[r]
      BY <2>c DEF Job
    <3>. QED  BY <2>c, <2>d, <2>5, <3>1, <3>2, SMTT(20)
           DEF CreateThread, Goto, NotYet, TypeOK, NewThread, NoThread, executorVars
  <2>6. CASE SpawnExecutor(r)
    <3>1. Job(r) \in Jobs /\ Job(r)' = Job(r) /\ Job(r)[1] = r /\ Job(r)[2] = current[r]
      BY <2>6, CurrentJob DEF SpawnExecutor, Goto, InProcess, Job
    <3>2. \A k \in Jobs : k[1] = r /\ k # Job(r) => k[2] # current[r]
      BY <2>c DEF Job
    <3>3. /\ rpc[r] = "spawning" /\ rpc'[r] = "inserting" /\ current'[r] = current[r]
          /\ meta' = meta /\ todo' = todo
          /\ exec'[Job(r)] = "looping" /\ \A k \in Jobs : k # Job(r) => exec'[k] = exec[k]
      BY <2>6, <3>1 DEF SpawnExecutor, Goto, TypeOK, threadVars
    <3>4. ASSUME NEW k \in Jobs, k = Job(r)  PROVE Early(k)
      BY <2>d, <3>1, <3>3, <3>4 DEF NotYet
    <3>5. ASSUME NEW k \in Jobs, k[1] = r, k # Job(r)  PROVE Early(k)
      BY <2>c, <3>2, <3>3, <3>5 DEF NotYet
    <3>6. Ready(r)
      BY <3>3
    <3>. QED  BY <3>4, <3>5, <3>6
  <2>7. CASE InsertHandle(r)
    BY <2>c, <2>d, <2>7
       DEF InsertHandle, Goto, NotYet, TypeOK, hostVars, threadVars, executorVars, collectorVars
  <2>8. CASE MarkThread(r)
    BY <2>c, <2>d, <2>8
       DEF MarkThread, Goto, NotYet, TypeOK, hostVars, threadVars, executorVars, collectorVars
  <2>9. CASE WaitEnds(r)
    BY <2>c, <2>d, <2>9
       DEF WaitEnds, Goto, NotYet, TypeOK, hostVars, threadVars, executorVars, collectorVars
  <2>10. CASE JoinCollector(r)
    BY <2>c, <2>d, <2>10
       DEF JoinCollector, Goto, NotYet, TypeOK, hostVars, threadVars, executorVars,
           collectorVars
  <2>11. CASE ReadResults(r)
    <3>1. PICK result \in Results : Conclude(r, result)
      BY <2>11, ConcludedWith DEF ConcludesNow
    <3>2. \A k \in Jobs : exec'[k] = exec[k] /\ meta'[k] = meta[k] /\ todo'[k] = todo[k]
      BY <2>11 DEF ReadResults, hostVars, threadVars, executorVars, collectorVars
    <3>3. rpc[r] \in InProcess
      BY <2>11 DEF ReadResults, InProcess
    <3>4. rpc'[r] \in {"creating", "responding"} /\ (rpc'[r] = "creating" => current'[r] = current[r] + 1)
          /\ (rpc'[r] = "responding" => current'[r] = current[r])
      BY <2>d, <3>1 DEF Conclude, TypeOK
    <3>. QED  BY <2>c, <2>d, <3>2, <3>3, <3>4 DEF NotYet
  <2>12. CASE ExecuteProcessFails(r)
    <3>1. PICK result \in Results : Conclude(r, result)
      BY <2>12, ConcludedWith DEF ConcludesNow
    <3>2. \A k \in Jobs : exec'[k] = exec[k] /\ meta'[k] = meta[k] /\ todo'[k] = todo[k]
      BY <2>12 DEF ExecuteProcessFails, hostVars, threadVars, executorVars, collectorVars
    <3>3. rpc[r] \in InProcess
      BY <2>12 DEF ExecuteProcessFails, InProcess
    <3>4. rpc'[r] \in {"creating", "responding"} /\ (rpc'[r] = "creating" => current'[r] = current[r] + 1)
          /\ (rpc'[r] = "responding" => current'[r] = current[r])
      BY <2>d, <3>1 DEF Conclude, TypeOK
    <3>. QED  BY <2>c, <2>d, <3>2, <3>3, <3>4 DEF NotYet
  <2>13. CASE Respond(r)
    BY <2>c, <2>d, <2>13
       DEF Respond, Goto, NotYet, TypeOK, hostVars, threadVars, executorVars, collectorVars
  <2>14. CASE Send(r)
    BY <2>c, <2>d, <2>14
       DEF Send, Goto, NotYet, TypeOK, hostVars, threadVars, executorVars, collectorVars
  <2>15. CASE Disconnect(r)
    BY <2>c, <2>d, <2>15
       DEF Disconnect, Goto, NotYet, TypeOK, hostVars, threadVars, executorVars, collectorVars
  <2>. HIDE DEF Mine
  <2>. QED  BY <1>1, <2>1, <2>2, <2>3, <2>4, <2>5, <2>6, <2>7, <2>8, <2>9, <2>10, <2>11, <2>12, <2>13,
         <2>14, <2>15
         DEF RequestMove, RequestStep
<1>2. ASSUME NEW j \in Jobs, JobMove(j)
      PROVE  (\A k \in Jobs : Early(k)) /\ (\A q \in Requests : Ready(q))
  <2>1. UNCHANGED requestVars /\ \A k \in Jobs : k # j => SameJob(k)
    BY <1>2, JobFrame
  <2>2. ASSUME NEW k \in Jobs, k # j  PROVE Early(k)
    BY <2>1, <2>2 DEF SameJob, NotYet, requestVars
  <2>4. JobKept(j)
    BY <1>2, JobKeeps
  <2>5. Early(j)
    BY <2>1, <2>4 DEF JobKept, NotYet, requestVars
  <2>6. ASSUME NEW q \in Requests  PROVE Ready(q)
    <3>1. SUFFICES ASSUME rpc'[q] = "spawning"  PROVE Ready(q)
      OBVIOUS
    <3>2. rpc[q] = "spawning" /\ Job(q)' = Job(q)
      BY <2>1, <3>1 DEF requestVars, Job
    <3>3. Job(q) \in Jobs
      BY <3>2, CurrentJob DEF InProcess
    <3>4. CASE Job(q) = j
      BY <2>4, <3>2, <3>3, <3>4 DEF JobKept
    <3>5. CASE Job(q) # j
      BY <2>1, <3>2, <3>3, <3>5 DEF SameJob
    <3>. QED  BY <3>4, <3>5
  <2>. QED  BY <2>2, <2>5, <2>6
<1>3. CASE UNCHANGED vars
  <2>1. \A q \in Requests : Job(q)' = Job(q)
    BY <1>3 DEF Job, vars, requestVars
  <2>. QED  BY <1>3, <2>1
         DEF vars, requestVars, hostVars, threadVars, executorVars, collectorVars, NotYet
<1>. HIDE DEF Early, Ready
<1>. QED  BY <1>1, <1>2, <1>3, StepOfSomebody
LEMMA TypeInvariant == Spec => []TypeInv
<1>1. TypeInv /\ [Next]_vars => TypeInv'
  BY TypesStep, NumberedStep, PreparedStep DEF TypeInv
<1>. QED  BY InitialTypes, <1>1, PTL DEF Spec

\* The variables of a call, of its processes and of their executors keep their
\* form: execute_ir's index stays within the bound on processes, no executor
\* takes more than max_steps steps and no event channel holds more events than
\* its capacity.
THEOREM PipelineTypeCorrect == Spec => []TypeOK
<1>1. TypeInv => TypeOK
  BY DEF TypeInv
<1>. QED  BY TypeInvariant, <1>1, PTL
-----------------------------------------------------------------------------
(* Who hears whom *)

LEMMA RequestOnJob ==
  ASSUME TypeInv, NEW r \in Requests, RequestMove(r), NEW k \in Jobs
  PROVE  SameJob(k) \/ (k = Job(r) /\ (CreateThread(r) \/ SpawnExecutor(r) \/ ReadResults(r)))
<1>. DEFINE Goal == SameJob(k) \/ (k = Job(r) /\ (CreateThread(r) \/ SpawnExecutor(r) \/ ReadResults(r)))
<1>. SUFFICES Goal
  OBVIOUS
<1>a. k # Job(r) => SameJob(k)
  BY RequestFrame
<1>1. CASE Receive(r)
  BY <1>1 DEF Receive, SameJob, hostVars, threadVars, executorVars, collectorVars
<1>2. CASE GenerateFails(r)
  BY <1>2 DEF GenerateFails, SameJob, hostVars, threadVars, executorVars, collectorVars
<1>3. CASE Generate(r)
  BY <1>3 DEF Generate, SameJob, hostVars, threadVars, executorVars, collectorVars
<1>4. CASE CreateProcess(r)
  BY <1>4 DEF CreateProcess, SameJob, hostVars, threadVars, executorVars, collectorVars
<1>5. CASE CreateThread(r)
  BY <1>a, <1>5
<1>6. CASE SpawnExecutor(r)
  BY <1>a, <1>6
<1>7. CASE InsertHandle(r)
  BY <1>7 DEF InsertHandle, SameJob, hostVars, threadVars, executorVars, collectorVars
<1>8. CASE MarkThread(r)
  BY <1>8 DEF MarkThread, SameJob, threadVars, executorVars, collectorVars
<1>9. CASE WaitEnds(r)
  BY <1>9 DEF WaitEnds, SameJob, hostVars, threadVars, executorVars, collectorVars
<1>10. CASE JoinCollector(r)
  BY <1>10 DEF JoinCollector, SameJob, hostVars, threadVars, executorVars, collectorVars
<1>11. CASE ReadResults(r)
  BY <1>a, <1>11
<1>12. CASE ExecuteProcessFails(r)
  BY <1>12 DEF ExecuteProcessFails, SameJob, hostVars, threadVars, executorVars, collectorVars
<1>13. CASE Respond(r)
  BY <1>13 DEF Respond, SameJob, hostVars, threadVars, executorVars, collectorVars
<1>14. CASE Send(r)
  BY <1>14 DEF Send, SameJob, hostVars, threadVars, executorVars, collectorVars
<1>15. CASE Disconnect(r)
  BY <1>15 DEF Disconnect, SameJob, hostVars, threadVars, executorVars, collectorVars
<1>. HIDE DEF Goal
<1>. QED  BY <1>1, <1>2, <1>3, <1>4, <1>5, <1>6, <1>7, <1>8, <1>9, <1>10, <1>11, <1>12, <1>13, <1>14,
       <1>15
       DEF RequestMove, RequestStep

LEMMA Sending ==
  ASSUME TypeInv, NEW j \in Jobs, Attended(j), exec[j] \in Running,
         NEW event \in LogEntries \cup {"completed"}, SendEvent(j, event)
  PROVE  /\ channel' = [channel EXCEPT ![j] = Append(@, event)]
         /\ collector[j] = "receiving" /\ j \notin completed /\ ~Sent(j, "completed")
         /\ Sent(j, "completed")' => event = "completed"
<1>1. collector[j] = "receiving" /\ j \notin completed /\ ~Sent(j, "completed")
  BY DEF Attended, Heard, Final, Running
<1>2. channel' = [channel EXCEPT ![j] = Append(@, event)]
  BY <1>1 DEF SendEvent
<1>3. channel[j] \in Seq(LogEntries \cup {"completed"}) /\ channel'[j] = Append(channel[j], event)
  BY <1>2 DEF TypeInv, TypeOK
<1>4. Sent(j, "completed")' => event = "completed"
  <2>1. SUFFICES ASSUME NEW i \in 1..Len(channel'[j]), channel'[j][i] = "completed"
                 PROVE  event = "completed"
    BY DEF Sent
  <2>2. i \in 1..Len(channel[j]) => channel'[j][i] = channel[j][i]
    BY <1>3
  <2>3. i \notin 1..Len(channel[j]) => channel'[j][i] = event
    BY <1>3
  <2>. QED  BY <1>1, <2>1, <2>2, <2>3 DEF Sent
<1>. QED  BY <1>1, <1>2, <1>4

\* Receiving brings no event back.
LEMMA SentEarlier ==
  ASSUME TypeInv, NEW j \in Jobs, channel[j] # <<>>, channel' = [channel EXCEPT ![j] = Tail(@)],
         NEW event, Sent(j, event)'
  PROVE  Sent(j, event)
<1>1. /\ Len(channel'[j]) = Len(channel[j]) - 1 /\ Len(channel[j]) \in Nat
      /\ \A i \in 1..Len(channel'[j]) : channel'[j][i] = channel[j][i + 1]
  BY DEF TypeInv, TypeOK
<1>2. PICK i \in 1..Len(channel'[j]) : channel'[j][i] = event
  BY DEF Sent
<1>3. i + 1 \in 1..Len(channel[j]) /\ channel[j][i + 1] = event
  BY <1>1, <1>2
<1>. QED  BY <1>3 DEF Sent

LEMMA JobAttended ==
  ASSUME TypeInv, NEW j \in Jobs, Attended(j), JobMove(j)
  PROVE  Attended(j)'
<1>. DEFINE Goal == Attended(j)'
<1>. SUFFICES Goal
  OBVIOUS
<1>. USE DEF TypeInv, TypeOK, At, LeaveLoop, Running
<1>1. CASE NextStep(j)
  <2>1. ~Sent(j, "completed")' \/ exec'[j] = "ended"
    BY <1>1 DEF NextStep, Attended, Final, Sent
  <2>. QED  BY <1>1, <2>1
         DEF NextStep, Attended, Heard, Unheard, Drained, Final, threadVars, collectorVars
<1>2. CASE StepLimit(j)
  <2>1. collector[j] = "receiving" /\ j \notin completed
    BY <1>2 DEF StepLimit, Attended, Heard, Final
  <2>. QED  BY <1>2, <2>1 DEF StepLimit, Attended, Heard, Unheard, Drained, Final, collectorVars
<1>3. CASE ToolCalls(j)
  <2>1. ~Sent(j, "completed")' \/ exec'[j] = "ended"
    BY <1>3 DEF ToolCalls, Attended, Final, Sent
  <2>. QED  BY <1>3, <2>1
         DEF ToolCalls, Attended, Heard, Unheard, Drained, Final, threadVars, collectorVars
<1>4. CASE PhaseTransition(j)
  <2>1. ~Sent(j, "completed")' \/ exec'[j] = "ended"
    BY <1>4 DEF PhaseTransition, Attended, Final, Sent
  <2>. QED  BY <1>4, <2>1
         DEF PhaseTransition, Attended, Heard, Unheard, Drained, Final, threadVars,
             collectorVars
<1>5. CASE FinalAnswer(j)
  <2>1. collector[j] = "receiving" /\ j \notin completed
    BY <1>5 DEF FinalAnswer, Attended, Heard, Final
  <2>. QED  BY <1>5, <2>1 DEF FinalAnswer, Attended, Heard, Unheard, Drained, Final, collectorVars
<1>6. CASE StepFails(j)
  <2>1. ~Sent(j, "completed")' \/ exec'[j] = "ended"
    BY <1>6 DEF StepFails, Attended, Final, Sent
  <2>. QED  BY <1>6, <2>1
         DEF StepFails, Attended, Heard, Unheard, Drained, Final, threadVars, collectorVars
<1>7. CASE CallTool(j)
  <2>1. PICK event \in LogEntries : SendEvent(j, event)
    BY <1>7 DEF CallTool, LogEntries
  <2>2. exec[j] \in Running /\ event # "completed"
    BY <1>7, <2>1 DEF CallTool, LogEntries
  <2>3. collector[j] = "receiving" /\ j \notin completed /\ ~Sent(j, "completed")'
    BY <2>1, <2>2, Sending, SMTT(20)
  <2>. QED  BY <1>7, <2>3 DEF CallTool, Attended, Heard, Unheard, Drained, Final, collectorVars
<1>8. CASE ToolReturns(j)
  <2>1. PICK event \in LogEntries : SendEvent(j, event)
    BY <1>8 DEF ToolReturns, LogEntries
  <2>2. exec[j] \in Running /\ event # "completed"
    BY <1>8, <2>1 DEF ToolReturns, LogEntries
  <2>3. collector[j] = "receiving" /\ j \notin completed /\ ~Sent(j, "completed")'
    BY <2>1, <2>2, Sending, SMTT(20)
  <2>. QED  BY <1>8, <2>3 DEF ToolReturns, Attended, Heard, Unheard, Drained, Final, collectorVars
<1>9. CASE RecordResult(j)
  <2>1. ~Sent(j, "completed")' \/ exec'[j] = "ended"
    BY <1>9 DEF RecordResult, Attended, Final, Sent
  <2>. QED  BY <1>9, <2>1
         DEF RecordResult, Attended, Heard, Unheard, Drained, Final, threadVars, collectorVars
<1>10. CASE CleanUp(j)
  <2>1. ~Sent(j, "completed")' \/ exec'[j] = "ended"
    BY <1>10 DEF CleanUp, Attended, Final, Sent
  <2>. QED  BY <1>10, <2>1
         DEF CleanUp, Attended, Heard, Unheard, Drained, Final, threadVars, collectorVars
<1>11. CASE Collect(j)
  <2>0. exec[j] # "none" /\ exec' = exec
    BY <1>11 DEF Collect, Attended, Unheard, executorVars
  <2>1. CASE Head(channel[j]) = "completed"
    <3>1. Sent(j, "completed")
      BY <1>11, <2>1 DEF Collect, Sent
    <3>. QED  BY <1>11, <2>0, <2>1, <3>1 DEF Collect, Attended, Heard, Unheard, Drained, Final, Sent
  <2>2. CASE Head(channel[j]) # "completed"
    <3>1. channel' = [channel EXCEPT ![j] = Tail(@)] /\ UNCHANGED <<completed, collector>>
      BY <1>11, <2>2 DEF Collect
    <3>2. collector[j] = "receiving" /\ j \notin completed /\ channel[j] # <<>>
      BY <1>11 DEF Collect, Attended, Final
    <3>3. Sent(j, "completed")' => Sent(j, "completed")
      BY <3>1, <3>2, SentEarlier
    <3>. QED  BY <2>0, <3>1, <3>2, <3>3 DEF Attended, Heard, Unheard, Drained, Final
  <2>. QED  BY <2>1, <2>2
<1>12. CASE CollectorEnds(j)
  BY <1>12
     DEF CollectorEnds, SenderAlive, Attended, Heard, Unheard, Drained, Final, Sent,
         executorVars, threadVars
<1>. HIDE DEF Goal
<1>. QED  BY <1>1, <1>2, <1>3, <1>4, <1>5, <1>6, <1>7, <1>8, <1>9, <1>10, <1>11, <1>12
       DEF JobMove, ExecutorStep, CollectorStep

LEMMA CollectorLasts ==
  ASSUME TypeInv, NEW j \in Jobs, JobMove(j)
  PROVE  /\ collector[j] = "ended" => collector'[j] = "ended"
         /\ j \in completed => j \in completed'
         /\ collector'[j] # collector[j] => Collect(j) \/ CollectorEnds(j)
<1>1. CASE Collect(j) \/ CollectorEnds(j)
  BY <1>1 DEF Collect, CollectorEnds
<1>2. ASSUME ExecutorStep(j)  PROVE UNCHANGED collectorVars
  BY <1>2 DEF ExecutorStep, NextStep, StepLimit, ToolCalls, PhaseTransition, FinalAnswer,
     StepFails, CallTool, ToolReturns, RecordResult, CleanUp
<1>. QED  BY <1>1, <1>2 DEF JobMove, CollectorStep, collectorVars

\* The handler that is about to start an executor keeps the channel open.
LEMMA SpawningListens ==
  ASSUME TypeInv, ReceiveInv, NEW q \in Requests, rpc[q] = "spawning",
         NEW j \in Jobs, j = Job(q), JobMove(j)
  PROVE  collector'[j] = "receiving"
<1>1. exec[j] = "none" /\ collector[j] = "receiving" /\ j[1] = q
  BY CurrentJob DEF TypeInv, Prepared, ReceiveInv, Joined, InProcess
<1>2. ~Collect(j)
  BY <1>1 DEF Collect, ReceiveInv, Attended, Unheard
<1>3. ~CollectorEnds(j)
  BY <1>1 DEF CollectorEnds, SenderAlive
<1>. QED  BY <1>1, <1>2, <1>3, CollectorLasts

LEMMA ReceiveStep == TypeInv /\ ReceiveInv /\ [Next]_vars => ReceiveInv'
<1>. SUFFICES ASSUME TypeInv, ReceiveInv, [Next]_vars  PROVE ReceiveInv'
  OBVIOUS
<1>. DEFINE Goal == (\A k \in Jobs : Attended(k)') /\ (\A q \in Requests : Joined(q)')
<1>0. SUFFICES Goal
  BY DEF ReceiveInv
<1>a. ASSUME NEW k \in Jobs, SameJob(k)  PROVE Attended(k)'
  BY <1>a DEF ReceiveInv, SameJob, Attended, Heard, Unheard, Drained, Final, Sent
<1>1. ASSUME NEW r \in Requests, RequestMove(r)  PROVE Goal
  <2>1. ASSUME NEW k \in Jobs  PROVE Attended(k)'
    <3>1. CASE SameJob(k)
      BY <1>a, <3>1
    <3>2. CASE k = Job(r) /\ CreateThread(r)
      <4>1. NotYet(k) /\ exec[k] = "none"
        <5>1. k[1] = r /\ k[2] = current[r] /\ rpc[r] = "threading"
          BY <3>2, CurrentJob DEF CreateThread, Goto, InProcess, TypeInv
        <5>. QED  BY <5>1 DEF NotYet, NothingEarly, TypeInv
      <4>2. /\ exec' = exec /\ channel' = channel /\ log' = log /\ completed' = completed
            /\ eventLog' = eventLog /\ collector'[k] = "receiving"
        BY <3>2 DEF CreateThread, TypeInv, TypeOK, executorVars
      <4>. QED  BY <4>1, <4>2
             DEF ReceiveInv, Attended, Heard, Unheard, Drained, Final, Sent, Running
    <3>3. CASE k = Job(r) /\ SpawnExecutor(r)
      <4>1. exec[k] = "none" /\ collector[k] = "receiving"
        BY <3>3 DEF SpawnExecutor, Goto, TypeInv, Prepared, ReceiveInv, Joined
      <4>2. channel[k] = <<>> /\ k \notin completed
        BY <4>1 DEF ReceiveInv, Attended, Unheard
      <4>3. /\ exec'[k] = "looping" /\ channel' = channel /\ completed' = completed
            /\ collector' = collector
        BY <3>3 DEF SpawnExecutor, TypeInv, TypeOK, collectorVars
      <4>. QED  BY <4>1, <4>2, <4>3 DEF Attended, Heard, Unheard, Drained, Final, Sent
    <3>4. CASE k = Job(r) /\ ReadResults(r)
      <4>1. /\ exec' = exec /\ channel' = channel /\ completed' = completed
            /\ collector' = collector /\ eventLog' = eventLog /\ log'[k] = <<>>
        BY <3>4 DEF ReadResults, TypeInv, TypeOK, executorVars, threadVars
      <4>. QED  BY <4>1 DEF ReceiveInv, Attended, Heard, Unheard, Drained, Final, Sent
    <3>. QED  BY <1>1, <3>1, <3>2, <3>3, <3>4, RequestOnJob
  <2>2. ASSUME NEW q \in Requests, q # r  PROVE Joined(q)'
    <3>1. SameRequest(q) /\ Job(q)' = Job(q)
      BY <1>1, <2>2, RequestFrame DEF SameRequest, Job
    <3>2. CASE rpc[q] \in InProcess
      <4>1. Job(q) \in Jobs /\ Job(q) # Job(r)
        BY <2>2, <3>2, CurrentJob DEF Job, TypeInv
      <4>2. SameJob(Job(q))
        BY <1>1, <4>1, RequestFrame
      <4>. QED  BY <3>1, <4>2 DEF SameJob, SameRequest, ReceiveInv, Joined
    <3>3. CASE rpc[q] \notin InProcess
      BY <3>1, <3>3 DEF SameRequest, InProcess, Joined
    <3>. QED  BY <3>2, <3>3
  <2>3. Joined(r)'
    <3>1. CASE rpc'[r] \notin {"spawning", "joining", "reading"}
      BY <3>1 DEF Joined
    <3>2. CASE CreateThread(r)
      <4>1. Job(r) \in Jobs /\ Job(r)' = Job(r) /\ rpc'[r] = "spawning"
        BY <3>2, CurrentJob DEF CreateThread, Goto, InProcess, Job, TypeInv, TypeOK
      <4>2. collector'[Job(r)] = "receiving"
        BY <3>2, <4>1 DEF CreateThread, TypeInv, TypeOK
      <4>. QED  BY <4>1, <4>2 DEF Joined
    <3>3. CASE WaitEnds(r)
      <4>1. Job(r)' = Job(r) /\ rpc'[r] = "joining" /\ completed' = completed
        BY <3>3 DEF WaitEnds, Goto, Job, TypeInv, TypeOK, collectorVars
      <4>2. waited'[r] = "completed" => Job(r) \in completed
        BY <3>3 DEF WaitEnds, TypeInv, TypeOK
      <4>. QED  BY <4>1, <4>2 DEF Joined
    <3>4. CASE JoinCollector(r)
      <4>1. /\ Job(r)' = Job(r) /\ rpc[r] = "joining" /\ rpc'[r] = "reading"
            /\ waited' = waited /\ completed' = completed /\ collector' = collector
            /\ collector[Job(r)] = "ended"
        BY <3>4 DEF JoinCollector, Goto, Job, TypeInv, TypeOK, collectorVars
      <4>. QED  BY <4>1 DEF Joined, ReceiveInv
    <3>5. rpc'[r] \notin {"spawning", "joining", "reading"} \/ CreateThread(r)
            \/ WaitEnds(r) \/ JoinCollector(r)
      <4>. USE DEF Goto, TypeInv, TypeOK
      <4>1. CASE ReadResults(r) \/ ExecuteProcessFails(r)
        BY <4>1 DEF ReadResults, ExecuteProcessFails, Conclude
      <4>2. CASE Receive(r) \/ GenerateFails(r) \/ Generate(r) \/ CreateProcess(r) \/ Disconnect(r)
        BY <4>2 DEF Receive, GenerateFails, Generate, CreateProcess, Disconnect
      <4>3. CASE SpawnExecutor(r) \/ InsertHandle(r) \/ MarkThread(r) \/ Respond(r) \/ Send(r)
        BY <4>3 DEF SpawnExecutor, InsertHandle, MarkThread, Respond, Send
      <4>. QED  BY <1>1, <4>1, <4>2, <4>3 DEF RequestMove, RequestStep
    <3>. QED  BY <3>1, <3>2, <3>3, <3>4, <3>5
  <2>. QED  BY <2>1, <2>2, <2>3
<1>2. ASSUME NEW j \in Jobs, JobMove(j)  PROVE Goal
  <2>1. UNCHANGED requestVars /\ \A k \in Jobs : k # j => SameJob(k)
    BY <1>2, JobFrame
  <2>2. ASSUME NEW k \in Jobs  PROVE Attended(k)'
    <3>1. CASE k = j
      BY <1>2, <3>1, JobAttended DEF ReceiveInv
    <3>2. CASE k # j
      BY <1>a, <2>1, <3>2
    <3>. QED  BY <3>1, <3>2
  <2>3. ASSUME NEW q \in Requests  PROVE Joined(q)'
    <3>1. rpc' = rpc /\ waited' = waited /\ Job(q)' = Job(q)
      BY <2>1 DEF requestVars, Job
    <3>2. CASE rpc[q] \notin InProcess
      BY <3>1, <3>2 DEF InProcess, Joined
    <3>3. CASE rpc[q] \in InProcess /\ Job(q) # j
      <4>1. SameJob(Job(q))
        BY <2>1, <3>3, CurrentJob DEF TypeInv
      <4>. QED  BY <3>1, <4>1 DEF SameJob, ReceiveInv, Joined
    <3>4. CASE rpc[q] \in InProcess /\ Job(q) = j
      <4>1. /\ collector[j] = "ended" => collector'[j] = "ended"
            /\ j \in completed => j \in completed'
        BY <1>2, CollectorLasts
      <4>2. rpc[q] = "spawning" => collector'[j] = "receiving"
        BY <1>2, <3>4, SpawningListens
      <4>. QED  BY <3>1, <3>4, <4>1, <4>2 DEF ReceiveInv, Joined
    <3>. QED  BY <3>2, <3>3, <3>4
  <2>. QED  BY <2>2, <2>3
<1>3. CASE UNCHANGED vars
  <2>1. \A q \in Requests : Job(q)' = Job(q)
    BY <1>3 DEF vars, requestVars, Job
  <2>. QED  BY <1>3, <2>1
         DEF vars, requestVars, executorVars, threadVars, collectorVars, ReceiveInv,
              Joined, Attended, Heard, Unheard, Drained, Final, Sent
<1>. HIDE DEF Goal
<1>. QED  BY <1>1, <1>2, <1>3, StepOfSomebody

LEMMA ReceiveInvariant == Spec => [](TypeInv /\ ReceiveInv)
<1>1. Init => TypeInv /\ ReceiveInv
  <2>1. Init => ReceiveInv
    BY DEF Init, ReceiveInv, Joined, Attended, Heard, Unheard, Drained, Final, Sent, Running
  <2>. QED  BY <2>1, InitialTypes
<1>2. (TypeInv /\ ReceiveInv) /\ [Next]_vars => (TypeInv /\ ReceiveInv)'
  BY ReceiveStep, TypesStep, NumberedStep, PreparedStep DEF TypeInv
<1>. QED  BY <1>1, <1>2, PTL DEF Spec

-----------------------------------------------------------------------------
(* One process at a time *)

\* The result of a process that was waited for.
Report(r) == [outcome |-> IF waited[r] = "completed" THEN "success" ELSE "failed",
              log |-> log[Job(r)],
              artifacts |-> Artifacts(eventLog[Job(r)])]

Concluded(r, result) == results'[r] = Append(results[r], result)

LEMMA ResultsGrow ==
  ASSUME TypeInv, NEW r \in Requests, RequestMove(r)
  PROVE  \/ results'[r] = results[r]
         \/ ExecuteProcessFails(r) /\ Concluded(r, ErrorResult)
         \/ ReadResults(r) /\ Concluded(r, Report(r))
<1>. USE DEF TypeInv, TypeOK, Concluded
<1>1. CASE ReadResults(r)
  BY <1>1 DEF ReadResults, Conclude, Report
<1>2. CASE ExecuteProcessFails(r)
  BY <1>2 DEF ExecuteProcessFails, Conclude
<1>3. CASE Receive(r) \/ GenerateFails(r) \/ Generate(r) \/ CreateProcess(r) \/ CreateThread(r)
  BY <1>3 DEF Receive, GenerateFails, Generate, CreateProcess, CreateThread
<1>4. CASE SpawnExecutor(r) \/ InsertHandle(r) \/ MarkThread(r) \/ WaitEnds(r) \/ JoinCollector(r)
  BY <1>4 DEF SpawnExecutor, InsertHandle, MarkThread, WaitEnds, JoinCollector
<1>5. CASE Respond(r) \/ Send(r) \/ Disconnect(r)
  BY <1>5 DEF Respond, Send, Disconnect
<1>. QED  BY <1>1, <1>2, <1>3, <1>4, <1>5 DEF RequestMove, RequestStep

\* No executor starts again, and nobody else writes to its thread's files.
LEMMA ExecutorStopped ==
  ASSUME TypeInv, NEW j \in Jobs, JobMove(j), exec[j] \notin Running
  PROVE  exec'[j] \notin Running /\ eventLog'[j] = eventLog[j]
<1>. USE DEF TypeInv, TypeOK, Running
<1>1. CASE Collect(j) \/ CollectorEnds(j)
  BY <1>1 DEF Collect, CollectorEnds, executorVars, threadVars
<1>2. CASE CleanUp(j)
  BY <1>2 DEF CleanUp, At, threadVars
<1>3. ~(NextStep(j) \/ StepLimit(j) \/ ToolCalls(j) \/ PhaseTransition(j) \/ FinalAnswer(j))
  BY DEF NextStep, StepLimit, ToolCalls, PhaseTransition, FinalAnswer, At
<1>4. ~(StepFails(j) \/ CallTool(j) \/ ToolReturns(j) \/ RecordResult(j))
  BY DEF StepFails, CallTool, ToolReturns, RecordResult, At
<1>. QED  BY <1>1, <1>2, <1>3, <1>4 DEF JobMove, ExecutorStep, CollectorStep

\* A report is given for a process whose executor has stopped.
LEMMA ReportedStopped ==
  ASSUME TypeInv, ReceiveInv, NEW r \in Requests, ReadResults(r)
  PROVE  /\ Job(r) \in Jobs /\ Job(r) = <<r, Len(results[r]) + 1>>
         /\ collector[Job(r)] = "ended" /\ exec[Job(r)] \notin Running
         /\ channel[Job(r)] = <<>>
         /\ waited[r] = "completed" => Job(r) \in completed
<1>1. rpc[r] = "reading" /\ Job(r) \in Jobs /\ Len(results[r]) + 1 = current[r]
  BY CurrentJob DEF ReadResults, InProcess, TypeInv
<1>2. collector[Job(r)] = "ended" /\ (waited[r] = "completed" => Job(r) \in completed)
  BY <1>1 DEF ReceiveInv, Joined
<1>. QED  BY <1>1, <1>2 DEF ReceiveInv, Attended, Heard, Drained, Job

\* A result that was pushed stays, and so does its process's place.
LEMMA PastResult ==
  ASSUME TypeInv, NEW r \in Requests, NEW result, Concluded(r, result),
         Job(r) = <<r, Len(results[r]) + 1>>, NEW k \in 1..Len(results'[r])
  PROVE  \/ k \in 1..Len(results[r]) /\ results'[r][k] = results[r][k] /\ <<r, k>> # Job(r)
         \/ <<r, k>> = Job(r) /\ results'[r][k] = result
<1>1. results[r] \in Seq(Results) /\ Len(results[r]) \in Nat
  BY DEF TypeInv, TypeOK
<1>. QED  BY <1>1 DEF Concluded

\* A result belongs to a process of its request.
LEMMA ResultJob ==
  ASSUME TypeInv, NEW r \in Requests, NEW k \in 1..Len(results[r])
  PROVE  <<r, k>> \in Jobs /\ (rpc[r] \in InProcess => <<r, k>> # Job(r))
<1>1. Len(results[r]) <= size[r] /\ size[r] \in 0..MaxProcesses /\ Len(results[r]) \in Nat
  BY DEF TypeInv, TypeOK, Numbered
<1>2. k \in 1..MaxProcesses
  BY <1>1, ConstantsAssumption
<1>. QED  BY <1>1, <1>2, CurrentJob DEF Jobs, Job, TypeInv

LEMMA SerialStep ==
  TypeInv /\ ReceiveInv /\ OneProcessAtATime /\ [Next]_vars => OneProcessAtATime'
<1>. SUFFICES ASSUME TypeInv, ReceiveInv, OneProcessAtATime, [Next]_vars,
                     NEW q \in Requests, NEW k \in 1..Len(results'[q]), exec'[<<q, k>>] \in Running
              PROVE  results'[q][k].outcome = "error"
  BY DEF OneProcessAtATime, Working
<1>a. ASSUME results'[q] = results[q], exec[<<q, k>>] \in Running
      PROVE  results'[q][k].outcome = "error"
  BY <1>a DEF OneProcessAtATime, Working
<1>1. ASSUME NEW r \in Requests, RequestMove(r)  PROVE results'[q][k].outcome = "error"
  <2>1. CASE results'[q] = results[q]
    <3>1. <<q, k>> \in Jobs /\ k \in 1..Len(results[q])
      BY <2>1, ResultJob
    <3>2. CASE SameJob(<<q, k>>)
      BY <1>a, <2>1, <3>2 DEF SameJob
    <3>3. CASE <<q, k>> = Job(r) /\ (CreateThread(r) \/ SpawnExecutor(r) \/ ReadResults(r))
      <4>1. q = r /\ rpc[r] \in InProcess
        BY <3>3 DEF Job, CreateThread, SpawnExecutor, ReadResults, Goto, InProcess
      <4>. QED  BY <3>1, <3>3, <4>1, ResultJob
    <3>. QED  BY <1>1, <3>1, <3>2, <3>3, RequestOnJob
  <2>2. CASE results'[q] # results[q]
    <3>1. q = r
      BY <1>1, <2>2, RequestFrame DEF SameRequest
    <3>2. CASE ReadResults(r) /\ Concluded(r, Report(r))
      <4>1. exec' = exec /\ exec[Job(r)] \notin Running /\ Job(r) = <<r, Len(results[r]) + 1>>
        BY <3>2, ReportedStopped DEF ReadResults, executorVars
      <4>2. <<r, k>> # Job(r)
        BY <3>1, <4>1
      <4>3. k \in 1..Len(results[r]) /\ results'[r][k] = results[r][k]
        BY <3>1, <3>2, <4>1, <4>2, PastResult
      <4>. QED  BY <3>1, <4>1, <4>3 DEF OneProcessAtATime, Working
    <3>3. CASE ExecuteProcessFails(r) /\ Concluded(r, ErrorResult)
      <4>1. rpc[r] \in InProcess /\ exec' = exec
        BY <3>3 DEF ExecuteProcessFails, InProcess, executorVars
      <4>2. Job(r) = <<r, Len(results[r]) + 1>>
        BY <4>1, CurrentJob DEF TypeInv, Job
      <4>3. \/ k \in 1..Len(results[r]) /\ results'[r][k] = results[r][k]
            \/ results'[r][k] = ErrorResult
        BY <3>1, <3>3, <4>2, PastResult
      <4>. QED  BY <3>1, <4>1, <4>3 DEF OneProcessAtATime, Working, ErrorResult
    <3>. QED  BY <1>1, <2>2, <3>1, <3>2, <3>3, ResultsGrow
  <2>. QED  BY <2>1, <2>2
<1>2. ASSUME NEW j \in Jobs, JobMove(j)  PROVE results'[q][k].outcome = "error"
  <2>1. results' = results /\ \A i \in Jobs : i # j => SameJob(i)
    BY <1>2, JobFrame DEF requestVars
  <2>2. <<q, k>> \in Jobs
    BY <2>1, ResultJob
  <2>3. exec[<<q, k>>] \in Running
    BY <1>2, <2>1, <2>2, ExecutorStopped DEF SameJob
  <2>. QED  BY <1>a, <2>1, <2>3
<1>3. CASE UNCHANGED vars
  BY <1>3, <1>a DEF vars, requestVars, executorVars
<1>. QED  BY <1>1, <1>2, <1>3, StepOfSomebody

\* execute_ir never has two processes of a request at work: whenever a process
\* has a result other than an error, its executor has left its loop, although
\* the handler only waits for it with a timeout and by way of the collector.
THEOREM ProcessesSerial == Spec => []OneProcessAtATime
<1>1. Init => OneProcessAtATime
  BY DEF Init, OneProcessAtATime
<1>. QED  BY <1>1, ReceiveInvariant, SerialStep, PTL DEF Spec

-----------------------------------------------------------------------------
(* The process manager's copy of a thread *)

CopyCurrent(j) == exec[j] = "ended" /\ faults = 0 => summary[j] = meta[j]

LEMMA CopyAfterRequest ==
  ASSUME TypeInv, SummaryIsCurrent, NEW r \in Requests, RequestMove(r), NEW k \in Jobs
  PROVE  CopyCurrent(k)'
<1>. DEFINE Goal == CopyCurrent(k)'
<1>. SUFFICES Goal
  OBVIOUS
<1>0. faults' = 0 => faults = 0
  <2>1. faults \in Nat
    BY ConstantsAssumption DEF TypeInv, TypeOK
  <2>2. faults' \in Nat /\ faults' >= faults
    BY RequestFrame
  <2>. QED  BY <2>1, <2>2
<1>1. CASE MarkThread(r)
  <2>1. exec' = exec /\ meta' = meta
    BY <1>1 DEF MarkThread, executorVars, threadVars
  <2>2. k = Job(r) => summary'[k] = meta[k]
    BY <1>1 DEF MarkThread, UpdateThreadStatus, TypeInv, TypeOK
  <2>3. k # Job(r) => summary'[k] = summary[k]
    BY <1>1 DEF MarkThread, UpdateThreadStatus, TypeInv, TypeOK
  <2>. QED  BY <1>0, <2>1, <2>2, <2>3 DEF CopyCurrent, SummaryIsCurrent
<1>2. CASE CreateThread(r)
  <2>1. exec' = exec
    BY <1>2 DEF CreateThread, executorVars
  <2>2. k # Job(r) => summary'[k] = summary[k] /\ meta'[k] = meta[k]
    BY <1>2 DEF CreateThread, TypeInv, TypeOK
  <2>3. k = Job(r) => exec[k] = "none"
    <3>1. k = Job(r) => k[1] = r /\ k[2] = current[r] /\ rpc[r] = "threading"
      BY <1>2, CurrentJob DEF CreateThread, Goto, InProcess, TypeInv
    <3>. QED  BY <3>1 DEF NotYet, NothingEarly, TypeInv
  <2>. QED  BY <1>0, <2>1, <2>2, <2>3 DEF CopyCurrent, SummaryIsCurrent
<1>3. CASE SpawnExecutor(r)
  <2>1. summary' = summary /\ meta' = meta /\ (k # Job(r) => exec'[k] = exec[k])
          /\ (k = Job(r) => exec'[k] = "looping")
    BY <1>3 DEF SpawnExecutor, hostVars, threadVars, TypeInv, TypeOK
  <2>. QED  BY <1>0, <2>1 DEF CopyCurrent, SummaryIsCurrent
<1>a. ASSUME exec' = exec, meta' = meta, summary' = summary  PROVE Goal
  BY <1>0, <1>a DEF CopyCurrent, SummaryIsCurrent
<1>4. CASE Receive(r) \/ GenerateFails(r) \/ Generate(r) \/ CreateProcess(r) \/ InsertHandle(r)
  BY <1>4, <1>a DEF Receive, GenerateFails, Generate, CreateProcess, InsertHandle, hostVars,
     executorVars, threadVars
<1>5. CASE WaitEnds(r) \/ JoinCollector(r) \/ ReadResults(r) \/ ExecuteProcessFails(r)
  BY <1>5, <1>a DEF WaitEnds, JoinCollector, ReadResults, ExecuteProcessFails, hostVars,
     executorVars, threadVars
<1>6. CASE Respond(r) \/ Send(r) \/ Disconnect(r)
  BY <1>6, <1>a DEF Respond, Send, Disconnect, hostVars, executorVars, threadVars
<1>. HIDE DEF Goal
<1>. QED  BY <1>1, <1>2, <1>3, <1>4, <1>5, <1>6 DEF RequestMove, RequestStep

LEMMA CopyAfterJob ==
  ASSUME TypeInv, SummaryIsCurrent, NEW j \in Jobs, JobMove(j), NEW k \in Jobs
  PROVE  CopyCurrent(k)'
<1>. DEFINE Goal == CopyCurrent(k)'
<1>. SUFFICES Goal
  OBVIOUS
<1>0. faults' = 0 => faults = 0
  <2>1. faults \in Nat
    BY ConstantsAssumption DEF TypeInv, TypeOK
  <2>2. faults' \in Nat /\ faults' >= faults
    BY JobFrame
  <2>. QED  BY <2>1, <2>2
<1>. USE DEF TypeInv, TypeOK
<1>1. CASE CleanUp(j)
  <2>1. meta' = meta /\ (k # j => exec'[k] = exec[k])
    BY <1>1 DEF CleanUp, At, threadVars
  <2>2. CASE FileFails
    <3>1. faults' # 0
      BY <2>2, ConstantsAssumption DEF FileFails
    <3>. QED  BY <3>1 DEF CopyCurrent
  <2>3. CASE UpdateThreadStatus(j)
    <3>1. (k = j => summary'[k] = meta[k]) /\ (k # j => summary'[k] = summary[k])
      BY <2>3 DEF UpdateThreadStatus
    <3>. QED  BY <1>0, <2>1, <3>1 DEF CopyCurrent, SummaryIsCurrent
  <2>. QED  BY <1>1, <2>2, <2>3 DEF CleanUp
<1>2. CASE PhaseTransition(j)
  <2>1. /\ summary' = summary /\ exec'[j] # "ended"
        /\ k # j => exec'[k] = exec[k] /\ meta'[k] = meta[k]
    BY <1>2 DEF PhaseTransition, At, LeaveLoop, hostVars
  <2>. QED  BY <1>0, <2>1 DEF CopyCurrent, SummaryIsCurrent
<1>a. ASSUME meta' = meta, summary' = summary, \A i \in Jobs : exec'[i] = "ended" => exec[i] = "ended"
      PROVE  Goal
  BY <1>0, <1>a DEF CopyCurrent, SummaryIsCurrent
<1>3. CASE NextStep(j) \/ ToolCalls(j) \/ ToolReturns(j)
  BY <1>3, <1>a, SMTT(20) DEF NextStep, ToolCalls, ToolReturns, At, hostVars, threadVars
<1>4. CASE StepLimit(j) \/ FinalAnswer(j) \/ StepFails(j)
  BY <1>4, <1>a DEF StepLimit, FinalAnswer, StepFails, LeaveLoop, hostVars, threadVars
<1>5. CASE CallTool(j)
  BY <1>5, <1>a DEF CallTool, At, LeaveLoop, hostVars, threadVars
<1>6. CASE RecordResult(j)
  BY <1>6, <1>a DEF RecordResult, LeaveLoop, hostVars
<1>7. CASE Collect(j) \/ CollectorEnds(j)
  BY <1>7, <1>a DEF Collect, CollectorEnds, hostVars, threadVars, executorVars
<1>. HIDE DEF Goal
<1>. QED  BY <1>1, <1>2, <1>3, <1>4, <1>5, <1>6, <1>7 DEF JobMove, ExecutorStep, CollectorStep

LEMMA CopyStep == TypeInv /\ SummaryIsCurrent /\ [Next]_vars => SummaryIsCurrent'
<1>. SUFFICES ASSUME TypeInv, SummaryIsCurrent, [Next]_vars, NEW k \in Jobs
              PROVE  CopyCurrent(k)'
  BY DEF SummaryIsCurrent, CopyCurrent
<1>1. CASE UNCHANGED vars
  BY <1>1 DEF vars, executorVars, threadVars, hostVars, SummaryIsCurrent, CopyCurrent
<1>. QED  BY <1>1, CopyAfterRequest, CopyAfterJob, StepOfSomebody

\* After an executor has ended the process manager has the thread's state as it
\* is on disk, unless a file access failed: whichever of the spawner and the
\* executor's task copies it last, it copies the same.
THEOREM SummariesCurrent == Spec => []SummaryIsCurrent
<1>1. Init => SummaryIsCurrent
  BY DEF Init, SummaryIsCurrent
<1>. QED  BY <1>1, TypeInvariant, CopyStep, PTL DEF Spec
-----------------------------------------------------------------------------
(* Successes of a sequence of events *)

Events == LogEntries \cup {"completed"}
Successes(s) == {i \in DOMAIN s : s[i] = "success"}
Count(event) == IF event = "success" THEN 1 ELSE 0

LEMMA ArtifactsAreSuccesses ==
  ASSUME NEW S, NEW s \in Seq(S)
  PROVE  /\ Artifacts(s) = Cardinality(Successes(s))
         /\ IsFiniteSet(Successes(s))
         /\ Artifacts(s) \in Nat
  BY ArtifactsType DEF Artifacts, Successes

LEMMA ArtifactsEmpty == Artifacts(<<>>) = 0
<1>1. {i \in DOMAIN <<>> : <<>>[i] = "success"} = {}
  OBVIOUS
<1>. QED  BY <1>1, FS_EmptySet DEF Artifacts

LEMMA ArtifactsAppend ==
  ASSUME NEW S, NEW s \in Seq(S), NEW event \in S
  PROVE  Artifacts(Append(s, event)) = Artifacts(s) + Count(event)
<1>1. /\ IsFiniteSet(Successes(s)) /\ Artifacts(s) \in Nat
      /\ Artifacts(s) = Cardinality(Successes(s))
      /\ Artifacts(Append(s, event)) = Cardinality(Successes(Append(s, event)))
  BY ArtifactsAreSuccesses, Append(s, event) \in Seq(S)
<1>2. Len(s) \in Nat /\ DOMAIN s = 1..Len(s) /\ DOMAIN Append(s, event) = 1..(Len(s) + 1)
  OBVIOUS
<1>3. /\ \A i \in 1..Len(s) : Append(s, event)[i] = s[i]
      /\ Append(s, event)[Len(s) + 1] = event
  OBVIOUS
<1>4. CASE event = "success"
  <2>1. Successes(Append(s, event)) = Successes(s) \cup {Len(s) + 1}
    BY <1>2, <1>3, <1>4 DEF Successes
  <2>2. Len(s) + 1 \notin Successes(s)
    BY <1>2 DEF Successes
  <2>3. Cardinality(Successes(s) \cup {Len(s) + 1}) = Cardinality(Successes(s)) + 1
    BY <1>1, <2>2, FS_AddElement
  <2>. QED  BY <1>1, <1>4, <2>1, <2>3 DEF Count
<1>5. CASE event # "success"
  <2>1. Successes(Append(s, event)) = Successes(s)
    BY <1>2, <1>3, <1>5 DEF Successes
  <2>. QED  BY <1>1, <1>5, <2>1 DEF Count
<1>. QED  BY <1>4, <1>5

LEMMA ArtifactsTail ==
  ASSUME NEW S, NEW s \in Seq(S), s # <<>>
  PROVE  Artifacts(s) = Artifacts(Tail(s)) + Count(Head(s))
<1>. DEFINE t == Tail(s)
<1>1. /\ Len(s) \in Nat /\ Len(s) >= 1 /\ DOMAIN s = 1..Len(s)
      /\ t \in Seq(S) /\ DOMAIN t = 1..(Len(s) - 1)
      /\ \A i \in 1..(Len(s) - 1) : t[i] = s[i + 1]
  OBVIOUS
<1>2. /\ IsFiniteSet(Successes(s)) /\ Artifacts(s) = Cardinality(Successes(s))
      /\ IsFiniteSet(Successes(t)) /\ Artifacts(t) = Cardinality(Successes(t))
      /\ Artifacts(s) \in Nat /\ Artifacts(t) \in Nat
  <2>1. t \in Seq(S)
    BY <1>1
  <2>. HIDE DEF t
  <2>. QED  BY <2>1, ArtifactsAreSuccesses
<1>. DEFINE next == [i \in Successes(t) |-> i + 1]
<1>3. next \in Bijection(Successes(t), Successes(s) \ {1})
  <2>1. \A i \in Successes(t) : i \in 1..(Len(s) - 1) /\ t[i] = "success"
    BY <1>1 DEF Successes
  <2>2. \A i \in Successes(t) : i + 1 \in Successes(s) \ {1}
    BY <1>1, <2>1 DEF Successes
  <2>3. \A k \in Successes(s) \ {1} : k - 1 \in Successes(t) /\ (k - 1) + 1 = k
    BY <1>1 DEF Successes
  <2>. HIDE DEF t
  <2>4. next \in [Successes(t) -> Successes(s) \ {1}]
    BY <2>2
  <2>5. \A i, k \in Successes(t) : next[i] = next[k] => i = k
    BY <2>1
  <2>6. \A k \in Successes(s) \ {1} : \E i \in Successes(t) : next[i] = k
    BY <2>3
  <2>. QED  BY <2>4, <2>5, <2>6 DEF Bijection, Injection, Surjection, IsInjective
<1>4. Cardinality(Successes(s) \ {1}) = Cardinality(Successes(t))
  BY <1>2, <1>3, FS_Bijection DEF ExistsBijection
<1>5. 1 \in Successes(s) <=> Head(s) = "success"
  BY <1>1 DEF Successes
<1>. HIDE DEF t
<1>6. Cardinality(Successes(s) \ {1}) = Cardinality(Successes(s)) - Count(Head(s))
  <2>1. CASE 1 \in Successes(s)
    <3>1. Cardinality(Successes(s) \ {1}) = Cardinality(Successes(s)) - 1
      BY <1>2, <2>1, FS_RemoveElement
    <3>. QED  BY <1>5, <2>1, <3>1 DEF Count
  <2>2. CASE 1 \notin Successes(s)
    <3>1. Successes(s) \ {1} = Successes(s)
      BY <2>2
    <3>2. Count(Head(s)) = 0
      BY <1>5, <2>2 DEF Count
    <3>3. Cardinality(Successes(s)) \in Nat
      BY <1>2
    <3>4. Cardinality(Successes(s) \ {1}) = Cardinality(Successes(s))
      BY <3>1, Zenon
    <3>. QED  BY <3>2, <3>3, <3>4
  <2>. QED  BY <2>1, <2>2
<1>7. Count(Head(s)) \in {0, 1}
  BY DEF Count
<1>8. Artifacts(s) = Artifacts(t) + Count(Head(s))
  BY <1>2, <1>4, <1>6, <1>7
<1>. QED  BY <1>8 DEF t

LEMMA ArtifactsLast ==
  ASSUME NEW S, NEW s \in Seq(S), s # <<>>, s[Len(s)] # "success", NEW event \in S
  PROVE  Artifacts([s EXCEPT ![Len(s)] = event]) = Artifacts(s) + Count(event)
<1>. DEFINE t == [s EXCEPT ![Len(s)] = event]
<1>1. /\ IsFiniteSet(Successes(s)) /\ Artifacts(s) \in Nat
      /\ Artifacts(s) = Cardinality(Successes(s))
      /\ Artifacts(t) = Cardinality(Successes(t))
  <2>1. t \in Seq(S)
    OBVIOUS
  <2>. HIDE DEF t
  <2>. QED  BY <2>1, ArtifactsAreSuccesses
<1>2. /\ Len(s) \in DOMAIN s /\ DOMAIN t = DOMAIN s /\ t[Len(s)] = event
      /\ \A i \in DOMAIN s : i # Len(s) => t[i] = s[i]
  OBVIOUS
<1>3. Len(s) \notin Successes(s)
  BY DEF Successes
<1>. HIDE DEF t
<1>4. CASE event = "success"
  <2>1. Successes(t) = Successes(s) \cup {Len(s)}
    BY <1>2, <1>4 DEF Successes
  <2>2. Cardinality(Successes(s) \cup {Len(s)}) = Cardinality(Successes(s)) + 1
    BY <1>1, <1>3, FS_AddElement
  <2>3. Artifacts(t) = Artifacts(s) + Count(event)
    BY <1>1, <1>4, <2>1, <2>2 DEF Count
  <2>. QED  BY <2>3 DEF t
<1>5. CASE event # "success"
  <2>1. Successes(t) = Successes(s)
    BY <1>2, <1>3, <1>5 DEF Successes
  <2>2. Artifacts(t) = Artifacts(s) + Count(event)
    BY <1>1, <1>5, <2>1 DEF Count
  <2>. QED  BY <2>2 DEF t
<1>. QED  BY <1>4, <1>5

-----------------------------------------------------------------------------
(* What sending and receiving do to the order of events *)

LEMMA SentInOrder ==
  ASSUME NEW events \in Seq(Events), NEW entries \in Seq(LogEntries),
         Alternate(events, entries), \A i \in 1..Len(events) : events[i] # "completed",
         NEW event \in Events, event \in ToolResult <=> CallOpen(events, entries)
  PROVE  /\ Alternate(Append(events, event), entries)
         /\ CallOpen(Append(events, event), entries) <=> event = "executing"
         /\ Artifacts(Append(events, event)) = Artifacts(events) + Count(event)
<1>. DEFINE more == Append(events, event)
<1>1. /\ Len(events) \in Nat /\ Len(more) = Len(events) + 1
      /\ \A i \in 1..Len(events) : more[i] = events[i]
      /\ more[Len(events) + 1] = event /\ more # <<>>
  OBVIOUS
<1>2. Artifacts(more) = Artifacts(events) + Count(event)
  BY ArtifactsAppend
<1>. HIDE DEF more
<1>3. CallOpen(more, entries) <=> event = "executing"
  BY <1>1 DEF CallOpen
<1>4. more[1] \in ToolResult <=> CallOpen(<<>>, entries)
  <2>1. CASE events = <<>>
    BY <1>1, <2>1
  <2>2. CASE events # <<>>
    <3>1. Len(events) >= 1
      BY <2>2
    <3>. QED  BY <1>1, <2>2, <3>1 DEF Alternate
  <2>. QED  BY <2>1, <2>2
<1>5. ASSUME NEW i \in 1..Len(more) - 1
      PROVE  more[i] # "completed" /\ (more[i + 1] \in ToolResult <=> more[i] = "executing")
  <2>1. CASE i = Len(events)
    <3>1. events # <<>>
      BY <1>1, <1>5, <2>1
    <3>. QED  BY <1>1, <1>5, <2>1, <3>1 DEF CallOpen
  <2>2. CASE i # Len(events)
    <3>1. i \in 1..Len(events) - 1 /\ i \in 1..Len(events) /\ i + 1 \in 1..Len(events)
      BY <1>1, <1>5, <2>2
    <3>. QED  BY <1>1, <3>1 DEF Alternate
  <2>. QED  BY <2>1, <2>2
<1>6. Alternate(more, entries)
  BY <1>4, <1>5 DEF Alternate
<1>. QED  BY <1>2, <1>3, <1>6 DEF more

\* The entry that the collector makes of an event.
Noted(entries, event) ==
  IF event = "executing" THEN Append(entries, event)
  ELSE [entries EXCEPT ![Len(entries)] = event]

LEMMA ReceivedInOrder ==
  ASSUME NEW events \in Seq(Events), NEW entries \in Seq(LogEntries), events # <<>>,
         Alternate(events, entries), Head(events) # "completed"
  PROVE  /\ Alternate(Tail(events), Noted(entries, Head(events)))
         /\ CallOpen(Tail(events), Noted(entries, Head(events))) <=> CallOpen(events, entries)
         /\ Artifacts(Tail(events)) + Artifacts(Noted(entries, Head(events)))
              = Artifacts(events) + Artifacts(entries)
<1>. DEFINE rest == Tail(events)
            event == Head(events)
            more == Noted(entries, event)
<1>1. /\ Len(events) \in Nat /\ Len(events) >= 1 /\ Len(rest) = Len(events) - 1
      /\ \A i \in 1..(Len(events) - 1) : rest[i] = events[i + 1]
      /\ event = events[1] /\ event \in Events
      /\ rest # <<>> <=> Len(events) > 1
      /\ Len(entries) \in Nat
  <2>1. Len(events) \in Nat /\ Len(events) >= 1 /\ event = events[1] /\ Len(entries) \in Nat
    OBVIOUS
  <2>2. rest \in Seq(Events) /\ Len(rest) = Len(events) - 1
    BY HeadTailProperties
  <2>3. \A i \in 1..(Len(events) - 1) : rest[i] = events[i + 1]
    BY <2>1
  <2>4. event \in Events
    BY <2>1
  <2>. HIDE DEF rest
  <2>5. rest # <<>> <=> Len(rest) > 0
    BY <2>2
  <2>. QED  BY <2>1, <2>2, <2>3, <2>4, <2>5
<1>2. event \in LogEntries /\ (event # "executing" <=> event \in ToolResult)
  BY <1>1 DEF Events, LogEntries, ToolResult
<1>3. event \in ToolResult <=> CallOpen(<<>>, entries)
  BY <1>1 DEF Alternate
<1>4. /\ Artifacts(events) = Artifacts(rest) + Count(event)
      /\ Artifacts(rest) \in Nat /\ Artifacts(entries) \in Nat
  <2>1. Artifacts(events) = Artifacts(rest) + Count(event)
    BY ArtifactsTail
  <2>2. rest \in Seq(Events)
    OBVIOUS
  <2>3. Artifacts(rest) \in Nat /\ Artifacts(entries) \in Nat
    BY <2>2, ArtifactsType
  <2>. QED  BY <2>1, <2>3
<1>. HIDE DEF rest, event
<1>5. /\ more # <<>> /\ more[Len(more)] = event /\ Len(more) \in Nat
      /\ \A i \in 1..Len(more) - 1 : more[i] # "executing"
      /\ Artifacts(more) = Artifacts(entries) + Count(event)
  <2>1. CASE event = "executing"
    <3>1. more = Append(entries, event)
      BY <2>1 DEF Noted
    <3>2. \A i \in 1..Len(entries) : entries[i] # "executing"
      BY <1>1, <1>2, <1>3, <2>1 DEF CallOpen, Alternate
    <3>3. Artifacts(more) = Artifacts(entries) + Count(event)
      BY <1>2, <3>1, ArtifactsAppend
    <3>4. /\ Len(more) = Len(entries) + 1 /\ more # <<>> /\ more[Len(entries) + 1] = event
          /\ \A i \in 1..Len(entries) : more[i] = entries[i]
      BY <1>2, <3>1
    <3>. QED  BY <1>1, <3>2, <3>3, <3>4
  <2>2. CASE event # "executing"
    <3>1. more = [entries EXCEPT ![Len(entries)] = event]
      BY <2>2 DEF Noted
    <3>2. entries # <<>> /\ entries[Len(entries)] = "executing"
      BY <1>2, <1>3, <2>2 DEF CallOpen
    <3>3. Artifacts(more) = Artifacts(entries) + Count(event)
      BY <1>2, <3>1, <3>2, ArtifactsLast
    <3>4. \A i \in 1..Len(entries) - 1 : entries[i] # "executing"
      BY <1>1 DEF Alternate
    <3>5. Len(more) = Len(entries) /\ more # <<>> /\ more[Len(entries)] = event
          /\ \A i \in 1..Len(entries) - 1 : more[i] = entries[i]
      <4>1. PICK n \in Nat : entries \in [1..n -> LogEntries]
        BY SeqDef
      <4>2. n = Len(entries) /\ n >= 1
        BY <3>2, <4>1
      <4>3. more \in [1..n -> LogEntries]
        BY <1>2, <3>1, <4>1
      <4>4. Len(more) = n /\ more # <<>>
        <5>1. DOMAIN more = 1..n /\ more \in Seq(LogEntries)
          BY <4>3, SeqDef
        <5>2. Len(more) = n
          BY <4>2, <5>1, LenProperties
        <5>. QED  BY <4>2, <5>2, <5>1, EmptySeq
      <4>5. \A i \in 1..n : more[i] = IF i = n THEN event ELSE entries[i]
        BY <3>1, <4>1, <4>2
      <4>. HIDE DEF more
      <4>. QED  BY <4>2, <4>4, <4>5
    <3>. QED  BY <1>1, <3>3, <3>4, <3>5
  <2>. QED  BY <2>1, <2>2
<1>. HIDE DEF more
<1>6. CallOpen(<<>>, more) <=> event = "executing"
  BY <1>5 DEF CallOpen
<1>7. CallOpen(rest, more) <=> CallOpen(events, entries)
  <2>1. CASE rest = <<>>
    <3>1. CallOpen(events, entries) <=> event = "executing"
      BY <1>1, <2>1 DEF CallOpen
    <3>. QED  BY <1>6, <2>1, <3>1
  <2>2. CASE rest # <<>>
    <3>1. rest[Len(rest)] = events[Len(events)]
      BY <1>1, <2>2
    <3>. QED  BY <1>1, <2>2, <3>1 DEF CallOpen
  <2>. QED  BY <2>1, <2>2
<1>8. Alternate(rest, more)
  <2>1. \A i \in 1..Len(more) : more[i] = "executing" => i = Len(more)
    BY <1>5
  <2>2. rest # <<>> => (rest[1] \in ToolResult <=> CallOpen(<<>>, more))
    <3>1. SUFFICES ASSUME rest # <<>>  PROVE rest[1] \in ToolResult <=> event = "executing"
      BY <1>6
    <3>2. 1 \in 1..Len(events) - 1 /\ rest[1] = events[1 + 1]
      BY <1>1, <3>1
    <3>. QED  BY <1>1, <3>2 DEF Alternate
  <2>3. ASSUME NEW i \in 1..Len(rest) - 1
        PROVE  rest[i] # "completed" /\ (rest[i + 1] \in ToolResult <=> rest[i] = "executing")
    <3>1. i + 1 \in 1..Len(events) - 1 /\ rest[i] = events[i + 1] /\ rest[i + 1] = events[(i + 1) + 1]
      BY <1>1, <2>3
    <3>. QED  BY <3>1 DEF Alternate
  <2>. QED  BY <2>1, <2>2, <2>3 DEF Alternate
<1>9. Artifacts(rest) + Artifacts(more) = Artifacts(events) + Artifacts(entries)
  BY <1>4, <1>5 DEF Count
<1>. QED  BY <1>7, <1>8, <1>9 DEF rest, more, event
-----------------------------------------------------------------------------
(* The order and the number of the events of a process *)

LEMMA AheadInteger ==
  ASSUME TypeInv, NEW j \in Jobs
  PROVE  /\ channel[j] \in Seq(Events) /\ log[j] \in Seq(LogEntries)
         /\ eventLog[j] \in Seq(ToolResult)
         /\ Artifacts(log[j]) \in Nat /\ Artifacts(channel[j]) \in Nat
         /\ Artifacts(eventLog[j]) \in Nat
<1>1. /\ channel[j] \in Seq(Events) /\ log[j] \in Seq(LogEntries)
      /\ eventLog[j] \in Seq(ToolResult)
  BY DEF TypeInv, TypeOK, Events, ToolResult
<1>. QED  BY <1>1, ArtifactsAreSuccesses

\* A step that neither sends nor receives nor records.
LEMMA QuietStep ==
  ASSUME NEW j \in Jobs, InOrder(j), channel'[j] = channel[j], log'[j] = log[j],
         eventLog'[j] = eventLog[j], j \in completed' <=> j \in completed,
         exec'[j] \in Running =>
           exec[j] \in Running /\ (exec'[j] = "executing" <=> exec[j] = "executing"),
         exec[j] \in {"succeeded", "cleaning", "ended"} =>
           exec'[j] \in {"succeeded", "cleaning", "ended"},
         exec'[j] = "succeeded" => exec[j] = "succeeded"
  PROVE  InOrder(j)' /\ (Counted(j) => Counted(j)')
<1>1. Ahead(j)' = Ahead(j) /\ (Sent(j, "completed")' <=> Sent(j, "completed"))
  BY DEF Ahead, Artifacts, Sent
<1>2. InOrder(j)'
  BY <1>1 DEF InOrder, CallOpen, Alternate
<1>3. Counted(j) => Counted(j)'
  BY <1>1 DEF Counted
<1>. QED  BY <1>2, <1>3

\* A step that sends an event.
LEMMA SendingStep ==
  ASSUME TypeInv, NEW j \in Jobs, Attended(j), InOrder(j), exec[j] \in Running,
         NEW event \in Events, SendEvent(j, event),
         event \in ToolResult <=> exec[j] = "executing",
         log' = log, eventLog' = eventLog, completed' = completed
  PROVE  /\ Alternate(channel'[j], log'[j])
         /\ CallOpen(channel'[j], log'[j]) <=> event = "executing"
         /\ Ahead(j)' = Ahead(j) + Count(event)
         /\ j \notin completed' /\ (Sent(j, "completed")' => event = "completed")
<1>1. /\ channel' = [channel EXCEPT ![j] = Append(@, event)] /\ j \notin completed
      /\ ~Sent(j, "completed") /\ (Sent(j, "completed")' => event = "completed")
  BY Sending DEF Events
<1>2. channel'[j] = Append(channel[j], event)
  BY <1>1 DEF TypeInv, TypeOK
<1>3. /\ Alternate(channel[j], log[j])
      /\ \A i \in 1..Len(channel[j]) : channel[j][i] # "completed"
      /\ event \in ToolResult <=> CallOpen(channel[j], log[j])
  BY <1>1 DEF InOrder, Sent
<1>4. /\ Alternate(channel'[j], log[j])
      /\ CallOpen(channel'[j], log[j]) <=> event = "executing"
      /\ Artifacts(channel'[j]) = Artifacts(channel[j]) + Count(event)
  BY <1>2, <1>3, AheadInteger, SentInOrder, SMTT(20)
<1>5. /\ Artifacts(log[j]) \in Nat /\ Artifacts(channel[j]) \in Nat
      /\ Artifacts(eventLog[j]) \in Nat /\ Count(event) \in Nat
  BY AheadInteger DEF Count
<1>6. Ahead(j)' = Artifacts(log[j]) + Artifacts(channel'[j]) - Artifacts(eventLog[j])
  BY DEF Ahead, Artifacts
<1>7. Ahead(j)' = Ahead(j) + Count(event)
  BY <1>4, <1>5, <1>6 DEF Ahead
<1>. QED  BY <1>1, <1>4, <1>7

\* The end of an executor's run is told when nothing is under way.
LEMMA CompletionSent ==
  ASSUME TypeInv, NEW j \in Jobs, Attended(j), InOrder(j), exec[j] \in {"looping", "thinking"},
         SendEvent(j, "completed"), exec'[j] = "cleaning",
         log' = log, eventLog' = eventLog, completed' = completed
  PROVE  InOrder(j)' /\ (Counted(j) => Counted(j)')
<1>1. /\ Alternate(channel'[j], log'[j]) /\ ~CallOpen(channel'[j], log'[j])
      /\ Ahead(j)' = Ahead(j) + Count("completed")
  BY SendingStep DEF Running, Events, ToolResult
<1>2. InOrder(j)'
  BY <1>1 DEF InOrder, Running
<1>3. Counted(j) => Counted(j)'
  BY <1>1 DEF Counted, Count
<1>. QED  BY <1>2, <1>3

LEMMA ReportAfterExecutor ==
  ASSUME TypeInv, NEW j \in Jobs, Attended(j), InOrder(j), ExecutorStep(j)
  PROVE  InOrder(j)' /\ (Counted(j) => Counted(j)')
<1>. DEFINE Goal == InOrder(j)' /\ (Counted(j) => Counted(j)')
<1>. SUFFICES Goal
  OBVIOUS
<1>1. CASE NextStep(j) \/ ToolCalls(j) \/ StepFails(j) \/ CleanUp(j) \/ PhaseTransition(j)
  <2>1. /\ channel' = channel /\ log' = log /\ eventLog' = eventLog /\ completed' = completed
        /\ exec'[j] \in Running =>
             exec[j] \in Running /\ (exec'[j] = "executing" <=> exec[j] = "executing")
        /\ exec[j] \in {"succeeded", "cleaning", "ended"} =>
             exec'[j] \in {"succeeded", "cleaning", "ended"}
        /\ exec'[j] = "succeeded" => exec[j] = "succeeded"
    <3>. USE DEF At, LeaveLoop, Running, TypeInv, TypeOK, threadVars, collectorVars
    <3>1. CASE NextStep(j)
      BY <3>1 DEF NextStep
    <3>2. CASE ToolCalls(j)
      BY <3>2 DEF ToolCalls
    <3>3. CASE StepFails(j)
      BY <3>3 DEF StepFails
    <3>4. CASE CleanUp(j)
      BY <3>4 DEF CleanUp
    <3>5. CASE PhaseTransition(j)
      BY <3>5 DEF PhaseTransition
    <3>. QED  BY <1>1, <3>1, <3>2, <3>3, <3>4, <3>5
  <2>. QED  BY <2>1, QuietStep
<1>2. CASE StepLimit(j) \/ FinalAnswer(j)
  <2>1. /\ exec[j] \in {"looping", "thinking"} /\ SendEvent(j, "completed")
        /\ exec'[j] = "cleaning" /\ log' = log /\ eventLog' = eventLog /\ completed' = completed
    BY <1>2 DEF StepLimit, FinalAnswer, LeaveLoop, TypeInv, TypeOK, threadVars, collectorVars
  <2>. QED  BY <2>1, CompletionSent
<1>3. CASE CallTool(j)
  <2>1. /\ exec[j] = "calling" /\ SendEvent(j, "executing")
        /\ exec'[j] \in {"executing", "cleaning"}
        /\ log' = log /\ eventLog' = eventLog /\ completed' = completed
    BY <1>3 DEF CallTool, At, LeaveLoop, TypeInv, TypeOK, threadVars, collectorVars
  <2>2. /\ Alternate(channel'[j], log'[j]) /\ CallOpen(channel'[j], log'[j])
        /\ Ahead(j)' = Ahead(j) + Count("executing")
        /\ j \notin completed' /\ ~Sent(j, "completed")'
    BY <2>1, SendingStep DEF Running, Events, LogEntries, ToolResult
  <2>3. InOrder(j)'
    BY <2>1, <2>2 DEF InOrder, Running
  <2>4. Counted(j) => Counted(j)'
    BY <2>1, <2>2 DEF Counted, Count
  <2>. QED  BY <2>3, <2>4
<1>4. CASE ToolReturns(j)
  <2>1. PICK event \in ToolResult :
          /\ SendEvent(j, event)
          /\ exec'[j] = IF event = "success" THEN "succeeded" ELSE "unsuccessful"
    BY <1>4 DEF ToolReturns, At, ToolResult, TypeInv, TypeOK
  <2>2. /\ exec[j] = "executing" /\ event \in Events /\ event # "executing" /\ event # "completed"
        /\ log' = log /\ eventLog' = eventLog /\ completed' = completed
    BY <1>4 DEF ToolReturns, At, threadVars, collectorVars, ToolResult, Events, LogEntries
  <2>3. /\ Alternate(channel'[j], log'[j]) /\ ~CallOpen(channel'[j], log'[j])
        /\ Ahead(j)' = Ahead(j) + Count(event)
        /\ j \notin completed' /\ ~Sent(j, "completed")'
    BY <2>1, <2>2, SendingStep DEF Running
  <2>4. InOrder(j)'
    BY <2>1, <2>3 DEF InOrder, Running
  <2>5. Counted(j) => Counted(j)'
    BY <2>1, <2>2, <2>3 DEF Counted, Count
  <2>. QED  BY <2>4, <2>5
<1>5. CASE RecordResult(j)
  <2>1. /\ exec[j] \in {"succeeded", "unsuccessful"} /\ channel' = channel /\ log' = log
        /\ completed' = completed
        /\ exec'[j] \in {"calling", "looping", "cleaning"}
    BY <1>5 DEF RecordResult, LeaveLoop, TypeInv, TypeOK, collectorVars
  <2>2. \/ eventLog'[j] = eventLog[j] /\ exec'[j] = "cleaning"
        \/ eventLog'[j] = Append(eventLog[j], IF exec[j] = "succeeded" THEN "success" ELSE "failure")
    BY <1>5 DEF RecordResult, LeaveLoop, TypeInv, TypeOK
  <2>3. /\ Sent(j, "completed")' <=> Sent(j, "completed")
        /\ ~Sent(j, "completed") /\ j \notin completed
    BY <2>1 DEF Attended, Final, Sent
  <2>4. InOrder(j)'
    BY <2>1, <2>3 DEF InOrder, Alternate, CallOpen, Running
  <2>5. ASSUME Counted(j)  PROVE Counted(j)'
    <3>1. /\ Artifacts(log[j]) \in Nat /\ Artifacts(channel[j]) \in Nat
          /\ Artifacts(eventLog[j]) \in Nat
      BY AheadInteger
    <3>2. Ahead(j)' = Artifacts(log[j]) + Artifacts(channel[j]) - Artifacts(eventLog'[j])
      BY <2>1 DEF Ahead, Artifacts
    <3>3. IF exec[j] = "succeeded" THEN Ahead(j) = 1 ELSE Ahead(j) = 0
      BY <2>1, <2>5 DEF Counted
    <3>4. CASE eventLog'[j] = eventLog[j] /\ exec'[j] = "cleaning"
      <4>1. Ahead(j)' = Ahead(j)
        BY <3>2, <3>4 DEF Ahead
      <4>. QED  BY <2>1, <2>3, <2>5, <3>4, <4>1 DEF Counted
    <3>5. CASE eventLog'[j] = Append(eventLog[j], IF exec[j] = "succeeded" THEN "success" ELSE "failure")
      <4>. DEFINE event == IF exec[j] = "succeeded" THEN "success" ELSE "failure"
      <4>1. Artifacts(eventLog'[j]) = Artifacts(eventLog[j]) + Count(event)
        <5>1. event \in ToolResult /\ eventLog[j] \in Seq(ToolResult)
          BY AheadInteger DEF ToolResult
        <5>. QED  BY <3>5, <5>1, ArtifactsAppend
      <4>2. Count(event) = IF exec[j] = "succeeded" THEN 1 ELSE 0
        BY DEF Count
      <4>. HIDE DEF event
      <4>3. Ahead(j)' = 0
        BY <3>1, <3>2, <3>3, <4>1, <4>2 DEF Ahead
      <4>. QED  BY <2>1, <2>3, <4>3 DEF Counted
    <3>. QED  BY <2>2, <3>4, <3>5
  <2>. QED  BY <2>4, <2>5
<1>. HIDE DEF Goal
<1>. QED  BY <1>1, <1>2, <1>3, <1>4, <1>5 DEF ExecutorStep

LEMMA ReportAfterCollector ==
  ASSUME TypeInv, NEW j \in Jobs, Attended(j), InOrder(j), CollectorStep(j)
  PROVE  InOrder(j)' /\ (Counted(j) => Counted(j)')
<1>. DEFINE Goal == InOrder(j)' /\ (Counted(j) => Counted(j)')
<1>. SUFFICES Goal
  OBVIOUS
<1>0. exec' = exec /\ eventLog' = eventLog
  BY DEF CollectorStep, Collect, CollectorEnds, executorVars, threadVars
<1>a. /\ Artifacts(log[j]) \in Nat /\ Artifacts(channel[j]) \in Nat
      /\ Artifacts(eventLog[j]) \in Nat /\ channel[j] \in Seq(Events) /\ log[j] \in Seq(LogEntries)
  BY AheadInteger
<1>b. Ahead(j)' = Artifacts(log'[j]) + Artifacts(channel'[j]) - Artifacts(eventLog[j])
  BY <1>0 DEF Ahead, Artifacts
<1>1. CASE CollectorEnds(j)
  <2>1. channel' = channel /\ log' = log /\ completed' = completed
    BY <1>1 DEF CollectorEnds
  <2>. QED  BY <1>0, <2>1, QuietStep
<1>2. CASE Collect(j) /\ Head(channel[j]) = "completed"
  <2>1. /\ channel[j] # <<>> /\ channel'[j] = <<>> /\ log' = log
        /\ channel[j][1] = "completed"
    BY <1>2 DEF Collect, TypeInv, TypeOK
  <2>2. Sent(j, "completed")
    BY <1>a, <2>1 DEF Sent
  <2>3. exec[j] \notin Running
    BY <2>2 DEF Attended, Final, Running
  <2>4. ~CallOpen(<<>>, log[j])
    BY <2>1 DEF InOrder, Alternate, ToolResult
  <2>5. InOrder(j)'
    <3>1. Alternate(<<>>, log[j])
      BY DEF InOrder, Alternate
    <3>. QED  BY <1>0, <2>1, <2>3, <2>4, <3>1 DEF InOrder
  <2>6. Artifacts(channel[j]) = 0
    <3>1. Len(channel[j]) = 1
      <4>. DEFINE n == Len(channel[j])
      <4>1. n \in Nat /\ n >= 1
        BY <1>a, <2>1
      <4>2. \A i \in 1..n - 1 : channel[j][i] # "completed"
        BY DEF InOrder, Alternate
      <4>. HIDE DEF n
      <4>3. n # 1 => 1 \in 1..n - 1
        BY <4>1
      <4>4. n = 1
        BY <2>1, <4>2, <4>3
      <4>. QED  BY <4>4 DEF n
    <3>2. Tail(channel[j]) = <<>>
      <4>. DEFINE rest == Tail(channel[j])
      <4>1. rest \in Seq(Events) /\ Len(rest) = 0
        BY <1>a, <2>1, <3>1, HeadTailProperties
      <4>. HIDE DEF rest
      <4>2. rest = <<>>
        BY <4>1, EmptySeq
      <4>. QED  BY <4>2 DEF rest
    <3>3. Artifacts(channel[j]) = Artifacts(Tail(channel[j])) + Count("completed")
      BY <1>2, <1>a, <2>1, ArtifactsTail
    <3>4. Count("completed") = 0
      BY DEF Count
    <3>5. Artifacts(Tail(channel[j])) = 0
      BY <3>2, ArtifactsEmpty
    <3>. QED  BY <3>3, <3>4, <3>5
  <2>7. ASSUME Counted(j)  PROVE Counted(j)'
    <3>1. Ahead(j) = 0
      BY <2>2, <2>7 DEF Counted
    <3>2. Ahead(j)' = 0
      BY <1>a, <1>b, <2>1, <2>6, <3>1, ArtifactsEmpty DEF Ahead
    <3>3. exec[j] # "succeeded"
      BY <2>3 DEF Running
    <3>. QED  BY <1>0, <3>2, <3>3 DEF Counted
  <2>. QED  BY <2>5, <2>7
<1>3. CASE Collect(j) /\ Head(channel[j]) # "completed"
  <2>1. /\ channel[j] # <<>> /\ channel' = [channel EXCEPT ![j] = Tail(@)]
        /\ completed' = completed
        /\ log'[j] = Noted(log[j], Head(channel[j]))
    BY <1>3 DEF Collect, TypeInv, TypeOK, Noted
  <2>2. channel'[j] = Tail(channel[j])
    BY <2>1 DEF TypeInv, TypeOK
  <2>3. Sent(j, "completed")' => Sent(j, "completed")
    BY <2>1, SentEarlier
  <2>4. /\ Alternate(channel'[j], log'[j])
        /\ CallOpen(channel'[j], log'[j]) <=> CallOpen(channel[j], log[j])
        /\ Artifacts(channel'[j]) + Artifacts(log'[j])
             = Artifacts(channel[j]) + Artifacts(log[j])
    BY <1>3, <1>a, <2>1, <2>2, ReceivedInOrder DEF InOrder
  <2>5. InOrder(j)'
    BY <1>0, <2>1, <2>3, <2>4 DEF InOrder
  <2>6. Ahead(j)' = Ahead(j)
    <3>1. channel'[j] \in Seq(Events)
      BY <1>a, <2>1, <2>2
    <3>2. log'[j] \in Seq(LogEntries)
      BY TypesStep, <1>3 DEF CollectorStep, Next, TypeOK
    <3>3. Artifacts(channel'[j]) \in Nat /\ Artifacts(log'[j]) \in Nat
      BY <3>1, <3>2, ArtifactsAreSuccesses
    <3>. QED  BY <1>a, <1>b, <2>4, <3>3 DEF Ahead
  <2>7. Counted(j) => Counted(j)'
    BY <1>0, <2>1, <2>3, <2>6 DEF Counted
  <2>. QED  BY <2>5, <2>7
<1>. HIDE DEF Goal
<1>. QED  BY <1>1, <1>2, <1>3 DEF CollectorStep

\* No result is taken back.
LEMMA StillUnreported ==
  ASSUME TypeInv, NEW r \in Requests, RequestMove(r), NEW k \in Jobs, Unreported(k)'
  PROVE  Unreported(k)
<1>1. k[1] \in Requests /\ k[2] \in 1..MaxProcesses
  BY JobPair
<1>2. results[k[1]] \in Seq(Results) /\ Len(results[k[1]]) \in Nat /\ k[2] \in Nat
  BY <1>1, SMTT(20) DEF TypeInv, TypeOK
<1>3. CASE results'[k[1]] = results[k[1]]
  BY <1>3 DEF Unreported
<1>4. CASE results'[k[1]] # results[k[1]]
  <2>1. k[1] = r
    BY <1>1, <1>4, RequestFrame DEF SameRequest
  <2>2. PICK result : results'[k[1]] = Append(results[k[1]], result)
    BY <1>4, <2>1, ResultsGrow DEF Concluded
  <2>3. Len(results'[k[1]]) = Len(results[k[1]]) + 1
    BY <1>2, <2>2
  <2>. QED  BY <1>2, <2>3 DEF Unreported
<1>. QED  BY <1>3, <1>4

LEMMA ReportAfterRequest ==
  ASSUME TypeInv, ReceiveInv, ReportInv, NEW r \in Requests, RequestMove(r), NEW k \in Jobs
  PROVE  InOrder(k)' /\ (Unreported(k)' => Counted(k)')
<1>0. InOrder(k) /\ (Unreported(k) => Counted(k)) /\ (Unreported(k)' => Unreported(k))
  BY StillUnreported DEF ReportInv
<1>1. CASE SameJob(k)
  <2>1. InOrder(k)' /\ (Counted(k) => Counted(k)')
    BY <1>0, <1>1, QuietStep DEF SameJob
  <2>. QED  BY <1>0, <2>1
<1>2. CASE k = Job(r) /\ CreateThread(r)
  <2>1. /\ exec' = exec /\ eventLog' = eventLog /\ channel' = channel /\ log' = log
        /\ completed' = completed
    BY <1>2 DEF CreateThread, executorVars
  <2>2. InOrder(k)' /\ (Counted(k) => Counted(k)')
    BY <1>0, <2>1, QuietStep
  <2>. QED  BY <1>0, <2>2
<1>3. CASE k = Job(r) /\ SpawnExecutor(r)
  <2>1. /\ exec'[k] = "looping" /\ eventLog' = eventLog /\ channel' = channel /\ log' = log
        /\ completed' = completed
    BY <1>3 DEF SpawnExecutor, threadVars, collectorVars, TypeInv, TypeOK
  <2>2. exec[k] = "none"
    BY <1>3 DEF SpawnExecutor, Goto, TypeInv, Prepared
  <2>3. channel[k] = <<>> /\ log[k] = <<>> /\ eventLog[k] = <<>> /\ k \notin completed
    BY <2>2 DEF ReceiveInv, Attended, Unheard
  <2>4. InOrder(k)' /\ ~Sent(k, "completed")'
    BY <2>1, <2>3 DEF InOrder, Alternate, CallOpen, Sent
  <2>5. Ahead(k)' = 0
    <3>1. Ahead(k)' = Artifacts(log'[k]) + Artifacts(channel'[k]) - Artifacts(eventLog'[k])
      BY DEF Ahead, Artifacts
    <3>. QED  BY <2>1, <2>3, <3>1, ArtifactsEmpty
  <2>6. Counted(k)'
    BY <2>1, <2>5 DEF Counted
  <2>. QED  BY <2>4, <2>6
<1>4. CASE k = Job(r) /\ ReadResults(r)
  <2>1. /\ exec' = exec /\ channel' = channel /\ log'[k] = <<>> /\ completed' = completed
    BY <1>4 DEF ReadResults, executorVars, TypeInv, TypeOK
  <2>2. exec[k] \notin Running /\ channel[k] = <<>> /\ k = <<r, Len(results[r]) + 1>>
    BY <1>4, ReportedStopped
  <2>3. InOrder(k)'
    BY <2>1, <2>2 DEF InOrder, Alternate, CallOpen
  <2>4. ~Unreported(k)'
    <3>1. results[r] \in Seq(Results)
      BY DEF TypeInv, TypeOK
    <3>2. results'[r] = Append(results[r], Report(r))
      BY <1>4 DEF ReadResults, Conclude, Report, TypeInv, TypeOK
    <3>3. Len(results'[r]) = Len(results[r]) + 1 /\ Len(results[r]) \in Nat
      BY <3>1, <3>2
    <3>. QED  BY <2>2, <3>3 DEF Unreported
  <2>. QED  BY <2>3, <2>4
<1>. QED  BY <1>1, <1>2, <1>3, <1>4, RequestOnJob

LEMMA ReportStep == TypeInv /\ ReceiveInv /\ ReportInv /\ [Next]_vars => ReportInv'
<1>. SUFFICES ASSUME TypeInv, ReceiveInv, ReportInv, [Next]_vars, NEW k \in Jobs
              PROVE  InOrder(k)' /\ (Unreported(k)' => Counted(k)')
  BY DEF ReportInv, InOrder, Counted, Unreported, Ahead, Sent, Artifacts
<1>0. InOrder(k) /\ (Unreported(k) => Counted(k)) /\ Attended(k)
  BY DEF ReportInv, ReceiveInv
<1>1. ASSUME NEW r \in Requests, RequestMove(r)
      PROVE  InOrder(k)' /\ (Unreported(k)' => Counted(k)')
  BY <1>1, ReportAfterRequest
<1>2. ASSUME NEW j \in Jobs, JobMove(j)
      PROVE  InOrder(k)' /\ (Unreported(k)' => Counted(k)')
  <2>1. results' = results /\ (k # j => SameJob(k))
    BY <1>2, JobFrame DEF requestVars
  <2>2. Unreported(k)' => Unreported(k)
    BY <2>1 DEF Unreported
  <2>3. CASE k = j
    <3>1. InOrder(k)' /\ (Counted(k) => Counted(k)')
      BY <1>0, <1>2, <2>3, ReportAfterExecutor, ReportAfterCollector DEF JobMove
    <3>. QED  BY <1>0, <2>2, <3>1
  <2>4. CASE k # j
    <3>1. InOrder(k)' /\ (Counted(k) => Counted(k)')
      BY <1>0, <2>1, <2>4, QuietStep DEF SameJob
    <3>. QED  BY <1>0, <2>2, <3>1
  <2>. QED  BY <2>3, <2>4
<1>3. CASE UNCHANGED vars
  <2>1. InOrder(k)' /\ (Counted(k) => Counted(k)')
    BY <1>0, <1>3, QuietStep DEF vars, threadVars, executorVars, collectorVars
  <2>2. Unreported(k)' => Unreported(k)
    BY <1>3 DEF vars, requestVars, Unreported
  <2>. QED  BY <1>0, <2>1, <2>2
<1>. QED  BY <1>1, <1>2, <1>3, StepOfSomebody

LEMMA InitialReports == Init => ReportInv
<1>. SUFFICES ASSUME Init, NEW j \in Jobs  PROVE InOrder(j) /\ Counted(j)
  BY DEF ReportInv
<1>1. /\ channel[j] = <<>> /\ log[j] = <<>> /\ eventLog[j] = <<>> /\ exec[j] = "none"
      /\ completed = {}
  BY DEF Init
<1>2. InOrder(j)
  BY <1>1 DEF InOrder, Alternate, CallOpen, Sent, Running
<1>3. Ahead(j) = 0
  BY <1>1, ArtifactsEmpty DEF Ahead
<1>. QED  BY <1>1, <1>2, <1>3 DEF Counted

LEMMA ReportInvariant == Spec => [](TypeInv /\ ReceiveInv /\ ReportInv)
BY InitialReports, ReceiveInvariant, ReportStep, PTL DEF Spec
-----------------------------------------------------------------------------
(* What is reported about a process *)

\* A result agrees with the files of the process's thread.
Agrees(j, result) ==
  result.outcome # "error" =>
    /\ result.artifacts = Artifacts(eventLog[j])
    /\ Artifacts(result.log) - result.artifacts \in (IF result.outcome = "success" THEN {0} ELSE {0, 1})
    /\ \A i \in DOMAIN result.log :
         result.log[i] = "executing" => result.outcome = "failed" /\ i = Len(result.log)

LEMMA AgreedReports ==
  ReportIsFinal <=>
    \A r \in Requests : \A k \in 1..Len(results[r]) : Agrees(<<r, k>>, results[r][k])
BY DEF ReportIsFinal, Agrees

\* A report is made when the log holds every event of the executor.
LEMMA ReportAgrees ==
  ASSUME TypeInv, ReceiveInv, ReportInv, NEW r \in Requests, ReadResults(r)
  PROVE  Agrees(Job(r), Report(r))
<1>. DEFINE outcome == IF waited[r] = "completed" THEN "success" ELSE "failed"
<1>1. /\ Job(r) \in Jobs /\ Job(r) = <<r, Len(results[r]) + 1>>
      /\ channel[Job(r)] = <<>> /\ (waited[r] = "completed" => Job(r) \in completed)
  BY ReportedStopped
<1>2. PICK j \in Jobs : j = Job(r)
  BY <1>1
<1>3. Unreported(j)
  <2>1. Len(results[r]) \in Nat
    BY DEF TypeInv, TypeOK
  <2>. QED  BY <1>1, <1>2, <2>1 DEF Unreported
<1>4. InOrder(j) /\ Counted(j)
  BY <1>3 DEF ReportInv
<1>5. /\ Artifacts(log[j]) \in Nat /\ Artifacts(eventLog[j]) \in Nat
      /\ log[j] \in Seq(LogEntries) /\ Artifacts(channel[j]) = 0
  BY <1>1, <1>2, AheadInteger, ArtifactsEmpty
<1>6. Ahead(j) = Artifacts(log[j]) - Artifacts(eventLog[j])
  BY <1>5 DEF Ahead
<1>7. Artifacts(log[j]) - Artifacts(eventLog[j]) \in (IF outcome = "success" THEN {0} ELSE {0, 1})
  BY <1>1, <1>2, <1>4, <1>6 DEF Counted
<1>8. ASSUME NEW i \in DOMAIN log[j], log[j][i] = "executing"
      PROVE  outcome = "failed" /\ i = Len(log[j])
  <2>1. i = Len(log[j])
    BY <1>4, <1>5, <1>8 DEF InOrder, Alternate
  <2>2. CallOpen(channel[j], log[j])
    BY <1>1, <1>2, <1>5, <1>8, <2>1 DEF CallOpen
  <2>3. j \notin completed
    BY <1>4, <2>2 DEF InOrder
  <2>. QED  BY <1>1, <1>2, <2>1, <2>3
<1>9. /\ Report(r).outcome = outcome /\ Report(r).log = log[j]
      /\ Report(r).artifacts = Artifacts(eventLog[j])
  BY <1>2 DEF Report
<1>. HIDE DEF outcome
<1>. QED  BY <1>2, <1>7, <1>8, <1>9 DEF Agrees

\* The thread of a process that was reported gets nothing more.
LEMMA StaysAgreed ==
  ASSUME NEW j \in Jobs, NEW result, Agrees(j, result),
         result.outcome # "error" => eventLog'[j] = eventLog[j]
  PROVE  Agrees(j, result)'
<1>1. result.outcome # "error" => Artifacts(eventLog'[j]) = Artifacts(eventLog[j])
  OBVIOUS
<1>. QED  BY <1>1 DEF Agrees, Artifacts

LEMMA FinalStep ==
  /\ TypeInv /\ ReceiveInv /\ ReportInv /\ OneProcessAtATime /\ ReportIsFinal
  /\ [Next]_vars
  => ReportIsFinal'
<1>. SUFFICES ASSUME TypeInv, ReceiveInv, ReportInv, OneProcessAtATime, ReportIsFinal, [Next]_vars,
                     NEW q \in Requests, NEW k \in 1..Len(results'[q])
              PROVE  Agrees(<<q, k>>, results[q][k])'
  BY DEF ReportIsFinal, Agrees, Artifacts
<1>a. ASSUME k \in 1..Len(results[q]), results'[q][k] = results[q][k],
             results[q][k].outcome # "error" => eventLog'[<<q, k>>] = eventLog[<<q, k>>]
      PROVE  Agrees(<<q, k>>, results[q][k])'
  <2>. DEFINE result == results[q][k]
  <2>1. <<q, k>> \in Jobs /\ Agrees(<<q, k>>, result)
    BY <1>a, ResultJob, AgreedReports
  <2>2. Agrees(<<q, k>>, result)'
    BY <1>a, <2>1, StaysAgreed
  <2>. QED  BY <1>a, <2>2
<1>1. ASSUME NEW r \in Requests, RequestMove(r)  PROVE Agrees(<<q, k>>, results[q][k])'
  <2>0. eventLog' = eventLog
    BY <1>1 DEF RequestMove, RequestStep, Receive, GenerateFails, Generate, CreateProcess,
       CreateThread, SpawnExecutor, InsertHandle, MarkThread, WaitEnds, JoinCollector,
       ReadResults, ExecuteProcessFails, Respond, Send, Disconnect, threadVars
  <2>1. CASE results'[q] = results[q]
    BY <1>a, <2>0, <2>1
  <2>2. CASE results'[q] # results[q]
    <3>1. q = r
      BY <1>1, <2>2, RequestFrame DEF SameRequest
    <3>2. CASE ReadResults(r) /\ Concluded(r, Report(r))
      <4>1. Job(r) = <<r, Len(results[r]) + 1>>
        BY <3>2, ReportedStopped
      <4>2. CASE k \in 1..Len(results[r]) /\ results'[r][k] = results[r][k]
        BY <1>a, <2>0, <3>1, <4>2
      <4>3. CASE <<r, k>> = Job(r) /\ results'[r][k] = Report(r)
        BY <2>0, <3>1, <3>2, <4>3, ReportAgrees, ZenonT(40) DEF Agrees, Artifacts
      <4>. QED  BY <3>1, <3>2, <4>1, <4>2, <4>3, PastResult
    <3>3. CASE ExecuteProcessFails(r) /\ Concluded(r, ErrorResult)
      <4>1. Job(r) = <<r, Len(results[r]) + 1>>
        BY <3>3, CurrentJob DEF ExecuteProcessFails, InProcess, TypeInv, Job
      <4>2. CASE k \in 1..Len(results[r]) /\ results'[r][k] = results[r][k]
        BY <1>a, <2>0, <3>1, <4>2
      <4>3. CASE <<r, k>> = Job(r) /\ results'[r][k] = ErrorResult
        BY <3>1, <4>3 DEF Agrees, ErrorResult
      <4>. QED  BY <3>1, <3>3, <4>1, <4>2, <4>3, PastResult
    <3>. QED  BY <1>1, <2>2, <3>1, <3>2, <3>3, ResultsGrow
  <2>. QED  BY <2>1, <2>2
<1>2. ASSUME NEW j \in Jobs, JobMove(j)  PROVE Agrees(<<q, k>>, results[q][k])'
  <2>1. results' = results /\ \A i \in Jobs : i # j => SameJob(i)
    BY <1>2, JobFrame DEF requestVars
  <2>2. k \in 1..Len(results[q]) /\ <<q, k>> \in Jobs
    BY <2>1, ResultJob
  <2>3. results[q][k].outcome # "error" => exec[<<q, k>>] \notin Running
    BY <2>2 DEF OneProcessAtATime, Working
  <2>4. results[q][k].outcome # "error" => eventLog'[<<q, k>>] = eventLog[<<q, k>>]
    BY <1>2, <2>1, <2>2, <2>3, ExecutorStopped DEF SameJob
  <2>. QED  BY <1>a, <2>1, <2>2, <2>4
<1>3. CASE UNCHANGED vars
  BY <1>3, <1>a DEF vars, requestVars, threadVars
<1>. QED  BY <1>1, <1>2, <1>3, StepOfSomebody

\* What Prime is told about a process is final and agrees with its thread's
\* files: the number of successes in the log, which was built from events, is
\* the number of artifacts read from disk, and the thread never records another
\* result.  Only the log of a process that failed may be one success ahead, of
\* an executor whose access to the files failed, or end in a call without a
\* result.
THEOREM ReportsFinal == Spec => []ReportIsFinal
<1>1. Init => ReportIsFinal
  BY DEF Init, ReportIsFinal
<1>. QED  BY <1>1, ReportInvariant, ProcessesSerial, FinalStep, PTL DEF Spec

=============================================================================
