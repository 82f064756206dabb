--------------------------- MODULE RequestManager ---------------------------
(***************************************************************************)
(* The request manager (agent-kernel/apps/request-manager): a priority     *)
(* queue, a worker pool, per-session waiting queues and a retry handler,   *)
(* driven by gRPC calls of clients (Submit, Cancel, Retry), by answers of  *)
(* the Prime Personality service and by kernel workers on a task stream.   *)
(*                                                                         *)
(* The program is one Node.js process.  A coroutine runs alone until it    *)
(* awaits real I/O (an audit append, the Prime call, a timer); an await of *)
(* an already settled promise resumes in the same microtask drain.  One    *)
(* action is therefore the code between two real suspensions.              *)
(***************************************************************************)
EXTENDS Integers, Sequences, FiniteSets, SequencesExt

CONSTANTS
  Requests,         \* request ids, unique (the gateway draws UUIDs)
  Sessions,         \* session ids
  SessionOf,        \* the session each request names
  Asked,            \* the priority each request asks for: proto enum 0..4
  Runs,             \* coroutines of the pool that may be alive at once (a bound)
  NoRequest,        \* what an idle coroutine works on
  MaxWorkers,       \* WorkerPoolService.maxWorkers
  MaxQueueSize,     \* PriorityQueueService.maxQueueSize
  MaxRetries,       \* RetryHandlerService.maxRetries
  MaxManualRetries, \* bound on the RetryRequest calls clients make
  Cancellable,      \* the requests whose clients may call CancelRequest
  Workers,          \* kernel workers that may open a task stream
  MayStop,          \* whether the process may be asked to stop (SIGTERM)
  MayCrash,         \* whether the process may die at any moment
  MayOutlive        \* whether an execution at Prime may outlive its call

ASSUME ConstantsAssumption ==
  /\ NoRequest \notin Requests
  /\ SessionOf \in [Requests -> Sessions]
  /\ Asked \in [Requests -> 0..4]
  /\ IsFiniteSet(Runs)
  /\ MaxWorkers \in Nat \ {0}
  /\ MaxQueueSize \in Nat
  /\ MaxRetries \in Nat
  /\ MaxManualRetries \in Nat
  /\ Cancellable \subseteq Requests
  /\ MayStop \in BOOLEAN
  /\ MayCrash \in BOOLEAN
  /\ MayOutlive \in BOOLEAN

VARIABLES
  sub,           \* progress of each SubmitRequest call
  known,         \* keys of RequestStateService.requests
  status,        \* task.status
  retryCount,    \* task.retryCount
  queue,         \* the five priority queues, merged in order of arrival
  sessionQueue,  \* SessionAffinityService.sessionQueues
  processing,    \* SessionAffinityService.processingSessions
  activeWorkers, \* WorkerPoolService.activeWorkers
  activeTasks,   \* keys of WorkerPoolService.activeTasks
  runs,          \* the coroutines that run or complete a task
  timers,        \* retry timers pending for each request
  orphans,       \* Prime executions nobody waits for any more
  connected,     \* RequestManagerGrpcServer.kernelWorkers
  assigned,      \* tasks written to a kernel worker's stream
  manualRetries, \* RetryRequest calls made (bounded by MaxManualRetries)
  up,            \* the process: "up", "doomed" (unhandled rejection), "down"
  stopping       \* isRunning is false and shutdownPromise is set

clientVars  == <<sub, manualRetries>>
taskVars    == <<known, status, retryCount>>
queueVars   == <<queue, sessionQueue, processing>>
poolVars    == <<activeWorkers, activeTasks>>
streamVars  == <<connected, assigned>>
processVars == <<up, stopping>>
vars == <<clientVars, taskVars, queueVars, poolVars, runs, timers, orphans,
          streamVars, processVars>>

-----------------------------------------------------------------------------
(* Enums.  Server and client load their protos with enums: String, so what   *)
(* they decode is an enum name, while the code compares it with numbers.     *)

Decoded(n) == <<"name", n>>

Normal == 0

priorityMap ==
  [key \in {<<"number", n>> : n \in 0..4} |->
     CASE key[2] = 0 -> 100 [] key[2] = 1 -> 50 [] key[2] = 2 -> 10
       [] key[2] = 3 -> Normal [] OTHER -> -10]

LevelOf(r) ==
  IF Decoded(Asked[r]) \in DOMAIN priorityMap
  THEN priorityMap[Decoded(Asked[r])]
  ELSE Normal

-----------------------------------------------------------------------------
(* PriorityQueueService *)

QueueFull == Len(queue) >= MaxQueueSize

EnqueuePastLimit(q, r) == IF Len(q) > MaxQueueSize THEN q ELSE Append(q, r)

\* enqueue: pushes r, or leaves the queue alone and (its caller) sees the throw.
Enqueue(q, r) == IF Len(q) >= MaxQueueSize THEN q ELSE Append(q, r)

\* dequeue: the oldest entry of the highest level present.
HeadIndex ==
  CHOOSE i \in DOMAIN queue : \A j \in DOMAIN queue :
    \/ LevelOf(queue[j]) < LevelOf(queue[i])
    \/ LevelOf(queue[j]) = LevelOf(queue[i]) /\ i <= j

-----------------------------------------------------------------------------
(* The coroutines of the pool. *)

Idle == [pc |-> "idle", req |-> NoRequest, outcome |-> "ok"]

Run(pc, r, outcome) == [pc |-> pc, req |-> r, outcome |-> outcome]

Alive == up # "down"

Init ==
  /\ sub = [r \in Requests |-> "new"]
  /\ known = {}
  /\ status = [r \in Requests |-> "queued"]
  /\ retryCount = [r \in Requests |-> 0]
  /\ queue = <<>>
  /\ sessionQueue = [s \in Sessions |-> <<>>]
  /\ processing = {}
  /\ activeWorkers = 0
  /\ activeTasks = {}
  /\ runs = [x \in Runs |-> Idle]
  /\ timers = [r \in Requests |-> 0]
  /\ orphans = [r \in Requests |-> 0]
  /\ connected = {}
  /\ assigned = {}
  /\ manualRetries = 0
  /\ up = "up"
  /\ stopping = FALSE

-----------------------------------------------------------------------------
(* handleSubmitRequest *)

SubmitReceive(r) ==
  /\ Alive
  /\ sub[r] = "new"
  /\ sub' = [sub EXCEPT ![r] = "received"]
  /\ UNCHANGED <<manualRetries, taskVars, queueVars, poolVars, runs, timers,
                 orphans, streamVars, processVars>>

\* canProcess is read here and nowhere later: it routes the task for good.
SubmitRoute(r) ==
  LET s == SessionOf[r] IN
  /\ Alive
  /\ sub[r] = "received"
  /\ \/ /\ s \in processing
        /\ sessionQueue' = [sessionQueue EXCEPT ![s] = Append(@, r)]
        /\ sub' = [sub EXCEPT ![r] = "logged"]
        /\ UNCHANGED queue
     \/ /\ s \notin processing
        /\ queue' = Enqueue(queue, r)
        /\ sub' = [sub EXCEPT ![r] = IF QueueFull THEN "rejecting" ELSE "logged"]
        /\ UNCHANGED sessionQueue
  /\ UNCHANGED <<manualRetries, taskVars, processing, poolVars, runs, timers,
                 orphans, streamVars, processVars>>

\* Only now is the task registered in requestState and the client answered.
SubmitReply(r) ==
  /\ Alive
  /\ sub[r] = "logged"
  /\ sub' = [sub EXCEPT ![r] = "accepted"]
  /\ known' = known \cup {r}
  /\ UNCHANGED <<manualRetries, status, retryCount, queueVars, poolVars, runs,
                 timers, orphans, streamVars, processVars>>

\* The throw of QueueFullException, answered RESOURCE_EXHAUSTED.
SubmitReject(r) ==
  /\ Alive
  /\ sub[r] = "rejecting"
  /\ sub' = [sub EXCEPT ![r] = "rejected"]
  /\ UNCHANGED <<manualRetries, taskVars, queueVars, poolVars, runs, timers,
                 orphans, streamVars, processVars>>

-----------------------------------------------------------------------------
(* Slots: acquireSlot, releaseSlot, startProcessing, finishProcessing and    *)
(* triggerNext.  A release is one synchronous block up to the audit append   *)
(* of the triggered enqueue; it decrements the counter whether or not r      *)
(* holds a slot, and touches the session only when r does.                   *)

SlotFreeOffByOne == activeWorkers <= MaxWorkers
SlotFree == activeWorkers < MaxWorkers

AcquireSlot(r) ==
  /\ activeWorkers' = activeWorkers + 1
  /\ activeTasks' = activeTasks \cup {r}

MarkRequest(r) == processing' = processing \cup {r}
MarkSession(r) == processing' = processing \cup {SessionOf[r]}

KeepMark(r) == UNCHANGED processing
UnmarkSession(r) ==
  processing' = IF r \in activeTasks THEN processing \ {SessionOf[r]} ELSE processing

TriggersNext(r) == r \in activeTasks /\ sessionQueue[SessionOf[r]] # <<>>

NoTrigger(r) == UNCHANGED <<sessionQueue, queue>>

TriggerNext(r) ==
  LET s == SessionOf[r] IN
  \/ /\ TriggersNext(r)
     /\ sessionQueue' = [sessionQueue EXCEPT ![s] = Tail(@)]
     /\ queue' = Enqueue(queue, Head(sessionQueue[s]))
  \/ /\ ~TriggersNext(r)
     /\ UNCHANGED <<sessionQueue, queue>>

LeakSlot(r) ==
  /\ activeTasks' = activeTasks \ {r}
  /\ UnmarkSession(r)
  /\ TriggerNext(r)
  /\ UNCHANGED activeWorkers

ReleaseSlot(r) ==
  /\ activeWorkers' = activeWorkers - 1
  /\ activeTasks' = activeTasks \ {r}
  /\ UnmarkSession(r)
  /\ TriggerNext(r)

(* handleSuccess and handleFailure up to their first suspension: the next   *)
(* state of the coroutine and the status that requestState.update leaves.   *)

RetriesLeftOffByOne(r) == retryCount[r] <= MaxRetries
RetriesLeft(r) == retryCount[r] < MaxRetries

Handled(r, outcome) ==
  IF outcome = "ok" THEN Idle
  ELSE IF ~RetriesLeft(r) THEN Run("maxAudit", r, outcome)
  ELSE IF outcome = "recoverable" THEN Run("retryAudit", r, outcome)
  ELSE Idle

SuccessAsFailure(r, outcome) == IF r \in known THEN "failed" ELSE status[r]

HandledStatus(r, outcome) ==
  IF r \notin known THEN status[r]
  ELSE IF outcome = "ok" THEN "completed"
  ELSE IF outcome = "fatal" /\ RetriesLeft(r) THEN "failed"
  ELSE status[r]

\* The coroutine after ReleaseSlot: suspended in the enqueue of the triggered
\* task (where onFull says what a full queue does), or already handling.
Released(r, outcome, onFull) ==
  CASE ~TriggersNext(r)             -> Handled(r, outcome)
    [] TriggersNext(r) /\ QueueFull -> onFull
    [] OTHER                        -> Run("releasing", r, outcome)

-----------------------------------------------------------------------------
(* schedule and the pool's processTask *)

\* The slot test, dequeue and acquireSlot run in one microtask drain, so the
\* re-enqueue of an unacquired task is unreachable.
Schedule(x) ==
  LET r == queue[HeadIndex] IN
  /\ Alive /\ ~stopping
  /\ SlotFree
  /\ queue # <<>>
  /\ runs[x] = Idle
  /\ queue' = RemoveAt(queue, HeadIndex)
  /\ AcquireSlot(r)
  /\ runs' = [runs EXCEPT ![x] = Run("starting", r, "ok")]
  /\ status' = IF r \in known THEN [status EXCEPT ![r] = "processing"] ELSE status
  /\ UNCHANGED <<clientVars, known, retryCount, sessionQueue, processing, timers,
                 orphans, streamVars, processVars>>

StartProcessing(x) ==
  LET r == runs[x].req IN
  /\ Alive
  /\ runs[x].pc = "starting"
  /\ MarkSession(r)
  /\ status' = [status EXCEPT ![r] = "processing"]
  /\ runs' = [runs EXCEPT ![x] = Run("calling", r, "ok")]
  /\ UNCHANGED <<clientVars, known, retryCount, queue, sessionQueue, poolVars,
                 timers, orphans, streamVars, processVars>>

\* ProcessingStatus COMPLETED and FAILED: what Prime answers, and the callback's
\* test of an answer, which then resolves the call.
Completed == 2
Failed == 3
Resolves(reply) == Decoded(reply) # <<"number", Failed>>

\* The outcome keeps what Prime answered; the code itself forgets it here.
PrimeAnswers(x, reply) ==
  LET r == runs[x].req IN
  /\ Alive
  /\ runs[x].pc = "calling"
  /\ Resolves(reply)
  /\ status' = [status EXCEPT ![r] = "completed"]
  /\ runs' = [runs EXCEPT ![x] = Run("completing", r, IF reply = Failed THEN "fatal" ELSE "ok")]
  /\ UNCHANGED <<clientVars, known, retryCount, queueVars, poolVars, timers,
                 orphans, streamVars, processVars>>

\* The finally block of a successful task, then handleSuccess.
FinishSuccess(x) ==
  LET r == runs[x].req IN
  /\ Alive
  /\ runs[x].pc = "completing"
  /\ ReleaseSlot(r)
  /\ runs' = [runs EXCEPT ![x] = Released(r, "ok", Run("overflow", r, "fatal"))]
  /\ status' = [status EXCEPT ![r] = IF TriggersNext(r) THEN @ ELSE HandledStatus(r, "ok")]
  /\ UNCHANGED <<clientVars, known, retryCount, timers, orphans, streamVars,
                 processVars>>

\* The catch and finally blocks of a task whose Prime call was rejected.  The
\* client's own timeout ("fatal") and a lost connection ("recoverable") do not
\* cancel the call: the execution at the kernel goes on as an orphan.
PrimeFails(x, outcome, orphaned) ==
  LET r == runs[x].req IN
  /\ Alive
  /\ runs[x].pc = "calling"
  /\ orphaned => MayOutlive
  /\ ReleaseSlot(r)
  /\ status' = [status EXCEPT ![r] = "failed"]
  /\ runs' = [runs EXCEPT ![x] = Released(r, outcome, Run("overflow", r, "fatal"))]
  /\ orphans' = IF orphaned THEN [orphans EXCEPT ![r] = @ + 1] ELSE orphans
  /\ UNCHANGED <<clientVars, known, retryCount, timers, streamVars, processVars>>

\* The enqueue of the triggered task is logged: handleSuccess or handleFailure.
ResumeReleased(x) ==
  LET r == runs[x].req
      outcome == runs[x].outcome IN
  /\ Alive
  /\ runs[x].pc = "releasing"
  /\ runs' = [runs EXCEPT ![x] = Handled(r, outcome)]
  /\ status' = [status EXCEPT ![r] = HandledStatus(r, outcome)]
  /\ UNCHANGED <<clientVars, known, retryCount, queueVars, poolVars, timers,
                 orphans, streamVars, processVars>>

\* QueueFullException left the finally block: the caller's catch releases the
\* slot a second time and treats the task as failed, whatever its outcome was.
CatchOverflow(x) ==
  LET r == runs[x].req IN
  /\ Alive
  /\ runs[x].pc = "overflow"
  /\ ReleaseSlot(r)
  /\ runs' = [runs EXCEPT ![x] = Released(r, "fatal", Idle)]
  /\ status' = [status EXCEPT ![r] = IF TriggersNext(r) THEN @ ELSE HandledStatus(r, "fatal")]
  /\ UNCHANGED <<clientVars, known, retryCount, timers, orphans, streamVars,
                 processVars>>

\* markAsFailed after logMaxRetriesExceeded.
GiveUp(x) ==
  LET r == runs[x].req IN
  /\ Alive
  /\ runs[x].pc = "maxAudit"
  /\ status' = IF r \in known THEN [status EXCEPT ![r] = "failed"] ELSE status
  /\ runs' = [runs EXCEPT ![x] = Idle]
  /\ UNCHANGED <<clientVars, known, retryCount, queueVars, poolVars, timers,
                 orphans, streamVars, processVars>>

NoTimer(r) == UNCHANGED timers
StartTimer(r) == timers' = [timers EXCEPT ![r] = @ + 1]

\* setTimeout after logRetryScheduled, then requestState.update(RETRYING).
ScheduleRetry(x) ==
  LET r == runs[x].req IN
  /\ Alive
  /\ runs[x].pc = "retryAudit"
  /\ StartTimer(r)
  /\ status' = IF r \in known THEN [status EXCEPT ![r] = "retrying"] ELSE status
  /\ runs' = [runs EXCEPT ![x] = Idle]
  /\ UNCHANGED <<clientVars, known, retryCount, queueVars, poolVars, orphans,
                 streamVars, processVars>>

\* The retry timer: a full queue makes its promise reject with nobody to catch
\* it, which ends a Node.js process.
TimerFires(r) ==
  /\ Alive
  /\ timers[r] > 0
  /\ timers' = [timers EXCEPT ![r] = @ - 1]
  /\ retryCount' = [retryCount EXCEPT ![r] = @ + 1]
  /\ status' = [status EXCEPT ![r] = "retrying"]
  /\ queue' = Enqueue(queue, r)
  /\ up' = IF QueueFull THEN "doomed" ELSE up
  /\ UNCHANGED <<clientVars, known, sessionQueue, processing, poolVars, runs,
                 orphans, streamVars, stopping>>

\* An execution the request manager gave up on ends at the kernel.
OrphanEnds(r) ==
  /\ orphans[r] > 0
  /\ orphans' = [orphans EXCEPT ![r] = @ - 1]
  /\ UNCHANGED <<clientVars, taskVars, queueVars, poolVars, runs, timers,
                 streamVars, processVars>>

-----------------------------------------------------------------------------
(* handleCancelRequest and handleRetryRequest *)

LeaveInQueue(r) == r \in ToSet(queue) /\ UNCHANGED queue
RemoveFromQueue(r) ==
  \E i \in DOMAIN queue :
    /\ queue[i] = r
    /\ \A j \in 1..(i - 1) : queue[j] # r
    /\ queue' = RemoveAt(queue, i)

CancelRequest(r) ==
  /\ Alive
  /\ r \in Cancellable \cap known
  /\ status[r] = "queued"
  /\ RemoveFromQueue(r)
  /\ status' = [status EXCEPT ![r] = "cancelled"]
  /\ UNCHANGED <<clientVars, known, retryCount, sessionQueue, processing, poolVars,
                 runs, timers, orphans, streamVars, processVars>>

\* new_priority decodes to an enum name too, so it never changes the level.
RetryRequest(r, resetRetryCount) ==
  /\ Alive
  /\ manualRetries < MaxManualRetries
  /\ r \in known
  /\ status[r] \in {"failed", "cancelled"}
  /\ manualRetries' = manualRetries + 1
  /\ retryCount' = IF resetRetryCount THEN [retryCount EXCEPT ![r] = 0] ELSE retryCount
  /\ status' = [status EXCEPT ![r] = "queued"]
  /\ queue' = Enqueue(queue, r)
  /\ up' = IF QueueFull THEN "doomed" ELSE up
  /\ UNCHANGED <<sub, known, sessionQueue, processing, poolVars, runs, timers,
                 orphans, streamVars, stopping>>

-----------------------------------------------------------------------------
(* The task stream of kernel workers *)

\* handleKernelWorkerStreamTasks and dispatchPendingTasks: the whole queue is
\* written to the stream, past the worker pool and the session affinity.
WorkerConnects(w) ==
  /\ Alive
  /\ w \notin connected
  /\ connected' = connected \cup {w}
  /\ assigned' = assigned \cup ToSet(queue)
  /\ queue' = <<>>
  /\ status' = [r \in Requests |-> IF r \in ToSet(queue) THEN "processing" ELSE status[r]]
  /\ UNCHANGED <<clientVars, known, retryCount, sessionQueue, processing, poolVars,
                 runs, timers, orphans, processVars>>

WorkerDisconnects(w) ==
  /\ Alive
  /\ w \in connected
  /\ connected' = connected \ {w}
  /\ UNCHANGED <<clientVars, taskVars, queueVars, poolVars, runs, timers, orphans,
                 assigned, processVars>>

\* handleTaskComplete and handleTaskCompleted.
TaskComplete(x, r, outcome) ==
  /\ Alive
  /\ r \in assigned
  /\ runs[x] = Idle
  /\ assigned' = assigned \ {r}
  /\ \/ /\ r \notin known
        /\ UNCHANGED <<status, queueVars, poolVars, runs, up>>
     \/ /\ r \in known
        /\ ReleaseSlot(r)
        /\ runs' = [runs EXCEPT ![x] = Released(r, outcome, Idle)]
        /\ status' = [status EXCEPT ![r] = IF outcome = "ok" THEN "completed" ELSE "failed"]
        /\ up' = IF TriggersNext(r) /\ QueueFull THEN "doomed" ELSE up
  /\ UNCHANGED <<clientVars, known, retryCount, timers, orphans, connected, stopping>>

-----------------------------------------------------------------------------
(* The process *)

\* stop(): the scheduler loop ends, acquireSlot refuses from now on.
StopRequested ==
  /\ MayStop
  /\ up = "up"
  /\ ~stopping
  /\ stopping' = TRUE
  /\ UNCHANGED <<clientVars, taskVars, queueVars, poolVars, runs, timers, orphans,
                 streamVars, up>>

\* All state is in memory.  Calls in flight fail; what Prime executes goes on.
ProcessEnds ==
  /\ sub' = [r \in Requests |->
               IF sub[r] \in {"received", "logged", "rejecting"} THEN "rejected" ELSE sub[r]]
  /\ known' = {}
  /\ status' = [r \in Requests |-> "queued"]
  /\ retryCount' = [r \in Requests |-> 0]
  /\ queue' = <<>>
  /\ sessionQueue' = [s \in Sessions |-> <<>>]
  /\ processing' = {}
  /\ activeWorkers' = 0
  /\ activeTasks' = {}
  /\ runs' = [x \in Runs |-> Idle]
  /\ timers' = [r \in Requests |-> 0]
  /\ orphans' = [r \in Requests |->
                   orphans[r] + Cardinality({x \in Runs : runs[x].pc = "calling" /\ runs[x].req = r})]
  /\ connected' = {}
  /\ assigned' = {}
  /\ up' = "down"
  /\ stopping' = FALSE
  /\ UNCHANGED manualRetries

\* gracefulShutdown's wait is over.
GracefulExit == Alive /\ stopping /\ activeWorkers <= 0 /\ ProcessEnds

\* An unhandled rejection, the process.exit of handleShutdown, a kill.
Crash == Alive /\ (MayCrash \/ up = "doomed") /\ ProcessEnds

\* loadStateSnapshot has no caller: a restarted process begins empty.
Restart ==
  /\ up = "down"
  /\ up' = "up"
  /\ UNCHANGED <<clientVars, taskVars, queueVars, poolVars, runs, timers, orphans,
                 streamVars, stopping>>

-----------------------------------------------------------------------------
Failures == {"recoverable", "fatal"}

Coroutine(x) ==
  \/ Schedule(x)
  \/ StartProcessing(x)
  \/ \E reply \in {Completed, Failed} : PrimeAnswers(x, reply)
  \/ FinishSuccess(x)
  \/ \E outcome \in Failures, orphaned \in BOOLEAN : PrimeFails(x, outcome, orphaned)
  \/ ResumeReleased(x)
  \/ CatchOverflow(x)
  \/ GiveUp(x)
  \/ ScheduleRetry(x)

Submission(r) == SubmitRoute(r) \/ SubmitReply(r) \/ SubmitReject(r)

Next ==
  \/ \E r \in Requests : SubmitReceive(r)
  \/ \E r \in Requests : Submission(r)
  \/ \E x \in Runs : Coroutine(x)
  \/ \E r \in Requests : TimerFires(r)
  \/ \E r \in Requests : OrphanEnds(r)
  \/ \E r \in Requests : CancelRequest(r)
  \/ \E r \in Requests, resetRetryCount \in BOOLEAN : RetryRequest(r, resetRetryCount)
  \/ \E w \in Workers : WorkerConnects(w)
  \/ \E w \in Workers : WorkerDisconnects(w)
  \/ \E x \in Runs, r \in Requests, outcome \in Failures \cup {"ok"} : TaskComplete(x, r, outcome)
  \/ StopRequested
  \/ GracefulExit
  \/ Crash
  \/ Restart

Spec == Init /\ [][Next]_vars

\* The event loop runs every coroutine that can go on: I/O completes, timers
\* fire, and the Prime call settles at the latest with the client's timeout.
\* Clients, kernel workers and operators owe nothing.
Fairness ==
  /\ \A r \in Requests : WF_vars(Submission(r)) /\ WF_vars(TimerFires(r))
  /\ \A x \in Runs : WF_vars(Coroutine(x))

FairSpec == Spec /\ Fairness
-----------------------------------------------------------------------------
(* Properties *)

Pcs == {"idle", "starting", "calling", "completing", "releasing", "overflow",
        "maxAudit", "retryAudit"}

Statuses == {"queued", "processing", "completed", "failed", "cancelled", "retrying"}

\* The state of the service is well formed: every map keyed as the code keys it,
\* every queue made of submitted requests.
TypeOK ==
  /\ sub \in [Requests -> {"new", "received", "logged", "rejecting", "accepted", "rejected"}]
  /\ known \subseteq Requests
  /\ status \in [Requests -> Statuses]
  /\ retryCount \in [Requests -> Nat]
  /\ queue \in Seq(Requests)
  /\ sessionQueue \in [Sessions -> Seq(Requests)]
  /\ processing \subseteq Sessions
  /\ activeWorkers \in Int
  /\ activeTasks \subseteq Requests
  /\ runs \in [Runs -> [pc : Pcs, req : Requests \cup {NoRequest},
                        outcome : Failures \cup {"ok"}]]
  /\ \A x \in Runs : runs[x].pc # "idle" => runs[x].req \in Requests
  /\ timers \in [Requests -> Nat]
  /\ orphans \in [Requests -> Nat]
  /\ connected \subseteq Workers
  /\ assigned \subseteq Requests
  /\ manualRetries \in Nat
  /\ up \in {"up", "doomed", "down"}
  /\ stopping \in BOOLEAN

Calling == {x \in Runs : runs[x].pc = "calling"}
Started == {x \in Runs : runs[x].pc \in {"calling", "completing"}}
Holding == {x \in Runs : runs[x].pc \in {"starting", "calling", "completing"}}

Waiting(s) == ToSet(sessionQueue[s])

\* maxQueueSize is never exceeded, whoever enqueues: a submission, the trigger
\* of a waiting session, a retry timer or a manual retry.
QueueBound == Len(queue) <= MaxQueueSize

\* No slot leaks: the pool never counts more active workers than there are
\* tasks between acquireSlot and releaseSlot, so it can always admit again.
NoSlotLeak == activeWorkers <= Cardinality(Holding)

\* releaseSlot is called exactly once per acquireSlot: the counter and the map
\* of active tasks both describe the tasks that hold a slot.
SlotAccounting ==
  /\ activeWorkers = Cardinality(Holding)
  /\ activeTasks = {runs[x].req : x \in Holding}

\* A session is marked as processing exactly while one of its tasks is between
\* startProcessing and releaseSlot: no mark outlives its task.
SessionMark == processing = {SessionOf[runs[x].req] : x \in Started}

\* The limits hold however tasks end and enqueue: no queue beyond its size, no
\* slot counted that no task holds.
PoolLimits == QueueBound /\ NoSlotLeak

\* The two books of the pool, of slots and of sessions, say what its coroutines
\* do, on every path by which a task is released.
PoolBooks == SlotAccounting /\ SessionMark

\* Two tasks of one session are never sent to Prime at the same time.
SerialCalls ==
  \A x, y \in Calling : SessionOf[runs[x].req] = SessionOf[runs[y].req] => x = y

\* Prime never executes two tasks of one session at the same time, counting the
\* executions whose client has timed out.
SerialExecution ==
  /\ SerialCalls
  /\ \A r \in Requests : orphans[r] > 0 =>
       /\ orphans[r] = 1
       /\ \A x \in Calling : SessionOf[runs[x].req] # SessionOf[r]
       /\ \A q \in Requests \ {r} : orphans[q] > 0 => SessionOf[q] # SessionOf[r]

Running(r) == \E x \in Runs : runs[x].req = r

\* A request whose client still waits for it is somewhere: in a queue, in a
\* coroutine, behind a retry timer or at a kernel worker.
NothingLost ==
  \A r \in known : status[r] \in {"queued", "processing", "retrying"} =>
    \/ r \in ToSet(queue)
    \/ r \in Waiting(SessionOf[r])
    \/ Running(r)
    \/ timers[r] > 0
    \/ r \in assigned

\* A request waiting for its session has a task ahead of it whose releaseSlot
\* will trigger it: one in the main queue or one holding a slot.
WaitersTriggered ==
  \A s \in Sessions : sessionQueue[s] # <<>> =>
    \/ \E r \in ToSet(queue) : SessionOf[r] = s
    \/ \E x \in Holding : SessionOf[runs[x].req] = s

\* The retry handler never gives a request more than maxRetries retries,
\* counting those it has only scheduled.
RetryBudget ==
  \A r \in Requests :
    retryCount[r] + timers[r]
      + Cardinality({x \in Runs : runs[x].pc = "retryAudit" /\ runs[x].req = r}) <= MaxRetries

\* A cancelled request is gone: nothing that could still run it is left.
CancelledIsGone ==
  \A r \in Requests : status[r] = "cancelled" =>
    /\ r \notin ToSet(queue) \cup Waiting(SessionOf[r])
    /\ ~Running(r)
    /\ timers[r] = 0

\* When gracefulShutdown may return no task is being processed.
DrainedExit == (Alive /\ stopping /\ activeWorkers <= 0) => Holding = {}

\* A success is not taken back while the process lives.
CompletedIsFinal ==
  [][\A r \in Requests : status[r] = "completed" /\ up' # "down" => status'[r] = "completed"]_vars

\* The scheduler never starts a request while one that asked for a more urgent
\* priority is queued (0 is the most urgent).
PriorityHonoured ==
  [][\A x \in Runs : (runs[x] = Idle /\ runs'[x].pc = "starting") =>
       \A q \in ToSet(queue) : Asked[q] >= Asked[runs'[x].req]]_vars

\* What the scheduler starts is what has been in the main queue for longest,
\* whatever priorities were asked for.
ArrivalOrder ==
  [][\A x \in Runs : (runs[x] = Idle /\ runs'[x].pc = "starting") =>
       runs'[x].req = Head(queue) /\ queue' = Tail(queue)]_vars

\* A request that Prime answered with FAILED is not reported as COMPLETED.
FailureReported ==
  \A x \in Runs : runs[x].pc = "completing" /\ runs[x].outcome = "fatal"
                    => status[runs[x].req] # "completed"

\* Every accepted request is settled for good, COMPLETED or FAILED.
EventuallySettled ==
  \A r \in Requests : (r \in known) ~> [](status[r] \in {"completed", "failed"})

\* An accepted request does not stay QUEUED for ever: it runs or is cancelled.
EventuallyServed ==
  \A r \in Requests : (r \in known /\ status[r] = "queued") ~> (status[r] # "queued")

-----------------------------------------------------------------------------
(* The abstract executor the pool implements. *)

\* r's last execution is over and it was not chosen for another one.
GivenUp(r) ==
  /\ status[r] = "failed"
  /\ timers[r] = 0
  /\ \A x \in Runs : runs[x].req = r =>
       ~(runs[x].outcome = "recoverable" /\ retryCount[r] < MaxRetries)

PhaseOf(r) ==
  CASE sub[r] # "logged" /\ r \notin known             -> "absent"
    [] \E x \in Calling : runs[x].req = r             -> "running"
    [] status[r] = "completed"                         -> "succeeded"
    [] status[r] = "cancelled"                         -> "cancelled"
    [] GivenUp(r)                                      -> "failed"
    [] OTHER                                           -> "waiting"

\* The execution that retryCount does not count yet.
StartedOnce(r) ==
  \/ \E x \in Runs : runs[x].req = r /\ runs[x].pc # "starting"
  \/ timers[r] > 0
  \/ status[r] \in {"completed", "failed"}

AttemptsOf(r) == retryCount[r] + (IF StartedOnce(r) THEN 1 ELSE 0)

Executor == INSTANCE SessionExecutor WITH
  phase    <- [r \in Requests |-> PhaseOf(r)],
  attempts <- [r \in Requests |-> AttemptsOf(r)]

\* The worker pool, fed by clients and not by kernel workers, implements the
\* per-session serial executor with a retry budget.
ImplementsExecutor == Executor!Spec
=============================================================================
