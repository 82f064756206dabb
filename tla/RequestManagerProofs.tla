------------------------ MODULE RequestManagerProofs ------------------------
(***************************************************************************)
(* Theorems about RequestManager for every value of its constants: types,  *)
(* slots, sessions and the bounds of its collections first, and then where *)
(* a request is.                                                           *)
(***************************************************************************)
EXTENDS RequestManager, DataLemmas

Outcomes == Failures \cup {"ok"}

RunSet == [pc : Pcs, req : Requests \cup {NoRequest}, outcome : Outcomes]

WellFormedRun(run) == run \in RunSet /\ (run.pc # "idle" => run.req \in Requests)

WellFormedRuns ==
  /\ runs \in [Runs -> RunSet]
  /\ \A x \in Runs : runs[x].pc # "idle" => runs[x].req \in Requests

HoldsSlot(run) == run.pc \in {"starting", "calling", "completing"}

LEMMA HeadIndexInDomain ==
  ASSUME queue \in Seq(Requests), queue # <<>>
  PROVE  HeadIndex \in 1..Len(queue)
<1>1. \A r \in Requests : LevelOf(r) = 0
  BY DEF LevelOf, Decoded, priorityMap, Normal
<1>2. \A j \in DOMAIN queue : LevelOf(queue[j]) = 0
  BY <1>1
<1>3. 1 \in DOMAIN queue /\ DOMAIN queue = 1..Len(queue)
  OBVIOUS
<1>4. \A j \in DOMAIN queue :
        \/ LevelOf(queue[j]) < LevelOf(queue[1])
        \/ LevelOf(queue[j]) = LevelOf(queue[1]) /\ 1 <= j
  BY <1>2, <1>3
<1>5. HeadIndex \in DOMAIN queue
  BY <1>3, <1>4 DEF HeadIndex
<1>. QED
  BY <1>3, <1>5

LEMMA EnqueueBounded ==
  ASSUME NEW q \in Seq(Requests), NEW r \in Requests
  PROVE  /\ Enqueue(q, r) \in Seq(Requests)
         /\ Len(q) <= MaxQueueSize => Len(Enqueue(q, r)) <= MaxQueueSize
BY ConstantsAssumption DEF Enqueue

LEMMA HandledWellFormed ==
  ASSUME NEW r \in Requests, NEW outcome \in Outcomes
  PROVE  WellFormedRun(Handled(r, outcome)) /\ ~HoldsSlot(Handled(r, outcome))
BY DEF WellFormedRun, HoldsSlot, Handled, Idle, Run, RunSet, Pcs, Outcomes, Failures

LEMMA ReleasedWellFormed ==
  ASSUME NEW r \in Requests, NEW outcome \in Outcomes, NEW onFull,
         WellFormedRun(onFull), ~HoldsSlot(onFull)
  PROVE  /\ WellFormedRun(Released(r, outcome, onFull))
         /\ ~HoldsSlot(Released(r, outcome, onFull))
<1>1. /\ WellFormedRun(Run("releasing", r, outcome))
      /\ ~HoldsSlot(Run("releasing", r, outcome))
  BY DEF WellFormedRun, HoldsSlot, Run, RunSet, Pcs
<1>. QED
  BY <1>1, HandledWellFormed DEF Released

LEMMA OverflowWellFormed ==
  ASSUME NEW r \in Requests
  PROVE  /\ WellFormedRun(Run("overflow", r, "fatal")) /\ ~HoldsSlot(Run("overflow", r, "fatal"))
         /\ WellFormedRun(Idle) /\ ~HoldsSlot(Idle)
BY DEF WellFormedRun, HoldsSlot, Run, Idle, RunSet, Pcs, Outcomes, Failures

LEMMA UpdateRun ==
  ASSUME WellFormedRuns, NEW x \in Runs, NEW run, WellFormedRun(run),
         runs' = [runs EXCEPT ![x] = run]
  PROVE  WellFormedRuns'
BY DEF WellFormedRuns, WellFormedRun

LEMMA HandledStatusType ==
  ASSUME TypeOK, NEW r \in Requests, NEW outcome \in Outcomes
  PROVE  HandledStatus(r, outcome) \in Statuses
BY DEF TypeOK, HandledStatus, Statuses

LEMMA ReleaseSlotType ==
  ASSUME TypeOK, NEW r \in Requests, ReleaseSlot(r)
  PROVE  /\ queue' \in Seq(Requests)
         /\ sessionQueue' \in [Sessions -> Seq(Requests)]
         /\ processing' \subseteq Sessions
         /\ activeWorkers' \in Int
         /\ activeTasks' \subseteq Requests
         /\ Len(queue) <= MaxQueueSize => Len(queue') <= MaxQueueSize
<1>1. SessionOf[r] \in Sessions
  BY ConstantsAssumption
<1>2. /\ processing' \subseteq Sessions
      /\ activeWorkers' \in Int
      /\ activeTasks' \subseteq Requests
  BY DEF TypeOK, ReleaseSlot, UnmarkSession
<1>3. CASE ~TriggersNext(r)
  BY <1>2, <1>3 DEF TypeOK, ReleaseSlot, TriggerNext
<1>4. CASE TriggersNext(r)
  <2>1. /\ sessionQueue[SessionOf[r]] \in Seq(Requests)
        /\ sessionQueue[SessionOf[r]] # <<>>
    BY <1>1, <1>4 DEF TypeOK, TriggersNext
  <2>2. /\ Head(sessionQueue[SessionOf[r]]) \in Requests
        /\ Tail(sessionQueue[SessionOf[r]]) \in Seq(Requests)
    BY <2>1
  <2>3. /\ sessionQueue' = [sessionQueue EXCEPT ![SessionOf[r]] = Tail(@)]
        /\ queue' = Enqueue(queue, Head(sessionQueue[SessionOf[r]]))
    BY <1>4 DEF ReleaseSlot, TriggerNext
  <2>4. sessionQueue' \in [Sessions -> Seq(Requests)]
    BY <1>1, <2>2, <2>3 DEF TypeOK
  <2>. QED
    BY <1>2, <2>2, <2>3, <2>4, EnqueueBounded DEF TypeOK
<1>. QED
  BY <1>3, <1>4

(* TypeOK *)

LEMMA RunsOfTypeOK == TypeOK => WellFormedRuns
BY DEF TypeOK, WellFormedRuns, RunSet, Outcomes

LEMMA TypeInit == Init => TypeOK
<1>. SUFFICES ASSUME Init PROVE TypeOK
  OBVIOUS
<1>1. WellFormedRun(Idle)
  BY OverflowWellFormed DEF WellFormedRun, Idle, RunSet, Pcs, Outcomes, Failures
<1>2. WellFormedRuns
  BY <1>1 DEF WellFormedRun, WellFormedRuns, Init, Idle
<1>3. /\ queue \in Seq(Requests)
      /\ sessionQueue \in [Sessions -> Seq(Requests)]
  BY DEF Init
<1>4. /\ status \in [Requests -> Statuses]
      /\ retryCount \in [Requests -> Nat]
      /\ timers \in [Requests -> Nat]
      /\ orphans \in [Requests -> Nat]
  BY DEF Init, Statuses
<1>5. /\ sub \in [Requests -> {"new", "received", "logged", "rejecting", "accepted", "rejected"}]
      /\ up \in {"up", "doomed", "down"}
      /\ stopping \in BOOLEAN
  BY DEF Init
<1>6. /\ known \subseteq Requests
      /\ processing \subseteq Sessions
      /\ activeWorkers \in Int
      /\ activeTasks \subseteq Requests
      /\ connected \subseteq Workers
      /\ assigned \subseteq Requests
      /\ manualRetries \in Nat
  BY DEF Init
<1>. QED
  BY <1>2, <1>3, <1>4, <1>5, <1>6 DEF TypeOK, WellFormedRuns, RunSet, Outcomes

LEMMA SubmissionType ==
  ASSUME TypeOK, NEW r \in Requests, SubmitReceive(r) \/ Submission(r)
  PROVE  TypeOK'
<1>. USE DEF TypeOK, clientVars, taskVars, queueVars, poolVars, streamVars, processVars
<1>1. CASE SubmitReceive(r)
  BY <1>1 DEF SubmitReceive
<1>2. CASE SubmitRoute(r)
  <2>1. Enqueue(queue, r) \in Seq(Requests)
    BY EnqueueBounded
  <2>2. sub' \in [Requests -> {"new", "received", "logged", "rejecting", "accepted", "rejected"}]
    BY <1>2 DEF SubmitRoute
  <2>3. queue' \in Seq(Requests)
    BY <1>2, <2>1 DEF SubmitRoute
  <2>4. sessionQueue' \in [Sessions -> Seq(Requests)]
    <3>1. SessionOf[r] \in Sessions
      BY ConstantsAssumption
    <3>2. Append(sessionQueue[SessionOf[r]], r) \in Seq(Requests)
      BY <3>1
    <3>. QED
      BY <1>2, <3>1, <3>2 DEF SubmitRoute
  <2>. QED
    BY <1>2, <2>2, <2>3, <2>4 DEF SubmitRoute
<1>3. CASE SubmitReply(r)
  BY <1>3 DEF SubmitReply
<1>4. CASE SubmitReject(r)
  BY <1>4 DEF SubmitReject
<1>. QED
  BY <1>1, <1>2, <1>3, <1>4 DEF Submission

LEMMA ScheduleType ==
  ASSUME TypeOK, NEW x \in Runs, Schedule(x)
  PROVE  TypeOK' /\ Len(queue') <= Len(queue)
<1>. DEFINE r == queue[HeadIndex]
<1>1. HeadIndex \in 1..Len(queue) /\ queue \in Seq(Requests)
  BY HeadIndexInDomain DEF TypeOK, Schedule
<1>2. r \in Requests
  BY <1>1
<1>3. queue' \in Seq(Requests) /\ Len(queue') <= Len(queue)
  <2>1. RemoveAt(queue, HeadIndex) \in Seq(Requests) /\ Len(RemoveAt(queue, HeadIndex)) = Len(queue) - 1
    BY <1>1, RemoveAtShortens
  <2>. QED
    BY <1>1, <2>1 DEF Schedule
<1>. HIDE DEF r
<1>4. WellFormedRuns'
  <2>1. WellFormedRun(Run("starting", r, "ok"))
    BY <1>2 DEF WellFormedRun, Run, RunSet, Pcs, Outcomes
  <2>2. runs' = [runs EXCEPT ![x] = Run("starting", r, "ok")]
    BY DEF Schedule, r
  <2>. QED
    BY <2>1, <2>2, UpdateRun, RunsOfTypeOK
<1>5. /\ activeWorkers' \in Int
      /\ activeTasks' \subseteq Requests
      /\ status' \in [Requests -> Statuses]
  <2>1. /\ AcquireSlot(r)
        /\ status' = IF r \in known THEN [status EXCEPT ![r] = "processing"] ELSE status
    BY DEF Schedule, r
  <2>. QED
    BY <1>2, <2>1 DEF TypeOK, AcquireSlot, Statuses
<1>. QED
  BY <1>3, <1>4, <1>5 DEF Schedule, TypeOK, WellFormedRuns, RunSet, Outcomes, clientVars,
                          taskVars, streamVars, processVars

LEMMA StartProcessingType ==
  ASSUME TypeOK, NEW x \in Runs, StartProcessing(x)
  PROVE  TypeOK'
<1>. DEFINE r == runs[x].req
<1>1. r \in Requests /\ runs[x].outcome \in Outcomes
  BY DEF TypeOK, StartProcessing, Outcomes
<1>2. WellFormedRuns'
  <2>1. WellFormedRun(Run("calling", r, "ok"))
    BY <1>1, HandledWellFormed DEF WellFormedRun, Run, Idle, RunSet, Pcs, Outcomes
  <2>2. runs' = [runs EXCEPT ![x] = Run("calling", r, "ok")]
    BY DEF StartProcessing
  <2>. QED
    BY <2>1, <2>2, UpdateRun, RunsOfTypeOK
<1>3. status' \in [Requests -> Statuses]
  BY <1>1, HandledStatusType DEF StartProcessing, TypeOK, Statuses
<1>. QED
  BY <1>1, <1>2, <1>3, ConstantsAssumption
     DEF StartProcessing, TypeOK, WellFormedRuns, RunSet, Outcomes, clientVars,
                          taskVars, queueVars, poolVars, streamVars, processVars, MarkSession

LEMMA PrimeAnswersType ==
  ASSUME TypeOK, NEW x \in Runs, NEW reply \in {Completed, Failed}, PrimeAnswers(x, reply)
  PROVE  TypeOK'
<1>. DEFINE r == runs[x].req
            answer == IF reply = Failed THEN "fatal" ELSE "ok"
<1>1. r \in Requests /\ answer \in Outcomes
  BY DEF TypeOK, PrimeAnswers, Outcomes, Failures
<1>2. WellFormedRuns'
  <2>1. WellFormedRun(Run("completing", r, answer))
    BY <1>1 DEF WellFormedRun, Run, RunSet, Pcs
  <2>2. runs' = [runs EXCEPT ![x] = Run("completing", r, answer)]
    BY DEF PrimeAnswers
  <2>. QED
    BY <2>1, <2>2, UpdateRun, RunsOfTypeOK
<1>3. status' \in [Requests -> Statuses]
  BY <1>1 DEF PrimeAnswers, TypeOK, Statuses
<1>. QED
  BY <1>1, <1>2, <1>3 DEF PrimeAnswers, TypeOK, WellFormedRuns, RunSet, Outcomes, clientVars,
                          queueVars, poolVars, streamVars, processVars

LEMMA ResumeReleasedType ==
  ASSUME TypeOK, NEW x \in Runs, ResumeReleased(x)
  PROVE  TypeOK'
<1>. DEFINE r == runs[x].req
<1>1. r \in Requests /\ runs[x].outcome \in Outcomes
  BY DEF TypeOK, ResumeReleased, Outcomes
<1>2. WellFormedRuns'
  <2>1. WellFormedRun(Handled(r, runs[x].outcome))
    BY <1>1, HandledWellFormed DEF WellFormedRun, Run, Idle, RunSet, Pcs, Outcomes
  <2>2. runs' = [runs EXCEPT ![x] = Handled(r, runs[x].outcome)]
    BY DEF ResumeReleased
  <2>. QED
    BY <2>1, <2>2, UpdateRun, RunsOfTypeOK
<1>3. status' \in [Requests -> Statuses]
  BY <1>1, HandledStatusType DEF ResumeReleased, TypeOK, Statuses
<1>. QED
  BY <1>1, <1>2, <1>3 DEF ResumeReleased, TypeOK, WellFormedRuns, RunSet, Outcomes, clientVars,
                          taskVars, queueVars, poolVars, streamVars, processVars

LEMMA GiveUpType ==
  ASSUME TypeOK, NEW x \in Runs, GiveUp(x)
  PROVE  TypeOK'
<1>. DEFINE r == runs[x].req
<1>1. r \in Requests /\ runs[x].outcome \in Outcomes
  BY DEF TypeOK, GiveUp, Outcomes
<1>2. WellFormedRuns'
  <2>1. WellFormedRun(Idle)
    BY <1>1, HandledWellFormed DEF WellFormedRun, Run, Idle, RunSet, Pcs, Outcomes
  <2>2. runs' = [runs EXCEPT ![x] = Idle]
    BY DEF GiveUp
  <2>. QED
    BY <2>1, <2>2, UpdateRun, RunsOfTypeOK
<1>3. status' \in [Requests -> Statuses]
  BY <1>1, HandledStatusType DEF GiveUp, TypeOK, Statuses
<1>. QED
  BY <1>1, <1>2, <1>3 DEF GiveUp, TypeOK, WellFormedRuns, RunSet, Outcomes, clientVars,
                          taskVars, queueVars, poolVars, streamVars, processVars

LEMMA ScheduleRetryType ==
  ASSUME TypeOK, NEW x \in Runs, ScheduleRetry(x)
  PROVE  TypeOK'
<1>. DEFINE r == runs[x].req
<1>1. r \in Requests /\ runs[x].outcome \in Outcomes
  BY DEF TypeOK, ScheduleRetry, Outcomes
<1>2. WellFormedRuns'
  <2>1. WellFormedRun(Idle)
    BY <1>1, HandledWellFormed DEF WellFormedRun, Run, Idle, RunSet, Pcs, Outcomes
  <2>2. runs' = [runs EXCEPT ![x] = Idle]
    BY DEF ScheduleRetry
  <2>. QED
    BY <2>1, <2>2, UpdateRun, RunsOfTypeOK
<1>3. status' \in [Requests -> Statuses]
  BY <1>1, HandledStatusType DEF ScheduleRetry, TypeOK, Statuses
<1>. QED
  BY <1>1, <1>2, <1>3 DEF ScheduleRetry, TypeOK, WellFormedRuns, RunSet, Outcomes, clientVars,
                          taskVars, queueVars, poolVars, streamVars, processVars, StartTimer

LEMMA FinishSuccessType ==
  ASSUME TypeOK, NEW x \in Runs, FinishSuccess(x)
  PROVE  TypeOK'
<1>. DEFINE r == runs[x].req
<1>1. r \in Requests
  BY DEF TypeOK, FinishSuccess
<1>2. ReleaseSlot(r)
  BY DEF FinishSuccess
<1>3. WellFormedRuns'
  <2>1. WellFormedRun(Released(r, "ok", Run("overflow", r, "fatal")))
    BY <1>1, ReleasedWellFormed, OverflowWellFormed DEF Outcomes, Failures
  <2>2. runs' = [runs EXCEPT ![x] = Released(r, "ok", Run("overflow", r, "fatal"))]
    BY DEF FinishSuccess
  <2>. QED
    BY <2>1, <2>2, UpdateRun, RunsOfTypeOK
<1>4. status' \in [Requests -> Statuses]
  BY <1>1, HandledStatusType DEF FinishSuccess, TypeOK, Statuses, Outcomes, Failures
<1>. QED
  BY <1>1, <1>2, <1>3, <1>4, ReleaseSlotType DEF FinishSuccess, TypeOK, WellFormedRuns, RunSet,
     Outcomes, clientVars, taskVars, streamVars, processVars

LEMMA PrimeFailsType ==
  ASSUME TypeOK, NEW x \in Runs, NEW outcome \in Failures, NEW orphaned \in BOOLEAN,
         PrimeFails(x, outcome, orphaned)
  PROVE  TypeOK'
<1>. DEFINE r == runs[x].req
<1>1. r \in Requests
  BY DEF TypeOK, PrimeFails
<1>2. ReleaseSlot(r)
  BY DEF PrimeFails
<1>3. WellFormedRuns'
  <2>1. WellFormedRun(Released(r, outcome, Run("overflow", r, "fatal")))
    BY <1>1, ReleasedWellFormed, OverflowWellFormed DEF Outcomes, Failures
  <2>2. runs' = [runs EXCEPT ![x] = Released(r, outcome, Run("overflow", r, "fatal"))]
    BY DEF PrimeFails
  <2>. QED
    BY <2>1, <2>2, UpdateRun, RunsOfTypeOK
<1>4. status' \in [Requests -> Statuses]
  BY <1>1, HandledStatusType DEF PrimeFails, TypeOK, Statuses, Outcomes, Failures
<1>5. orphans' \in [Requests -> Nat]
  BY <1>1 DEF PrimeFails, TypeOK
<1>. QED
  BY <1>1, <1>2, <1>3, <1>4, <1>5, ReleaseSlotType DEF PrimeFails, TypeOK, WellFormedRuns, RunSet,
     Outcomes, clientVars, taskVars, streamVars, processVars

LEMMA CatchOverflowType ==
  ASSUME TypeOK, NEW x \in Runs, CatchOverflow(x)
  PROVE  TypeOK'
<1>. DEFINE r == runs[x].req
<1>1. r \in Requests
  BY DEF TypeOK, CatchOverflow
<1>2. ReleaseSlot(r)
  BY DEF CatchOverflow
<1>3. WellFormedRuns'
  <2>1. WellFormedRun(Released(r, "fatal", Idle))
    BY <1>1, ReleasedWellFormed, OverflowWellFormed DEF Outcomes, Failures
  <2>2. runs' = [runs EXCEPT ![x] = Released(r, "fatal", Idle)]
    BY DEF CatchOverflow
  <2>. QED
    BY <2>1, <2>2, UpdateRun, RunsOfTypeOK
<1>4. status' \in [Requests -> Statuses]
  BY <1>1, HandledStatusType DEF CatchOverflow, TypeOK, Statuses, Outcomes, Failures
<1>. QED
  BY <1>1, <1>2, <1>3, <1>4, ReleaseSlotType DEF CatchOverflow, TypeOK, WellFormedRuns, RunSet,
     Outcomes, clientVars, taskVars, streamVars, processVars

LEMMA TimerFiresType ==
  ASSUME TypeOK, NEW r \in Requests, TimerFires(r)
  PROVE  TypeOK'
<1>1. queue' \in Seq(Requests)
  BY EnqueueBounded DEF TypeOK, TimerFires
<1>. QED
  BY <1>1 DEF TimerFires, TypeOK, Statuses, clientVars, poolVars, streamVars

LEMMA CancelRequestType ==
  ASSUME TypeOK, NEW r \in Requests, CancelRequest(r)
  PROVE  TypeOK' /\ Len(queue') <= Len(queue)
<1>1. PICK i \in 1..Len(queue) : queue' = RemoveAt(queue, i)
  BY DEF TypeOK, CancelRequest, RemoveFromQueue
<1>2. queue' \in Seq(Requests) /\ Len(queue') = Len(queue) - 1
  BY <1>1, RemoveAtShortens DEF TypeOK
<1>3. Len(queue) - 1 <= Len(queue)
  BY DEF TypeOK
<1>. QED
  BY <1>2, <1>3 DEF CancelRequest, TypeOK, Statuses, clientVars, poolVars, streamVars, processVars

LEMMA RetryRequestType ==
  ASSUME TypeOK, NEW r \in Requests, NEW resetRetryCount \in BOOLEAN,
         RetryRequest(r, resetRetryCount)
  PROVE  TypeOK'
<1>1. queue' \in Seq(Requests)
  BY EnqueueBounded DEF TypeOK, RetryRequest
<1>. QED
  BY <1>1 DEF RetryRequest, TypeOK, Statuses, poolVars, streamVars

LEMMA WorkerConnectsType ==
  ASSUME TypeOK, NEW w \in Workers, WorkerConnects(w)
  PROVE  TypeOK'
<1>1. ToSet(queue) \subseteq Requests
  BY DEF TypeOK, ToSet
<1>. QED
  BY <1>1 DEF WorkerConnects, TypeOK, Statuses, clientVars, poolVars, processVars

LEMMA TaskCompleteType ==
  ASSUME TypeOK, NEW x \in Runs, NEW r \in Requests, NEW outcome \in Outcomes,
         TaskComplete(x, r, outcome)
  PROVE  TypeOK'
<1>1. CASE r \notin known
  BY <1>1 DEF TaskComplete, TypeOK, clientVars, queueVars, poolVars
<1>2. CASE r \in known
  <2>1. ReleaseSlot(r)
    BY <1>2 DEF TaskComplete
  <2>2. WellFormedRuns'
    <3>1. WellFormedRun(Released(r, outcome, Idle))
      BY ReleasedWellFormed, OverflowWellFormed
    <3>2. runs' = [runs EXCEPT ![x] = Released(r, outcome, Idle)]
      BY <1>2 DEF TaskComplete
    <3>. QED
      BY <3>1, <3>2, UpdateRun, RunsOfTypeOK
  <2>3. status' \in [Requests -> Statuses] /\ up' \in {"up", "doomed", "down"}
    BY <1>2 DEF TaskComplete, TypeOK, Statuses
  <2>. QED
    BY <2>1, <2>2, <2>3, ReleaseSlotType DEF TaskComplete, TypeOK, WellFormedRuns, RunSet,
       Outcomes, clientVars
<1>. QED
  BY <1>1, <1>2

LEMMA ProcessEndsType ==
  ASSUME TypeOK, ProcessEnds
  PROVE  TypeOK'
<1>1. \A S \in SUBSET Runs : Cardinality(S) \in Nat
  BY ConstantsAssumption, FS_Subset, FS_CardinalityType
<1>2. \A r \in Requests :
        Cardinality({x \in Runs : runs[x].pc = "calling" /\ runs[x].req = r}) \in Nat
  BY <1>1
<1>. DEFINE calls(r) == Cardinality({x \in Runs : runs[x].pc = "calling" /\ runs[x].req = r})
<1>3. orphans' = [r \in Requests |-> orphans[r] + calls(r)]
  BY DEF ProcessEnds
<1>4. \A r \in Requests : calls(r) \in Nat
  BY <1>2
<1>. HIDE DEF calls
<1>5. orphans' \in [Requests -> Nat]
  BY <1>3, <1>4 DEF TypeOK
<1>6. WellFormedRuns'
  BY DEF ProcessEnds, WellFormedRuns, RunSet, Idle, Pcs, Outcomes, Failures
<1>7. /\ queue' \in Seq(Requests)
      /\ sessionQueue' \in [Sessions -> Seq(Requests)]
  BY DEF ProcessEnds
<1>8. /\ status' \in [Requests -> Statuses]
      /\ retryCount' \in [Requests -> Nat]
      /\ timers' \in [Requests -> Nat]
  BY DEF ProcessEnds, Statuses
<1>9.  /\ known' \subseteq Requests
       /\ processing' \subseteq Sessions
       /\ activeWorkers' \in Int
       /\ activeTasks' \subseteq Requests
       /\ connected' \subseteq Workers
       /\ assigned' \subseteq Requests
  BY DEF ProcessEnds
<1>10. /\ manualRetries' \in Nat
       /\ up' \in {"up", "doomed", "down"}
       /\ stopping' \in BOOLEAN
  BY DEF ProcessEnds, TypeOK
<1>11. sub' \in [Requests -> {"new", "received", "logged", "rejecting", "accepted", "rejected"}]
  BY DEF ProcessEnds, TypeOK
<1>. QED
  BY <1>5, <1>6, <1>7, <1>8, <1>9, <1>10, <1>11 DEF TypeOK, WellFormedRuns, RunSet, Outcomes

\* The state of the service stays well formed, whatever the limits, the number of
\* coroutines and the calls of clients and kernel workers (type correctness of
\* RequestManager's step relation).
LEMMA TypeStep == TypeOK /\ [Next]_vars => TypeOK'
<1>. SUFFICES ASSUME TypeOK, [Next]_vars
              PROVE  TypeOK'
  OBVIOUS
<1>1. ASSUME NEW r \in Requests, SubmitReceive(r) \/ Submission(r) PROVE TypeOK'
  BY <1>1, SubmissionType
<1>2. ASSUME NEW x \in Runs, Coroutine(x) PROVE TypeOK'
  BY <1>2, ScheduleType, StartProcessingType, PrimeAnswersType, FinishSuccessType,
     PrimeFailsType, ResumeReleasedType, CatchOverflowType, GiveUpType, ScheduleRetryType
     DEF Coroutine
<1>3. ASSUME NEW r \in Requests, TimerFires(r) PROVE TypeOK'
  BY <1>3, TimerFiresType
<1>4. ASSUME NEW r \in Requests, OrphanEnds(r) PROVE TypeOK'
  BY <1>4 DEF OrphanEnds, TypeOK, clientVars, taskVars, queueVars, poolVars, streamVars,
              processVars
<1>5. ASSUME NEW r \in Requests, CancelRequest(r) PROVE TypeOK'
  BY <1>5, CancelRequestType
<1>6. ASSUME NEW r \in Requests, NEW resetRetryCount \in BOOLEAN,
             RetryRequest(r, resetRetryCount)
      PROVE TypeOK'
  BY <1>6, RetryRequestType
<1>7. ASSUME NEW w \in Workers, WorkerConnects(w) PROVE TypeOK'
  BY <1>7, WorkerConnectsType
<1>8. ASSUME NEW w \in Workers, WorkerDisconnects(w) PROVE TypeOK'
  BY <1>8 DEF WorkerDisconnects, TypeOK, clientVars, taskVars, queueVars, poolVars, processVars
<1>9. ASSUME NEW x \in Runs, NEW r \in Requests, NEW outcome \in Outcomes,
             TaskComplete(x, r, outcome)
      PROVE TypeOK'
  BY <1>9, TaskCompleteType
<1>10. CASE StopRequested
  BY <1>10 DEF StopRequested, TypeOK, clientVars, taskVars, queueVars, poolVars, streamVars
<1>11. CASE GracefulExit \/ Crash
  BY <1>11, ProcessEndsType DEF GracefulExit, Crash
<1>12. CASE Restart
  BY <1>12 DEF Restart, TypeOK, clientVars, taskVars, queueVars, poolVars, streamVars
<1>13. CASE UNCHANGED vars
  BY <1>13 DEF vars, TypeOK, clientVars, taskVars, queueVars, poolVars, streamVars, processVars
<1>. QED
  BY <1>1, <1>2, <1>3, <1>4, <1>5, <1>6, <1>7, <1>8, <1>9, <1>10, <1>11, <1>12, <1>13
     DEF Next, Outcomes

\* Type correctness: every map of the service stays keyed as the code keys it and
\* every queue holds submitted requests only.
THEOREM TypeCorrect == Spec => []TypeOK
<1>1. Init => TypeOK
  BY TypeInit
<1>2. TypeOK /\ [Next]_vars => TypeOK'
  BY TypeStep
<1>. QED
  BY <1>1, <1>2, PTL DEF Spec

(* QueueBound *)

LEMMA QueueBoundStep == TypeOK /\ QueueBound /\ [Next]_vars => QueueBound'
<1>. SUFFICES ASSUME TypeOK, QueueBound, [Next]_vars
              PROVE  QueueBound'
  OBVIOUS
<1>. USE DEF QueueBound
<1>a. Len(queue) \in Nat /\ MaxQueueSize \in Nat
  BY ConstantsAssumption DEF TypeOK
<1>b. CASE queue' = queue
  BY <1>b
<1>c. CASE queue' = <<>>
  BY <1>a, <1>c
<1>1. ASSUME NEW r \in Requests, SubmitReceive(r) \/ Submission(r) PROVE QueueBound'
  BY <1>1, <1>b, EnqueueBounded DEF TypeOK, Submission, SubmitReceive,
     SubmitRoute, SubmitReply, SubmitReject, queueVars
<1>2. ASSUME NEW x \in Runs, Coroutine(x) PROVE QueueBound'
  <2>1. CASE Schedule(x)
    <3>1. TypeOK' /\ Len(queue') <= Len(queue)
      BY <2>1, ScheduleType
    <3>. QED
      BY <3>1, <1>a DEF TypeOK
  <2>2. CASE \/ StartProcessing(x)
             \/ \E reply \in {Completed, Failed} : PrimeAnswers(x, reply)
             \/ ResumeReleased(x) \/ GiveUp(x) \/ ScheduleRetry(x)
    BY <2>2, <1>b
       DEF StartProcessing, PrimeAnswers, ResumeReleased, GiveUp, ScheduleRetry, queueVars
  <2>3. CASE \/ FinishSuccess(x)
             \/ \E outcome \in Failures, orphaned \in BOOLEAN : PrimeFails(x, outcome, orphaned)
             \/ CatchOverflow(x)
    <3>1. runs[x].req \in Requests /\ ReleaseSlot(runs[x].req)
      BY <2>3 DEF FinishSuccess, PrimeFails, CatchOverflow, TypeOK
    <3>. QED
      BY <3>1, ReleaseSlotType
  <2>. QED
    BY <1>2, <2>1, <2>2, <2>3 DEF Coroutine
<1>3. ASSUME NEW r \in Requests, TimerFires(r) PROVE QueueBound'
  BY <1>3, EnqueueBounded DEF TypeOK, TimerFires
<1>4. ASSUME NEW r \in Requests, OrphanEnds(r) PROVE QueueBound'
  BY <1>4, <1>b DEF OrphanEnds, queueVars
<1>5. ASSUME NEW r \in Requests, CancelRequest(r) PROVE QueueBound'
  <2>1. TypeOK' /\ Len(queue') <= Len(queue)
    BY <1>5, CancelRequestType
  <2>. QED
    BY <2>1, <1>a DEF TypeOK
<1>6. ASSUME NEW r \in Requests, NEW resetRetryCount \in BOOLEAN,
             RetryRequest(r, resetRetryCount)
      PROVE QueueBound'
  BY <1>6, EnqueueBounded DEF TypeOK, RetryRequest
<1>7. ASSUME NEW w \in Workers, WorkerConnects(w) \/ WorkerDisconnects(w) PROVE QueueBound'
  BY <1>7, <1>b, <1>c DEF WorkerConnects, WorkerDisconnects, queueVars
<1>8. ASSUME NEW x \in Runs, NEW r \in Requests, NEW outcome \in Outcomes,
             TaskComplete(x, r, outcome)
      PROVE QueueBound'
  BY <1>8, <1>b, ReleaseSlotType DEF TaskComplete, queueVars
<1>9. CASE StopRequested \/ Restart \/ UNCHANGED vars
  BY <1>9, <1>b DEF StopRequested, Restart, vars, queueVars
<1>10. CASE GracefulExit \/ Crash
  BY <1>10, <1>c DEF GracefulExit, Crash, ProcessEnds
<1>. QED
  BY <1>1, <1>2, <1>3, <1>4, <1>5, <1>6, <1>7, <1>8, <1>9, <1>10 DEF Next, Outcomes

\* maxQueueSize is never exceeded, although submissions, triggers of waiting
\* sessions, retry timers and manual retries all enqueue.
THEOREM QueueBounded == Spec => []QueueBound
<1>1. Init => QueueBound
  BY ConstantsAssumption DEF Init, QueueBound
<1>2. TypeOK /\ QueueBound /\ [Next]_vars => QueueBound'
  BY QueueBoundStep
<1>. QED
  BY <1>1, <1>2, TypeCorrect, PTL DEF Spec

(* Slots: what a step does to the set of coroutines that hold one. *)

LEMMA HoldingFinite ==
  /\ IsFiniteSet(Holding) /\ Cardinality(Holding) \in Nat
  /\ (Cardinality(Holding) = 0 <=> Holding = {})
<1>1. Holding \in SUBSET Runs
  BY DEF Holding
<1>2. IsFiniteSet(Holding)
  BY <1>1, ConstantsAssumption, FS_Subset
<1>. QED
  BY <1>2, FS_CardinalityType, FS_EmptySet

LEMMA HoldingUpdate ==
  ASSUME TypeOK, NEW x \in Runs, NEW run, runs' = [runs EXCEPT ![x] = run]
  PROVE  Holding' = IF HoldsSlot(run) THEN Holding \cup {x} ELSE Holding \ {x}
BY DEF TypeOK, Holding, HoldsSlot

\* A step frees a slot, takes one, or leaves the holders and the counter alone.
SlotFreed(x) ==
  x \in Started /\ Holding' = Holding \ {x} /\ ReleaseSlot(runs[x].req) /\ UNCHANGED assigned

SlotTaken(x) ==
  /\ x \notin Holding /\ Holding' = Holding \cup {x}
  /\ SlotFree /\ runs'[x].pc = "starting" /\ AcquireSlot(runs'[x].req)
  /\ UNCHANGED <<processing, assigned>>

SlotsReset ==
  /\ Holding' = {} /\ activeWorkers' = 0 /\ assigned' = {}
  /\ activeTasks' = {} /\ processing' = {}

\* releaseSlot called for a task whose coroutine holds no slot.
SlotOverfreed ==
  /\ assigned # {} \/ \E x \in Runs : runs[x].pc = "overflow"
  /\ Holding' = Holding /\ activeWorkers' = activeWorkers - 1

SlotsKept ==
  /\ Holding' = Holding /\ UNCHANGED poolVars
  /\ \A x \in Holding : runs'[x].req = runs[x].req
  /\ \/ UNCHANGED processing /\ Started' = Started
     \/ \E x \in Holding : MarkSession(runs[x].req) /\ Started' = Started \cup {x}
  /\ assigned' \subseteq assigned \/ Workers # {}

LEMMA SlotSteps ==
  ASSUME TypeOK, [Next]_vars
  PROVE  \/ \E x \in Runs : SlotFreed(x) \/ SlotTaken(x)
         \/ SlotsReset
         \/ SlotOverfreed
         \/ SlotsKept
<1>. DEFINE Goal == \/ \E x \in Runs : SlotFreed(x) \/ SlotTaken(x)
                    \/ SlotsReset
                    \/ SlotOverfreed
                    \/ SlotsKept
<1>a. CASE UNCHANGED <<runs, processing, poolVars>> /\ (assigned' \subseteq assigned \/ Workers # {})
  BY <1>a DEF SlotsKept, Holding, Started
<1>1. ASSUME NEW r \in Requests, SubmitReceive(r) \/ Submission(r) PROVE Goal
  BY <1>1, <1>a
     DEF Submission, SubmitReceive, SubmitRoute, SubmitReply, SubmitReject, queueVars,
         streamVars
<1>2. ASSUME NEW x \in Runs, Coroutine(x) PROVE Goal
  <2>1. CASE Schedule(x)
    <3>. DEFINE r == queue[HeadIndex]
    <3>1. runs' = [runs EXCEPT ![x] = Run("starting", r, "ok")] /\ runs[x] = Idle
      BY <2>1 DEF Schedule
    <3>2. HoldsSlot(Run("starting", r, "ok"))
      BY DEF HoldsSlot, Run
    <3>3. Holding' = Holding \cup {x}
      BY <3>1, <3>2, HoldingUpdate
    <3>4. x \notin Holding /\ runs'[x] = Run("starting", r, "ok")
      BY <3>1 DEF Holding, Idle, TypeOK
    <3>5. AcquireSlot(r) /\ SlotFree /\ UNCHANGED <<processing, assigned>>
      BY <2>1 DEF Schedule, streamVars
    <3>. QED
      BY <3>3, <3>4, <3>5 DEF SlotTaken, Run
  <2>2. ASSUME NEW run, runs' = [runs EXCEPT ![x] = run], HoldsSlot(run) <=> HoldsSlot(runs[x]),
               HoldsSlot(run) => run.req = runs[x].req,
               \/ UNCHANGED processing /\ Started' = Started
               \/ x \in Holding /\ MarkSession(runs[x].req) /\ Started' = Started \cup {x},
               UNCHANGED <<poolVars, assigned>>
        PROVE  Goal
    <3>1. Holding' = Holding
      BY <2>2, HoldingUpdate DEF Holding, HoldsSlot
    <3>2. \A y \in Holding : runs'[y].req = runs[y].req
      BY <2>2 DEF Holding, HoldsSlot, TypeOK
    <3>. QED
      BY <2>2, <3>1, <3>2 DEF SlotsKept
  <2>3. CASE StartProcessing(x)
    <3>1. HoldsSlot(Run("calling", runs[x].req, "ok")) /\ HoldsSlot(runs[x])
      BY <2>3 DEF StartProcessing, HoldsSlot, Run
    <3>2. x \in Holding /\ Started' = Started \cup {x}
      BY <2>3 DEF StartProcessing, Holding, Started, Run, TypeOK
    <3>. QED
      BY <2>2, <2>3, <3>1, <3>2 DEF StartProcessing, Run, streamVars
  <2>4. ASSUME NEW reply \in {Completed, Failed}, PrimeAnswers(x, reply)
        PROVE  Goal
    <3>. DEFINE run == Run("completing", runs[x].req, IF reply = Failed THEN "fatal" ELSE "ok")
    <3>1. HoldsSlot(run) /\ HoldsSlot(runs[x]) /\ run.req = runs[x].req
      BY <2>4 DEF PrimeAnswers, HoldsSlot, Run
    <3>2. Started' = Started
      BY <2>4 DEF PrimeAnswers, Started, Run, TypeOK
    <3>3. runs' = [runs EXCEPT ![x] = run] /\ UNCHANGED <<processing, poolVars, assigned>>
      BY <2>4 DEF PrimeAnswers, queueVars, streamVars
    <3>. HIDE DEF run
    <3>. QED
      BY <2>2, <3>1, <3>2, <3>3
  <2>5. ASSUME NEW outcome \in Outcomes, runs[x].req \in Requests,
               runs' = [runs EXCEPT ![x] =
                          Released(runs[x].req, outcome, Run("overflow", runs[x].req, "fatal"))],
               x \in Started, ReleaseSlot(runs[x].req), UNCHANGED assigned
        PROVE  Goal
    <3>1. ~HoldsSlot(Released(runs[x].req, outcome, Run("overflow", runs[x].req, "fatal")))
      BY <2>5, ReleasedWellFormed, OverflowWellFormed
    <3>2. Holding' = Holding \ {x}
      BY <2>5, <3>1, HoldingUpdate
    <3>. QED
      BY <2>5, <3>2 DEF SlotFreed
  <2>6. CASE FinishSuccess(x)
    <3>1. x \in Started /\ runs[x].req \in Requests /\ "ok" \in Outcomes
      BY <2>6 DEF FinishSuccess, Started, TypeOK, Outcomes
    <3>. QED
      BY <2>5, <2>6, <3>1 DEF FinishSuccess, streamVars
  <2>7. ASSUME NEW outcome \in Failures, NEW orphaned \in BOOLEAN, PrimeFails(x, outcome, orphaned)
        PROVE  Goal
    <3>1. x \in Started /\ runs[x].req \in Requests /\ outcome \in Outcomes
      BY <2>7 DEF PrimeFails, Started, TypeOK, Outcomes
    <3>. QED
      BY <2>5, <2>7, <3>1 DEF PrimeFails, streamVars
  <2>8. CASE ResumeReleased(x)
    <3>1. ~HoldsSlot(runs[x]) /\ runs[x].req \in Requests /\ runs[x].outcome \in Outcomes
      BY <2>8 DEF ResumeReleased, HoldsSlot, TypeOK, Outcomes
    <3>2. ~HoldsSlot(Handled(runs[x].req, runs[x].outcome))
      BY <3>1, HandledWellFormed
    <3>3. Started' = Started
      BY <2>8, <3>1, <3>2 DEF ResumeReleased, Started, HoldsSlot, TypeOK
    <3>. QED
      BY <2>2, <2>8, <3>1, <3>2, <3>3 DEF ResumeReleased, queueVars, streamVars
  <2>9. CASE CatchOverflow(x)
    <3>1. ~HoldsSlot(runs[x]) /\ runs[x].req \in Requests /\ "fatal" \in Outcomes
      BY <2>9 DEF CatchOverflow, HoldsSlot, TypeOK, Outcomes, Failures
    <3>2. ~HoldsSlot(Released(runs[x].req, "fatal", Idle))
      BY <3>1, ReleasedWellFormed, OverflowWellFormed
    <3>3. Holding' = Holding
      BY <2>9, <3>1, <3>2, HoldingUpdate DEF CatchOverflow, Holding, HoldsSlot
    <3>. QED
      BY <2>9, <3>3 DEF CatchOverflow, ReleaseSlot, SlotOverfreed
  <2>10. CASE GiveUp(x) \/ ScheduleRetry(x)
    <3>1. ~HoldsSlot(runs[x]) /\ ~HoldsSlot(Idle)
      BY <2>10 DEF GiveUp, ScheduleRetry, HoldsSlot, Idle
    <3>2. Started' = Started
      BY <2>10, <3>1 DEF GiveUp, ScheduleRetry, Started, HoldsSlot, TypeOK
    <3>. QED
      BY <2>2, <2>10, <3>1, <3>2 DEF GiveUp, ScheduleRetry, queueVars, streamVars
  <2>. QED
    BY <1>2, <2>1, <2>3, <2>4, <2>6, <2>7, <2>8, <2>9, <2>10 DEF Coroutine
<1>3. ASSUME NEW r \in Requests, TimerFires(r) \/ OrphanEnds(r) \/ CancelRequest(r) PROVE Goal
  BY <1>3, <1>a DEF TimerFires, OrphanEnds, CancelRequest, queueVars, streamVars
<1>4. ASSUME NEW r \in Requests, NEW resetRetryCount \in BOOLEAN,
             RetryRequest(r, resetRetryCount)
      PROVE Goal
  BY <1>4, <1>a DEF RetryRequest, streamVars
<1>5. ASSUME NEW w \in Workers, WorkerConnects(w) \/ WorkerDisconnects(w) PROVE Goal
  BY <1>5, <1>a DEF WorkerConnects, WorkerDisconnects, queueVars
<1>6. ASSUME NEW x \in Runs, NEW r \in Requests, NEW outcome \in Outcomes,
             TaskComplete(x, r, outcome)
      PROVE Goal
  <2>1. CASE r \notin known
    BY <1>6, <2>1, <1>a DEF TaskComplete, queueVars
  <2>2. CASE r \in known
    <3>1. ReleaseSlot(r) /\ runs' = [runs EXCEPT ![x] = Released(r, outcome, Idle)] /\ runs[x] = Idle
      BY <1>6, <2>2 DEF TaskComplete
    <3>2. ~HoldsSlot(Released(r, outcome, Idle)) /\ ~HoldsSlot(Idle)
      BY <1>6, ReleasedWellFormed, OverflowWellFormed
    <3>3. Holding' = Holding
      BY <3>1, <3>2, HoldingUpdate DEF Holding, HoldsSlot
    <3>. QED
      BY <1>6, <3>1, <3>3 DEF ReleaseSlot, SlotOverfreed, TaskComplete
  <2>. QED
    BY <2>1, <2>2
<1>7. CASE StopRequested \/ Restart \/ UNCHANGED vars
  BY <1>7, <1>a DEF StopRequested, Restart, vars, queueVars, streamVars
<1>8. CASE GracefulExit \/ Crash
  <2>1. Holding' = {}
    BY <1>8 DEF GracefulExit, Crash, ProcessEnds, Holding, Idle
  <2>. QED
    BY <1>8, <2>1 DEF GracefulExit, Crash, ProcessEnds, SlotsReset
<1>. QED
  BY <1>1, <1>2, <1>3, <1>4, <1>5, <1>6, <1>7, <1>8 DEF Next, Outcomes

LEMMA NoSlotLeakStep == TypeOK /\ NoSlotLeak /\ [Next]_vars => NoSlotLeak'
<1>. SUFFICES ASSUME TypeOK, NoSlotLeak, [Next]_vars
              PROVE  NoSlotLeak'
  OBVIOUS
<1>1. activeWorkers \in Int /\ Cardinality(Holding) \in Nat /\ IsFiniteSet(Holding)
  BY HoldingFinite DEF TypeOK
<1>2. ASSUME NEW x \in Runs, SlotFreed(x) PROVE NoSlotLeak'
  <2>1. Cardinality(Holding') = Cardinality(Holding) - 1
    <3>1. x \in Holding /\ Holding' = Holding \ {x}
      BY <1>2 DEF SlotFreed, Started, Holding
    <3>. QED
      BY <1>1, <3>1, FS_RemoveElement
  <2>2. activeWorkers' = activeWorkers - 1
    BY <1>2 DEF SlotFreed, ReleaseSlot
  <2>. QED
    BY <1>1, <2>1, <2>2 DEF NoSlotLeak
<1>3. ASSUME NEW x \in Runs, SlotTaken(x) PROVE NoSlotLeak'
  <2>1. Cardinality(Holding') = Cardinality(Holding) + 1
    BY <1>1, <1>3, FS_AddElement DEF SlotTaken
  <2>2. activeWorkers' = activeWorkers + 1
    BY <1>3 DEF SlotTaken, AcquireSlot
  <2>. QED
    BY <1>1, <2>1, <2>2 DEF NoSlotLeak
<1>4. CASE SlotsReset
  BY <1>4, FS_EmptySet DEF SlotsReset, NoSlotLeak
<1>5. CASE SlotOverfreed \/ SlotsKept
  BY <1>1, <1>5 DEF SlotOverfreed, SlotsKept, NoSlotLeak, poolVars
<1>. QED
  BY <1>2, <1>3, <1>4, <1>5, SlotSteps

\* No slot leaks, whatever clients, Prime and kernel workers do, crashes and
\* restarts included: the counter that admission compares with maxWorkers never
\* exceeds the number of tasks between acquireSlot and releaseSlot.
THEOREM NoLeak == Spec => []NoSlotLeak
<1>1. Init => NoSlotLeak
  BY HoldingFinite DEF Init, NoSlotLeak
<1>2. TypeOK /\ NoSlotLeak /\ [Next]_vars => NoSlotLeak'
  BY NoSlotLeakStep
<1>. QED
  BY <1>1, <1>2, TypeCorrect, PTL DEF Spec

\* Both limits of the pool: the main queue's size and the slots.
THEOREM LimitsKept == Spec => []PoolLimits
<1>1. QueueBound /\ NoSlotLeak => PoolLimits
  BY DEF PoolLimits
<1>. QED
  BY <1>1, QueueBounded, NoLeak, PTL

(* The pool as it is deployed: maxWorkers is 1 and no kernel worker streams. *)

\* No releaseSlot met a full queue when it triggered the next task of a session.
NoOverflow == \A x \in Runs : runs[x].pc # "overflow"

\* At most one coroutine holds the slot, and the counter, the map of active
\* tasks and the session marks all describe it.
OneHolder ==
  /\ TypeOK
  /\ Cardinality(Holding) <= 1
  /\ SlotAccounting
  /\ SessionMark
  /\ assigned = {}

LEMMA OneHolderStep ==
  ASSUME MaxWorkers = 1, Workers = {}
  PROVE  OneHolder /\ NoOverflow /\ [Next]_vars => OneHolder'
<1>. SUFFICES ASSUME OneHolder, NoOverflow, [Next]_vars
              PROVE  OneHolder'
  OBVIOUS
<1>1. TypeOK /\ TypeOK'
  BY TypeStep DEF OneHolder
<1>2. /\ IsFiniteSet(Holding) /\ Cardinality(Holding) \in 0..1
      /\ activeWorkers = Cardinality(Holding)
      /\ activeTasks = {runs[x].req : x \in Holding}
      /\ processing = {SessionOf[runs[x].req] : x \in Started}
      /\ assigned = {}
  BY <1>1, HoldingFinite DEF OneHolder, SlotAccounting, SessionMark
<1>3. Started \subseteq Holding /\ Started' \subseteq Holding'
  BY DEF Started, Holding
<1>4. ASSUME NEW x \in Runs, SlotFreed(x) PROVE OneHolder'
  <2>1. x \in Holding /\ Cardinality(Holding \ {x}) = Cardinality(Holding) - 1
    BY <1>2, <1>3, <1>4, FS_RemoveElement DEF SlotFreed
  <2>2. Cardinality(Holding) = 1 /\ Cardinality(Holding \ {x}) = 0
    BY <1>2, <2>1, FS_EmptySet
  <2>3. Holding = {x} /\ Holding' = {} /\ Started = {x} /\ Started' = {}
    <3>1. IsFiniteSet(Holding \ {x})
      BY <1>2, FS_RemoveElement
    <3>2. Holding \ {x} = {}
      BY <2>2, <3>1, FS_EmptySet
    <3>. QED
      BY <1>3, <1>4, <2>1, <3>2 DEF SlotFreed
  <2>4. activeWorkers' = 0 /\ activeTasks' = {} /\ processing' = {}
    BY <1>2, <1>4, <2>2, <2>3 DEF SlotFreed, ReleaseSlot, UnmarkSession
  <2>5. Cardinality(Holding') = 0 /\ assigned' = {}
    BY <1>2, <1>4, <2>3, FS_EmptySet DEF SlotFreed
  <2>. QED
    BY <1>1, <2>3, <2>4, <2>5 DEF OneHolder, SlotAccounting, SessionMark
<1>5. ASSUME NEW x \in Runs, SlotTaken(x) PROVE OneHolder'
  <2>1. activeWorkers = 0 /\ Holding = {}
    BY <1>2, <1>5, HoldingFinite DEF SlotTaken, SlotFree
  <2>2. Holding' = {x} /\ Started' = {}
    BY <1>3, <1>5, <2>1 DEF SlotTaken, Started
  <2>3. Cardinality(Holding') = 1
    BY <2>2, FS_Singleton
  <2>4. activeWorkers' = 1 /\ activeTasks' = {runs'[x].req}
    BY <1>2, <1>5, <2>1 DEF SlotTaken, AcquireSlot
  <2>5. processing' = {} /\ assigned' = {}
    BY <1>2, <1>3, <1>5, <2>1 DEF SlotTaken
  <2>. QED
    BY <1>1, <2>2, <2>3, <2>4, <2>5 DEF OneHolder, SlotAccounting, SessionMark
<1>6. CASE SlotsReset
  <2>1. Holding' = {} /\ Started' = {} /\ Cardinality(Holding') = 0
    BY <1>3, <1>6, FS_EmptySet DEF SlotsReset
  <2>. QED
    BY <1>1, <1>6, <2>1 DEF SlotsReset, OneHolder, SlotAccounting, SessionMark
<1>7. ~SlotOverfreed
  BY <1>2 DEF SlotOverfreed, NoOverflow
<1>8. CASE SlotsKept
  <2>1. /\ Holding' = Holding /\ activeWorkers' = activeWorkers /\ activeTasks' = activeTasks
        /\ \A x \in Holding : runs'[x].req = runs[x].req
        /\ assigned' = {}
    BY <1>2, <1>8 DEF SlotsKept, poolVars
  <2>2. SlotAccounting'
    BY <1>2, <2>1 DEF SlotAccounting
  <2>3. SessionMark'
    <3>1. CASE UNCHANGED processing /\ Started' = Started
      BY <1>2, <1>3, <2>1, <3>1 DEF SessionMark
    <3>2. ASSUME NEW x \in Holding, MarkSession(runs[x].req), Started' = Started \cup {x}
          PROVE  SessionMark'
      <4>1. processing' = {SessionOf[runs[y].req] : y \in Started \cup {x}}
        BY <1>2, <3>2 DEF MarkSession
      <4>2. \A y \in Started \cup {x} : runs'[y].req = runs[y].req
        BY <1>3, <2>1, <3>2
      <4>. QED
        BY <3>2, <4>1, <4>2 DEF SessionMark
    <3>. QED
      BY <1>8, <3>1, <3>2 DEF SlotsKept
  <2>. QED
    BY <1>1, <1>2, <2>1, <2>2, <2>3 DEF OneHolder
<1>. QED
  BY <1>1, <1>4, <1>5, <1>6, <1>7, <1>8, SlotSteps

LEMMA OneHolderInvariant ==
  ASSUME MaxWorkers = 1, Workers = {}
  PROVE  Spec /\ []NoOverflow => []OneHolder
<1>1. Init => OneHolder
  <2>. SUFFICES ASSUME Init PROVE OneHolder
    OBVIOUS
  <2>1. Holding = {} /\ Started = {}
    BY DEF Init, Holding, Started, Idle
  <2>2. Cardinality(Holding) = 0
    BY <2>1, FS_EmptySet
  <2>. QED
    BY <2>1, <2>2, TypeInit DEF Init, OneHolder, SlotAccounting, SessionMark
<1>2. OneHolder /\ NoOverflow /\ [Next]_vars => OneHolder'
  BY OneHolderStep
<1>. QED
  BY <1>1, <1>2, PTL DEF Spec

\* With the hard-coded single worker and no task stream, the counter and the map
\* of active tasks describe exactly the task between acquireSlot and releaseSlot,
\* as long as no trigger meets a full queue (which makes the code release twice).
THEOREM SlotsAccounted ==
  ASSUME MaxWorkers = 1, Workers = {}
  PROVE  Spec /\ []NoOverflow => []SlotAccounting
<1>1. OneHolder => SlotAccounting
  BY DEF OneHolder
<1>. QED
  BY <1>1, OneHolderInvariant, PTL

\* Under the same conditions a session is marked as processing exactly while one
\* of its tasks is between startProcessing and releaseSlot.
THEOREM SessionsMarked ==
  ASSUME MaxWorkers = 1, Workers = {}
  PROVE  Spec /\ []NoOverflow => []SessionMark
<1>1. OneHolder => SessionMark
  BY DEF OneHolder
<1>. QED
  BY <1>1, OneHolderInvariant, PTL

\* Under the same conditions two tasks of one session are never at Prime at once,
\* although canProcess is only read when a request is submitted.
THEOREM CallsSerial ==
  ASSUME MaxWorkers = 1, Workers = {}
  PROVE  Spec /\ []NoOverflow => []SerialCalls
<1>1. OneHolder => SerialCalls
  <2>. SUFFICES ASSUME OneHolder, NEW x \in Calling, NEW y \in Calling
                PROVE  x = y
    BY DEF SerialCalls
  <2>1. x \in Holding /\ y \in Holding
    BY DEF Calling, Holding
  <2>2. IsFiniteSet(Holding) /\ Cardinality(Holding) \in 0..1
    BY HoldingFinite DEF OneHolder
  <2>3. IsFiniteSet(Holding \ {x}) /\ Cardinality(Holding \ {x}) = Cardinality(Holding) - 1
    BY <2>1, <2>2, FS_RemoveElement
  <2>4. Cardinality(Holding \ {x}) = 0
    BY <2>2, <2>3, FS_CardinalityType
  <2>5. Holding \ {x} = {}
    BY <2>3, <2>4, FS_EmptySet
  <2>. QED
    BY <2>1, <2>5
<1>. QED
  BY <1>1, OneHolderInvariant, PTL

\* Under the same conditions gracefulShutdown returns only when no task is being
\* processed.
THEOREM ExitDrained ==
  ASSUME MaxWorkers = 1, Workers = {}
  PROVE  Spec /\ []NoOverflow => []DrainedExit
<1>1. OneHolder => DrainedExit
  BY HoldingFinite DEF OneHolder, SlotAccounting, DrainedExit
<1>. QED
  BY <1>1, OneHolderInvariant, PTL

-----------------------------------------------------------------------------
(***************************************************************************)
(* Where a request is.  Without manual retries a request is in one place   *)
(* at most: the main queue, the queue of its session, a coroutine, a retry *)
(* timer or a kernel worker.  From this follow the budget of retries and   *)
(* that a cancelled request is gone.                                       *)
(***************************************************************************)

InQueue(r) == r \in ToSet(queue)
Waits(r) == r \in Waiting(SessionOf[r])
Executes(x, r) == runs[x].pc # "idle" /\ runs[x].req = r
Executing(r) == \E x \in Runs : Executes(x, r)
Timed(r) == timers[r] > 0
Assigned(r) == r \in assigned

Placed(r) == InQueue(r) \/ Waits(r) \/ Executing(r) \/ Timed(r) \/ Assigned(r)

\* The five places exclude each other.
OnePlace(r) ==
  /\ InQueue(r) => ~Waits(r) /\ ~Executing(r) /\ ~Timed(r) /\ ~Assigned(r)
  /\ Waits(r) => ~Executing(r) /\ ~Timed(r) /\ ~Assigned(r)
  /\ Executing(r) => ~Timed(r) /\ ~Assigned(r)
  /\ Timed(r) => ~Assigned(r)

\* And a request is there once.
QueuesDistinct ==
  /\ Distinct(queue)
  /\ \A s \in Sessions : Distinct(sessionQueue[s])
  /\ \A s \in Sessions : \A r \in Waiting(s) : SessionOf[r] = s

OneCoroutine == \A r \in Requests : \A x, y \in Runs : Executes(x, r) /\ Executes(y, r) => x = y

OneTimer == \A r \in Requests : timers[r] <= 1

\* Only a submission brings a request in, and only once.
PlacedWasSubmitted == \A r \in Requests : Placed(r) => sub[r] \in {"logged", "accepted"}

KnownWasAccepted == \A r \in known : sub[r] = "accepted"

Placement ==
  /\ QueuesDistinct /\ OneCoroutine /\ OneTimer /\ PlacedWasSubmitted /\ KnownWasAccepted
  /\ \A r \in Requests : OnePlace(r)

\* Who is about to schedule a retry has one left.
Budget ==
  /\ \A r \in Requests : retryCount[r] + timers[r] <= MaxRetries
  /\ \A x \in Runs : runs[x].pc = "retryAudit" => retryCount[runs[x].req] < MaxRetries

CancelledNowhere ==
  \A r \in Requests : status[r] = "cancelled" => ~Placed(r) /\ sub[r] = "accepted"

PlaceInv == TypeOK /\ Placement /\ Budget /\ CancelledNowhere

\* An idle coroutine works for nobody.
IdleIsNobody == \A x \in Runs : runs[x].pc = "idle" => runs[x] = Idle
-----------------------------------------------------------------------------
(* The main queue has a request once *)

LEMMA EnqueueDistinct ==
  ASSUME TypeOK, NEW r \in Requests, Distinct(queue), ~InQueue(r)
  PROVE  /\ Distinct(Enqueue(queue, r)) /\ Enqueue(queue, r) \in Seq(Requests)
         /\ ToSet(Enqueue(queue, r)) = IF QueueFull THEN ToSet(queue) ELSE ToSet(queue) \cup {r}
<1>1. queue \in Seq(Requests) /\ r \notin ToSet(queue)
  BY DEF TypeOK, InQueue
<1>2. Distinct(Append(queue, r)) /\ ToSet(Append(queue, r)) = ToSet(queue) \cup {r}
  BY <1>1, AppendDistinct
<1>. QED  BY <1>1, <1>2, EnqueueBounded DEF Enqueue, QueueFull

-----------------------------------------------------------------------------
(* What a step does to the places of a request *)

Submitted == {"logged", "accepted"}

\* The request comes to no place where it was not.
Stays(r) ==
  /\ InQueue(r)' => InQueue(r)
  /\ Waits(r)' => Waits(r)
  /\ Executing(r)' => Executing(r)
  /\ Timed(r)' => Timed(r)
  /\ Assigned(r)' => Assigned(r)

\* A step of a request that is placed, and of those that stay.
LEMMA PlacementFollows ==
  ASSUME Placement, CancelledNowhere, QueuesDistinct', OneCoroutine', OneTimer',
         UNCHANGED <<sub, known>>,
         \A r \in Requests : Stays(r) \/ (Placed(r) /\ OnePlace(r)'),
         \A r \in Requests : status'[r] = "cancelled" => status[r] = "cancelled"
  PROVE  Placement' /\ CancelledNowhere'
<1>1. \A r \in Requests : OnePlace(r)' /\ (Placed(r)' => Placed(r))
  BY DEF Placement, Stays, OnePlace, Placed
<1>2. PlacedWasSubmitted' /\ KnownWasAccepted'
  BY <1>1 DEF Placement, PlacedWasSubmitted, KnownWasAccepted
<1>3. CancelledNowhere'
  BY <1>1 DEF CancelledNowhere
<1>. QED  BY <1>1, <1>2, <1>3 DEF Placement

\* The coroutine may go on with r.
MayRun(x, r) == Executes(x, r) \/ (runs[x].pc = "idle" /\ ~Executing(r))

\* A coroutine that works for r goes on or ends, or an idle one begins to.
LEMMA RunUpdate ==
  ASSUME TypeOK, OneCoroutine, NEW x \in Runs, NEW run, NEW r \in Requests,
         runs' = [runs EXCEPT ![x] = run],
         run.pc # "idle" => run.req = r,
         MayRun(x, r)
  PROVE  /\ OneCoroutine'
         /\ \A q \in Requests : q # r => (Executing(q)' <=> Executing(q))
         /\ Executing(r)' <=> run.pc # "idle"
         /\ \A y \in Runs : y # x => runs'[y] = runs[y]
         /\ runs'[x] = run
<1>1. runs'[x] = run /\ \A y \in Runs : y # x => runs'[y] = runs[y]
  BY DEF TypeOK
<1>2. \A q \in Requests : \A y \in Runs : y # x => (Executes(y, q)' <=> Executes(y, q))
  BY <1>1 DEF Executes
<1>3. \A y \in Runs : y # x => ~Executes(y, r)
  BY DEF OneCoroutine, Executing, MayRun
<1>4. \A q \in Requests : q # r => ~Executes(x, q) /\ ~Executes(x, q)'
  BY <1>1 DEF Executes, MayRun
<1>5. Executes(x, r)' <=> run.pc # "idle"
  BY <1>1 DEF Executes
<1>6. \A q \in Requests : q # r => (Executing(q)' <=> Executing(q))
  BY <1>2, <1>4 DEF Executing
<1>7. Executing(r)' <=> run.pc # "idle"
  BY <1>2, <1>3, <1>5 DEF Executing
<1>8. OneCoroutine'
  <2>. SUFFICES ASSUME NEW q \in Requests, NEW y \in Runs, NEW z \in Runs,
                       Executes(y, q)', Executes(z, q)'
                PROVE  y = z
    BY DEF OneCoroutine
  <2>1. CASE q = r
    BY <1>2, <1>3, <2>1
  <2>2. CASE q # r
    BY <1>2, <1>4, <2>2 DEF OneCoroutine
  <2>. QED  BY <2>1, <2>2
<1>. QED  BY <1>1, <1>6, <1>7, <1>8

LEMMA RunGoesOn ==
  ASSUME TypeOK, OneCoroutine, NEW x \in Runs, NEW run, NEW r \in Requests,
         runs' = [runs EXCEPT ![x] = run],
         run.pc # "idle" => run.req = r,
         Executes(x, r)
  PROVE  /\ OneCoroutine'
         /\ \A q \in Requests : q # r => (Executing(q)' <=> Executing(q))
         /\ Executing(r)' <=> run.pc # "idle"
<1>1. MayRun(x, r)
  BY DEF MayRun
<1>. QED  BY <1>1, RunUpdate

\* Retries that are left: a coroutine becomes due to schedule one only with one left.
LEMMA BudgetFollows ==
  ASSUME TypeOK, Budget, NEW x \in Runs, NEW run, NEW r \in Requests,
         runs' = [runs EXCEPT ![x] = run], run.pc # "idle" => run.req = r,
         run.pc = "retryAudit" => RetriesLeft(r),
         UNCHANGED <<retryCount, timers>>
  PROVE  Budget'
<1>1. runs'[x] = run /\ \A y \in Runs : y # x => runs'[y] = runs[y]
  BY DEF TypeOK
<1>. QED  BY <1>1 DEF Budget, RetriesLeft

LEMMA HandledFollows ==
  ASSUME NEW r \in Requests, NEW outcome, NEW onFull,
         onFull.pc # "idle" => onFull.req = r, onFull.pc # "retryAudit"
  PROVE  /\ Handled(r, outcome).pc # "idle" => Handled(r, outcome).req = r
         /\ Handled(r, outcome).pc = "retryAudit" => RetriesLeft(r)
         /\ Released(r, outcome, onFull).pc # "idle" => Released(r, outcome, onFull).req = r
         /\ Released(r, outcome, onFull).pc = "retryAudit" => RetriesLeft(r)
<1>1. /\ Handled(r, outcome).pc # "idle" => Handled(r, outcome).req = r
      /\ Handled(r, outcome).pc = "retryAudit" => RetriesLeft(r)
  BY DEF Handled, Idle, Run
<1>2. CASE ~TriggersNext(r)
  BY <1>1, <1>2 DEF Released
<1>3. CASE TriggersNext(r) /\ QueueFull
  BY <1>1, <1>3 DEF Released
<1>4. CASE TriggersNext(r) /\ ~QueueFull
  BY <1>1, <1>4 DEF Released, Run
<1>. QED  BY <1>1, <1>2, <1>3, <1>4

\* releaseSlot may take the first of a session's queue, into the main queue or,
\* when that is full, nowhere.
LEMMA ReleasePlaces ==
  ASSUME TypeOK, Placement, NEW r \in Requests, ReleaseSlot(r)
  PROVE  /\ QueuesDistinct'
         /\ \A q \in Requests :
              \/ (InQueue(q)' <=> InQueue(q)) /\ (Waits(q)' <=> Waits(q))
              \/ Waits(q) /\ ~Waits(q)' /\ TriggersNext(r)
                 /\ (InQueue(q)' <=> ~QueueFull)
<1>1. CASE ~TriggersNext(r)
  <2>1. UNCHANGED <<queue, sessionQueue>>
    BY <1>1 DEF ReleaseSlot, TriggerNext
  <2>. QED  BY <2>1 DEF Placement, QueuesDistinct, InQueue, Waits, Waiting
<1>2. CASE TriggersNext(r)
  <2>. DEFINE s == SessionOf[r]
  <2>1. s \in Sessions /\ sessionQueue[s] \in Seq(Requests) /\ sessionQueue[s] # <<>>
        /\ sessionQueue \in [Sessions -> Seq(Requests)]
    BY <1>2, ConstantsAssumption DEF TypeOK, TriggersNext
  <2>2. Distinct(sessionQueue[s])
    BY <2>1 DEF Placement, QueuesDistinct
  <2>0. PICK h \in Requests : h = Head(sessionQueue[s])
    BY <2>1
  <2>3. /\ Distinct(Tail(sessionQueue[s])) /\ Tail(sessionQueue[s]) \in Seq(Requests)
        /\ ToSet(Tail(sessionQueue[s])) = ToSet(sessionQueue[s]) \ {h}
        /\ h \in ToSet(sessionQueue[s])
    BY <2>1, <2>2, <2>0, TailDistinct
  <2>4. SessionOf[h] = s
    BY <2>1, <2>3, ToSetElements DEF Placement, QueuesDistinct, Waiting
  <2>5. Waits(h) /\ ~InQueue(h)
    BY <2>3, <2>4 DEF Waits, Waiting, Placement, OnePlace
  <2>6. /\ sessionQueue' = [sessionQueue EXCEPT ![s] = Tail(sessionQueue[s])]
        /\ queue' = Enqueue(queue, h)
    BY <1>2, <2>0 DEF ReleaseSlot, TriggerNext
  <2>. HIDE DEF s
  <2>7. /\ Distinct(queue')
        /\ ToSet(queue') = IF QueueFull THEN ToSet(queue) ELSE ToSet(queue) \cup {h}
    BY <2>4, <2>5, <2>6, EnqueueDistinct DEF Placement, QueuesDistinct
  <2>8. /\ Waiting(s)' = Waiting(s) \ {h}
        /\ \A t \in Sessions : t # s => sessionQueue'[t] = sessionQueue[t]
        /\ Distinct(sessionQueue'[s])
    BY <2>1, <2>3, <2>6 DEF Waiting
  <2>9. \A t \in Sessions : t # s => Waiting(t)' = Waiting(t)
    BY <2>8 DEF Waiting
  <2>10. QueuesDistinct'
    BY <2>7, <2>8, <2>9 DEF Placement, QueuesDistinct
  <2>11. ASSUME NEW q \in Requests, q # h
         PROVE  (InQueue(q)' <=> InQueue(q)) /\ (Waits(q)' <=> Waits(q))
    <3>1. InQueue(q)' <=> InQueue(q)
      BY <2>7, <2>11 DEF InQueue
    <3>2. SessionOf[q] \in Sessions
      BY ConstantsAssumption
    <3>3. Waits(q)' <=> Waits(q)
      BY <2>8, <2>9, <2>11, <3>2 DEF Waits
    <3>. QED  BY <3>1, <3>3
  <2>12. ~Waits(h)' /\ (InQueue(h)' <=> ~QueueFull)
    <3>1. h \notin Waiting(s)'
      BY <2>8
    <3>2. ~Waits(h)'
      BY <2>4, <3>1 DEF Waits, Waiting
    <3>3. InQueue(h)' <=> ~QueueFull
      BY <2>5, <2>7 DEF InQueue
    <3>. QED  BY <3>2, <3>3
  <2>13. ASSUME NEW q \in Requests
         PROVE  \/ (InQueue(q)' <=> InQueue(q)) /\ (Waits(q)' <=> Waits(q))
                \/ Waits(q) /\ ~Waits(q)' /\ TriggersNext(r) /\ (InQueue(q)' <=> ~QueueFull)
    <3>1. CASE q = h
      BY <1>2, <2>5, <2>12, <3>1
    <3>2. CASE q # h
      BY <2>11, <3>2
    <3>. QED  BY <3>1, <3>2
  <2>. QED  BY <2>10, <2>13
<1>. QED  BY <1>1, <1>2

\* A coroutine goes on with its request, or ends, and nothing else moves.
LEMMA RunPlaces ==
  ASSUME PlaceInv, NEW x \in Runs, NEW run, NEW r \in Requests, Executes(x, r),
         runs' = [runs EXCEPT ![x] = run], run.pc # "idle" => run.req = r,
         run.pc = "retryAudit" => RetriesLeft(r),
         UNCHANGED <<sub, known, queue, sessionQueue, timers, retryCount, assigned>>,
         \A q \in Requests : status'[q] = "cancelled" => status[q] = "cancelled"
  PROVE  Placement' /\ Budget' /\ CancelledNowhere'
<1>0. TypeOK /\ OneCoroutine
  BY DEF PlaceInv, Placement
<1>1. /\ OneCoroutine'
      /\ \A q \in Requests : q # r => (Executing(q)' <=> Executing(q))
      /\ Executing(r)' <=> run.pc # "idle"
  BY <1>0, RunGoesOn
<1>2. QueuesDistinct' /\ OneTimer'
  BY DEF PlaceInv, Placement, QueuesDistinct, OneTimer, Waiting
<1>3. Executing(r)
  BY DEF Executing
<1>4. \A q \in Requests : Stays(q)
  BY <1>1, <1>3 DEF Stays, InQueue, Waits, Waiting, Timed, Assigned
<1>5. Placement' /\ CancelledNowhere'
  BY <1>1, <1>2, <1>4, PlacementFollows DEF PlaceInv
<1>6. Budget'
  BY BudgetFollows DEF PlaceInv
<1>. QED  BY <1>5, <1>6

LEMMA RunMayGoOn ==
  ASSUME PlaceInv, NEW x \in Runs, NEW run, NEW r \in Requests,
         runs' = [runs EXCEPT ![x] = run], run.pc # "idle" => run.req = r, MayRun(x, r)
  PROVE  /\ OneCoroutine'
         /\ \A q \in Requests : q # r => (Executing(q)' <=> Executing(q))
         /\ Executing(r)' <=> run.pc # "idle"
BY RunUpdate DEF PlaceInv, Placement

\* The same with releaseSlot, for a coroutine or a task of a kernel worker.
LEMMA ReleaseKeepsPlaces ==
  ASSUME PlaceInv, NEW x \in Runs, NEW run, NEW r \in Requests, ReleaseSlot(r),
         runs' = [runs EXCEPT ![x] = run], run.pc # "idle" => run.req = r,
         run.pc = "retryAudit" => RetriesLeft(r),
         \/ Executes(x, r) /\ assigned' = assigned
         \/ runs[x].pc = "idle" /\ r \in assigned /\ assigned' = assigned \ {r},
         UNCHANGED <<sub, known, timers, retryCount>>,
         \A q \in Requests : status'[q] = "cancelled" => status[q] = "cancelled"
  PROVE  Placement' /\ Budget' /\ CancelledNowhere'
<1>1. Placed(r) /\ ~InQueue(r) /\ ~Waits(r) /\ ~Timed(r)
  BY DEF PlaceInv, Placement, OnePlace, Placed, Executing, Assigned
<1>2. MayRun(x, r)
  BY DEF PlaceInv, Placement, OnePlace, Assigned, MayRun
<1>3. /\ OneCoroutine'
      /\ \A q \in Requests : q # r => (Executing(q)' <=> Executing(q))
      /\ Executing(r)' <=> run.pc # "idle"
  BY <1>2, RunMayGoOn
<1>4. QueuesDistinct'
  BY ReleasePlaces DEF PlaceInv
<1>5. OneTimer' /\ \A q \in Requests : Timed(q)' <=> Timed(q)
  BY DEF PlaceInv, Placement, OneTimer, Timed
<1>6. \A q \in Requests : q # r => (Assigned(q)' <=> Assigned(q))
  BY DEF Assigned
<1>7. Assigned(r)' => ~Executing(r)'
  <2>1. CASE Executes(x, r) /\ assigned' = assigned
    <3>1. ~Assigned(r)
      BY <2>1 DEF PlaceInv, Placement, OnePlace, Executing
    <3>. QED  BY <2>1, <3>1 DEF Assigned
  <2>2. CASE assigned' = assigned \ {r}
    BY <2>2 DEF Assigned
  <2>. QED  BY <2>1, <2>2
<1>8. /\ ~InQueue(r)' /\ ~Waits(r)' /\ ~Timed(r)'
  <2>1. \/ (InQueue(r)' <=> InQueue(r)) /\ (Waits(r)' <=> Waits(r))
        \/ Waits(r)
    BY ReleasePlaces DEF PlaceInv
  <2>. QED  BY <1>1, <1>5, <2>1
<1>9. Placed(r) /\ OnePlace(r)'
  BY <1>1, <1>7, <1>8 DEF OnePlace
<1>10. ASSUME NEW q \in Requests, q # r
       PROVE  Stays(q) \/ (Placed(q) /\ OnePlace(q)')
  <2>1. CASE (InQueue(q)' <=> InQueue(q)) /\ (Waits(q)' <=> Waits(q))
    BY <1>3, <1>5, <1>6, <1>10, <2>1 DEF Stays
  <2>2. CASE Waits(q) /\ ~Waits(q)'
    <3>1. ~Executing(q) /\ ~Timed(q) /\ ~Assigned(q)
      BY <2>2 DEF PlaceInv, Placement, OnePlace
    <3>. QED  BY <1>3, <1>5, <1>6, <1>10, <2>2, <3>1 DEF OnePlace, Placed
  <2>. QED  BY <2>1, <2>2, ReleasePlaces DEF PlaceInv
<1>11. Placement' /\ CancelledNowhere'
  BY <1>3, <1>4, <1>5, <1>9, <1>10, PlacementFollows DEF PlaceInv
<1>12. Budget'
  BY BudgetFollows DEF PlaceInv
<1>. QED  BY <1>11, <1>12

LEMMA HandledStatusNotCancelled ==
  ASSUME NEW r \in Requests, NEW outcome, HandledStatus(r, outcome) = "cancelled"
  PROVE  status[r] = "cancelled"
BY DEF HandledStatus

\* The request a coroutine works for.
LEMMA RunRequest ==
  ASSUME TypeOK, NEW x \in Runs, runs[x].pc # "idle"
  PROVE  \E r \in Requests : r = runs[x].req /\ Executes(x, r)
BY DEF TypeOK, Executes

LEMMA CoroutinePlaces ==
  ASSUME PlaceInv, NEW x \in Runs, Coroutine(x), ~Schedule(x), ~ScheduleRetry(x)
  PROVE  Placement' /\ Budget' /\ CancelledNowhere'
<1>. USE DEF clientVars, taskVars, queueVars, streamVars
<1>0. TypeOK
  BY DEF PlaceInv
<1>1. runs[x].pc # "idle"
  BY DEF Coroutine, StartProcessing, PrimeAnswers, FinishSuccess, PrimeFails, ResumeReleased,
         CatchOverflow, GiveUp
<1>2. PICK r \in Requests : r = runs[x].req /\ Executes(x, r)
  BY <1>0, <1>1, RunRequest
<1>3. CASE StartProcessing(x)
  <2>1. /\ runs' = [runs EXCEPT ![x] = Run("calling", r, "ok")]
        /\ UNCHANGED <<sub, known, queue, sessionQueue, timers, retryCount, assigned>>
        /\ status' = [status EXCEPT ![r] = "processing"]
    BY <1>2, <1>3 DEF StartProcessing
  <2>2. \A q \in Requests : status'[q] = "cancelled" => status[q] = "cancelled"
    BY <1>0, <2>1 DEF TypeOK
  <2>3. Run("calling", r, "ok").req = r /\ Run("calling", r, "ok").pc = "calling"
    BY DEF Run
  <2>. QED  BY <1>2, <2>1, <2>2, <2>3, RunPlaces
<1>4. ASSUME NEW reply \in {Completed, Failed}, PrimeAnswers(x, reply)
      PROVE  Placement' /\ Budget' /\ CancelledNowhere'
  <2>. DEFINE run == Run("completing", r, IF reply = Failed THEN "fatal" ELSE "ok")
  <2>1. /\ runs' = [runs EXCEPT ![x] = run]
        /\ UNCHANGED <<sub, known, queue, sessionQueue, timers, retryCount, assigned>>
        /\ status' = [status EXCEPT ![r] = "completed"]
    BY <1>2, <1>4 DEF PrimeAnswers
  <2>2. \A q \in Requests : status'[q] = "cancelled" => status[q] = "cancelled"
    BY <1>0, <2>1 DEF TypeOK
  <2>3. run.req = r /\ run.pc = "completing"
    BY DEF Run
  <2>. HIDE DEF run
  <2>. QED  BY <1>2, <2>1, <2>2, <2>3, RunPlaces
<1>5. CASE ResumeReleased(x)
  <2>1. /\ runs' = [runs EXCEPT ![x] = Handled(r, runs[x].outcome)]
        /\ UNCHANGED <<sub, known, queue, sessionQueue, timers, retryCount, assigned>>
        /\ status' = [status EXCEPT ![r] = HandledStatus(r, runs[x].outcome)]
    BY <1>2, <1>5 DEF ResumeReleased
  <2>2. \A q \in Requests : status'[q] = "cancelled" => status[q] = "cancelled"
    BY <1>0, <2>1, HandledStatusNotCancelled DEF TypeOK
  <2>3. /\ Handled(r, runs[x].outcome).pc # "idle" => Handled(r, runs[x].outcome).req = r
        /\ Handled(r, runs[x].outcome).pc = "retryAudit" => RetriesLeft(r)
    BY DEF Handled, Idle, Run
  <2>. QED  BY <1>2, <2>1, <2>2, <2>3, RunPlaces
<1>6. CASE GiveUp(x)
  <2>1. /\ runs' = [runs EXCEPT ![x] = Idle]
        /\ UNCHANGED <<sub, known, queue, sessionQueue, timers, retryCount, assigned>>
        /\ status' = IF r \in known THEN [status EXCEPT ![r] = "failed"] ELSE status
    BY <1>2, <1>6 DEF GiveUp
  <2>2. \A q \in Requests : status'[q] = "cancelled" => status[q] = "cancelled"
    BY <1>0, <2>1 DEF TypeOK
  <2>3. Idle.pc = "idle"
    BY DEF Idle
  <2>. QED  BY <1>2, <2>1, <2>2, <2>3, RunPlaces
<1>. DEFINE overflow == Run("overflow", r, "fatal")
<1>7. overflow.req = r /\ overflow.pc = "overflow" /\ Idle.pc = "idle"
  BY DEF Run, Idle
<1>. HIDE DEF overflow
<1>8. CASE FinishSuccess(x)
  <2>1. /\ runs' = [runs EXCEPT ![x] = Released(r, "ok", overflow)]
        /\ ReleaseSlot(r)
        /\ UNCHANGED <<sub, known, timers, retryCount, assigned>>
        /\ status' = [status EXCEPT ![r] = IF TriggersNext(r) THEN @ ELSE HandledStatus(r, "ok")]
    BY <1>2, <1>8 DEF FinishSuccess, overflow
  <2>2. \A q \in Requests : status'[q] = "cancelled" => status[q] = "cancelled"
    BY <1>0, <2>1, HandledStatusNotCancelled DEF TypeOK
  <2>3. /\ Released(r, "ok", overflow).pc # "idle" => Released(r, "ok", overflow).req = r
        /\ Released(r, "ok", overflow).pc = "retryAudit" => RetriesLeft(r)
    BY <1>7, HandledFollows
  <2>. QED  BY <1>2, <2>1, <2>2, <2>3, ReleaseKeepsPlaces
<1>9. ASSUME NEW outcome \in Failures, NEW orphaned \in BOOLEAN, PrimeFails(x, outcome, orphaned)
      PROVE  Placement' /\ Budget' /\ CancelledNowhere'
  <2>1. /\ runs' = [runs EXCEPT ![x] = Released(r, outcome, overflow)]
        /\ ReleaseSlot(r)
        /\ UNCHANGED <<sub, known, timers, retryCount, assigned>>
        /\ status' = [status EXCEPT ![r] = "failed"]
    BY <1>2, <1>9 DEF PrimeFails, overflow
  <2>2. \A q \in Requests : status'[q] = "cancelled" => status[q] = "cancelled"
    BY <1>0, <2>1 DEF TypeOK
  <2>3. /\ Released(r, outcome, overflow).pc # "idle" => Released(r, outcome, overflow).req = r
        /\ Released(r, outcome, overflow).pc = "retryAudit" => RetriesLeft(r)
    BY <1>7, HandledFollows
  <2>. QED  BY <1>2, <2>1, <2>2, <2>3, ReleaseKeepsPlaces
<1>10. CASE CatchOverflow(x)
  <2>1. /\ runs' = [runs EXCEPT ![x] = Released(r, "fatal", Idle)]
        /\ ReleaseSlot(r)
        /\ UNCHANGED <<sub, known, timers, retryCount, assigned>>
        /\ status' = [status EXCEPT ![r] = IF TriggersNext(r) THEN @ ELSE HandledStatus(r, "fatal")]
    BY <1>2, <1>10 DEF CatchOverflow
  <2>2. \A q \in Requests : status'[q] = "cancelled" => status[q] = "cancelled"
    BY <1>0, <2>1, HandledStatusNotCancelled DEF TypeOK
  <2>3. /\ Released(r, "fatal", Idle).pc # "idle" => Released(r, "fatal", Idle).req = r
        /\ Released(r, "fatal", Idle).pc = "retryAudit" => RetriesLeft(r)
    BY <1>7, HandledFollows
  <2>. QED  BY <1>2, <2>1, <2>2, <2>3, ReleaseKeepsPlaces
<1>. QED  BY <1>3, <1>4, <1>5, <1>6, <1>8, <1>9, <1>10 DEF Coroutine

\* From the main queue to a coroutine.
LEMMA SchedulePlaces ==
  ASSUME PlaceInv, NEW x \in Runs, Schedule(x)
  PROVE  Placement' /\ Budget' /\ CancelledNowhere'
<1>0. TypeOK /\ queue \in Seq(Requests) /\ Distinct(queue)
  BY DEF PlaceInv, Placement, QueuesDistinct, TypeOK
<1>1. HeadIndex \in 1..Len(queue)
  BY <1>0, HeadIndexInDomain DEF Schedule
<1>2. PICK r \in Requests : r = queue[HeadIndex]
  BY <1>0, <1>1
<1>3. InQueue(r)
  BY <1>0, <1>1, <1>2, ToSetElements DEF InQueue
<1>4. Distinct(queue') /\ ToSet(queue') = ToSet(queue) \ {r}
  BY <1>0, <1>1, <1>2, RemoveDistinct DEF Schedule
<1>. DEFINE run == Run("starting", r, "ok")
<1>5. run.req = r /\ run.pc = "starting"
  BY DEF Run
<1>6. /\ runs' = [runs EXCEPT ![x] = run] /\ runs[x].pc = "idle"
      /\ UNCHANGED <<sub, known, sessionQueue, timers, retryCount, assigned>>
      /\ \A q \in Requests : status'[q] = "cancelled" => status[q] = "cancelled"
  BY <1>0, <1>2 DEF Schedule, clientVars, streamVars, Idle, TypeOK
<1>. HIDE DEF run
<1>7. MayRun(x, r)
  BY <1>3, <1>6 DEF PlaceInv, Placement, OnePlace, MayRun
<1>8. /\ OneCoroutine'
      /\ \A q \in Requests : q # r => (Executing(q)' <=> Executing(q))
  BY <1>5, <1>6, <1>7, RunUpdate DEF PlaceInv, Placement
<1>9. QueuesDistinct' /\ OneTimer'
  BY <1>4, <1>6 DEF PlaceInv, Placement, QueuesDistinct, OneTimer, Waiting
<1>10. /\ \A q \in Requests : InQueue(q)' <=> InQueue(q) /\ q # r
       /\ \A q \in Requests : /\ Waits(q)' <=> Waits(q)
                              /\ Timed(q)' <=> Timed(q)
                              /\ Assigned(q)' <=> Assigned(q)
  BY <1>4, <1>6 DEF InQueue, Waits, Waiting, Timed, Assigned
<1>11. Placed(r) /\ OnePlace(r)'
  BY <1>3, <1>10 DEF PlaceInv, Placement, OnePlace, Placed
<1>12. \A q \in Requests : q # r => Stays(q)
  BY <1>8, <1>10 DEF Stays
<1>13. Placement' /\ CancelledNowhere'
  BY <1>6, <1>8, <1>9, <1>11, <1>12, PlacementFollows DEF PlaceInv
<1>14. Budget'
  BY <1>0, <1>5, <1>6, BudgetFollows DEF PlaceInv
<1>. QED  BY <1>13, <1>14

\* From a coroutine to a timer: the retry that was left is the one scheduled.
LEMMA ScheduleRetryPlaces ==
  ASSUME PlaceInv, NEW x \in Runs, ScheduleRetry(x)
  PROVE  Placement' /\ Budget' /\ CancelledNowhere'
<1>0. TypeOK
  BY DEF PlaceInv
<1>1. runs[x].pc = "retryAudit"
  BY DEF ScheduleRetry
<1>2. PICK r \in Requests : r = runs[x].req /\ Executes(x, r)
  BY <1>0, <1>1, RunRequest
<1>3. /\ runs' = [runs EXCEPT ![x] = Idle] /\ Idle.pc = "idle"
      /\ timers' = [timers EXCEPT ![r] = @ + 1]
      /\ UNCHANGED <<sub, known, queue, sessionQueue, retryCount, assigned>>
      /\ \A q \in Requests : status'[q] = "cancelled" => status[q] = "cancelled"
  BY <1>0, <1>2 DEF ScheduleRetry, StartTimer, clientVars, queueVars, streamVars, Idle, TypeOK
<1>4. OneCoroutine' /\ ~Executing(r)'
      /\ \A q \in Requests : q # r => (Executing(q)' <=> Executing(q))
  BY <1>0, <1>2, <1>3, RunGoesOn DEF PlaceInv, Placement
<1>5. Executing(r) /\ timers[r] = 0 /\ timers'[r] = 1
      /\ \A q \in Requests : q # r => timers'[q] = timers[q]
  <2>1. Executing(r) /\ ~Timed(r)
    BY <1>2 DEF PlaceInv, Placement, OnePlace, Executing
  <2>. QED  BY <1>0, <1>3, <2>1 DEF Timed, TypeOK
<1>6. QueuesDistinct' /\ OneTimer'
  BY <1>3, <1>5 DEF PlaceInv, Placement, QueuesDistinct, OneTimer, Waiting
<1>7. /\ \A q \in Requests : /\ InQueue(q)' <=> InQueue(q)
                             /\ Waits(q)' <=> Waits(q)
                             /\ Assigned(q)' <=> Assigned(q)
      /\ \A q \in Requests : q # r => (Timed(q)' <=> Timed(q))
  BY <1>3, <1>5 DEF InQueue, Waits, Waiting, Timed, Assigned
<1>8. Placed(r) /\ OnePlace(r)'
  BY <1>4, <1>5, <1>7 DEF PlaceInv, Placement, OnePlace, Placed
<1>9. \A q \in Requests : q # r => Stays(q)
  BY <1>4, <1>7 DEF Stays
<1>10. Placement' /\ CancelledNowhere'
  BY <1>3, <1>4, <1>6, <1>8, <1>9, PlacementFollows DEF PlaceInv
<1>11. Budget'
  <2>1. retryCount[r] < MaxRetries
    BY <1>1, <1>2 DEF PlaceInv, Budget
  <2>2. \A q \in Requests : retryCount'[q] + timers'[q] <= MaxRetries
    BY <1>0, <1>3, <1>5, <2>1, ConstantsAssumption DEF PlaceInv, Budget, TypeOK
  <2>3. \A y \in Runs : runs'[y].pc = "retryAudit" => retryCount'[runs'[y].req] < MaxRetries
    BY <1>0, <1>3 DEF PlaceInv, Budget, TypeOK
  <2>. QED  BY <2>2, <2>3 DEF Budget
<1>. QED  BY <1>10, <1>11

\* From a timer to the main queue, unless it is full; the retry is now counted.
LEMMA TimerFiresPlaces ==
  ASSUME PlaceInv, NEW r \in Requests, TimerFires(r)
  PROVE  Placement' /\ Budget' /\ CancelledNowhere'
<1>0. TypeOK
  BY DEF PlaceInv
<1>1. /\ timers' = [timers EXCEPT ![r] = @ - 1] /\ Timed(r)
      /\ retryCount' = [retryCount EXCEPT ![r] = @ + 1]
      /\ status' = [status EXCEPT ![r] = "retrying"]
      /\ queue' = Enqueue(queue, r)
      /\ UNCHANGED <<sub, known, sessionQueue, runs, assigned>>
  BY DEF TimerFires, clientVars, streamVars, Timed
<1>2. ~InQueue(r) /\ ~Waits(r) /\ ~Executing(r) /\ ~Assigned(r)
  BY <1>1 DEF PlaceInv, Placement, OnePlace
<1>3. timers[r] = 1 /\ timers'[r] = 0 /\ \A q \in Requests : q # r => timers'[q] = timers[q]
  <2>1. timers[r] <= 1 /\ timers[r] > 0
    BY <1>1 DEF PlaceInv, Placement, OneTimer, Timed
  <2>. QED  BY <1>0, <1>1, <2>1 DEF TypeOK
<1>4. Distinct(queue') /\ ToSet(queue') \subseteq ToSet(queue) \cup {r}
  BY <1>0, <1>1, <1>2, EnqueueDistinct DEF PlaceInv, Placement, QueuesDistinct
<1>5. QueuesDistinct' /\ OneTimer' /\ OneCoroutine'
  BY <1>1, <1>3, <1>4 DEF PlaceInv, Placement, QueuesDistinct, OneTimer, Waiting, OneCoroutine,
                          Executes
<1>6. /\ \A q \in Requests : q # r => (InQueue(q)' => InQueue(q)) /\ (Timed(q)' <=> Timed(q))
      /\ \A q \in Requests : /\ Waits(q)' <=> Waits(q)
                             /\ Executing(q)' <=> Executing(q)
                             /\ Assigned(q)' <=> Assigned(q)
      /\ ~Timed(r)'
  BY <1>1, <1>3, <1>4 DEF InQueue, Waits, Waiting, Timed, Assigned, Executing, Executes
<1>7. Placed(r) /\ OnePlace(r)'
  BY <1>1, <1>2, <1>6 DEF OnePlace, Placed
<1>8. \A q \in Requests : q # r => Stays(q)
  BY <1>6 DEF Stays
<1>9. \A q \in Requests : status'[q] = "cancelled" => status[q] = "cancelled"
  BY <1>0, <1>1 DEF TypeOK
<1>10. Placement' /\ CancelledNowhere'
  BY <1>1, <1>5, <1>7, <1>8, <1>9, PlacementFollows DEF PlaceInv
<1>11. Budget'
  <2>1. \A q \in Requests : retryCount'[q] + timers'[q] = retryCount[q] + timers[q]
    BY <1>0, <1>1, <1>3 DEF TypeOK
  <2>2. \A y \in Runs : runs[y].pc # "idle" => runs[y].req # r
    BY <1>2 DEF Executing, Executes
  <2>3. ASSUME NEW y \in Runs, runs'[y].pc = "retryAudit"
        PROVE  retryCount'[runs'[y].req] < MaxRetries
    <3>1. runs[y].pc = "retryAudit" /\ runs[y].req \in Requests /\ runs[y].req # r
      BY <1>0, <1>1, <2>2, <2>3 DEF TypeOK
    <3>2. retryCount'[runs[y].req] = retryCount[runs[y].req]
      BY <1>0, <1>1, <3>1 DEF TypeOK
    <3>. QED  BY <1>1, <3>1, <3>2 DEF PlaceInv, Budget
  <2>. QED  BY <2>1, <2>3 DEF PlaceInv, Budget
<1>. QED  BY <1>10, <1>11

\* A cancelled request was in the main queue, and so nowhere else.
LEMMA CancelPlaces ==
  ASSUME PlaceInv, NEW r \in Requests, CancelRequest(r)
  PROVE  Placement' /\ Budget' /\ CancelledNowhere'
<1>0. TypeOK /\ queue \in Seq(Requests) /\ Distinct(queue)
  BY DEF PlaceInv, Placement, QueuesDistinct, TypeOK
<1>1. PICK i \in 1..Len(queue) : queue[i] = r /\ queue' = RemoveAt(queue, i)
  BY <1>0 DEF CancelRequest, RemoveFromQueue
<1>2. Distinct(queue') /\ ToSet(queue') = ToSet(queue) \ {r} /\ r \in ToSet(queue)
  BY <1>0, <1>1, RemoveDistinct, ToSetElements
<1>3. /\ UNCHANGED <<sub, known, retryCount, sessionQueue, runs, timers, assigned>>
      /\ status' = [status EXCEPT ![r] = "cancelled"] /\ r \in known
  BY DEF CancelRequest, clientVars, streamVars
<1>4. /\ \A q \in Requests : InQueue(q)' <=> InQueue(q) /\ q # r
      /\ \A q \in Requests : /\ Waits(q)' <=> Waits(q)
                             /\ Executing(q)' <=> Executing(q)
                             /\ Timed(q)' <=> Timed(q)
                             /\ Assigned(q)' <=> Assigned(q)
  BY <1>2, <1>3 DEF InQueue, Waits, Waiting, Timed, Assigned, Executing, Executes
<1>5. ~Placed(r)'
  BY <1>2, <1>4 DEF PlaceInv, Placement, OnePlace, Placed, InQueue
<1>6. \A q \in Requests : OnePlace(q)' /\ (Placed(q)' => Placed(q))
  BY <1>4 DEF PlaceInv, Placement, OnePlace, Placed
<1>7. QueuesDistinct' /\ OneTimer' /\ OneCoroutine'
  BY <1>2, <1>3 DEF PlaceInv, Placement, QueuesDistinct, OneTimer, Waiting, OneCoroutine, Executes
<1>8. PlacedWasSubmitted' /\ KnownWasAccepted'
  BY <1>3, <1>6 DEF PlaceInv, Placement, PlacedWasSubmitted, KnownWasAccepted
<1>9. sub[r] = "accepted"
  BY <1>3 DEF PlaceInv, Placement, KnownWasAccepted
<1>10. \A q \in Requests : q # r => status'[q] = status[q]
  BY <1>0, <1>3 DEF TypeOK
<1>11. CancelledNowhere'
  BY <1>3, <1>5, <1>6, <1>9, <1>10 DEF PlaceInv, CancelledNowhere
<1>12. Budget'
  BY <1>3 DEF PlaceInv, Budget
<1>. QED  BY <1>6, <1>7, <1>8, <1>11, <1>12 DEF Placement

\* The whole queue goes to a kernel worker.
LEMMA WorkerConnectsPlaces ==
  ASSUME PlaceInv, NEW w \in Workers, WorkerConnects(w)
  PROVE  Placement' /\ Budget' /\ CancelledNowhere'
<1>0. TypeOK
  BY DEF PlaceInv
<1>1. /\ UNCHANGED <<sub, known, retryCount, sessionQueue, runs, timers>>
      /\ queue' = <<>> /\ assigned' = assigned \cup ToSet(queue)
      /\ status' = [r \in Requests |-> IF r \in ToSet(queue) THEN "processing" ELSE status[r]]
  BY DEF WorkerConnects, clientVars
<1>2. \A q \in Requests : /\ ~InQueue(q)'
                          /\ Waits(q)' <=> Waits(q)
                          /\ Executing(q)' <=> Executing(q)
                          /\ Timed(q)' <=> Timed(q)
                          /\ Assigned(q)' <=> Assigned(q) \/ InQueue(q)
  BY <1>1, ToSetEmpty DEF InQueue, Waits, Waiting, Timed, Assigned, Executing, Executes
<1>3. ASSUME NEW q \in Requests  PROVE Stays(q) \/ (Placed(q) /\ OnePlace(q)')
  BY <1>2 DEF PlaceInv, Placement, OnePlace, Placed, Stays
<1>4. Distinct(queue')
  BY <1>1 DEF Distinct
<1>5. QueuesDistinct' /\ OneTimer' /\ OneCoroutine'
  BY <1>1, <1>4 DEF PlaceInv, Placement, QueuesDistinct, OneTimer, Waiting, OneCoroutine, Executes
<1>6. \A q \in Requests : status'[q] = "cancelled" => status[q] = "cancelled"
  BY <1>1
<1>7. Placement' /\ CancelledNowhere'
  BY <1>1, <1>3, <1>5, <1>6, PlacementFollows DEF PlaceInv
<1>8. Budget'
  BY <1>1 DEF PlaceInv, Budget
<1>. QED  BY <1>7, <1>8

LEMMA TaskCompletePlaces ==
  ASSUME PlaceInv, NEW x \in Runs, NEW r \in Requests, NEW outcome \in Outcomes,
         TaskComplete(x, r, outcome)
  PROVE  Placement' /\ Budget' /\ CancelledNowhere'
<1>0. TypeOK /\ Idle.pc = "idle"
  BY DEF PlaceInv, Idle
<1>1. /\ r \in assigned /\ assigned' = assigned \ {r} /\ runs[x].pc = "idle"
      /\ UNCHANGED <<sub, known, timers, retryCount>>
  BY <1>0 DEF TaskComplete, clientVars
<1>2. CASE r \notin known
  <2>1. UNCHANGED <<status, queue, sessionQueue, runs>>
    BY <1>2 DEF TaskComplete, queueVars
  <2>2. \A q \in Requests : Stays(q)
    BY <1>1, <2>1 DEF Stays, InQueue, Waits, Waiting, Timed, Assigned, Executing, Executes
  <2>3. QueuesDistinct' /\ OneTimer' /\ OneCoroutine'
    BY <1>1, <2>1 DEF PlaceInv, Placement, QueuesDistinct, OneTimer, Waiting, OneCoroutine, Executes
  <2>4. Placement' /\ CancelledNowhere'
    BY <1>1, <2>1, <2>2, <2>3, PlacementFollows DEF PlaceInv
  <2>5. Budget'
    BY <1>1, <2>1 DEF PlaceInv, Budget
  <2>. QED  BY <2>4, <2>5
<1>3. CASE r \in known
  <2>1. /\ ReleaseSlot(r) /\ runs' = [runs EXCEPT ![x] = Released(r, outcome, Idle)]
        /\ status' = [status EXCEPT ![r] = IF outcome = "ok" THEN "completed" ELSE "failed"]
    BY <1>3 DEF TaskComplete
  <2>2. /\ Released(r, outcome, Idle).pc # "idle" => Released(r, outcome, Idle).req = r
        /\ Released(r, outcome, Idle).pc = "retryAudit" => RetriesLeft(r)
    BY <1>0, HandledFollows
  <2>3. \A q \in Requests : status'[q] = "cancelled" => status[q] = "cancelled"
    BY <1>0, <2>1 DEF TypeOK
  <2>. QED  BY <1>1, <2>1, <2>2, <2>3, ReleaseKeepsPlaces
<1>. QED  BY <1>2, <1>3

\* A request that is submitted was nowhere.
LEMMA SubmissionPlaces ==
  ASSUME PlaceInv, NEW r \in Requests, SubmitReceive(r) \/ Submission(r)
  PROVE  Placement' /\ Budget' /\ CancelledNowhere'
<1>0. TypeOK
  BY DEF PlaceInv
<1>1. /\ UNCHANGED <<status, retryCount, runs, timers, assigned>>
      /\ \A q \in Requests : q # r => sub'[q] = sub[q]
      /\ known' \subseteq known \cup {r}
      /\ sub[r] # "accepted"
  BY <1>0 DEF SubmitReceive, Submission, SubmitRoute, SubmitReply, SubmitReject, taskVars,
              streamVars, TypeOK
<1>2. Budget'
  BY <1>1 DEF PlaceInv, Budget
<1>3. sub[r] # "accepted" /\ status[r] # "cancelled" /\ r \notin known
  BY <1>1 DEF PlaceInv, Placement, KnownWasAccepted, CancelledNowhere
<1>4. \A q \in Requests : /\ Executing(q)' <=> Executing(q)
                          /\ Timed(q)' <=> Timed(q)
                          /\ Assigned(q)' <=> Assigned(q)
  BY <1>1 DEF Timed, Assigned, Executing, Executes
<1>5. OneTimer' /\ OneCoroutine'
  BY <1>1 DEF PlaceInv, Placement, OneTimer, OneCoroutine, Executes
<1>6. ASSUME QueuesDistinct',
             \A q \in Requests : q # r => (InQueue(q)' <=> InQueue(q)) /\ (Waits(q)' <=> Waits(q)),
             OnePlace(r)', Placed(r)' => sub'[r] \in Submitted,
             r \in known' => sub'[r] = "accepted"
      PROVE  Placement' /\ CancelledNowhere'
  <2>1. \A q \in Requests : q # r => OnePlace(q)' /\ (Placed(q)' <=> Placed(q))
    BY <1>4, <1>6 DEF PlaceInv, Placement, OnePlace, Placed
  <2>2. PlacedWasSubmitted' /\ KnownWasAccepted'
    BY <1>0, <1>1, <1>6, <2>1 DEF PlaceInv, Placement, PlacedWasSubmitted, KnownWasAccepted,
                                  Submitted, TypeOK
  <2>3. CancelledNowhere'
    BY <1>1, <1>3, <2>1 DEF PlaceInv, CancelledNowhere
  <2>. QED  BY <1>5, <1>6, <2>1, <2>2, <2>3 DEF Placement
<1>7. CASE SubmitReceive(r) \/ SubmitReply(r) \/ SubmitReject(r)
  <2>1. UNCHANGED <<queue, sessionQueue>>
    BY <1>7 DEF SubmitReceive, SubmitReply, SubmitReject, queueVars
  <2>2. /\ QueuesDistinct'
        /\ \A q \in Requests : (InQueue(q)' <=> InQueue(q)) /\ (Waits(q)' <=> Waits(q))
    BY <2>1 DEF PlaceInv, Placement, QueuesDistinct, InQueue, Waits, Waiting
  <2>3. OnePlace(r)' /\ (Placed(r)' <=> Placed(r))
    BY <1>4, <2>2 DEF PlaceInv, Placement, OnePlace, Placed
  <2>4. Placed(r)' => sub'[r] \in Submitted
    BY <1>0, <1>7, <2>3 DEF SubmitReceive, SubmitReply, SubmitReject, PlaceInv, Placement,
                            PlacedWasSubmitted, Submitted, TypeOK
  <2>5. r \in known' => sub'[r] = "accepted"
    BY <1>0, <1>3, <1>7 DEF SubmitReceive, SubmitReply, SubmitReject, TypeOK, taskVars
  <2>. QED  BY <1>2, <1>6, <2>2, <2>3, <2>4, <2>5
<1>8. CASE SubmitRoute(r)
  <2>1. ~Placed(r) /\ known' = known
    BY <1>8 DEF SubmitRoute, taskVars, PlaceInv, Placement, PlacedWasSubmitted
  <2>2. CASE SessionOf[r] \in processing
    <3>. DEFINE s == SessionOf[r]
    <3>1. /\ UNCHANGED queue /\ sub' = [sub EXCEPT ![r] = "logged"]
          /\ sessionQueue' = [sessionQueue EXCEPT ![s] = Append(@, r)]
          /\ s \in Sessions /\ sessionQueue[s] \in Seq(Requests)
      BY <1>0, <1>8, <2>2, ConstantsAssumption DEF SubmitRoute, TypeOK
    <3>2. Distinct(sessionQueue[s]) /\ r \notin ToSet(sessionQueue[s])
      BY <2>1, <3>1 DEF PlaceInv, Placement, QueuesDistinct, Placed, Waits, Waiting
    <3>3. /\ Distinct(Append(sessionQueue[s], r))
          /\ ToSet(Append(sessionQueue[s], r)) = ToSet(sessionQueue[s]) \cup {r}
      BY <3>1, <3>2, AppendDistinct
    <3>. HIDE DEF s
    <3>4. /\ Distinct(sessionQueue'[s]) /\ Waiting(s)' = Waiting(s) \cup {r}
          /\ \A t \in Sessions : t # s => sessionQueue'[t] = sessionQueue[t]
      BY <1>0, <3>1, <3>3 DEF Waiting, TypeOK
    <3>5. \A t \in Sessions : t # s => Waiting(t)' = Waiting(t)
      BY <3>4 DEF Waiting
    <3>6. SessionOf[r] = s
      BY DEF s
    <3>7. QueuesDistinct'
      BY <3>1, <3>4, <3>5, <3>6 DEF PlaceInv, Placement, QueuesDistinct
    <3>8. ASSUME NEW q \in Requests
          PROVE  (InQueue(q)' <=> InQueue(q)) /\ (q # r => (Waits(q)' <=> Waits(q)))
      <4>1. InQueue(q)' <=> InQueue(q)
        BY <3>1 DEF InQueue
      <4>2. SessionOf[q] \in Sessions
        BY ConstantsAssumption
      <4>3. q # r => (Waits(q)' <=> Waits(q))
        BY <3>4, <3>5, <4>2 DEF Waits
      <4>. QED  BY <4>1, <4>3
    <3>9. OnePlace(r)'
      BY <1>4, <2>1, <3>8 DEF OnePlace, Placed
    <3>10. sub'[r] = "logged"
      BY <1>0, <3>1 DEF TypeOK
    <3>. QED  BY <1>2, <1>3, <1>6, <2>1, <3>7, <3>8, <3>9, <3>10 DEF Submitted
  <2>3. CASE SessionOf[r] \notin processing
    <3>1. /\ UNCHANGED sessionQueue /\ queue' = Enqueue(queue, r)
          /\ sub' = [sub EXCEPT ![r] = IF QueueFull THEN "rejecting" ELSE "logged"]
      BY <1>8, <2>3 DEF SubmitRoute
    <3>2. /\ Distinct(queue')
          /\ ToSet(queue') = IF QueueFull THEN ToSet(queue) ELSE ToSet(queue) \cup {r}
      BY <1>0, <2>1, <3>1, EnqueueDistinct DEF PlaceInv, Placement, QueuesDistinct, Placed
    <3>3. \A q \in Requests : /\ q # r => (InQueue(q)' <=> InQueue(q))
                              /\ Waits(q)' <=> Waits(q)
      BY <3>1, <3>2 DEF InQueue, Waits, Waiting
    <3>4. InQueue(r)' <=> ~QueueFull
      BY <2>1, <3>2 DEF InQueue, Placed
    <3>5. QueuesDistinct'
      BY <3>1, <3>2 DEF PlaceInv, Placement, QueuesDistinct, Waiting
    <3>6. OnePlace(r)' /\ (Placed(r)' => ~QueueFull)
      BY <1>4, <2>1, <3>3, <3>4 DEF OnePlace, Placed
    <3>7. ~QueueFull => sub'[r] = "logged"
      BY <1>0, <3>1 DEF TypeOK
    <3>. QED  BY <1>2, <1>3, <1>6, <2>1, <3>3, <3>5, <3>6, <3>7 DEF Submitted
  <2>. QED  BY <2>2, <2>3
<1>. QED  BY <1>7, <1>8 DEF Submission

\* All state is in memory.
LEMMA ProcessEndsPlaces ==
  ASSUME TypeOK, ProcessEnds
  PROVE  Placement' /\ Budget' /\ CancelledNowhere'
<1>1. /\ queue' = <<>> /\ sessionQueue' = [s \in Sessions |-> <<>>]
      /\ runs' = [x \in Runs |-> Idle] /\ Idle.pc = "idle"
      /\ timers' = [r \in Requests |-> 0] /\ retryCount' = [r \in Requests |-> 0]
      /\ assigned' = {} /\ known' = {} /\ status' = [r \in Requests |-> "queued"]
  BY DEF ProcessEnds, Idle
<1>2. \A r \in Requests : ~Placed(r)'
  <2>1. \A r \in Requests : /\ ~InQueue(r)' /\ ~Executing(r)' /\ ~Timed(r)' /\ ~Assigned(r)'
    BY <1>1, ToSetEmpty DEF InQueue, Executing, Executes, Timed, Assigned
  <2>2. \A r \in Requests : ~Waits(r)'
    <3>1. \A r \in Requests : SessionOf[r] \in Sessions
      BY ConstantsAssumption
    <3>. QED  BY <1>1, <3>1, ToSetEmpty DEF Waits, Waiting
  <2>. QED  BY <2>1, <2>2 DEF Placed
<1>3. QueuesDistinct'
  BY <1>1, ToSetEmpty DEF QueuesDistinct, Distinct, Waiting
<1>4. OneTimer' /\ OneCoroutine' /\ KnownWasAccepted'
  BY <1>1 DEF OneTimer, OneCoroutine, Executes, KnownWasAccepted
<1>5. Placement'
  BY <1>2, <1>3, <1>4 DEF Placement, PlacedWasSubmitted, OnePlace, Placed
<1>6. Budget' /\ CancelledNowhere'
  BY <1>1, ConstantsAssumption DEF Budget, CancelledNowhere
<1>. QED  BY <1>5, <1>6

\* A step that moves no request and settles none.
LEMMA PlacesUnchanged ==
  ASSUME PlaceInv,
         UNCHANGED <<sub, known, status, retryCount, queue, sessionQueue, runs, timers, assigned>>
  PROVE  Placement' /\ Budget' /\ CancelledNowhere'
<1>1. \A q \in Requests : Stays(q)
  BY DEF Stays, InQueue, Waits, Waiting, Timed, Assigned, Executing, Executes
<1>2. QueuesDistinct' /\ OneTimer' /\ OneCoroutine'
  BY DEF PlaceInv, Placement, QueuesDistinct, OneTimer, Waiting, OneCoroutine, Executes
<1>3. Placement' /\ CancelledNowhere'
  BY <1>1, <1>2, PlacementFollows DEF PlaceInv
<1>. QED  BY <1>3 DEF PlaceInv, Budget

LEMMA PlaceInvStep ==
  ASSUME MaxManualRetries = 0
  PROVE  PlaceInv /\ [Next]_vars => PlaceInv'
<1>. SUFFICES ASSUME PlaceInv, [Next]_vars  PROVE PlaceInv'
  OBVIOUS
<1>. DEFINE Goal == Placement' /\ Budget' /\ CancelledNowhere'
<1>0. TypeOK /\ TypeOK'
  BY TypeStep DEF PlaceInv
<1>a. SUFFICES Goal
  BY <1>0 DEF PlaceInv
<1>b. CASE UNCHANGED <<sub, known, status, retryCount, queue, sessionQueue, runs, timers, assigned>>
  BY <1>b, PlacesUnchanged
<1>1. ASSUME NEW r \in Requests, SubmitReceive(r) \/ Submission(r)  PROVE Goal
  BY <1>1, SubmissionPlaces
<1>2. ASSUME NEW x \in Runs, Coroutine(x)  PROVE Goal
  <2>1. CASE Schedule(x)
    BY <2>1, SchedulePlaces
  <2>2. CASE ScheduleRetry(x)
    BY <2>2, ScheduleRetryPlaces
  <2>3. CASE ~Schedule(x) /\ ~ScheduleRetry(x)
    BY <1>2, <2>3, CoroutinePlaces
  <2>. QED  BY <2>1, <2>2, <2>3
<1>3. ASSUME NEW r \in Requests, TimerFires(r)  PROVE Goal
  BY <1>3, TimerFiresPlaces
<1>4. ASSUME NEW r \in Requests, OrphanEnds(r)  PROVE Goal
  BY <1>4, <1>b DEF OrphanEnds, clientVars, taskVars, queueVars, streamVars
<1>5. ASSUME NEW r \in Requests, CancelRequest(r)  PROVE Goal
  BY <1>5, CancelPlaces
<1>6. ASSUME NEW r \in Requests, NEW resetRetryCount \in BOOLEAN, RetryRequest(r, resetRetryCount)
      PROVE  Goal
  BY <1>0, <1>6 DEF RetryRequest, TypeOK
<1>7. ASSUME NEW w \in Workers, WorkerConnects(w)  PROVE Goal
  BY <1>7, WorkerConnectsPlaces
<1>8. ASSUME NEW w \in Workers, WorkerDisconnects(w)  PROVE Goal
  BY <1>8, <1>b DEF WorkerDisconnects, clientVars, taskVars, queueVars
<1>9. ASSUME NEW x \in Runs, NEW r \in Requests, NEW outcome \in Outcomes,
             TaskComplete(x, r, outcome)
      PROVE  Goal
  BY <1>9, TaskCompletePlaces
<1>10. CASE StopRequested \/ Restart \/ UNCHANGED vars
  BY <1>10, <1>b DEF StopRequested, Restart, vars, clientVars, taskVars, queueVars, streamVars
<1>11. CASE GracefulExit \/ Crash
  BY <1>0, <1>11, ProcessEndsPlaces DEF GracefulExit, Crash
<1>. HIDE DEF Goal
<1>. QED
  BY <1>1, <1>2, <1>3, <1>4, <1>5, <1>6, <1>7, <1>8, <1>9, <1>10, <1>11 DEF Next, Outcomes

LEMMA PlaceInvInit == Init => PlaceInv
<1>. SUFFICES ASSUME Init  PROVE PlaceInv
  OBVIOUS
<1>1. /\ queue = <<>> /\ sessionQueue = [s \in Sessions |-> <<>>]
      /\ runs = [x \in Runs |-> Idle] /\ Idle.pc = "idle"
      /\ timers = [r \in Requests |-> 0] /\ retryCount = [r \in Requests |-> 0]
      /\ assigned = {} /\ known = {} /\ status = [r \in Requests |-> "queued"]
  BY DEF Init, Idle
<1>2. \A r \in Requests : ~Placed(r)
  <2>1. \A r \in Requests : /\ ~InQueue(r) /\ ~Executing(r) /\ ~Timed(r) /\ ~Assigned(r)
    BY <1>1, ToSetEmpty DEF InQueue, Executing, Executes, Timed, Assigned
  <2>2. \A r \in Requests : ~Waits(r)
    <3>1. \A r \in Requests : SessionOf[r] \in Sessions
      BY ConstantsAssumption
    <3>. QED  BY <1>1, <3>1, ToSetEmpty DEF Waits, Waiting
  <2>. QED  BY <2>1, <2>2 DEF Placed
<1>3. QueuesDistinct
  BY <1>1, ToSetEmpty DEF QueuesDistinct, Distinct, Waiting
<1>4. OneTimer /\ OneCoroutine /\ KnownWasAccepted
  BY <1>1 DEF OneTimer, OneCoroutine, Executes, KnownWasAccepted
<1>5. Placement
  BY <1>2, <1>3, <1>4 DEF Placement, PlacedWasSubmitted, OnePlace, Placed
<1>6. Budget /\ CancelledNowhere
  BY <1>1, ConstantsAssumption DEF Budget, CancelledNowhere
<1>. QED  BY <1>5, <1>6, TypeInit DEF PlaceInv

LEMMA PlaceInvariant ==
  ASSUME MaxManualRetries = 0
  PROVE  Spec => []PlaceInv
<1>1. PlaceInv /\ [Next]_vars => PlaceInv'
  BY PlaceInvStep
<1>. QED  BY PlaceInvInit, <1>1, PTL DEF Spec

LEMMA BudgetIsKept == PlaceInv => RetryBudget
<1>. SUFFICES ASSUME PlaceInv, NEW r \in Requests
              PROVE  retryCount[r] + timers[r]
                       + Cardinality({x \in Runs : runs[x].pc = "retryAudit" /\ runs[x].req = r})
                       <= MaxRetries
  BY DEF RetryBudget
<1>. DEFINE due == {x \in Runs : runs[x].pc = "retryAudit" /\ runs[x].req = r}
<1>0. retryCount[r] \in Nat /\ timers[r] \in Nat /\ MaxRetries \in Nat
      /\ retryCount[r] + timers[r] <= MaxRetries
  BY ConstantsAssumption DEF PlaceInv, Budget, TypeOK
<1>1. CASE due = {}
  <2>1. Cardinality(due) = 0
    BY <1>1, FS_EmptySet
  <2>. QED  BY <1>0, <2>1
<1>2. ASSUME NEW x \in Runs, x \in due
      PROVE  retryCount[r] + timers[r] + Cardinality(due) <= MaxRetries
  <2>1. Executes(x, r) /\ retryCount[r] < MaxRetries
    BY <1>2 DEF PlaceInv, Budget, Executes
  <2>2. timers[r] = 0
    BY <1>0, <2>1 DEF PlaceInv, Placement, OnePlace, Executing, Timed
  <2>3. due = {x}
    BY <1>2, <2>1 DEF PlaceInv, Placement, OneCoroutine, Executes
  <2>4. Cardinality(due) = 1
    <3>1. Cardinality({x}) = 1
      BY FS_Singleton
    <3>. QED  BY <2>3, <3>1
  <2>. HIDE DEF due
  <2>. QED  BY <1>0, <2>1, <2>2, <2>4
<1>. QED  BY <1>1, <1>2

\* Of a request there is never a second copy: queues, coroutines, timers and
\* kernel workers have it once among them, with any number of kernel workers,
\* sessions and coroutines, with full queues, crashes and restarts, as long as
\* no client asks for a manual retry.
THEOREM OnePlaceEach ==
  ASSUME MaxManualRetries = 0
  PROVE  Spec => []Placement
<1>1. PlaceInv => Placement
  BY DEF PlaceInv
<1>. QED  BY <1>1, PlaceInvariant, PTL

\* The retry handler stays within maxRetries, although the number is compared
\* when a task fails, the timer is set after an await and the retry is counted
\* when the timer fires.
THEOREM RetriesBounded ==
  ASSUME MaxManualRetries = 0
  PROVE  Spec => []RetryBudget
BY BudgetIsKept, PlaceInvariant, PTL

LEMMA IdleUpdate ==
  ASSUME TypeOK, IdleIsNobody, NEW x \in Runs, NEW run, runs' = [runs EXCEPT ![x] = run],
         run.pc = "idle" => run = Idle
  PROVE  IdleIsNobody'
BY DEF TypeOK, IdleIsNobody

LEMMA HandledIdle ==
  ASSUME NEW r, NEW outcome, NEW onFull, onFull.pc = "idle" => onFull = Idle
  PROVE  /\ Handled(r, outcome).pc = "idle" => Handled(r, outcome) = Idle
         /\ Released(r, outcome, onFull).pc = "idle" => Released(r, outcome, onFull) = Idle
<1>1. Handled(r, outcome).pc = "idle" => Handled(r, outcome) = Idle
  BY DEF Handled, Run
<1>2. Run("releasing", r, outcome).pc = "releasing"
  BY DEF Run
<1>. QED  BY <1>1, <1>2 DEF Released

LEMMA IdleStep == TypeOK /\ IdleIsNobody /\ [Next]_vars => IdleIsNobody'
<1>. SUFFICES ASSUME TypeOK, IdleIsNobody, [Next]_vars  PROVE IdleIsNobody'
  OBVIOUS
<1>1. CASE UNCHANGED runs
  BY <1>1 DEF IdleIsNobody
<1>2. CASE runs' = [x \in Runs |-> Idle]
  BY <1>2 DEF IdleIsNobody
<1>3. ASSUME NEW x \in Runs, Coroutine(x)  PROVE IdleIsNobody'
  <2>1. \A pc, r, outcome : Run(pc, r, outcome).pc = pc
    BY DEF Run
  <2>2. CASE Schedule(x)
    <3>1. PICK r : runs' = [runs EXCEPT ![x] = Run("starting", r, "ok")]
      BY <2>2 DEF Schedule
    <3>2. Run("starting", r, "ok").pc # "idle"
      BY <2>1
    <3>. QED  BY <3>1, <3>2, IdleUpdate
  <2>3. CASE StartProcessing(x)
    <3>1. PICK r : runs' = [runs EXCEPT ![x] = Run("calling", r, "ok")]
      BY <2>3 DEF StartProcessing
    <3>2. Run("calling", r, "ok").pc # "idle"
      BY <2>1
    <3>. QED  BY <3>1, <3>2, IdleUpdate
  <2>4. ASSUME NEW reply \in {Completed, Failed}, PrimeAnswers(x, reply)
        PROVE  IdleIsNobody'
    <3>1. PICK r, o : runs' = [runs EXCEPT ![x] = Run("completing", r, o)]
      BY <2>4 DEF PrimeAnswers
    <3>2. Run("completing", r, o).pc # "idle"
      BY <2>1
    <3>. QED  BY <3>1, <3>2, IdleUpdate
  <2>5. CASE GiveUp(x) \/ ScheduleRetry(x)
    <3>1. runs' = [runs EXCEPT ![x] = Idle]
      BY <2>5 DEF GiveUp, ScheduleRetry
    <3>. QED  BY <3>1, IdleUpdate
  <2>6. CASE ResumeReleased(x)
    <3>1. PICK r, o : runs' = [runs EXCEPT ![x] = Handled(r, o)]
      BY <2>6 DEF ResumeReleased
    <3>2. Handled(r, o).pc = "idle" => Handled(r, o) = Idle
      BY HandledIdle
    <3>. QED  BY <3>1, <3>2, IdleUpdate
  <2>7. CASE \/ FinishSuccess(x) \/ CatchOverflow(x)
             \/ \E outcome \in Failures, orphaned \in BOOLEAN : PrimeFails(x, outcome, orphaned)
    <3>1. PICK r, o, onFull : /\ runs' = [runs EXCEPT ![x] = Released(r, o, onFull)]
                              /\ onFull = Idle \/ onFull = Run("overflow", r, "fatal")
      BY <2>7 DEF FinishSuccess, PrimeFails, CatchOverflow
    <3>2. onFull.pc = "idle" => onFull = Idle
      BY <2>1, <3>1
    <3>3. Released(r, o, onFull).pc = "idle" => Released(r, o, onFull) = Idle
      BY <3>2, HandledIdle
    <3>. QED  BY <3>1, <3>3, IdleUpdate
  <2>. QED  BY <1>3, <2>2, <2>3, <2>4, <2>5, <2>6, <2>7 DEF Coroutine
<1>4. ASSUME NEW x \in Runs, NEW r \in Requests, NEW outcome \in Outcomes,
             TaskComplete(x, r, outcome)
      PROVE  IdleIsNobody'
  <2>1. CASE r \notin known
    BY <1>1, <1>4, <2>1 DEF TaskComplete
  <2>2. CASE r \in known
    BY <1>4, <2>2, HandledIdle, IdleUpdate DEF TaskComplete
  <2>. QED  BY <2>1, <2>2
<1>5. ASSUME NEW r \in Requests,
             \/ SubmitReceive(r) \/ Submission(r) \/ TimerFires(r) \/ OrphanEnds(r)
             \/ CancelRequest(r)
             \/ \E resetRetryCount \in BOOLEAN : RetryRequest(r, resetRetryCount)
      PROVE  IdleIsNobody'
  BY <1>1, <1>5 DEF SubmitReceive, Submission, SubmitRoute, SubmitReply, SubmitReject,
                    TimerFires, OrphanEnds, CancelRequest, RetryRequest
<1>6. ASSUME NEW w \in Workers, WorkerConnects(w) \/ WorkerDisconnects(w)  PROVE IdleIsNobody'
  BY <1>1, <1>6 DEF WorkerConnects, WorkerDisconnects
<1>7. CASE StopRequested \/ Restart \/ UNCHANGED vars
  BY <1>1, <1>7 DEF StopRequested, Restart, vars
<1>8. CASE GracefulExit \/ Crash
  BY <1>2, <1>8 DEF GracefulExit, Crash, ProcessEnds
<1>. QED
  BY <1>3, <1>4, <1>5, <1>6, <1>7, <1>8 DEF Next, Outcomes

LEMMA IdleInvariant == Spec => []IdleIsNobody
<1>1. Init => IdleIsNobody
  BY DEF Init, IdleIsNobody
<1>. QED  BY <1>1, IdleStep, TypeCorrect, PTL DEF Spec

LEMMA CancelledIsKept == PlaceInv /\ IdleIsNobody => CancelledIsGone
<1>. SUFFICES ASSUME PlaceInv, IdleIsNobody, NEW r \in Requests, status[r] = "cancelled"
              PROVE  /\ r \notin ToSet(queue) \cup Waiting(SessionOf[r])
                     /\ ~Running(r)
                     /\ timers[r] = 0
  BY DEF CancelledIsGone
<1>1. ~InQueue(r) /\ ~Waits(r) /\ ~Executing(r) /\ ~Timed(r)
  BY DEF PlaceInv, CancelledNowhere, Placed
<1>2. timers[r] = 0
  BY <1>1 DEF Timed, PlaceInv, TypeOK
<1>3. ~Running(r)
  BY <1>1, ConstantsAssumption DEF Running, Executing, Executes, IdleIsNobody, Idle
<1>. QED  BY <1>1, <1>2, <1>3 DEF InQueue, Waits

\* CancelRequest takes a request out of the main queue and nothing that could
\* still run it is left: the status that allows the call and the queue it is
\* taken from are kept by different services.
THEOREM CancelledStaysGone ==
  ASSUME MaxManualRetries = 0
  PROVE  Spec => []CancelledIsGone
BY CancelledIsKept, IdleInvariant, PlaceInvariant, PTL

-----------------------------------------------------------------------------
(* The order of the main queue *)

\* No key of priorityMap is ever looked up, so all levels are equal and the
\* oldest entry is the head.
LEMMA HeadIsOldest ==
  ASSUME queue \in Seq(Requests), queue # <<>>
  PROVE  HeadIndex = 1
<1>1. \A r \in Requests : LevelOf(r) = 0
  BY DEF LevelOf, Decoded, priorityMap, Normal
<1>2. 1 \in DOMAIN queue /\ DOMAIN queue = 1..Len(queue) /\ Len(queue) \in Nat
  OBVIOUS
<1>3. \A j \in DOMAIN queue : LevelOf(queue[j]) = 0
  BY <1>1
<1>4. \A i \in DOMAIN queue :
        (\A j \in DOMAIN queue :
           \/ LevelOf(queue[j]) < LevelOf(queue[i])
           \/ LevelOf(queue[j]) = LevelOf(queue[i]) /\ i <= j)
        <=> i = 1
  BY <1>2, <1>3
<1>. QED
  BY <1>2, <1>4 DEF HeadIndex

LEMMA OnlyScheduleStarts ==
  ASSUME TypeOK, [Next]_vars, NEW x \in Runs, runs[x] = Idle, runs'[x].pc = "starting"
  PROVE  Schedule(x)
<1>1. runs[x].pc = "idle" /\ Idle.pc = "idle" /\ x \in DOMAIN runs
  BY DEF Idle, TypeOK
<1>2. ASSUME NEW y \in Runs, Coroutine(y) PROVE Schedule(x)
  <2>1. CASE y # x
    <3>1. \E run : runs' = [runs EXCEPT ![y] = run]
      BY <1>2 DEF Coroutine, Schedule, StartProcessing, PrimeAnswers, FinishSuccess, PrimeFails,
                  ResumeReleased, CatchOverflow, GiveUp, ScheduleRetry
    <3>. QED  BY <1>1, <2>1, <3>1
  <2>2. CASE y = x
    BY <1>1, <1>2, <2>2 DEF Coroutine, StartProcessing, PrimeAnswers, FinishSuccess, PrimeFails,
                            ResumeReleased, CatchOverflow, GiveUp, ScheduleRetry
  <2>. QED  BY <2>1, <2>2
<1>3. ASSUME NEW y \in Runs, NEW r \in Requests, NEW outcome \in Outcomes,
             TaskComplete(y, r, outcome)
      PROVE  FALSE
  <2>1. ~HoldsSlot(Released(r, outcome, Idle))
    BY <1>3, ReleasedWellFormed, OverflowWellFormed
  <2>2. runs' = runs \/ runs' = [runs EXCEPT ![y] = Released(r, outcome, Idle)]
    BY <1>3 DEF TaskComplete
  <2>. QED  BY <1>1, <2>1, <2>2 DEF HoldsSlot
<1>4. CASE UNCHANGED runs \/ runs' = [y \in Runs |-> Idle]
  BY <1>1, <1>4
<1>5. \/ \E y \in Runs : Coroutine(y)
      \/ \E y \in Runs, r \in Requests, outcome \in Outcomes : TaskComplete(y, r, outcome)
      \/ UNCHANGED runs \/ runs' = [y \in Runs |-> Idle]
  BY DEF Next, SubmitReceive, Submission, SubmitRoute, SubmitReply, SubmitReject, TimerFires,
         OrphanEnds, CancelRequest, RetryRequest, WorkerConnects, WorkerDisconnects, StopRequested,
         GracefulExit, Crash, ProcessEnds, Restart, Outcomes, vars
<1>. QED  BY <1>2, <1>3, <1>4, <1>5

\* The priority queue is a plain FIFO: the scheduler starts what has waited in
\* the main queue for longest, whatever priorities the clients asked for.
THEOREM ServedInArrivalOrder == Spec => ArrivalOrder
<1>1. TypeOK /\ [Next]_vars
        => [\A x \in Runs : (runs[x] = Idle /\ runs'[x].pc = "starting") =>
              runs'[x].req = Head(queue) /\ queue' = Tail(queue)]_vars
  <2>. SUFFICES ASSUME TypeOK, [Next]_vars, NEW x \in Runs, runs[x] = Idle,
                       runs'[x].pc = "starting"
                PROVE  runs'[x].req = Head(queue) /\ queue' = Tail(queue)
    OBVIOUS
  <2>1. Schedule(x) /\ queue \in Seq(Requests) /\ queue # <<>>
    BY OnlyScheduleStarts DEF Schedule, TypeOK
  <2>2. HeadIndex = 1 /\ 1 \in 1..Len(queue) /\ Len(queue) \in Nat
    BY <2>1, HeadIsOldest
  <2>3. runs'[x] = Run("starting", queue[1], "ok") /\ queue' = RemoveAt(queue, 1)
    BY <2>1, <2>2 DEF Schedule, TypeOK
  <2>4. RemoveAt(queue, 1) = Tail(queue)
    <3>1. /\ RemoveAt(queue, 1) \in Seq(Requests) /\ Len(RemoveAt(queue, 1)) = Len(queue) - 1
          /\ \A k \in 1..(Len(queue) - 1) :
               RemoveAt(queue, 1)[k] = IF k < 1 THEN queue[k] ELSE queue[k + 1]
      BY <2>1, <2>2, RemoveAtShortens, RemoveAtElements
    <3>2. /\ Tail(queue) \in Seq(Requests) /\ Len(Tail(queue)) = Len(queue) - 1
          /\ \A k \in 1..(Len(queue) - 1) : Tail(queue)[k] = queue[k + 1]
      BY <2>1, <2>2
    <3>3. \A k \in 1..(Len(queue) - 1) : RemoveAt(queue, 1)[k] = Tail(queue)[k]
      BY <3>1, <3>2
    <3>. QED  BY <3>1, <3>2, <3>3
  <2>. QED  BY <2>1, <2>3, <2>4 DEF Run
<1>. QED  BY <1>1, TypeCorrect, PTL DEF Spec, ArrivalOrder

=============================================================================
