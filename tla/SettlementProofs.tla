--------------------------- MODULE SettlementProofs ---------------------------
(***************************************************************************)
(* Theorems about what RequestManager does with an accepted request, when  *)
(* the main queue has room for all requests: a release triggers the next   *)
(* task of its session once, a request that is not settled is somewhere,   *)
(* and a success is not taken back.  They rest on the places of            *)
(* RequestManagerProofs.                                                   *)
(***************************************************************************)
EXTENDS RequestManagerProofs

Room == IsFiniteSet(Requests) /\ Cardinality(Requests) <= MaxQueueSize

Unsettled == {"queued", "processing", "retrying"}

\* The coroutine has its answer from Prime and has told requestState.
Answered(run) == run.pc \in {"completing", "releasing", "maxAudit", "retryAudit"}

Answer(run) == IF run.pc = "completing" \/ run.outcome = "ok" THEN "completed" ELSE "failed"

AnswerNoted(r) ==
  \A x \in Runs : Executes(x, r) /\ Answered(runs[x]) => status[r] = Answer(runs[x])

\* A completed request is nowhere but in the coroutine that completed it.
CompletedPlace(r) ==
  status[r] = "completed" =>
    /\ sub[r] \in Submitted
    /\ ~InQueue(r) /\ ~Waits(r) /\ ~Timed(r)
    /\ \A x \in Runs : Executes(x, r) => runs[x].pc \in {"completing", "releasing"}

UnsettledPlaced(r) ==
  (r \in known \/ sub[r] = "logged") /\ status[r] \in Unsettled => Placed(r)

Settled(r) == AnswerNoted(r) /\ CompletedPlace(r) /\ UnsettledPlaced(r)

RoomInv == NoOverflow /\ assigned = {} /\ \A r \in Requests : Settled(r)
-----------------------------------------------------------------------------
(* Room in the main queue *)

LEMMA RoomForOneMore ==
  ASSUME NEW S, IsFiniteSet(S), NEW q \in Seq(S), Distinct(q), NEW r \in S, r \notin ToSet(q)
  PROVE  Len(q) < Cardinality(S)
<1>. DEFINE n == Len(q)
            D == 1..n
            R == S \ {r}
<1>1. n \in Nat /\ ToSet(q) = {q[i] : i \in 1..n}
  BY ToSetElements
<1>2. Cardinality(S) \in Nat /\ IsFiniteSet(R) /\ Cardinality(R) = Cardinality(S) - 1
  BY FS_CardinalityType, FS_RemoveElement
<1>3. IsFiniteSet(D) /\ Cardinality(D) = n
  <2>1. 1 \in Int /\ n \in Int /\ (IF 1 > n THEN 0 ELSE n - 1 + 1) = n
    BY <1>1
  <2>. QED  BY <2>1, FS_Interval
<1>4. q \in [D -> R]
  BY <1>1
<1>5. \A i, j \in D : q[i] = q[j] => i = j
  BY DEF Distinct
<1>. HIDE DEF n, D, R
<1>6. ~(Cardinality(R) < Cardinality(D))
  BY <1>2, <1>3, <1>4, <1>5, FS_PigeonHole
<1>. QED  BY <1>1, <1>2, <1>3, <1>6 DEF n

\* Who is not in the main queue has room in it.
LEMMA RoomInQueue ==
  ASSUME Room, PlaceInv, NEW r \in Requests, ~InQueue(r)
  PROVE  ~QueueFull
<1>1. queue \in Seq(Requests) /\ Distinct(queue) /\ r \notin ToSet(queue)
  BY DEF PlaceInv, TypeOK, Placement, QueuesDistinct, InQueue
<1>2. Len(queue) < Cardinality(Requests) /\ Cardinality(Requests) \in Nat
  BY <1>1, RoomForOneMore, FS_CardinalityType DEF Room
<1>. QED  BY <1>1, <1>2, ConstantsAssumption DEF Room, QueueFull

-----------------------------------------------------------------------------
(* What a step does to a request *)

\* The step is about other requests; it may trigger this one.
Untouched(r) ==
  /\ sub'[r] = sub[r] /\ (r \in known' <=> r \in known) /\ status'[r] = status[r]
  /\ Timed(r)' <=> Timed(r)
  /\ Assigned(r)' <=> Assigned(r)
  /\ \A x \in Runs : (Executes(x, r)' <=> Executes(x, r))
                     /\ (Executes(x, r) => runs'[x] = runs[x])
  /\ \/ (InQueue(r)' <=> InQueue(r)) /\ (Waits(r)' <=> Waits(r))
     \/ Waits(r) /\ InQueue(r)'

\* What the theorems need of it after the step; a success is not taken back.
Kept(r) == Settled(r)' /\ (status[r] = "completed" => status'[r] = "completed")

LEMMA UntouchedKept ==
  ASSUME NEW r \in Requests, Settled(r), Untouched(r)
  PROVE  Kept(r)
<1>1. AnswerNoted(r)'
  BY DEF Settled, AnswerNoted, Untouched
<1>2. CompletedPlace(r)'
  BY DEF Settled, CompletedPlace, Untouched
<1>3. UnsettledPlaced(r)'
  BY DEF Settled, UnsettledPlaced, Untouched, Placed, Executing
<1>. QED  BY <1>1, <1>2, <1>3 DEF Kept, Settled, Untouched

\* A coroutine that works for r changes no other request.
LEMMA OthersRun ==
  ASSUME TypeOK, NEW x \in Runs, NEW run, NEW r \in Requests, NEW q \in Requests, q # r,
         runs' = [runs EXCEPT ![x] = run], run.pc # "idle" => run.req = r, MayRun(x, r)
  PROVE  \A y \in Runs : (Executes(y, q)' <=> Executes(y, q))
                         /\ (Executes(y, q) => runs'[y] = runs[y])
<1>1. runs'[x] = run /\ \A y \in Runs : y # x => runs'[y] = runs[y]
  BY DEF TypeOK
<1>2. ~Executes(x, q) /\ ~Executes(x, q)'
  BY <1>1 DEF Executes, MayRun
<1>. QED  BY <1>1, <1>2 DEF Executes

\* A coroutine goes on with its request or ends, with or without releaseSlot:
\* other requests stay or are triggered.
LEMMA RunOthers ==
  ASSUME Room, PlaceInv, NEW x \in Runs, NEW run, NEW r \in Requests, Executes(x, r),
         runs' = [runs EXCEPT ![x] = run], run.pc # "idle" => run.req = r,
         ReleaseSlot(r) \/ UNCHANGED <<queue, sessionQueue>>,
         UNCHANGED <<sub, known, timers, assigned>>,
         \A q \in Requests : q # r => status'[q] = status[q]
  PROVE  /\ \A q \in Requests : q # r => Untouched(q)
         /\ ~InQueue(r)' /\ ~Waits(r)' /\ ~Timed(r)'
         /\ \A y \in Runs : Executes(y, r)' <=> y = x /\ run.pc # "idle"
<1>0. TypeOK /\ OneCoroutine /\ Placement /\ OnePlace(r) /\ Executing(r)
  BY DEF PlaceInv, Placement, Executing
<1>1. ~InQueue(r) /\ ~Waits(r) /\ ~Timed(r) /\ ~Assigned(r)
  BY <1>0 DEF OnePlace
<1>2. ~QueueFull
  BY <1>1, RoomInQueue
<1>3. MayRun(x, r)
  BY DEF MayRun
<1>4. \A q \in Requests :
        \/ (InQueue(q)' <=> InQueue(q)) /\ (Waits(q)' <=> Waits(q))
        \/ Waits(q) /\ InQueue(q)'
  <2>1. CASE ReleaseSlot(r)
    BY <1>0, <1>2, <2>1, ReleasePlaces
  <2>2. CASE UNCHANGED <<queue, sessionQueue>>
    BY <2>2 DEF InQueue, Waits, Waiting
  <2>. QED  BY <2>1, <2>2
<1>5. ASSUME NEW q \in Requests, q # r  PROVE Untouched(q)
  <2>1. \A y \in Runs : (Executes(y, q)' <=> Executes(y, q))
                        /\ (Executes(y, q) => runs'[y] = runs[y])
    BY <1>0, <1>3, <1>5, OthersRun
  <2>2. sub'[q] = sub[q] /\ (q \in known' <=> q \in known) /\ status'[q] = status[q]
        /\ (Timed(q)' <=> Timed(q)) /\ (Assigned(q)' <=> Assigned(q))
    BY <1>5 DEF Timed, Assigned
  <2>. QED  BY <1>4, <2>1, <2>2 DEF Untouched
<1>6. runs'[x] = run /\ \A y \in Runs : y # x => runs'[y] = runs[y]
  BY <1>0 DEF TypeOK
<1>7. \A y \in Runs : Executes(y, r)' <=> y = x /\ run.pc # "idle"
  BY <1>0, <1>6 DEF OneCoroutine, Executes
<1>8. ~InQueue(r)' /\ ~Waits(r)' /\ ~Timed(r)'
  BY <1>1, <1>4 DEF Timed
<1>. QED  BY <1>5, <1>7, <1>8

LEMMA RunKept ==
  ASSUME Room, PlaceInv, RoomInv, NEW x \in Runs, NEW run, NEW r \in Requests, Executes(x, r),
         runs' = [runs EXCEPT ![x] = run], run.pc # "idle" => run.req = r, run.pc # "overflow",
         ReleaseSlot(r) \/ UNCHANGED <<queue, sessionQueue>>,
         UNCHANGED <<sub, known, timers, assigned>>,
         \A q \in Requests : q # r => status'[q] = status[q],
         run.pc # "idle" /\ Answered(run) => status'[r] = Answer(run),
         status'[r] = "completed" => run.pc \in {"idle", "completing", "releasing"},
         run.pc = "idle" => status'[r] \notin Unsettled,
         status[r] = "completed" => status'[r] = "completed"
  PROVE  NoOverflow' /\ \A q \in Requests : Kept(q)
<1>0. TypeOK /\ Executing(r)
  BY DEF PlaceInv, Executing
<1>1. sub[r] \in Submitted
  BY <1>0 DEF PlaceInv, Placement, PlacedWasSubmitted, Placed, Submitted
<1>2. runs'[x] = run /\ \A y \in Runs : y # x => runs'[y] = runs[y]
  BY <1>0 DEF TypeOK
<1>3. NoOverflow'
  BY <1>2 DEF RoomInv, NoOverflow
<1>4. /\ \A q \in Requests : q # r => Untouched(q)
      /\ ~InQueue(r)' /\ ~Waits(r)' /\ ~Timed(r)'
      /\ \A y \in Runs : Executes(y, r)' <=> y = x /\ run.pc # "idle"
  BY RunOthers
<1>5. ASSUME NEW q \in Requests, q # r  PROVE Kept(q)
  BY <1>4, <1>5, UntouchedKept DEF RoomInv
<1>6. Kept(r)
  <2>1. AnswerNoted(r)'
    BY <1>2, <1>4 DEF AnswerNoted
  <2>2. CompletedPlace(r)'
    BY <1>1, <1>2, <1>4 DEF CompletedPlace
  <2>3. UnsettledPlaced(r)'
    BY <1>4 DEF UnsettledPlaced, Placed, Executing
  <2>. QED  BY <2>1, <2>2, <2>3 DEF Kept, Settled
<1>. QED  BY <1>3, <1>5, <1>6

OutcomeStatus(outcome) == IF outcome = "ok" THEN "completed" ELSE "failed"

\* What a coroutine is after handleSuccess or handleFailure, or before them.
Fits(run, r, outcome) ==
  /\ run.pc # "idle" => run.req = r
  /\ run.pc \in {"idle", "releasing", "maxAudit", "retryAudit"}
  /\ run.pc # "idle" => Answer(run) = OutcomeStatus(outcome)
  /\ outcome = "ok" => run.pc \in {"idle", "releasing"}

LEMMA HandledFits ==
  ASSUME NEW r \in Requests, NEW outcome \in Outcomes
  PROVE  Fits(Handled(r, outcome), r, outcome)
BY DEF Fits, Handled, Idle, Run, Answer, OutcomeStatus

LEMMA ReleasedFits ==
  ASSUME NEW r \in Requests, NEW outcome \in Outcomes, NEW onFull, ~QueueFull
  PROVE  Fits(Released(r, outcome, onFull), r, outcome)
<1>1. Fits(Run("releasing", r, outcome), r, outcome)
  BY DEF Fits, Run, Answer, OutcomeStatus
<1>. QED  BY <1>1, HandledFits DEF Released

LEMMA HandledStatusFits ==
  ASSUME NEW r \in Requests, NEW outcome \in Outcomes, status[r] = OutcomeStatus(outcome)
  PROVE  HandledStatus(r, outcome) = OutcomeStatus(outcome)
BY DEF HandledStatus, OutcomeStatus

LEMMA FittingKept ==
  ASSUME Room, PlaceInv, RoomInv, NEW x \in Runs, NEW run, NEW r \in Requests, Executes(x, r),
         NEW outcome \in Outcomes, Fits(run, r, outcome),
         runs' = [runs EXCEPT ![x] = run],
         ReleaseSlot(r) \/ UNCHANGED <<queue, sessionQueue>>,
         UNCHANGED <<sub, known, timers, assigned>>,
         \A q \in Requests : q # r => status'[q] = status[q],
         status'[r] = OutcomeStatus(outcome),
         status[r] # "completed" \/ status[r] = OutcomeStatus(outcome)
  PROVE  NoOverflow' /\ \A q \in Requests : Kept(q)
<1>1. /\ run.pc # "idle" => run.req = r
      /\ run.pc # "overflow"
      /\ run.pc # "idle" /\ Answered(run) => status'[r] = Answer(run)
  BY DEF Fits
<1>2. /\ status'[r] = "completed" => run.pc \in {"idle", "completing", "releasing"}
      /\ run.pc = "idle" => status'[r] \notin Unsettled
      /\ status[r] = "completed" => status'[r] = "completed"
  BY DEF Fits, OutcomeStatus, Unsettled
<1>. QED  BY <1>1, <1>2, RunKept

LEMMA CoroutineKept ==
  ASSUME Room, PlaceInv, RoomInv, NEW x \in Runs, Coroutine(x), ~Schedule(x), ~ScheduleRetry(x)
  PROVE  NoOverflow' /\ \A q \in Requests : Kept(q)
<1>. USE DEF clientVars, taskVars, queueVars, streamVars
<1>0. TypeOK
  BY DEF PlaceInv
<1>1. runs[x].pc # "idle"
  BY DEF Coroutine, StartProcessing, PrimeAnswers, FinishSuccess, PrimeFails, ResumeReleased,
         CatchOverflow, GiveUp
<1>2. PICK r \in Requests : r = runs[x].req /\ Executes(x, r)
  BY <1>0, <1>1, RunRequest
<1>. DEFINE outcome == runs[x].outcome
<1>3. /\ Answered(runs[x]) => status[r] = Answer(runs[x])
      /\ status[r] = "completed" => runs[x].pc \in {"completing", "releasing"}
  BY <1>2 DEF RoomInv, Settled, AnswerNoted, CompletedPlace
<1>4. ~QueueFull
  BY <1>0, <1>2, RoomInQueue DEF PlaceInv, Placement, OnePlace, Executing
<1>5. CASE StartProcessing(x)
  <2>1. /\ runs' = [runs EXCEPT ![x] = Run("calling", r, "ok")]
        /\ UNCHANGED <<sub, known, queue, sessionQueue, timers, assigned>>
        /\ status'[r] = "processing" /\ \A q \in Requests : q # r => status'[q] = status[q]
        /\ status[r] # "completed"
    BY <1>0, <1>2, <1>3, <1>5 DEF StartProcessing, TypeOK
  <2>2. Run("calling", r, "ok").req = r /\ Run("calling", r, "ok").pc = "calling"
    BY DEF Run
  <2>. QED  BY <1>2, <2>1, <2>2, RunKept DEF Answered
<1>6. ASSUME NEW reply \in {Completed, Failed}, PrimeAnswers(x, reply)
      PROVE  NoOverflow' /\ \A q \in Requests : Kept(q)
  <2>. DEFINE run == Run("completing", r, IF reply = Failed THEN "fatal" ELSE "ok")
  <2>1. /\ runs' = [runs EXCEPT ![x] = run]
        /\ UNCHANGED <<sub, known, queue, sessionQueue, timers, assigned>>
        /\ status'[r] = "completed" /\ \A q \in Requests : q # r => status'[q] = status[q]
    BY <1>0, <1>2, <1>6 DEF PrimeAnswers, TypeOK
  <2>2. run.req = r /\ run.pc = "completing"
    BY DEF Run
  <2>. HIDE DEF run
  <2>. QED  BY <1>2, <2>1, <2>2, RunKept DEF Answered, Answer
<1>7. CASE GiveUp(x)
  <2>1. /\ runs' = [runs EXCEPT ![x] = Idle] /\ Idle.pc = "idle"
        /\ UNCHANGED <<sub, known, queue, sessionQueue, timers, assigned>>
        /\ (status'[r] = "failed" \/ status'[r] = status[r])
        /\ \A q \in Requests : q # r => status'[q] = status[q]
    BY <1>0, <1>2, <1>7 DEF GiveUp, TypeOK, Idle
  <2>2. status[r] = "failed"
    BY <1>3, <1>7 DEF GiveUp, Answered, Answer
  <2>3. status'[r] = "failed" /\ "failed" \notin Unsettled
    BY <2>1, <2>2 DEF Unsettled
  <2>. QED  BY <1>2, <2>1, <2>2, <2>3, RunKept
<1>8. CASE ResumeReleased(x)
  <2>1. /\ runs' = [runs EXCEPT ![x] = Handled(r, outcome)]
        /\ UNCHANGED <<sub, known, queue, sessionQueue, timers, assigned>>
        /\ status'[r] = HandledStatus(r, outcome)
        /\ \A q \in Requests : q # r => status'[q] = status[q]
    BY <1>0, <1>2, <1>8 DEF ResumeReleased, TypeOK
  <2>2. outcome \in Outcomes /\ status[r] = OutcomeStatus(outcome)
    BY <1>0, <1>3, <1>8 DEF ResumeReleased, Answered, Answer, OutcomeStatus, TypeOK, Outcomes
  <2>. HIDE DEF outcome
  <2>3. Fits(Handled(r, outcome), r, outcome)
    BY <2>2, HandledFits
  <2>4. status'[r] = OutcomeStatus(outcome)
    BY <2>1, <2>2, HandledStatusFits
  <2>. QED  BY <1>2, <2>1, <2>2, <2>3, <2>4, FittingKept
<1>9. CASE FinishSuccess(x)
  <2>. DEFINE run == Released(r, "ok", Run("overflow", r, "fatal"))
  <2>1. /\ runs' = [runs EXCEPT ![x] = run]
        /\ ReleaseSlot(r) /\ UNCHANGED <<sub, known, timers, assigned>>
        /\ (status'[r] = status[r] \/ status'[r] = HandledStatus(r, "ok"))
        /\ \A q \in Requests : q # r => status'[q] = status[q]
    BY <1>0, <1>2, <1>9 DEF FinishSuccess, TypeOK
  <2>2. "ok" \in Outcomes /\ status[r] = OutcomeStatus("ok")
    BY <1>3, <1>9 DEF FinishSuccess, Answered, Answer, OutcomeStatus, Outcomes
  <2>3. Fits(run, r, "ok")
    BY <1>4, <2>2, ReleasedFits
  <2>. HIDE DEF run
  <2>4. status'[r] = OutcomeStatus("ok")
    BY <2>1, <2>2, HandledStatusFits
  <2>. QED  BY <1>2, <2>1, <2>2, <2>3, <2>4, FittingKept
<1>10. ASSUME NEW o \in Failures, NEW orphaned \in BOOLEAN, PrimeFails(x, o, orphaned)
       PROVE  NoOverflow' /\ \A q \in Requests : Kept(q)
  <2>. DEFINE run == Released(r, o, Run("overflow", r, "fatal"))
  <2>1. /\ runs' = [runs EXCEPT ![x] = run]
        /\ ReleaseSlot(r) /\ UNCHANGED <<sub, known, timers, assigned>>
        /\ status'[r] = "failed"
        /\ \A q \in Requests : q # r => status'[q] = status[q]
    BY <1>0, <1>2, <1>10 DEF PrimeFails, TypeOK
  <2>2. o \in Outcomes /\ status'[r] = OutcomeStatus(o)
    BY <2>1 DEF OutcomeStatus, Outcomes, Failures
  <2>3. status[r] # "completed"
    BY <1>3, <1>10 DEF PrimeFails
  <2>4. Fits(run, r, o)
    BY <1>4, <2>2, ReleasedFits
  <2>. HIDE DEF run
  <2>. QED  BY <1>2, <2>1, <2>2, <2>3, <2>4, FittingKept
<1>11. ~CatchOverflow(x)
  BY DEF CatchOverflow, RoomInv, NoOverflow
<1>. QED  BY <1>5, <1>6, <1>7, <1>8, <1>9, <1>10, <1>11 DEF Coroutine

\* From the main queue to a coroutine.
LEMMA ScheduleKept ==
  ASSUME PlaceInv, RoomInv, NEW x \in Runs, Schedule(x)
  PROVE  /\ NoOverflow' /\ \A q \in Requests : Kept(q)
         /\ \A q \in Requests : q # queue[HeadIndex] => Untouched(q)
<1>0. TypeOK /\ queue \in Seq(Requests) /\ Distinct(queue)
  BY DEF PlaceInv, Placement, QueuesDistinct, TypeOK
<1>1. HeadIndex \in 1..Len(queue)
  BY <1>0, HeadIndexInDomain DEF Schedule
<1>2. PICK r \in Requests : r = queue[HeadIndex]
  BY <1>0, <1>1
<1>3. InQueue(r) /\ status[r] # "completed"
  <2>1. InQueue(r)
    BY <1>0, <1>1, <1>2, ToSetElements DEF InQueue
  <2>. QED  BY <2>1 DEF RoomInv, Settled, CompletedPlace
<1>4. ToSet(queue') = ToSet(queue) \ {r}
  BY <1>0, <1>1, <1>2, RemoveDistinct DEF Schedule
<1>. DEFINE run == Run("starting", r, "ok")
<1>5. run.req = r /\ run.pc = "starting"
  BY DEF Run
<1>6. /\ runs' = [runs EXCEPT ![x] = run] /\ runs[x].pc = "idle"
      /\ UNCHANGED <<sub, known, sessionQueue, timers, assigned>>
      /\ status'[r] # "completed" /\ \A q \in Requests : q # r => status'[q] = status[q]
  BY <1>0, <1>2, <1>3 DEF Schedule, clientVars, streamVars, Idle, TypeOK
<1>. HIDE DEF run
<1>7. MayRun(x, r) /\ ~Executing(r)
  BY <1>3, <1>6 DEF PlaceInv, Placement, OnePlace, MayRun
<1>8. runs'[x] = run /\ \A y \in Runs : y # x => runs'[y] = runs[y]
  BY <1>0, <1>6 DEF TypeOK
<1>9. NoOverflow'
  BY <1>5, <1>8 DEF RoomInv, NoOverflow
<1>10. ASSUME NEW q \in Requests, q # r  PROVE Untouched(q) /\ Kept(q)
  <2>1. \A y \in Runs : (Executes(y, q)' <=> Executes(y, q))
                        /\ (Executes(y, q) => runs'[y] = runs[y])
    <3>1. TypeOK /\ MayRun(x, r) /\ runs' = [runs EXCEPT ![x] = run]
      BY <1>0, <1>6, <1>7
    <3>2. run.pc # "idle" => run.req = r
      BY <1>5
    <3>. QED  BY <1>10, <3>1, <3>2, OthersRun
  <2>2. Untouched(q)
    BY <1>4, <1>6, <1>10, <2>1 DEF Untouched, InQueue, Waits, Waiting, Timed, Assigned
  <2>. QED  BY <2>2, UntouchedKept DEF RoomInv
<1>11. Kept(r)
  <2>1. \A y \in Runs : Executes(y, r)' <=> y = x
    BY <1>5, <1>7, <1>8 DEF Executing, Executes
  <2>2. AnswerNoted(r)' /\ CompletedPlace(r)' /\ UnsettledPlaced(r)'
    BY <1>5, <1>6, <1>8, <2>1 DEF AnswerNoted, Answered, CompletedPlace, UnsettledPlaced, Placed,
                                  Executing
  <2>. QED  BY <1>3, <2>2 DEF Kept, Settled
<1>. QED  BY <1>2, <1>9, <1>10, <1>11

\* From a coroutine to a timer.
LEMMA ScheduleRetryKept ==
  ASSUME PlaceInv, RoomInv, NEW x \in Runs, ScheduleRetry(x)
  PROVE  /\ NoOverflow' /\ \A q \in Requests : Kept(q)
         /\ \A q \in Requests : q # runs[x].req => Untouched(q)
<1>0. TypeOK /\ OneCoroutine
  BY DEF PlaceInv, Placement
<1>1. runs[x].pc = "retryAudit"
  BY DEF ScheduleRetry
<1>2. PICK r \in Requests : r = runs[x].req /\ Executes(x, r)
  BY <1>0, <1>1, RunRequest
<1>3. status[r] # "completed"
  BY <1>1, <1>2 DEF RoomInv, Settled, CompletedPlace
<1>4. /\ runs' = [runs EXCEPT ![x] = Idle] /\ Idle.pc = "idle"
      /\ UNCHANGED <<sub, known, queue, sessionQueue, assigned>>
      /\ timers'[r] > 0 /\ \A q \in Requests : q # r => timers'[q] = timers[q]
      /\ status'[r] # "completed" /\ \A q \in Requests : q # r => status'[q] = status[q]
  BY <1>0, <1>2, <1>3 DEF ScheduleRetry, StartTimer, clientVars, queueVars, streamVars, Idle, TypeOK
<1>5. MayRun(x, r)
  BY <1>2 DEF MayRun
<1>6. runs'[x].pc = "idle" /\ \A y \in Runs : y # x => runs'[y] = runs[y]
  BY <1>0, <1>4 DEF TypeOK
<1>7. NoOverflow'
  BY <1>6 DEF RoomInv, NoOverflow
<1>8. ASSUME NEW q \in Requests, q # r  PROVE Untouched(q) /\ Kept(q)
  <2>1. \A y \in Runs : (Executes(y, q)' <=> Executes(y, q))
                        /\ (Executes(y, q) => runs'[y] = runs[y])
    BY <1>0, <1>4, <1>5, <1>8, OthersRun
  <2>2. Untouched(q)
    BY <1>4, <1>8, <2>1 DEF Untouched, InQueue, Waits, Waiting, Timed, Assigned
  <2>. QED  BY <2>2, UntouchedKept DEF RoomInv
<1>9. Kept(r)
  <2>1. \A y \in Runs : ~Executes(y, r)'
    BY <1>0, <1>2, <1>6 DEF OneCoroutine, Executes
  <2>2. AnswerNoted(r)' /\ CompletedPlace(r)' /\ UnsettledPlaced(r)'
    BY <1>4, <2>1 DEF AnswerNoted, CompletedPlace, UnsettledPlaced, Placed, Timed
  <2>. QED  BY <1>3, <2>2 DEF Kept, Settled
<1>. QED  BY <1>2, <1>7, <1>8, <1>9

\* From a timer to the main queue, which has room.
LEMMA TimerFiresKept ==
  ASSUME Room, PlaceInv, RoomInv, NEW r \in Requests, TimerFires(r)
  PROVE  /\ NoOverflow' /\ \A q \in Requests : Kept(q)
         /\ \A q \in Requests : q # r => Untouched(q)
<1>0. TypeOK /\ Timed(r)
  BY DEF PlaceInv, TimerFires, Timed
<1>1. ~InQueue(r) /\ ~Executing(r) /\ Distinct(queue) /\ status[r] # "completed"
  BY <1>0 DEF PlaceInv, Placement, OnePlace, QueuesDistinct, RoomInv, Settled, CompletedPlace
<1>2. /\ UNCHANGED <<sub, known, sessionQueue, runs, assigned>>
      /\ \A q \in Requests : q # r => timers'[q] = timers[q] /\ status'[q] = status[q]
      /\ status'[r] = "retrying"
  BY <1>0 DEF TimerFires, clientVars, streamVars, TypeOK
<1>3. ToSet(queue') = ToSet(queue) \cup {r}
  <2>1. ~QueueFull /\ queue' = Enqueue(queue, r)
    BY <1>1, RoomInQueue DEF TimerFires
  <2>. QED  BY <1>0, <1>1, <2>1, EnqueueDistinct
<1>4. NoOverflow' /\ \A q \in Requests : \A y \in Runs :
                       (Executes(y, q)' <=> Executes(y, q)) /\ runs'[y] = runs[y]
  BY <1>2 DEF RoomInv, NoOverflow, Executes
<1>5. ASSUME NEW q \in Requests, q # r  PROVE Untouched(q) /\ Kept(q)
  <2>1. Untouched(q)
    BY <1>2, <1>3, <1>4, <1>5 DEF Untouched, InQueue, Waits, Waiting, Timed, Assigned
  <2>. QED  BY <2>1, UntouchedKept DEF RoomInv
<1>6. Kept(r)
  <2>1. AnswerNoted(r)' /\ CompletedPlace(r)' /\ UnsettledPlaced(r)'
    BY <1>1, <1>2, <1>3, <1>4 DEF AnswerNoted, CompletedPlace, UnsettledPlaced, Placed, InQueue,
                                  Executing
  <2>. QED  BY <1>1, <2>1 DEF Kept, Settled
<1>. QED  BY <1>4, <1>5, <1>6

LEMMA CancelKept ==
  ASSUME PlaceInv, RoomInv, NEW r \in Requests, CancelRequest(r)
  PROVE  /\ NoOverflow' /\ \A q \in Requests : Kept(q)
         /\ \A q \in Requests : q # r => Untouched(q)
<1>0. TypeOK /\ queue \in Seq(Requests) /\ Distinct(queue)
  BY DEF PlaceInv, Placement, QueuesDistinct, TypeOK
<1>1. PICK i \in 1..Len(queue) : queue[i] = r /\ queue' = RemoveAt(queue, i)
  BY <1>0 DEF CancelRequest, RemoveFromQueue
<1>2. ToSet(queue') = ToSet(queue) \ {r} /\ InQueue(r)
  BY <1>0, <1>1, RemoveDistinct, ToSetElements DEF InQueue
<1>3. /\ UNCHANGED <<sub, known, sessionQueue, runs, timers, assigned>>
      /\ status'[r] = "cancelled" /\ \A q \in Requests : q # r => status'[q] = status[q]
      /\ status[r] = "queued"
  BY <1>0 DEF CancelRequest, clientVars, streamVars, TypeOK
<1>4. NoOverflow' /\ \A q \in Requests : \A y \in Runs :
                       (Executes(y, q)' <=> Executes(y, q)) /\ runs'[y] = runs[y]
  BY <1>3 DEF RoomInv, NoOverflow, Executes
<1>5. ASSUME NEW q \in Requests, q # r  PROVE Untouched(q) /\ Kept(q)
  <2>1. Untouched(q)
    BY <1>2, <1>3, <1>4, <1>5 DEF Untouched, InQueue, Waits, Waiting, Timed, Assigned
  <2>. QED  BY <2>1, UntouchedKept DEF RoomInv
<1>6. Kept(r)
  <2>1. ~Executing(r)
    BY <1>2 DEF PlaceInv, Placement, OnePlace
  <2>2. AnswerNoted(r)' /\ CompletedPlace(r)' /\ UnsettledPlaced(r)'
    BY <1>3, <1>4, <2>1 DEF AnswerNoted, CompletedPlace, UnsettledPlaced, Unsettled, Executing
  <2>. QED  BY <1>3, <2>2 DEF Kept, Settled
<1>. QED  BY <1>4, <1>5, <1>6

\* A submission finds a queue: its session's, or the main queue, which has room.
LEMMA SubmissionKept ==
  ASSUME Room, PlaceInv, RoomInv, NEW r \in Requests, SubmitReceive(r) \/ Submission(r)
  PROVE  /\ NoOverflow' /\ \A q \in Requests : Kept(q)
         /\ \A q \in Requests : q # r => Untouched(q)
<1>0. TypeOK /\ Settled(r)
  BY DEF PlaceInv, RoomInv
<1>1. /\ UNCHANGED <<status, runs, timers, assigned>>
      /\ \A q \in Requests : q # r => sub'[q] = sub[q] /\ (q \in known' <=> q \in known)
      /\ sub[r] \in {"new", "received", "logged", "rejecting"}
  BY <1>0 DEF SubmitReceive, Submission, SubmitRoute, SubmitReply, SubmitReject, taskVars,
              streamVars, TypeOK
<1>2. NoOverflow' /\ \A q \in Requests : \A y \in Runs :
                       (Executes(y, q)' <=> Executes(y, q)) /\ runs'[y] = runs[y]
  BY <1>1 DEF RoomInv, NoOverflow, Executes
<1>3. r \notin known
  BY <1>1 DEF PlaceInv, Placement, KnownWasAccepted
<1>4. AnswerNoted(r)'
  BY <1>0, <1>1, <1>2 DEF Settled, AnswerNoted
<1>5. ASSUME \A q \in Requests : q # r => (InQueue(q)' <=> InQueue(q)) /\ (Waits(q)' <=> Waits(q)),
             CompletedPlace(r)' /\ UnsettledPlaced(r)'
      PROVE  \A q \in Requests : Kept(q) /\ (q # r => Untouched(q))
  <2>1. ASSUME NEW q \in Requests, q # r  PROVE Untouched(q) /\ Kept(q)
    <3>1. Untouched(q)
      BY <1>1, <1>2, <1>5, <2>1 DEF Untouched, Timed, Assigned
    <3>. QED  BY <3>1, UntouchedKept DEF RoomInv
  <2>2. Kept(r)
    BY <1>1, <1>4, <1>5 DEF Kept, Settled
  <2>. QED  BY <2>1, <2>2
<1>6. CASE SubmitReceive(r) \/ SubmitReply(r) \/ SubmitReject(r)
  <2>1. UNCHANGED <<queue, sessionQueue>>
    BY <1>6 DEF SubmitReceive, SubmitReply, SubmitReject, queueVars
  <2>2. \A q \in Requests : (InQueue(q)' <=> InQueue(q)) /\ (Waits(q)' <=> Waits(q))
    BY <2>1 DEF InQueue, Waits, Waiting
  <2>3. \/ sub[r] = "logged" /\ sub'[r] = "accepted" /\ known' = known \cup {r}
        \/ sub[r] # "logged" /\ sub'[r] \in {"received", "rejected"} /\ known' = known
    BY <1>0, <1>6 DEF SubmitReceive, SubmitReply, SubmitReject, taskVars, TypeOK
  <2>4. Placed(r)' <=> Placed(r)
    BY <1>1, <1>2, <2>2 DEF Placed, Executing, Timed, Assigned
  <2>5. CompletedPlace(r)'
    BY <1>0, <1>1, <1>2, <2>2, <2>3 DEF Settled, CompletedPlace, Timed, Submitted
  <2>6. UnsettledPlaced(r)'
    BY <1>0, <1>1, <1>3, <2>3, <2>4 DEF Settled, UnsettledPlaced
  <2>. QED  BY <1>2, <1>5, <2>2, <2>5, <2>6
<1>7. CASE SubmitRoute(r)
  <2>1. sub[r] = "received" /\ known' = known
    BY <1>7 DEF SubmitRoute, taskVars
  <2>2. ~Placed(r) /\ status[r] # "completed"
    BY <1>0, <2>1 DEF PlaceInv, Placement, PlacedWasSubmitted, Settled, CompletedPlace, Submitted
  <2>3. CompletedPlace(r)'
    BY <1>1, <2>2 DEF CompletedPlace
  <2>4. CASE SessionOf[r] \in processing
    <3>. DEFINE s == SessionOf[r]
    <3>1. /\ queue' = queue /\ s \in Sessions /\ sessionQueue[s] \in Seq(Requests)
          /\ sessionQueue' = [sessionQueue EXCEPT ![s] = Append(@, r)]
      BY <1>0, <1>7, <2>4, ConstantsAssumption DEF SubmitRoute, TypeOK
    <3>2. Distinct(sessionQueue[s]) /\ r \notin ToSet(sessionQueue[s])
      BY <2>2, <3>1 DEF PlaceInv, Placement, QueuesDistinct, Placed, Waits, Waiting
    <3>3. ToSet(Append(sessionQueue[s], r)) = ToSet(sessionQueue[s]) \cup {r}
      BY <3>1, <3>2, AppendDistinct
    <3>4. SessionOf[r] = s
      OBVIOUS
    <3>. HIDE DEF s
    <3>5. /\ Waiting(s)' = Waiting(s) \cup {r}
          /\ \A t \in Sessions : t # s => sessionQueue'[t] = sessionQueue[t]
      BY <1>0, <3>1, <3>3 DEF Waiting, TypeOK
    <3>6. \A t \in Sessions : t # s => Waiting(t)' = Waiting(t)
      BY <3>5 DEF Waiting
    <3>7. ASSUME NEW q \in Requests, q # r
          PROVE  (InQueue(q)' <=> InQueue(q)) /\ (Waits(q)' <=> Waits(q))
      <4>1. InQueue(q)' <=> InQueue(q)
        BY <3>1 DEF InQueue
      <4>2. SessionOf[q] \in Sessions
        BY ConstantsAssumption
      <4>3. Waits(q)' <=> Waits(q)
        BY <3>5, <3>6, <3>7, <4>2 DEF Waits
      <4>. QED  BY <4>1, <4>3
    <3>8. UnsettledPlaced(r)'
      <4>1. r \in Waiting(s)'
        BY <3>5
      <4>2. Waits(r)'
        BY <3>4, <4>1 DEF Waits, Waiting
      <4>. QED  BY <4>2 DEF UnsettledPlaced, Placed
    <3>. QED  BY <1>2, <1>5, <2>3, <3>7, <3>8
  <2>5. CASE SessionOf[r] \notin processing
    <3>1. ~QueueFull
      BY <2>2, RoomInQueue DEF Placed
    <3>2. UNCHANGED sessionQueue /\ queue' = Enqueue(queue, r)
      BY <1>7, <2>5 DEF SubmitRoute
    <3>3. ToSet(queue') = ToSet(queue) \cup {r}
      BY <1>0, <2>2, <3>1, <3>2, EnqueueDistinct DEF PlaceInv, Placement, QueuesDistinct, Placed
    <3>4. /\ \A q \in Requests : q # r => (InQueue(q)' <=> InQueue(q)) /\ (Waits(q)' <=> Waits(q))
          /\ InQueue(r)'
      BY <3>2, <3>3 DEF InQueue, Waits, Waiting
    <3>5. UnsettledPlaced(r)'
      BY <3>4 DEF UnsettledPlaced, Placed
    <3>. QED  BY <1>2, <1>5, <2>3, <3>4, <3>5
  <2>. QED  BY <2>4, <2>5
<1>. QED  BY <1>6, <1>7 DEF Submission

LEMMA ProcessEndsSettled ==
  ASSUME ProcessEnds
  PROVE  NoOverflow' /\ \A r \in Requests : Settled(r)'
<1>1. /\ runs' = [x \in Runs |-> Idle] /\ Idle.pc = "idle" /\ known' = {}
      /\ status' = [r \in Requests |-> "queued"]
      /\ \A r \in Requests : sub'[r] # "logged"
  BY DEF ProcessEnds, Idle
<1>2. NoOverflow' /\ \A r \in Requests : \A x \in Runs : ~Executes(x, r)'
  BY <1>1 DEF NoOverflow, Executes
<1>. QED
  BY <1>1, <1>2 DEF Settled, AnswerNoted, CompletedPlace, UnsettledPlaced

LEMMA NothingTouched ==
  ASSUME RoomInv,
         UNCHANGED <<sub, known, status, queue, sessionQueue, runs, timers, assigned>>
  PROVE  NoOverflow' /\ \A r \in Requests : Kept(r)
<1>1. \A r \in Requests : Untouched(r)
  BY DEF Untouched, InQueue, Waits, Waiting, Timed, Assigned, Executes
<1>. QED  BY <1>1, UntouchedKept DEF RoomInv, NoOverflow
-----------------------------------------------------------------------------
(* The invariant and what follows from it *)

\* The number of requests under way is within the queue's limit, there are no
\* kernel workers and no client retries by hand.
Roomy == Room /\ MaxManualRetries = 0 /\ Workers = {}

\* Every step keeps a success, but the end of the process.
LEMMA RoomStep ==
  ASSUME Roomy, PlaceInv, RoomInv, [Next]_vars
  PROVE  RoomInv' /\ (up' # "down" => \A r \in Requests : Kept(r))
<1>. DEFINE Step == NoOverflow' /\ \A r \in Requests : Kept(r)
<1>0. TypeOK /\ Room
  BY DEF PlaceInv, Roomy
<1>a. assigned' = {}
  <2>1. assigned' = assigned \/ assigned' = {}
          \/ \E r \in Requests : assigned' = assigned \ {r}
    BY DEF Next, SubmitReceive, Submission, SubmitRoute, SubmitReply, SubmitReject, Coroutine,
           Schedule, StartProcessing, PrimeAnswers, FinishSuccess, PrimeFails, ResumeReleased,
           CatchOverflow, GiveUp, ScheduleRetry, TimerFires, OrphanEnds, CancelRequest,
           RetryRequest, WorkerDisconnects, TaskComplete, StopRequested, GracefulExit, Crash,
           ProcessEnds, Restart, vars, streamVars, Roomy
  <2>. QED  BY <2>1 DEF RoomInv
<1>b. CASE Step
  BY <1>a, <1>b DEF RoomInv, Kept
<1>c. CASE UNCHANGED <<sub, known, status, queue, sessionQueue, runs, timers, assigned>>
  BY <1>c, <1>b, NothingTouched
<1>1. ASSUME NEW r \in Requests, SubmitReceive(r) \/ Submission(r)  PROVE Step
  BY <1>0, <1>1, SubmissionKept
<1>2. ASSUME NEW x \in Runs, Coroutine(x)  PROVE Step
  <2>1. CASE Schedule(x)
    BY <2>1, ScheduleKept
  <2>2. CASE ScheduleRetry(x)
    BY <2>2, ScheduleRetryKept
  <2>3. CASE ~Schedule(x) /\ ~ScheduleRetry(x)
    BY <1>0, <1>2, <2>3, CoroutineKept
  <2>. QED  BY <2>1, <2>2, <2>3
<1>3. ASSUME NEW r \in Requests, TimerFires(r)  PROVE Step
  BY <1>0, <1>3, TimerFiresKept
<1>4. ASSUME NEW r \in Requests, CancelRequest(r)  PROVE Step
  BY <1>4, CancelKept
<1>5. ASSUME NEW r \in Requests, OrphanEnds(r)  PROVE Step
  BY <1>5, NothingTouched DEF OrphanEnds, clientVars, taskVars, queueVars, streamVars
<1>6. CASE StopRequested \/ Restart \/ UNCHANGED vars
  BY <1>6, <1>c DEF StopRequested, Restart, vars, clientVars, taskVars, queueVars, streamVars
<1>7. CASE GracefulExit \/ Crash
  <2>1. ProcessEnds
    BY <1>7 DEF GracefulExit, Crash
  <2>. QED  BY <1>a, <2>1, ProcessEndsSettled DEF RoomInv, ProcessEnds
<1>8. /\ \A r \in Requests, resetRetryCount \in BOOLEAN : ~RetryRequest(r, resetRetryCount)
      /\ \A w \in Workers : ~WorkerConnects(w) /\ ~WorkerDisconnects(w)
      /\ \A x \in Runs, r \in Requests, outcome \in Failures \cup {"ok"} : ~TaskComplete(x, r, outcome)
  BY <1>0 DEF RetryRequest, TaskComplete, Roomy, RoomInv, TypeOK
<1>. HIDE DEF Step
<1>. QED
  BY <1>b, <1>1, <1>2, <1>3, <1>4, <1>5, <1>6, <1>7, <1>8 DEF Next

LEMMA RoomInit == Init => RoomInv
<1>. SUFFICES ASSUME Init  PROVE RoomInv
  OBVIOUS
<1>1. /\ runs = [x \in Runs |-> Idle] /\ Idle.pc = "idle" /\ assigned = {} /\ known = {}
      /\ status = [r \in Requests |-> "queued"] /\ sub = [r \in Requests |-> "new"]
  BY DEF Init, Idle
<1>2. \A r \in Requests : \A x \in Runs : ~Executes(x, r)
  BY <1>1 DEF Executes
<1>. QED
  BY <1>1, <1>2 DEF RoomInv, NoOverflow, Settled, AnswerNoted, CompletedPlace, UnsettledPlaced

LEMMA RoomInvariant ==
  ASSUME Roomy
  PROVE  Spec => []RoomInv
<1>1. Init => RoomInv
  BY RoomInit
<1>2. PlaceInv /\ RoomInv /\ [Next]_vars => RoomInv'
  BY RoomStep
<1>3. Spec => []PlaceInv
  BY PlaceInvariant DEF Roomy
<1>. QED  BY <1>1, <1>2, <1>3, PTL DEF Spec

LEMMA LostNowhere == TypeOK /\ RoomInv => NothingLost
<1>. SUFFICES ASSUME TypeOK, RoomInv, NEW r \in known, status[r] \in Unsettled
              PROVE  \/ r \in ToSet(queue) \/ r \in Waiting(SessionOf[r])
                     \/ Running(r) \/ timers[r] > 0 \/ r \in assigned
  BY DEF NothingLost, Unsettled
<1>1. Placed(r)
  BY DEF TypeOK, RoomInv, Settled, UnsettledPlaced
<1>2. Executing(r) => Running(r)
  BY DEF Executing, Executes, Running
<1>. QED  BY <1>1, <1>2 DEF Placed, InQueue, Waits, Timed, Assigned

\* No accepted request is lost, although four services keep it by turns: until it
\* is completed, failed or cancelled it is in a queue, in a coroutine or behind a
\* timer, for any number of requests, sessions, workers and retries.
THEOREM NothingIsLost ==
  ASSUME Roomy
  PROVE  Spec => []NothingLost
<1>1. Spec => []RoomInv
  BY RoomInvariant
<1>. QED  BY <1>1, TypeCorrect, LostNowhere, PTL

\* A request that was reported COMPLETED is never reported otherwise while the
\* process lives, whatever else happens to it: releases, retries, cancellations.
THEOREM SuccessIsFinal ==
  ASSUME Roomy
  PROVE  Spec => CompletedIsFinal
<1>1. PlaceInv /\ RoomInv /\ [Next]_vars
        => [\A r \in Requests : status[r] = "completed" /\ up' # "down"
                                  => status'[r] = "completed"]_vars
  BY RoomStep DEF Kept
<1>2. Spec => []PlaceInv
  BY PlaceInvariant DEF Roomy
<1>3. Spec => []RoomInv
  BY RoomInvariant
<1>. QED  BY <1>1, <1>2, <1>3, PTL DEF Spec, CompletedIsFinal

\* With room in the queue the pool's books are right without further condition:
\* the slots, the marks of the sessions, one call per session, a drained exit.
THEOREM PoolIsSound ==
  ASSUME Roomy, MaxWorkers = 1
  PROVE  Spec => [](PoolBooks /\ SerialCalls /\ DrainedExit)
<1>1. RoomInv => NoOverflow
  BY DEF RoomInv
<1>2. Spec => []NoOverflow
  <2>1. Spec => []RoomInv
    BY RoomInvariant
  <2>. QED  BY <1>1, <2>1, PTL
<1>3. Spec /\ []NoOverflow => []SlotAccounting
  BY SlotsAccounted DEF Roomy
<1>4. Spec /\ []NoOverflow => []SessionMark
  BY SessionsMarked DEF Roomy
<1>5. Spec /\ []NoOverflow => []SerialCalls
  BY CallsSerial DEF Roomy
<1>6. Spec /\ []NoOverflow => []DrainedExit
  BY ExitDrained DEF Roomy
<1>7. SlotAccounting /\ SessionMark => PoolBooks
  BY DEF PoolBooks
<1>. QED  BY <1>2, <1>3, <1>4, <1>5, <1>6, <1>7, PTL

\* Prime executes nothing that nobody waits for, and no rejection went unhandled.
Undisturbed == up # "doomed" /\ \A r \in Requests : orphans[r] = 0

LEMMA UndisturbedStep ==
  ASSUME Roomy, MayOutlive = FALSE, MayCrash = FALSE,
         PlaceInv, RoomInv, DrainedExit, Undisturbed, [Next]_vars
  PROVE  Undisturbed'
<1>1. TypeOK /\ Room
  BY DEF PlaceInv, Roomy
<1>2. CASE UNCHANGED <<up, orphans>>
  BY <1>2 DEF Undisturbed
<1>3. ASSUME NEW r \in Requests, TimerFires(r) PROVE Undisturbed'
  <2>1. ~InQueue(r)
    BY <1>1, <1>3 DEF TimerFires, Timed, PlaceInv, Placement, OnePlace
  <2>2. UNCHANGED <<up, orphans>>
    BY <1>1, <1>3, <2>1, RoomInQueue DEF TimerFires
  <2>. QED  BY <1>2, <2>2
<1>4. ASSUME NEW x \in Runs, NEW outcome \in Failures, NEW orphaned \in BOOLEAN,
             PrimeFails(x, outcome, orphaned)
      PROVE  UNCHANGED <<up, orphans>>
  BY <1>4 DEF PrimeFails, processVars
<1>5. ASSUME NEW r \in Requests, OrphanEnds(r) PROVE FALSE
  BY <1>5 DEF OrphanEnds, Undisturbed
<1>6. CASE GracefulExit
  <2>1. Holding = {}
    BY <1>6 DEF GracefulExit, DrainedExit
  <2>2. \A r \in Requests : {x \in Runs : runs[x].pc = "calling" /\ runs[x].req = r} = {}
    BY <2>1 DEF Holding
  <2>3. \A r \in Requests : orphans'[r] = 0
    BY <1>6, <2>2, FS_EmptySet DEF GracefulExit, ProcessEnds, Undisturbed
  <2>. QED  BY <1>6, <2>3 DEF GracefulExit, ProcessEnds, Undisturbed
<1>7. ~Crash
  BY DEF Crash, Undisturbed
<1>8. CASE Restart \/ StopRequested
  BY <1>8 DEF Restart, StopRequested, Undisturbed
<1>9. /\ \A r \in Requests, resetRetryCount \in BOOLEAN : ~RetryRequest(r, resetRetryCount)
      /\ \A w \in Workers : ~WorkerConnects(w) /\ ~WorkerDisconnects(w)
      /\ \A x \in Runs, r \in Requests, outcome \in Failures \cup {"ok"} : ~TaskComplete(x, r, outcome)
  BY <1>1 DEF RetryRequest, TaskComplete, Roomy, RoomInv, TypeOK
<1>10. \/ UNCHANGED <<up, orphans>>
       \/ \E r \in Requests : TimerFires(r) \/ OrphanEnds(r)
       \/ \E x \in Runs, outcome \in Failures, orphaned \in BOOLEAN : PrimeFails(x, outcome, orphaned)
       \/ GracefulExit \/ Crash \/ Restart \/ StopRequested
  BY <1>9 DEF Next, SubmitReceive, Submission, SubmitRoute, SubmitReply, SubmitReject, Coroutine,
     Schedule, StartProcessing, PrimeAnswers, FinishSuccess, ResumeReleased, CatchOverflow, GiveUp,
     ScheduleRetry, CancelRequest, vars, processVars
<1>. QED  BY <1>2, <1>3, <1>4, <1>5, <1>6, <1>7, <1>8, <1>10

\* Two tasks of one session are at Prime together only because an execution may
\* outlive its call or the process may be killed: nothing else that the service
\* does, a graceful exit included, leaves an execution nobody waits for.
THEOREM SerialUnlessOutlived ==
  ASSUME Roomy, MaxWorkers = 1, MayOutlive = FALSE, MayCrash = FALSE
  PROVE  Spec => []SerialExecution
<1>1. Init => Undisturbed
  BY DEF Init, Undisturbed
<1>2. PlaceInv /\ RoomInv /\ DrainedExit /\ Undisturbed /\ [Next]_vars => Undisturbed'
  BY UndisturbedStep
<1>3. SerialCalls /\ Undisturbed => SerialExecution
  BY DEF Undisturbed, SerialExecution
<1>4. Spec => []PlaceInv
  BY PlaceInvariant DEF Roomy
<1>5. Spec => []RoomInv
  BY RoomInvariant
<1>6. Spec => [](PoolBooks /\ SerialCalls /\ DrainedExit)
  BY PoolIsSound
<1>. QED  BY <1>1, <1>2, <1>3, <1>4, <1>5, <1>6, PTL DEF Spec
-----------------------------------------------------------------------------
(* The queues of the sessions *)

\* Somebody is there whose releaseSlot will trigger the session's queue.
Ahead(s) ==
  \/ \E r \in Requests : InQueue(r) /\ SessionOf[r] = s
  \/ \E x \in Holding : SessionOf[runs[x].req] = s

LEMMA AheadMeaning ==
  ASSUME TypeOK
  PROVE  WaitersTriggered <=> \A s \in Sessions : sessionQueue[s] # <<>> => Ahead(s)
<1>1. ToSet(queue) \subseteq Requests
  BY ToSetElements DEF TypeOK
<1>. QED  BY <1>1 DEF WaitersTriggered, Ahead, InQueue

LEMMA StillAhead ==
  ASSUME NEW s \in Sessions, Ahead(s), \A q \in Requests : InQueue(q) => InQueue(q)',
         \A x \in Holding : SessionOf[runs[x].req] = s
                              => x \in Holding' /\ runs'[x].req = runs[x].req
  PROVE  Ahead(s)'
<1>1. CASE \E r \in Requests : InQueue(r) /\ SessionOf[r] = s
  BY <1>1 DEF Ahead
<1>2. CASE \E x \in Holding : SessionOf[runs[x].req] = s
  BY <1>2 DEF Ahead
<1>. QED  BY <1>1, <1>2 DEF Ahead

\* A task that holds a slot gives it up: its session's next is now queued.
LEMMA ReleaseAhead ==
  ASSUME Room, PlaceInv, SlotAccounting, WaitersTriggered,
         NEW x \in Holding, NEW r \in Requests, r = runs[x].req, NEW run,
         ReleaseSlot(r), runs' = [runs EXCEPT ![x] = run], NEW s \in Sessions,
         sessionQueue'[s] # <<>>
  PROVE  Ahead(s)'
<1>0. TypeOK /\ Placement /\ x \in Runs
  BY DEF PlaceInv, Holding
<1>1. Executes(x, r) /\ r \in activeTasks /\ ~InQueue(r)
  BY <1>0 DEF Holding, Executes, SlotAccounting, Placement, OnePlace, Executing
<1>2. ~QueueFull
  BY <1>1, RoomInQueue
<1>3. ASSUME NEW q \in Requests, InQueue(q)  PROVE InQueue(q)'
  BY <1>0, <1>2, <1>3, ReleasePlaces
<1>4. \A y \in Runs : y # x => runs'[y] = runs[y]
  BY <1>0 DEF TypeOK
<1>5. CASE s # SessionOf[r]
  <2>1. sessionQueue'[s] = sessionQueue[s]
    BY <1>0, <1>5 DEF ReleaseSlot, TriggerNext, TypeOK
  <2>2. Ahead(s)
    BY <1>0, <2>1, AheadMeaning
  <2>3. \A y \in Holding : SessionOf[runs[y].req] = s
                             => y \in Holding' /\ runs'[y].req = runs[y].req
    BY <1>4, <1>5 DEF Holding
  <2>. QED  BY <1>3, <2>2, <2>3, StillAhead
<1>6. CASE s = SessionOf[r]
  <2>1. sessionQueue[s] # <<>> /\ TriggersNext(r)
    BY <1>1, <1>6 DEF ReleaseSlot, TriggerNext, TriggersNext
  <2>2. sessionQueue[s] \in Seq(Requests) /\ Distinct(sessionQueue[s])
    BY <1>0 DEF TypeOK, Placement, QueuesDistinct
  <2>3. PICK h \in Requests : h = Head(sessionQueue[s])
    BY <2>1, <2>2
  <2>4. h \in Waiting(s)
    BY <2>1, <2>2, <2>3, TailDistinct DEF Waiting
  <2>5. SessionOf[h] = s /\ ~InQueue(h)
    <3>1. SessionOf[h] = s
      BY <1>0, <2>4 DEF Placement, QueuesDistinct
    <3>. QED  BY <1>0, <2>4, <3>1 DEF Placement, OnePlace, Waits
  <2>6. queue' = Enqueue(queue, h)
    BY <1>6, <2>1, <2>3 DEF ReleaseSlot, TriggerNext
  <2>7. h \in ToSet(queue')
    BY <1>0, <1>2, <2>5, <2>6, EnqueueDistinct DEF Placement, QueuesDistinct
  <2>. QED  BY <2>5, <2>7 DEF Ahead, InQueue
<1>. QED  BY <1>5, <1>6

LEMMA EnqueueGrows ==
  ASSUME TypeOK, NEW r \in Requests, queue' = Enqueue(queue, r)
  PROVE  \A q \in Requests : InQueue(q) => InQueue(q)'
<1>1. queue \in Seq(Requests) /\ ToSet(queue) = {queue[i] : i \in 1..Len(queue)}
  BY ToSetElements DEF TypeOK
<1>2. CASE queue' = queue
  BY <1>2 DEF InQueue
<1>3. CASE queue' = Append(queue, r)
  <2>1. queue' \in Seq(Requests) /\ Len(queue') = Len(queue) + 1
        /\ \A i \in 1..Len(queue) : queue'[i] = queue[i]
    BY <1>1, <1>3
  <2>2. ToSet(queue') = {queue'[i] : i \in 1..Len(queue')}
    BY <2>1, ToSetElements
  <2>. QED  BY <1>1, <2>1, <2>2 DEF InQueue
<1>. QED  BY <1>2, <1>3 DEF Enqueue

\* A coroutine takes the place of a queued task, keeps its slot or releases it.
LEMMA CoroutineAhead ==
  ASSUME Room, PlaceInv, RoomInv, SlotAccounting, WaitersTriggered,
         NEW x \in Runs, Coroutine(x), NEW s \in Sessions, sessionQueue'[s] # <<>>
  PROVE  Ahead(s)'
<1>0. TypeOK
  BY DEF PlaceInv
<1>1. CASE Schedule(x)
  <2>1. queue \in Seq(Requests) /\ Distinct(queue) /\ HeadIndex \in 1..Len(queue)
    BY <1>0, <1>1, HeadIndexInDomain DEF PlaceInv, Placement, QueuesDistinct, TypeOK, Schedule
  <2>2. PICK r \in Requests : r = queue[HeadIndex]
    BY <2>1
  <2>3. ToSet(queue') = ToSet(queue) \ {r}
    BY <1>1, <2>1, <2>2, RemoveDistinct DEF Schedule
  <2>4. /\ runs'[x].req = r /\ x \in Holding' /\ x \notin Holding
        /\ \A y \in Runs : y # x => runs'[y] = runs[y]
        /\ sessionQueue' = sessionQueue
    <3>1. runs' = [runs EXCEPT ![x] = Run("starting", r, "ok")] /\ runs[x].pc = "idle"
          /\ sessionQueue' = sessionQueue
      BY <1>1, <2>2 DEF Schedule, Idle
    <3>2. runs'[x] = Run("starting", r, "ok") /\ \A y \in Runs : y # x => runs'[y] = runs[y]
      BY <1>0, <3>1 DEF TypeOK
    <3>. QED  BY <3>1, <3>2 DEF Holding, Run
  <2>5. Ahead(s)
    BY <1>0, <2>4, AheadMeaning
  <2>6. CASE SessionOf[r] = s
    BY <2>4, <2>6 DEF Ahead
  <2>7. CASE SessionOf[r] # s
    <3>1. CASE \E q \in Requests : InQueue(q) /\ SessionOf[q] = s
      BY <2>3, <2>7, <3>1 DEF Ahead, InQueue
    <3>2. CASE \E y \in Holding : SessionOf[runs[y].req] = s
      BY <2>4, <3>2 DEF Ahead, Holding
    <3>. QED  BY <2>5, <3>1, <3>2 DEF Ahead
  <2>. QED  BY <2>6, <2>7
<1>2. CASE FinishSuccess(x) \/ \E outcome \in Failures, orphaned \in BOOLEAN :
                                   PrimeFails(x, outcome, orphaned)
  <2>1. x \in Holding /\ runs[x].pc # "idle"
    BY <1>2 DEF FinishSuccess, PrimeFails, Holding
  <2>2. PICK r \in Requests : r = runs[x].req /\ Executes(x, r)
    BY <1>0, <2>1, RunRequest
  <2>3. ReleaseSlot(r) /\ \E run : runs' = [runs EXCEPT ![x] = run]
    BY <1>2, <2>2 DEF FinishSuccess, PrimeFails
  <2>. QED  BY <2>1, <2>2, <2>3, ReleaseAhead
<1>3. CASE \/ StartProcessing(x) \/ ResumeReleased(x) \/ GiveUp(x) \/ ScheduleRetry(x)
           \/ \E reply \in {Completed, Failed} : PrimeAnswers(x, reply)
  <2>1. UNCHANGED <<queue, sessionQueue>> /\ \A y \in Runs : y # x => runs'[y] = runs[y]
    BY <1>0, <1>3 DEF StartProcessing, ResumeReleased, GiveUp, ScheduleRetry, PrimeAnswers,
                      queueVars, TypeOK
  <2>2. x \in Holding => x \in Holding' /\ runs'[x].req = runs[x].req
    BY <1>0, <1>3 DEF StartProcessing, ResumeReleased, GiveUp, ScheduleRetry, PrimeAnswers,
                      Holding, Run, TypeOK
  <2>3. \A y \in Holding : y \in Holding' /\ runs'[y].req = runs[y].req
    BY <2>1, <2>2 DEF Holding
  <2>4. Ahead(s)
    BY <1>0, <2>1, AheadMeaning
  <2>. QED  BY <2>1, <2>3, <2>4, StillAhead DEF InQueue
<1>4. ~CatchOverflow(x)
  BY DEF CatchOverflow, RoomInv, NoOverflow
<1>. QED  BY <1>1, <1>2, <1>3, <1>4 DEF Coroutine

LEMMA WaitersStep ==
  ASSUME Roomy, Cancellable = {}, PlaceInv, RoomInv, OneHolder, WaitersTriggered, [Next]_vars
  PROVE  WaitersTriggered'
<1>0. TypeOK /\ TypeOK' /\ Room /\ SlotAccounting /\ SessionMark
  BY TypeStep DEF PlaceInv, Roomy, OneHolder
<1>. SUFFICES ASSUME NEW s \in Sessions, sessionQueue'[s] # <<>>  PROVE Ahead(s)'
  BY DEF WaitersTriggered, Ahead, InQueue
<1>a. ASSUME sessionQueue[s] # <<>>, \A q \in Requests : InQueue(q) => InQueue(q)',
             \A x \in Holding : x \in Holding' /\ runs'[x].req = runs[x].req
      PROVE  Ahead(s)'
  <2>1. Ahead(s)
    BY <1>0, <1>a, AheadMeaning
  <2>. QED  BY <1>a, <2>1, StillAhead
<1>b. CASE UNCHANGED <<queue, sessionQueue, runs>>
  BY <1>a, <1>b DEF InQueue, Holding
<1>1. ASSUME NEW r \in Requests, SubmitReceive(r) \/ Submission(r)  PROVE Ahead(s)'
  <2>1. CASE SubmitReceive(r) \/ SubmitReply(r) \/ SubmitReject(r)
    BY <1>b, <2>1 DEF SubmitReceive, SubmitReply, SubmitReject, queueVars
  <2>2. CASE SubmitRoute(r)
    <3>1. runs' = runs /\ Holding' = Holding
      BY <2>2 DEF SubmitRoute, Holding
    <3>2. CASE SessionOf[r] \in processing /\ s = SessionOf[r]
      <4>1. PICK x \in Started : SessionOf[runs[x].req] = s
        BY <1>0, <3>2 DEF SessionMark
      <4>. QED  BY <3>1, <4>1 DEF Ahead, Started, Holding
    <3>3. CASE SessionOf[r] \in processing /\ s # SessionOf[r]
      <4>1. queue' = queue /\ sessionQueue'[s] = sessionQueue[s]
        BY <1>0, <2>2, <3>3 DEF SubmitRoute, TypeOK
      <4>. QED  BY <1>a, <3>1, <4>1 DEF InQueue
    <3>4. CASE SessionOf[r] \notin processing
      <4>1. sessionQueue' = sessionQueue /\ queue' = Enqueue(queue, r)
        BY <2>2, <3>4 DEF SubmitRoute
      <4>2. \A q \in Requests : InQueue(q) => InQueue(q)'
        BY <1>0, <4>1, EnqueueGrows
      <4>. QED  BY <1>a, <3>1, <4>1, <4>2
    <3>. QED  BY <3>2, <3>3, <3>4
  <2>. QED  BY <1>1, <2>1, <2>2 DEF Submission
<1>2. ASSUME NEW x \in Runs, Coroutine(x)  PROVE Ahead(s)'
  BY <1>0, <1>2, CoroutineAhead
<1>3. ASSUME NEW r \in Requests, TimerFires(r)  PROVE Ahead(s)'
  <2>1. UNCHANGED <<sessionQueue, runs>> /\ queue' = Enqueue(queue, r)
    BY <1>3 DEF TimerFires
  <2>2. \A q \in Requests : InQueue(q) => InQueue(q)'
    BY <1>0, <2>1, EnqueueGrows
  <2>. QED  BY <1>a, <2>1, <2>2 DEF Holding
<1>4. CASE \/ \E r \in Requests : OrphanEnds(r)
           \/ StopRequested \/ Restart \/ UNCHANGED vars
  BY <1>4, <1>b DEF OrphanEnds, StopRequested, Restart, vars, queueVars
<1>5. CASE GracefulExit \/ Crash
  BY <1>5 DEF GracefulExit, Crash, ProcessEnds
<1>6. /\ \A r \in Requests : ~CancelRequest(r)
      /\ \A r \in Requests, resetRetryCount \in BOOLEAN : ~RetryRequest(r, resetRetryCount)
      /\ \A w \in Workers : ~WorkerConnects(w) /\ ~WorkerDisconnects(w)
      /\ \A x \in Runs, r \in Requests, outcome \in Failures \cup {"ok"} : ~TaskComplete(x, r, outcome)
  BY <1>0 DEF CancelRequest, RetryRequest, TaskComplete, Roomy, RoomInv, TypeOK
<1>. QED
  BY <1>1, <1>2, <1>3, <1>4, <1>5, <1>6 DEF Next

\* No session is left behind: a request that was routed to the queue of its
\* session, because canProcess said no, has a task ahead of it that will trigger
\* it.  The answer of canProcess is used after it could have become stale.
THEOREM WaitersAreTriggered ==
  ASSUME Roomy, MaxWorkers = 1, Cancellable = {}
  PROVE  Spec => []WaitersTriggered
<1>1. Init => WaitersTriggered
  BY DEF Init, WaitersTriggered
<1>2. PlaceInv /\ RoomInv /\ OneHolder /\ WaitersTriggered /\ [Next]_vars => WaitersTriggered'
  BY WaitersStep
<1>3. Spec => []PlaceInv
  BY PlaceInvariant DEF Roomy
<1>4. Spec => []RoomInv
  BY RoomInvariant
<1>5. RoomInv => NoOverflow
  BY DEF RoomInv
<1>6. Spec /\ []NoOverflow => []OneHolder
  BY OneHolderInvariant DEF Roomy
<1>. QED  BY <1>1, <1>2, <1>3, <1>4, <1>5, <1>6, PTL DEF Spec

-----------------------------------------------------------------------------
(* The worker pool implements the per-session serial executor with a retry   *)
(* budget of SessionExecutor, under the same conditions and with the single  *)
(* worker: every step of the pool is at most one move of one request, or the *)
(* end of the process.                                                       *)

\* The service knows the request or is about to.
Present(r) == sub[r] = "logged" \/ r \in known

\* What a coroutine's program counter says about its request.
RunStands(run, r) ==
  /\ run.pc = "starting" => status[r] \in Unsettled
  /\ run.pc = "calling" => status[r] = "processing"
  /\ run.pc = "maxAudit" => ~RetriesLeft(r)
  /\ run.pc = "retryAudit" => run.outcome = "recoverable"

\* What the place of a request says about its status.
Standing(r) ==
  /\ InQueue(r) \/ Waits(r) => status[r] \in {"queued", "retrying"}
  /\ Timed(r) => status[r] \in {"failed", "retrying"}
  /\ \A x \in Runs : Executes(x, r) => RunStands(runs[x], r)
  /\ Placed(r) => Present(r)
  /\ ~Present(r) => status[r] = "queued"

AllInv == PlaceInv /\ RoomInv /\ IdleIsNobody /\ \A r \in Requests : Standing(r)
-----------------------------------------------------------------------------
(* The refinement mapping, read off the place of a request *)

Over(r) == status[r] \in {"completed", "failed"}

ToBeRetried(run, left) == run.pc # "idle" /\ run.outcome = "recoverable" /\ left

RunPhase(run, st, left) ==
  IF run.pc = "calling" THEN "running"
  ELSE IF st = "completed" THEN "succeeded"
  ELSE IF st = "failed" /\ ~ToBeRetried(run, left) THEN "failed" ELSE "waiting"

RunAttempt(run, st) == IF run.pc # "starting" \/ st \in {"completed", "failed"} THEN 1 ELSE 0

RestPhase(r) ==
  IF ~Present(r) THEN "absent"
  ELSE IF status[r] = "completed" THEN "succeeded"
  ELSE IF status[r] = "cancelled" THEN "cancelled"
  ELSE IF status[r] = "failed" /\ ~Timed(r) THEN "failed"
  ELSE "waiting"

RestAttempt(r) == IF Timed(r) \/ Over(r) THEN 1 ELSE 0

LEMMA RequestOfRun ==
  ASSUME IdleIsNobody, NEW r \in Requests, NEW x \in Runs
  PROVE  runs[x].req = r <=> Executes(x, r)
BY ConstantsAssumption DEF IdleIsNobody, Idle, Executes

\* The two ways to read the mapping.
RunView ==
  \A r \in Requests : \A x \in Runs : Executes(x, r) =>
    /\ PhaseOf(r) = RunPhase(runs[x], status[r], RetriesLeft(r))
    /\ AttemptsOf(r) = retryCount[r] + RunAttempt(runs[x], status[r])

RestView ==
  \A r \in Requests : ~Executing(r) =>
    /\ PhaseOf(r) = RestPhase(r)
    /\ AttemptsOf(r) = retryCount[r] + RestAttempt(r)

LEMMA PhaseOfRun == AllInv => RunView
<1>. SUFFICES ASSUME AllInv, NEW r \in Requests, NEW x \in Runs, Executes(x, r)
              PROVE  /\ PhaseOf(r) = RunPhase(runs[x], status[r], RetriesLeft(r))
                     /\ AttemptsOf(r) = retryCount[r] + RunAttempt(runs[x], status[r])
  BY DEF RunView
<1>0. Placement /\ Executing(r) /\ timers[r] \in Nat /\ IdleIsNobody
  BY DEF AllInv, PlaceInv, TypeOK, Executing
<1>1. \A y \in Runs : (runs[y].req = r <=> y = x)
  BY <1>0, RequestOfRun DEF Placement, OneCoroutine
<1>2. timers[r] = 0
  BY <1>0 DEF Placement, OnePlace, Timed
<1>3. (\E y \in Calling : runs[y].req = r) <=> runs[x].pc = "calling"
  BY <1>1 DEF Calling
<1>4. GivenUp(r) <=> status[r] = "failed" /\ ~(runs[x].outcome = "recoverable" /\ RetriesLeft(r))
  BY <1>1, <1>2 DEF GivenUp, RetriesLeft
<1>5. StartedOnce(r) <=> runs[x].pc # "starting" \/ Over(r)
  BY <1>1, <1>2 DEF StartedOnce, Over
<1>6. Present(r) /\ status[r] # "cancelled" /\ (runs[x].pc = "calling" => status[r] = "processing")
  BY <1>0 DEF AllInv, PlaceInv, CancelledNowhere, Standing, RunStands, Placed
<1>7. PhaseOf(r) = RunPhase(runs[x], status[r], RetriesLeft(r))
  BY <1>3, <1>4, <1>6 DEF PhaseOf, RunPhase, ToBeRetried, Executes, Present
<1>8. AttemptsOf(r) = retryCount[r] + RunAttempt(runs[x], status[r])
  BY <1>5 DEF AttemptsOf, RunAttempt, Over
<1>. QED  BY <1>7, <1>8

LEMMA PhaseAtRest == AllInv => RestView
<1>. SUFFICES ASSUME AllInv, NEW r \in Requests, ~Executing(r)
              PROVE  /\ PhaseOf(r) = RestPhase(r)
                     /\ AttemptsOf(r) = retryCount[r] + RestAttempt(r)
  BY DEF RestView
<1>1. \A y \in Runs : runs[y].req # r
  BY RequestOfRun DEF AllInv, Executing
<1>2. timers[r] = 0 <=> ~Timed(r)
  BY DEF AllInv, PlaceInv, TypeOK, Timed
<1>3. ~(\E y \in Calling : runs[y].req = r)
  BY <1>1 DEF Calling
<1>4. GivenUp(r) <=> status[r] = "failed" /\ ~Timed(r)
  BY <1>1, <1>2 DEF GivenUp
<1>5. StartedOnce(r) <=> Timed(r) \/ Over(r)
  BY <1>1 DEF StartedOnce, Over, Timed
<1>6. ~Present(r) => status[r] = "queued"
  BY DEF AllInv, Standing
<1>7. PhaseOf(r) = RestPhase(r)
  BY <1>3, <1>4, <1>6 DEF PhaseOf, RestPhase, Present
<1>8. AttemptsOf(r) = retryCount[r] + RestAttempt(r)
  BY <1>5 DEF AttemptsOf, RestAttempt
<1>. QED  BY <1>7, <1>8

LEMMA Views == (AllInv => RunView /\ RestView) /\ (AllInv' => RunView' /\ RestView')
BY PhaseOfRun, PhaseAtRest, PTL
-----------------------------------------------------------------------------
(* Moves of the abstract executor *)

\* A step that is not about the request; it may trigger it.
Aside(r) == Untouched(r) /\ retryCount'[r] = retryCount[r] /\ timers'[r] = timers[r]

StaysPut(r) == PhaseOf(r)' = PhaseOf(r) /\ AttemptsOf(r)' = AttemptsOf(r)

LEMMA AsideStays ==
  ASSUME IdleIsNobody, IdleIsNobody', NEW r \in Requests, Standing(r), Aside(r)
  PROVE  Standing(r)' /\ StaysPut(r)
<1>1. \A x \in Runs : (runs[x].req = r <=> Executes(x, r))
                      /\ (runs'[x].req = r <=> Executes(x, r)')
  BY ConstantsAssumption DEF IdleIsNobody, Idle, Executes
<1>2. \A x \in Runs : (runs'[x].req = r <=> runs[x].req = r)
                      /\ (runs[x].req = r => runs'[x] = runs[x])
  BY <1>1 DEF Aside, Untouched
<1>3. (Present(r)' <=> Present(r)) /\ (Placed(r)' <=> Placed(r))
  BY DEF Aside, Untouched, Present, Placed, Executing
<1>4. Standing(r)'
  BY <1>3 DEF Aside, Untouched, Standing, RunStands, RetriesLeft
<1>5. GivenUp(r)' <=> GivenUp(r)
  BY <1>2 DEF Aside, Untouched, GivenUp
<1>6. StartedOnce(r)' <=> StartedOnce(r)
  BY <1>2 DEF Aside, Untouched, StartedOnce
<1>7. (\E x \in Calling : runs[x].req = r)' <=> \E x \in Calling : runs[x].req = r
  BY <1>2 DEF Calling
<1>8. PhaseOf(r)' = PhaseOf(r)
  BY <1>5, <1>7 DEF Aside, Untouched, PhaseOf
<1>9. AttemptsOf(r)' = AttemptsOf(r)
  BY <1>6 DEF Aside, Untouched, AttemptsOf
<1>. QED  BY <1>4, <1>8, <1>9 DEF StaysPut

From(r, before, after) == PhaseOf(r) = before /\ PhaseOf(r)' = after

\* What one request may do in a step, as SessionExecutor allows it.
Moves(r) ==
  \/ StaysPut(r)
  \/ /\ AttemptsOf(r)' = AttemptsOf(r)
     /\ \/ From(r, "absent", "waiting")
        \/ From(r, "running", "succeeded")
        \/ From(r, "running", "failed")
        \/ From(r, "running", "waiting") /\ AttemptsOf(r) <= MaxRetries
        \/ From(r, "waiting", "cancelled")
  \/ /\ AttemptsOf(r)' = AttemptsOf(r) + 1
     /\ From(r, "waiting", "running") /\ AttemptsOf(r) <= MaxRetries
     /\ \A q \in Requests : PhaseOf(q) = "running" => SessionOf[q] # SessionOf[r]

AbstractPhase == [r \in Requests |-> PhaseOf(r)]
AbstractAttempts == [r \in Requests |-> AttemptsOf(r)]

\* A step of the abstract executor, or a stutter.
AbstractStep == [Executor!Next]_<<AbstractPhase, AbstractAttempts>>

LEMMA OneMoves ==
  ASSUME NEW r \in Requests, \A q \in Requests : q # r => StaysPut(q), Moves(r)
  PROVE  AbstractStep
<1>1. /\ AbstractPhase' = [AbstractPhase EXCEPT ![r] = PhaseOf(r)']
      /\ AbstractAttempts' = [AbstractAttempts EXCEPT ![r] = AttemptsOf(r)']
  BY DEF AbstractPhase, AbstractAttempts, StaysPut
<1>2. \A q \in Requests : AbstractPhase[q] = PhaseOf(q) /\ AbstractAttempts[q] = AttemptsOf(q)
  BY DEF AbstractPhase, AbstractAttempts
<1>3. AttemptsOf(r)' = AttemptsOf(r) => AbstractAttempts' = AbstractAttempts
  BY DEF AbstractAttempts, StaysPut
<1>4. CASE StaysPut(r)
  <2>1. AbstractPhase' = AbstractPhase /\ AbstractAttempts' = AbstractAttempts
    BY <1>4 DEF AbstractPhase, AbstractAttempts, StaysPut
  <2>. QED  BY <2>1 DEF AbstractStep
<1>5. CASE /\ AttemptsOf(r)' = AttemptsOf(r)
           /\ \/ From(r, "absent", "waiting")
              \/ From(r, "running", "succeeded")
              \/ From(r, "running", "failed")
              \/ From(r, "running", "waiting") /\ AttemptsOf(r) <= MaxRetries
              \/ From(r, "waiting", "cancelled")
  <2>1. \/ Executor!Admit(r) \/ Executor!Succeed(r) \/ Executor!Fail(r)
        \/ Executor!TryAgain(r) \/ Executor!Cancel(r)
    BY <1>1, <1>2, <1>3, <1>5
       DEF From, Executor!Admit, Executor!Succeed, Executor!Fail, Executor!TryAgain,
           Executor!Cancel, Executor!Move, AbstractPhase, AbstractAttempts
  <2>2. Executor!Next
    BY <2>1 DEF Executor!Next
  <2>. QED  BY <2>2 DEF AbstractStep
<1>6. CASE /\ AttemptsOf(r)' = AttemptsOf(r) + 1
           /\ From(r, "waiting", "running") /\ AttemptsOf(r) <= MaxRetries
           /\ \A q \in Requests : PhaseOf(q) = "running" => SessionOf[q] # SessionOf[r]
  <2>1. Executor!Start(r)
    BY <1>1, <1>2, <1>6 DEF From, Executor!Start, Executor!Move, AbstractPhase, AbstractAttempts
  <2>2. Executor!Next
    BY <2>1 DEF Executor!Next
  <2>. QED  BY <2>2 DEF AbstractStep
<1>. QED  BY <1>4, <1>5, <1>6 DEF Moves
-----------------------------------------------------------------------------
(* The steps of the pool *)

LEMMA OneStep ==
  ASSUME AllInv, PlaceInv', RoomInv', IdleIsNobody', NEW r \in Requests, Standing(r)',
         \A q \in Requests : q # r => Aside(q)
  PROVE  AllInv' /\ \A q \in Requests : q # r => StaysPut(q)
<1>1. \A q \in Requests : q # r => Standing(q)' /\ StaysPut(q)
  BY AsideStays DEF AllInv
<1>. QED  BY <1>1 DEF AllInv

\* A coroutine goes on with its request or ends, with or without releaseSlot.
LEMMA RunStep ==
  ASSUME Room, AllInv, PlaceInv', RoomInv', IdleIsNobody',
         NEW x \in Runs, NEW run, NEW r \in Requests, Executes(x, r),
         runs' = [runs EXCEPT ![x] = run], run.pc # "idle" => run.req = r, run.pc # "starting",
         ReleaseSlot(r) \/ UNCHANGED <<queue, sessionQueue>>,
         UNCHANGED <<sub, known, retryCount, timers, assigned>>,
         \A q \in Requests : q # r => status'[q] = status[q],
         run.pc = "idle" => status'[r] \in {"completed", "failed"},
         run.pc = "calling" => status'[r] = "processing",
         run.pc = "maxAudit" => ~RetriesLeft(r),
         run.pc = "retryAudit" => run.outcome = "recoverable"
  PROVE  /\ AllInv'
         /\ \A q \in Requests : q # r => StaysPut(q)
         /\ PhaseOf(r) = RunPhase(runs[x], status[r], RetriesLeft(r))
         /\ AttemptsOf(r) = retryCount[r] + RunAttempt(runs[x], status[r])
         /\ PhaseOf(r)' = RunPhase(run, status'[r], RetriesLeft(r))
         /\ AttemptsOf(r)' = retryCount[r] + 1
<1>0. PlaceInv /\ TypeOK
  BY DEF AllInv, PlaceInv
<1>1. /\ \A q \in Requests : q # r => Untouched(q)
      /\ ~InQueue(r)' /\ ~Waits(r)' /\ ~Timed(r)'
      /\ \A y \in Runs : Executes(y, r)' <=> y = x /\ run.pc # "idle"
  BY <1>0, RunOthers
<1>2. \A q \in Requests : q # r => Aside(q)
  BY <1>1 DEF Aside
<1>3. runs'[x] = run
  BY <1>0 DEF TypeOK
<1>4. Present(r) /\ Present(r)'
  BY DEF AllInv, Standing, Placed, Executing, Present
<1>5. Standing(r)'
  BY <1>1, <1>3, <1>4 DEF Standing, RunStands, RetriesLeft
<1>6. AllInv' /\ \A q \in Requests : q # r => StaysPut(q)
  BY <1>2, <1>5, OneStep
<1>7. RunView /\ RunView' /\ RestView'
  BY <1>6, Views
<1>8. /\ PhaseOf(r) = RunPhase(runs[x], status[r], RetriesLeft(r))
      /\ AttemptsOf(r) = retryCount[r] + RunAttempt(runs[x], status[r])
  BY <1>7 DEF RunView
<1>9. PhaseOf(r)' = RunPhase(run, status'[r], RetriesLeft(r))
      /\ AttemptsOf(r)' = retryCount[r] + 1
  <2>1. CASE run.pc # "idle"
    <3>1. Executes(x, r)'
      BY <1>1, <2>1
    <3>2. /\ PhaseOf(r)' = RunPhase(run, status'[r], RetriesLeft(r)')
          /\ AttemptsOf(r)' = retryCount'[r] + RunAttempt(run, status'[r])
      BY <1>3, <1>7, <3>1 DEF RunView
    <3>3. RetriesLeft(r)' <=> RetriesLeft(r)
      BY DEF RetriesLeft
    <3>. QED  BY <3>2, <3>3 DEF RunPhase, ToBeRetried, RunAttempt
  <2>2. CASE run.pc = "idle"
    <3>1. ~Executing(r)'
      BY <1>1, <2>2 DEF Executing
    <3>2. PhaseOf(r)' = RestPhase(r)' /\ AttemptsOf(r)' = retryCount'[r] + RestAttempt(r)'
      BY <1>7, <3>1 DEF RestView
    <3>. QED  BY <1>1, <1>4, <2>2, <3>2 DEF RestPhase, RestAttempt, Over, RunPhase, ToBeRetried
  <2>. QED  BY <2>1, <2>2
<1>. QED  BY <1>6, <1>8, <1>9

\* What a coroutine becomes in handleSuccess or handleFailure, or before them,
\* tells whether its request will be tried again.
Decided(run, r, outcome) ==
  /\ run.pc # "idle" => run.req = r
  /\ run.pc \in {"idle", "releasing", "maxAudit", "retryAudit"}
  /\ ToBeRetried(run, RetriesLeft(r)) <=> outcome = "recoverable" /\ RetriesLeft(r)
  /\ run.pc = "maxAudit" => ~RetriesLeft(r)
  /\ run.pc = "retryAudit" => run.outcome = "recoverable"

LEMMA HandledDecided ==
  ASSUME NEW r \in Requests, NEW outcome \in Outcomes
  PROVE  Decided(Handled(r, outcome), r, outcome)
BY DEF Decided, Handled, Idle, Run, ToBeRetried

LEMMA ReleasedDecided ==
  ASSUME NEW r \in Requests, NEW outcome \in Outcomes, NEW onFull, ~QueueFull
  PROVE  Decided(Released(r, outcome, onFull), r, outcome)
<1>1. Decided(Run("releasing", r, outcome), r, outcome)
  BY DEF Decided, Run, ToBeRetried
<1>. QED  BY <1>1, HandledDecided DEF Released

\* Such a step, with the phase it leaves behind.
LEMMA DecidedStep ==
  ASSUME Room, AllInv, PlaceInv', RoomInv', IdleIsNobody',
         NEW x \in Runs, NEW run, NEW r \in Requests, Executes(x, r),
         NEW outcome \in Outcomes, Decided(run, r, outcome),
         runs' = [runs EXCEPT ![x] = run],
         ReleaseSlot(r) \/ UNCHANGED <<queue, sessionQueue>>,
         UNCHANGED <<sub, known, retryCount, timers, assigned>>,
         \A q \in Requests : q # r => status'[q] = status[q],
         status'[r] = OutcomeStatus(outcome)
  PROVE  /\ AllInv'
         /\ \A q \in Requests : q # r => StaysPut(q)
         /\ PhaseOf(r) = RunPhase(runs[x], status[r], RetriesLeft(r))
         /\ AttemptsOf(r) = retryCount[r] + RunAttempt(runs[x], status[r])
         /\ PhaseOf(r)' = IF outcome = "ok" THEN "succeeded"
                          ELSE IF outcome = "recoverable" /\ RetriesLeft(r) THEN "waiting"
                          ELSE "failed"
         /\ AttemptsOf(r)' = retryCount[r] + 1
<1>1. /\ run.pc # "idle" => run.req = r
      /\ run.pc # "starting"
      /\ run.pc = "idle" => status'[r] \in {"completed", "failed"}
      /\ run.pc = "calling" => status'[r] = "processing"
      /\ run.pc = "maxAudit" => ~RetriesLeft(r)
      /\ run.pc = "retryAudit" => run.outcome = "recoverable"
  BY DEF Decided, OutcomeStatus
<1>2. /\ AllInv'
      /\ \A q \in Requests : q # r => StaysPut(q)
      /\ PhaseOf(r) = RunPhase(runs[x], status[r], RetriesLeft(r))
      /\ AttemptsOf(r) = retryCount[r] + RunAttempt(runs[x], status[r])
      /\ PhaseOf(r)' = RunPhase(run, status'[r], RetriesLeft(r))
      /\ AttemptsOf(r)' = retryCount[r] + 1
  BY <1>1, RunStep
<1>3. RunPhase(run, status'[r], RetriesLeft(r)) =
        IF outcome = "ok" THEN "succeeded"
        ELSE IF outcome = "recoverable" /\ RetriesLeft(r) THEN "waiting" ELSE "failed"
  BY DEF Decided, RunPhase, OutcomeStatus
<1>. QED  BY <1>2, <1>3

\* With one slot nobody else is at Prime.
LEMMA NobodyElseRuns ==
  ASSUME AllInv, OneHolder, NEW x \in Runs, runs[x].pc = "starting"
  PROVE  \A q \in Requests : PhaseOf(q) # "running"
<1>. SUFFICES ASSUME NEW q \in Requests, PhaseOf(q) = "running"  PROVE FALSE
  OBVIOUS
<1>1. RunView /\ RestView
  BY Views
<1>2. PICK y \in Runs : Executes(y, q)
  BY <1>1 DEF RestView, RestPhase, Executing
<1>3. runs[y].pc = "calling"
  BY <1>1, <1>2 DEF RunView, RunPhase
<1>4. x \in Holding /\ y \in Holding /\ x # y
  BY <1>3 DEF Holding
<1>5. IsFiniteSet(Holding) /\ Cardinality(Holding) \in 0..1
  BY HoldingFinite DEF OneHolder
<1>6. IsFiniteSet(Holding \ {x}) /\ Cardinality(Holding \ {x}) = Cardinality(Holding) - 1
  BY <1>4, <1>5, FS_RemoveElement
<1>7. Cardinality(Holding \ {x}) = 0
  BY <1>5, <1>6, FS_CardinalityType
<1>8. Holding \ {x} = {}
  BY <1>6, <1>7, FS_EmptySet
<1>. QED  BY <1>4, <1>8

LEMMA CoroutineMoves ==
  ASSUME Room, AllInv, PlaceInv', RoomInv', IdleIsNobody', OneHolder,
         NEW x \in Runs, Coroutine(x), ~Schedule(x), ~ScheduleRetry(x)
  PROVE  AllInv' /\ AbstractStep
<1>. USE DEF clientVars, taskVars, queueVars, streamVars
<1>0. TypeOK /\ PlaceInv
  BY DEF AllInv, PlaceInv
<1>1. runs[x].pc # "idle"
  BY DEF Coroutine, StartProcessing, PrimeAnswers, FinishSuccess, PrimeFails, ResumeReleased,
         CatchOverflow, GiveUp
<1>2. PICK r \in Requests : r = runs[x].req /\ Executes(x, r)
  BY <1>0, <1>1, RunRequest
<1>. DEFINE outcome == runs[x].outcome
            rest == \A q \in Requests : q # r => StaysPut(q)
<1>3. /\ Answered(runs[x]) => status[r] = Answer(runs[x])
      /\ status[r] = "completed" => runs[x].pc \in {"completing", "releasing"}
      /\ RunStands(runs[x], r)
      /\ retryCount[r] \in Nat /\ retryCount[r] <= MaxRetries
  <2>1. AnswerNoted(r) /\ CompletedPlace(r) /\ Standing(r)
    BY DEF AllInv, RoomInv, Settled
  <2>2. retryCount[r] \in Nat /\ timers[r] \in Nat /\ retryCount[r] + timers[r] <= MaxRetries
    BY <1>0 DEF PlaceInv, Budget, TypeOK
  <2>3. retryCount[r] <= MaxRetries
    BY <2>2, ConstantsAssumption
  <2>. QED  BY <1>2, <2>1, <2>2, <2>3 DEF AnswerNoted, CompletedPlace, Standing
<1>4. ~QueueFull
  BY <1>0, <1>2, RoomInQueue DEF PlaceInv, Placement, OnePlace, Executing
<1>a. ASSUME rest, Moves(r)  PROVE AbstractStep
  BY <1>a, OneMoves
<1>5. CASE StartProcessing(x)
  <2>. DEFINE run == Run("calling", r, "ok")
  <2>1. /\ runs' = [runs EXCEPT ![x] = run]
        /\ UNCHANGED <<sub, known, retryCount, queue, sessionQueue, timers, assigned>>
        /\ status'[r] = "processing" /\ \A q \in Requests : q # r => status'[q] = status[q]
    BY <1>0, <1>2, <1>5 DEF StartProcessing, TypeOK
  <2>2. run.req = r /\ run.pc = "calling"
    BY DEF Run
  <2>. HIDE DEF run
  <2>3. /\ AllInv' /\ rest
        /\ PhaseOf(r) = RunPhase(runs[x], status[r], RetriesLeft(r))
        /\ AttemptsOf(r) = retryCount[r] + RunAttempt(runs[x], status[r])
        /\ PhaseOf(r)' = RunPhase(run, status'[r], RetriesLeft(r))
        /\ AttemptsOf(r)' = retryCount[r] + 1
    BY <1>2, <2>1, <2>2, RunStep
  <2>4. runs[x].pc = "starting" /\ status[r] \in Unsettled
    BY <1>3, <1>5 DEF StartProcessing, RunStands
  <2>5. PhaseOf(r) = "waiting" /\ AttemptsOf(r) = retryCount[r] /\ PhaseOf(r)' = "running"
    BY <1>3, <2>2, <2>3, <2>4 DEF RunPhase, RunAttempt, Unsettled
  <2>6. Moves(r)
    BY <1>3, <2>3, <2>4, <2>5, NobodyElseRuns DEF Moves, From
  <2>. QED  BY <1>a, <2>3, <2>6
<1>6. ASSUME NEW reply \in {Completed, Failed}, PrimeAnswers(x, reply)
      PROVE  AllInv' /\ AbstractStep
  <2>. DEFINE run == Run("completing", r, IF reply = Failed THEN "fatal" ELSE "ok")
  <2>1. /\ runs' = [runs EXCEPT ![x] = run]
        /\ UNCHANGED <<sub, known, retryCount, queue, sessionQueue, timers, assigned>>
        /\ status'[r] = "completed" /\ \A q \in Requests : q # r => status'[q] = status[q]
        /\ runs[x].pc = "calling"
    BY <1>0, <1>2, <1>6 DEF PrimeAnswers, TypeOK
  <2>2. run.req = r /\ run.pc = "completing"
    BY DEF Run
  <2>. HIDE DEF run
  <2>3. /\ AllInv' /\ rest
        /\ PhaseOf(r) = RunPhase(runs[x], status[r], RetriesLeft(r))
        /\ AttemptsOf(r) = retryCount[r] + RunAttempt(runs[x], status[r])
        /\ PhaseOf(r)' = RunPhase(run, status'[r], RetriesLeft(r))
        /\ AttemptsOf(r)' = retryCount[r] + 1
    BY <1>2, <2>1, <2>2, RunStep
  <2>4. From(r, "running", "succeeded") /\ AttemptsOf(r)' = AttemptsOf(r)
    BY <2>1, <2>2, <2>3 DEF From, RunPhase, RunAttempt
  <2>. QED  BY <1>a, <2>3, <2>4 DEF Moves
<1>7. CASE GiveUp(x)
  <2>1. status[r] = "failed" /\ runs[x].pc = "maxAudit" /\ ~RetriesLeft(r)
    BY <1>3, <1>7 DEF GiveUp, Answered, Answer, RunStands
  <2>2. /\ runs' = [runs EXCEPT ![x] = Idle] /\ Idle.pc = "idle"
        /\ UNCHANGED <<sub, known, retryCount, queue, sessionQueue, timers, assigned>>
        /\ status'[r] = "failed" /\ \A q \in Requests : q # r => status'[q] = status[q]
    BY <1>0, <1>2, <1>7, <2>1 DEF GiveUp, TypeOK, Idle
  <2>3. /\ AllInv' /\ rest
        /\ PhaseOf(r) = RunPhase(runs[x], status[r], RetriesLeft(r))
        /\ AttemptsOf(r) = retryCount[r] + RunAttempt(runs[x], status[r])
        /\ PhaseOf(r)' = RunPhase(Idle, status'[r], RetriesLeft(r))
        /\ AttemptsOf(r)' = retryCount[r] + 1
    BY <1>2, <2>2, RunStep
  <2>4. StaysPut(r)
    BY <2>1, <2>2, <2>3 DEF StaysPut, RunPhase, ToBeRetried, RunAttempt
  <2>. QED  BY <1>a, <2>3, <2>4 DEF Moves
<1>8. CASE ResumeReleased(x)
  <2>. DEFINE run == Handled(r, outcome)
  <2>1. /\ runs' = [runs EXCEPT ![x] = run]
        /\ UNCHANGED <<sub, known, retryCount, queue, sessionQueue, timers, assigned>>
        /\ status'[r] = HandledStatus(r, outcome)
        /\ \A q \in Requests : q # r => status'[q] = status[q]
    BY <1>0, <1>2, <1>8 DEF ResumeReleased, TypeOK
  <2>2. /\ outcome \in Outcomes /\ status[r] = OutcomeStatus(outcome)
        /\ runs[x].pc = "releasing" /\ runs[x].outcome = outcome
    BY <1>0, <1>3, <1>8 DEF ResumeReleased, Answered, Answer, OutcomeStatus, TypeOK, Outcomes
  <2>. HIDE DEF outcome
  <2>3. status'[r] = OutcomeStatus(outcome) /\ Decided(run, r, outcome)
    BY <2>1, <2>2, HandledStatusFits, HandledDecided
  <2>. HIDE DEF run
  <2>4. /\ AllInv' /\ rest
        /\ PhaseOf(r) = RunPhase(runs[x], status[r], RetriesLeft(r))
        /\ AttemptsOf(r) = retryCount[r] + RunAttempt(runs[x], status[r])
        /\ PhaseOf(r)' = IF outcome = "ok" THEN "succeeded"
                         ELSE IF outcome = "recoverable" /\ RetriesLeft(r) THEN "waiting"
                         ELSE "failed"
        /\ AttemptsOf(r)' = retryCount[r] + 1
    BY <1>2, <2>1, <2>2, <2>3, DecidedStep, ZenonT(40)
  <2>5. StaysPut(r)
    BY <2>2, <2>4 DEF StaysPut, RunPhase, ToBeRetried, RunAttempt, OutcomeStatus
  <2>. QED  BY <1>a, <2>4, <2>5 DEF Moves
<1>9. CASE FinishSuccess(x)
  <2>. DEFINE run == Released(r, "ok", Run("overflow", r, "fatal"))
  <2>1. /\ runs' = [runs EXCEPT ![x] = run] /\ runs[x].pc = "completing"
        /\ ReleaseSlot(r) /\ UNCHANGED <<sub, known, retryCount, timers, assigned>>
        /\ (status'[r] = status[r] \/ status'[r] = HandledStatus(r, "ok"))
        /\ \A q \in Requests : q # r => status'[q] = status[q]
    BY <1>0, <1>2, <1>9 DEF FinishSuccess, TypeOK
  <2>2. "ok" \in Outcomes /\ status[r] = OutcomeStatus("ok")
    BY <1>3, <2>1 DEF Answered, Answer, OutcomeStatus, Outcomes
  <2>3. Decided(run, r, "ok")
    BY <1>4, <2>2, ReleasedDecided
  <2>. HIDE DEF run
  <2>4. status'[r] = OutcomeStatus("ok")
    BY <2>1, <2>2, HandledStatusFits
  <2>5. /\ AllInv' /\ rest
        /\ PhaseOf(r) = RunPhase(runs[x], status[r], RetriesLeft(r))
        /\ AttemptsOf(r) = retryCount[r] + RunAttempt(runs[x], status[r])
        /\ PhaseOf(r)' = "succeeded"
        /\ AttemptsOf(r)' = retryCount[r] + 1
    BY <1>2, <2>1, <2>2, <2>3, <2>4, DecidedStep
  <2>6. StaysPut(r)
    BY <2>1, <2>2, <2>5 DEF StaysPut, RunPhase, RunAttempt, OutcomeStatus
  <2>. QED  BY <1>a, <2>5, <2>6 DEF Moves
<1>10. ASSUME NEW o \in Failures, NEW orphaned \in BOOLEAN, PrimeFails(x, o, orphaned)
       PROVE  AllInv' /\ AbstractStep
  <2>. DEFINE run == Released(r, o, Run("overflow", r, "fatal"))
  <2>1. /\ runs' = [runs EXCEPT ![x] = run] /\ runs[x].pc = "calling"
        /\ ReleaseSlot(r) /\ UNCHANGED <<sub, known, retryCount, timers, assigned>>
        /\ status'[r] = "failed"
        /\ \A q \in Requests : q # r => status'[q] = status[q]
    BY <1>0, <1>2, <1>10 DEF PrimeFails, TypeOK
  <2>2. o \in Outcomes /\ o # "ok" /\ status'[r] = OutcomeStatus(o)
    BY <2>1 DEF OutcomeStatus, Outcomes, Failures
  <2>3. Decided(run, r, o)
    BY <1>4, <2>2, ReleasedDecided
  <2>. HIDE DEF run
  <2>4. /\ AllInv' /\ rest
        /\ PhaseOf(r) = RunPhase(runs[x], status[r], RetriesLeft(r))
        /\ AttemptsOf(r) = retryCount[r] + RunAttempt(runs[x], status[r])
        /\ PhaseOf(r)' = IF o = "ok" THEN "succeeded"
                         ELSE IF o = "recoverable" /\ RetriesLeft(r) THEN "waiting" ELSE "failed"
        /\ AttemptsOf(r)' = retryCount[r] + 1
    BY <1>2, <2>1, <2>2, <2>3, DecidedStep, ZenonT(40)
  <2>5. PhaseOf(r) = "running" /\ AttemptsOf(r) = retryCount[r] + 1
    BY <2>1, <2>4 DEF RunPhase, RunAttempt
  <2>6. CASE o = "recoverable" /\ RetriesLeft(r)
    <3>1. AttemptsOf(r) <= MaxRetries
      BY <1>3, <2>5, <2>6, ConstantsAssumption DEF RetriesLeft
    <3>2. From(r, "running", "waiting")
      BY <2>2, <2>4, <2>5, <2>6 DEF From
    <3>. QED  BY <1>a, <2>4, <2>5, <3>1, <3>2 DEF Moves
  <2>7. CASE ~(o = "recoverable" /\ RetriesLeft(r))
    <3>1. From(r, "running", "failed")
      BY <2>2, <2>4, <2>5, <2>7 DEF From
    <3>. QED  BY <1>a, <2>4, <2>5, <3>1 DEF Moves
  <2>. QED  BY <2>6, <2>7
<1>11. ~CatchOverflow(x)
  BY DEF CatchOverflow, AllInv, RoomInv, NoOverflow
<1>. QED  BY <1>5, <1>6, <1>7, <1>8, <1>9, <1>10, <1>11 DEF Coroutine

\* From the main queue to a coroutine: the request still waits.
LEMMA ScheduleMoves ==
  ASSUME AllInv, PlaceInv', RoomInv', IdleIsNobody', NEW x \in Runs, Schedule(x)
  PROVE  AllInv' /\ AbstractStep
<1>0. TypeOK /\ PlaceInv /\ RoomInv
  BY DEF AllInv, PlaceInv
<1>1. queue \in Seq(Requests) /\ HeadIndex \in 1..Len(queue)
  BY <1>0, HeadIndexInDomain DEF TypeOK, Schedule
<1>2. PICK r \in Requests : r = queue[HeadIndex]
  BY <1>1
<1>3. InQueue(r)
  BY <1>1, <1>2, ToSetElements DEF InQueue
<1>4. ~Executing(r) /\ ~Timed(r) /\ status[r] \in {"queued", "retrying"} /\ Present(r)
  BY <1>0, <1>3 DEF PlaceInv, Placement, OnePlace, AllInv, Standing, Placed
<1>5. /\ runs' = [runs EXCEPT ![x] = Run("starting", r, "ok")]
      /\ UNCHANGED <<sub, known, retryCount, timers>>
      /\ status'[r] = "processing" \/ status'[r] = status[r]
  BY <1>0, <1>2 DEF Schedule, clientVars, TypeOK
<1>6. runs'[x].pc = "starting" /\ runs'[x].req = r
  BY <1>0, <1>5 DEF TypeOK, Run
<1>7. \A q \in Requests : q # r => Aside(q)
  <2>1. \A q \in Requests : q # r => Untouched(q)
    BY <1>0, <1>2, ScheduleKept
  <2>. QED  BY <1>5, <2>1 DEF Aside
<1>8. Executes(x, r)' /\ Executing(r)' /\ \A y \in Runs : Executes(y, r)' => y = x
  BY <1>6 DEF Executes, Executing, PlaceInv, Placement, OneCoroutine
<1>9. ~InQueue(r)' /\ ~Waits(r)' /\ ~Timed(r)'
  BY <1>8 DEF PlaceInv, Placement, OnePlace
<1>10. Standing(r)'
  BY <1>4, <1>5, <1>6, <1>8, <1>9 DEF Standing, RunStands, Present, Unsettled
<1>11. AllInv' /\ \A q \in Requests : q # r => StaysPut(q)
  BY <1>7, <1>10, OneStep
<1>12. RestView /\ RunView'
  BY <1>11, Views
<1>13. PhaseOf(r) = "waiting" /\ AttemptsOf(r) = retryCount[r] + 0
  BY <1>4, <1>12 DEF RestView, RestPhase, RestAttempt, Over
<1>14. PhaseOf(r)' = "waiting" /\ AttemptsOf(r)' = retryCount'[r] + 0
  BY <1>4, <1>5, <1>6, <1>8, <1>12 DEF RunView, RunPhase, RunAttempt
<1>15. Moves(r)
  BY <1>5, <1>13, <1>14 DEF Moves, StaysPut
<1>. QED  BY <1>11, <1>15, OneMoves

\* From a coroutine to a timer: it waits to be tried again.
LEMMA ScheduleRetryMoves ==
  ASSUME AllInv, PlaceInv', RoomInv', IdleIsNobody', NEW x \in Runs, ScheduleRetry(x)
  PROVE  AllInv' /\ AbstractStep
<1>0. TypeOK /\ PlaceInv /\ RoomInv
  BY DEF AllInv, PlaceInv
<1>1. runs[x].pc = "retryAudit"
  BY DEF ScheduleRetry
<1>2. PICK r \in Requests : r = runs[x].req /\ Executes(x, r)
  BY <1>0, <1>1, RunRequest
<1>3. runs[x].outcome = "recoverable" /\ status[r] = "failed" /\ RetriesLeft(r) /\ Present(r)
  <2>1. AnswerNoted(r) /\ Standing(r) /\ Executing(r)
    BY <1>2 DEF AllInv, RoomInv, Settled, Executing
  <2>2. runs[x].outcome = "recoverable" /\ Present(r)
    BY <1>1, <1>2, <2>1 DEF Standing, RunStands, Placed
  <2>3. status[r] = "failed"
    BY <1>1, <1>2, <2>1, <2>2 DEF AnswerNoted, Answered, Answer
  <2>4. RetriesLeft(r)
    BY <1>0, <1>1, <1>2 DEF PlaceInv, Budget, RetriesLeft
  <2>. QED  BY <2>2, <2>3, <2>4
<1>4. /\ UNCHANGED <<sub, known, retryCount>>
      /\ timers'[r] > 0 /\ \A q \in Requests : q # r => timers'[q] = timers[q]
      /\ status'[r] = "retrying" \/ status'[r] = status[r]
  BY <1>0, <1>2 DEF ScheduleRetry, StartTimer, clientVars, TypeOK
<1>5. \A q \in Requests : q # r => Aside(q)
  <2>1. \A q \in Requests : q # r => Untouched(q)
    BY <1>0, <1>2, ScheduleRetryKept
  <2>. QED  BY <1>4, <2>1 DEF Aside
<1>6. Timed(r)' /\ ~InQueue(r)' /\ ~Waits(r)' /\ ~Executing(r)'
  BY <1>4 DEF Timed, PlaceInv, Placement, OnePlace
<1>7. Standing(r)'
  BY <1>3, <1>4, <1>6 DEF Standing, Present, Executing
<1>8. AllInv' /\ \A q \in Requests : q # r => StaysPut(q)
  BY <1>5, <1>7, OneStep
<1>9. RunView /\ RestView'
  BY <1>8, Views
<1>10. PhaseOf(r) = "waiting" /\ AttemptsOf(r) = retryCount[r] + 1
  BY <1>1, <1>2, <1>3, <1>9 DEF RunView, RunPhase, ToBeRetried, RunAttempt
<1>11. Present(r)'
  BY <1>3, <1>4 DEF Present
<1>12. PhaseOf(r)' = "waiting" /\ AttemptsOf(r)' = retryCount'[r] + 1
  BY <1>3, <1>4, <1>6, <1>9, <1>11 DEF RestView, RestPhase, RestAttempt
<1>13. Moves(r)
  BY <1>4, <1>10, <1>12 DEF Moves, StaysPut
<1>. QED  BY <1>8, <1>13, OneMoves

\* From a timer to the main queue: the count of retries takes over the attempt.
LEMMA TimerFiresMoves ==
  ASSUME Room, AllInv, PlaceInv', RoomInv', IdleIsNobody', NEW r \in Requests, TimerFires(r)
  PROVE  AllInv' /\ AbstractStep
<1>0. TypeOK /\ PlaceInv /\ RoomInv /\ Timed(r)
  BY DEF AllInv, PlaceInv, TimerFires, Timed
<1>1. /\ ~Executing(r) /\ timers[r] \in Nat /\ timers[r] <= 1 /\ retryCount[r] \in Nat
      /\ status[r] \in {"failed", "retrying"} /\ Present(r)
  BY <1>0 DEF PlaceInv, Placement, OnePlace, OneTimer, AllInv, Standing, Placed, TypeOK
<1>2. /\ UNCHANGED <<sub, known, runs>>
      /\ timers'[r] = timers[r] - 1 /\ retryCount'[r] = retryCount[r] + 1
      /\ \A q \in Requests : q # r => timers'[q] = timers[q] /\ retryCount'[q] = retryCount[q]
      /\ status'[r] = "retrying"
  BY <1>0 DEF TimerFires, clientVars, TypeOK
<1>3. \A q \in Requests : q # r => Aside(q)
  <2>1. \A q \in Requests : q # r => Untouched(q)
    BY <1>0, TimerFiresKept
  <2>. QED  BY <1>2, <2>1 DEF Aside
<1>4. ~Timed(r)' /\ ~Executing(r)' /\ Present(r)'
  BY <1>1, <1>2 DEF Timed, Executing, Executes, Present
<1>5. Standing(r)'
  BY <1>2, <1>4 DEF Standing, Executing
<1>6. AllInv' /\ \A q \in Requests : q # r => StaysPut(q)
  BY <1>3, <1>5, OneStep
<1>7. RestView /\ RestView'
  BY <1>6, Views
<1>8. PhaseOf(r) = "waiting" /\ AttemptsOf(r) = retryCount[r] + 1
  BY <1>0, <1>1, <1>7 DEF RestView, RestPhase, RestAttempt
<1>9. PhaseOf(r)' = "waiting" /\ AttemptsOf(r)' = retryCount'[r] + 0
  BY <1>2, <1>4, <1>7 DEF RestView, RestPhase, RestAttempt, Over
<1>10. Moves(r)
  BY <1>1, <1>2, <1>8, <1>9 DEF Moves, StaysPut
<1>. QED  BY <1>6, <1>10, OneMoves

LEMMA CancelMoves ==
  ASSUME AllInv, PlaceInv', RoomInv', IdleIsNobody', NEW r \in Requests, CancelRequest(r)
  PROVE  AllInv' /\ AbstractStep
<1>0. TypeOK /\ PlaceInv /\ RoomInv
  BY DEF AllInv, PlaceInv
<1>1. /\ UNCHANGED <<sub, known, retryCount, timers, runs>> /\ r \in known
      /\ status[r] = "queued" /\ status'[r] = "cancelled"
  BY <1>0 DEF CancelRequest, clientVars, TypeOK
<1>2. InQueue(r)
  BY <1>0, ToSetElements DEF CancelRequest, RemoveFromQueue, InQueue, TypeOK
<1>3. \A q \in Requests : q # r => Aside(q)
  <2>1. \A q \in Requests : q # r => Untouched(q)
    BY <1>0, CancelKept
  <2>. QED  BY <1>1, <2>1 DEF Aside
<1>4. ~Executing(r) /\ ~Timed(r) /\ Present(r)
  BY <1>0, <1>1, <1>2 DEF PlaceInv, Placement, OnePlace, Present
<1>5. ~Placed(r)' /\ Present(r)'
  BY <1>1 DEF PlaceInv, CancelledNowhere, Present
<1>6. Standing(r)'
  BY <1>5 DEF Standing, Placed, Executing
<1>7. AllInv' /\ \A q \in Requests : q # r => StaysPut(q)
  BY <1>3, <1>6, OneStep
<1>8. RestView /\ RestView'
  BY <1>7, Views
<1>9. PhaseOf(r) = "waiting" /\ AttemptsOf(r) = retryCount[r] + 0
  BY <1>1, <1>4, <1>8 DEF RestView, RestPhase, RestAttempt, Over
<1>10. PhaseOf(r)' = "cancelled" /\ AttemptsOf(r)' = retryCount'[r] + 0
  BY <1>1, <1>5, <1>8 DEF RestView, RestPhase, RestAttempt, Over, Placed
<1>11. Moves(r)
  BY <1>1, <1>9, <1>10 DEF Moves, From
<1>. QED  BY <1>7, <1>11, OneMoves

LEMMA SameStays ==
  ASSUME NEW r \in Requests, UNCHANGED <<status, retryCount, runs, timers>>,
         Present(r)' <=> Present(r)
  PROVE  StaysPut(r)
<1>1. (GivenUp(r)' <=> GivenUp(r)) /\ (StartedOnce(r)' <=> StartedOnce(r)) /\ Calling' = Calling
  BY DEF GivenUp, StartedOnce, Calling
<1>. QED  BY <1>1 DEF StaysPut, PhaseOf, AttemptsOf, Present

\* A submission admits its request when it is routed.
LEMMA SubmissionMoves ==
  ASSUME Room, AllInv, PlaceInv', RoomInv', IdleIsNobody',
         NEW r \in Requests, SubmitReceive(r) \/ Submission(r)
  PROVE  AllInv' /\ AbstractStep
<1>0. TypeOK /\ PlaceInv /\ RoomInv /\ Standing(r)
  BY DEF AllInv, PlaceInv
<1>1. UNCHANGED <<status, retryCount, runs, timers>>
  BY DEF SubmitReceive, Submission, SubmitRoute, SubmitReply, SubmitReject, taskVars
<1>2. \A q \in Requests : q # r => Aside(q)
  <2>1. \A q \in Requests : q # r => Untouched(q)
    BY <1>0, SubmissionKept
  <2>. QED  BY <1>1, <2>1 DEF Aside
<1>3. Executing(r)' <=> Executing(r)
  BY <1>1 DEF Executing, Executes
<1>4. CASE SubmitReceive(r) \/ SubmitReply(r) \/ SubmitReject(r)
  <2>1. UNCHANGED <<queue, sessionQueue, assigned>> /\ (Present(r)' <=> Present(r))
    BY <1>0, <1>4 DEF SubmitReceive, SubmitReply, SubmitReject, queueVars, taskVars, streamVars,
                      Present, TypeOK
  <2>2. Standing(r)'
    BY <1>0, <1>1, <1>3, <2>1 DEF Standing, RunStands, RetriesLeft, Placed, InQueue, Waits, Waiting,
                                  Timed, Assigned, Executes
  <2>3. AllInv' /\ \A q \in Requests : q # r => StaysPut(q)
    BY <1>2, <2>2, OneStep
  <2>4. Moves(r)
    BY <1>1, <2>1, SameStays DEF Moves
  <2>. QED  BY <2>3, <2>4, OneMoves
<1>5. CASE SubmitRoute(r)
  <2>1. sub[r] = "received" /\ r \notin known
    BY <1>0, <1>5 DEF SubmitRoute, PlaceInv, Placement, KnownWasAccepted
  <2>2. ~Placed(r) /\ ~Present(r) /\ status[r] = "queued"
    BY <1>0, <2>1 DEF PlaceInv, Placement, PlacedWasSubmitted, Present, Standing
  <2>3. ~QueueFull
    BY <1>0, <2>2, RoomInQueue DEF Placed
  <2>4. sub'[r] = "logged"
    BY <1>0, <1>5, <2>3 DEF SubmitRoute, TypeOK
  <2>5. Present(r)' /\ ~Executing(r)' /\ ~Timed(r)' /\ ~Executing(r) /\ ~Timed(r)
    BY <1>1, <1>3, <2>2, <2>4 DEF Present, Placed, Timed
  <2>6. Standing(r)'
    BY <1>1, <2>2, <2>5 DEF Standing, Executing
  <2>7. AllInv' /\ \A q \in Requests : q # r => StaysPut(q)
    BY <1>2, <2>6, OneStep
  <2>8. RestView /\ RestView'
    BY <2>7, Views
  <2>9. PhaseOf(r) = "absent" /\ AttemptsOf(r) = retryCount[r] + 0
    BY <2>2, <2>5, <2>8 DEF RestView, RestPhase, RestAttempt, Over
  <2>10. PhaseOf(r)' = "waiting" /\ AttemptsOf(r)' = retryCount'[r] + 0
    BY <1>1, <2>2, <2>5, <2>8 DEF RestView, RestPhase, RestAttempt, Over
  <2>11. Moves(r)
    BY <1>1, <2>9, <2>10 DEF Moves, From
  <2>. QED  BY <2>7, <2>11, OneMoves
<1>. QED  BY <1>4, <1>5 DEF Submission

\* A service that keeps nothing.
Blank ==
  /\ \A r \in Requests : sub[r] # "logged"
  /\ known = {} /\ assigned = {} /\ queue = <<>>
  /\ status = [r \in Requests |-> "queued"] /\ retryCount = [r \in Requests |-> 0]
  /\ sessionQueue = [s \in Sessions |-> <<>>]
  /\ runs = [x \in Runs |-> Idle] /\ timers = [r \in Requests |-> 0]

AllAbsent ==
  /\ \A r \in Requests : Standing(r)
  /\ AbstractPhase = [r \in Requests |-> "absent"]
  /\ AbstractAttempts = [r \in Requests |-> 0]

LEMMA BlankIsAbsent == Blank => AllAbsent
<1>. SUFFICES ASSUME Blank  PROVE AllAbsent
  OBVIOUS
<1>1. \A x \in Runs : runs[x].pc = "idle" /\ runs[x].req = NoRequest
  BY DEF Blank, Idle
<1>2. \A r \in Requests : ~Executing(r) /\ ~Timed(r) /\ ~InQueue(r) /\ ~Assigned(r)
  BY <1>1, ToSetEmpty DEF Blank, Executing, Executes, Timed, InQueue, Assigned
<1>3. \A r \in Requests : ~Waits(r)
  <2>1. \A r \in Requests : SessionOf[r] \in Sessions
    BY ConstantsAssumption
  <2>. QED  BY <2>1, ToSetEmpty DEF Blank, Waits, Waiting
<1>4. \A r \in Requests : Standing(r)
  BY <1>2, <1>3 DEF Standing, Placed, Executing, Blank
<1>5. ASSUME NEW r \in Requests  PROVE PhaseOf(r) = "absent" /\ AttemptsOf(r) = 0
  <2>1. /\ sub[r] # "logged" /\ r \notin known /\ status[r] = "queued" /\ timers[r] = 0
        /\ retryCount[r] = 0 /\ \A x \in Runs : runs[x].req # r
    BY <1>1, ConstantsAssumption DEF Blank
  <2>2. ~GivenUp(r) /\ ~StartedOnce(r) /\ ~(\E x \in Calling : runs[x].req = r)
    BY <2>1 DEF GivenUp, StartedOnce, Calling
  <2>. QED  BY <2>1, <2>2 DEF PhaseOf, AttemptsOf
<1>. QED  BY <1>4, <1>5 DEF AllAbsent, AbstractPhase, AbstractAttempts

LEMMA ProcessEndsForgets ==
  ASSUME PlaceInv', RoomInv', IdleIsNobody', ProcessEnds
  PROVE  AllInv' /\ AbstractStep
<1>1. Blank'
  <2>1. \A r \in Requests : sub'[r] # "logged"
    BY DEF ProcessEnds
  <2>. QED  BY <2>1 DEF Blank, ProcessEnds
<1>2. AllAbsent'
  BY <1>1, BlankIsAbsent, PTL
<1>3. AllInv'
  BY <1>2 DEF AllInv, AllAbsent
<1>4. Executor!Forget
  BY <1>2 DEF Executor!Forget, AllAbsent, AbstractPhase, AbstractAttempts
<1>. QED  BY <1>3, <1>4 DEF AbstractStep, Executor!Next

LEMMA NothingMoves ==
  ASSUME AllInv, PlaceInv', RoomInv', IdleIsNobody',
         UNCHANGED <<sub, known, status, retryCount, queue, sessionQueue, runs, timers, assigned>>
  PROVE  AllInv' /\ AbstractStep
<1>1. \A r \in Requests : Aside(r)
  BY DEF Aside, Untouched, InQueue, Waits, Waiting, Timed, Assigned, Executes
<1>2. \A r \in Requests : Standing(r)' /\ StaysPut(r)
  BY <1>1, AsideStays DEF AllInv
<1>. QED  BY <1>2 DEF AllInv, AbstractStep, AbstractPhase, AbstractAttempts, StaysPut

-----------------------------------------------------------------------------
(* The refinement *)

LEMMA PoolStep ==
  ASSUME Roomy, OneHolder, AllInv, [Next]_vars
  PROVE  AllInv' /\ AbstractStep
<1>. DEFINE Step == AllInv' /\ AbstractStep
<1>. SUFFICES Step
  OBVIOUS
<1>0. Room /\ TypeOK /\ PlaceInv' /\ RoomInv' /\ IdleIsNobody'
  BY PlaceInvStep, RoomStep, IdleStep DEF Roomy, AllInv, PlaceInv
<1>a. CASE UNCHANGED <<sub, known, status, retryCount, queue, sessionQueue, runs, timers, assigned>>
  BY <1>0, <1>a, NothingMoves
<1>1. ASSUME NEW r \in Requests, SubmitReceive(r) \/ Submission(r)  PROVE Step
  BY <1>0, <1>1, SubmissionMoves
<1>2. ASSUME NEW x \in Runs, Coroutine(x)  PROVE Step
  <2>1. CASE Schedule(x)
    BY <1>0, <2>1, ScheduleMoves
  <2>2. CASE ScheduleRetry(x)
    BY <1>0, <2>2, ScheduleRetryMoves
  <2>3. CASE ~Schedule(x) /\ ~ScheduleRetry(x)
    BY <1>0, <1>2, <2>3, CoroutineMoves
  <2>. QED  BY <2>1, <2>2, <2>3
<1>3. ASSUME NEW r \in Requests, TimerFires(r)  PROVE Step
  BY <1>0, <1>3, TimerFiresMoves
<1>4. ASSUME NEW r \in Requests, CancelRequest(r)  PROVE Step
  BY <1>0, <1>4, CancelMoves
<1>5. ASSUME NEW r \in Requests, OrphanEnds(r)  PROVE Step
  BY <1>a, <1>5 DEF OrphanEnds, clientVars, taskVars, queueVars, streamVars
<1>6. CASE StopRequested \/ Restart \/ UNCHANGED vars
  BY <1>a, <1>6 DEF StopRequested, Restart, vars, clientVars, taskVars, queueVars, streamVars
<1>7. CASE GracefulExit \/ Crash
  BY <1>0, <1>7, ProcessEndsForgets DEF GracefulExit, Crash
<1>8. /\ \A r \in Requests, resetRetryCount \in BOOLEAN : ~RetryRequest(r, resetRetryCount)
      /\ \A w \in Workers : ~WorkerConnects(w) /\ ~WorkerDisconnects(w)
      /\ \A x \in Runs, r \in Requests, outcome \in Failures \cup {"ok"} : ~TaskComplete(x, r, outcome)
  BY <1>0 DEF RetryRequest, TaskComplete, Roomy, AllInv, RoomInv, TypeOK
<1>. HIDE DEF Step
<1>. QED
  BY <1>1, <1>2, <1>3, <1>4, <1>5, <1>6, <1>7, <1>8 DEF Next

\* The pool with its queues, coroutines, timers and crashes does nothing that the
\* serial executor may not do: a request is executed at most 1 + MaxRetries times,
\* never together with another of its session, and never again once it succeeded,
\* failed for good or was cancelled, for any number of requests, sessions,
\* coroutines and retries.
THEOREM PoolImplementsExecutor ==
  ASSUME Roomy, MaxWorkers = 1
  PROVE  Spec => ImplementsExecutor
<1>1. Init => AllInv /\ Executor!Init
  <2>. SUFFICES ASSUME Init  PROVE AllInv /\ Executor!Init
    OBVIOUS
  <2>1. Blank
    BY DEF Init, Blank
  <2>2. PlaceInv /\ RoomInv /\ IdleIsNobody
    BY PlaceInvInit, RoomInit DEF Init, IdleIsNobody
  <2>. QED
    BY <2>1, <2>2, BlankIsAbsent
       DEF AllAbsent, AllInv, Executor!Init, AbstractPhase, AbstractAttempts
<1>2. OneHolder /\ AllInv /\ [Next]_vars => AllInv' /\ AbstractStep
  BY PoolStep
<1>3. Spec => []OneHolder
  <2>1. Spec => []RoomInv
    BY RoomInvariant
  <2>2. RoomInv => NoOverflow
    BY DEF RoomInv
  <2>3. Spec /\ []NoOverflow => []OneHolder
    BY OneHolderInvariant DEF Roomy
  <2>. QED  BY <2>1, <2>2, <2>3, PTL
<1>4. AbstractStep <=> [Executor!Next]_<<[r \in Requests |-> PhaseOf(r)],
                                         [r \in Requests |-> AttemptsOf(r)]>>
  BY DEF AbstractStep, AbstractPhase, AbstractAttempts
<1>. QED
  BY <1>1, <1>2, <1>3, <1>4, PTL DEF Spec, ImplementsExecutor, Executor!Spec
=============================================================================
