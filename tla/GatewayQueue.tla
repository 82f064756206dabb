----------------------------- MODULE GatewayQueue -----------------------------
(***************************************************************************)
(* The gateway's in-memory request queue and the scheduler that feeds it   *)
(* (agent-kernel/apps/gateway/src/request-queue, scheduler).  A session    *)
(* processes one request at a time; cancelRequest may take a request out   *)
(* of the array while processQueue holds an index into it.                 *)
(*                                                                         *)
(* An action is the code between two timers: everything else that these    *)
(* services await has settled and resumes before the next callback.        *)
(***************************************************************************)
EXTENDS Integers, Sequences, FiniteSets, SequencesExt

CONSTANTS
  Items,      \* requests, each put into the queue of its session once
  Lanes,      \* sessions
  Tasks,      \* tasks of the scheduler
  MaxFirings  \* bound on the requests one task has made

ASSUME QueueAssumption ==
  /\ IsFiniteSet(Items) /\ IsFiniteSet(Lanes) /\ IsFiniteSet(Tasks)
  /\ MaxFirings \in Nat /\ Items \cap Tasks = {}

VARIABLES
  queue,    \* queues: the array of each session
  status,   \* QueuedRequest.status, "new" before it is queued
  due,      \* the requests without scheduledAt or whose scheduledAt has passed
  work,     \* processingSessions: the index processQueue holds, 0 without one
  busy,     \* the request it processes
  task,     \* scheduledTasks: what each task is, or was
  timers,   \* timeoutHandles and cronJobs: the tasks whose timer runs
  fired,    \* the requests each task has made
  shifted   \* history: sessions whose array a cancellation has shifted below
            \* the index that is held

queueVars == <<queue, status, due, work, busy, task, timers, fired, shifted>>
taskVars == <<task, timers, fired>>
Nothing == "nothing"

QueueInit ==
  /\ queue = [s \in Lanes |-> <<>>]
  /\ status = [i \in Items |-> "new"]
  /\ due = {}
  /\ work = [s \in Lanes |-> 0]
  /\ busy = [s \in Lanes |-> {}]
  /\ task = [t \in Tasks |-> Nothing]
  /\ timers = {}
  /\ fired = [t \in Tasks |-> 0]
  /\ shifted = {}

\* findIndex: the first pending request whose time has come.
Eligible(q, st, d) == {n \in 1..Len(q) : st[q[n]] = "pending" /\ q[n] \in d}

\* processQueue, up to the 100 ms it waits, with q as the session's array.
ProcessQueue(s, q, st, d) ==
  LET found == Eligible(q, st, d)
      first == CHOOSE n \in found : \A m \in found : n <= m
  IN /\ queue' = [queue EXCEPT ![s] = q]
     /\ due' = d
     /\ IF found = {}
        THEN /\ status' = st
             /\ work' = [work EXCEPT ![s] = 0]
             /\ busy' = [busy EXCEPT ![s] = {}]
        ELSE /\ status' = [st EXCEPT ![q[first]] = "processing"]
             /\ work' = [work EXCEPT ![s] = first]
             /\ busy' = [busy EXCEPT ![s] = {q[first]}]

\* enqueue: a session that is processing only gets a longer array.
Add(i, s) ==
  LET q == Append(queue[s], i)
      st == [status EXCEPT ![i] = "pending"]
  IN IF work[s] = 0 THEN ProcessQueue(s, q, st, due \cup {i})
     ELSE /\ queue' = [queue EXCEPT ![s] = q]
          /\ status' = st
          /\ due' = due \cup {i}
          /\ UNCHANGED <<work, busy>>

Enqueue(i, s) ==
  /\ status[i] = "new"
  /\ Add(i, s)
  /\ UNCHANGED <<taskVars, shifted>>

\* schedule: nobody is told when the time comes; a later request finds it.
ScheduleItem(i, s) ==
  /\ status[i] = "new"
  /\ queue' = [queue EXCEPT ![s] = Append(@, i)]
  /\ status' = [status EXCEPT ![i] = "pending"]
  /\ UNCHANGED <<due, work, busy, taskVars, shifted>>

TimeComes(i) ==
  /\ status[i] = "pending" /\ i \notin due
  /\ due' = due \cup {i}
  /\ UNCHANGED <<queue, status, work, busy, taskVars, shifted>>

\* Mutant: Nobody looks for the next request.
FinishStops(s) ==
  /\ work[s] # 0
  /\ queue' = [queue EXCEPT ![s] = IF work[s] <= Len(@) THEN RemoveAt(@, work[s]) ELSE @]
  /\ status' = [i \in Items |-> IF i \in busy[s] THEN "completed" ELSE status[i]]
  /\ work' = [work EXCEPT ![s] = 0]
  /\ busy' = [busy EXCEPT ![s] = {}]
  /\ UNCHANGED <<due, taskVars, shifted>>

\* Mutant: the first request of the array is removed instead of the one at the
\* index that is held.
FinishFirst(s) ==
  /\ work[s] # 0
  /\ ProcessQueue(s, RemoveAt(queue[s], 1),
                  [i \in Items |-> IF i \in busy[s] THEN "completed" ELSE status[i]], due)
  /\ UNCHANGED <<taskVars, shifted>>

\* The rest of processQueue: splice at the index found before the wait, which
\* removes nothing when the array has become shorter than that, and on to the
\* next request.  The router's calls do not fail.
FinishItem(s) ==
  LET q == queue[s] IN
  /\ work[s] # 0
  /\ ProcessQueue(s, IF work[s] <= Len(q) THEN RemoveAt(q, work[s]) ELSE q,
                  [i \in Items |-> IF i \in busy[s] THEN "completed" ELSE status[i]], due)
  /\ UNCHANGED <<taskVars, shifted>>

\* cancelRequest answers false for a request that is not pending.
CancelItem(i, s) ==
  /\ status[i] = "pending"
  /\ \E n \in 1..Len(queue[s]) :
       /\ queue[s][n] = i
       /\ queue' = [queue EXCEPT ![s] = RemoveAt(@, n)]
       /\ shifted' = IF n < work[s] THEN shifted \cup {s} ELSE shifted
  /\ status' = [status EXCEPT ![i] = "cancelled"]
  /\ UNCHANGED <<due, work, busy, taskVars>>

-----------------------------------------------------------------------------
(* SchedulerService *)

\* executeTask: a new request for the session; a one-time task is then dropped.
ExecuteTask(t, i, s, kind) ==
  /\ status[i] = "new" /\ fired[t] < MaxFirings
  /\ Add(i, s)
  /\ fired' = [fired EXCEPT ![t] = @ + 1]
  /\ IF kind = "cron" THEN timers' = timers \cup {t} /\ task' = [task EXCEPT ![t] = kind]
     ELSE timers' = timers \ {t} /\ task' = [task EXCEPT ![t] = "done"]
  /\ UNCHANGED shifted

\* scheduleOnce and scheduleRecurring with a time to come.
ScheduleTask(t, kind) ==
  /\ task[t] = Nothing
  /\ task' = [task EXCEPT ![t] = kind]
  /\ timers' = timers \cup {t}
  /\ UNCHANGED <<queue, status, due, work, busy, fired, shifted>>

\* scheduleOnce with a time that has passed.
ScheduleInPast(t, i, s) ==
  /\ task[t] = Nothing
  /\ ExecuteTask(t, i, s, "once")

TimerFires(t, i, s) ==
  /\ t \in timers
  /\ ExecuteTask(t, i, s, task[t])

\* Mutant: the timer of a cancelled task runs on.
CancelTaskOnly(t) ==
  /\ task[t] \in {"once", "cron"}
  /\ task' = [task EXCEPT ![t] = "cancelled"]
  /\ UNCHANGED <<queue, status, due, work, busy, timers, fired, shifted>>

CancelTask(t) ==
  /\ task[t] \in {"once", "cron"}
  /\ task' = [task EXCEPT ![t] = "cancelled"]
  /\ timers' = timers \ {t}
  /\ UNCHANGED <<queue, status, due, work, busy, fired, shifted>>

\* onModuleDestroy: the tasks stay in their table.
DestroyScheduler ==
  /\ timers # {}
  /\ timers' = {}
  /\ UNCHANGED <<queue, status, due, work, busy, task, fired, shifted>>

QueueNext ==
  \/ \E i \in Items, s \in Lanes :
       \/ Enqueue(i, s) \/ ScheduleItem(i, s) \/ CancelItem(i, s)
       \/ \E t \in Tasks : ScheduleInPast(t, i, s) \/ TimerFires(t, i, s)
  \/ \E i \in Items : TimeComes(i)
  \/ \E s \in Lanes : FinishItem(s)
  \/ \E t \in Tasks : ScheduleTask(t, "once") \/ ScheduleTask(t, "cron") \/ CancelTask(t)
  \/ DestroyScheduler

\* The 100 ms pass.  Nothing is assumed of clients, of the times that requests
\* are scheduled for, or of the scheduler's timers.
QueueFairness == \A s \in Lanes : WF_queueVars(FinishItem(s))

QueueSpec == QueueInit /\ [][QueueNext]_queueVars /\ QueueFairness

-----------------------------------------------------------------------------
(* Properties *)

QueueTypeOK ==
  /\ queue \in [Lanes -> Seq(Items)]
  /\ status \in [Items -> {"new", "pending", "processing", "completed", "cancelled"}]
  /\ due \subseteq Items
  /\ work \in [Lanes -> 0..Cardinality(Items)]
  /\ busy \in [Lanes -> SUBSET Items]
  /\ task \in [Tasks -> {Nothing, "once", "cron", "done", "cancelled"}]
  /\ timers \subseteq {t \in Tasks : task[t] \in {"once", "cron"}}
  /\ fired \in [Tasks -> 0..MaxFirings]
  /\ shifted \subseteq Lanes

\* Unless a cancellation has shifted a session's array below the index that
\* processQueue holds, no request is lost and none stays behind: the arrays hold,
\* once each, the requests that are pending or being processed, and the held
\* index is that of the request being processed.  (cancelRequest splices the
\* array between findIndex and splice of processQueue.)
NoneLost ==
  /\ shifted = {} =>
       \A i \in Items : status[i] \in {"pending", "processing"} <=>
         Cardinality({p \in Lanes \X (1..Cardinality(Items)) :
                        p[2] <= Len(queue[p[1]]) /\ queue[p[1]][p[2]] = i}) = 1
  /\ \A s \in Lanes \ shifted : work[s] # 0 =>
       work[s] <= Len(queue[s]) /\ busy[s] = {queue[s][work[s]]}

\* A request that waits behind another one is processed without a further call,
\* once its time has come, or it is cancelled, or its session has been shifted.
\* (The finally block of processQueue starts the next one, though requests that
\* nobody may start yet stand before it.)
EventuallyProcessed ==
  [](\A i \in Items, s \in Lanes :
       i \in due /\ status[i] = "pending" /\ work[s] # 0 /\ (\E n \in 1..Len(queue[s]) : queue[s][n] = i)
       => <>(status[i] \in {"completed", "cancelled"} \/ s \in shifted))

=============================================================================
