----------------------------- MODULE ThreadManager ----------------------------
(***************************************************************************)
(* The thread manager (kernel-v2/src/scheduler/thread_manager.rs) and the  *)
(* scheduler skill that calls it (skills/scheduler_skill.rs).              *)
(*                                                                         *)
(* The table of running executors is a concurrent map that is locked only  *)
(* for one access; calls and executor tasks run on the runtime's threads   *)
(* at the same time.  An executor's task takes its thread out of the table *)
(* when it ends, by the thread's id.  An action is one access of the table *)
(* or of the history, or the start or end of a task.                       *)
(***************************************************************************)
EXTENDS Integers, FiniteSets

CONSTANTS
  MCalls,       \* calls of the skill
  MThreads,     \* ids of threads
  MTasks,       \* tasks that may be spawned
  MaxUnread     \* bound on threads whose files could not be read for a list

ASSUME ManagerAssumption ==
  /\ IsFiniteSet(MCalls) /\ IsFiniteSet(MThreads) /\ IsFiniteSet(MTasks)
  /\ MaxUnread \in Nat

VARIABLES
  request,    \* what each call is about, where it is, and what it has read
  stored,     \* threads that have a directory
  logged,     \* thread_history: "none", "open", or "final" with a final status
  running,    \* executors: the task and the state in each thread's handle
  jobs,       \* the tasks: their threads and where they are
  unread,     \* threads left out of a list so far
  raced       \* history: threads whose spawn was overtaken, by another spawn or
              \* by the end of a task, or whose task ended in spite of an abort

managerVars == <<request, stored, logged, running, jobs, unread, raced>>

NoHandle == [task |-> {}, state |-> "none"]
NewRequest == [at |-> "idle", thread |-> {}, task |-> {}, due |-> {}, seen |-> {}]
NoWork == [thread |-> {}, at |-> "none"]

ManagerInit ==
  /\ request = [c \in MCalls |-> NewRequest]
  /\ stored \in SUBSET MThreads     \* what an earlier run of the kernel has left
  /\ logged = [t \in MThreads |-> "none"]
  /\ running = [t \in MThreads |-> NoHandle]
  /\ jobs = [k \in MTasks |-> NoWork]
  /\ unread = 0
  /\ raced = {}

Now(c, place) == request' = [request EXCEPT ![c].at = place]
Ask(c, place, t) ==
  /\ request[c].at = "idle"
  /\ request' = [request EXCEPT ![c].at = place, ![c].thread = t]
Listed(t) == running[t] # NoHandle

\* Callers below the level Host are turned away; so are calls for a thread that
\* is not in the table, where it must be.
TurnAway(c) ==
  /\ Ask(c, "answered", {})
  /\ UNCHANGED <<stored, logged, running, jobs, unread, raced>>

\* create_thread writes the directory, then the history.
StoreThread(c, t) ==
  /\ t \notin stored
  /\ Ask(c, "storing", {t})
  /\ stored' = stored \cup {t}
  /\ UNCHANGED <<logged, running, jobs, unread, raced>>

LogThread(c) ==
  /\ request[c].at = "storing"
  /\ logged' = [t \in MThreads |-> IF t \in request[c].thread THEN "open" ELSE logged[t]]
  /\ Now(c, "answered")
  /\ UNCHANGED <<stored, running, jobs, unread, raced>>

(* spawn_thread: the check, the task and the handle are three steps. *)

SpawnsOf(t) == {d \in MCalls : request[d].thread = {t} /\ request[d].at \in {"spawning", "handing"}}

SpawnThread(c, t) ==
  /\ ~Listed(t) /\ t \in stored
  /\ Ask(c, "spawning", {t})
  /\ raced' = IF SpawnsOf(t) # {} THEN raced \cup {t} ELSE raced
  /\ UNCHANGED <<stored, logged, running, jobs, unread>>

StartTask(c) ==
  LET k == CHOOSE x \in MTasks : jobs[x] = NoWork IN
  /\ request[c].at = "spawning"
  /\ \E x \in MTasks : jobs[x] = NoWork
  /\ jobs' = [jobs EXCEPT ![k] = [thread |-> request[c].thread, at |-> "running"]]
  /\ request' = [request EXCEPT ![c].at = "handing", ![c].task = {k}]
  /\ UNCHANGED <<stored, logged, running, unread, raced>>

HandOver(c) ==
  /\ request[c].at = "handing"
  /\ running' = [t \in MThreads |->
       IF t \in request[c].thread THEN [task |-> request[c].task, state |-> "Running"]
       ELSE running[t]]
  /\ Now(c, "answered")
  /\ UNCHANGED <<stored, logged, jobs, unread, raced>>

(* pause_thread and resume_thread: nobody tells the task. *)

SetState(c, t, state) ==
  /\ Listed(t)
  /\ Ask(c, "answered", {})
  /\ running' = [running EXCEPT ![t].state = state]
  /\ UNCHANGED <<stored, logged, jobs, unread, raced>>

(* cancel_thread: a task that has finished its run may pass its last await *)
(* before the abort is seen, and goes on.                                    *)

CancelThread(c, t, aborts) ==
  /\ Listed(t)
  /\ Ask(c, "answered", {})
  /\ running' = [running EXCEPT ![t] = NoHandle]
  /\ jobs' = [k \in MTasks |->
       IF k \in running[t].task /\ (jobs[k].at = "running" \/ (aborts /\ jobs[k].at # "ended"))
       THEN [jobs[k] EXCEPT !.at = "aborted"] ELSE jobs[k]]
  /\ raced' = IF \E k \in running[t].task : jobs'[k].at \in {"recording", "leaving"}
              THEN raced \cup {t} ELSE raced
  /\ UNCHANGED <<stored, logged, unread>>

(* The task: run, record the end, leave the table. *)

\* Mutant: the thread leaves the table before its end is recorded.
RunEndsUnlisted(k) ==
  /\ jobs[k].at = "running"
  /\ jobs' = [jobs EXCEPT ![k].at = "recording"]
  /\ running' = [t \in MThreads |-> IF t \in jobs[k].thread THEN NoHandle ELSE running[t]]
  /\ UNCHANGED <<request, stored, logged, unread, raced>>

RunEnds(k) ==
  /\ jobs[k].at = "running"
  /\ jobs' = [jobs EXCEPT ![k].at = "recording"]
  /\ UNCHANGED <<request, stored, logged, running, unread, raced>>

RecordEnd(k) ==
  /\ jobs[k].at = "recording"
  /\ jobs' = [jobs EXCEPT ![k].at = "leaving"]
  /\ logged' = [t \in MThreads |->
       IF t \in jobs[k].thread /\ logged[t] # "none" THEN "final" ELSE logged[t]]
  /\ UNCHANGED <<request, stored, running, unread, raced>>

\* Mutant: a run that failed returns before the entry is removed.
FailKeepsEntry(k) ==
  /\ jobs[k].at = "recording"
  /\ jobs' = [jobs EXCEPT ![k].at = "ended"]
  /\ UNCHANGED <<request, stored, logged, running, unread, raced>>

\* A run that failed leaves no record.
RunFailed(k) ==
  /\ jobs[k].at = "recording"
  /\ jobs' = [jobs EXCEPT ![k].at = "leaving"]
  /\ UNCHANGED <<request, stored, logged, running, unread, raced>>

\* Whatever the table holds for the thread is removed.
LeaveTable(k) ==
  /\ jobs[k].at = "leaving"
  /\ jobs' = [jobs EXCEPT ![k].at = "ended"]
  /\ running' = [t \in MThreads |-> IF t \in jobs[k].thread THEN NoHandle ELSE running[t]]
  /\ raced' = raced \cup {t \in jobs[k].thread : SpawnsOf(t) # {} \/ running[t].task # {k}}
  /\ UNCHANGED <<request, stored, logged, unread>>

(* list_threads of every status: the table, the files of each thread in it, *)
(* then the history.                                                        *)

AtWork(t) ==
  \E k \in MTasks : jobs[k].thread = {t} /\ jobs[k].at \in {"running", "recording", "leaving"}

ListRunning(c) ==
  /\ request[c].at = "idle"
  /\ request' = [request EXCEPT ![c] =
       [at |-> "listing", thread |-> {}, task |-> {},
        due |-> {t \in MThreads \ raced : AtWork(t) /\ SpawnsOf(t) = {}},
        seen |-> {t \in MThreads : Listed(t)}]]
  /\ UNCHANGED <<stored, logged, running, jobs, unread, raced>>

\* The files of a thread cannot be read: it is left out.
SkipThread(c, t) ==
  /\ request[c].at = "listing" /\ t \in request[c].seen
  /\ unread < MaxUnread
  /\ unread' = unread + 1
  /\ request' = [request EXCEPT ![c].seen = @ \ {t}, ![c].due = @ \ {t}]
  /\ UNCHANGED <<stored, logged, running, jobs, raced>>

ListHistory(c) ==
  /\ request[c].at = "listing"
  /\ request' = [request EXCEPT ![c].at = "answered",
       ![c].seen = @ \cup {t \in MThreads : logged[t] = "final"}]
  /\ UNCHANGED <<stored, logged, running, jobs, unread, raced>>

ManagerNext ==
  \/ \E c \in MCalls :
       \/ TurnAway(c)
       \/ LogThread(c) \/ StartTask(c) \/ HandOver(c)
       \/ ListRunning(c) \/ ListHistory(c)
       \/ \E t \in MThreads :
            \/ StoreThread(c, t) \/ SpawnThread(c, t) \/ SkipThread(c, t)
            \/ \E aborts \in BOOLEAN : CancelThread(c, t, aborts)
            \/ \E state \in {"Paused", "Running"} : SetState(c, t, state)
  \/ \E k \in MTasks : RunEnds(k) \/ RecordEnd(k) \/ RunFailed(k) \/ LeaveTable(k)

ManagerSpec == ManagerInit /\ [][ManagerNext]_managerVars

-----------------------------------------------------------------------------
(* Properties *)

ManagerTypeOK ==
  /\ request \in [MCalls -> [at : {"idle", "storing", "spawning", "handing", "listing", "answered"},
                             thread : SUBSET MThreads, task : SUBSET MTasks,
                             due : SUBSET MThreads, seen : SUBSET MThreads]]
  /\ stored \subseteq MThreads
  /\ logged \in [MThreads -> {"none", "open", "final"}]
  /\ running \in [MThreads -> [task : SUBSET MTasks, state : {"none", "Running", "Paused"}]]
  /\ jobs \in [MTasks -> [thread : SUBSET MThreads,
                          at : {"none", "running", "recording", "leaving", "ended", "aborted"}]]
  /\ unread \in 0..MaxUnread
  /\ raced \subseteq MThreads

\* No thread is refused because of an executor that is gone: what the table
\* holds for a thread has not ended, unless a spawn of the thread was overtaken
\* by another one or by the end of a task, or an abort came too late.
\* (spawn_thread checks, starts the task and inserts its handle in three steps,
\* and a task removes whatever handle its thread has.)
EntryIsAlive ==
  \A t \in MThreads \ raced : \A k \in running[t].task : jobs[k].at \notin {"ended", "aborted"}

\* A list of all threads has every thread that was at work when it was asked
\* for, also when the thread ends while the list is made.  (The list reads the
\* table and later the history, the task writes the history and later the
\* table.)
ListMissesNone ==
  \A c \in MCalls : request[c].at = "answered" => request[c].due \subseteq request[c].seen

=============================================================================
