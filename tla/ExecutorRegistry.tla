--------------------------- MODULE ExecutorRegistry ---------------------------
(***************************************************************************)
(* The AgentKernel service's tables of threads and of executors            *)
(* (kernel-v2/src/server/agent_kernel.rs).  Every call is a task of the    *)
(* runtime; the tables are behind two RwLocks, which some calls hold       *)
(* across awaits, and an executor is a task whose handle is put into the   *)
(* table after it was spawned.                                             *)
(*                                                                         *)
(* An action is the code between two awaits that can suspend.  A handler   *)
(* whose client goes away is dropped at such an await.                     *)
(***************************************************************************)
EXTENDS Integers, FiniteSets

CONSTANTS
  Calls,        \* calls of the service, by any clients
  KThreads,     \* ids of threads
  Executors,    \* ids of executors
  MaxErrors     \* bound on file accesses that fail

ASSUME RegistryAssumption ==
  /\ IsFiniteSet(Calls) /\ IsFiniteSet(KThreads) /\ IsFiniteSet(Executors)
  /\ MaxErrors \in Nat

VARIABLES
  call,       \* what each call is, where it is, and its thread and executor
  onDisk,     \* threads that have a directory
  threads,    \* the table of threads
  executors,  \* the table of executors: the state in each one's handle
  execTask,   \* the spawned tasks
  owner,      \* the thread each executor was created for
  tLock,      \* who holds the lock of threads: [readers, writers]
  eLock,      \* who holds the lock of executors
  errors,     \* file accesses that have failed
  excused     \* history: threads with overlapping spawns, or with an executor
              \* that was paused, cancelled or left without a handle

tables == <<onDisk, threads, executors, execTask, owner>>
registryVars == <<call, tables, tLock, eLock, errors, excused>>

Unlocked == [readers |-> {}, writers |-> {}]
CanWrite(l) == l = Unlocked
CanRead(l) == l.writers = {}
Absent == "absent"

RegistryInit ==
  /\ call = [c \in Calls |-> [at |-> "idle", thread |-> {}, executor |-> {}]]
  /\ onDisk \in SUBSET KThreads   \* what an earlier run of the kernel has left
  /\ threads = {}
  /\ executors = [e \in Executors |-> Absent]
  /\ execTask = [e \in Executors |-> "none"]
  /\ owner = [e \in Executors |-> {}]
  /\ tLock = Unlocked /\ eLock = Unlocked
  /\ errors = 0
  /\ excused = {}

Goto(c, place) == call' = [call EXCEPT ![c].at = place]
Return(c) == Goto(c, "returned")

Begin(c, place, t, e) ==
  /\ call[c].at = "idle"
  /\ call' = [call EXCEPT ![c] = [at |-> place, thread |-> t, executor |-> e]]

\* A file access fails and the call answers with the error.
AccessFails(c) ==
  /\ errors < MaxErrors
  /\ errors' = errors + 1
  /\ Return(c)

(* create_thread *)

CreateThread(c, t) ==
  /\ t \notin onDisk
  /\ onDisk' = onDisk \cup {t}
  /\ \/ Begin(c, "entering", {t}, {}) /\ UNCHANGED errors
     \/ call[c].at = "idle" /\ AccessFails(c)
  /\ UNCHANGED <<threads, executors, execTask, owner, tLock, eLock, excused>>

EnterThread(c) ==
  /\ call[c].at = "entering" /\ CanWrite(tLock)
  /\ threads' = threads \cup call[c].thread
  /\ Return(c)
  /\ UNCHANGED <<onDisk, executors, execTask, owner, tLock, eLock, errors, excused>>

(* spawn_executor *)

BeginSpawn(c, t) ==
  /\ Begin(c, "checking", {t}, {})
  /\ UNCHANGED <<tables, tLock, eLock, errors, excused>>

ActiveHandle(t) == \E e \in Executors : executors[e] = "Running" /\ owner[e] = t
SpawnUnderWay(t) ==
  \E d \in Calls : call[d].thread = t /\ call[d].at \in {"creating", "inserting"}

\* Mutant: Nobody looks for an active executor.
SpawnUnchecked(c) ==
  /\ call[c].at = "checking" /\ CanRead(eLock)
  /\ IF call[c].thread \subseteq onDisk
     THEN /\ Goto(c, "creating")
          /\ excused' = IF SpawnUnderWay(call[c].thread)
                        THEN excused \cup call[c].thread ELSE excused
     ELSE Return(c) /\ UNCHANGED excused
  /\ UNCHANGED <<tables, tLock, eLock, errors>>

\* Mutant: the guard of executors is not dropped after the search.
SpawnChecksHolding(c) ==
  /\ call[c].at = "checking" /\ CanRead(eLock)
  /\ IF call[c].thread \subseteq onDisk /\ ~ActiveHandle(call[c].thread)
     THEN /\ Goto(c, "creating")
          /\ eLock' = [eLock EXCEPT !.readers = @ \cup {c}]
          /\ excused' = excused \cup call[c].thread
     ELSE Return(c) /\ UNCHANGED <<eLock, excused>>
  /\ UNCHANGED <<tables, tLock, errors>>

\* The thread is loaded, then the table is searched under its lock.
SpawnChecks(c) ==
  /\ call[c].at = "checking" /\ CanRead(eLock)
  /\ IF call[c].thread \subseteq onDisk /\ ~ActiveHandle(call[c].thread)
     THEN /\ Goto(c, "creating")
          /\ excused' = IF SpawnUnderWay(call[c].thread)
                        THEN excused \cup call[c].thread ELSE excused
     ELSE Return(c) /\ UNCHANGED excused
  /\ UNCHANGED <<tables, tLock, eLock, errors>>

CreateFails(c) ==
  /\ call[c].at = "creating"
  /\ AccessFails(c)
  /\ UNCHANGED <<tables, tLock, eLock, excused>>

Fresh == {e \in Executors : execTask[e] = "none"}

\* The task runs from here on.  Which unused id it gets makes no difference.
SpawnTask(c) ==
  LET e == CHOOSE x \in Fresh : TRUE IN
  /\ call[c].at = "creating" /\ Fresh # {}
  /\ call' = [call EXCEPT ![c].at = "inserting", ![c].executor = {e}]
  /\ execTask' = [execTask EXCEPT ![e] = "running"]
  /\ owner' = [owner EXCEPT ![e] = call[c].thread]
  /\ UNCHANGED <<onDisk, threads, executors, tLock, eLock, errors, excused>>

InsertHandle(c) ==
  /\ call[c].at = "inserting" /\ CanWrite(eLock)
  /\ executors' = [e \in Executors |-> IF e \in call[c].executor THEN "Running" ELSE executors[e]]
  /\ Goto(c, "marking")
  /\ UNCHANGED <<onDisk, threads, execTask, owner, tLock, eLock, errors, excused>>

\* A thread of an earlier run of the kernel is not in the table.
MarkThread(c) ==
  /\ call[c].at = "marking" /\ CanWrite(tLock)
  /\ IF call[c].thread \subseteq threads
     THEN Goto(c, "updating") /\ tLock' = [tLock EXCEPT !.writers = {c}]
     ELSE Return(c) /\ UNCHANGED tLock
  /\ UNCHANGED <<tables, eLock, errors, excused>>

\* meta.json is read and written under the lock of threads.  A call that fails
\* here answers with an error although its executor runs.
SpawnReturns(c) ==
  /\ call[c].at = "updating"
  /\ (Return(c) /\ UNCHANGED errors) \/ AccessFails(c)
  /\ tLock' = Unlocked
  /\ UNCHANGED <<tables, eLock, excused>>

(* control_executor: nobody tells the task. *)

ControlExecutor(c, e, state) ==
  /\ Begin(c, "returned", {}, {}) /\ CanWrite(eLock)
  /\ executors[e] # Absent
  /\ executors' = [executors EXCEPT ![e] = state]
  /\ excused' = IF state = "Running" THEN excused ELSE excused \cup owner[e]
  /\ UNCHANGED <<onDisk, threads, execTask, owner, tLock, eLock, errors>>

(* kill_executor *)

Aborted(gone) ==
  [e \in Executors |-> IF e \in gone /\ execTask[e] = "running" THEN "aborted" ELSE execTask[e]]

KillExecutor(c, e) ==
  /\ CanWrite(eLock) /\ executors[e] # Absent
  /\ Begin(c, "killing", owner[e], {e})
  /\ executors' = [executors EXCEPT ![e] = Absent]
  /\ execTask' = Aborted({e})
  /\ eLock' = [eLock EXCEPT !.writers = {c}]
  /\ UNCHANGED <<onDisk, threads, owner, tLock, errors, excused>>

\* The lock of threads is taken while that of executors is held.
KillMarks(c) ==
  /\ call[c].at = "killing" /\ CanWrite(tLock)
  /\ Goto(c, "pausing")
  /\ tLock' = [tLock EXCEPT !.writers = {c}]
  /\ UNCHANGED <<tables, eLock, errors, excused>>

\* An error of the update is ignored.
KillReturns(c) ==
  /\ call[c].at = "pausing"
  /\ Return(c)
  /\ tLock' = Unlocked /\ eLock' = Unlocked
  /\ UNCHANGED <<tables, errors, excused>>

(* get_system_status takes the locks in the other order. *)

ReadThreads(c) ==
  /\ CanRead(tLock)
  /\ Begin(c, "counting", {}, {})
  /\ tLock' = [tLock EXCEPT !.readers = @ \cup {c}]
  /\ UNCHANGED <<tables, eLock, errors, excused>>

ReadExecutors(c) ==
  /\ call[c].at = "counting" /\ CanRead(eLock)
  /\ Return(c)
  /\ tLock' = [tLock EXCEPT !.readers = @ \ {c}]
  /\ UNCHANGED <<tables, eLock, errors, excused>>

(* shutdown *)

ShutdownExecutors(c) ==
  /\ CanWrite(eLock)
  /\ Begin(c, "returned", {}, {})
  /\ executors' = [e \in Executors |-> Absent]
  /\ execTask' = Aborted({e \in Executors : executors[e] # Absent})
  /\ UNCHANGED <<onDisk, threads, owner, tLock, eLock, errors, excused>>

(* The executor's task ends: its handle stays as it is. *)

TaskEnds(e) ==
  /\ execTask[e] = "running"
  /\ execTask' = [execTask EXCEPT ![e] = "ended"]
  /\ UNCHANGED <<call, onDisk, threads, executors, owner, tLock, eLock, errors, excused>>

\* The handler of a closed connection is dropped, and its guards with it.
DropCall(c) ==
  /\ call[c].at \notin {"idle", "returned", "dropped"}
  /\ Goto(c, "dropped")
  /\ tLock' = [readers |-> tLock.readers \ {c}, writers |-> tLock.writers \ {c}]
  /\ eLock' = [readers |-> eLock.readers \ {c}, writers |-> eLock.writers \ {c}]
  /\ excused' = IF call[c].at = "inserting" THEN excused \cup call[c].thread ELSE excused
  /\ UNCHANGED <<tables, errors>>

CallStep(c) ==
  \/ EnterThread(c)
  \/ SpawnChecks(c) \/ CreateFails(c) \/ SpawnTask(c)
  \/ InsertHandle(c) \/ MarkThread(c) \/ SpawnReturns(c)
  \/ KillMarks(c) \/ KillReturns(c) \/ ReadExecutors(c)

RegistryNext ==
  \/ \E c \in Calls :
       \/ CallStep(c)
       \/ \E t \in KThreads : CreateThread(c, t) \/ BeginSpawn(c, t)
       \/ \E e \in Executors :
            \/ \E state \in {"Paused", "Running", "Error"} : ControlExecutor(c, e, state)
            \/ KillExecutor(c, e)
       \/ ReadThreads(c) \/ ShutdownExecutors(c) \/ DropCall(c)
  \/ \E e \in Executors : TaskEnds(e)

\* The runtime polls every call; no client has to call, and no executor to end.
RegistryFairness == \A c \in Calls : WF_registryVars(CallStep(c))

RegistrySpec == RegistryInit /\ [][RegistryNext]_registryVars /\ RegistryFairness

-----------------------------------------------------------------------------
(* Properties *)

RegistryTypeOK ==
  /\ call \in [Calls -> [at : {"idle", "entering", "checking", "creating", "inserting",
                               "marking", "updating", "killing", "pausing", "counting",
                               "returned", "dropped"},
                         thread : SUBSET KThreads, executor : SUBSET Executors]]
  /\ onDisk \subseteq KThreads /\ threads \subseteq onDisk
  /\ executors \in [Executors -> {Absent, "Running", "Paused", "Error"}]
  /\ execTask \in [Executors -> {"none", "running", "ended", "aborted"}]
  /\ owner \in [Executors -> SUBSET KThreads]
  /\ tLock \in [readers : SUBSET Calls, writers : SUBSET Calls]
  /\ eLock \in [readers : SUBSET Calls, writers : SUBSET Calls]
  /\ errors \in 0..MaxErrors /\ excused \subseteq KThreads

\* At most one executor works on a thread, unless two spawns of the thread
\* overlapped between check and insertion, or an executor of it was paused or
\* cancelled (which only changes the handle), or lost its handle to a dropped
\* call.  (spawn_executor checks in one critical section and inserts in another,
\* kill_executor and shutdown remove handles in between.)
OneActive ==
  \A t \in KThreads \ excused :
    Cardinality({e \in Executors : execTask[e] = "running" /\ owner[e] = {t}}) <= 1

\* Whoever has a running executor's id can kill it: its handle is in the table,
\* or the call that spawned it is about to put it there, or was dropped before
\* it could.  (kill_executor and shutdown take handles out of the table while
\* other calls insert theirs.)
TaskHasHandle ==
  \A e \in Executors : execTask[e] = "running" =>
    \/ executors[e] # Absent
    \/ \E c \in Calls : call[c].executor = {e} /\ call[c].at \in {"inserting", "dropped"}

\* kill_executor holds executors and waits for threads, get_system_status holds
\* threads and waits for executors.
Embrace ==
  /\ \E c \in Calls : call[c].at = "killing"
  /\ \E c \in Calls : call[c].at = "counting"

\* Every call returns, unless a kill and a status call hold each a lock the
\* other needs.  (The two RwLocks are taken by six handlers, some of them across
\* file accesses.)
CallsReturn ==
  [](\A c \in Calls :
       call[c].at \notin {"idle", "returned", "dropped"}
       => <>(call[c].at \in {"returned", "dropped"} \/ Embrace))

=============================================================================
