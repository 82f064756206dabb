---------------------------- MODULE DirectoryLock ----------------------------
(***************************************************************************)
(* The kernel's directory locks (kernel-v2/src/coordinator): a skill call  *)
(* write-locks the directories its parameters name, one after the other,   *)
(* through two SQLite tables shared by every thread and process.           *)
(*                                                                         *)
(* No statement is part of a transaction and the runtime has many threads: *)
(* one action is one SQL statement with the code up to the next one.  The  *)
(* notification of a release only hurries a poll that comes anyway.        *)
(***************************************************************************)
EXTENDS Integers, Sequences, FiniteSets, SequencesExt

CONSTANTS
  Calls,       \* calls of ExecutionCoordinator.execute_skill
  Executors,   \* executor ids; NoExecutor stands for "no row"
  NoExecutor,
  ExecutorOf,  \* the executor id of each call, which calls may share
  DirectoryCount, \* canonical paths are numbers, in the order of PathBuf
  Parameters,  \* the directories each call's parameters name, in code order
  MayTimeOut,  \* whether a wait may last longer than its 300 seconds
  MayOutlast,  \* whether a call may hold a lock past its expires_at
  MaxFaults    \* bound on failed statements, aborted calls and restarts together

ASSUME ConstantsAssumption ==
  /\ NoExecutor \notin Executors
  /\ ExecutorOf \in [Calls -> Executors]
  /\ DirectoryCount \in Nat
  /\ Parameters \in [Calls -> Seq(1..DirectoryCount)]
  /\ MayTimeOut \in BOOLEAN
  /\ MayOutlast \in BOOLEAN
  /\ MaxFaults \in Nat

VARIABLES
  pc,          \* where each call is
  locks,       \* the directories a call believes it has locked, in order
  queued,      \* whether the call is in the wait loop of acquire_lock
  maxPosition, \* the position a call read before it joins the queue
  activeLocks, \* table active_locks: the holder of each directory
  expired,     \* the rows of active_locks whose expires_at has passed
  lockQueue,   \* table lock_queue: each directory's rows in order of rowid
  sweep,       \* the rows cleanup_expired has selected and not yet deleted
  faults,      \* failed statements, aborted calls and kernel restarts so far
  ahead,       \* history: the calls queued for a directory before this one
  shared,      \* history: the ids under which a call began before another was done
  misled       \* history: the calls that go by a failed read of the queue

callVars == <<pc, locks, queued, maxPosition>>
history == <<ahead, shared, misled>>
vars == <<callVars, activeLocks, expired, lockQueue, sweep, faults, history>>

-----------------------------------------------------------------------------
(* extract_directories and the loop of acquire_directory_locks *)

Directories == 1..DirectoryCount

\* What is left to lock for a call that holds `got`.
Missing(c, got) == ToSet(Parameters[c]) \ ToSet(got)

ListedNext(c, got) ==
  Parameters[c][CHOOSE i \in DOMAIN Parameters[c] : Parameters[c][i] \in Missing(c, got)]

\* directories.sort() and dedup(): always the least that is missing.
NextDirectory(c, got) ==
  CHOOSE d \in Missing(c, got) : \A e \in Missing(c, got) : d <= e

\* The directory c is acquiring.
Target(c) == NextDirectory(c, locks[c])

-----------------------------------------------------------------------------
(* The queue of a directory *)

Row(e, position) == [executor |-> e, position |-> position, status |-> "waiting"]

WaitingRows(d) == {i \in DOMAIN lockQueue[d] : lockQueue[d][i].status = "waiting"}

\* SELECT ... WHERE status = 'waiting' ORDER BY queue_position LIMIT 1.
IsHead(i, d) ==
  /\ i \in WaitingRows(d)
  /\ \A j \in WaitingRows(d) :
       \/ lockQueue[d][i].position < lockQueue[d][j].position
       \/ lockQueue[d][i].position = lockQueue[d][j].position /\ i <= j

\* Nobody waits for d before e.
NextInQueue(e, d) ==
  \/ WaitingRows(d) = {}
  \/ \E i \in WaitingRows(d) : IsHead(i, d) /\ lockQueue[d][i].executor = e

PositionOrMinusOne(d) ==
  CHOOSE p \in {-1} \cup {lockQueue[d][i].position : i \in WaitingRows(d)} :
    \A i \in WaitingRows(d) : lockQueue[d][i].position <= p

\* SELECT COALESCE(MAX(queue_position), 0) ... WHERE status = 'waiting'.
LastPosition(d) ==
  CHOOSE p \in {0} \cup {lockQueue[d][i].position : i \in WaitingRows(d)} :
    \A i \in WaitingRows(d) : lockQueue[d][i].position <= p

\* The upsert of a row, which keeps its place in the table.
UpsertRow(rows, e, position) ==
  IF \E i \in DOMAIN rows : rows[i].executor = e
  THEN [i \in DOMAIN rows |-> IF rows[i].executor = e THEN Row(e, position) ELSE rows[i]]
  ELSE Append(rows, Row(e, position))

\* UPDATE lock_queue SET status WHERE executor_id = e, whatever its status was.
SetStatus(rows, e, status) ==
  [i \in DOMAIN rows |->
     IF rows[i].executor = e THEN [rows[i] EXCEPT !.status = status] ELSE rows[i]]

-----------------------------------------------------------------------------
Init ==
  /\ pc = [c \in Calls |-> "new"]
  /\ locks = [c \in Calls |-> <<>>]
  /\ queued = [c \in Calls |-> FALSE]
  /\ maxPosition = [c \in Calls |-> 0]
  /\ activeLocks = [d \in Directories |-> NoExecutor]
  /\ expired = {}
  /\ lockQueue = [d \in Directories |-> <<>>]
  /\ sweep = {}
  /\ faults = 0
  /\ ahead = [c \in Calls |-> {}]
  /\ shared = {} /\ misled = {}

Ended == {"done", "failed", "gone"}

Alive(c) == pc[c] \notin {"new"} \cup Ended

\* The calls with a waiting row for d.
QueuedFor(d) ==
  {c \in Calls : /\ queued[c]
                 /\ Target(c) = d
                 /\ \E i \in WaitingRows(d) : lockQueue[d][i].executor = ExecutorOf[c]}

\* Where a call that has `got` the given locks goes on.
Proceed(c, got) == IF Missing(c, got) = {} THEN "executing" ELSE "checking"

\* What the history variable notes when a call turns to its next directory.
QueuedBefore(c, got) ==
  IF Missing(c, got) = {} THEN {} ELSE QueuedFor(NextDirectory(c, got))

\* A thread executor has an id of its own and runs its tool calls one after
\* another; the actions of one step, the actions of a composition and the calls
\* of a client that names no executor run at once under one id.
Begin(c) ==
  /\ pc[c] = "new"
  /\ pc' = [pc EXCEPT ![c] = Proceed(c, <<>>)]
  /\ ahead' = [ahead EXCEPT ![c] = QueuedBefore(c, <<>>)]
  /\ shared' = IF \E other \in Calls \ {c} :
                     ExecutorOf[other] = ExecutorOf[c] /\ pc[other] \notin {"new", "done"}
               THEN shared \cup {ExecutorOf[c]} ELSE shared
  /\ UNCHANGED <<locks, queued, maxPosition, activeLocks, expired, lockQueue, sweep,
                 faults, misled>>

-----------------------------------------------------------------------------
(* try_acquire: four statements. *)

\* The first statement of a try, and of every poll of the wait loop.
ReadLocks(c) ==
  /\ pc[c] \in {"checking", "waiting"}
  /\ pc' = [pc EXCEPT ![c] = IF activeLocks[Target(c)] = NoExecutor THEN "free" ELSE "taken"]
  /\ UNCHANGED <<locks, queued, maxPosition, activeLocks, expired, lockQueue, sweep, faults, history>>

Refused(c) == IF queued[c] THEN "waiting" ELSE "joining"

MayInsertUnordered(c) == pc[c] = "free"
MayInsert(c) == pc[c] = "free" /\ NextInQueue(ExecutorOf[c], Target(c))

ReadQueue(c) ==
  /\ pc[c] \in {"free", "taken"}
  /\ pc' = [pc EXCEPT ![c] = IF MayInsert(c) THEN "inserting" ELSE Refused(c)]
  /\ UNCHANGED <<locks, queued, maxPosition, activeLocks, expired, lockQueue, sweep, faults, history>>

\* The SELECT fails: .ok() makes of the error that nobody is queued.
QueueUnread(c) ==
  /\ pc[c] \in {"free", "taken"} /\ faults < MaxFaults
  /\ faults' = faults + 1
  /\ pc' = [pc EXCEPT ![c] = IF @ = "free" THEN "inserting" ELSE Refused(c)]
  /\ misled' = IF pc[c] = "free" THEN misled \cup {c} ELSE misled
  /\ UNCHANGED <<locks, queued, maxPosition, activeLocks, expired, lockQueue, sweep,
                 ahead, shared>>

\* INSERT ... ON CONFLICT DO UPDATE: the last to write is the holder.
InsertLock(c) ==
  /\ pc[c] = "inserting"
  /\ activeLocks' = [activeLocks EXCEPT ![Target(c)] = ExecutorOf[c]]
  /\ expired' = expired \ {Target(c)}
  /\ pc' = [pc EXCEPT ![c] = "leaving"]
  /\ UNCHANGED <<locks, queued, maxPosition, lockQueue, sweep, faults, history>>

LeaveQueue(c) ==
  LET d   == Target(c)
      got == Append(locks[c], d) IN
  /\ pc[c] = "leaving"
  /\ lockQueue' = [lockQueue EXCEPT ![d] = SetStatus(@, ExecutorOf[c], "acquired")]
  /\ locks' = [locks EXCEPT ![c] = got]
  /\ queued' = [queued EXCEPT ![c] = FALSE]
  /\ maxPosition' = [maxPosition EXCEPT ![c] = 0]
  /\ pc' = [pc EXCEPT ![c] = Proceed(c, got)]
  /\ ahead' = [ahead EXCEPT ![c] = QueuedBefore(c, got)]
  /\ misled' = misled \ {c}
  /\ UNCHANGED <<activeLocks, expired, sweep, faults, shared>>

-----------------------------------------------------------------------------
(* enqueue and the wait loop *)

ReadPosition(c) ==
  /\ pc[c] = "joining"
  /\ maxPosition' = [maxPosition EXCEPT ![c] = LastPosition(Target(c))]
  /\ pc' = [pc EXCEPT ![c] = "enqueueing"]
  /\ UNCHANGED <<locks, queued, activeLocks, expired, lockQueue, sweep, faults, history>>

\* The SELECT fails: .unwrap_or(0) puts the call before everybody.
PositionUnread(c) ==
  /\ pc[c] = "joining" /\ faults < MaxFaults
  /\ faults' = faults + 1
  /\ maxPosition' = [maxPosition EXCEPT ![c] = 0]
  /\ pc' = [pc EXCEPT ![c] = "enqueueing"]
  /\ misled' = misled \cup {c}
  /\ UNCHANGED <<locks, queued, activeLocks, expired, lockQueue, sweep, ahead, shared>>

Enqueue(c) ==
  /\ pc[c] = "enqueueing"
  /\ lockQueue' = [lockQueue EXCEPT
       ![Target(c)] = UpsertRow(@, ExecutorOf[c], maxPosition[c] + 1)]
  /\ queued' = [queued EXCEPT ![c] = TRUE]
  /\ maxPosition' = [maxPosition EXCEPT ![c] = 0]
  /\ pc' = [pc EXCEPT ![c] = "checking"]
  /\ UNCHANGED <<locks, activeLocks, expired, sweep, faults, history>>

\* The timeout is seen only where the loop waits; mark_timeout follows, and the
\* error leaves acquire_directory_locks with the locks acquired so far.
TimeOut(c) ==
  /\ MayTimeOut
  /\ pc[c] = "waiting"
  /\ lockQueue' = [lockQueue EXCEPT ![Target(c)] = SetStatus(@, ExecutorOf[c], "timeout")]
  /\ pc' = [pc EXCEPT ![c] = "failed"]
  /\ UNCHANGED <<locks, queued, maxPosition, activeLocks, expired, sweep, faults, history>>

\* Any other statement fails: of a try, of enqueue or of mark_timeout.  The error
\* leaves acquire_directory_locks too; what was written stays.
StatementFails(c) ==
  /\ pc[c] \in {"checking", "waiting", "inserting", "leaving", "joining", "enqueueing"}
  /\ faults < MaxFaults
  /\ faults' = faults + 1
  /\ pc' = [pc EXCEPT ![c] = "failed"]
  /\ UNCHANGED <<locks, queued, maxPosition, activeLocks, expired, lockQueue, sweep,
                 history>>

-----------------------------------------------------------------------------
(* The skill, and release_lock of each lock in the order of acquisition. *)

ExecuteSkill(c) ==
  /\ pc[c] = "executing"
  /\ pc' = [pc EXCEPT ![c] = IF locks[c] = <<>> THEN "done" ELSE "releasing"]
  /\ UNCHANGED <<locks, queued, maxPosition, activeLocks, expired, lockQueue, sweep, faults, history>>

DeleteLock(d, e) ==
  /\ activeLocks' = [activeLocks EXCEPT ![d] = IF @ = e THEN NoExecutor ELSE @]
  /\ expired' = IF activeLocks[d] = e THEN expired \ {d} ELSE expired

ReleaseLock(c) ==
  LET d == Head(locks[c]) IN
  /\ pc[c] = "releasing"
  /\ DeleteLock(d, ExecutorOf[c])
  /\ locks' = [locks EXCEPT ![c] = Tail(@)]
  /\ pc' = [pc EXCEPT ![c] = IF Tail(locks[c]) = <<>> THEN "done" ELSE "releasing"]
  /\ UNCHANGED <<queued, maxPosition, lockQueue, sweep, faults, history>>

\* A warning is logged, and the next lock released.
ReleaseFails(c) ==
  /\ pc[c] = "releasing" /\ faults < MaxFaults
  /\ faults' = faults + 1
  /\ locks' = [locks EXCEPT ![c] = Tail(@)]
  /\ pc' = [pc EXCEPT ![c] = IF Tail(locks[c]) = <<>> THEN "done" ELSE "releasing"]
  /\ UNCHANGED <<queued, maxPosition, activeLocks, expired, lockQueue, sweep, history>>

-----------------------------------------------------------------------------
(* cleanup_expired, which the kernel starts every 30 seconds. *)

SelectExpired ==
  /\ sweep = {}
  /\ expired # {}
  /\ sweep' = {<<d, activeLocks[d]>> : d \in expired}
  /\ UNCHANGED <<callVars, activeLocks, expired, lockQueue, faults, history>>

ForgetExpired ==
  \E row \in sweep :
    /\ sweep' = sweep \ {row}
    /\ UNCHANGED <<callVars, activeLocks, expired, lockQueue, faults, history>>

\* Deletes what the directory's row is now, if its holder is still the same.
DeleteExpired ==
  \E row \in sweep :
    /\ DeleteLock(row[1], row[2])
    /\ sweep' = sweep \ {row}
    /\ UNCHANGED <<callVars, lockQueue, faults, history>>

\* A failed DELETE ends the sweep.
SweepFails ==
  /\ sweep # {} /\ faults < MaxFaults
  /\ faults' = faults + 1
  /\ sweep' = {}
  /\ UNCHANGED <<callVars, activeLocks, expired, lockQueue, history>>

-----------------------------------------------------------------------------
(* Time, cancellation and restarts *)

\* c has written the row of d and will delete it.
Claims(c, d) ==
  /\ Alive(c)
  /\ d \in ToSet(locks[c]) \/ (pc[c] = "leaving" /\ Target(c) = d)

HolderAlive(d) == \E c \in Calls : ExecutorOf[c] = activeLocks[d] /\ Claims(c, d)

\* A lock that no call will release any more.
Leaked(d) == activeLocks[d] # NoExecutor /\ ~HolderAlive(d)

Expire(d) ==
  /\ activeLocks[d] # NoExecutor
  /\ d \notin expired
  /\ MayOutlast \/ Leaked(d)
  /\ expired' = expired \cup {d}
  /\ UNCHANGED <<callVars, activeLocks, lockQueue, sweep, faults, history>>

\* The call's future is dropped (cancel, client gone) where it awaits the map of
\* the notifications, the wait itself or the skill: its rows stay.
Abort(c) ==
  /\ faults < MaxFaults
  /\ faults' = faults + 1
  /\ pc[c] \in {"waiting", "executing", "releasing"} \/ (pc[c] = "checking" /\ queued[c])
  /\ pc' = [pc EXCEPT ![c] = "gone"]
  /\ UNCHANGED <<locks, queued, maxPosition, activeLocks, expired, lockQueue, sweep, history>>

\* The kernel dies with its calls, the database stays.
Crash ==
  /\ faults < MaxFaults
  /\ faults' = faults + 1
  /\ pc' = [c \in Calls |-> IF Alive(c) THEN "gone" ELSE pc[c]]
  /\ sweep' = {}
  /\ UNCHANGED <<locks, queued, maxPosition, activeLocks, expired, lockQueue, history>>

-----------------------------------------------------------------------------
Step(c) ==
  \/ ReadLocks(c)
  \/ ReadQueue(c)
  \/ InsertLock(c)
  \/ LeaveQueue(c)
  \/ ReadPosition(c)
  \/ Enqueue(c)
  \/ ExecuteSkill(c)
  \/ ReleaseLock(c)

SqlError(c) ==
  \/ QueueUnread(c)
  \/ PositionUnread(c)
  \/ StatementFails(c)
  \/ ReleaseFails(c)

Next ==
  \/ \E c \in Calls : Begin(c)
  \/ \E c \in Calls : Step(c)
  \/ \E c \in Calls : SqlError(c)
  \/ \E c \in Calls : TimeOut(c)
  \/ \E c \in Calls : Abort(c)
  \/ \E d \in Directories : Expire(d)
  \/ SelectExpired
  \/ DeleteExpired
  \/ SweepFails
  \/ Crash

Spec == Init /\ [][Next]_vars

\* The runtime polls every task, time passes for abandoned locks, and the
\* cleanup task runs for ever.  Nobody has to begin, time out, fail, abort or crash.
Fairness ==
  /\ \A c \in Calls : WF_vars(Step(c))
  /\ \A d \in Directories : WF_vars(Leaked(d) /\ Expire(d))
  /\ WF_vars(SelectExpired)
  /\ WF_vars(DeleteExpired)

FairSpec == Spec /\ Fairness

-----------------------------------------------------------------------------
(* Properties *)

Pcs == {"new", "checking", "free", "taken", "inserting", "leaving", "joining",
        "enqueueing", "waiting", "executing", "releasing"} \cup Ended

\* Every table and local variable is well formed, and a directory has at most
\* one row per executor in its queue (UNIQUE(directory_path, executor_id)).
TypeOK ==
  /\ pc \in [Calls -> Pcs]
  /\ locks \in [Calls -> Seq(Directories)]
  /\ queued \in [Calls -> BOOLEAN]
  /\ maxPosition \in [Calls -> Nat]
  /\ activeLocks \in [Directories -> Executors \cup {NoExecutor}]
  /\ expired \subseteq {d \in Directories : activeLocks[d] # NoExecutor}
  /\ lockQueue \in [Directories -> Seq([executor : Executors, position : Nat \ {0},
                                        status : {"waiting", "acquired", "timeout"}])]
  /\ \A d \in Directories : \A i, j \in DOMAIN lockQueue[d] :
       lockQueue[d][i].executor = lockQueue[d][j].executor => i = j
  /\ sweep \subseteq Directories \X Executors
  /\ faults \in 0..MaxFaults
  /\ ahead \in [Calls -> SUBSET Calls]
  /\ shared \subseteq Executors /\ misled \subseteq Calls

\* The skills that run hold disjoint directories: a write lock excludes every
\* other skill call, of whatever thread or process.
MutualExclusion ==
  \A b, c \in Calls :
    /\ pc[b] = "executing" /\ pc[c] = "executing"
    /\ ToSet(locks[b]) \cap ToSet(locks[c]) # {}
    => b = c

\* No row of active_locks has passed its expires_at while a call goes by it.
NoOutlast == \A d \in expired : ~HolderAlive(d)

\* The ON CONFLICT clause of the INSERT has nothing to update.
NoOverwrite ==
  \A c \in Calls : pc[c] = "inserting" => activeLocks[Target(c)] = NoExecutor

\* No two calls are between the SELECT that found a directory free and the INSERT.
NoRace ==
  \A b, c \in Calls :
    /\ pc[b] \in {"free", "inserting"} /\ pc[c] \in {"free", "inserting"}
    /\ Target(b) = Target(c)
    => b = c

\* c has taken a directory while b, which was queued for it before c first tried,
\* is queued for it still.
Overtakes(c, b) == pc[c] = "leaving" /\ b \in ahead[c] \cap QueuedFor(Target(c))

\* The queue is FIFO: nobody is overtaken, by interleaved statements, timeouts,
\* failed statements, lost calls or restarts, except by a call whose own read of the
\* queue failed, or where one of the two took over its executor id, and the row
\* under it, from a call that was under way or had failed.
NoOvertaking ==
  \A b, c \in Calls : Overtakes(c, b) =>
    c \in misled \/ {ExecutorOf[b], ExecutorOf[c]} \cap shared # {}

WaitsFor(b, c) == pc[b] = "waiting" /\ Alive(c) /\ Target(b) \in ToSet(locks[c])

\* Calls that lock several directories never wait for each other in a circle.
NoCircularWait ==
  \A group \in (SUBSET Calls) \ {{}} :
    \E b \in group : \A c \in group : ~WaitsFor(b, c)

\* Every call of e is over: nobody will change or use a row of e any more.
IsOver(e) == \A c \in Calls : ExecutorOf[c] = e => pc[c] \in Ended

\* A row that an executor has left waiting in the queue for d.
Abandoned(e, d) ==
  /\ IsOver(e)
  /\ \E i \in WaitingRows(d) : lockQueue[d][i].executor = e

\* An abandoned row heads the queue for d, and no call is on its way past it: none
\* is about to write the lock, or to join with a position it read too early.
Blocked(d) ==
  \E i \in WaitingRows(d) :
    /\ IsHead(i, d) /\ IsOver(lockQueue[d][i].executor)
    /\ \A c \in Calls :
         /\ pc[c] = "inserting" => Target(c) # d
         /\ pc[c] = "enqueueing" /\ Target(c) = d => lockQueue[d][i].position <= maxPosition[c]

\* c is trying to lock d, whose queue is blocked.
Starved(c, d) ==
  /\ Blocked(d)
  /\ pc[c] \in {"checking", "free", "taken", "joining", "enqueueing", "waiting"}
  /\ Target(c) = d

\* The locks left behind by timeouts, failures, aborts and crashes are all given
\* back.
LeakedLocksFreed == (\E d \in Directories : Leaked(d)) ~> (\A d \in Directories : ~Leaked(d))
=============================================================================
