------------------------------ MODULE ParallelWork ------------------------------
(***************************************************************************)
(* The three ways the kernel works on several things at once               *)
(* (kernel-v2/src/scheduler):                                              *)
(*   "batch"     batch_task_executor.rs, tasks under a time budget;        *)
(*   "sessions"  multi_session_orchestrator.rs, a thread for each task;    *)
(*   "parallel" and "sequential"  parallel_executor.rs, tool calls of one  *)
(*               step, whose results are written to the thread's log.      *)
(* The items are numbered in the order in which they were asked for.       *)
(***************************************************************************)
EXTENDS Integers, Sequences, FiniteSets

CONSTANTS
  NItems,       \* number of items
  Permits,      \* 5 for a batch, max_concurrent_threads for sessions
  ToolOf        \* [1..NItems -> tools]: artifacts are filed under their tool

ASSUME WorkAssumption ==
  /\ NItems \in Nat /\ Permits \in Nat \ {0}
  /\ DOMAIN ToolOf = 1..NItems

Items1 == 1..NItems

VARIABLES
  kind,       \* which of the three, and the mode of the third
  item,       \* what each item has come to
  timeUp,     \* the budget of the batch is used up
  awaited,    \* the handle that the collector of results awaits
  collected,  \* the results it has
  written,    \* accesses of the thread's storage that were done for the actions
  log,        \* the thread's event log
  artifact,   \* the item whose result is filed under each tool, 0 without one
  answer      \* [at, list]: what the caller is told

collector == <<awaited, collected>>
record == <<written, log, artifact>>
workVars == <<kind, item, timeUp, collector, record, answer>>

Actions == kind \in {"parallel", "sequential"}

WorkInit ==
  /\ kind \in {"batch", "sessions", "parallel", "sequential"}
  /\ item = [i \in Items1 |-> "waiting"]
  /\ timeUp = FALSE
  /\ awaited = 1 /\ collected = <<>>
  /\ written = 0 /\ log = <<>>
  /\ artifact = [x \in {ToolOf[i] : i \in Items1} |-> 0]
  /\ answer = [at |-> "pending", list |-> <<>>]

ItemEnded(i) == item[i] \in {"completed", "failed", "dropped"}
WithResult(i) == item[i] \in {"completed", "failed"}
AllEnded == \A i \in Items1 : ItemEnded(i)
Working == {i \in Items1 : item[i] = "working"}

\* Tool calls run without a permit, in sequence each after the record of the
\* one before it; the others wait for the semaphore.
MayStart(i) ==
  CASE kind = "sequential" -> written = 3 * (i - 1) /\ answer.at = "pending"
    [] kind = "parallel"   -> TRUE
    [] OTHER               -> Cardinality(Working) < Permits

\* Mutant: a task that gets its permit late works all the same.
StartUnchecked(i) ==
  /\ item[i] = "waiting" /\ MayStart(i)
  /\ item' = [item EXCEPT ![i] = "working"]
  /\ UNCHANGED <<kind, timeUp, collector, record, answer>>

\* A task of a batch that gets its permit late has no result.
StartItem(i) ==
  /\ item[i] = "waiting" /\ MayStart(i)
  /\ item' = [item EXCEPT ![i] = IF timeUp THEN "dropped" ELSE "working"]
  /\ UNCHANGED <<kind, timeUp, collector, record, answer>>

TimeIsUp ==
  /\ kind = "batch" /\ ~timeUp
  /\ timeUp' = TRUE
  /\ UNCHANGED <<kind, item, collector, record, answer>>

\* A task of a batch sleeps until the time is up and calls that completed.
EndItem(i, result) ==
  /\ item[i] = "working"
  /\ IF kind = "batch" THEN timeUp /\ result = "completed"
     ELSE result = "dropped" => kind = "sessions"    \* a thread's task panics
  /\ item' = [item EXCEPT ![i] = result]
  /\ UNCHANGED <<kind, timeUp, collector, record, answer>>

AnswerWith(how, list) == answer' = [at |-> how, list |-> list]

\* The handles are awaited in the order in which the items were asked for, and
\* each may add a result.  join_all awaits them side by side and keeps the order.
CollectNext ==
  /\ ~Actions /\ answer.at = "pending"
  /\ awaited <= NItems /\ ItemEnded(awaited)
  /\ collected' = IF WithResult(awaited) THEN Append(collected, awaited) ELSE collected
  /\ awaited' = awaited + 1
  /\ UNCHANGED <<kind, item, timeUp, record, answer>>

\* All handles are awaited, whatever wait_for_all says.
CollectResults ==
  /\ ~Actions /\ answer.at = "pending" /\ awaited > NItems
  /\ AnswerWith("ok", collected)
  /\ UNCHANGED <<kind, item, timeUp, collector, record>>

\* Mutant: the caller is told of what has been collected so far.
BudgetExceededPartial ==
  /\ timeUp /\ answer.at = "pending" /\ ~AllEnded
  /\ AnswerWith("ok", collected)
  /\ collected' = <<>>
  /\ UNCHANGED <<kind, item, timeUp, awaited, record>>

\* timeout polls the collector once more, which goes on past every task that has
\* ended, and drops it with its results when one has not; the tasks go on.
BudgetExceeded ==
  /\ timeUp /\ answer.at = "pending" /\ ~AllEnded
  /\ AnswerWith("ok", <<>>)
  /\ collected' = <<>>
  /\ UNCHANGED <<kind, item, timeUp, awaited, record>>

(* record_action_events: the call, its result, the artifact. *)

Recording == written \div 3 + 1
Recordable == /\ Actions /\ answer.at = "pending" /\ written < 3 * NItems
              /\ IF kind = "parallel" THEN AllEnded ELSE ItemEnded(Recording)

\* Mutant: An action is recorded as soon as it has ended.
RecordAsEnded ==
  /\ Actions /\ answer.at = "pending" /\ written < 3 * NItems /\ written % 3 = 0
  /\ \E i \in Items1 :
       /\ ItemEnded(i) /\ <<"call", i>> \notin {log[j] : j \in DOMAIN log}
       /\ log' = log \o <<<<"call", i>>, <<"result", i>>>>
       /\ artifact' = [artifact EXCEPT ![ToolOf[i]] = i]
  /\ written' = written + 3
  /\ UNCHANGED <<kind, item, timeUp, collector, answer>>

\* One of the three accesses is done.
Access ==
  /\ written' = written + 1
  /\ log' = CASE written % 3 = 0 -> Append(log, <<"call", Recording>>)
              [] written % 3 = 1 -> Append(log, <<"result", Recording>>)
              [] OTHER           -> log
  /\ artifact' = IF written % 3 = 2 THEN [artifact EXCEPT ![ToolOf[Recording]] = Recording]
                 ELSE artifact

RecordStep ==
  /\ Recordable
  /\ Access
  /\ UNCHANGED <<kind, item, timeUp, collector, answer>>

\* An access fails, after it has written or before: the caller gets the error and
\* no result.
StepUnrecorded ==
  /\ Recordable
  /\ AnswerWith("error", <<>>)
  /\ Access \/ UNCHANGED record
  /\ UNCHANGED <<kind, item, timeUp, collector>>

ActionsReturn ==
  /\ Actions /\ answer.at = "pending" /\ written = 3 * NItems
  /\ AnswerWith("ok", [i \in Items1 |-> i])
  /\ UNCHANGED <<kind, item, timeUp, collector, record>>

WorkNext ==
  \/ \E i \in Items1 :
       StartItem(i) \/ \E result \in {"completed", "failed", "dropped"} : EndItem(i, result)
  \/ TimeIsUp
  \/ CollectNext \/ CollectResults \/ BudgetExceeded
  \/ RecordStep \/ StepUnrecorded \/ ActionsReturn

WorkSpec == WorkInit /\ [][WorkNext]_workVars

-----------------------------------------------------------------------------
(* Properties *)

WorkTypeOK ==
  /\ kind \in {"batch", "sessions", "parallel", "sequential"}
  /\ item \in [Items1 -> {"waiting", "working", "completed", "failed", "dropped"}]
  /\ timeUp \in BOOLEAN
  /\ awaited \in 1..NItems + 1 /\ collected \in Seq(Items1)
  /\ written \in 0..(3 * NItems)
  /\ log \in Seq({"call", "result"} \X Items1)
  /\ artifact \in [{ToolOf[i] : i \in Items1} -> 0..NItems]
  /\ answer \in [at : {"pending", "ok", "error"}, list : Seq(Items1)]

\* A list names these items, in the order in which they were asked for.
InOrder(list, items) ==
  /\ {list[j] : j \in DOMAIN list} = items
  /\ \A j, k \in DOMAIN list : j < k => list[j] < list[k]

\* A batch has no more results than permits, however many tasks it is given: a
\* task that has a permit keeps it until the time is up, and who gets the permit
\* then is dropped.  (The permit, the check of the time after it, and the loop of
\* execute_single_task.)
BatchFitsPermits ==
  kind = "batch" => Cardinality({i \in Items1 : WithResult(i)}) <= Permits

\* Who is told of results is told of all there are, in the order asked for, and
\* no work is left behind: a batch that runs out of time tells of nothing, instead
\* of the partial results that its log line announces, the sessions are all waited
\* for, where a comment speaks of the first success, and what a batch tells of
\* fits its permits.  (The tasks end in any order, the collector lags behind them,
\* and the timeout races the last result.)
AnswerIsWhole ==
  /\ answer.list # <<>> => AllEnded /\ InOrder(answer.list, {i \in Items1 : WithResult(i)})
  /\ BatchFitsPermits

\* The log has for every action the call and then its result, in the order asked
\* for, and no result before the action has ended; what is filed under a tool is
\* the last recorded result of that tool; and who gets an answer without an error
\* finds all of it.  (Parallel actions end in any order, and a record may fail
\* between its three accesses.)
LogFollowsCalls ==
  LET n == Len(log)
      filed(x) == {i \in Items1 : ToolOf[i] = x /\ 3 * i <= written}
  IN /\ \A j \in 1..n :
          log[j] = <<IF j % 2 = 1 THEN "call" ELSE "result", (j + 1) \div 2>>
     /\ \A j \in 1..n : ItemEnded(log[j][2])
     /\ \A x \in DOMAIN artifact :
          artifact[x] \in filed(x) \cup {0} /\ \A i \in filed(x) : i <= artifact[x]
     /\ (Actions /\ answer.at = "ok") => n = 2 * NItems

=============================================================================
