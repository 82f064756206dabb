------------------------------ MODULE SkillCalls ------------------------------
(***************************************************************************)
(* A skill call from the kernel's gRPC service (agent_kernel.rs) or from   *)
(* the composer skill, through the coordinator's directory locks and the   *)
(* skill registry, to the process of a bash command (providers/bash.rs).   *)
(*                                                                         *)
(* A directory's row in active_locks is read and written in two steps, and *)
(* a waiting call may find it free in any order: DirectoryLock has the     *)
(* statements and the queue.                                               *)
(***************************************************************************)
EXTENDS Integers, FiniteSets

CONSTANTS
  Callers,        \* calls, each with an executor id of its own
  Folders,        \* directories, numbered in the order of their paths
  SkillRequests   \* what a call may ask for: the fields of SkillRequest

\* "direct" is the service, "locked" execute_with_lock of the composer skill,
\* which first locks the directory `outer` for its caller.
ASSUME SkillAssumption ==
  /\ IsFiniteSet(Callers) /\ Folders \subseteq Nat /\ SkillRequests # {}
  /\ \A q \in SkillRequests :
       /\ q.via \in {"direct", "locked"} /\ q.outer \in Folders
       /\ q.folders \subseteq Folders

VARIABLES
  callAt,     \* where each call is
  wanted,     \* what it asks for
  wants,      \* the directories it has yet to lock
  holds,      \* the directories it believes it has locked
  succeeded,  \* whether its skill succeeded
  rowOf,      \* active_locks: the executor that holds each directory
  processOf,  \* the calls whose command runs
  recorded,   \* command_history: the calls with a record
  stats       \* successful and failed executions

skillVars == <<callAt, wanted, wants, holds, succeeded, rowOf, processOf, recorded, stats>>

NoRow == "none"

SkillInit ==
  /\ callAt = [c \in Callers |-> "new"]
  /\ wanted = [c \in Callers |-> CHOOSE q \in SkillRequests : TRUE]   \* none yet
  /\ wants = [c \in Callers |-> {}]
  /\ holds = [c \in Callers |-> {}]
  /\ succeeded = [c \in Callers |-> FALSE]
  /\ rowOf = [d \in Folders |-> NoRow]
  /\ processOf = {} /\ recorded = {}
  /\ stats = [ok |-> 0, failed |-> 0]

CallOver == {"answered", "gone"}
GoTo(c, place) == callAt' = [callAt EXCEPT ![c] = place]
Locking(c) == IF wants[c] = {} THEN "calling" ELSE "locking"

-----------------------------------------------------------------------------
(* Directory locks, in the order of the paths *)

\* The caller's lock of execute_with_lock is the first to be taken; the skill
\* call inside it is one of the executor "composer_skill".
OuterTurn(c) == wanted[c].via = "locked" /\ callAt[c] \in {"outer", "outerWait", "outerFree"}
NextFolder(c) ==
  IF OuterTurn(c) THEN wanted[c].outer
  ELSE CHOOSE d \in wants[c] : \A e \in wants[c] : d <= e
ExecutorFor(c) ==
  IF wanted[c].via = "locked" /\ ~OuterTurn(c) THEN "composer_skill" ELSE c

\* A directory that the parameters name twice, or that is none, was left out.
BeginCall(c) ==
  /\ callAt[c] = "new"
  /\ \E q \in SkillRequests :
       /\ wanted' = [wanted EXCEPT ![c] = q]
       /\ wants' = [wants EXCEPT ![c] = q.folders]
       /\ GoTo(c, CASE q.via = "locked"  -> "outer"
                    [] q.folders = {}    -> "calling"
                    [] OTHER             -> "locking")
  /\ UNCHANGED <<holds, succeeded, rowOf, processOf, recorded, stats>>

\* Parameters that are no JSON are answered at once.
RejectParameters(c) ==
  /\ callAt[c] = "new"
  /\ GoTo(c, "answered")
  /\ UNCHANGED <<wanted, wants, holds, succeeded, rowOf, processOf, recorded, stats>>

TryLock(c) ==
  /\ callAt[c] \in {"outer", "outerWait", "locking", "waiting"}
  /\ LET free == rowOf[NextFolder(c)] = NoRow IN
     GoTo(c, IF OuterTurn(c) THEN IF free THEN "outerFree" ELSE "outerWait"
             ELSE IF free THEN "free" ELSE "waiting")
  /\ UNCHANGED <<wanted, wants, holds, succeeded, rowOf, processOf, recorded, stats>>

TakeLock(c) ==
  LET d == NextFolder(c) IN
  /\ callAt[c] \in {"outerFree", "free"}
  /\ rowOf' = [rowOf EXCEPT ![d] = ExecutorFor(c)]
  /\ IF OuterTurn(c)
     THEN GoTo(c, Locking(c)) /\ UNCHANGED <<wants, holds>>
     ELSE /\ wants' = [wants EXCEPT ![c] = @ \ {d}]
          /\ holds' = [holds EXCEPT ![c] = @ \cup {d}]
          /\ GoTo(c, IF wants[c] = {d} THEN "calling" ELSE "locking")
  /\ UNCHANGED <<wanted, succeeded, processOf, recorded, stats>>

\* Mutant: the wait for a lock has no end.
LockNeverTimesOut(c) == FALSE /\ UNCHANGED skillVars

\* The error leaves the coordinator with what the call has locked so far.
LockTimesOut(c) ==
  /\ callAt[c] \in {"outerWait", "waiting"}
  /\ GoTo(c, "answered")
  /\ UNCHANGED <<wanted, wants, holds, succeeded, rowOf, processOf, recorded, stats>>

\* cleanup_expired deletes the row of a lock, whoever still works under it.
LockExpires(d) ==
  /\ rowOf[d] # NoRow
  /\ rowOf' = [rowOf EXCEPT ![d] = NoRow]
  /\ UNCHANGED <<callAt, wanted, wants, holds, succeeded, processOf, recorded, stats>>

-----------------------------------------------------------------------------
(* The registry, the bash skill and the command *)

ModeOf(word) ==
  CASE word \in {"cat", "ls", "find", "pwd", "readlink", "realpath", "head", "tail"} -> "file"
    [] word \in {"grep", "rg", "ack", "ag"} -> "search"
    [] OTHER -> "system"

AllowedIn(mode) ==
  CASE mode = "file"   -> {"cat", "ls", "find", "pwd", "readlink", "realpath"}
    [] mode = "search" -> {"rg", "ast-grep", "grep", "find", "ack", "ag"}
    [] mode = "system" -> {"ps", "df", "du", "uptime", "uname", "whoami", "hostname"}

ValidCommand(q) == ~q.blocked /\ q.word \in AllowedIn(ModeOf(q.word))

\* Every call comes with the level of an agent, which bash asks for and which
\* does not reach the gateway skill; a skill or a tool with another name is an
\* error, too.
Accepted(q) == q.skill = "bash" /\ q.tool = "execute" /\ ValidCommand(q)

\* A refused call fails, and so does one whose command cannot be spawned.
CallRefused(c) ==
  /\ callAt[c] = "calling"
  /\ GoTo(c, "returning")
  /\ UNCHANGED <<wanted, wants, holds, succeeded, rowOf, processOf, recorded, stats>>

StartCommand(c) ==
  /\ callAt[c] = "calling" /\ Accepted(wanted[c])
  /\ processOf' = processOf \cup {c}
  /\ GoTo(c, "running")
  /\ UNCHANGED <<wanted, wants, holds, succeeded, rowOf, recorded, stats>>

\* A command that ends under its call is recorded, whatever its exit code.
CommandEnds(c, ok) ==
  /\ callAt[c] = "running"
  /\ processOf' = processOf \ {c}
  /\ recorded' = recorded \cup {c}
  /\ succeeded' = [succeeded EXCEPT ![c] = ok]
  /\ GoTo(c, "returning")
  /\ UNCHANGED <<wanted, wants, holds, rowOf, stats>>

\* The timeout drops the wait for the output; nothing kills the process, which
\* runs on after its call has released the locks and answered.
CommandTimesOut(c) ==
  /\ callAt[c] = "running"
  /\ GoTo(c, "returning")
  /\ UNCHANGED <<wanted, wants, holds, succeeded, rowOf, processOf, recorded, stats>>

\* A long output is cut at a byte; inside a character that panics, before the
\* record is made, and the call ends without releasing its locks.
OutputPanics(c) ==
  /\ callAt[c] = "running"
  /\ processOf' = processOf \ {c}
  /\ GoTo(c, "gone")
  /\ UNCHANGED <<wanted, wants, holds, succeeded, rowOf, recorded, stats>>

OrphanCommandEnds(c) ==
  /\ c \in processOf /\ callAt[c] # "running"
  /\ processOf' = processOf \ {c}
  /\ UNCHANGED <<callAt, wanted, wants, holds, succeeded, rowOf, recorded, stats>>

-----------------------------------------------------------------------------
(* Release and answer *)

\* release_lock deletes the row if it is still one of the same executor.
ReleaseNext(c) ==
  LET d == CHOOSE d \in holds[c] : \A e \in holds[c] : d <= e IN
  /\ callAt[c] = "returning" /\ holds[c] # {}
  /\ rowOf' = [rowOf EXCEPT ![d] = IF @ = ExecutorFor(c) THEN NoRow ELSE @]
  /\ holds' = [holds EXCEPT ![c] = @ \ {d}]
  /\ UNCHANGED <<callAt, wanted, wants, succeeded, processOf, recorded, stats>>

\* The lock of execute_with_lock has no Drop: its row stays until it expires.
AnswerCall(c) ==
  /\ callAt[c] = "returning" /\ holds[c] = {}
  /\ stats' = IF succeeded[c] THEN [stats EXCEPT !.ok = @ + 1]
              ELSE [stats EXCEPT !.failed = @ + 1]
  /\ GoTo(c, "answered")
  /\ UNCHANGED <<wanted, wants, holds, succeeded, rowOf, processOf, recorded>>

\* The client goes away: the handler is dropped where it waits.
CallDropped(c) ==
  /\ callAt[c] \in {"outerWait", "waiting", "running"}
  /\ GoTo(c, "gone")
  /\ UNCHANGED <<wanted, wants, holds, succeeded, rowOf, processOf, recorded, stats>>

SkillStep(c) ==
  \/ TryLock(c) \/ TakeLock(c)
  \/ CallRefused(c) \/ StartCommand(c)
  \/ ReleaseNext(c) \/ AnswerCall(c)

SkillNext ==
  \/ \E c \in Callers :
       \/ BeginCall(c) \/ RejectParameters(c)
       \/ SkillStep(c)
       \/ LockTimesOut(c)
       \/ CommandTimesOut(c)
       \/ \E ok \in BOOLEAN : CommandEnds(c, ok)
       \/ OutputPanics(c) \/ OrphanCommandEnds(c)
       \/ CallDropped(c)
  \/ \E d \in Folders : LockExpires(d)

\* The runtime polls every handler and its timers; no lock need ever expire and
\* no command end.
SkillFairness ==
  \A c \in Callers :
    /\ WF_skillVars(SkillStep(c))
    /\ WF_skillVars(LockTimesOut(c))
    /\ WF_skillVars(CommandTimesOut(c))

SkillSpec == SkillInit /\ [][SkillNext]_skillVars /\ SkillFairness

-----------------------------------------------------------------------------
(* Properties *)

\* Calls keep to their places; a command runs or is recorded only for a request
\* the validation lets through, and the statistics count the calls that came back.
SkillTypeOK ==
  /\ callAt \in [Callers -> {"new", "outer", "outerWait", "outerFree", "locking", "waiting",
                             "free", "calling", "running", "returning"} \cup CallOver]
  /\ wanted \in [Callers -> SkillRequests]
  /\ wants \in [Callers -> SUBSET Folders] /\ holds \in [Callers -> SUBSET Folders]
  /\ succeeded \in [Callers -> BOOLEAN]
  /\ rowOf \in [Folders -> Callers \cup {NoRow, "composer_skill"}]
  /\ processOf \cup recorded \subseteq {c \in Callers : Accepted(wanted[c])}
  /\ stats.ok <= Cardinality({c \in recorded : succeeded[c]})
  /\ stats.ok + stats.failed <= Cardinality({c \in Callers : callAt[c] = "answered"})

\* Every skill call is answered or dropped by its client, although nobody may
\* release what it waits for: execute_with_lock keeps its lock, may name the same
\* directory again in the skill call it makes inside and then waits for itself,
\* a client that goes away leaves its locks behind, and a command may hang.
SkillCallsEnd ==
  [](\A c \in Callers : callAt[c] # "new" => <>(callAt[c] \in CallOver))

=============================================================================
