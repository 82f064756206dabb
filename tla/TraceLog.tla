------------------------------- MODULE TraceLog -------------------------------
(***************************************************************************)
(* The trace collector (kernel-v2/src/observability/trace.rs) as the       *)
(* composer server uses it: every compose and every execute_bash records a *)
(* trace and waits for the record.  All records of one run of the server   *)
(* belong to one thread, whose operations are kept in memory and in a file *)
(* that is rewritten for each record; a trace has a file of its own, found *)
(* by an index.                                                            *)
(*                                                                         *)
(* An action is the code between two awaits.  A client that goes away      *)
(* drops its handler at an await; a file write that was begun goes on.     *)
(* Files are written in place: a write empties its file first, so that one *)
(* that fails, or runs beside another, may leave nothing that can be read. *)
(***************************************************************************)
EXTENDS Integers, FiniteSets

CONSTANTS
  Traces,         \* records and reads, each by any client
  NameOf,         \* [Traces -> file names]: eight characters of a trace's id,
                  \* six of which are always "trace_"
  MaxWriteErrors, \* bound on file accesses that fail
  MaxRuns         \* bound on runs of the server

ASSUME TraceAssumption ==
  /\ IsFiniteSet(Traces) /\ DOMAIN NameOf = Traces
  /\ MaxWriteErrors \in Nat /\ MaxRuns \in Nat \ {0}

VARIABLES
  trace,       \* where each call is
  operations,  \* the thread's operations in memory
  stateFile,   \* the operations in the thread's file
  snapshot,    \* what each call that writes this file has to write
  traceFile,   \* the trace in each daily file, none at first
  traceIndex,  \* the index in memory
  indexFile,   \* and in its file
  stateLock, indexLock,   \* who holds the two mutexes
  writeErrors, runs,
  beside,      \* calls that began to write this file beside an older write
  damaged      \* history: the thread's file may lack what saves have put into
               \* it, and no save has put that right since

memory == <<operations, traceIndex>>
disk == <<stateFile, traceFile, indexFile>>
locks == <<stateLock, indexLock>>
history == <<beside, damaged>>
traceVars == <<trace, memory, disk, snapshot, locks, writeErrors, runs, history>>

Names == {NameOf[c] : c \in Traces}

TraceInit ==
  /\ trace = [c \in Traces |-> "idle"]
  /\ operations = {} /\ stateFile = {}
  /\ snapshot = [c \in Traces |-> {}]
  /\ traceFile = [x \in Names |-> {}]
  /\ traceIndex = {} /\ indexFile = {}
  /\ stateLock = {} /\ indexLock = {}
  /\ writeErrors = 0 /\ runs = 1
  /\ beside = {} /\ damaged = FALSE

At(c, from, to) == trace[c] = from /\ trace' = [trace EXCEPT ![c] = to]

\* The error of a record is ignored, the client gets its answer.
WriteFails(c, from) ==
  /\ writeErrors < MaxWriteErrors
  /\ writeErrors' = writeErrors + 1
  /\ At(c, from, "answered")

(* record *)

RecordOperation(c) ==
  /\ At(c, "idle", "noted") /\ stateLock = {}
  /\ operations' = operations \cup {c}
  /\ UNCHANGED <<traceIndex, disk, snapshot, locks, writeErrors, runs, history>>

\* Writes of the thread's file that go on without their handlers.
Strays == {d \in Traces : trace[d] = "stray"}

\* Mutant: the state is copied and its lock released before it is written.
SaveThreadStateUnlocked(c) ==
  /\ At(c, "noted", "saving") /\ stateLock = {}
  /\ snapshot' = [snapshot EXCEPT ![c] = operations]
  /\ UNCHANGED <<memory, disk, locks, writeErrors, runs, history>>

SaveThreadState(c) ==
  /\ At(c, "noted", "saving") /\ stateLock = {}
  /\ stateLock' = {c}
  /\ snapshot' = [snapshot EXCEPT ![c] = operations]
  /\ beside' = IF Strays = {} THEN beside ELSE beside \cup {c}
  /\ UNCHANGED <<memory, disk, indexLock, writeErrors, runs, damaged>>

Unlocked1(lock, c) == lock \ {c}
Written(c) == snapshot' = [snapshot EXCEPT ![c] = {}] /\ beside' = beside \ {c}

\* What a write leaves of a file, unless it was alone: what it wrote, or nothing.
Outcome(content, alone) == {content} \cup (IF alone THEN {} ELSE {{}})
\* What a write that fails leaves of it.
Remains(content) == {content, {}}

ThreadStateSaved(c) ==
  /\ \/ /\ At(c, "saving", "saved")
        /\ stateFile' \in Outcome(snapshot[c], c \notin beside)
        /\ damaged' = (c \in beside)
        /\ UNCHANGED writeErrors
     \/ /\ WriteFails(c, "saving")
        /\ stateFile' \in Remains(stateFile)
        /\ damaged' = (damaged \/ stateFile' # stateFile)
  /\ stateLock' = Unlocked1(stateLock, c)
  /\ Written(c)
  /\ UNCHANGED <<memory, traceFile, indexFile, indexLock, runs>>

\* Other traces of this run whose file is c's: they may be written beside it.
Namesakes(c) == {d \in operations \ {c} : NameOf[d] = NameOf[c]}
FileOf(c, content) == traceFile' = [traceFile EXCEPT ![NameOf[c]] = content]

WriteTrace(c) ==
  /\ \/ /\ At(c, "saved", "written")
        /\ \E content \in Outcome({c}, Namesakes(c) = {}) : FileOf(c, content)
        /\ UNCHANGED writeErrors
     \/ /\ WriteFails(c, "saved")
        /\ \E content \in Remains(traceFile[NameOf[c]]) : FileOf(c, content)
  /\ UNCHANGED <<memory, stateFile, indexFile, snapshot, locks, runs, history>>

IndexTrace(c) ==
  /\ At(c, "written", "indexed") /\ indexLock = {}
  /\ traceIndex' = traceIndex \cup {c}
  /\ UNCHANGED <<operations, disk, snapshot, locks, writeErrors, runs, history>>

\* save_index truncates the file and asks for the thread of the first entry,
\* which locks the mutex that save_index holds: it waits for itself.
SaveIndex(c) ==
  /\ indexLock = {}
  /\ \/ /\ At(c, "indexed", "stuck")
        /\ indexLock' = {c} /\ indexFile' = {}
        /\ UNCHANGED writeErrors
     \/ WriteFails(c, "indexed") /\ UNCHANGED <<indexLock, indexFile>>
  /\ UNCHANGED <<memory, stateFile, traceFile, snapshot, stateLock, runs, history>>

(* get_trace, list_traces and get_stats hold the index; the last one then  *)
(* asks for the states.                                                    *)

ReadIndex(c) ==
  /\ At(c, "idle", "reading") /\ indexLock = {}
  /\ indexLock' = {c}
  /\ UNCHANGED <<memory, disk, snapshot, stateLock, writeErrors, runs, history>>

ReadReturns(c, statistics) ==
  /\ At(c, "reading", "answered")
  /\ statistics => stateLock = {}
  /\ indexLock' = Unlocked1(indexLock, c)
  /\ UNCHANGED <<memory, disk, snapshot, stateLock, writeErrors, runs, history>>

(* The handler is dropped, and its guards with it. *)

DropTrace(c) ==
  /\ trace[c] \notin {"idle", "answered", "stray", "stray trace"}
  /\ \/ trace[c] = "saving" /\ trace' = [trace EXCEPT ![c] = "stray"]
     \/ trace[c] = "saved" /\ trace' = [trace EXCEPT ![c] = "stray trace"]
     \/ trace[c] # "saving" /\ trace' = [trace EXCEPT ![c] = "answered"]
  /\ stateLock' = Unlocked1(stateLock, c) /\ indexLock' = Unlocked1(indexLock, c)
  /\ damaged' = (damaged \/ trace[c] = "saving")
  /\ UNCHANGED <<memory, disk, snapshot, writeErrors, runs, beside>>

\* The mutex was free meanwhile: other saves may have run beside this write.
StrayWrite(c) ==
  /\ \/ /\ At(c, "stray", "answered")
        /\ stateFile' \in Outcome(snapshot[c], FALSE)
        /\ UNCHANGED writeErrors
     \/ WriteFails(c, "stray") /\ stateFile' \in Remains(stateFile)
  /\ Written(c)
  /\ UNCHANGED <<memory, traceFile, indexFile, locks, runs, damaged>>

StrayTrace(c) ==
  /\ \/ /\ At(c, "stray trace", "answered")
        /\ \E content \in Outcome({c}, Namesakes(c) = {}) : FileOf(c, content)
        /\ UNCHANGED writeErrors
     \/ /\ WriteFails(c, "stray trace")
        /\ \E content \in Remains(traceFile[NameOf[c]]) : FileOf(c, content)
  /\ UNCHANGED <<memory, stateFile, indexFile, snapshot, locks, runs, history>>

\* The next run has a thread, and so files, of its own, and an index as its file
\* has it.
RestartServer ==
  /\ runs < MaxRuns /\ runs' = runs + 1
  /\ trace' = [c \in Traces |-> IF trace[c] = "idle" THEN "idle" ELSE "answered"]
  /\ operations' = {} /\ stateFile' = {}
  /\ traceFile' = [x \in Names |-> {}]
  /\ snapshot' = [c \in Traces |-> {}]
  /\ traceIndex' = indexFile
  /\ stateLock' = {} /\ indexLock' = {}
  /\ beside' = {} /\ damaged' = FALSE
  /\ UNCHANGED <<indexFile, writeErrors>>

TraceNext ==
  \/ \E c \in Traces :
       \/ RecordOperation(c) \/ SaveThreadState(c) \/ ThreadStateSaved(c)
       \/ WriteTrace(c) \/ IndexTrace(c) \/ SaveIndex(c)
       \/ ReadIndex(c) \/ \E statistics \in BOOLEAN : ReadReturns(c, statistics)
       \/ DropTrace(c) \/ StrayWrite(c) \/ StrayTrace(c)
  \/ RestartServer

TraceSpec == TraceInit /\ [][TraceNext]_traceVars

-----------------------------------------------------------------------------
(* Properties *)

TraceTypeOK ==
  /\ trace \in [Traces -> {"idle", "noted", "saving", "saved", "written", "indexed", "stuck",
                           "reading", "stray", "stray trace", "answered"}]
  /\ operations \subseteq Traces /\ stateFile \subseteq Traces
  /\ snapshot \in [Traces -> SUBSET Traces]
  /\ traceFile \in [Names -> SUBSET Traces]
  /\ traceIndex \subseteq Traces /\ indexFile \subseteq Traces
  /\ Cardinality(stateLock) <= 1 /\ Cardinality(indexLock) <= 1
  /\ writeErrors \in 0..MaxWriteErrors /\ runs \in 1..MaxRuns
  /\ beside \subseteq Traces /\ damaged \in BOOLEAN

\* Whenever no save is under way, the thread's file has the operation of every
\* record that has gone on after saving it, although each save empties the file
\* and writes it anew: except after a write that failed when it had emptied the
\* file, or that outlived its dropped handler, and then until the next save that
\* succeeds alone, which brings back what was lost.  And a trace in the index has
\* its file, unless a trace of the same name was recorded.  (record updates, saves,
\* writes and indexes under two locks that it takes four times.)
RecordIsKept ==
  /\ ~damaged /\ stateLock = {} => \A c \in Traces :
       trace[c] \in {"saved", "written", "indexed", "stuck"} => c \in stateFile
  /\ \A c \in traceIndex : Namesakes(c) = {} => traceFile[NameOf[c]] = {c}

=============================================================================
