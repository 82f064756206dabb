------------------------------ MODULE EventLog ------------------------------
(***************************************************************************)
(* The event log of one thread (kernel-v2/src/agent_thread/storage.rs):    *)
(* append_event writes the text of an event and its newline with two calls *)
(* to a file opened for appending; read_event_log takes the file line by   *)
(* line and skips the lines that are not one event.                        *)
(*                                                                         *)
(* The writes run on the runtime's blocking pool: one that was handed over *)
(* is carried out even when the task that asked for it is aborted, only a  *)
(* crash of the kernel stops it.  Two executors may work on one thread: a  *)
(* paused one works on and no longer hinders the next (ExecutorRegistry).  *)
(* The file is abstracted to the line each text is on: what a line is      *)
(* worth does not depend on the order of the texts it holds.               *)
(***************************************************************************)
EXTENDS Integers, FiniteSets

CONSTANTS
  Appends,        \* calls of append_event, each with its event
  MaxLogFaults,   \* bound on writes that fail
  MaxLogCrashes   \* bound on restarts of the kernel

ASSUME LogAssumption ==
  /\ MaxLogFaults \in Nat
  /\ MaxLogCrashes \in Nat

VARIABLES
  append,    \* where each call is
  dropped,   \* the calls whose task was aborted
  line,      \* the line each event's text is on, 0 without one
  lastLine,  \* the line the file ends with: one more than its newlines
  cut,       \* the events of which only a part was written
  overlaps,  \* history: pairs of calls that were under way at the same time
  logFaults, logCrashes

logVars == <<append, dropped, line, lastLine, cut, overlaps, logFaults, logCrashes>>

\* ThreadStorage::create leaves an empty file.
LogInit ==
  /\ append = [a \in Appends |-> "none"]
  /\ dropped = {}
  /\ line = [a \in Appends |-> 0]
  /\ lastLine = 1
  /\ cut = {}
  /\ overlaps = {}
  /\ logFaults = 0
  /\ logCrashes = 0

\* The calls with a write that may still reach the file.
UnderWay == {a \in Appends : append[a] \in {"text", "newline"}}

\* The file is opened, or it cannot be, and the write of the text handed over.
OpenLog(a) ==
  /\ append[a] = "none"
  /\ \/ /\ append' = [append EXCEPT ![a] = "text"]
        /\ overlaps' = overlaps \cup {{a, b} : b \in UnderWay}
        /\ UNCHANGED logFaults
     \/ /\ logFaults < MaxLogFaults
        /\ logFaults' = logFaults + 1
        /\ append' = [append EXCEPT ![a] = "failed"]
        /\ UNCHANGED overlaps
  /\ UNCHANGED <<dropped, line, lastLine, cut, logCrashes>>

\* The text is appended; a task that is still there hands over the newline.
WriteText(a) ==
  /\ append[a] = "text"
  /\ line' = [line EXCEPT ![a] = lastLine]
  /\ append' = [append EXCEPT ![a] = IF a \in dropped THEN "torn" ELSE "newline"]
  /\ UNCHANGED <<dropped, lastLine, cut, overlaps, logFaults, logCrashes>>

\* Mutant: lines joined by newlines, as append_events does, without the last one.
JoinLines(a) ==
  /\ append[a] = "newline"
  /\ append' = [append EXCEPT ![a] = IF a \in dropped THEN "unconfirmed" ELSE "sync"]
  /\ UNCHANGED <<dropped, line, lastLine, cut, overlaps, logFaults, logCrashes>>

WriteNewline(a) ==
  /\ append[a] = "newline"
  /\ lastLine' = lastLine + 1
  /\ append' = [append EXCEPT ![a] = IF a \in dropped THEN "unconfirmed" ELSE "sync"]
  /\ UNCHANGED <<dropped, line, cut, overlaps, logFaults, logCrashes>>

\* A failing write of the text leaves nothing of it or a part; a failing write
\* of the newline leaves the text without an end.  sync_all may fail as well.
WriteFails(a) ==
  /\ logFaults < MaxLogFaults
  /\ logFaults' = logFaults + 1
  /\ \/ /\ append[a] = "text"
        /\ append' = [append EXCEPT ![a] = "failed"]
        /\ UNCHANGED <<line, cut>>
     \/ /\ append[a] = "text"
        /\ append' = [append EXCEPT ![a] = "torn"]
        /\ line' = [line EXCEPT ![a] = lastLine]
        /\ cut' = cut \cup {a}
     \/ /\ append[a] = "newline"
        /\ append' = [append EXCEPT ![a] = "torn"]
        /\ UNCHANGED <<line, cut>>
     \/ /\ append[a] = "sync"
        /\ append' = [append EXCEPT ![a] = "unconfirmed"]
        /\ UNCHANGED <<line, cut>>
  /\ UNCHANGED <<dropped, lastLine, overlaps, logCrashes>>

\* append_event returns Ok: the event is on record.
AppendReturns(a) ==
  /\ append[a] = "sync"
  /\ append' = [append EXCEPT ![a] = "recorded"]
  /\ UNCHANGED <<dropped, line, lastLine, cut, overlaps, logFaults, logCrashes>>

\* kill_executor aborts the task: it goes no further than the write under way.
AbortAppend(a) ==
  /\ append[a] \in {"text", "newline", "sync"} /\ a \notin dropped
  /\ dropped' = dropped \cup {a}
  /\ append' = [append EXCEPT ![a] = IF @ = "sync" THEN "unconfirmed" ELSE @]
  /\ UNCHANGED <<line, lastLine, cut, overlaps, logFaults, logCrashes>>

\* The kernel stops and starts again: every task and every write is gone.
LogCrash ==
  /\ logCrashes < MaxLogCrashes
  /\ logCrashes' = logCrashes + 1
  /\ append' = [a \in Appends |->
                  CASE append[a] = "text" -> "failed"
                    [] append[a] = "newline" -> "torn"
                    [] append[a] = "sync" -> "unconfirmed"
                    [] OTHER -> append[a]]
  /\ UNCHANGED <<dropped, line, lastLine, cut, overlaps, logFaults>>

LogNext ==
  \/ \E a \in Appends :
       \/ OpenLog(a) \/ WriteText(a) \/ WriteNewline(a) \/ WriteFails(a)
       \/ AppendReturns(a) \/ AbortAppend(a)
  \/ LogCrash

LogSpec == LogInit /\ [][LogNext]_logVars

-----------------------------------------------------------------------------
LogTypeOK ==
  /\ append \in [Appends -> {"none", "text", "newline", "sync", "recorded",
                             "unconfirmed", "torn", "failed"}]
  /\ dropped \subseteq Appends
  /\ line \in [Appends -> Nat]
  /\ lastLine \in Nat \ {0}
  /\ cut \subseteq Appends
  /\ overlaps \subseteq SUBSET Appends
  /\ logFaults \in 0..MaxLogFaults
  /\ logCrashes \in 0..MaxLogCrashes

SameLine(a, b) == a # b /\ line[a] = line[b] /\ line[a] # 0

\* read_event_log: the lines that hold one event and nothing else.
EventsRead ==
  {a \in Appends : line[a] # 0 /\ a \notin cut /\ \A b \in Appends : ~SameLine(a, b)}

\* An event whose append_event has returned is read back, whatever is killed,
\* fails or crashes: unless it shares its line with an event that was broken
\* off, or with one appended at the same time by another executor.
EventIsRead ==
  \A a \in Appends : append[a] = "recorded" =>
    \/ a \in EventsRead
    \/ \E b \in Appends :
         SameLine(a, b) /\ (append[b] = "torn" \/ {a, b} \in overlaps)
=============================================================================
