---------------------------- MODULE ProcessStore ----------------------------
(***************************************************************************)
(* The processes and their threads as the session host keeps them          *)
(* (kernel-v2/src/session/process.rs, skills.rs): in memory, behind one    *)
(* lock, and in a file for each process and for each thread's summary.     *)
(*                                                                         *)
(* A file is written in place: fs::write truncates it and then writes, on  *)
(* the runtime's blocking pool, where both are carried out even when the   *)
(* handler that asked for them, and with it the lock, is gone.  A kernel   *)
(* that starts loads what it can read and leaves out the rest.             *)
(***************************************************************************)
EXTENDS Integers, FiniteSets

CONSTANTS
  Processes, Threads,
  OwnerOf,         \* the process of each thread
  StoreCalls,
  JobOf,           \* what a call does, and for which process or thread
  Handlers,        \* the calls that end when their client goes away
  Nobody,
  MaxStoreFaults,  \* bound on writes that fail
  MaxStoreCrashes  \* bound on restarts of the kernel

Files == Processes \cup Threads

\* Identifiers are fresh: one call creates a process, one adds a thread.
ASSUME StoreAssumption ==
  /\ Processes \cap Threads = {}
  /\ OwnerOf \in [Threads -> Processes]
  /\ JobOf \in [StoreCalls -> [op : {"create", "add", "mark"}, file : Files]]
  /\ \A c \in StoreCalls : JobOf[c].op = "create" <=> JobOf[c].file \in Processes
  /\ \A c, d \in StoreCalls :
       c # d /\ JobOf[c].op # "mark" /\ JobOf[d].op # "mark" => JobOf[c].file # JobOf[d].file
  /\ Handlers \subseteq StoreCalls
  /\ Nobody \notin StoreCalls
  /\ IsFiniteSet(Threads)
  /\ MaxStoreFaults \in Nat
  /\ MaxStoreCrashes \in Nat

VARIABLES
  calling,   \* where each call is: its first or second write, or how it ended
  deserted,  \* the calls whose handler was dropped
  managing,  \* the holder of the write lock of the ProcessManager, or Nobody
  known,     \* the processes and threads in memory
  memory,    \* their status and, of a process, its number of threads
  disk,      \* each file: what it holds, and its text when that is whole
  write,     \* the last write of each call, and whether it has opened its file
  storeFaults, storeCrashes

storeVars == <<calling, deserted, managing, known, memory, disk, write, storeFaults,
               storeCrashes>>

Fresh == [status |-> "Created", count |-> 0]

StoreInit ==
  /\ calling = [c \in StoreCalls |-> "none"]
  /\ deserted = {}
  /\ managing = Nobody
  /\ known = {}
  /\ memory = [f \in Files |-> Fresh]
  /\ disk = [f \in Files |-> [holds |-> "nothing", text |-> Fresh]]
  /\ write = [c \in StoreCalls |-> [file |-> JobOf[c].file, text |-> Fresh, opened |-> FALSE]]
  /\ storeFaults = 0
  /\ storeCrashes = 0

ProcessOf(c) == IF JobOf[c].op = "create" THEN JobOf[c].file ELSE OwnerOf[JobOf[c].file]
ThreadsIn(p, names) == {t \in Threads \cap names : OwnerOf[t] = p}

\* update_process_status
StatusFrom(statuses) ==
  IF "Error" \in statuses THEN "Error"
  ELSE IF statuses = {"Completed"} THEN "Completed"
  ELSE IF "Active" \in statuses THEN "Active"
  ELSE "Paused"

StatusNow(p, content) ==
  StatusFrom({content[t].status : t \in ThreadsIn(p, known)})

HandOver(c, file, text) ==
  write' = [write EXCEPT ![c] = [file |-> file, text |-> text, opened |-> FALSE]]

\* The lock, when c is who holds it, is given back.
LeaveManager(c) == managing' = IF managing = c THEN Nobody ELSE managing

EnterManager(c) ==
  /\ calling[c] = "none"
  /\ managing = Nobody
  /\ managing' = c
  /\ calling' = [calling EXCEPT ![c] = "first"]
  /\ UNCHANGED <<deserted, known, disk, storeFaults, storeCrashes>>

\* Process::create
CreateProcess(c) ==
  /\ JobOf[c].op = "create"
  /\ EnterManager(c)
  /\ HandOver(c, JobOf[c].file, Fresh)
  /\ UNCHANGED memory

\* create_thread_in_process, when the thread's own files are there; add_thread.
AddThread(c) ==
  /\ JobOf[c].op = "add" /\ ProcessOf(c) \in known
  /\ EnterManager(c)
  /\ HandOver(c, JobOf[c].file, Fresh)
  /\ UNCHANGED memory

\* update_thread_status with what it reads in the thread's meta.json.
MarkThread(c) ==
  /\ JobOf[c].op = "mark" /\ {ProcessOf(c), JobOf[c].file} \subseteq known
  /\ EnterManager(c)
  /\ \E status \in {"Created", "Active", "Paused"} :
       /\ memory' = [memory EXCEPT ![JobOf[c].file].status = status]
       /\ HandOver(c, JobOf[c].file, [status |-> status, count |-> 0])

\* fs::write: the file is opened and truncated.
OpenFile(c) ==
  /\ calling[c] \in {"first", "second"} /\ ~write[c].opened
  /\ write' = [write EXCEPT ![c].opened = TRUE]
  /\ disk' = [disk EXCEPT ![write[c].file].holds = "truncated"]
  /\ UNCHANGED <<calling, deserted, managing, known, memory, storeFaults, storeCrashes>>

\* The text is written from the start, over one that another has written since.
FileWritten(c) ==
  /\ write[c].opened
  /\ \E holds \in {"text", "rubble"} :
       /\ disk[write[c].file].holds = "truncated" => holds = "text"
       /\ disk' = [disk EXCEPT ![write[c].file] = [holds |-> holds, text |-> write[c].text]]
  /\ UNCHANGED <<deserted, storeFaults, storeCrashes>>

\* Mutant: add_thread counts them before it enters the new one.
CountBefore(c, names, content) ==
  LET p == ProcessOf(c)
  IN IF JobOf[c].op = "add"
     THEN [content[p] EXCEPT !.count = Cardinality(ThreadsIn(p, known))]
     ELSE [content[p] EXCEPT !.status = StatusNow(p, content)]

\* add_thread counts the summaries, update_process_status looks at them all.
SaveProcess(c, names, content) ==
  LET p == ProcessOf(c)
  IN IF JobOf[c].op = "add"
     THEN [content[p] EXCEPT !.count = Cardinality(ThreadsIn(p, names))]
     ELSE [content[p] EXCEPT !.status = StatusNow(p, content)]

\* The first write of a call: the process or thread is entered, and of a thread
\* the process is saved with what it changes.
FirstWritten(c) ==
  LET names == known \cup {JobOf[c].file}
      content == [memory EXCEPT ![JobOf[c].file] = write[c].text]
      process == SaveProcess(c, names, content)
  IN /\ calling[c] = "first" /\ c \notin deserted
     /\ FileWritten(c)
     /\ known' = names
     /\ IF JobOf[c].op = "create"
        THEN /\ memory' = content
             /\ calling' = [calling EXCEPT ![c] = "done"]
             /\ LeaveManager(c)
             /\ UNCHANGED write
        ELSE /\ memory' = [content EXCEPT ![ProcessOf(c)] = process]
             /\ calling' = [calling EXCEPT ![c] = "second"]
             /\ HandOver(c, ProcessOf(c), process)
             /\ UNCHANGED managing

\* The process is saved, and the caller told.
SecondWritten(c) ==
  /\ calling[c] = "second" /\ c \notin deserted
  /\ FileWritten(c)
  /\ calling' = [calling EXCEPT ![c] = "done"]
  /\ LeaveManager(c)
  /\ UNCHANGED <<known, memory, write>>

\* A write that nobody waits for.
LateWritten(c) ==
  /\ calling[c] \in {"first", "second"} /\ c \in deserted
  /\ FileWritten(c)
  /\ calling' = [calling EXCEPT ![c] = "gone"]
  /\ UNCHANGED <<managing, known, memory, write>>

\* The file cannot be opened, or holds a part of the text.
StoreFails(c) ==
  /\ storeFaults < MaxStoreFaults
  /\ storeFaults' = storeFaults + 1
  /\ calling[c] \in {"first", "second"}
  /\ calling' = [calling EXCEPT ![c] = IF c \in deserted THEN "gone" ELSE "failed"]
  /\ LeaveManager(c)
  /\ IF write[c].opened
     THEN disk' = [disk EXCEPT ![write[c].file].holds = "rubble"]
     ELSE UNCHANGED disk
  /\ UNCHANGED <<deserted, known, memory, write, storeCrashes>>

\* A handler is dropped, and its lock; its write goes on.
Desert(c) ==
  /\ c \in Handlers \ deserted /\ calling[c] \in {"first", "second"}
  /\ deserted' = deserted \cup {c}
  /\ LeaveManager(c)
  /\ UNCHANGED <<calling, known, memory, disk, write, storeFaults, storeCrashes>>

\* ProcessManager::new and Process::load: a process that can be read, with
\* those of its threads that can be.
Legible(f) == disk[f].holds = "text"

\* Mutant: one summary that cannot be read fails the load of its process.
LoadedWhole ==
  {f \in Files :
     /\ Legible(f)
     /\ \A t \in Threads :
          f \in {t, OwnerOf[t]} =>
            Legible(OwnerOf[t]) /\ disk[t].holds \in {"nothing", "text"}}

Loaded == {f \in Files : Legible(f) /\ (f \in Threads => Legible(OwnerOf[f]))}

\* The kernel stops and starts again.
StoreCrash ==
  /\ storeCrashes < MaxStoreCrashes
  /\ storeCrashes' = storeCrashes + 1
  /\ calling' = [c \in StoreCalls |->
                   IF calling[c] \in {"first", "second"} THEN "gone" ELSE calling[c]]
  /\ managing' = Nobody
  /\ known' = Loaded
  /\ memory' = [f \in Files |-> IF f \in Loaded THEN disk[f].text ELSE Fresh]
  /\ UNCHANGED <<deserted, disk, write, storeFaults>>

StoreNext ==
  \/ \E c \in StoreCalls :
       \/ CreateProcess(c) \/ AddThread(c) \/ MarkThread(c)
       \/ OpenFile(c) \/ FirstWritten(c) \/ SecondWritten(c) \/ LateWritten(c)
       \/ StoreFails(c) \/ Desert(c)
  \/ StoreCrash

StoreSpec == StoreInit /\ [][StoreNext]_storeVars

-----------------------------------------------------------------------------
Contents == [status : {"Created", "Active", "Paused", "Completed", "Error"}, count : Nat]

StoreTypeOK ==
  /\ calling \in [StoreCalls -> {"none", "first", "second", "done", "failed", "gone"}]
  /\ deserted \subseteq StoreCalls
  /\ managing \in StoreCalls \cup {Nobody}
  /\ known \subseteq Files
  /\ memory \in [Files -> Contents]
  /\ disk \in [Files -> [holds : {"nothing", "truncated", "rubble", "text"}, text : Contents]]
  /\ write \in [StoreCalls -> [file : Files, text : Contents, opened : BOOLEAN]]
  /\ storeFaults \in 0..MaxStoreFaults
  /\ storeCrashes \in 0..MaxStoreCrashes

Interrupted(c) == calling[c] \in {"failed", "gone"} \/ c \in deserted

\* What the skills list is what is on disk, counts and status included: of
\* every process of which no call is at work or was interrupted.
IndexIsTrue ==
  \A p \in Processes \cap known :
    (\A c \in StoreCalls :
       ProcessOf(c) = p => calling[c] \in {"none", "done"} /\ c \notin deserted) =>
      /\ \A f \in {p} \cup ThreadsIn(p, known) :
           disk[f] = [holds |-> "text", text |-> memory[f]]
      /\ memory[p].count = Cardinality(ThreadsIn(p, known))
      /\ memory[p].status =
           IF \E c \in StoreCalls :
                ProcessOf(c) = p /\ JobOf[c].op = "mark" /\ calling[c] = "done"
           THEN StatusNow(p, memory) ELSE "Created"

\* The files of which a write was broken off, or disturbed by one that was
\* left to itself.
Disturbed == {write[c].file : c \in {d \in StoreCalls : Interrupted(d) /\ write[d].opened}}

\* A process or thread that a caller was told of is listed, whatever fails or
\* restarts: unless it was its own file, or its process's, that was disturbed.
NothingIsLost ==
  \A c \in StoreCalls :
    calling[c] = "done" =>
      \/ {JobOf[c].file, ProcessOf(c)} \subseteq known
      \/ JobOf[c].file \in Disturbed \/ ProcessOf(c) \in Disturbed
=============================================================================
