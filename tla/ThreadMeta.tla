----------------------------- MODULE ThreadMeta -----------------------------
(***************************************************************************)
(* The meta.json of one thread (kernel-v2/src/agent_thread/storage.rs) and *)
(* the calls that change it: spawn_executor and kill_executor of the       *)
(* AgentKernel server mark the thread under the lock of its table, the     *)
(* executors of the thread change its phase under no lock.  Each reads the *)
(* file, changes a field, writes the whole to meta.json.tmp, one name for  *)
(* all, and renames that to meta.json.                                     *)
(*                                                                         *)
(* tokio's fs::write opens and truncates, then writes, on the blocking     *)
(* pool: both steps are carried out even when the task that asked for them *)
(* is aborted; the rename is asked for after them.  A file that was opened *)
(* under one name is written under whatever name it has by then.           *)
(***************************************************************************)
EXTENDS Integers, FiniteSets

CONSTANTS
  Updates,        \* read-modify-write calls
  Marks,          \* those of the server's handlers
  StatusOf,       \* what each of these sets: "Active" when it spawns an executor,
                  \* "Paused" when it kills one
  Original,       \* the file that create leaves; the others are called after
                  \* the update that created them
  Phases,         \* ExecutionPhase
  MaxLength,      \* bound on the lengths of a text: timestamps and words vary
  MaxMetaFaults   \* bound on accesses that fail and restarts, together

ASSUME MetaAssumption ==
  /\ Marks \subseteq Updates
  /\ StatusOf \in [Marks -> {"Active", "Paused"}]
  /\ Original \notin Updates
  /\ "Explore" \in Phases
  /\ MaxLength \in Nat \ {0}
  /\ MaxMetaFaults \in Nat

VARIABLES
  update,    \* where each call is
  aborted,   \* the calls whose task was aborted or dropped
  marking,   \* the holder of the lock of the table of threads, or Original
  files,     \* every file: its text, the text's length and the file's size
  metaFile,  \* the file called meta.json
  tmpFile,   \* the file called meta.json.tmp, or Original without one
  draft,     \* what each update writes, and the file it has opened for that
  mixed,     \* history: pairs of updates that were under way at the same time
  clashes,   \* history: those of them that had the file .tmp open together
  expected,  \* history: the changes that were renamed, one after the other
  metaFaults

metaVars == <<update, aborted, marking, files, metaFile, tmpFile, draft, mixed, clashes,
              expected, metaFaults>>

FileNames == Updates \cup {Original}
NewMeta == [status |-> "Created", phase |-> "Explore"]
NoDraft == [text |-> NewMeta, file |-> Original]

\* serde_json accepts the text when the file holds it and nothing more.
Readable(file) == file.length > 0 /\ file.size = file.length

MetaInit ==
  /\ update = [u \in Updates |-> "none"]
  /\ aborted = {}
  /\ marking = Original
  /\ files = [f \in FileNames |-> [text |-> NewMeta, length |-> 1, size |-> 1]]
  /\ metaFile = Original
  /\ tmpFile = Original
  /\ draft = [u \in Updates |-> NoDraft]
  /\ mixed = {}
  /\ clashes = {}
  /\ expected = NewMeta
  /\ metaFaults = 0

InSection == {u \in Updates : update[u] \in {"reading", "opening", "writing", "renaming"}}
HasOpen == {u \in Updates : update[u] \in {"writing", "renaming"}}

\* The lock, when u is who holds it, is given back.
Unlock(u) == marking' = IF marking = u THEN Original ELSE marking

EndUpdate(u, how) ==
  /\ update' = [update EXCEPT ![u] = how]
  /\ draft' = [draft EXCEPT ![u] = NoDraft]
  /\ Unlock(u)

StartUpdate(u) ==
  /\ update[u] = "none"
  /\ update' = [update EXCEPT ![u] = "reading"]
  /\ mixed' = mixed \cup {{u, v} : v \in InSection}
  /\ UNCHANGED <<aborted, files, metaFile, tmpFile, draft, clashes, expected, metaFaults>>

\* Mutant: a handler that does not wait for the lock.
BeginUnlocked(u) == StartUpdate(u) /\ UNCHANGED marking

\* threads.write().await of a handler; an executor takes no lock.
BeginUpdate(u) ==
  /\ StartUpdate(u)
  /\ IF u \in Marks THEN marking = Original /\ marking' = u ELSE UNCHANGED marking

\* What a call makes of the thread's state.
Changed(u, text) ==
  IF u \in Marks THEN {[text EXCEPT !.status = StatusOf[u]]}
  ELSE {[text EXCEPT !.phase = p] : p \in Phases}

\* read_meta, which fails on a file that holds no text.
ReadMeta(u) ==
  /\ update[u] = "reading"
  /\ IF Readable(files[metaFile])
     THEN /\ \E text \in Changed(u, files[metaFile].text) :
               draft' = [draft EXCEPT ![u].text = text]
          /\ update' = [update EXCEPT ![u] = "opening"]
          /\ UNCHANGED marking
     ELSE EndUpdate(u, "failed")
  /\ UNCHANGED <<aborted, files, metaFile, tmpFile, mixed, clashes, expected, metaFaults>>

\* Mutant: what is written goes to meta.json itself, and there is no rename.
WriteInPlace(u) ==
  /\ update[u] = "opening"
  /\ update' = [update EXCEPT ![u] = "writing"]
  /\ draft' = [draft EXCEPT ![u].file = metaFile]
  /\ files' = [files EXCEPT ![metaFile] = [text |-> @.text, length |-> 0, size |-> 0]]
  /\ clashes' = clashes \cup {{u, v} : v \in HasOpen}
  /\ UNCHANGED <<aborted, marking, metaFile, tmpFile, mixed, expected, metaFaults>>

\* The file that .tmp names, or a new one, without its contents.
OpenTmp(u) ==
  LET file == IF tmpFile = Original THEN u ELSE tmpFile
  IN /\ update[u] = "opening"
     /\ update' = [update EXCEPT ![u] = "writing"]
     /\ tmpFile' = file
     /\ draft' = [draft EXCEPT ![u].file = file]
     /\ files' = [files EXCEPT ![file] = [text |-> @.text, length |-> 0, size |-> 0]]
     /\ clashes' = clashes \cup {{u, v} : v \in HasOpen}
     /\ UNCHANGED <<aborted, marking, metaFile, mixed, expected, metaFaults>>

\* The text from the file's start, over what is there: a longer one shows its
\* end.  A task that is still there asks for the rename.
WriteTmp(u) ==
  LET written == draft[u].file
  IN /\ update[u] = "writing"
     /\ \E n \in 1..MaxLength :
          files' = [files EXCEPT ![written] =
                      [text |-> draft[u].text, length |-> n,
                       size |-> IF @.size < n THEN n ELSE @.size]]
     /\ IF u \in aborted
        THEN EndUpdate(u, "left")
        ELSE update' = [update EXCEPT ![u] = "renaming"] /\ UNCHANGED <<marking, draft>>
     /\ UNCHANGED <<aborted, metaFile, tmpFile, mixed, clashes, expected, metaFaults>>

\* The one field that a call changes.
WithChange(u, meta) ==
  IF u \in Marks THEN [meta EXCEPT !.status = draft[u].text.status]
  ELSE [meta EXCEPT !.phase = draft[u].text.phase]

\* rename fails when another update has renamed the file in the meantime.
Rename(u) ==
  /\ update[u] = "renaming"
  /\ IF tmpFile = Original
     THEN /\ EndUpdate(u, "failed")
          /\ UNCHANGED <<metaFile, tmpFile, expected>>
     ELSE /\ EndUpdate(u, "done")
          /\ metaFile' = tmpFile
          /\ tmpFile' = Original
          /\ expected' = WithChange(u, expected)
  /\ UNCHANGED <<aborted, files, mixed, clashes, metaFaults>>

\* Opening fails; or writing does, with a part of the text in the file.
TmpFails(u) ==
  /\ metaFaults < MaxMetaFaults
  /\ metaFaults' = metaFaults + 1
  /\ EndUpdate(u, "failed")
  /\ \/ update[u] = "opening" /\ UNCHANGED files
     \/ /\ update[u] = "writing"
        /\ \E n \in 0..MaxLength :
             files' = [files EXCEPT ![draft[u].file] =
                         [text |-> @.text, length |-> 0, size |-> n]]
  /\ UNCHANGED <<aborted, metaFile, tmpFile, mixed, clashes, expected>>

\* kill_executor aborts an executor, the end of a connection drops a handler,
\* and with it its lock; what the blocking pool has been given goes on.
AbortUpdate(u) ==
  /\ u \in InSection \ aborted
  /\ aborted' = aborted \cup {u}
  /\ IF update[u] = "reading"
     THEN EndUpdate(u, "left")
     ELSE Unlock(u) /\ UNCHANGED <<update, draft>>
  /\ UNCHANGED <<files, metaFile, tmpFile, mixed, clashes, expected, metaFaults>>

\* The kernel stops and starts again: every task and every access is gone.
MetaCrash ==
  /\ metaFaults < MaxMetaFaults
  /\ metaFaults' = metaFaults + 1
  /\ update' = [u \in Updates |-> IF u \in InSection THEN "left" ELSE update[u]]
  /\ draft' = [u \in Updates |-> NoDraft]
  /\ marking' = Original
  /\ UNCHANGED <<aborted, files, metaFile, tmpFile, mixed, clashes, expected>>

MetaNext ==
  \/ \E u \in Updates :
       \/ BeginUpdate(u) \/ ReadMeta(u) \/ OpenTmp(u) \/ WriteTmp(u) \/ Rename(u)
       \/ TmpFails(u) \/ AbortUpdate(u)
  \/ MetaCrash

MetaSpec == MetaInit /\ [][MetaNext]_metaVars

-----------------------------------------------------------------------------
Texts == [status : {"Created", "Active", "Paused"}, phase : Phases]

MetaTypeOK ==
  /\ update \in [Updates -> {"none", "reading", "opening", "writing", "renaming",
                             "done", "failed", "left"}]
  /\ aborted \subseteq Updates
  /\ marking \in Marks \cup {Original}
  /\ files \in [FileNames -> [text : Texts, length : 0..MaxLength, size : 0..MaxLength]]
  /\ metaFile \in FileNames
  /\ tmpFile \in FileNames
  /\ draft \in [Updates -> [text : Texts, file : FileNames]]
  /\ mixed \subseteq SUBSET Updates
  /\ clashes \subseteq SUBSET Updates
  /\ expected \in Texts
  /\ metaFaults \in 0..MaxMetaFaults

\* The temporary file protects meta.json: whatever fails, is killed or crashes,
\* it can be read, as long as no two updates have had the one temporary file
\* open at the same time.
MetaIsReadable == clashes = {} => Readable(files[metaFile])

\* As long as no two updates overlap, none is lost: the thread's state is that
\* of the renamed changes one after the other.  And the two kinds that take the
\* lock do not overlap unless a caller of one was gone.
UpdatesAreKept ==
  /\ mixed = {} => files[metaFile].text = expected
  /\ \A u, v \in Marks : {u, v} \in mixed => u \in aborted \/ v \in aborted

\* meta.json survives what happens to its writers: it stays readable, and keeps
\* the changes that did not meet another one.
MetaSurvives == MetaIsReadable /\ UpdatesAreKept
=============================================================================
