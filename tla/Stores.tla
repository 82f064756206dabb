------------------------------- MODULE Stores -------------------------------
(***************************************************************************)
(* What the kernel keeps on disk: the tables of the directory locks, the   *)
(* event log and the meta.json of a thread, and the files of processes and *)
(* summaries.  They share no state: a behaviour of this specification is   *)
(* one of the part chosen at the start.                                    *)
(***************************************************************************)
EXTENDS DirectoryLock, EventLog, ThreadMeta, ProcessStore

VARIABLE part

lockVars == vars
storesVars == <<part, lockVars, logVars, metaVars, storeVars>>

StoresInit ==
  /\ part \in {"locks", "log", "meta", "processes"}
  /\ Init /\ LogInit /\ MetaInit /\ StoreInit

StoresNext ==
  /\ UNCHANGED part
  /\ \/ part = "locks" /\ Next /\ UNCHANGED <<logVars, metaVars, storeVars>>
     \/ part = "log" /\ LogNext /\ UNCHANGED <<lockVars, metaVars, storeVars>>
     \/ part = "meta" /\ MetaNext /\ UNCHANGED <<lockVars, logVars, storeVars>>
     \/ part = "processes" /\ StoreNext /\ UNCHANGED <<lockVars, logVars, metaVars>>

\* The fairness of DirectoryLock: none of its steps is enabled in another part,
\* where no call begins.
StoresSpec == StoresInit /\ [][StoresNext]_storesVars /\ Fairness

StoresTypeOK ==
  /\ part = "locks" => TypeOK
  /\ part = "log" => LogTypeOK
  /\ part = "meta" => MetaTypeOK
  /\ part = "processes" => StoreTypeOK
=============================================================================
