------------------------------ MODULE MCStores ------------------------------
(* What the kernel keeps on disk, for TLC: the locks as in MCDirectoryLock,   *)
(* three appends, three updates of one meta.json, and four calls on the files *)
(* of one process.                                                            *)
EXTENDS MCDirectoryLock, Stores

CONSTANTS a1, a2, a3,       \* appends
          u1, u2, u3,       \* updates of meta.json
          p1, x1, x2        \* a process, its threads

MCAppends == {a1, a2, a3}

\* A handler that spawns, one that kills, and an executor.
MCUpdates == {u1, u2, u3}
MCMarks == {u1, u2}
MCStatusOf == u1 :> "Active" @@ u2 :> "Paused"

\* A process, two threads for it, and a handler that marks the first of them.
MCProcesses == {p1}
MCThreads == {x1, x2}
MCOwnerOf == [x \in MCThreads |-> p1]
MCStoreCalls == 1..4
MCJobOf ==
  <<[op |-> "create", file |-> p1], [op |-> "add", file |-> x1],
    [op |-> "add", file |-> x2], [op |-> "mark", file |-> x1]>>
MCHandlers == {3, 4}
=============================================================================
