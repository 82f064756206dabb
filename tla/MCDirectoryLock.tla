--------------------------- MODULE MCDirectoryLock ---------------------------
(* Three calls over two directories: one names them in order, one in reverse, *)
(* one names only the first; the first and the last run under one executor id.*)
EXTENDS DirectoryLock

CONSTANTS c1, c2, c3, e1, e2

MCCalls == {c1, c2, c3}
MCExecutors == {e1, e2}
MCExecutorOf == c1 :> e1 @@ c2 :> e2 @@ c3 :> e1
MCDirectoryCount == 2
MCParameters == c1 :> <<1, 2>> @@ c2 :> <<2, 1>> @@ c3 :> <<1>>
=============================================================================
