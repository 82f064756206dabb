-------------------------- MODULE KernelStoreProofs --------------------------
(***************************************************************************)
(* Theorems about what the kernel keeps on disk, for every value of the    *)
(* constants: DirectoryLock, EventLog, ThreadMeta, ProcessStore, and Stores, *)
(* which composes them.                                                    *)
(***************************************************************************)
EXTENDS Stores, DataLemmas

-----------------------------------------------------------------------------
(* Least and greatest elements: what the CHOOSE of NextDirectory and of      *)
(* LastPosition return.                                                      *)

LEMMA NextDirectoryIsLeast ==
  ASSUME NEW c \in Calls, NEW got, Missing(c, got) # {}
  PROVE  /\ NextDirectory(c, got) \in Missing(c, got)
         /\ NextDirectory(c, got) \in Directories
         /\ \A e \in Missing(c, got) : NextDirectory(c, got) <= e
<1>1. Missing(c, got) \in SUBSET Directories
  BY ConstantsAssumption, ToSetAppend DEF Missing, Directories
<1>2. Missing(c, got) \in SUBSET Nat
  BY <1>1, ConstantsAssumption DEF Directories
<1>3. \E d \in Missing(c, got) : \A e \in Missing(c, got) : d <= e
  BY <1>2, LeastNatural
<1>. QED
  BY <1>1, <1>3 DEF NextDirectory

RowSet == [executor : Executors, position : Nat \ {0},
           status : {"waiting", "acquired", "timeout"}]

Rows == Seq(RowSet)

OneRowEach(rows) ==
  \A i, j \in DOMAIN rows : rows[i].executor = rows[j].executor => i = j

LEMMA LastPositionIsGreatest ==
  ASSUME NEW d \in Directories, lockQueue \in [Directories -> Rows]
  PROVE  /\ LastPosition(d) \in Nat
         /\ \A i \in WaitingRows(d) : lockQueue[d][i].position <= LastPosition(d)
<1>. DEFINE I == WaitingRows(d)
            P == {0} \cup {lockQueue[d][i].position : i \in WaitingRows(d)}
            f == [i \in I |-> lockQueue[d][i].position]
<1>1. I \in SUBSET (1..Len(lockQueue[d])) /\ Len(lockQueue[d]) \in Nat
  BY DEF WaitingRows, Rows
<1>2. IsFiniteSet(I)
  <2>1. IsFiniteSet(1..Len(lockQueue[d]))
    BY <1>1, FS_Interval
  <2>. QED
    BY <1>1, <2>1, FS_Subset, Zenon
<1>3. ASSUME NEW i \in I PROVE lockQueue[d][i].position \in Nat
  <2>1. lockQueue[d] \in Rows /\ i \in 1..Len(lockQueue[d])
    BY <1>1
  <2>2. lockQueue[d][i] \in RowSet
    BY <2>1, ElementOfSeq DEF Rows
  <2>. QED
    BY <2>2 DEF RowSet
<1>4. f \in Surjection(I, {lockQueue[d][i].position : i \in I})
  BY DEF Surjection
<1>5. IsFiniteSet({lockQueue[d][i].position : i \in I})
  BY <1>2, <1>4, FS_Surjection
<1>6. IsFiniteSet(P) /\ P \in SUBSET Nat /\ P # {}
  BY <1>3, <1>5, FS_AddElement
<1>7. \E p \in P : \A q \in P : q <= p
  BY <1>6, GreatestNatural
<1>8. \E p \in P : \A i \in I : lockQueue[d][i].position <= p
  BY <1>7
<1>. QED
  BY <1>6, <1>8 DEF LastPosition

LEMMA UpsertRowType ==
  ASSUME NEW rows \in Rows, OneRowEach(rows), NEW e \in Executors, NEW p \in Nat \ {0}
  PROVE  UpsertRow(rows, e, p) \in Rows /\ OneRowEach(UpsertRow(rows, e, p))
<1>1. Row(e, p) \in RowSet /\ Row(e, p).executor = e
  BY DEF Row, RowSet
<1>2. DOMAIN rows = 1..Len(rows) /\ Len(rows) \in Nat /\ \A i \in 1..Len(rows) : rows[i] \in RowSet
  BY ElementOfSeq, LenProperties DEF Rows
<1>3. CASE \E i \in DOMAIN rows : rows[i].executor = e
  <2>. DEFINE new == [i \in DOMAIN rows |-> IF rows[i].executor = e THEN Row(e, p) ELSE rows[i]]
  <2>1. new \in [1..Len(rows) -> RowSet]
    BY <1>1, <1>2
  <2>2. new \in Rows
    BY <1>2, <2>1 DEF Rows
  <2>3. \A i \in DOMAIN rows : new[i].executor = rows[i].executor
    BY <1>1
  <2>4. OneRowEach(new)
    BY <2>3 DEF OneRowEach
  <2>. QED
    BY <1>3, <2>2, <2>4 DEF UpsertRow
<1>4. CASE ~ \E i \in DOMAIN rows : rows[i].executor = e
  <2>. DEFINE new == Append(rows, Row(e, p))
  <2>1. /\ new \in Rows /\ Len(new) = Len(rows) + 1
        /\ \A i \in 1..Len(rows) : new[i] = rows[i]
        /\ new[Len(rows) + 1] = Row(e, p)
    BY <1>1, AppendProperties DEF Rows
  <2>2. DOMAIN new = 1..(Len(rows) + 1)
    BY <2>1, <1>2, LenProperties DEF Rows
  <2>. HIDE DEF new
  <2>3. OneRowEach(new)
    BY <1>1, <1>2, <1>4, <2>1, <2>2 DEF OneRowEach
  <2>. QED
    BY <1>4, <2>1, <2>3 DEF UpsertRow, new
<1>. QED
  BY <1>3, <1>4

LEMMA SetStatusType ==
  ASSUME NEW rows \in Rows, OneRowEach(rows), NEW e \in Executors,
         NEW st \in {"acquired", "timeout"}
  PROVE  SetStatus(rows, e, st) \in Rows /\ OneRowEach(SetStatus(rows, e, st))
<1>. DEFINE new == SetStatus(rows, e, st)
<1>1. DOMAIN rows = 1..Len(rows) /\ Len(rows) \in Nat /\ \A i \in 1..Len(rows) : rows[i] \in RowSet
  BY ElementOfSeq, LenProperties DEF Rows
<1>2. \A i \in 1..Len(rows) : [rows[i] EXCEPT !.status = st] \in RowSet
  BY <1>1 DEF RowSet
<1>3. new \in [1..Len(rows) -> RowSet]
  BY <1>1, <1>2 DEF SetStatus
<1>4. new \in Rows
  BY <1>1, <1>3 DEF Rows
<1>5. \A i \in DOMAIN rows : new[i].executor = rows[i].executor
  BY <1>1 DEF SetStatus, RowSet
<1>6. DOMAIN new = DOMAIN rows
  BY DEF SetStatus
<1>. QED
  BY <1>4, <1>5, <1>6 DEF OneRowEach

-----------------------------------------------------------------------------
(* Type correctness and the order in which locks are taken.  TypeOK needs    *)
(* InOrder: what LeaveQueue appends is a directory only if one is missing.   *)

Acquiring == {"checking", "free", "taken", "inserting", "leaving", "joining",
              "enqueueing", "waiting"}

\* A call that has not begun holds nothing.
NewEmpty == \A c \in Calls : pc[c] = "new" => locks[c] = <<>>

\* A call that releases has something left to release.
HoldsToRelease == \A c \in Calls : pc[c] = "releasing" => locks[c] # <<>>

\* A call that is acquiring misses a directory, and has taken none above it.
InOrder ==
  \A c \in Calls : pc[c] \in Acquiring =>
    /\ Missing(c, locks[c]) # {}
    /\ \A d \in ToSet(locks[c]), e \in Missing(c, locks[c]) : d < e

\* TypeOK in terms of the definitions above.
WellTyped ==
  /\ pc \in [Calls -> Pcs]
  /\ locks \in [Calls -> Seq(Directories)]
  /\ queued \in [Calls -> BOOLEAN]
  /\ maxPosition \in [Calls -> Nat]
  /\ activeLocks \in [Directories -> Executors \cup {NoExecutor}]
  /\ expired \subseteq {d \in Directories : activeLocks[d] # NoExecutor}
  /\ lockQueue \in [Directories -> Rows]
  /\ \A d \in Directories : OneRowEach(lockQueue[d])
  /\ sweep \subseteq Directories \X Executors
  /\ faults \in 0..MaxFaults
  /\ ahead \in [Calls -> SUBSET Calls]
  /\ shared \subseteq Executors
  /\ misled \subseteq Calls

OrderInv == WellTyped /\ NewEmpty /\ HoldsToRelease /\ InOrder

LEMMA TargetMissing ==
  ASSUME InOrder, NEW c \in Calls, pc[c] \in Acquiring
  PROVE  /\ Target(c) \in Missing(c, locks[c])
         /\ Target(c) \in Directories
         /\ \A e \in Missing(c, locks[c]) : Target(c) <= e
BY NextDirectoryIsLeast DEF InOrder, Target

\* What has no effect on the queues and only moves calls that keep their locks.
LEMMA OrderKept ==
  ASSUME NewEmpty, HoldsToRelease, InOrder, locks' = locks,
         \A c \in Calls : pc'[c] \in Acquiring => pc[c] \in Acquiring,
         \A c \in Calls : pc'[c] = "new" => pc[c] = "new",
         \A c \in Calls : pc'[c] = "releasing" => locks[c] # <<>>
  PROVE  NewEmpty' /\ HoldsToRelease' /\ InOrder'
BY DEF NewEmpty, HoldsToRelease, InOrder, Missing

LEMMA OrderInit == Init => OrderInv
<1>. SUFFICES ASSUME Init PROVE OrderInv
  OBVIOUS
<1>1. \A d \in Directories : <<>> \in Rows /\ OneRowEach(<<>>)
  BY EmptySeq DEF Rows, OneRowEach
<1>2. WellTyped
  BY <1>1, ConstantsAssumption DEF Init, Pcs, WellTyped
<1>3. NewEmpty /\ HoldsToRelease /\ InOrder
  BY DEF Init, NewEmpty, HoldsToRelease, InOrder, Acquiring
<1>. QED
  BY <1>2, <1>3 DEF OrderInv

LEMMA OrderStep == OrderInv /\ [Next]_vars => OrderInv'
<1>. SUFFICES ASSUME OrderInv, [Next]_vars PROVE OrderInv'
  OBVIOUS
<1>. USE DEF OrderInv, history
<1>0. faults < MaxFaults => faults + 1 \in 0..MaxFaults
  BY ConstantsAssumption DEF WellTyped
<1>1. ASSUME NEW c \in Calls, Begin(c) PROVE OrderInv'
  <2>1. locks[c] = <<>> /\ ToSet(<<>>) = {}
    BY <1>1 DEF Begin, NewEmpty, ToSet
  <2>2. QueuedBefore(c, <<>>) \subseteq Calls
    BY DEF QueuedBefore, QueuedFor
  <2>3. WellTyped'
    BY <1>1, <2>2, ConstantsAssumption DEF Begin, Pcs, Proceed, WellTyped
  <2>4. NewEmpty' /\ HoldsToRelease'
    BY <1>1 DEF Begin, Pcs, Proceed, NewEmpty, HoldsToRelease, WellTyped
  <2>5. InOrder'
    BY <1>1, <2>1 DEF Begin, Pcs, Proceed, InOrder, Missing, Acquiring, WellTyped
  <2>. QED
    BY <2>3, <2>4, <2>5
<1>2. ASSUME NEW c \in Calls, ReadLocks(c) PROVE OrderInv'
  <2>1. WellTyped'
    BY <1>2 DEF ReadLocks, Pcs, WellTyped
  <2>. QED
    BY <1>2, <2>1, OrderKept DEF HoldsToRelease, ReadLocks, Acquiring, WellTyped
<1>3. ASSUME NEW c \in Calls, ReadQueue(c) PROVE OrderInv'
  <2>1. WellTyped'
    BY <1>3 DEF ReadQueue, Pcs, Refused, WellTyped
  <2>. QED
    BY <1>3, <2>1, OrderKept DEF HoldsToRelease, ReadQueue, Acquiring, Refused, WellTyped
<1>4. ASSUME NEW c \in Calls, InsertLock(c) PROVE OrderInv'
  <2>1. ExecutorOf[c] \in Executors /\ ExecutorOf[c] # NoExecutor
    BY ConstantsAssumption
  <2>2. WellTyped'
    BY <1>4, <2>1 DEF InsertLock, Pcs, WellTyped
  <2>. QED
    BY <1>4, <2>2, OrderKept DEF HoldsToRelease, InsertLock, Acquiring, WellTyped
<1>5. ASSUME NEW c \in Calls, LeaveQueue(c) PROVE OrderInv'
  <2>. DEFINE d == Target(c)
              got == Append(locks[c], d)
  <2>1. /\ d \in Missing(c, locks[c]) /\ d \in Directories
        /\ \A e \in Missing(c, locks[c]) : d <= e
    BY <1>5, TargetMissing DEF LeaveQueue, Acquiring
  <2>2. locks[c] \in Seq(Directories) /\ got \in Seq(Directories)
    BY <2>1, AppendProperties DEF WellTyped
  <2>3. ToSet(got) = ToSet(locks[c]) \cup {d}
    BY <2>1, <2>2, ToSetAppend
  <2>4. QueuedBefore(c, got) \subseteq Calls
    BY DEF QueuedBefore, QueuedFor
  <2>5. /\ lockQueue' \in [Directories -> Rows]
        /\ \A x \in Directories : OneRowEach(lockQueue'[x])
    BY <1>5, <2>1, SetStatusType, ConstantsAssumption DEF LeaveQueue, WellTyped
  <2>. HIDE DEF d
  <2>6. /\ locks' = [locks EXCEPT ![c] = got]
        /\ queued' = [queued EXCEPT ![c] = FALSE]
        /\ maxPosition' = [maxPosition EXCEPT ![c] = 0]
        /\ pc' = [pc EXCEPT ![c] = Proceed(c, got)]
        /\ ahead' = [ahead EXCEPT ![c] = QueuedBefore(c, got)]
        /\ misled' = misled \ {c}
        /\ UNCHANGED <<activeLocks, expired, sweep, faults, shared>>
    BY <1>5 DEF LeaveQueue, d
  <2>. HIDE DEF got
  <2>7. WellTyped'
    BY <2>2, <2>4, <2>5, <2>6 DEF Pcs, Proceed, WellTyped
  <2>8. NewEmpty' /\ HoldsToRelease'
    BY <2>6 DEF Pcs, Proceed, NewEmpty, HoldsToRelease, WellTyped
  <2>9. InOrder'
    <3>. SUFFICES ASSUME NEW b \in Calls, pc'[b] \in Acquiring
                  PROVE  /\ Missing(b, locks'[b]) # {}
                         /\ \A x \in ToSet(locks'[b]), e \in Missing(b, locks'[b]) : x < e
      BY DEF InOrder, Missing
    <3>1. CASE b # c
      BY <3>1, <2>6 DEF InOrder, WellTyped
    <3>2. CASE b = c
      <4>1. locks'[b] = got /\ Missing(c, got) # {}
        BY <3>2, <2>6 DEF Proceed, Acquiring, WellTyped
      <4>2. Missing(c, got) = Missing(c, locks[c]) \ {d}
        BY <2>3 DEF Missing
      <4>3. /\ \A x \in ToSet(locks[c]), e \in Missing(c, locks[c]) : x < e
            /\ Missing(c, locks[c]) \subseteq Nat
        <5>1. pc[c] \in Acquiring
          BY <1>5 DEF LeaveQueue, Acquiring
        <5>2. Missing(c, locks[c]) \subseteq Nat
          BY ConstantsAssumption, ToSetAppend DEF Missing
        <5>. QED
          BY <5>1, <5>2 DEF InOrder
      <4>4. \A e \in Missing(c, got) : d < e
        BY <4>2, <4>3, <2>1
      <4>. QED
        BY <3>2, <4>1, <4>2, <4>3, <4>4, <2>3
    <3>. QED
      BY <3>1, <3>2
  <2>. QED
    BY <2>7, <2>8, <2>9
<1>6. ASSUME NEW c \in Calls, ReadPosition(c) PROVE OrderInv'
  <2>1. Target(c) \in Directories
    BY <1>6, TargetMissing DEF ReadPosition, Acquiring
  <2>2. LastPosition(Target(c)) \in Nat
    BY <2>1, LastPositionIsGreatest DEF WellTyped
  <2>3. WellTyped'
    BY <1>6, <2>2 DEF ReadPosition, Pcs, WellTyped
  <2>. QED
    BY <1>6, <2>3, OrderKept DEF HoldsToRelease, ReadPosition, Acquiring, WellTyped
<1>7. ASSUME NEW c \in Calls, Enqueue(c) PROVE OrderInv'
  <2>1. Target(c) \in Directories
    BY <1>7, TargetMissing DEF Enqueue, Acquiring
  <2>2. maxPosition[c] + 1 \in Nat \ {0} /\ ExecutorOf[c] \in Executors
    BY ConstantsAssumption DEF WellTyped
  <2>3. /\ lockQueue' \in [Directories -> Rows]
        /\ \A x \in Directories : OneRowEach(lockQueue'[x])
    BY <1>7, <2>1, <2>2, UpsertRowType DEF Enqueue, WellTyped
  <2>4. WellTyped'
    BY <1>7, <2>3 DEF Enqueue, Pcs, WellTyped
  <2>. QED
    BY <1>7, <2>4, OrderKept DEF HoldsToRelease, Enqueue, Acquiring, WellTyped
<1>8. ASSUME NEW c \in Calls, TimeOut(c) PROVE OrderInv'
  <2>1. Target(c) \in Directories /\ ExecutorOf[c] \in Executors
    BY <1>8, TargetMissing, ConstantsAssumption DEF TimeOut, Acquiring
  <2>2. /\ lockQueue' \in [Directories -> Rows]
        /\ \A x \in Directories : OneRowEach(lockQueue'[x])
    BY <1>8, <2>1, SetStatusType DEF TimeOut, WellTyped
  <2>3. WellTyped'
    BY <1>8, <2>2 DEF TimeOut, Pcs, Ended, WellTyped
  <2>. QED
    BY <1>8, <2>3, OrderKept DEF HoldsToRelease, TimeOut, Acquiring, WellTyped
<1>9. ASSUME NEW c \in Calls, ExecuteSkill(c) PROVE OrderInv'
  <2>1. WellTyped'
    BY <1>9 DEF ExecuteSkill, Pcs, Ended, WellTyped
  <2>. QED
    BY <1>9, <2>1, OrderKept DEF HoldsToRelease, ExecuteSkill, Acquiring, WellTyped
<1>10. ASSUME NEW c \in Calls, ReleaseLock(c) PROVE OrderInv'
  <2>1. Tail(locks[c]) \in Seq(Directories)
    BY <1>10, HeadTailProperties DEF ReleaseLock, HoldsToRelease, WellTyped
  <2>2. WellTyped'
    BY <1>10, <2>1 DEF ReleaseLock, DeleteLock, Pcs, Ended, WellTyped
  <2>3. NewEmpty' /\ HoldsToRelease'
    BY <1>10 DEF ReleaseLock, NewEmpty, HoldsToRelease, WellTyped
  <2>4. InOrder'
    BY <1>10 DEF ReleaseLock, InOrder, Missing, Acquiring, WellTyped
  <2>. QED
    BY <2>2, <2>3, <2>4
<1>11. ASSUME SelectExpired PROVE OrderInv'
  <2>1. sweep' \subseteq Directories \X Executors
    BY <1>11 DEF SelectExpired, WellTyped
  <2>2. WellTyped'
    BY <1>11, <2>1 DEF SelectExpired, callVars, WellTyped
  <2>. QED
    BY <1>11, <2>2, OrderKept DEF HoldsToRelease, SelectExpired, callVars, WellTyped
<1>12. ASSUME DeleteExpired PROVE OrderInv'
  <2>1. WellTyped'
    BY <1>12 DEF DeleteExpired, DeleteLock, callVars, WellTyped
  <2>. QED
    BY <1>12, <2>1, OrderKept DEF HoldsToRelease, DeleteExpired, callVars, WellTyped
<1>13. ASSUME NEW d \in Directories, Expire(d) PROVE OrderInv'
  <2>1. WellTyped'
    BY <1>13 DEF Expire, callVars, WellTyped
  <2>. QED
    BY <1>13, <2>1, OrderKept DEF HoldsToRelease, Expire, callVars, WellTyped
<1>14. ASSUME NEW c \in Calls, Abort(c) PROVE OrderInv'
  <2>1. WellTyped'
    BY <1>0, <1>14 DEF Abort, Pcs, Ended, WellTyped
  <2>. QED
    BY <1>14, <2>1, OrderKept DEF HoldsToRelease, Abort, Acquiring, WellTyped
<1>15. ASSUME Crash PROVE OrderInv'
  <2>1. pc' \in [Calls -> Pcs]
    BY <1>15 DEF Crash, Pcs, Ended, WellTyped
  <2>2. faults' \in 0..MaxFaults
    BY <1>0, <1>15 DEF Crash
  <2>3. WellTyped'
    BY <1>15, <2>1, <2>2 DEF Crash, WellTyped
  <2>. QED
    BY <1>15, <2>3, OrderKept DEF HoldsToRelease, Crash, Acquiring, Alive, Ended, WellTyped
<1>16. ASSUME NEW c \in Calls, QueueUnread(c) PROVE OrderInv'
  <2>1. WellTyped'
    BY <1>0, <1>16 DEF QueueUnread, Pcs, Refused, WellTyped
  <2>. QED
    BY <1>16, <2>1, OrderKept DEF HoldsToRelease, QueueUnread, Acquiring, Refused, WellTyped
<1>17. ASSUME NEW c \in Calls, PositionUnread(c) PROVE OrderInv'
  <2>1. WellTyped'
    BY <1>0, <1>17 DEF PositionUnread, Pcs, WellTyped
  <2>. QED
    BY <1>17, <2>1, OrderKept DEF HoldsToRelease, PositionUnread, Acquiring, WellTyped
<1>18. ASSUME NEW c \in Calls, StatementFails(c) PROVE OrderInv'
  <2>1. WellTyped'
    BY <1>0, <1>18 DEF StatementFails, Pcs, Ended, WellTyped
  <2>. QED
    BY <1>18, <2>1, OrderKept DEF HoldsToRelease, StatementFails, Acquiring, WellTyped
<1>19. ASSUME NEW c \in Calls, ReleaseFails(c) PROVE OrderInv'
  <2>1. Tail(locks[c]) \in Seq(Directories)
    BY <1>19, HeadTailProperties DEF ReleaseFails, HoldsToRelease, WellTyped
  <2>2. WellTyped'
    BY <1>0, <1>19, <2>1 DEF ReleaseFails, Pcs, Ended, WellTyped
  <2>3. NewEmpty' /\ HoldsToRelease'
    BY <1>19 DEF ReleaseFails, NewEmpty, HoldsToRelease, WellTyped
  <2>4. InOrder'
    BY <1>19 DEF ReleaseFails, InOrder, Missing, Acquiring, WellTyped
  <2>. QED
    BY <2>2, <2>3, <2>4
<1>20. ASSUME SweepFails PROVE OrderInv'
  <2>1. WellTyped'
    BY <1>0, <1>20 DEF SweepFails, callVars, WellTyped
  <2>. QED
    BY <1>20, <2>1, OrderKept DEF HoldsToRelease, SweepFails, callVars, WellTyped
<1>21. ASSUME UNCHANGED vars PROVE OrderInv'
  <2>1. WellTyped'
    BY <1>21 DEF vars, callVars, WellTyped
  <2>. QED
    BY <1>21, <2>1, OrderKept DEF HoldsToRelease, vars, callVars
<1>. QED
  BY <1>1, <1>2, <1>3, <1>4, <1>5, <1>6, <1>7, <1>8, <1>9, <1>10, <1>11, <1>12,
     <1>13, <1>14, <1>15, <1>16, <1>17, <1>18, <1>19, <1>20, <1>21 DEF Next, Step, SqlError

\* The two tables and every call's variables stay well formed, for every number
\* of calls, executors, directories, failed statements and restarts.
THEOREM TypeCorrect == Spec => []TypeOK
<1>1. OrderInv => TypeOK
  BY DEF OrderInv, WellTyped, TypeOK, Rows, RowSet, OneRowEach
<1>. QED
  BY OrderInit, OrderStep, <1>1, PTL DEF Spec

\* Nobody waits in a circle, for any number of calls and directories: of a
\* group that waits, the call with the greatest target waits for no member,
\* since each member that waits has only taken directories below its target.
THEOREM NoCircle == Spec => []NoCircularWait
<1>1. OrderInv => NoCircularWait
  <2>. SUFFICES ASSUME OrderInv, NEW group \in (SUBSET Calls) \ {{}}
                PROVE  \E b \in group : \A c \in group : ~WaitsFor(b, c)
    BY DEF NoCircularWait
  <2>1. CASE \E b \in group : pc[b] # "waiting"
    BY <2>1 DEF WaitsFor
  <2>2. CASE \A b \in group : pc[b] = "waiting"
    <3>1. \A b \in group : Target(b) \in Directories /\ Target(b) \in Missing(b, locks[b])
      BY <2>2, TargetMissing DEF OrderInv, Acquiring
    <3>. DEFINE targets == {d \in Directories : \E b \in group : d = Target(b)}
    <3>2. targets \in SUBSET Nat /\ IsFiniteSet(targets) /\ targets # {}
      <4>1. IsFiniteSet(Directories) /\ Directories \in SUBSET Nat
        BY ConstantsAssumption, FS_Interval DEF Directories
      <4>2. targets \in SUBSET Directories
        OBVIOUS
      <4>3. targets # {}
        <5>1. \A b \in group : Target(b) \in targets
          BY <3>1
        <5>. QED
          BY <5>1
      <4>4. IsFiniteSet(targets)
        BY <4>1, <4>2, FS_Subset, Zenon
      <4>. QED
        BY <4>1, <4>2, <4>3, <4>4
    <3>. HIDE DEF targets
    <3>3. PICK top \in targets : \A d \in targets : d <= top
      BY <3>2, GreatestNatural
    <3>4. PICK b \in group : top = Target(b)
      BY <3>3 DEF targets
    <3>5. ASSUME NEW c \in group, WaitsFor(b, c) PROVE FALSE
      <4>1. Target(b) \in ToSet(locks[c])
        BY <3>5 DEF WaitsFor
      <4>2. Target(b) < Target(c)
        BY <2>2, <3>1, <4>1 DEF OrderInv, InOrder, Acquiring
      <4>3. Target(c) <= Target(b)
        BY <3>1, <3>3, <3>4 DEF targets
      <4>. QED
        BY <4>2, <4>3, <3>1, <3>2, <3>4, ConstantsAssumption DEF Directories
    <3>. QED
      BY <3>5
  <2>. QED
    BY <2>1, <2>2
<1>. QED
  BY OrderInit, OrderStep, <1>1, PTL DEF Spec

-----------------------------------------------------------------------------
(* The queue of a directory as its order only: who waits at which position.  *)

InLine(e, p, d) ==
  \E i \in WaitingRows(d) : lockQueue[d][i].executor = e /\ lockQueue[d][i].position = p

LEMMA RowPosition ==
  ASSUME WellTyped, NEW d \in Directories, NEW i \in WaitingRows(d)
  PROVE  lockQueue[d][i].position \in Nat
<1>1. lockQueue[d] \in Rows /\ i \in DOMAIN lockQueue[d]
  BY DEF WaitingRows, WellTyped
<1>2. lockQueue[d][i] \in RowSet
  BY <1>1, ElementOfSeq, LenProperties DEF Rows
<1>. QED
  BY <1>2 DEF RowSet

LEMMA QueuedForInLine ==
  WellTyped => \A c \in Calls, d \in Directories :
    c \in QueuedFor(d) <=>
      queued[c] /\ Target(c) = d /\ \E p \in Nat : InLine(ExecutorOf[c], p, d)
BY RowPosition DEF QueuedFor, InLine

\* The same of the next state.
LEMMA QueuedForInLineNext ==
  WellTyped' => (\A c \in Calls, d \in Directories :
    c \in QueuedFor(d) <=>
      queued[c] /\ Target(c) = d /\ \E p \in Nat : InLine(ExecutorOf[c], p, d))'
BY QueuedForInLine, PTL

LEMMA HeadIsFirst ==
  ASSUME WellTyped, NEW d \in Directories, NEW e, NextInQueue(e, d),
         NEW x, NEW q, InLine(x, q, d)
  PROVE  \E p \in Nat : InLine(e, p, d) /\ p <= q
<1>1. PICK i \in WaitingRows(d) : IsHead(i, d) /\ lockQueue[d][i].executor = e
  BY DEF NextInQueue, InLine
<1>2. PICK j \in WaitingRows(d) : lockQueue[d][j].position = q
  BY DEF InLine
<1>3. lockQueue[d][i].position \in Nat /\ lockQueue[d][j].position \in Nat
  BY RowPosition
<1>4. lockQueue[d][i].position <= lockQueue[d][j].position
  BY <1>1, <1>2, <1>3 DEF IsHead
<1>. QED
  BY <1>1, <1>2, <1>3, <1>4 DEF InLine

LEMMA LastIsLast ==
  ASSUME WellTyped, NEW d \in Directories, NEW x, NEW q, InLine(x, q, d)
  PROVE  q <= LastPosition(d) /\ LastPosition(d) \in Nat
BY LastPositionIsGreatest DEF InLine, WellTyped

\* An upsert puts e at p and moves nobody else.
LEMMA LineAfterUpsert ==
  ASSUME WellTyped, NEW d \in Directories, NEW e \in Executors, NEW p \in Nat \ {0},
         lockQueue' = [lockQueue EXCEPT ![d] = UpsertRow(@, e, p)],
         NEW x, NEW q, NEW f \in Directories
  PROVE  InLine(x, q, f)' <=> IF f = d /\ x = e THEN q = p ELSE InLine(x, q, f)
<1>1. CASE f # d
  <2>1. lockQueue'[f] = lockQueue[f]
    BY <1>1 DEF WellTyped
  <2>. QED
    BY <1>1, <2>1 DEF InLine, WaitingRows
<1>2. CASE f = d
  <2>. DEFINE rows == lockQueue[d]
              new == lockQueue'[d]
  <2>1. new = UpsertRow(rows, e, p)
    BY DEF WellTyped
  <2>2. rows \in Rows /\ DOMAIN rows = 1..Len(rows) /\ Len(rows) \in Nat
    BY LenProperties DEF WellTyped, Rows
  <2>3. /\ Row(e, p).executor = e /\ Row(e, p).position = p
        /\ Row(e, p).status = "waiting" /\ Row(e, p) \in RowSet
    BY DEF Row, RowSet
  <2>4. /\ InLine(x, q, f) <=> \E i \in DOMAIN rows : /\ rows[i].status = "waiting"
                                                      /\ rows[i].executor = x
                                                      /\ rows[i].position = q
        /\ InLine(x, q, f)' <=> \E i \in DOMAIN new : /\ new[i].status = "waiting"
                                                      /\ new[i].executor = x
                                                      /\ new[i].position = q
    BY <1>2 DEF InLine, WaitingRows
  <2>. HIDE DEF rows, new
  <2>5. CASE \E i \in DOMAIN rows : rows[i].executor = e
    <3>1. /\ DOMAIN new = DOMAIN rows
          /\ \A i \in DOMAIN rows : new[i] = IF rows[i].executor = e THEN Row(e, p) ELSE rows[i]
      BY <2>1, <2>5 DEF UpsertRow
    <3>. QED
      BY <1>2, <2>3, <2>4, <2>5, <3>1
  <2>6. CASE ~ \E i \in DOMAIN rows : rows[i].executor = e
    <3>1. new = Append(rows, Row(e, p))
      BY <2>1, <2>6 DEF UpsertRow
    <3>2. /\ \A i \in DOMAIN rows : new[i] = rows[i]
          /\ new[Len(rows) + 1] = Row(e, p)
          /\ DOMAIN new = 1..(Len(rows) + 1)
      BY <2>2, <2>3, <3>1, AppendProperties, LenProperties DEF Rows
    <3>. HIDE DEF rows
    <3>3. DOMAIN new = DOMAIN rows \cup {Len(rows) + 1}
      BY <2>2, <3>2
    <3>. QED
      BY <1>2, <2>3, <2>4, <2>6, <3>2, <3>3
  <2>. QED
    BY <2>5, <2>6
<1>. QED
  BY <1>1, <1>2

\* Another status takes e out of the line and moves nobody else.
LEMMA LineAfterStatus ==
  ASSUME WellTyped, NEW d \in Directories, NEW e \in Executors, NEW st \in {"acquired", "timeout"},
         lockQueue' = [lockQueue EXCEPT ![d] = SetStatus(@, e, st)],
         NEW x, NEW q, NEW f \in Directories
  PROVE  InLine(x, q, f)' <=> InLine(x, q, f) /\ ~(f = d /\ x = e)
<1>1. CASE f # d
  <2>1. lockQueue'[f] = lockQueue[f]
    BY <1>1 DEF WellTyped
  <2>. QED
    BY <1>1, <2>1 DEF InLine, WaitingRows
<1>2. CASE f = d
  <2>. DEFINE rows == lockQueue[d]
              new == lockQueue'[d]
  <2>1. new = SetStatus(rows, e, st)
    BY DEF WellTyped
  <2>2. \A i \in DOMAIN rows : rows[i] \in RowSet
    BY LenProperties, ElementOfSeq DEF WellTyped, Rows
  <2>3. /\ InLine(x, q, f) <=> \E i \in DOMAIN rows : /\ rows[i].status = "waiting"
                                                      /\ rows[i].executor = x
                                                      /\ rows[i].position = q
        /\ InLine(x, q, f)' <=> \E i \in DOMAIN new : /\ new[i].status = "waiting"
                                                      /\ new[i].executor = x
                                                      /\ new[i].position = q
    BY <1>2 DEF InLine, WaitingRows
  <2>. HIDE DEF rows, new
  <2>4. DOMAIN new = DOMAIN rows
    BY <2>1 DEF SetStatus
  <2>5. \A i \in DOMAIN rows :
          IF rows[i].executor = e THEN new[i].status = st /\ new[i].executor = e ELSE new[i] = rows[i]
    BY <2>1, <2>2 DEF SetStatus, RowSet
  <2>. QED
    BY <1>2, <2>3, <2>4, <2>5
<1>. QED
  BY <1>1, <1>2

-----------------------------------------------------------------------------
(* The inductive invariant behind NoOvertaking.                              *)

\* An executor id that is not shared has one call that has begun and not ended well.
SoleCall ==
  \A b, c \in Calls : b # c /\ ExecutorOf[b] = ExecutorOf[c] =>
    \/ ExecutorOf[b] \in shared
    \/ pc[b] \in {"new", "done"} \/ pc[c] \in {"new", "done"}

QueuedPhase ==
  \A c \in Calls : queued[c] =>
    pc[c] \in {"checking", "free", "taken", "inserting", "leaving", "waiting", "failed", "gone"}

\* Whoever is in line is in the wait loop for that directory, or died there.
RowOwned ==
  \A d \in Directories, e \in Executors, p \in Nat : InLine(e, p, d) =>
    \E q \in Calls : ExecutorOf[q] = e /\ queued[q] /\ Target(q) = d

Holding == Acquiring \cup {"executing"}

Over == {"releasing", "done", "failed", "gone"}

\* b has had its turn for d and will not queue for it again.
Passed(b, d) ==
  \/ pc[b] \in Holding /\ d \in ToSet(locks[b])
  \/ pc[b] \in Over

\* b was queued before c turned to its directory: as long as b still is, c does
\* not write its lock, chooses a position behind b's and keeps it.
Behind(c, b) ==
  /\ ExecutorOf[b] # ExecutorOf[c]
  /\ b \in QueuedFor(Target(c)) \/ Passed(b, Target(c))
  /\ b \in QueuedFor(Target(c)) =>
       /\ pc[c] \notin {"inserting", "leaving"}
       /\ \A p \in Nat : InLine(ExecutorOf[b], p, Target(c)) =>
            /\ pc[c] = "enqueueing" => p <= maxPosition[c]
            /\ queued[c] => \A q \in Nat : InLine(ExecutorOf[c], q, Target(c)) => p < q

\* The pairs that keep their order: c goes by no failed read, both have ids of
\* their own.
Orderly(c, b) == c \notin misled /\ ExecutorOf[c] \notin shared /\ ExecutorOf[b] \notin shared

QueueOrder ==
  \A c \in Calls : pc[c] \in Acquiring =>
    \A b \in ahead[c] : Orderly(c, b) => Behind(c, b)

QueueInv == SoleCall /\ QueuedPhase /\ RowOwned /\ QueueOrder

LEMMA TargetKept ==
  ASSUME NEW c, locks'[c] = locks[c]
  PROVE  Target(c)' = Target(c)
BY DEF Target

\* SoleCall and QueuedPhase depend on pc and queued only.
LEMMA PhaseStep == OrderInv /\ SoleCall /\ QueuedPhase /\ [Next]_vars => SoleCall' /\ QueuedPhase'
<1>. SUFFICES ASSUME OrderInv, SoleCall, QueuedPhase, [Next]_vars
              PROVE  SoleCall' /\ QueuedPhase'
  OBVIOUS
<1>. USE DEF OrderInv, WellTyped, SoleCall, QueuedPhase, history
<1>1. ASSUME NEW c \in Calls, Begin(c) PROVE SoleCall' /\ QueuedPhase'
  BY <1>1 DEF Begin, Proceed
<1>2. ASSUME NEW c \in Calls, ReadLocks(c) PROVE SoleCall' /\ QueuedPhase'
  BY <1>2 DEF ReadLocks
<1>3. ASSUME NEW c \in Calls, ReadQueue(c) PROVE SoleCall' /\ QueuedPhase'
  BY <1>3 DEF ReadQueue, Refused
<1>4. ASSUME NEW c \in Calls, InsertLock(c) PROVE SoleCall' /\ QueuedPhase'
  BY <1>4 DEF InsertLock
<1>5. ASSUME NEW c \in Calls, LeaveQueue(c) PROVE SoleCall' /\ QueuedPhase'
  BY <1>5 DEF LeaveQueue, Proceed
<1>6. ASSUME NEW c \in Calls, ReadPosition(c) PROVE SoleCall' /\ QueuedPhase'
  BY <1>6 DEF ReadPosition
<1>7. ASSUME NEW c \in Calls, Enqueue(c) PROVE SoleCall' /\ QueuedPhase'
  BY <1>7 DEF Enqueue
<1>8. ASSUME NEW c \in Calls, TimeOut(c) PROVE SoleCall' /\ QueuedPhase'
  BY <1>8 DEF TimeOut
<1>9. ASSUME NEW c \in Calls, ExecuteSkill(c) PROVE SoleCall' /\ QueuedPhase'
  BY <1>9 DEF ExecuteSkill
<1>10. ASSUME NEW c \in Calls, ReleaseLock(c) PROVE SoleCall' /\ QueuedPhase'
  BY <1>10 DEF ReleaseLock
<1>11. ASSUME NEW c \in Calls, Abort(c) PROVE SoleCall' /\ QueuedPhase'
  BY <1>11 DEF Abort
<1>12. ASSUME Crash PROVE SoleCall' /\ QueuedPhase'
  BY <1>12 DEF Crash, Alive, Ended
<1>13. ASSUME UNCHANGED <<pc, queued, shared>> PROVE SoleCall' /\ QueuedPhase'
  BY <1>13
<1>14. ASSUME NEW c \in Calls, SqlError(c) PROVE SoleCall' /\ QueuedPhase'
  BY <1>14 DEF SqlError, QueueUnread, PositionUnread, StatementFails, ReleaseFails, Refused
<1>. QED
  BY <1>1, <1>2, <1>3, <1>4, <1>5, <1>6, <1>7, <1>8, <1>9, <1>10, <1>11, <1>12, <1>13, <1>14
     DEF Next, Step, SelectExpired, DeleteExpired, SweepFails, Expire, vars, callVars

\* A step that leaves both calls' rows, locks and places alone, moves b at most
\* out of its call and c at most within it.
LEMMA BehindKept ==
  ASSUME WellTyped, WellTyped', NEW c \in Calls, NEW b \in Calls, Behind(c, b),
         Target(c) \in Directories,
         locks'[c] = locks[c], queued'[c] = queued[c], maxPosition'[c] = maxPosition[c],
         locks'[b] = locks[b], queued'[b] = queued[b],
         pc[b] \in Holding => pc'[b] \in Holding \cup Over,
         pc[b] \in Over => pc'[b] \in Over,
         pc'[c] = "enqueueing" => pc[c] = "enqueueing",
         pc'[c] \in {"inserting", "leaving"} /\ b \in QueuedFor(Target(c))
           => pc[c] \in {"inserting", "leaving"},
         \A p \in Nat, d \in Directories :
           /\ queued[b] => (InLine(ExecutorOf[b], p, d)' <=> InLine(ExecutorOf[b], p, d))
           /\ InLine(ExecutorOf[c], p, d)' <=> InLine(ExecutorOf[c], p, d)
  PROVE  Behind(c, b)'
<1>. DEFINE d == Target(c)
<1>1. Target(c)' = Target(c) /\ Target(b)' = Target(b)
  BY TargetKept
<1>2. b \in QueuedFor(d) <=>
        queued[b] /\ Target(b) = d /\ \E p \in Nat : InLine(ExecutorOf[b], p, d)
  BY QueuedForInLine
<1>3. b \in QueuedFor(d)' <=>
        queued'[b] /\ Target(b)' = d' /\ \E p \in Nat : InLine(ExecutorOf[b], p, d)'
  BY <1>1, QueuedForInLineNext
<1>4. \A p \in Nat : /\ queued[b] => (InLine(ExecutorOf[b], p, d)' <=> InLine(ExecutorOf[b], p, d))
                     /\ InLine(ExecutorOf[c], p, d)' <=> InLine(ExecutorOf[c], p, d)
  BY <1>1 DEF InLine, WaitingRows
<1>5. b \in QueuedFor(d)' <=> b \in QueuedFor(d)
  BY <1>1, <1>2, <1>3, <1>4
<1>6. Passed(b, d) => Passed(b, d)'
  BY <1>1 DEF Passed, Over
<1>. QED
  BY <1>1, <1>2, <1>4, <1>5, <1>6 DEF Behind

\* What is in line for d stays owned when only pc and unqueued calls change.
LEMMA OwnersKept ==
  ASSUME RowOwned, lockQueue' = lockQueue, queued' = queued,
         \A q \in Calls : queued[q] => locks'[q] = locks[q]
  PROVE  RowOwned'
<1>. SUFFICES ASSUME NEW d \in Directories, NEW e \in Executors, NEW p \in Nat, InLine(e, p, d)'
              PROVE  \E q \in Calls : ExecutorOf[q] = e /\ queued'[q] /\ Target(q)' = d
  BY DEF RowOwned
<1>1. InLine(e, p, d)
  BY DEF InLine, WaitingRows
<1>2. PICK q \in Calls : ExecutorOf[q] = e /\ queued[q] /\ Target(q) = d
  BY <1>1 DEF RowOwned
<1>. QED
  BY <1>2, TargetKept

\* Steps of others, and steps of a call that leave the queues alone.
LEMMA QuietStep ==
  ASSUME WellTyped, WellTyped', InOrder, RowOwned, QueueOrder,
         UNCHANGED <<locks, queued, maxPosition, lockQueue, ahead, shared>>, misled \subseteq misled',
         \A c \in Calls :
           /\ pc[c] \in Holding => pc'[c] \in Holding \cup Over
           /\ pc[c] \in Over => pc'[c] \in Over
           /\ pc'[c] \in Acquiring => pc[c] \in Acquiring
           /\ pc'[c] = "enqueueing" => pc[c] = "enqueueing"
           /\ pc'[c] \in {"inserting", "leaving"} =>
                \/ pc[c] \in {"inserting", "leaving"}
                \/ \A b \in ahead[c] : Orderly(c, b)' => b \notin QueuedFor(Target(c))
  PROVE  RowOwned' /\ QueueOrder'
<1>1. RowOwned'
  BY OwnersKept
<1>2. ASSUME NEW c \in Calls, pc'[c] \in Acquiring, NEW b \in ahead'[c], Orderly(c, b)'
      PROVE  Behind(c, b)'
  <2>1. b \in ahead[c] /\ b \in Calls /\ pc[c] \in Acquiring /\ Orderly(c, b)
    BY <1>2 DEF WellTyped, Orderly
  <2>2. Behind(c, b) /\ Target(c) \in Directories
    BY <2>1, TargetMissing DEF QueueOrder
  <2>3. \A p \in Nat, d \in Directories :
           /\ InLine(ExecutorOf[b], p, d)' <=> InLine(ExecutorOf[b], p, d)
           /\ InLine(ExecutorOf[c], p, d)' <=> InLine(ExecutorOf[c], p, d)
    BY DEF InLine, WaitingRows
  <2>. QED
    BY <1>2, <2>1, <2>2, <2>3, BehindKept
<1>. QED
  BY <1>1, <1>2 DEF QueueOrder

\* A call that takes its turn has nobody ahead of it any more.
LEMMA TurnIsFirst ==
  ASSUME OrderInv, SoleCall, QueuedPhase, RowOwned, QueueOrder,
         NEW c \in Calls, pc[c] \in {"free", "taken"}, NextInQueue(ExecutorOf[c], Target(c)),
         NEW b \in ahead[c], Orderly(c, b)
  PROVE  b \notin QueuedFor(Target(c))
<1>. SUFFICES ASSUME b \in QueuedFor(Target(c)) PROVE FALSE
  OBVIOUS
<1>. USE DEF OrderInv
<1>1. Target(c) \in Directories /\ b \in Calls /\ Behind(c, b)
  BY TargetMissing DEF QueueOrder, Acquiring, WellTyped
<1>2. PICK p \in Nat : InLine(ExecutorOf[b], p, Target(c))
  BY <1>1, QueuedForInLine
<1>3. PICK q \in Nat : InLine(ExecutorOf[c], q, Target(c)) /\ q <= p
  BY <1>1, <1>2, HeadIsFirst
<1>4. PICK o \in Calls : ExecutorOf[o] = ExecutorOf[c] /\ queued[o]
  BY <1>1, <1>3, ConstantsAssumption DEF RowOwned
<1>5. o = c
  BY <1>4 DEF SoleCall, QueuedPhase, Orderly
<1>. QED
  BY <1>1, <1>2, <1>3, <1>4, <1>5 DEF Behind

\* When c moves, the pairs that do not involve c are undisturbed: at most the
\* rows of c's executor, which is neither theirs nor, if b is queued, b's.
LEMMA OthersKept ==
  ASSUME OrderInv, WellTyped', SoleCall, QueuedPhase, QueueOrder,
         NEW a \in Calls, pc[a] \notin {"done"}, shared \subseteq shared', misled \subseteq misled' \cup {a},
         \A x \in Calls \ {a} :
           /\ pc'[x] = pc[x] /\ locks'[x] = locks[x] /\ queued'[x] = queued[x]
           /\ maxPosition'[x] = maxPosition[x] /\ ahead'[x] = ahead[x],
         \A x \in Executors, p \in Nat, d \in Directories :
           pc[a] = "new" \/ x # ExecutorOf[a] => (InLine(x, p, d)' <=> InLine(x, p, d)),
         NEW c \in Calls \ {a}, pc'[c] \in Acquiring, NEW b \in ahead'[c], b # a, Orderly(c, b)'
  PROVE  Behind(c, b)'
<1>. USE DEF OrderInv
<1>1. b \in Calls \ {a} /\ b \in ahead[c] /\ pc[c] \in Acquiring /\ Orderly(c, b)
  BY DEF WellTyped, Orderly
<1>2. Behind(c, b) /\ Target(c) \in Directories
  BY <1>1, TargetMissing DEF QueueOrder
<1>3. pc[a] = "new" \/ ExecutorOf[c] # ExecutorOf[a]
  BY <1>1 DEF SoleCall, Acquiring, Orderly
<1>4. queued[b] => pc[a] = "new" \/ ExecutorOf[b] # ExecutorOf[a]
  BY <1>1 DEF SoleCall, QueuedPhase, Orderly
<1>5. ExecutorOf[b] \in Executors /\ ExecutorOf[c] \in Executors
  BY <1>1, ConstantsAssumption
<1>. QED
  BY <1>1, <1>2, <1>3, <1>4, <1>5, BehindKept

LEMMA QueueInit == Init => QueueInv
<1>. SUFFICES ASSUME Init PROVE QueueInv
  OBVIOUS
<1>1. \A d \in Directories : WaitingRows(d) = {}
  BY DEF Init, WaitingRows
<1>2. SoleCall /\ QueuedPhase /\ RowOwned
  BY <1>1 DEF Init, SoleCall, QueuedPhase, RowOwned, InLine
<1>3. QueueOrder
  BY DEF Init, QueueOrder, Acquiring
<1>. QED
  BY <1>2, <1>3 DEF QueueInv

LEMMA BeginQueue ==
  ASSUME OrderInv, WellTyped', QueueInv, SoleCall', NEW c \in Calls, Begin(c)
  PROVE  RowOwned' /\ QueueOrder'
<1>. USE DEF OrderInv, QueueInv, Orderly, history
<1>1. ~queued[c] /\ pc[c] = "new" /\ lockQueue' = lockQueue /\ locks' = locks /\ queued' = queued
      /\ shared \subseteq shared' /\ misled' = misled
  BY DEF Begin, QueuedPhase
<1>2. RowOwned'
  BY <1>1, OwnersKept
<1>3. \A x \in Executors, p \in Nat, d \in Directories : InLine(x, p, d)' <=> InLine(x, p, d)
  BY <1>1 DEF InLine, WaitingRows
<1>4. ASSUME NEW a \in Calls, pc'[a] \in Acquiring, NEW b \in ahead'[a], Orderly(a, b)'
      PROVE  Behind(a, b)'
  <2>1. CASE a # c /\ b # c
    BY <1>1, <1>3, <1>4, <2>1, OthersKept DEF Begin, WellTyped
  <2>2. CASE a # c /\ b = c
    <3>1. Behind(a, c)
      BY <1>4, <2>2 DEF Begin, WellTyped, QueueOrder
    <3>2. ~Passed(c, Target(a)) /\ c \notin QueuedFor(Target(a))
      BY <1>1 DEF Passed, QueuedFor, Holding, Acquiring, Over
    <3>. QED
      BY <3>1, <3>2 DEF Behind
  <2>3. CASE a = c
    <3>1. /\ pc' = [pc EXCEPT ![c] = Proceed(c, <<>>)]
          /\ ahead' = [ahead EXCEPT ![c] = QueuedBefore(c, <<>>)]
          /\ locks[c] = <<>>
      BY <1>1 DEF Begin, NewEmpty
    <3>2. /\ Missing(c, <<>>) # {} /\ pc'[c] = "checking"
          /\ b \in QueuedFor(NextDirectory(c, <<>>))
      BY <1>4, <2>3, <3>1 DEF WellTyped, Proceed, QueuedBefore, Acquiring
    <3>3. Target(c) = NextDirectory(c, <<>>) /\ Target(c)' = Target(c) /\ Target(c) \in Directories
      BY <1>1, <3>1, <3>2, NextDirectoryIsLeast DEF Target
    <3>4. b \in Calls /\ queued[b] /\ b # c
      BY <1>1, <3>2 DEF QueuedFor
    <3>5. ExecutorOf[b] # ExecutorOf[c]
      <4>1. pc'[b] \notin {"new", "done"} /\ pc'[c] \notin {"new", "done"}
        BY <3>1, <3>2, <3>4 DEF QueuedPhase, WellTyped
      <4>2. ExecutorOf[b] \notin shared'
        BY <1>4
      <4>. QED
        BY <3>4, <4>1, <4>2 DEF SoleCall
    <3>6. b \in QueuedFor(Target(c))'
      <4>1. Target(b)' = Target(b)
        BY <1>1, TargetKept
      <4>. QED
        BY <1>1, <3>2, <3>3, <4>1 DEF QueuedFor, WaitingRows
    <3>. QED
      BY <1>1, <2>3, <3>2, <3>3, <3>5, <3>6 DEF Behind
  <2>. QED
    BY <2>1, <2>2, <2>3
<1>. QED
  BY <1>2, <1>4 DEF QueueOrder

LEMMA LeaveQueueQueue ==
  ASSUME OrderInv, WellTyped', QueueInv, NEW c \in Calls, LeaveQueue(c)
  PROVE  RowOwned' /\ QueueOrder'
<1>. USE DEF OrderInv, QueueInv, Orderly, history
<1>. DEFINE d == Target(c)
            got == Append(locks[c], d)
            e == ExecutorOf[c]
<1>1. /\ d \in Directories /\ d \in Missing(c, locks[c]) /\ e \in Executors
      /\ pc[c] = "leaving"
  BY TargetMissing, ConstantsAssumption DEF LeaveQueue, Acquiring
<1>2. /\ lockQueue' = [lockQueue EXCEPT ![d] = SetStatus(@, e, "acquired")]
      /\ locks' = [locks EXCEPT ![c] = got]
      /\ queued' = [queued EXCEPT ![c] = FALSE]
      /\ maxPosition' = [maxPosition EXCEPT ![c] = 0]
      /\ pc' = [pc EXCEPT ![c] = Proceed(c, got)]
      /\ ahead' = [ahead EXCEPT ![c] = QueuedBefore(c, got)]
      /\ shared' = shared /\ misled' = misled \ {c}
  BY DEF LeaveQueue
<1>3. \A x \in Executors, p \in Nat, f \in Directories :
        InLine(x, p, f)' <=> InLine(x, p, f) /\ ~(f = d /\ x = e)
  BY <1>1, <1>2, LineAfterStatus
<1>4. ToSet(got) = ToSet(locks[c]) \cup {d}
  BY <1>1, ToSetAppend DEF WellTyped
<1>5. \A b \in Calls \ {c} :
        /\ pc'[b] = pc[b] /\ locks'[b] = locks[b] /\ queued'[b] = queued[b]
        /\ maxPosition'[b] = maxPosition[b] /\ ahead'[b] = ahead[b]
        /\ Target(b)' = Target(b)
  BY <1>2, TargetKept DEF WellTyped
<1>6. /\ pc'[c] = Proceed(c, got) /\ locks'[c] = got /\ ~queued'[c]
      /\ ahead'[c] = QueuedBefore(c, got)
  BY <1>2 DEF WellTyped
<1>9. shared' = shared /\ misled \subseteq misled' \cup {c}
  BY <1>2
<1>7. RowOwned'
  <2>. SUFFICES ASSUME NEW f \in Directories, NEW x \in Executors, NEW p \in Nat, InLine(x, p, f)'
                PROVE  \E q \in Calls : ExecutorOf[q] = x /\ queued'[q] /\ Target(q)' = f
    BY DEF RowOwned
  <2>1. InLine(x, p, f) /\ ~(f = d /\ x = e)
    BY <1>3
  <2>2. PICK q \in Calls : ExecutorOf[q] = x /\ queued[q] /\ Target(q) = f
    BY <2>1 DEF RowOwned
  <2>. QED
    BY <1>5, <2>1, <2>2
<1>8. ASSUME NEW a \in Calls, pc'[a] \in Acquiring, NEW b \in ahead'[a], Orderly(a, b)'
      PROVE  Behind(a, b)'
  <2>1. CASE a # c /\ b # c
    BY <1>1, <1>3, <1>5, <1>8, <1>9, <2>1, OthersKept
  <2>2. CASE a # c /\ b = c
    <3>1. Behind(a, c) /\ Target(a)' = Target(a)
      BY <1>5, <1>8, <1>9, <2>2 DEF QueueOrder, Orderly
    <3>2. Target(a) \in ToSet(got)
      BY <1>1, <1>4, <3>1 DEF Behind, Passed, QueuedFor, Over
    <3>3. Passed(c, Target(a))'
      BY <1>6, <3>1, <3>2 DEF Passed, Proceed, Holding, Acquiring
    <3>4. c \notin QueuedFor(Target(a))'
      BY <1>6 DEF QueuedFor
    <3>. QED
      BY <2>2, <3>1, <3>3, <3>4 DEF Behind
  <2>3. CASE a = c
    <3>1. /\ Missing(c, got) # {} /\ pc'[c] = "checking"
          /\ b \in QueuedFor(NextDirectory(c, got))
      BY <1>6, <1>8, <2>3 DEF Proceed, QueuedBefore, Acquiring
    <3>2. /\ Target(c)' = NextDirectory(c, got) /\ NextDirectory(c, got) \in Directories
          /\ NextDirectory(c, got) # d
      BY <1>4, <1>6, <3>1, NextDirectoryIsLeast DEF Target, Missing
    <3>3. b \in Calls \ {c} /\ queued[b]
      BY <3>1, <3>2 DEF QueuedFor
    <3>4. ExecutorOf[b] # e /\ ExecutorOf[b] \in Executors
      BY <1>1, <1>8, <1>9, <2>3, <3>3, ConstantsAssumption DEF SoleCall, QueuedPhase
    <3>5. Target(b) = NextDirectory(c, got) /\ \E p \in Nat : InLine(ExecutorOf[b], p, Target(b))
      BY <3>1, <3>2, <3>3, QueuedForInLine
    <3>6. \E p \in Nat : InLine(ExecutorOf[b], p, Target(b))'
      <4>1. PICK p \in Nat : InLine(ExecutorOf[b], p, Target(b))
        BY <3>5
      <4>2. \A f \in Directories : InLine(ExecutorOf[b], p, f) => InLine(ExecutorOf[b], p, f)'
        BY <1>3, <3>4
      <4>3. InLine(ExecutorOf[b], p, Target(b))'
        BY <1>5, <3>2, <3>3, <3>5, <4>1, <4>2 DEF InLine, WaitingRows
      <4>. QED
        BY <4>3
    <3>7. b \in QueuedFor(Target(c))'
      BY <1>5, <3>2, <3>3, <3>5, <3>6, QueuedForInLineNext
    <3>. QED
      BY <1>6, <2>3, <3>1, <3>4, <3>7 DEF Behind
  <2>. QED
    BY <2>1, <2>2, <2>3
<1>. QED
  BY <1>7, <1>8 DEF QueueOrder

LEMMA ReadPositionQueue ==
  ASSUME OrderInv, WellTyped', QueueInv, NEW c \in Calls, ReadPosition(c)
  PROVE  RowOwned' /\ QueueOrder'
<1>. USE DEF OrderInv, QueueInv, Orderly, history
<1>1. /\ pc[c] = "joining" /\ pc' = [pc EXCEPT ![c] = "enqueueing"]
      /\ maxPosition' = [maxPosition EXCEPT ![c] = LastPosition(Target(c))]
      /\ UNCHANGED <<locks, queued, lockQueue, ahead, shared, misled>>
  BY DEF ReadPosition
<1>2. RowOwned'
  BY <1>1, OwnersKept
<1>3. \A x \in Executors, p \in Nat, d \in Directories : InLine(x, p, d)' <=> InLine(x, p, d)
  BY <1>1 DEF InLine, WaitingRows
<1>4. ASSUME NEW a \in Calls, pc'[a] \in Acquiring, NEW b \in ahead'[a], Orderly(a, b)'
      PROVE  Behind(a, b)'
  <2>1. /\ b \in Calls /\ b \in ahead[a] /\ pc[a] \in Acquiring /\ Behind(a, b)
        /\ Target(a) \in Directories
    BY <1>1, <1>4, TargetMissing DEF WellTyped, QueueOrder, Acquiring
  <2>2. /\ pc[b] \in Holding => pc'[b] \in Holding \cup Over
        /\ pc[b] \in Over => pc'[b] \in Over
    BY <1>1, <2>1 DEF WellTyped, Holding, Acquiring, Over
  <2>3. ExecutorOf[a] \in Executors /\ ExecutorOf[b] \in Executors
    BY <2>1, ConstantsAssumption
  <2>4. CASE a # c
    BY <1>1, <1>3, <2>1, <2>2, <2>3, <2>4, BehindKept DEF WellTyped
  <2>5. CASE a = c
    <3>1. /\ ~queued'[c] /\ pc'[c] = "enqueueing" /\ maxPosition'[c] = LastPosition(Target(c))
          /\ b # c /\ pc'[b] = pc[b]
      BY <1>1, <2>1, <2>5 DEF WellTyped, QueuedPhase, Behind
    <3>2. \A p \in Nat : InLine(ExecutorOf[b], p, Target(c)) => p <= LastPosition(Target(c))
      BY <2>1, <2>5, LastIsLast
    <3>3. Target(c)' = Target(c) /\ Target(b)' = Target(b) /\ locks' = locks
      BY <1>1, TargetKept
    <3>4. \A p \in Nat : InLine(ExecutorOf[b], p, Target(c))' <=> InLine(ExecutorOf[b], p, Target(c))
      BY <1>1, <3>3 DEF InLine, WaitingRows
    <3>5. b \in QueuedFor(Target(c))' <=> b \in QueuedFor(Target(c))
      BY <1>1, <3>3 DEF QueuedFor, WaitingRows
    <3>6. Passed(b, Target(c)) => Passed(b, Target(c))'
      BY <3>1, <3>3 DEF Passed
    <3>. QED
      BY <2>1, <2>5, <3>1, <3>2, <3>3, <3>4, <3>5, <3>6 DEF Behind
  <2>. QED
    BY <2>4, <2>5
<1>. QED
  BY <1>2, <1>4 DEF QueueOrder

LEMMA PositionUnreadQueue ==
  ASSUME OrderInv, WellTyped', QueueInv, NEW c \in Calls, PositionUnread(c)
  PROVE  RowOwned' /\ QueueOrder'
<1>. USE DEF OrderInv, QueueInv, Orderly, history
<1>1. /\ pc[c] = "joining" /\ pc' = [pc EXCEPT ![c] = "enqueueing"]
      /\ \A b \in Calls \ {c} : maxPosition'[b] = maxPosition[b]
      /\ misled' = misled \cup {c}
      /\ UNCHANGED <<locks, queued, lockQueue, ahead, shared>>
  BY DEF PositionUnread, WellTyped
<1>2. RowOwned'
  BY <1>1, OwnersKept
<1>3. \A x \in Executors, p \in Nat, d \in Directories : InLine(x, p, d)' <=> InLine(x, p, d)
  BY <1>1 DEF InLine, WaitingRows
<1>4. ASSUME NEW a \in Calls, pc'[a] \in Acquiring, NEW b \in ahead'[a], Orderly(a, b)'
      PROVE  Behind(a, b)'
  <2>1. /\ a # c /\ b \in Calls /\ b \in ahead[a] /\ pc[a] \in Acquiring /\ Behind(a, b)
        /\ Target(a) \in Directories
    BY <1>1, <1>4, TargetMissing DEF WellTyped, QueueOrder, Acquiring
  <2>2. /\ pc[b] \in Holding => pc'[b] \in Holding \cup Over
        /\ pc[b] \in Over => pc'[b] \in Over
    BY <1>1, <2>1 DEF WellTyped, Holding, Acquiring, Over
  <2>3. ExecutorOf[a] \in Executors /\ ExecutorOf[b] \in Executors
    BY <2>1, ConstantsAssumption
  <2>. QED
    BY <1>1, <1>3, <2>1, <2>2, <2>3, BehindKept DEF WellTyped
<1>. QED
  BY <1>2, <1>4 DEF QueueOrder

LEMMA EnqueueQueue ==
  ASSUME OrderInv, WellTyped', QueueInv, NEW c \in Calls, Enqueue(c)
  PROVE  RowOwned' /\ QueueOrder'
<1>. USE DEF OrderInv, QueueInv, Orderly, history
<1>. DEFINE d == Target(c)
            e == ExecutorOf[c]
            last == maxPosition[c] + 1
<1>0. /\ pc[c] = "enqueueing" /\ ~queued[c]
      /\ maxPosition[c] \in Nat /\ last \in Nat \ {0} /\ e \in Executors
  <2>1. pc[c] = "enqueueing"
    BY DEF Enqueue
  <2>2. ~queued[c]
    BY <2>1 DEF QueuedPhase
  <2>3. maxPosition[c] \in Nat
    BY DEF WellTyped
  <2>4. e \in Executors
    BY ConstantsAssumption
  <2>. QED
    BY <2>1, <2>2, <2>3, <2>4
<1>1. /\ d \in Directories /\ d \in Missing(c, locks[c]) /\ e \in Executors
      /\ pc[c] = "enqueueing" /\ ~queued[c]
      /\ maxPosition[c] \in Nat /\ last \in Nat \ {0}
  BY <1>0, TargetMissing DEF Acquiring
<1>2. /\ lockQueue' = [lockQueue EXCEPT ![d] = UpsertRow(@, e, last)]
      /\ queued' = [queued EXCEPT ![c] = TRUE]
      /\ maxPosition' = [maxPosition EXCEPT ![c] = 0]
      /\ pc' = [pc EXCEPT ![c] = "checking"]
      /\ UNCHANGED <<locks, ahead, shared, misled>>
  BY DEF Enqueue
<1>3. ASSUME NEW x \in Executors, NEW p \in Nat, NEW f \in Directories
      PROVE  InLine(x, p, f)' <=> IF f = d /\ x = e THEN p = last ELSE InLine(x, p, f)
  <2>1. d \in Directories /\ e \in Executors /\ last \in Nat \ {0}
    BY <1>1
  <2>2. lockQueue' = [lockQueue EXCEPT ![d] = UpsertRow(@, e, last)]
    BY <1>2
  <2>. HIDE DEF d, e, last
  <2>. QED
    BY <2>1, <2>2, LineAfterUpsert
<1>4. \A b \in Calls : Target(b)' = Target(b)
  BY <1>2, TargetKept
<1>5. \A b \in Calls \ {c} :
        /\ pc'[b] = pc[b] /\ locks'[b] = locks[b] /\ queued'[b] = queued[b]
        /\ maxPosition'[b] = maxPosition[b] /\ ahead'[b] = ahead[b]
  BY <1>2 DEF WellTyped
<1>8. shared' = shared /\ misled' = misled
  BY <1>2
<1>6. RowOwned'
  <2>. SUFFICES ASSUME NEW f \in Directories, NEW x \in Executors, NEW p \in Nat, InLine(x, p, f)'
                PROVE  \E q \in Calls : ExecutorOf[q] = x /\ queued'[q] /\ Target(q)' = f
    BY DEF RowOwned
  <2>1. CASE f = d /\ x = e
    BY <1>2, <1>4, <2>1 DEF WellTyped
  <2>2. CASE ~(f = d /\ x = e)
    BY <1>2, <1>3, <1>4, <2>2 DEF RowOwned, WellTyped
  <2>. QED
    BY <2>1, <2>2
<1>7. ASSUME NEW a \in Calls, pc'[a] \in Acquiring, NEW b \in ahead'[a], Orderly(a, b)'
      PROVE  Behind(a, b)'
  <2>1. CASE a # c /\ b # c
    BY <1>1, <1>3, <1>5, <1>7, <1>8, <2>1, OthersKept
  <2>2. CASE a # c /\ b = c
    <3>1. Behind(a, c)
      BY <1>5, <1>7, <1>8, <2>2 DEF QueueOrder, Orderly
    <3>2. Passed(c, Target(a)) /\ pc[c] \notin Over
      BY <1>1, <3>1 DEF Behind, QueuedFor, Over
    <3>3. Target(a) \in ToSet(locks[c]) /\ Target(a) # d
      BY <1>1, <3>2 DEF Passed, Missing
    <3>4. Passed(c, Target(a))' /\ c \notin QueuedFor(Target(a))'
      BY <1>2, <1>4, <3>3 DEF Passed, QueuedFor, Holding, Acquiring, WellTyped
    <3>. QED
      BY <1>4, <2>2, <3>1, <3>4 DEF Behind
  <2>3. CASE a = c
    <3>1. b \in Calls /\ b \in ahead[c] /\ Behind(c, b)
      BY <1>1, <1>2, <1>7, <2>3 DEF WellTyped, QueueOrder, Acquiring
    <3>2. b # c /\ ExecutorOf[b] # e /\ ExecutorOf[b] \in Executors
      BY <3>1, ConstantsAssumption DEF Behind
    <3>3. \A p \in Nat, f \in Directories : InLine(ExecutorOf[b], p, f)' <=> InLine(ExecutorOf[b], p, f)
      BY <1>3, <3>2
    <3>4. \A p \in Nat, f \in Directories : f = d /\ InLine(e, p, f)' => p = last
      BY <1>1, <1>3
    <3>5. \A p \in Nat : /\ InLine(ExecutorOf[b], p, Target(c))' <=> InLine(ExecutorOf[b], p, d)
                         /\ InLine(e, p, Target(c))' => p = last
      BY <1>1, <1>4, <3>3, <3>4 DEF InLine, WaitingRows
    <3>6. b \in QueuedFor(Target(c)) <=>
            queued[b] /\ Target(b) = d /\ \E p \in Nat : InLine(ExecutorOf[b], p, d)
      BY <1>1, <3>1, QueuedForInLine
    <3>7. b \in QueuedFor(Target(c))' <=>
            queued'[b] /\ Target(b)' = d' /\ \E p \in Nat : InLine(ExecutorOf[b], p, d)'
      BY <1>1, <1>4, <3>1, QueuedForInLineNext
    <3>8. b \in QueuedFor(Target(c))' <=> b \in QueuedFor(Target(c))
      BY <1>4, <1>5, <3>1, <3>2, <3>5, <3>6, <3>7
    <3>9. Passed(b, Target(c)) => Passed(b, Target(c))'
      BY <1>4, <1>5, <3>1, <3>2 DEF Passed
    <3>10. pc'[c] = "checking"
      BY <1>2 DEF WellTyped
    <3>11. ASSUME b \in QueuedFor(Target(c)), NEW p \in Nat, InLine(ExecutorOf[b], p, d),
                  NEW q \in Nat, q = last
           PROVE  p < q
      <4>1. p <= maxPosition[c]
        BY <1>1, <3>1, <3>11 DEF Behind
      <4>. QED
        BY <1>1, <3>11, <4>1
    <3>. QED
      BY <2>3, <3>1, <3>2, <3>5, <3>8, <3>9, <3>10, <3>11, <1>4 DEF Behind
  <2>. QED
    BY <2>1, <2>2, <2>3
<1>. QED
  BY <1>6, <1>7 DEF QueueOrder

LEMMA TimeOutQueue ==
  ASSUME OrderInv, WellTyped', QueueInv, NEW c \in Calls, TimeOut(c)
  PROVE  RowOwned' /\ QueueOrder'
<1>. USE DEF OrderInv, QueueInv, Orderly, history
<1>. DEFINE d == Target(c)
            e == ExecutorOf[c]
<1>1. d \in Directories /\ e \in Executors /\ pc[c] = "waiting"
  BY TargetMissing, ConstantsAssumption DEF TimeOut, Acquiring
<1>2. /\ lockQueue' = [lockQueue EXCEPT ![d] = SetStatus(@, e, "timeout")]
      /\ pc' = [pc EXCEPT ![c] = "failed"]
      /\ UNCHANGED <<locks, queued, maxPosition, ahead, shared, misled>>
  BY DEF TimeOut
<1>3. \A x \in Executors, p \in Nat, f \in Directories :
        InLine(x, p, f)' <=> InLine(x, p, f) /\ ~(f = d /\ x = e)
  BY <1>1, <1>2, LineAfterStatus
<1>4. \A b \in Calls : Target(b)' = Target(b)
  BY <1>2, TargetKept
<1>5. RowOwned'
  BY <1>2, <1>3, <1>4 DEF RowOwned
<1>6. ASSUME NEW a \in Calls, pc'[a] \in Acquiring, NEW b \in ahead'[a], Orderly(a, b)'
      PROVE  Behind(a, b)'
  <2>1. a # c
    BY <1>2, <1>6 DEF WellTyped, Acquiring
  <2>2. CASE b # c
    BY <1>1, <1>2, <1>3, <1>6, <2>1, <2>2, OthersKept DEF WellTyped
  <2>3. CASE b = c
    <3>1. Behind(a, c) /\ Target(a) \in Directories
      BY <1>2, <1>6, <2>1, <2>3, TargetMissing DEF QueueOrder, WellTyped
    <3>2. Passed(c, Target(a))'
      BY <1>2 DEF Passed, Over, WellTyped
    <3>3. \A p \in Nat, f \in Directories : f = d => ~InLine(e, p, f)'
      BY <1>1, <1>3
    <3>4. c \notin QueuedFor(Target(a))'
      <4>. SUFFICES ASSUME c \in QueuedFor(Target(a))' PROVE FALSE
        OBVIOUS
      <4>1. Target(c)' = Target(a)' /\ \E p \in Nat : InLine(e, p, Target(a))'
        BY <1>4, <3>1, QueuedForInLineNext
      <4>2. Target(a)' = d
        BY <1>4, <4>1
      <4>. QED
        BY <1>1, <3>3, <4>1, <4>2 DEF InLine, WaitingRows
    <3>. QED
      BY <2>3, <3>1, <3>2, <3>4 DEF Behind
  <2>. QED
    BY <2>2, <2>3
<1>. QED
  BY <1>5, <1>6 DEF QueueOrder

LEMMA ReleaseLockQueue ==
  ASSUME OrderInv, WellTyped', QueueInv, NEW c \in Calls, ReleaseLock(c) \/ ReleaseFails(c)
  PROVE  RowOwned' /\ QueueOrder'
<1>. USE DEF OrderInv, QueueInv, Orderly, history
<1>1. /\ pc[c] = "releasing" /\ ~queued[c]
      /\ pc'[c] \in {"done", "releasing"}
      /\ UNCHANGED <<queued, maxPosition, lockQueue, ahead, shared, misled>>
      /\ \A b \in Calls \ {c} : pc'[b] = pc[b] /\ locks'[b] = locks[b]
  BY DEF ReleaseLock, ReleaseFails, QueuedPhase, WellTyped
<1>2. RowOwned'
  BY <1>1, OwnersKept
<1>3. \A x \in Executors, p \in Nat, d \in Directories : InLine(x, p, d)' <=> InLine(x, p, d)
  BY <1>1 DEF InLine, WaitingRows
<1>4. ASSUME NEW a \in Calls, pc'[a] \in Acquiring, NEW b \in ahead'[a], Orderly(a, b)'
      PROVE  Behind(a, b)'
  <2>1. a # c
    BY <1>1, <1>4 DEF Acquiring
  <2>2. CASE b # c
    BY <1>1, <1>3, <1>4, <2>1, <2>2, OthersKept
  <2>3. CASE b = c
    <3>1. Behind(a, c)
      BY <1>1, <1>4, <2>1, <2>3 DEF QueueOrder
    <3>2. Passed(c, Target(a))' /\ c \notin QueuedFor(Target(a))'
      BY <1>1 DEF Passed, Over, QueuedFor
    <3>. QED
      BY <2>3, <3>1, <3>2 DEF Behind
  <2>. QED
    BY <2>2, <2>3
<1>. QED
  BY <1>2, <1>4 DEF QueueOrder

LEMMA QueueStep == OrderInv /\ QueueInv /\ [Next]_vars => QueueInv'
<1>. SUFFICES ASSUME OrderInv, QueueInv, [Next]_vars PROVE QueueInv'
  OBVIOUS
<1>1. WellTyped' /\ SoleCall' /\ QueuedPhase'
  BY OrderStep, PhaseStep DEF OrderInv, QueueInv
<1>. USE DEF OrderInv, QueueInv, history
<1>. SUFFICES RowOwned' /\ QueueOrder'
  BY <1>1
<1>2. ASSUME NEW c \in Calls, ReadLocks(c) PROVE RowOwned' /\ QueueOrder'
  BY <1>1, <1>2, QuietStep DEF ReadLocks, WellTyped, Holding, Acquiring, Over
<1>3. ASSUME NEW c \in Calls, ReadQueue(c) PROVE RowOwned' /\ QueueOrder'
  <2>1. ASSUME NEW a \in Calls, pc'[a] \in {"inserting", "leaving"},
               pc[a] \notin {"inserting", "leaving"}
        PROVE  \A b \in ahead[a] : Orderly(a, b)' => b \notin QueuedFor(Target(a))
    <3>1. a = c /\ pc[c] \in {"free", "taken"} /\ MayInsert(c)
      BY <1>3, <2>1 DEF ReadQueue, Refused, WellTyped
    <3>2. \A b : Orderly(a, b)' => Orderly(a, b)
      BY <1>3 DEF ReadQueue, Orderly
    <3>. QED
      BY <3>1, <3>2, TurnIsFirst DEF MayInsert
  <2>2. \A a \in Calls :
          /\ pc[a] \in Holding => pc'[a] \in Holding \cup Over
          /\ pc[a] \in Over => pc'[a] \in Over
          /\ pc'[a] \in Acquiring => pc[a] \in Acquiring
          /\ pc'[a] = "enqueueing" => pc[a] = "enqueueing"
    BY <1>3 DEF ReadQueue, Refused, WellTyped, Holding, Acquiring, Over
  <2>. QED
    BY <1>1, <1>3, <2>1, <2>2, QuietStep DEF ReadQueue
<1>4. ASSUME NEW c \in Calls, InsertLock(c) PROVE RowOwned' /\ QueueOrder'
  BY <1>1, <1>4, QuietStep DEF InsertLock, WellTyped, Holding, Acquiring, Over
<1>5. ASSUME NEW c \in Calls, ExecuteSkill(c) PROVE RowOwned' /\ QueueOrder'
  BY <1>1, <1>5, QuietStep DEF ExecuteSkill, WellTyped, Holding, Acquiring, Over
<1>6. ASSUME NEW c \in Calls, Abort(c) PROVE RowOwned' /\ QueueOrder'
  BY <1>1, <1>6, QuietStep DEF Abort, WellTyped, Holding, Acquiring, Over
<1>7. ASSUME Crash PROVE RowOwned' /\ QueueOrder'
  BY <1>1, <1>7, QuietStep DEF Crash, Alive, Ended, WellTyped, Holding, Acquiring, Over
<1>8. ASSUME UNCHANGED <<callVars, lockQueue, history>> PROVE RowOwned' /\ QueueOrder'
  BY <1>1, <1>8, QuietStep DEF callVars, WellTyped, Holding, Acquiring, Over
<1>9. SelectExpired \/ DeleteExpired \/ SweepFails \/ (\E d \in Directories : Expire(d))
          \/ UNCHANGED vars
        => UNCHANGED <<callVars, lockQueue, history>>
  BY DEF SelectExpired, DeleteExpired, SweepFails, Expire, vars
<1>10. ASSUME NEW c \in Calls, QueueUnread(c) PROVE RowOwned' /\ QueueOrder'
  <2>1. ASSUME NEW a \in Calls, NEW b, pc'[a] \in {"inserting", "leaving"},
               pc[a] \notin {"inserting", "leaving"}
        PROVE  ~Orderly(a, b)'
    BY <1>10, <2>1 DEF QueueUnread, Refused, WellTyped, Orderly
  <2>2. \A a \in Calls :
          /\ pc[a] \in Holding => pc'[a] \in Holding \cup Over
          /\ pc[a] \in Over => pc'[a] \in Over
          /\ pc'[a] \in Acquiring => pc[a] \in Acquiring
          /\ pc'[a] = "enqueueing" => pc[a] = "enqueueing"
    BY <1>10 DEF QueueUnread, Refused, WellTyped, Holding, Acquiring, Over
  <2>. QED
    BY <1>1, <1>10, <2>1, <2>2, QuietStep DEF QueueUnread
<1>11. ASSUME NEW c \in Calls, StatementFails(c) PROVE RowOwned' /\ QueueOrder'
  BY <1>1, <1>11, QuietStep DEF StatementFails, WellTyped, Holding, Acquiring, Over
<1>. QED
  BY <1>1, <1>2, <1>3, <1>4, <1>5, <1>6, <1>7, <1>8, <1>9, <1>10, <1>11, BeginQueue, LeaveQueueQueue,
     ReadPositionQueue, PositionUnreadQueue, EnqueueQueue, TimeOutQueue, ReleaseLockQueue
     DEF Next, Step, SqlError

\* The queue is FIFO, for any number of calls, executors and directories and
\* however calls time out, are aborted, outlast their locks or die: whoever was
\* queued when a call turned to a directory has its turn before that call, unless
\* that call's own read of the queue failed or one of the two shares its id.
THEOREM QueueIsFair == Spec => []NoOvertaking
<1>1. OrderInv /\ QueueInv => NoOvertaking
  <2>. SUFFICES ASSUME OrderInv, QueueInv, NEW b \in Calls, NEW c \in Calls,
                       Overtakes(c, b), Orderly(c, b)
                PROVE  FALSE
    BY DEF NoOvertaking, Orderly
  <2>. QED
    BY DEF QueueInv, QueueOrder, Behind, Overtakes, Acquiring
<1>. QED
  BY OrderInit, OrderStep, QueueInit, QueueStep, <1>1, PTL DEF Spec

-----------------------------------------------------------------------------
(* Who holds a directory.  MutualExclusion does not hold of the code, which    *)
(* reads active_locks in one statement and writes it in another: these lemmas  *)
(* say what it takes, and that nothing else in the code breaks it.             *)

\* A call has locked no directory twice.
LockedOnce == \A c \in Calls : Distinct(locks[c])

\* A call that goes by a lock finds itself in active_locks, and is the only one
\* that goes by it.
Written == \A c \in Calls, d \in Directories : Claims(c, d) => activeLocks[d] = ExecutorOf[c]

HeldOnce ==
  \A b, c \in Calls, d \in Directories : Claims(b, d) /\ Claims(c, d) => b = c

\* What the clean-up has selected is expired still, and still the same row.
Swept == \A row \in sweep : row[1] \in expired /\ activeLocks[row[1]] = row[2]

\* What the SELECT found is still so.
FreeSeen ==
  \A c \in Calls : pc[c] \in {"free", "inserting"} => activeLocks[Target(c)] = NoExecutor

\* The steps of a call that neither write active_locks nor change what it holds.
Plain(c) ==
  \/ Begin(c) \/ ReadLocks(c) \/ ReadQueue(c) \/ QueueUnread(c)
  \/ ReadPosition(c) \/ PositionUnread(c) \/ Enqueue(c) \/ TimeOut(c)
  \/ StatementFails(c) \/ ExecuteSkill(c) \/ Abort(c)

\* The steps of nobody that leave active_locks alone.
Still ==
  \/ SelectExpired \/ SweepFails \/ Crash \/ UNCHANGED vars
  \/ \E d \in Directories : Expire(d)

LEMMA StepKinds ==
  ASSUME [Next]_vars
  PROVE  \/ \E c \in Calls : \/ Plain(c) \/ InsertLock(c) \/ LeaveQueue(c)
                             \/ ReleaseLock(c) \/ ReleaseFails(c)
         \/ DeleteExpired \/ Still
BY DEF Next, Step, SqlError, Plain, Still

LEMMA PlainKeeps ==
  ASSUME OrderInv, NEW c \in Calls, Plain(c)
  PROVE  /\ UNCHANGED <<activeLocks, locks, expired, sweep>>
         /\ \A b \in Calls \ {c} : pc'[b] = pc[b]
         /\ pc'[c] # "leaving"
         /\ pc'[c] \notin {"new"} \cup Ended => pc[c] \notin {"new"} \cup Ended \/ locks[c] = <<>>
BY DEF Plain, Begin, ReadLocks, ReadQueue, QueueUnread, ReadPosition, PositionUnread, Enqueue, TimeOut,
   StatementFails, ExecuteSkill, Abort, Refused, Proceed, Ended, OrderInv, NewEmpty, WellTyped

LEMMA StillKeeps ==
  ASSUME OrderInv, Still
  PROVE  /\ UNCHANGED <<activeLocks, locks>>
         /\ \A b \in Calls : pc'[b] \in {pc[b], "gone"}
BY DEF Still, SelectExpired, SweepFails, Crash, Expire, vars, callVars

\* The lock that a call takes, and the one that it gives back.
LEMMA LeaveTakes ==
  ASSUME OrderInv, LockedOnce, NEW c \in Calls, LeaveQueue(c)
  PROVE  /\ UNCHANGED <<activeLocks, expired, sweep>>
         /\ \A b \in Calls \ {c} : pc'[b] = pc[b] /\ locks'[b] = locks[b]
         /\ pc[c] = "leaving" /\ pc'[c] \in {"executing", "checking"}
         /\ ToSet(locks'[c]) = ToSet(locks[c]) \cup {Target(c)}
         /\ Distinct(locks'[c])
<1>1. /\ Target(c) \in Directories /\ locks[c] \in Seq(Directories) /\ Distinct(locks[c])
      /\ Target(c) \notin ToSet(locks[c])
  BY TargetMissing DEF LeaveQueue, Acquiring, OrderInv, WellTyped, Missing, LockedOnce
<1>. DEFINE got == Append(locks[c], Target(c))
<1>2. Distinct(got) /\ ToSet(got) = ToSet(locks[c]) \cup {Target(c)}
  BY <1>1, AppendDistinct
<1>3. /\ locks' = [locks EXCEPT ![c] = got] /\ pc' = [pc EXCEPT ![c] = Proceed(c, got)]
      /\ pc[c] = "leaving" /\ UNCHANGED <<activeLocks, expired, sweep>>
  BY DEF LeaveQueue
<1>. HIDE DEF got
<1>. QED
  BY <1>2, <1>3 DEF Proceed, OrderInv, WellTyped

LEMMA ReleaseGives ==
  ASSUME OrderInv, LockedOnce, NEW c \in Calls, ReleaseLock(c) \/ ReleaseFails(c)
  PROVE  /\ \A b \in Calls \ {c} : pc'[b] = pc[b] /\ locks'[b] = locks[b]
         /\ pc[c] = "releasing" /\ pc'[c] \in {"releasing", "done"} /\ sweep' = sweep
         /\ ToSet(locks'[c]) = ToSet(locks[c]) \ {Head(locks[c])}
         /\ Head(locks[c]) \in ToSet(locks[c])
         /\ Head(locks[c]) \in Directories
         /\ Distinct(locks'[c])
<1>. DEFINE q == locks[c]
<1>1. q \in Seq(Directories) /\ q # <<>> /\ Distinct(q)
  BY DEF ReleaseLock, ReleaseFails, OrderInv, WellTyped, HoldsToRelease, LockedOnce
<1>2. Distinct(Tail(q)) /\ ToSet(Tail(q)) = ToSet(q) \ {Head(q)}
  BY <1>1, TailDistinct
<1>3. Head(q) \in Directories /\ Head(q) \in ToSet(q)
  <2>1. Head(q) = q[1] /\ 1 \in 1..Len(q) /\ ToSet(q) = {q[k] : k \in 1..Len(q)}
    BY <1>1, ToSetElements
  <2>. HIDE DEF q
  <2>. QED
    BY <1>1, <2>1, HeadTailProperties
<1>4. /\ locks' = [locks EXCEPT ![c] = Tail(q)] /\ pc[c] = "releasing" /\ sweep' = sweep
      /\ pc' = [pc EXCEPT ![c] = IF Tail(q) = <<>> THEN "done" ELSE "releasing"]
  BY DEF ReleaseLock, ReleaseFails
<1>. QED
  BY <1>2, <1>3, <1>4 DEF OrderInv, WellTyped

LEMMA LockedOnceStep == OrderInv /\ LockedOnce /\ [Next]_vars => LockedOnce'
<1>. SUFFICES ASSUME OrderInv, LockedOnce, [Next]_vars PROVE LockedOnce'
  OBVIOUS
<1>1. ASSUME NEW c \in Calls, LeaveQueue(c) PROVE LockedOnce'
  BY <1>1, LeaveTakes DEF LockedOnce
<1>2. ASSUME NEW c \in Calls, ReleaseLock(c) \/ ReleaseFails(c) PROVE LockedOnce'
  BY <1>2, ReleaseGives DEF LockedOnce
<1>3. CASE UNCHANGED locks
  BY <1>3 DEF LockedOnce
<1>. QED
  BY <1>1, <1>2, <1>3, StepKinds, PlainKeeps, StillKeeps DEF InsertLock, DeleteExpired, callVars

\* A call comes to go by a lock only where it writes it.
LEMMA ClaimsStep ==
  ASSUME OrderInv, LockedOnce, [Next]_vars,
         NEW c \in Calls, NEW d \in Directories, Claims(c, d)'
  PROVE  Claims(c, d) \/ (InsertLock(c) /\ d = Target(c))
<1>. USE DEF Claims, Alive
<1>0. Target(c)' = Target(c) \/ locks'[c] # locks[c]
  BY TargetKept
<1>1. ASSUME NEW b \in Calls, Plain(b) PROVE Claims(c, d)
  BY <1>0, <1>1, PlainKeeps, ToSetEmpty
<1>2. ASSUME NEW b \in Calls, InsertLock(b) PROVE Claims(c, d) \/ (InsertLock(c) /\ d = Target(c))
  BY <1>0, <1>2 DEF InsertLock, Ended, OrderInv, WellTyped
<1>3. ASSUME NEW b \in Calls, LeaveQueue(b) PROVE Claims(c, d)
  BY <1>0, <1>3, LeaveTakes DEF Ended
<1>4. ASSUME NEW b \in Calls, ReleaseLock(b) \/ ReleaseFails(b) PROVE Claims(c, d)
  BY <1>0, <1>4, ReleaseGives DEF Ended
<1>5. CASE Still
  BY <1>0, <1>5, StillKeeps DEF Ended
<1>6. CASE DeleteExpired
  BY <1>0, <1>6 DEF DeleteExpired, callVars
<1>. QED
  BY <1>1, <1>2, <1>3, <1>4, <1>5, <1>6, StepKinds

\* A row changes only where a call writes it, gives it back, or the clean-up
\* deletes it.
LEMMA RowStep ==
  ASSUME OrderInv, LockedOnce, [Next]_vars, NEW d \in Directories
  PROVE  \/ activeLocks'[d] = activeLocks[d] /\ (d \in expired' => d \in expired \/ Expire(d))
         \/ \E c \in Calls : InsertLock(c) /\ d = Target(c) /\ activeLocks'[d] = ExecutorOf[c]
                                           /\ d \notin expired'
         \/ /\ activeLocks'[d] = NoExecutor /\ d \notin expired'
            /\ \/ \E c \in Calls : ReleaseLock(c) /\ Claims(c, d) /\ activeLocks[d] = ExecutorOf[c]
               \/ \E row \in sweep : row[1] = d /\ activeLocks[d] = row[2]
<1>. USE DEF OrderInv, WellTyped
<1>1. ASSUME NEW b \in Calls, Plain(b)
      PROVE  activeLocks'[d] = activeLocks[d] /\ (d \in expired' => d \in expired)
  BY <1>1, PlainKeeps
<1>2. ASSUME NEW b \in Calls, InsertLock(b)
      PROVE  \/ activeLocks'[d] = activeLocks[d] /\ (d \in expired' => d \in expired)
             \/ d = Target(b) /\ activeLocks'[d] = ExecutorOf[b] /\ d \notin expired'
  BY <1>2 DEF InsertLock
<1>3. ASSUME NEW b \in Calls, LeaveQueue(b)
      PROVE  activeLocks'[d] = activeLocks[d] /\ (d \in expired' => d \in expired)
  BY <1>3, LeaveTakes
<1>4. ASSUME NEW x, NEW e, DeleteLock(x, e)
      PROVE  \/ activeLocks'[d] = activeLocks[d] /\ (d \in expired' => d \in expired)
             \/ d = x /\ activeLocks[d] = e /\ activeLocks'[d] = NoExecutor /\ d \notin expired'
  BY <1>4 DEF DeleteLock
<1>5. ASSUME NEW b \in Calls, ReleaseLock(b)
      PROVE  \/ activeLocks'[d] = activeLocks[d] /\ (d \in expired' => d \in expired)
             \/ /\ Claims(b, d) /\ activeLocks[d] = ExecutorOf[b]
                /\ activeLocks'[d] = NoExecutor /\ d \notin expired'
  <2>1. DeleteLock(Head(locks[b]), ExecutorOf[b])
    BY <1>5 DEF ReleaseLock
  <2>2. Claims(b, Head(locks[b]))
    BY <1>5, ReleaseGives DEF Claims, Alive, Ended
  <2>. QED
    BY <1>4, <2>1, <2>2
<1>6. ASSUME NEW b \in Calls, ReleaseFails(b)
      PROVE  activeLocks'[d] = activeLocks[d] /\ (d \in expired' => d \in expired)
  BY <1>6 DEF ReleaseFails
<1>7. CASE DeleteExpired
  <2>1. PICK row \in sweep : DeleteLock(row[1], row[2])
    BY <1>7 DEF DeleteExpired
  <2>. QED
    BY <1>4, <2>1
<1>8. CASE Still
  <2>1. activeLocks'[d] = activeLocks[d]
    BY <1>8, StillKeeps
  <2>2. d \in expired' => d \in expired \/ Expire(d)
    BY <1>8 DEF Still, SelectExpired, SweepFails, Crash, Expire, vars
  <2>. QED
    BY <2>1, <2>2
<1>. QED
  BY <1>1, <1>2, <1>3, <1>5, <1>6, <1>7, <1>8, StepKinds

HolderInv == Written /\ HeldOnce /\ Swept

\* A row that a call has written stays until that call gives it back: nobody
\* overwrites it, and what the clean-up deletes is nobody's any more.
LEMMA HolderStep ==
  ASSUME OrderInv, LockedOnce, NoOverwrite, NoOutlast, HolderInv, [Next]_vars
  PROVE  HolderInv'
<1>. USE DEF HolderInv
<1>1. \A c \in Calls : ExecutorOf[c] \in Executors /\ ExecutorOf[c] # NoExecutor
  BY ConstantsAssumption
\* A directory that a call is about to write is nobody's and has no row to sweep.
<1>2. ASSUME NEW c \in Calls, InsertLock(c), NEW d \in Directories, d = Target(c)
      PROVE  /\ \A b \in Calls : ~Claims(b, d)
             /\ \A row \in sweep : row[1] # d
  <2>1. activeLocks[d] = NoExecutor
    BY <1>2 DEF NoOverwrite, InsertLock
  <2>2. \A row \in sweep : row[2] # NoExecutor
    BY ConstantsAssumption DEF OrderInv, WellTyped
  <2>. QED
    BY <1>1, <2>1, <2>2 DEF Written, Swept
\* A row that is swept is nobody's.
<1>3. ASSUME NEW row \in sweep, NEW b \in Calls
      PROVE  row[1] \in Directories /\ row[2] \in Executors /\ ~Claims(b, row[1])
  BY DEF Swept, Written, NoOutlast, HolderAlive, OrderInv, WellTyped
<1>4. ASSUME NEW c \in Calls, NEW d \in Directories, Claims(c, d)'
      PROVE  activeLocks'[d] = ExecutorOf[c]
  <2>1. CASE Claims(c, d)
    <3>1. activeLocks[d] = ExecutorOf[c]
      BY <2>1 DEF Written
    <3>2. ASSUME NEW b \in Calls, ReleaseLock(b), Claims(b, d), activeLocks'[d] = NoExecutor PROVE FALSE
      <4>1. b = c
        BY <2>1, <3>2 DEF HeldOnce
      <4>2. d = Head(locks[c])
        BY <1>1, <3>1, <3>2, <4>1 DEF ReleaseLock, DeleteLock, OrderInv, WellTyped
      <4>. QED
        BY <1>4, <3>2, <4>1, <4>2, ReleaseGives DEF Claims
    <3>. QED
      BY <1>2, <1>3, <2>1, <3>1, <3>2, RowStep
  <2>2. CASE InsertLock(c) /\ d = Target(c)
    BY <2>2 DEF InsertLock, OrderInv, WellTyped
  <2>. QED
    BY <1>4, <2>1, <2>2, ClaimsStep
<1>5. ASSUME NEW b \in Calls, NEW c \in Calls, NEW d \in Directories, Claims(b, d)', Claims(c, d)'
      PROVE  b = c
  <2>1. ASSUME InsertLock(b), InsertLock(c) PROVE b = c
    BY <2>1 DEF InsertLock, OrderInv, WellTyped
  <2>. QED
    BY <1>2, <1>5, <2>1, ClaimsStep DEF HeldOnce
<1>6. ASSUME NEW row \in sweep'
      PROVE  row[1] \in expired' /\ activeLocks'[row[1]] = row[2]
  <2>1. CASE row \in sweep
    <3>1. /\ row[1] \in expired /\ activeLocks[row[1]] = row[2]
          /\ row[1] \in Directories /\ row[2] \in Executors
      BY <1>3, <2>1 DEF Swept, OrderInv, WellTyped
    <3>2. CASE DeleteExpired
      <4>1. PICK other \in sweep : DeleteLock(other[1], other[2]) /\ sweep' = sweep \ {other}
        BY <3>2 DEF DeleteExpired
      <4>2. other[1] # row[1]
        <5>1. other = <<other[1], other[2]>> /\ row = <<row[1], row[2]>>
          BY <2>1 DEF OrderInv, WellTyped
        <5>2. activeLocks[other[1]] = other[2] /\ other # row
          BY <1>6, <4>1 DEF Swept
        <5>. QED
          BY <3>1, <5>1, <5>2
      <4>. QED
        BY <3>1, <4>1, <4>2 DEF DeleteLock, OrderInv, WellTyped
    <3>3. CASE ~DeleteExpired
      <4>1. ASSUME NEW c \in Calls, InsertLock(c)
            PROVE  row[1] \in expired' /\ activeLocks'[row[1]] = row[2]
        BY <1>2, <2>1, <3>1, <4>1 DEF InsertLock, OrderInv, WellTyped
      <4>2. ASSUME NEW c \in Calls, ReleaseLock(c)
            PROVE  row[1] \in expired' /\ activeLocks'[row[1]] = row[2]
        <5>1. Head(locks[c]) # row[1]
          BY <1>3, <2>1, <4>2, ReleaseGives DEF Claims, Alive, Ended
        <5>. QED
          BY <3>1, <4>2, <5>1 DEF ReleaseLock, DeleteLock, OrderInv, WellTyped
      <4>3. ASSUME NEW c \in Calls, Plain(c) \/ LeaveQueue(c) \/ ReleaseFails(c)
            PROVE  row[1] \in expired' /\ activeLocks'[row[1]] = row[2]
        BY <3>1, <4>3, PlainKeeps, LeaveTakes DEF ReleaseFails
      <4>4. CASE Still
        BY <3>1, <4>4 DEF Still, SelectExpired, SweepFails, Crash, Expire, vars, callVars
      <4>. QED
        BY <3>3, <4>1, <4>2, <4>3, <4>4, StepKinds
    <3>. QED
      BY <3>2, <3>3
  <2>2. CASE SelectExpired
    BY <1>6, <2>2 DEF SelectExpired
  <2>3. sweep' \subseteq sweep \/ SelectExpired
    <3>1. \A c \in Calls : Plain(c) => sweep' = sweep
      BY PlainKeeps
    <3>. QED
      BY <3>1, StepKinds DEF Still, InsertLock, LeaveQueue, ReleaseLock, ReleaseFails, DeleteExpired,
         SweepFails, Crash, Expire, vars
  <2>. QED
    BY <1>6, <2>1, <2>2, <2>3
<1>. QED
  BY <1>4, <1>5, <1>6 DEF Written, HeldOnce, Swept

\* If a lock expires only when nobody is left to give it back, it has expired
\* under nobody.
LEMMA OutlastStep ==
  ASSUME MayOutlast = FALSE, OrderInv, LockedOnce, NoOutlast, [Next]_vars
  PROVE  NoOutlast'
<1>. SUFFICES ASSUME NEW d \in expired', NEW c \in Calls,
                     ExecutorOf[c] = activeLocks'[d], Claims(c, d)'
              PROVE  FALSE
  BY DEF NoOutlast, HolderAlive
<1>1. d \in Directories /\ activeLocks'[d] # NoExecutor
  <2>1. WellTyped'
    BY OrderStep DEF OrderInv
  <2>. QED
    BY <2>1 DEF WellTyped
<1>2. activeLocks'[d] = activeLocks[d] /\ (d \in expired \/ Expire(d))
  BY <1>1, RowStep
<1>3. ~HolderAlive(d)
  BY <1>2 DEF NoOutlast, Expire, Leaked
<1>4. InsertLock(c) /\ d = Target(c)
  BY <1>1, <1>2, <1>3, ClaimsStep DEF HolderAlive
<1>. QED
  BY <1>4 DEF InsertLock

\* Without a race, what a call found free is free when it inserts its row.
LEMMA FreeSeenStep ==
  ASSUME OrderInv, NoRace, FreeSeen, [Next]_vars
  PROVE  FreeSeen'
<1>. USE DEF OrderInv, WellTyped
<1>1. ASSUME NEW c \in Calls, InsertLock(c) PROVE FreeSeen'
  <2>1. /\ activeLocks' = [activeLocks EXCEPT ![Target(c)] = ExecutorOf[c]]
        /\ pc' = [pc EXCEPT ![c] = "leaving"] /\ pc[c] = "inserting" /\ locks' = locks
    BY <1>1 DEF InsertLock
  <2>2. ASSUME NEW b \in Calls, pc'[b] \in {"free", "inserting"}
        PROVE  activeLocks'[Target(b)'] = NoExecutor
    <3>1. b # c /\ pc[b] \in {"free", "inserting"} /\ Target(b)' = Target(b)
      BY <2>1, <2>2 DEF Target
    <3>2. Target(b) # Target(c) /\ Target(b) \in Directories
      BY <2>1, <3>1, TargetMissing DEF NoRace, Acquiring
    <3>. QED
      BY <2>1, <3>1, <3>2 DEF FreeSeen
  <2>. QED
    BY <2>2 DEF FreeSeen
<1>2. ASSUME \A b \in Calls : pc'[b] \in {"free", "inserting"} =>
               /\ activeLocks[Target(b)] = NoExecutor
               /\ locks'[b] = locks[b] /\ Target(b) \in Directories,
             \A d \in Directories : activeLocks'[d] \in {activeLocks[d], NoExecutor}
      PROVE  FreeSeen'
  <2>1. \A b \in Calls : pc'[b] \in {"free", "inserting"} => Target(b)' = Target(b)
    BY <1>2, TargetKept
  <2>. QED
    BY <1>2, <2>1 DEF FreeSeen
<1>3. \A b \in Calls : pc[b] \in {"free", "inserting"} =>
        activeLocks[Target(b)] = NoExecutor /\ Target(b) \in Directories
  BY TargetMissing DEF FreeSeen, Acquiring
<1>4. ASSUME NEW c \in Calls, ReadLocks(c) PROVE FreeSeen'
  <2>1. Target(c) \in Directories
    BY <1>4, TargetMissing DEF ReadLocks, Acquiring
  <2>. QED
    BY <1>2, <1>3, <1>4, <2>1 DEF ReadLocks
<1>5. ASSUME NEW c \in Calls,
             Begin(c) \/ ReadQueue(c) \/ LeaveQueue(c) \/ ReadPosition(c) \/ Enqueue(c)
               \/ ExecuteSkill(c) \/ ReleaseLock(c) \/ TimeOut(c) \/ Abort(c) \/ SqlError(c)
      PROVE  FreeSeen'
  <2>1. /\ \A b \in Calls \ {c} : pc'[b] = pc[b] /\ locks'[b] = locks[b]
        /\ pc'[c] \in {"free", "inserting"} => pc[c] = "free" /\ locks'[c] = locks[c]
    BY <1>5 DEF Begin, ReadQueue, LeaveQueue, ReadPosition, Enqueue, ExecuteSkill, ReleaseLock,
       TimeOut, Abort, SqlError, QueueUnread, PositionUnread, StatementFails, ReleaseFails,
       Proceed, Refused, MayInsert
  <2>2. \A d \in Directories : activeLocks'[d] \in {activeLocks[d], NoExecutor}
    BY <1>5 DEF Begin, ReadQueue, LeaveQueue, ReadPosition, Enqueue, ExecuteSkill, ReleaseLock,
       DeleteLock, TimeOut, Abort, SqlError, QueueUnread, PositionUnread, StatementFails, ReleaseFails
  <2>. QED
    BY <1>2, <1>3, <2>1, <2>2
<1>6. ASSUME Still \/ DeleteExpired PROVE FreeSeen'
  <2>1. /\ UNCHANGED locks
        /\ \A b \in Calls : pc'[b] \in {pc[b], "gone"}
        /\ \A d \in Directories : activeLocks'[d] \in {activeLocks[d], NoExecutor}
    BY <1>6, StillKeeps DEF DeleteExpired, DeleteLock, callVars
  <2>. QED
    BY <1>2, <1>3, <2>1
<1>. QED
  BY <1>1, <1>4, <1>5, <1>6, StepKinds DEF Plain, SqlError

LEMMA OnceInvariant == Spec => [](OrderInv /\ LockedOnce)
<1>1. Init => LockedOnce
  BY DEF Init, LockedOnce, Distinct
<1>. QED
  BY <1>1, OrderInit, OrderStep, LockedOnceStep, PTL DEF Spec

\* A write lock excludes every other skill call, of whatever thread or process
\* and under whatever id, as long as no INSERT of try_acquire finds a row to
\* overwrite and no call outlasts its lock: aborts, timeouts, failed statements,
\* restarts, and the clean-up that deletes from a stale list, take the lock from
\* nobody who runs.
THEOREM LocksExclude == Spec /\ []NoOverwrite /\ []NoOutlast => []MutualExclusion
<1>1. Init => HolderInv
  BY ToSetEmpty DEF Init, HolderInv, Swept, Written, HeldOnce, Claims, Alive
<1>2. OrderInv /\ LockedOnce /\ NoOverwrite /\ NoOutlast /\ HolderInv /\ [Next]_vars => HolderInv'
  BY HolderStep
<1>3. OrderInv /\ HolderInv => MutualExclusion
  <2>. SUFFICES ASSUME OrderInv, HolderInv, NEW b \in Calls, NEW c \in Calls,
                       pc[b] = "executing", pc[c] = "executing",
                       NEW d \in ToSet(locks[b]) \cap ToSet(locks[c])
                PROVE  b = c
    BY DEF MutualExclusion
  <2>1. d \in Directories
    BY ToSetAppend DEF OrderInv, WellTyped
  <2>2. Claims(b, d) /\ Claims(c, d)
    BY DEF Claims, Alive, Ended
  <2>. QED
    BY <2>1, <2>2 DEF HolderInv, HeldOnce
<1>. QED
  BY <1>1, <1>2, <1>3, OnceInvariant, PTL DEF Spec

\* An INSERT finds a row to overwrite only after a race: two calls that found the
\* directory free before either had written that it is not.
THEOREM OnlyRacesOverwrite == Spec /\ []NoRace => []NoOverwrite
<1>1. Init => FreeSeen
  BY DEF Init, FreeSeen
<1>2. OrderInv /\ NoRace /\ FreeSeen /\ [Next]_vars => FreeSeen'
  BY FreeSeenStep
<1>3. FreeSeen => NoOverwrite
  BY DEF FreeSeen, NoOverwrite
<1>. QED
  BY <1>1, <1>2, <1>3, OrderInit, OrderStep, PTL DEF Spec

\* If a lock expires only when nobody is left to give it back, it never expires
\* while a call may still use it.
THEOREM NothingOutlasts ==
  ASSUME MayOutlast = FALSE
  PROVE  Spec => []NoOutlast
<1>1. Init => NoOutlast
  BY DEF Init, NoOutlast
<1>2. OrderInv /\ LockedOnce /\ NoOutlast /\ [Next]_vars => NoOutlast'
  BY OutlastStep
<1>. QED
  BY <1>1, <1>2, OnceInvariant, PTL DEF Spec

\* So the skills that run hold disjoint directories, for any number of calls,
\* executors, directories, aborts and restarts, unless two tries race.
THEOREM ExclusionUnlessRaced ==
  ASSUME MayOutlast = FALSE
  PROVE  Spec /\ []NoRace => []MutualExclusion
BY NothingOutlasts, OnlyRacesOverwrite, LocksExclude, PTL

-----------------------------------------------------------------------------
(* What an abandoned row does to a queue: the wait loop has no clause for a    *)
(* row whose call is gone, and cleanup_expired sweeps active_locks only.       *)

\* What a write of another executor's row does to the head of a queue.
LEMMA HeadAfterUpsert ==
  ASSUME NEW rows \in Rows, NEW x \in Executors, NEW position, NEW i \in DOMAIN rows,
         rows[i].executor # x
  PROVE  LET new == UpsertRow(rows, x, position) IN
         /\ i \in DOMAIN new /\ new[i] = rows[i]
         /\ \A j \in DOMAIN new :
              \/ j \in DOMAIN rows /\ new[j] = rows[j]
              \/ new[j].position = position
<1>. DEFINE new == UpsertRow(rows, x, position)
<1>1. CASE \E j \in DOMAIN rows : rows[j].executor = x
  <2>1. new = [j \in DOMAIN rows |-> IF rows[j].executor = x THEN Row(x, position) ELSE rows[j]]
    BY <1>1 DEF UpsertRow
  <2>2. Row(x, position).position = position
    BY DEF Row
  <2>. HIDE DEF new
  <2>. QED
    BY <2>1, <2>2 DEF new
<1>2. CASE ~\E j \in DOMAIN rows : rows[j].executor = x
  <2>1. new = Append(rows, Row(x, position))
    BY <1>2 DEF UpsertRow
  <2>2. /\ DOMAIN new = 1..(Len(rows) + 1) /\ DOMAIN rows = 1..Len(rows) /\ Len(rows) \in Nat
        /\ \A j \in 1..Len(rows) : new[j] = rows[j]
        /\ new[Len(rows) + 1] = Row(x, position)
    BY <2>1, AppendProperties, LenProperties DEF Rows
  <2>3. Row(x, position).position = position
    BY DEF Row
  <2>. HIDE DEF new
  <2>. QED
    BY <2>2, <2>3 DEF new
<1>. QED
  BY <1>1, <1>2

\* The head of a blocked queue stays there whatever the calls that run write.
LEMMA BlockedHeadStays ==
  ASSUME OrderInv, [Next]_vars,
         NEW d \in Directories, NEW i \in WaitingRows(d),
         IsHead(i, d), IsOver(lockQueue[d][i].executor),
         \A c \in Calls : pc[c] = "enqueueing" /\ Target(c) = d =>
           lockQueue[d][i].position <= maxPosition[c]
  PROVE  /\ i \in WaitingRows(d)' /\ lockQueue'[d][i] = lockQueue[d][i]
         /\ IsHead(i, d)'
<1>. DEFINE row == lockQueue[d][i]
            rows == lockQueue[d]
            new == lockQueue'[d]
<1>4. \A j \in WaitingRows(d) :
        row.position < rows[j].position \/ (row.position = rows[j].position /\ i <= j)
  BY DEF IsHead
<1>. USE DEF OrderInv, WellTyped
<1>1. /\ i \in DOMAIN rows /\ row.status = "waiting" /\ row \in RowSet
      /\ DOMAIN rows = 1..Len(rows) /\ Len(rows) \in Nat
      /\ \A j \in DOMAIN rows : rows[j] \in RowSet
  BY ElementOfSeq, LenProperties DEF WaitingRows, Rows
<1>2. \A c \in Calls : Alive(c) => ExecutorOf[c] # row.executor
  BY DEF IsOver, Alive
<1>3. /\ WaitingRows(d) = {j \in DOMAIN rows : rows[j].status = "waiting"}
      /\ WaitingRows(d)' = {j \in DOMAIN new : new[j].status = "waiting"}
  BY DEF WaitingRows
<1>5. SUFFICES /\ i \in DOMAIN new /\ new[i] = row
               /\ \A j \in DOMAIN new : new[j].status = "waiting" =>
                    \/ j \in DOMAIN rows /\ new[j] = rows[j]
                    \/ row.position < new[j].position
  <2>1. \A j \in WaitingRows(d)' :
          row.position < new[j].position \/ (row.position = new[j].position /\ i <= j)
    BY <1>3, <1>4, <1>5
  <2>. QED
    BY <1>1, <1>3, <1>5, <2>1 DEF IsHead
<1>6. CASE lockQueue' = lockQueue
  BY <1>1, <1>6
<1>7. ASSUME NEW c \in Calls, NEW st \in {"acquired", "timeout"}, pc[c] \in {"leaving", "waiting"},
             lockQueue' = [lockQueue EXCEPT ![Target(c)] = SetStatus(@, ExecutorOf[c], st)]
      PROVE  /\ i \in DOMAIN new /\ new[i] = row
             /\ \A j \in DOMAIN new : new[j].status = "waiting" =>
                  j \in DOMAIN rows /\ new[j] = rows[j]
  <2>1. new = IF Target(c) = d THEN SetStatus(rows, ExecutorOf[c], st) ELSE rows
    BY <1>7
  <2>2. ExecutorOf[c] # row.executor
    BY <1>2, <1>7 DEF Alive, Ended
  <2>3. CASE Target(c) # d
    BY <1>1, <2>1, <2>3
  <2>4. CASE Target(c) = d
    <3>1. new = [j \in DOMAIN rows |-> IF rows[j].executor = ExecutorOf[c]
                                       THEN [rows[j] EXCEPT !.status = st] ELSE rows[j]]
      BY <2>1, <2>4 DEF SetStatus
    <3>2. \A j \in DOMAIN rows : [rows[j] EXCEPT !.status = st].status = st
      BY <1>1 DEF RowSet
    <3>. HIDE DEF new, rows
    <3>. QED
      BY <1>1, <1>7, <2>2, <3>1, <3>2 DEF rows
  <2>. QED
    BY <2>3, <2>4
<1>8. ASSUME NEW c \in Calls, Enqueue(c)
      PROVE  /\ i \in DOMAIN new /\ new[i] = row
             /\ \A j \in DOMAIN new : new[j].status = "waiting" =>
                  \/ j \in DOMAIN rows /\ new[j] = rows[j]
                  \/ row.position < new[j].position
  <2>1. new = IF Target(c) = d THEN UpsertRow(rows, ExecutorOf[c], maxPosition[c] + 1) ELSE rows
    BY <1>8 DEF Enqueue
  <2>2. ExecutorOf[c] # row.executor /\ ExecutorOf[c] \in Executors
    BY <1>2, <1>8, ConstantsAssumption DEF Alive, Ended, Enqueue
  <2>3. CASE Target(c) # d
    BY <1>1, <2>1, <2>3
  <2>4. CASE Target(c) = d
    <3>1. row.position <= maxPosition[c] /\ maxPosition[c] \in Nat /\ row.position \in Nat
      BY <1>1, <1>8, <2>4 DEF Enqueue, RowSet
    <3>2. /\ i \in DOMAIN new /\ new[i] = rows[i]
          /\ \A j \in DOMAIN new :
               \/ j \in DOMAIN rows /\ new[j] = rows[j]
               \/ new[j].position = maxPosition[c] + 1
      <4>1. rows \in Rows
        OBVIOUS
      <4>2. i \in DOMAIN rows /\ rows[i].executor # ExecutorOf[c]
        BY <1>1, <2>2
      <4>3. new = UpsertRow(rows, ExecutorOf[c], maxPosition[c] + 1)
        BY <2>1, <2>4
      <4>. DEFINE position == maxPosition[c] + 1
                  up == UpsertRow(rows, ExecutorOf[c], position)
      <4>4. /\ i \in DOMAIN up /\ up[i] = rows[i]
            /\ \A j \in DOMAIN up :
                 \/ j \in DOMAIN rows /\ up[j] = rows[j]
                 \/ up[j].position = position
        <5>. HIDE DEF rows, position
        <5>. QED
          BY <2>2, <4>1, <4>2, HeadAfterUpsert
      <4>. HIDE DEF rows, new, up
      <4>. QED
        BY <4>3, <4>4 DEF up
    <3>. QED
      BY <3>1, <3>2
  <2>. QED
    BY <2>3, <2>4
<1>9. lockQueue' = lockQueue
      \/ \E c \in Calls : LeaveQueue(c) \/ TimeOut(c) \/ Enqueue(c)
  BY DEF Next, Step, SqlError, Begin, ReadLocks, ReadQueue, InsertLock, ReadPosition, ExecuteSkill,
     ReleaseLock, QueueUnread, PositionUnread, StatementFails, ReleaseFails, Abort, Expire,
     SelectExpired, DeleteExpired, SweepFails, Crash, vars, callVars
<1>. QED
  BY <1>6, <1>7, <1>8, <1>9 DEF LeaveQueue, TimeOut

LEMMA HeadIsUnique ==
  ASSUME OrderInv, NEW d \in Directories, NEW i \in WaitingRows(d), NEW j \in WaitingRows(d),
         IsHead(i, d), IsHead(j, d)
  PROVE  i = j
<1>1. i \in 1..Len(lockQueue[d]) /\ j \in 1..Len(lockQueue[d]) /\ Len(lockQueue[d]) \in Nat
  BY LenProperties DEF WaitingRows, OrderInv, WellTyped, Rows
<1>2. lockQueue[d][i] \in RowSet /\ lockQueue[d][j] \in RowSet
  BY <1>1, ElementOfSeq DEF OrderInv, WellTyped, Rows
<1>3. lockQueue[d][i].position \in Nat /\ lockQueue[d][j].position \in Nat
  BY <1>2 DEF RowSet
<1>. QED
  BY <1>1, <1>3 DEF IsHead

\* No call that reads the queue gets past an abandoned row at its head.
LEMMA HeadRefuses ==
  ASSUME OrderInv, NEW d \in Directories, NEW i \in WaitingRows(d),
         IsHead(i, d), IsOver(lockQueue[d][i].executor),
         NEW c \in Calls, pc[c] = "free", Target(c) = d
  PROVE  ~MayInsert(c)
<1>. SUFFICES ASSUME MayInsert(c) PROVE FALSE
  OBVIOUS
<1>1. PICK j \in WaitingRows(d) : IsHead(j, d) /\ lockQueue[d][j].executor = ExecutorOf[c]
  BY DEF MayInsert, NextInQueue
<1>2. lockQueue[d][i].executor = ExecutorOf[c]
  BY <1>1, HeadIsUnique
<1>. QED
  BY <1>2 DEF IsOver, Ended

\* A read of the queue fails and is taken for an empty queue.
Misread == \E c \in Calls : QueueUnread(c) \/ PositionUnread(c)

LEMMA EndedStays ==
  ASSUME OrderInv, [Next]_vars, NEW c \in Calls, pc[c] \in Ended
  PROVE  pc'[c] = pc[c]
<1>1. ASSUME NEW b \in Calls, Plain(b) \/ InsertLock(b) \/ LeaveQueue(b) \/ ReleaseLock(b)
                                 \/ ReleaseFails(b)
      PROVE  pc'[c] = pc[c]
  BY <1>1 DEF Plain, Begin, ReadLocks, ReadQueue, QueueUnread, ReadPosition, PositionUnread, Enqueue,
     TimeOut, StatementFails, ExecuteSkill, Abort, InsertLock, LeaveQueue, ReleaseLock, ReleaseFails,
     Ended, OrderInv, WellTyped
<1>2. CASE Still
  BY <1>2 DEF Still, SelectExpired, SweepFails, Crash, Expire, Alive, vars, callVars
<1>3. CASE DeleteExpired
  BY <1>3 DEF DeleteExpired, callVars
<1>. QED
  BY <1>1, <1>2, <1>3, StepKinds

\* An executor id whose calls are all over stays so.
LEMMA OverStays ==
  ASSUME OrderInv, [Next]_vars, NEW e, IsOver(e)
  PROVE  IsOver(e)'
BY EndedStays DEF IsOver

LEMMA BlockedStep ==
  ASSUME OrderInv, [Next]_vars, ~Misread, NEW d \in Directories, Blocked(d)
  PROVE  Blocked(d)'
<1>. USE DEF OrderInv, WellTyped
<1>1. PICK i \in WaitingRows(d) :
        /\ IsHead(i, d) /\ IsOver(lockQueue[d][i].executor)
        /\ \A c \in Calls :
             /\ pc[c] = "inserting" => Target(c) # d
             /\ pc[c] = "enqueueing" /\ Target(c) = d => lockQueue[d][i].position <= maxPosition[c]
  BY DEF Blocked
<1>. DEFINE row == lockQueue[d][i]
<1>2. /\ i \in WaitingRows(d)' /\ lockQueue'[d][i] = row
      /\ IsHead(i, d)'
  BY <1>1, BlockedHeadStays
<1>3. IsOver(lockQueue[d][i].executor)'
  <2>1. \A c \in Calls : ExecutorOf[c] = row.executor => pc'[c] \in Ended
    BY <1>1, OverStays DEF IsOver
  <2>. QED
    BY <1>2, <2>1 DEF IsOver
<1>4. ASSUME NEW c \in Calls, pc'[c] = "inserting" PROVE Target(c)' # d
  <2>1. CASE pc[c] = "inserting" /\ locks'[c] = locks[c]
    BY <1>1, <2>1, TargetKept
  <2>2. CASE ReadQueue(c)
    <3>1. pc[c] = "free" /\ MayInsert(c) /\ locks'[c] = locks[c]
      BY <1>4, <2>2 DEF ReadQueue, Refused, MayInsert
    <3>. QED
      BY <1>1, <3>1, HeadRefuses, TargetKept
  <2>3. (pc[c] = "inserting" /\ locks'[c] = locks[c]) \/ ReadQueue(c)
    BY <1>4 DEF Next, Step, SqlError, Misread, Begin, ReadLocks, ReadQueue, InsertLock, LeaveQueue,
       ReadPosition, Enqueue, ExecuteSkill, ReleaseLock, TimeOut, StatementFails, ReleaseFails, Abort,
       Expire, SelectExpired, DeleteExpired, SweepFails, Crash, Proceed, Refused, vars, callVars
  <2>. QED
    BY <2>1, <2>2, <2>3
<1>5. ASSUME NEW c \in Calls, pc'[c] = "enqueueing", Target(c)' = d
      PROVE  row.position <= maxPosition'[c]
  <2>1. CASE pc[c] = "enqueueing" /\ locks'[c] = locks[c] /\ maxPosition'[c] = maxPosition[c]
    BY <1>1, <1>5, <2>1, TargetKept
  <2>2. CASE ReadPosition(c)
    <3>1. Target(c) = d /\ maxPosition'[c] = LastPosition(d)
      BY <1>5, <2>2, TargetKept DEF ReadPosition
    <3>. QED
      BY <1>1, <3>1, LastPositionIsGreatest
  <2>3. \/ pc[c] = "enqueueing" /\ locks'[c] = locks[c] /\ maxPosition'[c] = maxPosition[c]
        \/ ReadPosition(c)
    BY <1>5 DEF Next, Step, SqlError, Misread, Begin, ReadLocks, ReadQueue, InsertLock, LeaveQueue,
       ReadPosition, Enqueue, ExecuteSkill, ReleaseLock, TimeOut, StatementFails, ReleaseFails, Abort,
       Expire, SelectExpired, DeleteExpired, SweepFails, Crash, Proceed, Refused, vars, callVars
  <2>. QED
    BY <2>1, <2>2, <2>3
<1>6. \A c \in Calls :
        /\ pc'[c] = "inserting" => Target(c)' # d
        /\ pc'[c] = "enqueueing" /\ Target(c)' = d => lockQueue'[d][i].position <= maxPosition'[c]
  BY <1>2, <1>4, <1>5
<1>. QED
  BY <1>2, <1>3, <1>6 DEF Blocked

LEMMA StarvedStep ==
  ASSUME OrderInv, [Next]_vars, ~Misread, NEW c \in Calls, NEW d \in Directories, Starved(c, d)
  PROVE  Starved(c, d)' \/ pc'[c] \in {"failed", "gone"}
<1>. USE DEF OrderInv, WellTyped
<1>. DEFINE Trying == {"checking", "free", "taken", "joining", "enqueueing", "waiting"}
<1>1. Blocked(d) /\ pc[c] \in Trying /\ Target(c) = d
  BY DEF Starved
<1>2. Blocked(d)'
  BY <1>1, BlockedStep
<1>3. pc[c] = "free" => ~MayInsert(c)
  BY <1>1, HeadRefuses DEF Blocked
<1>4. pc'[c] \in Trying \cup {"failed", "gone"} /\ locks'[c] = locks[c]
  <2>1. ASSUME NEW b \in Calls,
               Begin(b) \/ Step(b) \/ StatementFails(b) \/ ReleaseFails(b) \/ TimeOut(b) \/ Abort(b)
        PROVE  pc'[c] \in Trying \cup {"failed", "gone"} /\ locks'[c] = locks[c]
    <3>1. CASE b # c
      BY <1>1, <2>1, <3>1 DEF Step, Begin, ReadLocks, ReadQueue, InsertLock, LeaveQueue, ReadPosition,
         Enqueue, ExecuteSkill, ReleaseLock, StatementFails, ReleaseFails, TimeOut, Abort
    <3>2. CASE b = c
      BY <1>1, <1>3, <2>1, <3>2 DEF Step, Begin, ReadLocks, ReadQueue, InsertLock, LeaveQueue,
         ReadPosition, Enqueue, ExecuteSkill, ReleaseLock, StatementFails, ReleaseFails, TimeOut, Abort,
         Refused, MayInsert
    <3>. QED
      BY <3>1, <3>2
  <2>2. CASE DeleteExpired \/ Still
    BY <1>1, <2>2, StillKeeps DEF DeleteExpired, callVars
  <2>. QED
    BY <2>1, <2>2 DEF Next, SqlError, Misread, Still
<1>5. Target(c)' = d
  BY <1>1, <1>4, TargetKept
<1>. QED
  BY <1>2, <1>4, <1>5 DEF Starved

\* A row left waiting by a call that was aborted, whose kernel died or whose
\* mark_timeout failed stays waiting for ever, unless another call is made under
\* its executor id: nothing in the coordinator takes it away, neither
\* cleanup_expired nor a restart nor the passing of its expires_at.
THEOREM AbandonedRowsStay ==
  ASSUME NEW e \in Executors, NEW d \in Directories
  PROVE  Spec => [](Abandoned(e, d) => []Abandoned(e, d))
<1>1. ASSUME OrderInv, Abandoned(e, d), [Next]_vars PROVE Abandoned(e, d)'
  <2>. USE DEF OrderInv
  <2>1. PICK p \in Nat : InLine(e, p, d)
    BY <1>1, RowPosition DEF Abandoned, InLine
  <2>2. IsOver(e) /\ IsOver(e)'
    BY <1>1, OverStays DEF Abandoned
  <2>3. InLine(e, p, d)'
    <3>1. CASE lockQueue' = lockQueue
      BY <2>1, <3>1 DEF InLine, WaitingRows
    <3>2. ASSUME NEW c \in Calls, NEW st \in {"acquired", "timeout"}, pc[c] \in {"leaving", "waiting"},
                 lockQueue' = [lockQueue EXCEPT ![Target(c)] = SetStatus(@, ExecutorOf[c], st)]
          PROVE  InLine(e, p, d)'
      <4>1. /\ Target(c) \in Directories /\ ExecutorOf[c] \in Executors /\ ExecutorOf[c] # e
            /\ WellTyped
        BY <1>1, <2>2, <3>2, TargetMissing, ConstantsAssumption DEF Acquiring, IsOver, Ended
      <4>. QED
        BY <2>1, <3>2, <4>1, LineAfterStatus
    <3>3. ASSUME NEW c \in Calls, Enqueue(c) PROVE InLine(e, p, d)'
      <4>. DEFINE f == Target(c)
                  x == ExecutorOf[c]
                  last == maxPosition[c] + 1
      <4>1. pc[c] = "enqueueing" /\ lockQueue' = [lockQueue EXCEPT ![f] = UpsertRow(@, x, last)]
        BY <3>3 DEF Enqueue
      <4>2. f \in Directories
        BY <1>1, <4>1, TargetMissing DEF Acquiring
      <4>3. x \in Executors /\ x # e
        BY <2>2, <4>1, ConstantsAssumption DEF IsOver, Ended
      <4>4. WellTyped /\ last \in Nat \ {0}
        <5>1. WellTyped /\ maxPosition[c] \in Nat
          BY <1>1 DEF WellTyped
        <5>. QED
          BY <5>1
      <4>. HIDE DEF f, x, last
      <4>. QED
        BY <2>1, <4>1, <4>2, <4>3, <4>4, LineAfterUpsert
    <3>4. lockQueue' = lockQueue
          \/ \E c \in Calls : LeaveQueue(c) \/ TimeOut(c) \/ Enqueue(c)
      BY <1>1 DEF Next, Step, SqlError, Begin, ReadLocks, ReadQueue, InsertLock, ReadPosition,
         ExecuteSkill, ReleaseLock, QueueUnread, PositionUnread, StatementFails, ReleaseFails, Abort,
         Expire, SelectExpired, DeleteExpired, SweepFails, Crash, vars, callVars
    <3>. QED
      BY <3>1, <3>2, <3>3, <3>4 DEF LeaveQueue, TimeOut
  <2>. QED
    BY <2>2, <2>3 DEF Abandoned, InLine
<1>. QED
  BY <1>1, OrderInit, OrderStep, PTL DEF Spec

\* At the head of a queue such a row is never passed, except by a call whose read
\* of the queue fails and is taken for an empty queue.
THEOREM AbandonedRowsBlock ==
  ASSUME NEW d \in Directories
  PROVE  Spec /\ [][~Misread]_vars => [](Blocked(d) => []Blocked(d))
<1>1. OrderInv /\ Blocked(d) /\ [Next]_vars /\ [~Misread]_vars => Blocked(d)'
  <2>1. ASSUME OrderInv, Blocked(d), UNCHANGED vars PROVE Blocked(d)'
    BY <2>1 DEF Blocked, IsHead, IsOver, WaitingRows, Target, vars, callVars
  <2>. QED
    BY <2>1, BlockedStep
<1>. QED
  BY <1>1, OrderInit, OrderStep, PTL DEF Spec

\* So a call that tries to lock that directory never comes to run its
\* skill: it polls until it times out, fails, is aborted or dies.
THEOREM WaitersStarve ==
  ASSUME NEW c \in Calls, NEW d \in Directories
  PROVE  Spec /\ [][~Misread]_vars => [](Starved(c, d) => [](pc[c] # "executing"))
<1>. DEFINE Barred == Starved(c, d) \/ pc[c] \in {"failed", "gone"}
<1>1. OrderInv /\ Barred /\ [Next]_vars /\ [~Misread]_vars => Barred'
  <2>. SUFFICES ASSUME OrderInv, Barred, [Next]_vars, [~Misread]_vars PROVE Barred'
    OBVIOUS
  <2>1. CASE UNCHANGED vars
    BY <2>1 DEF Starved, Blocked, IsHead, IsOver, WaitingRows, Target, vars, callVars
  <2>2. CASE Starved(c, d) /\ ~Misread
    BY <2>2, StarvedStep
  <2>3. CASE pc[c] \in {"failed", "gone"}
    BY <2>3, EndedStays DEF Ended
  <2>. QED
    BY <2>1, <2>2, <2>3
<1>2. Barred => pc[c] # "executing"
  BY DEF Starved
<1>3. Starved(c, d) => Barred
  OBVIOUS
<1>. QED
  BY <1>1, <1>2, <1>3, OrderInit, OrderStep, PTL DEF Spec

-----------------------------------------------------------------------------
(* The event log.                                                            *)

WithLine == {"newline", "sync", "recorded", "unconfirmed", "torn"}
WithNewline == {"sync", "recorded", "unconfirmed"}

LogIInv ==
  /\ LogTypeOK
  \* A text is on a line that the file has begun; one with its newline is on
  \* a line before the last.
  /\ \A a \in Appends : line[a] # 0 => append[a] \in WithLine /\ line[a] <= lastLine
  /\ \A a \in Appends : append[a] \in WithLine => line[a] # 0
  /\ \A a \in Appends : append[a] \in WithNewline => line[a] < lastLine
  /\ \A a \in cut : append[a] = "torn"
  /\ \A a, b \in UnderWay : a # b => {a, b} \in overlaps
  /\ \A a, b \in Appends : SameLine(a, b) =>
       append[a] = "torn" \/ append[b] = "torn" \/ {a, b} \in overlaps

LEMMA LogInvariant == LogSpec => []LogIInv
<1>1. LogInit => LogIInv
  BY LogAssumption DEF LogInit, LogIInv, LogTypeOK, SameLine, UnderWay, WithLine, WithNewline
<1>2. LogIInv /\ [LogNext]_logVars => LogIInv'
  <2>. SUFFICES ASSUME LogIInv, [LogNext]_logVars PROVE LogIInv'
    OBVIOUS
  <2>. USE LogAssumption DEF LogIInv, LogTypeOK, SameLine, UnderWay, WithLine, WithNewline
  <2>1. ASSUME NEW a \in Appends, OpenLog(a) PROVE LogIInv'
    <3>1. LogTypeOK'
      BY <2>1 DEF OpenLog
    <3>. QED
      BY <2>1, <3>1 DEF OpenLog
  <2>2. ASSUME NEW a \in Appends, WriteText(a) PROVE LogIInv'
    BY <2>2 DEF WriteText
  <2>3. ASSUME NEW a \in Appends, WriteNewline(a) PROVE LogIInv'
    BY <2>3 DEF WriteNewline
  <2>4. ASSUME NEW a \in Appends, WriteFails(a) PROVE LogIInv'
    BY <2>4 DEF WriteFails
  <2>5. ASSUME NEW a \in Appends, AppendReturns(a) PROVE LogIInv'
    BY <2>5 DEF AppendReturns
  <2>6. ASSUME NEW a \in Appends, AbortAppend(a) PROVE LogIInv'
    BY <2>6 DEF AbortAppend
  <2>7. ASSUME LogCrash PROVE LogIInv'
    BY <2>7 DEF LogCrash
  <2>8. CASE UNCHANGED logVars
    BY <2>8 DEF logVars
  <2>. QED
    BY <2>1, <2>2, <2>3, <2>4, <2>5, <2>6, <2>7, <2>8 DEF LogNext
<1>. QED
  BY <1>1, <1>2, PTL DEF LogSpec

\* The event log's calls, lines and overlaps keep their form, for any number of
\* appends, failing writes, aborted tasks and restarts.
THEOREM LogTypeCorrect == LogSpec => []LogTypeOK
<1>1. LogIInv => LogTypeOK
  BY DEF LogIInv
<1>. QED
  BY <1>1, LogInvariant, PTL

\* An event that append_event has recorded is read back by read_event_log, for
\* any number of appends: unless it shares its line with one that was broken
\* off or that was appended at the same time.
THEOREM RecordedEventsAreRead == LogSpec => []EventIsRead
<1>1. LogIInv => EventIsRead
  BY DEF LogIInv, EventIsRead, EventsRead, SameLine, WithLine
<1>. QED
  BY <1>1, LogInvariant, PTL

-----------------------------------------------------------------------------
(* The meta.json of a thread.                                                *)

\* Before an update has opened it, its file does not exist.
FilesFresh ==
  /\ \A u \in Updates : update[u] \in {"none", "reading", "opening"} =>
       /\ metaFile # u /\ tmpFile # u
       /\ \A v \in Updates : draft[v].file # u
  /\ tmpFile # Original => tmpFile # metaFile

Overlaps ==
  /\ \A u, v \in HasOpen : u # v => {u, v} \in clashes
  /\ \A u, v \in InSection : u # v => {u, v} \in mixed
  /\ \A u \in Updates : {u} \notin mixed
  /\ clashes \subseteq mixed

LockHeld ==
  /\ \A u \in Marks : u \in InSection \ aborted => marking = u
  /\ \A u, v \in Marks : {u, v} \in mixed => u \in aborted \/ v \in aborted

\* The one update that has .tmp open has it for itself.
TmpOwned ==
  clashes = {} =>
    /\ Readable(files[metaFile])
    /\ \A u \in HasOpen :
         /\ draft[u].file = tmpFile /\ tmpFile # Original
         /\ update[u] = "writing" => files[tmpFile].size = 0
         /\ update[u] = "renaming" =>
              Readable(files[tmpFile]) /\ files[tmpFile].text = draft[u].text

\* The one update in its section has read what it changes.
InTurn ==
  mixed = {} =>
    /\ files[metaFile].text = expected
    /\ \A u \in InSection : update[u] # "reading" => draft[u].text = WithChange(u, expected)

MetaIInv == MetaTypeOK /\ FilesFresh /\ Overlaps /\ LockHeld /\ TmpOwned /\ InTurn

LEMMA MetaTypes == MetaInit => MetaTypeOK
<1>. SUFFICES ASSUME MetaInit PROVE MetaTypeOK
  OBVIOUS
<1>1. NewMeta \in Texts /\ Original \in FileNames
  BY MetaAssumption DEF NewMeta, Texts, FileNames
<1>. QED
  BY <1>1, MetaAssumption DEF MetaInit, MetaTypeOK, NoDraft

LEMMA EndUpdateTypes ==
  ASSUME MetaTypeOK, NEW u \in Updates, NEW how \in {"done", "failed", "left"},
         EndUpdate(u, how)
  PROVE  /\ update' \in [Updates -> {"none", "reading", "opening", "writing", "renaming",
                                     "done", "failed", "left"}]
         /\ draft' \in [Updates -> [text : Texts, file : FileNames]]
         /\ marking' \in Marks \cup {Original}
<1>1. NoDraft \in [text : Texts, file : FileNames]
  BY MetaAssumption DEF NoDraft, NewMeta, Texts, FileNames
<1>. QED
  BY <1>1 DEF MetaTypeOK, EndUpdate, Unlock

LEMMA MetaTypeStep == MetaTypeOK /\ [MetaNext]_metaVars => MetaTypeOK'
<1>. SUFFICES ASSUME MetaTypeOK, [MetaNext]_metaVars PROVE MetaTypeOK'
  OBVIOUS
<1>. DEFINE Stages == {"none", "reading", "opening", "writing", "renaming", "done", "failed",
                       "left"}
            FileStates == [text : Texts, length : 0..MaxLength, size : 0..MaxLength]
            Drafts == [text : Texts, file : FileNames]
<1>. USE MetaAssumption DEF MetaTypeOK
<1>1. ASSUME NEW u \in Updates, BeginUpdate(u) PROVE MetaTypeOK'
  <2>1. update' \in [Updates -> Stages]
    BY <1>1 DEF BeginUpdate, StartUpdate
  <2>2. mixed' \subseteq SUBSET Updates
    BY <1>1 DEF BeginUpdate, StartUpdate, InSection
  <2>3. marking' \in Marks \cup {Original}
    BY <1>1 DEF BeginUpdate
  <2>. QED
    BY <1>1, <2>1, <2>2, <2>3 DEF BeginUpdate, StartUpdate
<1>2. ASSUME NEW u \in Updates, ReadMeta(u) PROVE MetaTypeOK'
  <2>1. CASE Readable(files[metaFile])
    <3>1. PICK text \in Changed(u, files[metaFile].text) :
             draft' = [draft EXCEPT ![u].text = text]
      BY <1>2, <2>1 DEF ReadMeta
    <3>2. files[metaFile].text \in Texts
      OBVIOUS
    <3>3. text \in Texts
      BY <3>2 DEF Changed, Texts
    <3>4. draft' \in [Updates -> Drafts]
      BY <3>1, <3>3
    <3>5. update' \in [Updates -> Stages]
      BY <1>2, <2>1 DEF ReadMeta
    <3>. QED
      BY <1>2, <2>1, <3>4, <3>5 DEF ReadMeta
  <2>2. CASE ~Readable(files[metaFile])
    <3>1. EndUpdate(u, "failed")
      BY <1>2, <2>2 DEF ReadMeta
    <3>. QED
      BY <1>2, <3>1, EndUpdateTypes DEF ReadMeta
  <2>. QED
    BY <2>1, <2>2
<1>3. ASSUME NEW u \in Updates, OpenTmp(u) PROVE MetaTypeOK'
  <2>1. update' \in [Updates -> Stages]
    BY <1>3 DEF OpenTmp
  <2>2. clashes' \subseteq SUBSET Updates
    BY <1>3 DEF OpenTmp, HasOpen
  <2>3. files' \in [FileNames -> FileStates]
    BY <1>3 DEF OpenTmp, FileNames
  <2>4. draft' \in [Updates -> Drafts] /\ tmpFile' \in FileNames
    BY <1>3 DEF OpenTmp, FileNames
  <2>. QED
    BY <1>3, <2>1, <2>2, <2>3, <2>4 DEF OpenTmp
<1>4. ASSUME NEW u \in Updates, WriteTmp(u) PROVE MetaTypeOK'
  <2>1. files' \in [FileNames -> FileStates]
    BY <1>4 DEF WriteTmp
  <2>2. /\ update' \in [Updates -> Stages] /\ draft' \in [Updates -> Drafts]
        /\ marking' \in Marks \cup {Original}
    <3>1. CASE u \in aborted
      BY <1>4, <3>1, EndUpdateTypes DEF WriteTmp
    <3>2. CASE u \notin aborted
      BY <1>4, <3>2 DEF WriteTmp
    <3>. QED
      BY <3>1, <3>2
  <2>. QED
    BY <1>4, <2>1, <2>2 DEF WriteTmp
<1>5. ASSUME NEW u \in Updates, Rename(u) PROVE MetaTypeOK'
  <2>1. /\ update' \in [Updates -> Stages] /\ draft' \in [Updates -> Drafts]
        /\ marking' \in Marks \cup {Original}
    <3>1. EndUpdate(u, "failed") \/ EndUpdate(u, "done")
      BY <1>5 DEF Rename
    <3>. QED
      BY <3>1, EndUpdateTypes
  <2>2. expected' \in Texts
    <3>1. draft[u].text \in Texts
      OBVIOUS
    <3>2. WithChange(u, expected) \in Texts
      BY <3>1 DEF WithChange, Texts
    <3>. QED
      BY <1>5, <3>2 DEF Rename
  <2>3. metaFile' \in FileNames /\ tmpFile' \in FileNames
    BY <1>5 DEF Rename, FileNames
  <2>. QED
    BY <1>5, <2>1, <2>2, <2>3 DEF Rename
<1>6. ASSUME NEW u \in Updates, TmpFails(u) PROVE MetaTypeOK'
  <2>1. files' \in [FileNames -> FileStates]
    <3>1. CASE update[u] = "opening"
      BY <1>6, <3>1 DEF TmpFails
    <3>2. CASE update[u] = "writing"
      <4>1. PICK n \in 0..MaxLength :
               files' = [files EXCEPT ![draft[u].file] =
                           [text |-> @.text, length |-> 0, size |-> n]]
        BY <1>6, <3>2 DEF TmpFails
      <4>. QED
        BY <4>1
    <3>. QED
      BY <1>6, <3>1, <3>2 DEF TmpFails
  <2>2. EndUpdate(u, "failed")
    BY <1>6 DEF TmpFails
  <2>. QED
    BY <1>6, <2>1, <2>2, EndUpdateTypes DEF TmpFails
<1>7. ASSUME NEW u \in Updates, AbortUpdate(u) PROVE MetaTypeOK'
  <2>1. /\ update' \in [Updates -> Stages] /\ draft' \in [Updates -> Drafts]
        /\ marking' \in Marks \cup {Original}
    <3>1. CASE update[u] = "reading"
      BY <1>7, <3>1, EndUpdateTypes DEF AbortUpdate
    <3>2. CASE update[u] # "reading"
      BY <1>7, <3>2 DEF AbortUpdate, Unlock
    <3>. QED
      BY <3>1, <3>2
  <2>. QED
    BY <1>7, <2>1 DEF AbortUpdate, InSection
<1>8. ASSUME MetaCrash PROVE MetaTypeOK'
  <2>1. NoDraft \in Drafts
    BY DEF NoDraft, NewMeta, Texts, FileNames
  <2>2. update' \in [Updates -> Stages]
    BY <1>8 DEF MetaCrash
  <2>. QED
    BY <1>8, <2>1, <2>2 DEF MetaCrash
<1>9. CASE UNCHANGED metaVars
  BY <1>9 DEF metaVars
<1>. QED
  BY <1>1, <1>2, <1>3, <1>4, <1>5, <1>6, <1>7, <1>8, <1>9 DEF MetaNext

LEMMA EndUpdateEffect ==
  ASSUME MetaTypeOK, NEW u \in Updates, NEW how, EndUpdate(u, how), NEW v \in Updates
  PROVE  /\ update'[v] = IF v = u THEN how ELSE update[v]
         /\ draft'[v] = IF v = u THEN NoDraft ELSE draft[v]
         /\ marking' = IF marking = u THEN Original ELSE marking
  BY DEF MetaTypeOK, EndUpdate, Unlock

LEMMA BeginKeeps ==
  ASSUME MetaIInv, NEW u \in Updates, BeginUpdate(u)
  PROVE  FilesFresh' /\ Overlaps' /\ LockHeld' /\ TmpOwned' /\ InTurn'
<1>. USE MetaAssumption
<1>1. /\ update[u] = "none" /\ update' = [update EXCEPT ![u] = "reading"]
      /\ mixed' = mixed \cup {{u, v} : v \in InSection}
      /\ UNCHANGED <<aborted, files, metaFile, tmpFile, draft, clashes, expected>>
      /\ IF u \in Marks THEN marking = Original /\ marking' = u ELSE UNCHANGED marking
  BY DEF BeginUpdate, StartUpdate
<1>2. \A v \in Updates : update'[v] = IF v = u THEN "reading" ELSE update[v]
  BY <1>1 DEF MetaIInv, MetaTypeOK
<1>3. InSection' = InSection \cup {u} /\ u \notin InSection /\ HasOpen' = HasOpen
  BY <1>1, <1>2 DEF InSection, HasOpen
<1>4. FilesFresh'
  BY <1>1, <1>2 DEF MetaIInv, FilesFresh
<1>5. Overlaps'
  <2>1. \A v, w \in HasOpen' : v # w => {v, w} \in clashes'
    BY <1>1, <1>3 DEF MetaIInv, Overlaps
  <2>2. ASSUME NEW v \in InSection', NEW w \in InSection', v # w PROVE {v, w} \in mixed'
    <3>1. CASE v = u
      BY <1>1, <1>3, <2>2, <3>1
    <3>2. CASE w = u
      <4>1. {v, w} = {w, v}
        OBVIOUS
      <4>. QED
        BY <1>1, <1>3, <2>2, <3>2, <4>1
    <3>3. CASE v # u /\ w # u
      BY <1>1, <1>3, <2>2, <3>3 DEF MetaIInv, Overlaps
    <3>. QED
      BY <3>1, <3>2, <3>3
  <2>3. ASSUME NEW v \in Updates PROVE {v} \notin mixed'
    <3>1. \A w \in InSection : {v} # {u, w}
      BY <1>3
    <3>. QED
      BY <1>1, <3>1 DEF MetaIInv, Overlaps
  <2>4. clashes' \subseteq mixed'
    BY <1>1 DEF MetaIInv, Overlaps
  <2>. QED
    BY <2>1, <2>2, <2>3, <2>4 DEF Overlaps
<1>6. LockHeld'
  <2>1. \A x \in Marks : x \in InSection \ aborted => marking = x /\ x # Original
    BY DEF MetaIInv, LockHeld
  <2>2. ASSUME NEW v \in Marks, v \in InSection' \ aborted' PROVE marking' = v
    BY <1>1, <1>3, <2>1, <2>2
  <2>3. ASSUME NEW v \in Marks, NEW w \in Marks, {v, w} \in mixed'
        PROVE  v \in aborted' \/ w \in aborted'
    <3>1. CASE {v, w} \in mixed
      BY <1>1, <3>1 DEF MetaIInv, LockHeld
    <3>2. CASE \E x \in InSection : {v, w} = {u, x}
      <4>1. PICK x \in InSection : {v, w} = {u, x}
        BY <3>2
      <4>2. x \in {v, w} /\ u \in {v, w}
        BY <4>1
      <4>3. u \in Marks /\ x \in Marks /\ marking = Original
        BY <1>1, <4>2
      <4>. QED
        BY <1>1, <2>1, <4>2, <4>3
    <3>. QED
      BY <1>1, <2>3, <3>1, <3>2
  <2>. QED
    BY <2>2, <2>3 DEF LockHeld
<1>7. TmpOwned'
  BY <1>1, <1>2, <1>3 DEF MetaIInv, TmpOwned, Readable, HasOpen
<1>8. InTurn'
  BY <1>1, <1>2, <1>3 DEF MetaIInv, InTurn, WithChange, InSection
<1>. QED
  BY <1>4, <1>5, <1>6, <1>7, <1>8

\* An update that ends and leaves the files alone.
LEMMA EndKeeps ==
  ASSUME MetaIInv, NEW u \in Updates, NEW how \in {"done", "failed", "left"},
         update[u] # "none", EndUpdate(u, how), aborted \subseteq aborted',
         UNCHANGED <<files, metaFile, tmpFile, mixed, clashes, expected>>
  PROVE  FilesFresh' /\ Overlaps' /\ LockHeld' /\ TmpOwned' /\ InTurn'
<1>. USE MetaAssumption
<1>1. MetaTypeOK
  BY DEF MetaIInv
<1>2. \A v \in Updates : /\ update'[v] = IF v = u THEN how ELSE update[v]
                         /\ draft'[v] = IF v = u THEN NoDraft ELSE draft[v]
  BY <1>1, EndUpdateEffect
<1>3. marking' = IF marking = u THEN Original ELSE marking
  BY DEF EndUpdate, Unlock
<1>4. InSection' = InSection \ {u} /\ HasOpen' = HasOpen \ {u}
  BY <1>2 DEF InSection, HasOpen
<1>5. FilesFresh'
  BY <1>2 DEF MetaIInv, FilesFresh, NoDraft
<1>6. Overlaps'
  BY <1>4 DEF MetaIInv, Overlaps
<1>7. LockHeld'
  BY <1>3, <1>4 DEF MetaIInv, LockHeld
<1>8. TmpOwned'
  BY <1>2, <1>4 DEF MetaIInv, TmpOwned, Readable, HasOpen
<1>9. InTurn'
  BY <1>2, <1>4 DEF MetaIInv, InTurn, WithChange, InSection
<1>. QED
  BY <1>5, <1>6, <1>7, <1>8, <1>9

LEMMA ReadKeeps ==
  ASSUME MetaIInv, NEW u \in Updates, ReadMeta(u)
  PROVE  FilesFresh' /\ Overlaps' /\ LockHeld' /\ TmpOwned' /\ InTurn'
<1>. USE MetaAssumption
<1>1. /\ update[u] = "reading"
      /\ UNCHANGED <<aborted, files, metaFile, tmpFile, mixed, clashes, expected>>
  BY DEF ReadMeta
<1>2. CASE Readable(files[metaFile])
  <2>1. /\ update' = [update EXCEPT ![u] = "opening"] /\ marking' = marking
        /\ \E text \in Changed(u, files[metaFile].text) :
             draft' = [draft EXCEPT ![u].text = text]
    BY <1>2 DEF ReadMeta
  <2>2. PICK text \in Changed(u, files[metaFile].text) :
           draft' = [draft EXCEPT ![u].text = text]
    BY <2>1
  <2>3. \A v \in Updates : update'[v] = IF v = u THEN "opening" ELSE update[v]
    BY <2>1 DEF MetaIInv, MetaTypeOK
  <2>4. /\ \A v \in Updates : draft'[v].file = draft[v].file
        /\ \A v \in Updates \ {u} : draft'[v] = draft[v]
        /\ draft'[u].text = text
    BY <2>2 DEF MetaIInv, MetaTypeOK
  <2>5. InSection' = InSection /\ HasOpen' = HasOpen /\ u \in InSection /\ u \notin HasOpen
    BY <1>1, <2>3 DEF InSection, HasOpen
  <2>6. FilesFresh'
    BY <1>1, <2>3, <2>4 DEF MetaIInv, FilesFresh
  <2>7. Overlaps' /\ LockHeld'
    BY <1>1, <2>1, <2>5 DEF MetaIInv, Overlaps, LockHeld
  <2>8. TmpOwned'
    BY <1>1, <2>3, <2>4, <2>5 DEF MetaIInv, TmpOwned, Readable, HasOpen
  <2>9. InTurn'
    <3>. SUFFICES ASSUME mixed = {}
                  PROVE  /\ files[metaFile].text = expected
                         /\ \A v \in InSection : update'[v] # "reading" =>
                              draft'[v].text = WithChange(v, expected)'
      BY <1>1, <2>5 DEF InTurn
    <3>1. \A v \in InSection : v = u
      BY <2>5 DEF MetaIInv, Overlaps
    <3>2. files[metaFile].text = expected /\ expected \in Texts
      BY DEF MetaIInv, InTurn, MetaTypeOK
    <3>3. text = IF u \in Marks THEN [expected EXCEPT !.status = text.status]
                 ELSE [expected EXCEPT !.phase = text.phase]
      BY <2>2, <3>2 DEF Changed, Texts
    <3>4. text = WithChange(u, expected)'
      BY <1>1, <2>4, <3>3 DEF WithChange
    <3>. QED
      BY <2>4, <3>1, <3>2, <3>4
  <2>. QED
    BY <2>6, <2>7, <2>8, <2>9
<1>3. CASE ~Readable(files[metaFile])
  <2>1. EndUpdate(u, "failed")
    BY <1>3 DEF ReadMeta
  <2>. QED
    BY <1>1, <2>1, EndKeeps
<1>. QED
  BY <1>2, <1>3

LEMMA OpenKeeps ==
  ASSUME MetaIInv, NEW u \in Updates, OpenTmp(u)
  PROVE  FilesFresh' /\ Overlaps' /\ LockHeld' /\ TmpOwned' /\ InTurn'
<1>. DEFINE file == IF tmpFile = Original THEN u ELSE tmpFile
<1>. USE MetaAssumption
<1>1. /\ update[u] = "opening" /\ update' = [update EXCEPT ![u] = "writing"]
      /\ tmpFile' = file /\ draft' = [draft EXCEPT ![u].file = file]
      /\ files' = [files EXCEPT ![file] = [text |-> @.text, length |-> 0, size |-> 0]]
      /\ clashes' = clashes \cup {{u, v} : v \in HasOpen}
      /\ UNCHANGED <<aborted, marking, metaFile, mixed, expected>>
  BY DEF OpenTmp
<1>0. update[u] = "opening" /\ UNCHANGED <<metaFile, mixed, expected>> /\ tmpFile' = file
  BY <1>1
<1>2. \A v \in Updates : update'[v] = IF v = u THEN "writing" ELSE update[v]
  BY <1>1 DEF MetaIInv, MetaTypeOK
<1>3. \A v \in Updates : /\ draft'[v].file = IF v = u THEN file ELSE draft[v].file
                         /\ draft'[v].text = draft[v].text
  BY <1>1 DEF MetaIInv, MetaTypeOK
<1>4. file \in FileNames /\ file # Original /\ file # metaFile
  BY <1>1 DEF MetaIInv, MetaTypeOK, FilesFresh, FileNames
<1>5. /\ files'[file].size = 0
      /\ files'[metaFile] = files[metaFile]
  BY <1>1, <1>4 DEF MetaIInv, MetaTypeOK
<1>6. InSection' = InSection /\ HasOpen' = HasOpen \cup {u} /\ u \in InSection \ HasOpen
  BY <1>1, <1>2 DEF InSection, HasOpen
<1>7. FilesFresh'
  BY <1>1, <1>2, <1>3, <1>4 DEF MetaIInv, FilesFresh
<1>8. Overlaps'
  <2>1. ASSUME NEW v \in HasOpen', NEW w \in HasOpen', v # w PROVE {v, w} \in clashes'
    <3>1. CASE v = u
      BY <1>1, <1>6, <2>1, <3>1
    <3>2. CASE w = u
      <4>1. {v, w} = {w, v}
        OBVIOUS
      <4>. QED
        BY <1>1, <1>6, <2>1, <3>2, <4>1
    <3>3. CASE v # u /\ w # u
      BY <1>1, <1>6, <2>1, <3>3 DEF MetaIInv, Overlaps
    <3>. QED
      BY <3>1, <3>2, <3>3
  <2>2. \A v \in HasOpen : {u, v} \in mixed
    BY <1>6 DEF MetaIInv, Overlaps, HasOpen, InSection
  <2>3. clashes' \subseteq mixed'
    BY <1>1, <2>2 DEF MetaIInv, Overlaps
  <2>4. /\ \A v, w \in InSection' : v # w => {v, w} \in mixed'
        /\ \A v \in Updates : {v} \notin mixed'
    BY <1>1, <1>6 DEF MetaIInv, Overlaps
  <2>. QED
    BY <2>1, <2>3, <2>4 DEF Overlaps
<1>9. LockHeld'
  BY <1>1, <1>6 DEF MetaIInv, LockHeld
<1>10. TmpOwned'
  <2>. SUFFICES ASSUME clashes' = {} PROVE TmpOwned'
    BY DEF TmpOwned
  <2>1. HasOpen = {} /\ clashes = {}
    <3>1. clashes' = clashes \cup {{u, v} : v \in HasOpen}
      BY <1>1
    <3>2. \A v \in HasOpen : {u, v} \in clashes'
      BY <3>1
    <3>. QED
      BY <3>1, <3>2
  <2>2. Readable(files'[metaFile])
    BY <1>5, <2>1 DEF MetaIInv, TmpOwned
  <2>3. HasOpen' = {u}
    BY <1>6, <2>1
  <2>4. /\ draft'[u].file = tmpFile' /\ tmpFile' # Original
        /\ update'[u] = "writing" /\ files'[tmpFile'].size = 0
    BY <1>0, <1>2, <1>3, <1>4, <1>5
  <2>. QED
    BY <1>0, <2>2, <2>3, <2>4 DEF TmpOwned, Readable
<1>11. InTurn'
  <2>. SUFFICES ASSUME mixed = {}
                PROVE  /\ files'[metaFile].text = expected
                       /\ \A v \in InSection : update'[v] # "reading" =>
                            draft'[v].text = WithChange(v, expected)'
    BY <1>0, <1>6 DEF InTurn
  <2>1. /\ files[metaFile].text = expected
        /\ \A v \in InSection : update[v] # "reading" => draft[v].text = WithChange(v, expected)
    BY DEF MetaIInv, InTurn
  <2>2. \A v \in Updates : WithChange(v, expected)' = WithChange(v, expected)
    BY <1>0, <1>3 DEF WithChange
  <2>. QED
    BY <1>0, <1>2, <1>3, <1>5, <2>1, <2>2 DEF InSection
<1>. QED
  BY <1>7, <1>8, <1>9, <1>10, <1>11

LEMMA WriteKeeps ==
  ASSUME MetaIInv, NEW u \in Updates, WriteTmp(u)
  PROVE  FilesFresh' /\ Overlaps' /\ LockHeld' /\ TmpOwned' /\ InTurn'
<1>. DEFINE written == draft[u].file
<1>. USE MetaAssumption
<1>1. /\ update[u] = "writing"
      /\ \E n \in 1..MaxLength :
           files' = [files EXCEPT ![written] =
                       [text |-> draft[u].text, length |-> n,
                        size |-> IF @.size < n THEN n ELSE @.size]]
      /\ UNCHANGED <<aborted, metaFile, tmpFile, mixed, clashes, expected>>
  BY DEF WriteTmp
<1>2. PICK n \in 1..MaxLength :
         files' = [files EXCEPT ![written] =
                     [text |-> draft[u].text, length |-> n,
                      size |-> IF @.size < n THEN n ELSE @.size]]
  BY <1>1
<1>3. written \in FileNames
  BY DEF MetaIInv, MetaTypeOK
<1>4. \A f \in FileNames : f # written => files'[f] = files[f]
  BY <1>2, <1>3 DEF MetaIInv, MetaTypeOK
<1>5. /\ files'[written].text = draft[u].text
      /\ files[written].size = 0 => Readable(files'[written])
  BY <1>2, <1>3 DEF MetaIInv, MetaTypeOK, Readable
\* Nobody else has the file open: it is the temporary one, which was emptied.
<1>6. clashes = {} =>
        /\ written = tmpFile /\ tmpFile # Original /\ metaFile # tmpFile
        /\ Readable(files'[tmpFile]) /\ files'[metaFile] = files[metaFile]
        /\ HasOpen = {u}
  <2>. SUFFICES ASSUME clashes = {}
                PROVE  /\ written = tmpFile /\ tmpFile # Original /\ metaFile # tmpFile
                       /\ Readable(files'[tmpFile]) /\ files'[metaFile] = files[metaFile]
                       /\ HasOpen = {u}
    OBVIOUS
  <2>1. u \in HasOpen
    BY <1>1 DEF HasOpen
  <2>2. written = tmpFile /\ tmpFile # Original /\ files[tmpFile].size = 0
    BY <1>1, <2>1 DEF MetaIInv, TmpOwned
  <2>3. metaFile # tmpFile /\ metaFile \in FileNames
    BY <2>2 DEF MetaIInv, FilesFresh, MetaTypeOK
  <2>4. HasOpen = {u}
    BY <2>1 DEF MetaIInv, Overlaps
  <2>. QED
    BY <1>4, <1>5, <2>2, <2>3, <2>4
<1>7. mixed = {} => clashes = {} /\ InSection = {u}
  BY <1>1 DEF MetaIInv, Overlaps, InSection
<1>8. CASE u \in aborted
  <2>1. EndUpdate(u, "left")
    BY <1>8 DEF WriteTmp
  <2>2. \A v \in Updates : /\ update'[v] = IF v = u THEN "left" ELSE update[v]
                           /\ draft'[v] = IF v = u THEN NoDraft ELSE draft[v]
    BY <2>1, EndUpdateEffect DEF MetaIInv
  <2>3. marking' = IF marking = u THEN Original ELSE marking
    BY <2>1 DEF EndUpdate, Unlock
  <2>4. InSection' = InSection \ {u} /\ HasOpen' = HasOpen \ {u}
    BY <2>2 DEF InSection, HasOpen
  <2>5. FilesFresh'
    BY <1>1, <2>2 DEF MetaIInv, FilesFresh, NoDraft
  <2>6. Overlaps' /\ LockHeld'
    BY <1>1, <2>3, <2>4 DEF MetaIInv, Overlaps, LockHeld
  <2>7. TmpOwned'
    BY <1>1, <1>6, <2>4 DEF MetaIInv, TmpOwned, Readable
  <2>8. InTurn'
    BY <1>1, <1>6, <1>7, <2>4 DEF MetaIInv, InTurn
  <2>. QED
    BY <2>5, <2>6, <2>7, <2>8
<1>9. CASE u \notin aborted
  <2>1. update' = [update EXCEPT ![u] = "renaming"] /\ UNCHANGED <<marking, draft>>
    BY <1>9 DEF WriteTmp
  <2>2. \A v \in Updates : update'[v] = IF v = u THEN "renaming" ELSE update[v]
    BY <2>1 DEF MetaIInv, MetaTypeOK
  <2>3. InSection' = InSection /\ HasOpen' = HasOpen
    BY <1>1, <2>2 DEF InSection, HasOpen
  <2>4. FilesFresh'
    BY <1>1, <2>1, <2>2 DEF MetaIInv, FilesFresh
  <2>5. Overlaps' /\ LockHeld'
    BY <1>1, <2>1, <2>3 DEF MetaIInv, Overlaps, LockHeld
  <2>6. TmpOwned'
    <3>. SUFFICES ASSUME clashes = {} PROVE TmpOwned'
      BY <1>1 DEF TmpOwned
    <3>1. Readable(files'[metaFile])
      BY <1>6 DEF MetaIInv, TmpOwned, Readable
    <3>. QED
      BY <1>1, <1>5, <1>6, <2>1, <2>2, <2>3, <3>1 DEF TmpOwned, Readable
  <2>7. InTurn'
    BY <1>1, <1>6, <1>7, <2>1, <2>3 DEF MetaIInv, InTurn, WithChange
  <2>. QED
    BY <2>4, <2>5, <2>6, <2>7
<1>. QED
  BY <1>8, <1>9

LEMMA RenameKeeps ==
  ASSUME MetaIInv, NEW u \in Updates, Rename(u)
  PROVE  FilesFresh' /\ Overlaps' /\ LockHeld' /\ TmpOwned' /\ InTurn'
<1>. USE MetaAssumption
<1>1. update[u] = "renaming" /\ UNCHANGED <<aborted, files, mixed, clashes>>
  BY DEF Rename
<1>2. CASE tmpFile = Original
  <2>1. EndUpdate(u, "failed") /\ UNCHANGED <<metaFile, tmpFile, expected>>
    BY <1>2 DEF Rename
  <2>. QED
    BY <1>1, <2>1, EndKeeps
<1>3. CASE tmpFile # Original
  <2>1. /\ EndUpdate(u, "done") /\ metaFile' = tmpFile /\ tmpFile' = Original
        /\ expected' = WithChange(u, expected)
    BY <1>3 DEF Rename
  <2>2. \A v \in Updates : /\ update'[v] = IF v = u THEN "done" ELSE update[v]
                           /\ draft'[v] = IF v = u THEN NoDraft ELSE draft[v]
    BY <2>1, EndUpdateEffect DEF MetaIInv
  <2>3. marking' = IF marking = u THEN Original ELSE marking
    BY <2>1 DEF EndUpdate, Unlock
  <2>4. InSection' = InSection \ {u} /\ HasOpen' = HasOpen \ {u}
    BY <2>2 DEF InSection, HasOpen
  <2>5. u \in HasOpen /\ u \in InSection
    BY <1>1 DEF HasOpen, InSection
  <2>6. FilesFresh'
    BY <2>1, <2>2 DEF MetaIInv, FilesFresh, NoDraft
  <2>7. Overlaps' /\ LockHeld'
    BY <1>1, <2>3, <2>4 DEF MetaIInv, Overlaps, LockHeld
  <2>8. clashes = {} => HasOpen' = {} /\ Readable(files[tmpFile])
                          /\ files[tmpFile].text = draft[u].text
    <3>1. clashes = {} => HasOpen = {u}
      BY <2>5 DEF MetaIInv, Overlaps
    <3>2. clashes = {} => Readable(files[tmpFile]) /\ files[tmpFile].text = draft[u].text
      BY <1>1, <2>5 DEF MetaIInv, TmpOwned
    <3>. QED
      BY <2>4, <3>1, <3>2
  <2>9. TmpOwned'
    BY <1>1, <2>1, <2>8 DEF TmpOwned, Readable
  <2>10. InTurn'
    <3>. SUFFICES ASSUME mixed = {} PROVE InTurn'
      BY <1>1 DEF InTurn
    <3>1. InSection' = {} /\ clashes = {}
      BY <2>4, <2>5 DEF MetaIInv, Overlaps
    <3>2. draft[u].text = WithChange(u, expected)
      BY <1>1, <2>5 DEF MetaIInv, InTurn
    <3>. QED
      BY <1>1, <2>1, <2>8, <3>1, <3>2 DEF InTurn
  <2>. QED
    BY <2>6, <2>7, <2>9, <2>10
<1>. QED
  BY <1>2, <1>3

LEMMA FailsKeeps ==
  ASSUME MetaIInv, NEW u \in Updates, TmpFails(u)
  PROVE  FilesFresh' /\ Overlaps' /\ LockHeld' /\ TmpOwned' /\ InTurn'
<1>. USE MetaAssumption
<1>1. /\ EndUpdate(u, "failed") /\ update[u] \in {"opening", "writing"}
      /\ UNCHANGED <<aborted, metaFile, tmpFile, mixed, clashes, expected>>
  BY DEF TmpFails
<1>2. CASE UNCHANGED files
  BY <1>1, <1>2, EndKeeps
<1>3. CASE /\ update[u] = "writing"
           /\ \E n \in 0..MaxLength :
                files' = [files EXCEPT ![draft[u].file] =
                            [text |-> @.text, length |-> 0, size |-> n]]
  <2>1. \A v \in Updates : /\ update'[v] = IF v = u THEN "failed" ELSE update[v]
                           /\ draft'[v] = IF v = u THEN NoDraft ELSE draft[v]
    BY <1>1, EndUpdateEffect DEF MetaIInv
  <2>2. marking' = IF marking = u THEN Original ELSE marking
    BY <1>1 DEF EndUpdate, Unlock
  <2>3. InSection' = InSection \ {u} /\ HasOpen' = HasOpen \ {u} /\ u \in HasOpen \cap InSection
    BY <1>3, <2>1 DEF InSection, HasOpen
  <2>4. clashes = {} => HasOpen' = {} /\ files'[metaFile] = files[metaFile]
    <3>1. clashes = {} => draft[u].file = tmpFile /\ tmpFile # metaFile
      BY <2>3 DEF MetaIInv, TmpOwned, FilesFresh
    <3>2. clashes = {} => HasOpen = {u}
      BY <2>3 DEF MetaIInv, Overlaps
    <3>3. metaFile \in FileNames /\ tmpFile \in FileNames /\ draft[u].file \in FileNames
      BY DEF MetaIInv, MetaTypeOK
    <3>4. draft[u].file # metaFile => files'[metaFile] = files[metaFile]
      BY <1>3, <3>3 DEF MetaIInv, MetaTypeOK
    <3>. QED
      BY <2>3, <3>1, <3>2, <3>4
  <2>5. FilesFresh'
    BY <1>1, <2>1 DEF MetaIInv, FilesFresh, NoDraft
  <2>6. Overlaps' /\ LockHeld'
    BY <1>1, <2>2, <2>3 DEF MetaIInv, Overlaps, LockHeld
  <2>7. TmpOwned'
    BY <1>1, <2>4 DEF MetaIInv, TmpOwned, Readable
  <2>8. InTurn'
    <3>. SUFFICES ASSUME mixed = {} PROVE InTurn'
      BY <1>1 DEF InTurn
    <3>1. InSection' = {} /\ clashes = {}
      BY <2>3 DEF MetaIInv, Overlaps
    <3>. QED
      BY <1>1, <2>4, <3>1 DEF MetaIInv, InTurn
  <2>. QED
    BY <2>5, <2>6, <2>7, <2>8
<1>. QED
  BY <1>2, <1>3 DEF TmpFails

LEMMA AbortKeeps ==
  ASSUME MetaIInv, NEW u \in Updates, AbortUpdate(u)
  PROVE  FilesFresh' /\ Overlaps' /\ LockHeld' /\ TmpOwned' /\ InTurn'
<1>. USE MetaAssumption
<1>1. /\ u \in InSection /\ aborted' = aborted \cup {u}
      /\ UNCHANGED <<files, metaFile, tmpFile, mixed, clashes, expected>>
  BY DEF AbortUpdate
<1>2. CASE update[u] = "reading"
  <2>1. EndUpdate(u, "left")
    BY <1>2 DEF AbortUpdate
  <2>. QED
    BY <1>1, <1>2, <2>1, EndKeeps
<1>3. CASE update[u] # "reading"
  <2>1. UNCHANGED <<update, draft>> /\ marking' = IF marking = u THEN Original ELSE marking
    BY <1>3 DEF AbortUpdate, Unlock
  <2>2. InSection' = InSection /\ HasOpen' = HasOpen
    BY <2>1 DEF InSection, HasOpen
  <2>3. FilesFresh' /\ Overlaps'
    BY <1>1, <2>1, <2>2 DEF MetaIInv, FilesFresh, Overlaps
  <2>4. LockHeld'
    BY <1>1, <2>1, <2>2 DEF MetaIInv, LockHeld
  <2>5. TmpOwned' /\ InTurn'
    BY <1>1, <2>1, <2>2 DEF MetaIInv, TmpOwned, InTurn, Readable, WithChange
  <2>. QED
    BY <2>3, <2>4, <2>5
<1>. QED
  BY <1>2, <1>3

LEMMA MetaCrashKeeps ==
  ASSUME MetaIInv, MetaCrash
  PROVE  FilesFresh' /\ Overlaps' /\ LockHeld' /\ TmpOwned' /\ InTurn'
<1>. USE MetaAssumption
<1>1. /\ update' = [u \in Updates |-> IF u \in InSection THEN "left" ELSE update[u]]
      /\ draft' = [u \in Updates |-> NoDraft]
      /\ UNCHANGED <<aborted, files, metaFile, tmpFile, mixed, clashes, expected>>
  BY DEF MetaCrash
<1>2. InSection' = {} /\ HasOpen' = {}
  BY <1>1 DEF InSection, HasOpen
<1>3. FilesFresh'
  BY <1>1 DEF MetaIInv, FilesFresh, NoDraft, InSection
<1>4. Overlaps' /\ LockHeld'
  BY <1>1, <1>2 DEF MetaIInv, Overlaps, LockHeld
<1>5. TmpOwned' /\ InTurn'
  BY <1>1, <1>2 DEF MetaIInv, TmpOwned, InTurn, Readable
<1>. QED
  BY <1>3, <1>4, <1>5

LEMMA MetaInvariant == MetaSpec => []MetaIInv
<1>1. MetaInit => MetaIInv
  <2>. SUFFICES ASSUME MetaInit PROVE MetaIInv
    OBVIOUS
  <2>1. InSection = {} /\ HasOpen = {}
    BY DEF MetaInit, InSection, HasOpen
  <2>2. FilesFresh
    BY MetaAssumption DEF MetaInit, FilesFresh, NoDraft
  <2>3. Overlaps /\ LockHeld
    BY <2>1 DEF MetaInit, Overlaps, LockHeld
  <2>4. TmpOwned /\ InTurn
    BY <2>1 DEF MetaInit, TmpOwned, InTurn, Readable, FileNames
  <2>. QED
    BY <2>2, <2>3, <2>4, MetaTypes DEF MetaIInv
<1>2. MetaIInv /\ [MetaNext]_metaVars => MetaIInv'
  <2>. SUFFICES ASSUME MetaIInv, [MetaNext]_metaVars PROVE MetaIInv'
    OBVIOUS
  <2>1. MetaTypeOK'
    BY MetaTypeStep DEF MetaIInv
  <2>2. CASE MetaNext
    BY <2>1, <2>2, BeginKeeps, ReadKeeps, OpenKeeps, WriteKeeps, RenameKeeps, FailsKeeps,
       AbortKeeps, MetaCrashKeeps DEF MetaNext, MetaIInv
  <2>3. CASE UNCHANGED metaVars
    <3>1. InSection' = InSection /\ HasOpen' = HasOpen
      BY <2>3 DEF metaVars, InSection, HasOpen
    <3>. QED
      BY <2>1, <2>3, <3>1 DEF metaVars, MetaIInv, FilesFresh, Overlaps, LockHeld, TmpOwned,
         InTurn, Readable, WithChange
  <2>. QED
    BY <2>2, <2>3
<1>. QED
  BY <1>1, <1>2, PTL DEF MetaSpec

\* The stages of the updates of a meta.json, the two files and the histories
\* keep their form, for any number of updates.
THEOREM MetaTypeCorrect == MetaSpec => []MetaTypeOK
<1>1. MetaIInv => MetaTypeOK
  BY DEF MetaIInv
<1>. QED
  BY <1>1, MetaInvariant, PTL

\* meta.json can be read, whatever fails, is aborted or restarts, as long as no
\* two updates had the same temporary file open at once.
THEOREM MetaStaysReadable == MetaSpec => []MetaIsReadable
<1>1. MetaIInv => MetaIsReadable
  BY DEF MetaIInv, MetaIsReadable, TmpOwned
<1>. QED
  BY <1>1, MetaInvariant, PTL

\* No change to meta.json is lost, however updates fail, are aborted or the
\* kernel restarts, as long as no two updates overlapped.
THEOREM LoneUpdatesAreKept == MetaSpec => []UpdatesAreKept
<1>1. MetaIInv => UpdatesAreKept
  BY DEF MetaIInv, UpdatesAreKept, InTurn, LockHeld
<1>. QED
  BY <1>1, MetaInvariant, PTL

\* What readers of meta.json rely on: it can be read, and no lone change is lost.
THEOREM MetaSurvival == MetaSpec => []MetaSurvives
<1>1. MetaIsReadable /\ UpdatesAreKept => MetaSurvives
  BY DEF MetaSurvives
<1>. QED
  BY <1>1, MetaStaysReadable, LoneUpdatesAreKept, PTL

-----------------------------------------------------------------------------
(* The processes and their threads.                                          *)

ThreadTexts == [status : {"Created", "Active", "Paused"}, count : {0}]

AtWork(c) == calling[c] \in {"first", "second"}
FilesOf(p) == {p} \cup {t \in Threads : OwnerOf[t] = p}
Uninterrupted(p) == \A c \in StoreCalls : ProcessOf(c) = p => ~Interrupted(c)

\* What is known of a thread is no more than what the files of threads hold.
ThreadsTyped ==
  /\ \A t \in Threads : memory[t] \in ThreadTexts /\ disk[t].text \in ThreadTexts
  /\ \A c \in StoreCalls : write[c].file \in Threads => write[c].text \in ThreadTexts

\* The lock is held by the one call at work that has its caller still.
ManagerHeld ==
  \A c \in StoreCalls : AtWork(c) /\ c \notin deserted <=> managing = c

\* Which file each call writes.
WritesPlaced ==
  \A c \in StoreCalls :
    /\ calling[c] \in {"none", "first"} => write[c].file = JobOf[c].file
    /\ calling[c] = "second" => write[c].file = ProcessOf(c) /\ JobOf[c].op # "create"
    /\ write[c].file \in {JobOf[c].file, ProcessOf(c)}
    /\ calling[c] = "none" => ~write[c].opened
    /\ c \in deserted => AtWork(c) \/ calling[c] = "gone"
    /\ calling[c] = "first" /\ JobOf[c].op # "mark" => write[c].text = Fresh

\* A name is new until its call has written it, and known while one is at work on it.
NamesFresh ==
  /\ \A t \in Threads \cap known : OwnerOf[t] \in known
  /\ \A c \in StoreCalls :
       /\ AtWork(c) /\ JobOf[c].op # "create" => ProcessOf(c) \in known
       /\ AtWork(c) /\ (JobOf[c].op = "mark" \/ calling[c] = "second") => JobOf[c].file \in known
       /\ JobOf[c].op # "mark" /\ calling[c] \in {"none", "first"} => JobOf[c].file \notin known
       /\ JobOf[c].op # "mark" /\ calling[c] = "none" => disk[JobOf[c].file].holds = "nothing"
       /\ JobOf[c].op = "create" /\ calling[c] \in {"none", "first"} =>
            \A d \in StoreCalls : d # c /\ ProcessOf(d) = JobOf[c].file => calling[d] = "none"

\* A file that is known can be read, is being written, or was disturbed.
FilesWhole ==
  /\ \A f \in known : \/ Legible(f) \/ f \in Disturbed
                      \/ \E c \in StoreCalls :
                           AtWork(c) /\ write[c].file = f /\ write[c].opened
  /\ \A c \in StoreCalls : managing = c /\ write[c].opened =>
       disk[write[c].file].holds = "truncated" \/ write[c].file \in Disturbed

\* The files of a process that no call was interrupted at.
ProcessTrue(p) ==
  /\ \A f \in FilesOf(p) \cap known :
       \/ disk[f] = [holds |-> "text", text |-> memory[f]]
       \/ \E c \in StoreCalls : ProcessOf(c) = p /\ AtWork(c) /\ write[c].file = f
  /\ \A f \in FilesOf(p) \ known : ~Legible(f)
  /\ \A c \in StoreCalls : ProcessOf(c) = p /\ AtWork(c) /\ write[c].file \in known =>
       write[c].text = memory[write[c].file]

MarkStage(p, stages) ==
  \E c \in StoreCalls : ProcessOf(c) = p /\ JobOf[c].op = "mark" /\ calling[c] \in stages

SummaryTrue(p) ==
  p \in known =>
    /\ memory[p].count = Cardinality(ThreadsIn(p, known))
    /\ ~MarkStage(p, {"first"}) =>
         memory[p].status = IF MarkStage(p, {"second", "done"}) THEN StatusNow(p, memory)
                            ELSE "Created"

IndexKept ==
  \A p \in Processes : Uninterrupted(p) => ProcessTrue(p) /\ SummaryTrue(p)

StoreIInv ==
  /\ StoreTypeOK /\ ThreadsTyped /\ ManagerHeld /\ WritesPlaced /\ NamesFresh /\ FilesWhole
  /\ NothingIsLost /\ IndexKept

LEMMA Jobs ==
  ASSUME NEW c \in StoreCalls
  PROVE  /\ JobOf[c].file \in Files /\ ProcessOf(c) \in Processes /\ ProcessOf(c) \in Files
         /\ JobOf[c].op \in {"create", "add", "mark"}
         /\ JobOf[c].op = "create" => JobOf[c].file \in Processes /\ ProcessOf(c) = JobOf[c].file
         /\ JobOf[c].op # "create" => JobOf[c].file \in Threads
                                      /\ ProcessOf(c) = OwnerOf[JobOf[c].file]
         /\ JobOf[c].file \in FilesOf(ProcessOf(c)) /\ ProcessOf(c) \in FilesOf(ProcessOf(c))
  BY StoreAssumption DEF Files, ProcessOf, FilesOf

LEMMA FilesApart ==
  ASSUME NEW p \in Processes, NEW q \in Processes, p # q
  PROVE  FilesOf(p) \cap FilesOf(q) = {}
  BY StoreAssumption DEF FilesOf

LEMMA StatusFromTypes ==
  ASSUME NEW S PROVE StatusFrom(S) \in {"Created", "Active", "Paused", "Completed", "Error"}
  BY DEF StatusFrom

LEMMA ThreadsCounted ==
  ASSUME NEW p, NEW names
  PROVE  Cardinality(ThreadsIn(p, names)) \in Nat
<1>1. ThreadsIn(p, names) \subseteq Threads
  BY DEF ThreadsIn
<1>. QED
  BY <1>1, StoreAssumption, FS_Subset, FS_CardinalityType

LEMMA StoreTypes == StoreInit => StoreTypeOK
<1>1. Fresh \in Contents
  BY DEF Fresh, Contents
<1>2. \A c \in StoreCalls : JobOf[c].file \in Files
  BY Jobs
<1>. QED
  BY <1>1, <1>2, StoreAssumption DEF StoreInit, StoreTypeOK

LEMMA EnterTypes ==
  ASSUME StoreTypeOK, NEW c \in StoreCalls, EnterManager(c), NEW file \in Files,
         NEW text \in Contents, HandOver(c, file, text), memory' \in [Files -> Contents]
  PROVE  StoreTypeOK'
  BY DEF StoreTypeOK, EnterManager, HandOver

LEMMA WrittenTypes ==
  ASSUME StoreTypeOK, NEW c \in StoreCalls, FileWritten(c)
  PROVE  disk' \in [Files -> [holds : {"nothing", "truncated", "rubble", "text"},
                              text : Contents]]
  BY DEF StoreTypeOK, FileWritten

LEMMA SaveTypes ==
  ASSUME NEW c \in StoreCalls, NEW names, NEW content \in [Files -> Contents]
  PROVE  SaveProcess(c, names, content) \in Contents
<1>1. content[ProcessOf(c)] \in Contents
  BY Jobs
<1>2. Cardinality(ThreadsIn(ProcessOf(c), names)) \in Nat
  BY ThreadsCounted
<1>3. StatusNow(ProcessOf(c), content) \in {"Created", "Active", "Paused", "Completed", "Error"}
  BY StatusFromTypes DEF StatusNow
<1>. QED
  BY <1>1, <1>2, <1>3 DEF SaveProcess, Contents

LEMMA StoreTypeStep == StoreTypeOK /\ [StoreNext]_storeVars => StoreTypeOK'
<1>. SUFFICES ASSUME StoreTypeOK, [StoreNext]_storeVars PROVE StoreTypeOK'
  OBVIOUS
<1>0. Fresh \in Contents
  BY DEF Fresh, Contents
<1>1. ASSUME NEW c \in StoreCalls, CreateProcess(c) PROVE StoreTypeOK'
  BY <1>0, <1>1, EnterTypes, Jobs DEF CreateProcess, StoreTypeOK
<1>2. ASSUME NEW c \in StoreCalls, AddThread(c) PROVE StoreTypeOK'
  BY <1>0, <1>2, EnterTypes, Jobs DEF AddThread, StoreTypeOK
<1>3. ASSUME NEW c \in StoreCalls, MarkThread(c) PROVE StoreTypeOK'
  <2>1. PICK status \in {"Created", "Active", "Paused"} :
          /\ memory' = [memory EXCEPT ![JobOf[c].file].status = status]
          /\ HandOver(c, JobOf[c].file, [status |-> status, count |-> 0])
    BY <1>3 DEF MarkThread
  <2>2. [status |-> status, count |-> 0] \in Contents
    BY DEF Contents
  <2>. DEFINE f == JobOf[c].file
  <2>3. memory' = [memory EXCEPT ![f] = [memory[f] EXCEPT !.status = status]]
    BY <2>1
  <2>4. [memory[f] EXCEPT !.status = status] \in Contents
    BY Jobs DEF StoreTypeOK, Contents
  <2>5. memory' \in [Files -> Contents]
    <3>. HIDE DEF f
    <3>. QED
      BY <2>3, <2>4 DEF StoreTypeOK
  <2>. QED
    BY <1>3, <2>1, <2>2, <2>5, EnterTypes, Jobs DEF MarkThread
<1>4. ASSUME NEW c \in StoreCalls, OpenFile(c) PROVE StoreTypeOK'
  <2>1. write[c].file \in Files
    BY DEF StoreTypeOK
  <2>2. disk' \in [Files -> [holds : {"nothing", "truncated", "rubble", "text"},
                              text : Contents]]
    BY <1>4, <2>1 DEF StoreTypeOK, OpenFile
  <2>3. write' \in [StoreCalls -> [file : Files, text : Contents, opened : BOOLEAN]]
    BY <1>4 DEF StoreTypeOK, OpenFile
  <2>. QED
    BY <1>4, <2>2, <2>3 DEF StoreTypeOK, OpenFile
<1>5. ASSUME NEW c \in StoreCalls, FirstWritten(c) PROVE StoreTypeOK'
  <2>. DEFINE names == known \cup {JobOf[c].file}
              content == [memory EXCEPT ![JobOf[c].file] = write[c].text]
              process == SaveProcess(c, names, content)
  <2>1. /\ calling[c] = "first" /\ FileWritten(c) /\ known' = names
        /\ IF JobOf[c].op = "create"
           THEN /\ memory' = content
                /\ calling' = [calling EXCEPT ![c] = "done"]
                /\ LeaveManager(c)
                /\ UNCHANGED write
           ELSE /\ memory' = [content EXCEPT ![ProcessOf(c)] = process]
                /\ calling' = [calling EXCEPT ![c] = "second"]
                /\ HandOver(c, ProcessOf(c), process)
                /\ UNCHANGED managing
    BY <1>5 DEF FirstWritten
  <2>2. content \in [Files -> Contents]
    BY DEF StoreTypeOK
  <2>3. process \in Contents
    BY <2>2, SaveTypes
  <2>4. memory' \in [Files -> Contents]
    BY <2>1, <2>2, <2>3
  <2>5. /\ calling' \in [StoreCalls -> {"none", "first", "second", "done", "failed", "gone"}]
        /\ managing' \in StoreCalls \cup {Nobody}
    <3>1. calling' \in [StoreCalls -> {"none", "first", "second", "done", "failed", "gone"}]
      <4>. HIDE DEF names, content, process
      <4>. QED
        BY <2>1 DEF StoreTypeOK
    <3>2. managing' \in StoreCalls \cup {Nobody}
      <4>. HIDE DEF names, content, process
      <4>. QED
        BY <2>1 DEF StoreTypeOK, LeaveManager
    <3>. QED
      BY <3>1, <3>2
  <2>6. write' \in [StoreCalls -> [file : Files, text : Contents, opened : BOOLEAN]]
    <3>. HIDE DEF names, content, process
    <3>1. ProcessOf(c) \in Files
      BY Jobs
    <3>2. CASE JobOf[c].op = "create"
      BY <2>1, <3>2 DEF StoreTypeOK
    <3>3. CASE JobOf[c].op # "create"
      <4>1. write' = [write EXCEPT ![c] = [file |-> ProcessOf(c), text |-> process, opened |-> FALSE]]
        BY <2>1, <3>3 DEF HandOver
      <4>2. [file |-> ProcessOf(c), text |-> process, opened |-> FALSE]
              \in [file : Files, text : Contents, opened : BOOLEAN]
        BY <2>3, <3>1
      <4>. QED
        BY <4>1, <4>2 DEF StoreTypeOK
    <3>. QED
      BY <3>2, <3>3
  <2>7. known' \subseteq Files
    BY <2>1, Jobs DEF StoreTypeOK
  <2>8. UNCHANGED <<deserted, storeFaults, storeCrashes>>
    BY <2>1 DEF FileWritten
  <2>. QED
    BY <2>1, <2>4, <2>5, <2>6, <2>7, <2>8, WrittenTypes DEF StoreTypeOK
<1>6. ASSUME NEW c \in StoreCalls, SecondWritten(c) PROVE StoreTypeOK'
  <2>1. FileWritten(c) /\ UNCHANGED <<deserted, storeFaults, storeCrashes>>
    BY <1>6 DEF SecondWritten, FileWritten
  <2>. QED
    BY <1>6, <2>1, WrittenTypes DEF SecondWritten, StoreTypeOK, LeaveManager
<1>7. ASSUME NEW c \in StoreCalls, LateWritten(c) PROVE StoreTypeOK'
  <2>1. FileWritten(c) /\ UNCHANGED <<deserted, storeFaults, storeCrashes>>
    BY <1>7 DEF LateWritten, FileWritten
  <2>. QED
    BY <1>7, <2>1, WrittenTypes DEF LateWritten, StoreTypeOK
<1>8. ASSUME NEW c \in StoreCalls, StoreFails(c) PROVE StoreTypeOK'
  <2>1. write[c].file \in Files
    BY DEF StoreTypeOK
  <2>2. disk' \in [Files -> [holds : {"nothing", "truncated", "rubble", "text"},
                              text : Contents]]
    BY <1>8, <2>1 DEF StoreTypeOK, StoreFails
  <2>. QED
    BY <1>8, <2>2, StoreAssumption DEF StoreTypeOK, StoreFails, LeaveManager
<1>9. ASSUME NEW c \in StoreCalls, Desert(c) PROVE StoreTypeOK'
  BY <1>9 DEF Desert, StoreTypeOK, LeaveManager
<1>10. ASSUME StoreCrash PROVE StoreTypeOK'
  <2>1. memory' \in [Files -> Contents]
    BY <1>0, <1>10 DEF StoreCrash, StoreTypeOK
  <2>2. known' \subseteq Files
    BY <1>10 DEF StoreCrash, Loaded
  <2>. QED
    BY <1>10, <2>1, <2>2, StoreAssumption DEF StoreCrash, StoreTypeOK
<1>11. CASE UNCHANGED storeVars
  BY <1>11 DEF storeVars, StoreTypeOK
<1>. QED
  BY <1>1, <1>2, <1>3, <1>4, <1>5, <1>6, <1>7, <1>8, <1>9, <1>10, <1>11 DEF StoreNext

\* What a step of a call leaves alone: the other calls, and other processes' files.
Local(c) ==
  /\ \A d \in StoreCalls \ {c} :
       calling'[d] = calling[d] /\ write'[d] = write[d] /\ (d \in deserted' <=> d \in deserted)
  /\ \A f \in Files \ FilesOf(ProcessOf(c)) :
       disk'[f] = disk[f] /\ memory'[f] = memory[f] /\ (f \in known' <=> f \in known)
  /\ known \subseteq known' /\ deserted \subseteq deserted'
  /\ Interrupted(c) => Interrupted(c)'
                       /\ (write[c].opened => write'[c].opened /\ write'[c].file = write[c].file)

CallStep(c) ==
  \/ CreateProcess(c) \/ AddThread(c) \/ MarkThread(c)
  \/ OpenFile(c) \/ FirstWritten(c) \/ SecondWritten(c) \/ LateWritten(c)
  \/ StoreFails(c) \/ Desert(c)

LEMMA FilesOfTypes == \A p \in Processes : FilesOf(p) \subseteq Files
  BY DEF FilesOf, Files

LEMMA WriteStaysHome ==
  ASSUME StoreTypeOK, WritesPlaced, NEW c \in StoreCalls
  PROVE  write[c].file \in FilesOf(ProcessOf(c)) /\ write[c].file \in Files
  BY Jobs DEF WritesPlaced, StoreTypeOK

LEMMA StepIsLocal ==
  ASSUME StoreTypeOK, WritesPlaced, NEW c \in StoreCalls, CallStep(c)
  PROVE  Local(c)
<1>0. /\ write[c].file \in FilesOf(ProcessOf(c)) /\ write[c].file \in Files
      /\ JobOf[c].file \in FilesOf(ProcessOf(c)) /\ JobOf[c].file \in Files
      /\ ProcessOf(c) \in FilesOf(ProcessOf(c)) /\ ProcessOf(c) \in Files
  BY WriteStaysHome, Jobs
<1>a. calling[c] = "none" => ~Interrupted(c)
  BY DEF WritesPlaced, Interrupted, AtWork
<1>b. calling[c] \in {"first", "second"} /\ c \notin deserted => ~Interrupted(c)
  BY DEF Interrupted
<1>1. CASE CreateProcess(c)
  BY <1>0, <1>a, <1>1 DEF CreateProcess, EnterManager, HandOver, StoreTypeOK, Local
<1>2. CASE AddThread(c)
  BY <1>0, <1>a, <1>2 DEF AddThread, EnterManager, HandOver, StoreTypeOK, Local
<1>3. CASE MarkThread(c)
  BY <1>0, <1>a, <1>3 DEF MarkThread, EnterManager, HandOver, StoreTypeOK, Local
<1>4. CASE OpenFile(c)
  <2>1. Interrupted(c) => Interrupted(c)'
    BY <1>4 DEF OpenFile, Interrupted
  <2>. QED
    BY <1>0, <1>4, <2>1 DEF OpenFile, StoreTypeOK, Local
<1>5. CASE FirstWritten(c)
  <2>. DEFINE names == known \cup {JobOf[c].file}
              content == [memory EXCEPT ![JobOf[c].file] = write[c].text]
              process == SaveProcess(c, names, content)
  <2>1. /\ calling[c] = "first" /\ c \notin deserted /\ FileWritten(c) /\ known' = names
        /\ IF JobOf[c].op = "create"
           THEN /\ memory' = content
                /\ calling' = [calling EXCEPT ![c] = "done"]
                /\ LeaveManager(c)
                /\ UNCHANGED write
           ELSE /\ memory' = [content EXCEPT ![ProcessOf(c)] = process]
                /\ calling' = [calling EXCEPT ![c] = "second"]
                /\ HandOver(c, ProcessOf(c), process)
                /\ UNCHANGED managing
    BY <1>5 DEF FirstWritten
  <2>2. /\ \A f \in Files \ {write[c].file} : disk'[f] = disk[f]
        /\ UNCHANGED deserted
    BY <2>1 DEF FileWritten, StoreTypeOK
  <2>3. \A d \in StoreCalls \ {c} : calling'[d] = calling[d] /\ write'[d] = write[d]
    <3>. HIDE DEF process
    <3>. QED
      BY <2>1 DEF HandOver, StoreTypeOK
  <2>4. \A f \in Files \ FilesOf(ProcessOf(c)) : memory'[f] = memory[f]
    <3>. HIDE DEF process
    <3>. QED
      BY <1>0, <2>1 DEF StoreTypeOK
  <2>. QED
    BY <1>0, <1>b, <2>1, <2>2, <2>3, <2>4 DEF Local
<1>6. CASE SecondWritten(c)
  BY <1>0, <1>b, <1>6 DEF SecondWritten, FileWritten, StoreTypeOK, Local
<1>7. CASE LateWritten(c)
  <2>1. Interrupted(c)'
    BY <1>7 DEF LateWritten, FileWritten, Interrupted
  <2>. QED
    BY <1>0, <1>7, <2>1 DEF LateWritten, FileWritten, StoreTypeOK, Local
<1>8. CASE StoreFails(c)
  <2>1. Interrupted(c)'
    BY <1>8 DEF StoreFails, Interrupted, StoreTypeOK
  <2>. QED
    BY <1>0, <1>8, <2>1 DEF StoreFails, StoreTypeOK, Local
<1>9. CASE Desert(c)
  <2>1. Interrupted(c)'
    BY <1>9 DEF Desert, Interrupted
  <2>. QED
    BY <1>0, <1>9, <2>1 DEF Desert, StoreTypeOK, Local
<1>. QED
  BY <1>1, <1>2, <1>3, <1>4, <1>5, <1>6, <1>7, <1>8, <1>9 DEF CallStep

LEMMA DisturbedGrows ==
  ASSUME NEW c \in StoreCalls, Local(c)
  PROVE  Disturbed \subseteq Disturbed'
<1>1. ASSUME NEW d \in StoreCalls, Interrupted(d), write[d].opened
      PROVE  Interrupted(d)' /\ write'[d].opened /\ write'[d].file = write[d].file
  BY <1>1 DEF Local, Interrupted
<1>. QED
  BY <1>1 DEF Disturbed

LEMMA NothingLostStep ==
  ASSUME StoreTypeOK, WritesPlaced, NamesFresh, NothingIsLost, NEW c \in StoreCalls, CallStep(c)
  PROVE  NothingIsLost'
<1>0. Local(c) /\ Disturbed \subseteq Disturbed'
  BY StepIsLocal, DisturbedGrows
<1>1. calling[c] # "done" /\ calling'[c] = "done" =>
        {JobOf[c].file, ProcessOf(c)} \subseteq known'
  <2>1. CASE FirstWritten(c)
    BY <2>1, Jobs DEF FirstWritten, StoreTypeOK
  <2>2. CASE SecondWritten(c)
    BY <2>2 DEF SecondWritten, NamesFresh, AtWork, WritesPlaced
  <2>. QED
    BY <2>1, <2>2 DEF CallStep, CreateProcess, AddThread, MarkThread, EnterManager, OpenFile,
       LateWritten, StoreFails, Desert, StoreTypeOK
<1>. QED
  BY <1>0, <1>1 DEF Local, NothingIsLost

LEMMA ThreadsTypedStep ==
  ASSUME StoreTypeOK, WritesPlaced, ThreadsTyped, NEW c \in StoreCalls, CallStep(c)
  PROVE  ThreadsTyped'
<1>0. /\ Fresh \in ThreadTexts /\ JobOf[c].file \in Files /\ ProcessOf(c) \notin Threads
      /\ Threads \subseteq Files /\ write[c].file \in Files
  BY Jobs, StoreAssumption, WriteStaysHome DEF Files, Fresh, ThreadTexts
<1>w. ASSUME FileWritten(c) PROVE \A t \in Threads : disk'[t].text \in ThreadTexts
  BY <1>0, <1>w DEF FileWritten, StoreTypeOK, ThreadsTyped
<1>1. CASE CreateProcess(c)
  BY <1>0, <1>1 DEF CreateProcess, EnterManager, HandOver, StoreTypeOK, ThreadsTyped
<1>2. CASE AddThread(c)
  BY <1>0, <1>2 DEF AddThread, EnterManager, HandOver, StoreTypeOK, ThreadsTyped
<1>3. CASE MarkThread(c)
  <2>1. PICK status \in {"Created", "Active", "Paused"} :
          /\ memory' = [memory EXCEPT ![JobOf[c].file].status = status]
          /\ HandOver(c, JobOf[c].file, [status |-> status, count |-> 0])
    BY <1>3 DEF MarkThread
  <2>. DEFINE f == JobOf[c].file
  <2>2. memory' = [memory EXCEPT ![f] = [memory[f] EXCEPT !.status = status]]
    BY <2>1
  <2>3. f \in Threads
    BY <1>3, Jobs DEF MarkThread
  <2>4. [memory[f] EXCEPT !.status = status] \in ThreadTexts
    BY <2>3 DEF ThreadsTyped, ThreadTexts
  <2>5. \A t \in Threads : memory'[t] \in ThreadTexts
    <3>. HIDE DEF f
    <3>. QED
      BY <1>0, <2>2, <2>4 DEF StoreTypeOK, ThreadsTyped
  <2>6. [status |-> status, count |-> 0] \in ThreadTexts
    BY DEF ThreadTexts
  <2>7. \A d \in StoreCalls : write'[d].file \in Threads => write'[d].text \in ThreadTexts
    BY <2>1, <2>6 DEF HandOver, StoreTypeOK, ThreadsTyped
  <2>. QED
    BY <1>3, <2>5, <2>7 DEF MarkThread, EnterManager, ThreadsTyped
<1>4. CASE OpenFile(c)
  <2>1. \A t \in Threads : disk'[t].text = disk[t].text
    BY <1>0, <1>4 DEF OpenFile, StoreTypeOK
  <2>2. \A d \in StoreCalls : write'[d].file = write[d].file /\ write'[d].text = write[d].text
    BY <1>4 DEF OpenFile, StoreTypeOK
  <2>. QED
    BY <1>4, <2>1, <2>2 DEF OpenFile, ThreadsTyped
<1>5. CASE FirstWritten(c)
  <2>. DEFINE names == known \cup {JobOf[c].file}
              content == [memory EXCEPT ![JobOf[c].file] = write[c].text]
              process == SaveProcess(c, names, content)
  <2>1. /\ calling[c] = "first" /\ FileWritten(c) /\ known' = names
        /\ IF JobOf[c].op = "create"
           THEN memory' = content /\ UNCHANGED write
           ELSE /\ memory' = [content EXCEPT ![ProcessOf(c)] = process]
                /\ HandOver(c, ProcessOf(c), process)
    BY <1>5 DEF FirstWritten
  <2>2. \A t \in Threads : content[t] \in ThreadTexts
    BY <1>0, <2>1 DEF WritesPlaced, ThreadsTyped, StoreTypeOK
  <2>3. \A t \in Threads : memory'[t] = content[t]
    <3>. HIDE DEF process
    <3>. QED
      BY <1>0, <2>1 DEF StoreTypeOK
  <2>4. \A d \in StoreCalls : write'[d].file \in Threads => write'[d].text \in ThreadTexts
    <3>. HIDE DEF process
    <3>. QED
      BY <1>0, <2>1 DEF StoreTypeOK, HandOver, ThreadsTyped
  <2>. QED
    BY <1>w, <2>1, <2>2, <2>3, <2>4 DEF ThreadsTyped
<1>6. CASE SecondWritten(c) \/ LateWritten(c)
  BY <1>w, <1>6 DEF SecondWritten, LateWritten, ThreadsTyped
<1>8. CASE StoreFails(c)
  <2>1. \A t \in Threads : disk'[t].text = disk[t].text
    BY <1>0, <1>8 DEF StoreFails, StoreTypeOK
  <2>. QED
    BY <1>8, <2>1 DEF StoreFails, ThreadsTyped
<1>9. CASE Desert(c)
  BY <1>9 DEF Desert, ThreadsTyped
<1>. QED
  BY <1>1, <1>2, <1>3, <1>4, <1>5, <1>6, <1>8, <1>9 DEF CallStep

LEMMA ManagerHeldStep ==
  ASSUME StoreTypeOK, WritesPlaced, ManagerHeld, NEW c \in StoreCalls, CallStep(c)
  PROVE  ManagerHeld'
<1>0. Nobody \notin StoreCalls
  BY StoreAssumption
<1>e. ASSUME EnterManager(c) PROVE ManagerHeld'
  BY <1>0, <1>e DEF EnterManager, ManagerHeld, WritesPlaced, AtWork, StoreTypeOK
<1>1. CASE CreateProcess(c) \/ AddThread(c) \/ MarkThread(c)
  BY <1>e, <1>1 DEF CreateProcess, AddThread, MarkThread
<1>4. CASE OpenFile(c)
  BY <1>4 DEF OpenFile, ManagerHeld, AtWork
<1>5. CASE FirstWritten(c)
  <2>1. /\ calling[c] = "first" /\ c \notin deserted /\ UNCHANGED deserted
        /\ \/ calling' = [calling EXCEPT ![c] = "done"] /\ LeaveManager(c)
           \/ calling' = [calling EXCEPT ![c] = "second"] /\ UNCHANGED managing
    BY <1>5 DEF FirstWritten, FileWritten
  <2>. QED
    BY <1>0, <2>1 DEF ManagerHeld, AtWork, LeaveManager, StoreTypeOK
<1>6. CASE SecondWritten(c)
  BY <1>0, <1>6 DEF SecondWritten, FileWritten, ManagerHeld, AtWork, LeaveManager, StoreTypeOK
<1>7. CASE LateWritten(c)
  BY <1>0, <1>7 DEF LateWritten, FileWritten, ManagerHeld, AtWork, StoreTypeOK
<1>8. CASE StoreFails(c)
  BY <1>0, <1>8 DEF StoreFails, ManagerHeld, AtWork, LeaveManager, StoreTypeOK
<1>9. CASE Desert(c)
  BY <1>0, <1>9 DEF Desert, ManagerHeld, AtWork, LeaveManager, StoreTypeOK
<1>. QED
  BY <1>1, <1>4, <1>5, <1>6, <1>7, <1>8, <1>9 DEF CallStep

LEMMA WritesPlacedStep ==
  ASSUME StoreTypeOK, WritesPlaced, NEW c \in StoreCalls, CallStep(c)
  PROVE  WritesPlaced'
<1>0. Local(c) /\ JobOf[c].op \in {"create", "add", "mark"}
  BY StepIsLocal, Jobs
<1>. SUFFICES
       /\ calling'[c] \in {"none", "first"} => write'[c].file = JobOf[c].file
       /\ calling'[c] = "second" => write'[c].file = ProcessOf(c) /\ JobOf[c].op # "create"
       /\ write'[c].file \in {JobOf[c].file, ProcessOf(c)}
       /\ calling'[c] = "none" => ~write'[c].opened
       /\ c \in deserted' => calling'[c] \in {"first", "second", "gone"}
       /\ calling'[c] = "first" /\ JobOf[c].op # "mark" => write'[c].text = Fresh
  BY <1>0 DEF WritesPlaced, Local, AtWork
<1>1. CASE CreateProcess(c)
  BY <1>1 DEF CreateProcess, EnterManager, HandOver, StoreTypeOK, WritesPlaced, AtWork
<1>2. CASE AddThread(c)
  BY <1>2 DEF AddThread, EnterManager, HandOver, StoreTypeOK, WritesPlaced, AtWork
<1>3. CASE MarkThread(c)
  BY <1>3 DEF MarkThread, EnterManager, HandOver, StoreTypeOK, WritesPlaced, AtWork
<1>4. CASE OpenFile(c)
  BY <1>4 DEF OpenFile, StoreTypeOK, WritesPlaced, AtWork
<1>5. CASE FirstWritten(c)
  <2>. DEFINE process == SaveProcess(c, known \cup {JobOf[c].file},
                                    [memory EXCEPT ![JobOf[c].file] = write[c].text])
  <2>1. /\ calling[c] = "first" /\ c \notin deserted /\ UNCHANGED deserted
        /\ \/ calling' = [calling EXCEPT ![c] = "done"] /\ UNCHANGED write
           \/ /\ calling' = [calling EXCEPT ![c] = "second"] /\ JobOf[c].op # "create"
              /\ HandOver(c, ProcessOf(c), process)
    BY <1>5 DEF FirstWritten, FileWritten
  <2>. HIDE DEF process
  <2>. QED
    BY <2>1 DEF HandOver, WritesPlaced, StoreTypeOK
<1>6. CASE SecondWritten(c) \/ LateWritten(c)
  BY <1>6 DEF SecondWritten, LateWritten, FileWritten, WritesPlaced, AtWork, StoreTypeOK
<1>8. CASE StoreFails(c)
  BY <1>8 DEF StoreFails, WritesPlaced, AtWork, StoreTypeOK
<1>9. CASE Desert(c)
  BY <1>9 DEF Desert, WritesPlaced, AtWork, StoreTypeOK
<1>. QED
  BY <1>1, <1>2, <1>3, <1>4, <1>5, <1>6, <1>8, <1>9 DEF CallStep

\* What a step enters, and which file it touches.
LEMMA StepEnters ==
  ASSUME StoreTypeOK, WritesPlaced, NEW c \in StoreCalls, CallStep(c)
  PROVE  /\ \/ known' = known
            \/ /\ calling[c] = "first" /\ calling'[c] # "first"
               /\ known' = known \cup {JobOf[c].file}
         /\ calling'[c] = "second" /\ calling[c] # "second" =>
              calling[c] = "first" /\ JobOf[c].file \in known'
         /\ calling[c] = "first" /\ calling'[c] = "done" => JobOf[c].file \in known'
         /\ \A f \in Files : disk'[f] # disk[f] => AtWork(c) /\ f = write[c].file
         /\ calling[c] = "none" =>
              \/ calling'[c] = "first"
              \/ UNCHANGED calling
         /\ calling'[c] # "none"
         /\ calling'[c] = "first" /\ calling[c] # "first" =>
              /\ calling[c] = "none" /\ managing = Nobody
              /\ JobOf[c].op # "create" => ProcessOf(c) \in known
              /\ JobOf[c].op = "mark" => JobOf[c].file \in known
         /\ calling[c] # "none" => calling'[c] # "none"
<1>0. write[c].file \in Files
  BY WriteStaysHome
<1>1. CASE CreateProcess(c)
  BY <1>1 DEF CreateProcess, EnterManager, StoreTypeOK
<1>2. CASE AddThread(c)
  BY <1>2 DEF AddThread, EnterManager, StoreTypeOK
<1>3. CASE MarkThread(c)
  BY <1>3 DEF MarkThread, EnterManager, StoreTypeOK
<1>4. CASE OpenFile(c)
  BY <1>0, <1>4 DEF OpenFile, StoreTypeOK, AtWork
<1>5. CASE FirstWritten(c)
  <2>1. /\ calling[c] = "first" /\ FileWritten(c) /\ known' = known \cup {JobOf[c].file}
        /\ \/ calling' = [calling EXCEPT ![c] = "done"]
           \/ calling' = [calling EXCEPT ![c] = "second"]
    BY <1>5 DEF FirstWritten
  <2>. QED
    BY <1>0, <2>1 DEF FileWritten, StoreTypeOK, AtWork
<1>6. CASE SecondWritten(c) \/ LateWritten(c)
  BY <1>0, <1>6 DEF SecondWritten, LateWritten, FileWritten, AtWork, StoreTypeOK
<1>8. CASE StoreFails(c)
  BY <1>0, <1>8 DEF StoreFails, AtWork, StoreTypeOK
<1>9. CASE Desert(c)
  BY <1>9 DEF Desert, AtWork, StoreTypeOK
<1>. QED
  BY <1>1, <1>2, <1>3, <1>4, <1>5, <1>6, <1>8, <1>9 DEF CallStep

LEMMA NamesFreshStep ==
  ASSUME StoreTypeOK, WritesPlaced, NamesFresh, NEW c \in StoreCalls, CallStep(c)
  PROVE  NamesFresh'
<1>0. Local(c) /\ known \subseteq known'
  BY StepIsLocal DEF Local
<1>1. \A t \in Threads \cap known' : OwnerOf[t] \in known'
  <2>1. known' # known => calling[c] = "first" /\ known' = known \cup {JobOf[c].file}
    BY StepEnters
  <2>2. JobOf[c].file \in Threads => JobOf[c].op # "create"
    BY Jobs, StoreAssumption
  <2>. QED
    BY <1>0, <2>1, <2>2, Jobs DEF NamesFresh, AtWork
<1>2. \A d \in StoreCalls :
        /\ AtWork(d)' /\ JobOf[d].op # "create" => ProcessOf(d) \in known'
        /\ AtWork(d)' /\ (JobOf[d].op = "mark" \/ calling'[d] = "second") =>
             JobOf[d].file \in known'
  <2>1. \A d \in StoreCalls \ {c} : AtWork(d)' <=> AtWork(d)
    BY <1>0 DEF Local, AtWork
  <2>. QED
    BY <1>0, <2>1, StepEnters DEF NamesFresh, Local, AtWork
<1>3. ASSUME NEW d \in StoreCalls, JobOf[d].op # "mark", calling'[d] \in {"none", "first"}
      PROVE  JobOf[d].file \notin known'
  <2>1. calling[d] \in {"none", "first"}
    BY <1>0, <1>3, StepEnters DEF Local
  <2>2. JobOf[d].file \notin known
    BY <1>3, <2>1 DEF NamesFresh
  <2>3. ASSUME JobOf[d].file \in known' PROVE FALSE
    <3>1. calling[c] = "first" /\ JobOf[c].file = JobOf[d].file
      BY <2>2, <2>3, StepEnters
    <3>2. JobOf[c].op # "mark"
      BY <2>2, <3>1 DEF NamesFresh, AtWork
    <3>3. c = d
      BY <1>3, <3>1, <3>2, StoreAssumption
    <3>4. calling'[c] = "first" /\ known' # known
      BY <1>0, <1>3, <2>2, <2>3, <3>1, <3>3, StepEnters
    <3>. QED
      BY <3>4, StepEnters
  <2>. QED
    BY <2>3
<1>4. ASSUME NEW d \in StoreCalls, JobOf[d].op # "mark", calling'[d] = "none"
      PROVE  disk'[JobOf[d].file].holds = "nothing"
  <2>1. d # c /\ calling[d] = "none"
    BY <1>0, <1>4, StepEnters DEF Local
  <2>2. JobOf[d].file \notin known /\ disk[JobOf[d].file].holds = "nothing"
    BY <1>4, <2>1 DEF NamesFresh
  <2>3. AtWork(c) => write[c].file # JobOf[d].file
    BY <1>4, <2>1, <2>2, StoreAssumption DEF NamesFresh, WritesPlaced, AtWork
  <2>. QED
    BY <2>2, <2>3, StepEnters, Jobs
<1>5. ASSUME NEW e \in StoreCalls, JobOf[e].op = "create", calling'[e] \in {"none", "first"},
             NEW d \in StoreCalls, d # e, ProcessOf(d) = JobOf[e].file
      PROVE  calling'[d] = "none"
  <2>1. calling[e] \in {"none", "first"}
    BY <1>0, <1>5, StepEnters DEF Local
  <2>2. calling[d] = "none"
    BY <1>5, <2>1 DEF NamesFresh
  <2>3. JobOf[e].file \notin known
    BY <1>5, <2>1 DEF NamesFresh
  <2>4. JobOf[d].op # "create"
    BY <1>5, Jobs, StoreAssumption
  <2>. QED
    BY <1>0, <1>5, <2>2, <2>3, <2>4, StepEnters DEF Local
<1>. QED
  BY <1>1, <1>2, <1>3, <1>4, <1>5 DEF NamesFresh

LEMMA FilesWholeStep ==
  ASSUME StoreTypeOK, WritesPlaced, ManagerHeld, FilesWhole, NEW c \in StoreCalls, CallStep(c)
  PROVE  FilesWhole'
<1>0. /\ Local(c) /\ Disturbed \subseteq Disturbed' /\ write[c].file \in Files
      /\ known \subseteq known' /\ ManagerHeld' /\ known' \subseteq Files /\ Nobody \notin StoreCalls
  <2>1. known' \subseteq Files
    BY StepEnters, Jobs DEF StoreTypeOK
  <2>. QED
    BY <2>1, StepIsLocal, DisturbedGrows, WriteStaysHome, ManagerHeldStep, StoreAssumption DEF Local
<1>i. ASSUME NEW d \in StoreCalls, Interrupted(d), write[d].opened
      PROVE  write[d].file \in Disturbed
  BY <1>i DEF Disturbed
<1>j. ASSUME NEW d \in StoreCalls, Interrupted(d)', write'[d].opened
      PROVE  write'[d].file \in Disturbed'
  BY <1>j DEF Disturbed
<1>o. \A d \in StoreCalls \ {c} :
        /\ write'[d] = write[d] /\ (AtWork(d)' <=> AtWork(d))
  BY <1>0 DEF Local, AtWork
<1>1. CASE CreateProcess(c) \/ AddThread(c) \/ MarkThread(c)
  <2>1. /\ calling[c] = "none" /\ managing = Nobody /\ managing' = c /\ ~write'[c].opened
        /\ UNCHANGED <<known, disk>>
    BY <1>1 DEF CreateProcess, AddThread, MarkThread, EnterManager, HandOver, StoreTypeOK
  <2>2. ~AtWork(c)
    BY <2>1 DEF AtWork
  <2>. QED
    BY <1>0, <1>o, <2>1, <2>2 DEF FilesWhole, Legible
<1>4. CASE OpenFile(c)
  <2>1. /\ AtWork(c) /\ AtWork(c)' /\ write'[c].opened /\ write'[c].file = write[c].file
        /\ disk'[write[c].file].holds = "truncated"
        /\ \A f \in Files \ {write[c].file} : disk'[f] = disk[f]
        /\ UNCHANGED <<known, managing>>
    BY <1>0, <1>4 DEF OpenFile, AtWork, StoreTypeOK
  <2>2. \A f \in known' : \/ Legible(f)' \/ f \in Disturbed'
                          \/ \E d \in StoreCalls :
                               AtWork(d)' /\ write'[d].file = f /\ write'[d].opened
    BY <1>0, <1>o, <2>1 DEF FilesWhole, Legible, StoreTypeOK
  <2>3. \A d \in StoreCalls : managing' = d /\ write'[d].opened =>
          disk'[write'[d].file].holds = "truncated" \/ write'[d].file \in Disturbed'
    <3>1. \A d \in StoreCalls : write[d].file \in Files
      BY DEF StoreTypeOK
    <3>. QED
      BY <1>0, <1>o, <2>1, <3>1 DEF FilesWhole
  <2>. QED
    BY <2>2, <2>3 DEF FilesWhole
<1>5. CASE FirstWritten(c) \/ SecondWritten(c)
  <2>1. /\ AtWork(c) /\ c \notin deserted /\ FileWritten(c)
        /\ \A f \in Files \ {write[c].file} : disk'[f] = disk[f]
    BY <1>5 DEF FirstWritten, SecondWritten, FileWritten, AtWork, StoreTypeOK
  <2>2. managing = c
    BY <2>1 DEF ManagerHeld
  <2>3. disk[write[c].file].holds = "truncated" \/ write[c].file \in Disturbed
    BY <2>1, <2>2 DEF FilesWhole, FileWritten
  <2>4. disk'[write[c].file].holds = "text" \/ write[c].file \in Disturbed'
    BY <1>0, <2>1, <2>3 DEF FileWritten, StoreTypeOK
  <2>5. known' \subseteq known \cup {write[c].file}
    <3>1. CASE FirstWritten(c)
      BY <3>1 DEF FirstWritten, WritesPlaced
    <3>2. CASE SecondWritten(c)
      BY <3>2 DEF SecondWritten
    <3>. QED
      BY <1>5, <3>1, <3>2
  <2>6. \/ managing' = Nobody
        \/ managing' = c /\ ~write'[c].opened
    <3>1. CASE FirstWritten(c)
      <4>. DEFINE process == SaveProcess(c, known \cup {JobOf[c].file},
                                         [memory EXCEPT ![JobOf[c].file] = write[c].text])
      <4>1. \/ LeaveManager(c)
            \/ HandOver(c, ProcessOf(c), process) /\ UNCHANGED managing
        BY <3>1 DEF FirstWritten
      <4>. HIDE DEF process
      <4>. QED
        BY <2>2, <4>1 DEF LeaveManager, HandOver, StoreTypeOK
    <3>2. CASE SecondWritten(c)
      BY <2>2, <3>2 DEF SecondWritten, LeaveManager
    <3>. QED
      BY <1>5, <3>1, <3>2
  <2>7. \A f \in known' : \/ Legible(f)' \/ f \in Disturbed'
                          \/ \E d \in StoreCalls :
                               AtWork(d)' /\ write'[d].file = f /\ write'[d].opened
    BY <1>0, <1>o, <2>1, <2>4, <2>5 DEF FilesWhole, Legible
  <2>. QED
    BY <1>0, <2>6, <2>7 DEF FilesWhole
<1>7. CASE LateWritten(c)
  <2>1. /\ c \in deserted /\ write[c].opened /\ UNCHANGED <<managing, known, write>>
        /\ \A f \in Files \ {write[c].file} : disk'[f] = disk[f]
    BY <1>7 DEF LateWritten, FileWritten, StoreTypeOK
  <2>2. write[c].file \in Disturbed'
    BY <1>0, <1>i, <2>1 DEF Interrupted
  <2>3. \A f \in known' : \/ Legible(f)' \/ f \in Disturbed'
                          \/ \E d \in StoreCalls :
                               AtWork(d)' /\ write'[d].file = f /\ write'[d].opened
    BY <1>0, <1>o, <2>1, <2>2 DEF FilesWhole, Legible
  <2>4. \A d \in StoreCalls : managing' = d /\ write'[d].opened =>
          disk'[write'[d].file].holds = "truncated" \/ write'[d].file \in Disturbed'
    <3>1. \A d \in StoreCalls : write[d].file \in Files
      BY DEF StoreTypeOK
    <3>. QED
      BY <1>0, <2>1, <2>2, <3>1 DEF FilesWhole
  <2>. QED
    BY <2>3, <2>4 DEF FilesWhole
<1>8. CASE StoreFails(c)
  <2>1. /\ AtWork(c) /\ Interrupted(c)' /\ UNCHANGED <<known, write>>
        /\ managing' \in {managing, Nobody}
        /\ \A f \in Files \ {write[c].file} : disk'[f] = disk[f]
        /\ write[c].opened \/ UNCHANGED disk
    BY <1>8 DEF StoreFails, StoreTypeOK, LeaveManager, AtWork, Interrupted
  <2>2. write[c].opened => write[c].file \in Disturbed'
    BY <1>j, <2>1
  <2>3. \A f \in known' : \/ Legible(f)' \/ f \in Disturbed'
                          \/ \E d \in StoreCalls :
                               AtWork(d)' /\ write'[d].file = f /\ write'[d].opened
    BY <1>0, <1>o, <2>1, <2>2 DEF FilesWhole, Legible
  <2>4. \A d \in StoreCalls : managing' = d /\ write'[d].opened =>
          disk'[write'[d].file].holds = "truncated" \/ write'[d].file \in Disturbed'
    <3>1. \A d \in StoreCalls : write[d].file \in Files
      BY DEF StoreTypeOK
    <3>. QED
      BY <1>0, <2>1, <2>2, <3>1 DEF FilesWhole
  <2>. QED
    BY <2>3, <2>4 DEF FilesWhole
<1>9. CASE Desert(c)
  <2>1. /\ UNCHANGED <<known, write, disk, calling>> /\ managing' \in {managing, Nobody}
    BY <1>9 DEF Desert, LeaveManager
  <2>. QED
    BY <1>0, <2>1 DEF FilesWhole, Legible, AtWork
<1>. QED
  BY <1>1, <1>4, <1>5, <1>7, <1>8, <1>9 DEF CallStep

LEMMA StatusOfNone ==
  ASSUME NEW S, S \subseteq {"Created", "Active", "Paused"}
  PROVE  StatusFrom(S \cup {"Created"}) = StatusFrom(S)
<1>1. "Error" \notin S \cup {"Created"} /\ "Error" \notin S
  OBVIOUS
<1>2. S \cup {"Created"} # {"Completed"} /\ S # {"Completed"}
  OBVIOUS
<1>3. "Active" \in S \cup {"Created"} <=> "Active" \in S
  OBVIOUS
<1>. QED
  BY <1>1, <1>2, <1>3 DEF StatusFrom

\* What a step of a call does to no other process.
LEMMA OtherProcessesKept ==
  ASSUME StoreTypeOK, WritesPlaced, IndexKept, NEW c \in StoreCalls, Local(c),
         NEW q \in Processes, q # ProcessOf(c), Uninterrupted(q)'
  PROVE  ProcessTrue(q)' /\ SummaryTrue(q)'
<1>1. /\ \A d \in StoreCalls : ProcessOf(d) = q =>
           /\ calling'[d] = calling[d] /\ write'[d] = write[d]
           /\ AtWork(d)' <=> AtWork(d)
           /\ Interrupted(d)' <=> Interrupted(d)
           /\ write[d].file \in FilesOf(q)
      /\ FilesOf(q) \subseteq Files \ FilesOf(ProcessOf(c))
  BY Jobs, FilesApart, FilesOfTypes, WriteStaysHome DEF Local, AtWork, Interrupted
<1>2. \A f \in FilesOf(q) : disk'[f] = disk[f] /\ memory'[f] = memory[f]
                            /\ (f \in known' <=> f \in known)
  BY <1>1 DEF Local
<1>3. Uninterrupted(q)
  BY <1>1 DEF Uninterrupted
<1>4. ProcessTrue(q) /\ SummaryTrue(q)
  BY <1>3 DEF IndexKept
<1>5. ProcessTrue(q)'
  BY <1>1, <1>2, <1>4 DEF ProcessTrue, Legible
<1>6. ThreadsIn(q, known') = ThreadsIn(q, known) /\ q \in FilesOf(q)
      /\ ThreadsIn(q, known) \subseteq FilesOf(q)
  BY <1>2 DEF ThreadsIn, FilesOf
<1>7. StatusNow(q, memory)' = StatusNow(q, memory)
  <2>1. {memory'[t].status : t \in ThreadsIn(q, known')}
          = {memory[t].status : t \in ThreadsIn(q, known)}
    BY <1>2, <1>6
  <2>. QED
    BY <2>1 DEF StatusNow
<1>8. \A stages : MarkStage(q, stages)' <=> MarkStage(q, stages)
  BY <1>1 DEF MarkStage
<1>9. SummaryTrue(q)'
  BY <1>2, <1>4, <1>6, <1>7, <1>8 DEF SummaryTrue
<1>. QED
  BY <1>5, <1>9

\* A process whose calls are all with their callers has no file disturbed, and
\* no call at work but the holder of the lock.
LEMMA QuietProcess ==
  ASSUME StoreTypeOK, WritesPlaced, ManagerHeld, NEW p \in Processes, Uninterrupted(p)
  PROVE  /\ FilesOf(p) \cap Disturbed = {}
         /\ \A d \in StoreCalls : ProcessOf(d) = p /\ AtWork(d) => managing = d
<1>1. ASSUME NEW d \in StoreCalls, Interrupted(d) PROVE write[d].file \notin FilesOf(p)
  <2>1. ProcessOf(d) # p /\ ProcessOf(d) \in Processes
    BY <1>1, Jobs DEF Uninterrupted
  <2>. QED
    BY <2>1, WriteStaysHome, FilesApart
<1>. QED
  BY <1>1 DEF Disturbed, Uninterrupted, ManagerHeld, Interrupted

\* No more is known of it, and its marks are at the stages they were at.
LEMMA SummaryStays ==
  ASSUME NEW p \in Processes, SummaryTrue(p), UNCHANGED <<memory, known>>,
         MarkStage(p, {"first"})' <=> MarkStage(p, {"first"}),
         MarkStage(p, {"second", "done"})' <=> MarkStage(p, {"second", "done"})
  PROVE  SummaryTrue(p)'
  BY DEF SummaryTrue, StatusNow

LEMMA EnterKeepsIndex ==
  ASSUME StoreTypeOK, ThreadsTyped, ManagerHeld, WritesPlaced, NamesFresh, IndexKept,
         NEW c \in StoreCalls, CreateProcess(c) \/ AddThread(c) \/ MarkThread(c),
         NEW p \in Processes, p = ProcessOf(c), Uninterrupted(p)'
  PROVE  ProcessTrue(p)' /\ SummaryTrue(p)'
<1>0. /\ calling[c] = "none" /\ managing = Nobody /\ calling'[c] = "first"
      /\ \A d \in StoreCalls \ {c} : calling'[d] = calling[d] /\ write'[d] = write[d]
      /\ UNCHANGED <<deserted, known, disk>>
      /\ write'[c].file = JobOf[c].file /\ Nobody \notin StoreCalls
  BY StoreAssumption
     DEF CreateProcess, AddThread, MarkThread, EnterManager, HandOver, StoreTypeOK
<1>1. Uninterrupted(p)
  BY <1>0 DEF Uninterrupted, Interrupted
<1>2. ProcessTrue(p) /\ SummaryTrue(p)
  BY <1>1 DEF IndexKept
<1>3. \A d \in StoreCalls : ProcessOf(d) = p => ~AtWork(d)
  BY <1>0, <1>1, QuietProcess
<1>4. CASE CreateProcess(c)
  <2>1. JobOf[c].file = p /\ p \notin known /\ UNCHANGED memory /\ JobOf[c].op = "create"
    BY <1>0, <1>4, Jobs DEF CreateProcess, NamesFresh
  <2>2. FilesOf(p) \cap known = {}
    BY <2>1 DEF FilesOf, NamesFresh
  <2>3. ProcessTrue(p)'
    BY <1>0, <1>2, <1>3, <2>1, <2>2 DEF ProcessTrue, Legible, AtWork
  <2>. QED
    BY <1>0, <2>1, <2>3 DEF SummaryTrue
<1>5. CASE AddThread(c)
  <2>1. JobOf[c].file \notin known /\ UNCHANGED memory /\ JobOf[c].op = "add"
    BY <1>0, <1>5, Jobs DEF AddThread, NamesFresh
  <2>2. ProcessTrue(p)'
    BY <1>0, <1>2, <1>3, <2>1 DEF ProcessTrue, Legible, AtWork
  <2>3. /\ MarkStage(p, {"first"})' <=> MarkStage(p, {"first"})
        /\ MarkStage(p, {"second", "done"})' <=> MarkStage(p, {"second", "done"})
    BY <1>0, <2>1 DEF MarkStage
  <2>. QED
    BY <1>0, <1>2, <2>1, <2>2, <2>3, SummaryStays
<1>6. CASE MarkThread(c)
  <2>. DEFINE f == JobOf[c].file
  <2>1. PICK status \in {"Created", "Active", "Paused"} :
          /\ memory' = [memory EXCEPT ![f].status = status]
          /\ HandOver(c, f, [status |-> status, count |-> 0])
    BY <1>6 DEF MarkThread
  <2>2. /\ f \in Threads /\ f \in Files /\ p \in Files /\ f # p /\ f \in FilesOf(p) /\ f \in known
        /\ JobOf[c].op = "mark" /\ FilesOf(p) \subseteq Files
    BY <1>6, Jobs, StoreAssumption, FilesOfTypes DEF MarkThread
  <2>3. memory' = [memory EXCEPT ![f] = [memory[f] EXCEPT !.status = status]]
    BY <2>1
  <2>4. [memory[f] EXCEPT !.status = status] = [status |-> status, count |-> 0]
    BY <2>2 DEF ThreadsTyped, ThreadTexts
  <2>. HIDE DEF f
  <2>5. /\ memory'[f] = [status |-> status, count |-> 0]
        /\ \A g \in Files \ {f} : memory'[g] = memory[g]
        /\ write'[c].text = [status |-> status, count |-> 0]
    BY <2>1, <2>2, <2>3, <2>4 DEF StoreTypeOK, HandOver
  <2>6. write'[c].file = f
    BY <1>0 DEF f
  <2>7. ProcessTrue(p)'
    <3>1. ASSUME NEW g \in FilesOf(p) \cap known'
          PROVE  \/ disk'[g] = [holds |-> "text", text |-> memory'[g]]
                 \/ \E d \in StoreCalls : ProcessOf(d) = p /\ AtWork(d)' /\ write'[d].file = g
      <4>1. CASE g = f
        BY <1>0, <2>6, <4>1 DEF AtWork
      <4>2. CASE g # f
        BY <1>0, <1>2, <1>3, <2>2, <2>5, <4>2 DEF ProcessTrue
      <4>. QED
        BY <4>1, <4>2
    <3>2. \A g \in FilesOf(p) \ known' : ~Legible(g)'
      BY <1>0, <1>2 DEF ProcessTrue, Legible
    <3>3. \A d \in StoreCalls : ProcessOf(d) = p /\ AtWork(d)' /\ write'[d].file \in known' =>
            write'[d].text = memory'[write'[d].file]
      <4>1. \A d \in StoreCalls \ {c} : ProcessOf(d) = p => ~AtWork(d)'
        BY <1>0, <1>3 DEF AtWork
      <4>. QED
        BY <2>5, <2>6, <4>1
    <3>. QED
      BY <3>1, <3>2, <3>3 DEF ProcessTrue
  <2>8. MarkStage(p, {"first"})'
    BY <1>0, <2>2 DEF MarkStage
  <2>9. SummaryTrue(p)'
    BY <1>0, <1>2, <2>2, <2>5, <2>8 DEF SummaryTrue
  <2>. QED
    BY <2>7, <2>9
<1>. QED
  BY <1>4, <1>5, <1>6

LEMMA OpenKeepsIndex ==
  ASSUME StoreTypeOK, IndexKept, NEW c \in StoreCalls, OpenFile(c),
         NEW p \in Processes, p = ProcessOf(c), Uninterrupted(p)'
  PROVE  ProcessTrue(p)' /\ SummaryTrue(p)'
<1>0. /\ AtWork(c) /\ write[c].file \in Files
      /\ \A f \in Files \ {write[c].file} : disk'[f] = disk[f]
      /\ disk'[write[c].file].holds = "truncated"
      /\ \A d \in StoreCalls : write'[d].file = write[d].file /\ write'[d].text = write[d].text
      /\ UNCHANGED <<calling, deserted, known, memory>>
  BY DEF OpenFile, AtWork, StoreTypeOK
<1>1. Uninterrupted(p)
  BY <1>0 DEF Uninterrupted, Interrupted
<1>2. ProcessTrue(p) /\ SummaryTrue(p)
  BY <1>1 DEF IndexKept
<1>3. ProcessTrue(p)'
  BY <1>0, <1>2, FilesOfTypes DEF ProcessTrue, Legible, AtWork
<1>4. SummaryTrue(p)'
  BY <1>0, <1>2, SummaryStays DEF MarkStage
<1>. QED
  BY <1>3, <1>4

\* What a write whose caller waits for it leaves in its file.
LEMMA WrittenWhole ==
  ASSUME StoreTypeOK, WritesPlaced, ManagerHeld, FilesWhole, NEW c \in StoreCalls, AtWork(c),
         FileWritten(c), NEW p \in Processes, p = ProcessOf(c), Uninterrupted(p)
  PROVE  /\ disk' = [disk EXCEPT ![write[c].file] = [holds |-> "text", text |-> write[c].text]]
         /\ managing = c
         /\ \A d \in StoreCalls \ {c} : ProcessOf(d) = p => ~AtWork(d)
<1>1. managing = c /\ \A d \in StoreCalls \ {c} : ProcessOf(d) = p => ~AtWork(d)
  BY QuietProcess
<1>2. write[c].file \notin Disturbed
  BY WriteStaysHome, QuietProcess
<1>3. disk[write[c].file].holds = "truncated"
  BY <1>1, <1>2 DEF FilesWhole, FileWritten
<1>. QED
  BY <1>1, <1>3 DEF FileWritten

LEMMA CreateKeepsIndex ==
  ASSUME StoreTypeOK, WritesPlaced, ManagerHeld, NamesFresh, FilesWhole, IndexKept,
         NEW c \in StoreCalls, FirstWritten(c), JobOf[c].op = "create",
         NEW p \in Processes, p = ProcessOf(c), Uninterrupted(p)'
  PROVE  ProcessTrue(p)' /\ SummaryTrue(p)'
<1>0. /\ calling[c] = "first" /\ c \notin deserted /\ FileWritten(c)
      /\ known' = known \cup {p} /\ JobOf[c].file = p /\ p \in Files
      /\ memory' = [memory EXCEPT ![p] = write[c].text]
      /\ calling' = [calling EXCEPT ![c] = "done"]
      /\ UNCHANGED <<write, deserted>>
      /\ write[c].file = p /\ write[c].text = Fresh /\ AtWork(c)
  BY Jobs DEF FirstWritten, FileWritten, WritesPlaced, AtWork
<1>1. Uninterrupted(p)
  BY <1>0 DEF Uninterrupted, Interrupted, StoreTypeOK
<1>2. ProcessTrue(p)
  BY <1>1 DEF IndexKept
<1>3. /\ disk' = [disk EXCEPT ![p] = [holds |-> "text", text |-> Fresh]]
      /\ \A d \in StoreCalls \ {c} : ProcessOf(d) = p => ~AtWork(d)
  BY <1>0, <1>1, WrittenWhole
<1>4. /\ p \notin known /\ FilesOf(p) \cap known = {} /\ p \notin Threads
      /\ \A d \in StoreCalls \ {c} : ProcessOf(d) = p => calling[d] = "none"
  BY <1>0, StoreAssumption DEF NamesFresh, FilesOf
<1>5. /\ memory'[p] = Fresh /\ disk'[p] = [holds |-> "text", text |-> Fresh]
      /\ \A f \in Files \ {p} : disk'[f] = disk[f]
      /\ FilesOf(p) \cap known' = {p}
  BY <1>0, <1>3, <1>4 DEF StoreTypeOK, FilesOf
<1>6. \A d \in StoreCalls : ProcessOf(d) = p => ~AtWork(d)'
  BY <1>0, <1>3 DEF AtWork, StoreTypeOK
<1>7. ProcessTrue(p)'
  BY <1>2, <1>0, <1>5, <1>6, FilesOfTypes DEF ProcessTrue, Legible
<1>8. ThreadsIn(p, known') = {} /\ Cardinality({}) = 0
  BY <1>0, <1>4, FS_EmptySet DEF ThreadsIn, FilesOf
<1>9. ~MarkStage(p, {"second", "done"})'
  BY <1>0, <1>4 DEF MarkStage, StoreTypeOK
<1>10. SummaryTrue(p)'
  BY <1>5, <1>8, <1>9 DEF SummaryTrue, Fresh
<1>. QED
  BY <1>7, <1>10

\* What the first write of a thread's call changes, and what it hands over.
LEMMA ThreadWritten ==
  ASSUME StoreTypeOK, WritesPlaced, ManagerHeld, NamesFresh, FilesWhole, IndexKept,
         NEW c \in StoreCalls, FirstWritten(c), JobOf[c].op # "create",
         NEW p \in Processes, p = ProcessOf(c), Uninterrupted(p)'
  PROVE  LET t == JobOf[c].file
             process == SaveProcess(c, known \cup {t}, [memory EXCEPT ![t] = write[c].text])
         IN /\ Uninterrupted(p) /\ ProcessTrue(p) /\ SummaryTrue(p)
            /\ t \in Threads /\ OwnerOf[t] = p /\ p \in known /\ t # p /\ {t, p} \subseteq FilesOf(p)
            /\ known' = known \cup {t}
            /\ memory'[t] = write[c].text /\ memory'[p] = process
            /\ \A f \in Files : f # t /\ f # p => memory'[f] = memory[f]
            /\ disk'[t] = [holds |-> "text", text |-> write[c].text]
            /\ \A f \in Files \ {t} : disk'[f] = disk[f]
            /\ write[c].file = t
            /\ write'[c].file = p /\ write'[c].text = process
            /\ calling[c] = "first" /\ calling'[c] = "second"
            /\ \A d \in StoreCalls \ {c} : calling'[d] = calling[d]
            /\ \A d \in StoreCalls \ {c} : ProcessOf(d) = p => ~AtWork(d) /\ ~AtWork(d)'
<1>. DEFINE t == JobOf[c].file
            process == SaveProcess(c, known \cup {t}, [memory EXCEPT ![t] = write[c].text])
<1>0. /\ calling[c] = "first" /\ c \notin deserted /\ FileWritten(c) /\ AtWork(c)
      /\ known' = known \cup {t}
      /\ memory' = [[memory EXCEPT ![t] = write[c].text] EXCEPT ![p] = process]
      /\ calling' = [calling EXCEPT ![c] = "second"]
      /\ write' = [write EXCEPT ![c] = [file |-> p, text |-> process, opened |-> FALSE]]
      /\ UNCHANGED deserted /\ write[c].file = t
  BY DEF FirstWritten, FileWritten, WritesPlaced, HandOver, AtWork
<1>. HIDE DEF process, t
<1>1. /\ t \in Threads /\ OwnerOf[t] = p /\ p \in known /\ t # p /\ {t, p} \subseteq FilesOf(p)
      /\ t \in Files /\ p \in Files
  BY <1>0, Jobs, StoreAssumption DEF NamesFresh, t
<1>2. Uninterrupted(p)
  BY <1>0 DEF Uninterrupted, Interrupted, StoreTypeOK
<1>3. ProcessTrue(p) /\ SummaryTrue(p)
  BY <1>2 DEF IndexKept
<1>4. /\ disk' = [disk EXCEPT ![t] = [holds |-> "text", text |-> write[c].text]]
      /\ \A d \in StoreCalls \ {c} : ProcessOf(d) = p => ~AtWork(d)
  BY <1>0, <1>2, WrittenWhole
<1>5. /\ \A d \in StoreCalls \ {c} : calling'[d] = calling[d]
      /\ calling'[c] = "second"
      /\ write'[c].file = p /\ write'[c].text = process
  BY <1>0 DEF StoreTypeOK
<1>6. /\ memory'[t] = write[c].text /\ memory'[p] = process
      /\ \A f \in Files : f # t /\ f # p => memory'[f] = memory[f]
      /\ disk'[t] = [holds |-> "text", text |-> write[c].text]
      /\ \A f \in Files \ {t} : disk'[f] = disk[f]
  BY <1>0, <1>1, <1>4 DEF StoreTypeOK
<1>7. \A d \in StoreCalls \ {c} : ProcessOf(d) = p => ~AtWork(d) /\ ~AtWork(d)'
  BY <1>4, <1>5 DEF AtWork
<1>. QED
  BY <1>0, <1>1, <1>2, <1>3, <1>5, <1>6, <1>7 DEF process, t

LEMMA FirstKeepsFiles ==
  ASSUME StoreTypeOK, WritesPlaced, ManagerHeld, NamesFresh, FilesWhole, IndexKept,
         NEW c \in StoreCalls, FirstWritten(c), JobOf[c].op # "create",
         NEW p \in Processes, p = ProcessOf(c), Uninterrupted(p)'
  PROVE  ProcessTrue(p)'
<1>. DEFINE t == JobOf[c].file
            process == SaveProcess(c, known \cup {t}, [memory EXCEPT ![t] = write[c].text])
<1>0. /\ ProcessTrue(p)
      /\ t \in Threads /\ OwnerOf[t] = p /\ p \in known /\ t # p /\ {t, p} \subseteq FilesOf(p)
      /\ known' = known \cup {t}
      /\ memory'[t] = write[c].text /\ memory'[p] = process
      /\ \A f \in Files : f # t /\ f # p => memory'[f] = memory[f]
      /\ disk'[t] = [holds |-> "text", text |-> write[c].text]
      /\ \A f \in Files \ {t} : disk'[f] = disk[f]
      /\ write[c].file = t
      /\ write'[c].file = p /\ write'[c].text = process
      /\ calling[c] = "first" /\ calling'[c] = "second"
      /\ \A d \in StoreCalls \ {c} : ProcessOf(d) = p => ~AtWork(d) /\ ~AtWork(d)'
  BY ThreadWritten
<1>. HIDE DEF process, t
<1>1. ASSUME NEW f \in FilesOf(p) \cap known'
      PROVE  \/ disk'[f] = [holds |-> "text", text |-> memory'[f]]
             \/ \E d \in StoreCalls : ProcessOf(d) = p /\ AtWork(d)' /\ write'[d].file = f
  <2>1. CASE f = p
    BY <1>0, <2>1 DEF AtWork
  <2>2. CASE f = t
    BY <1>0, <2>2
  <2>3. CASE f # p /\ f # t
    <3>1. f \in FilesOf(p) \cap known /\ f \in Files
      BY <1>0, <2>3, FilesOfTypes
    <3>2. disk[f] = [holds |-> "text", text |-> memory[f]]
      BY <1>0, <2>3, <3>1 DEF ProcessTrue
    <3>. QED
      BY <1>0, <2>3, <3>1, <3>2
  <2>. QED
    BY <2>1, <2>2, <2>3
<1>2. \A f \in FilesOf(p) \ known' : ~Legible(f)'
  BY <1>0, FilesOfTypes DEF ProcessTrue, Legible
<1>3. \A d \in StoreCalls : ProcessOf(d) = p /\ AtWork(d)' /\ write'[d].file \in known' =>
        write'[d].text = memory'[write'[d].file]
  BY <1>0
<1>. QED
  BY <1>1, <1>2, <1>3 DEF ProcessTrue

LEMMA AddKeepsSummary ==
  ASSUME StoreTypeOK, ThreadsTyped, WritesPlaced, ManagerHeld, NamesFresh, FilesWhole, IndexKept,
         NEW c \in StoreCalls, FirstWritten(c), JobOf[c].op = "add",
         NEW p \in Processes, p = ProcessOf(c), Uninterrupted(p)'
  PROVE  SummaryTrue(p)'
<1>. DEFINE t == JobOf[c].file
            process == SaveProcess(c, known \cup {t}, [memory EXCEPT ![t] = write[c].text])
<1>0. /\ SummaryTrue(p)
      /\ t \in Threads /\ OwnerOf[t] = p /\ p \in known /\ t # p
      /\ known' = known \cup {t}
      /\ memory'[t] = write[c].text /\ memory'[p] = process
      /\ \A f \in Files : f # t /\ f # p => memory'[f] = memory[f]
      /\ calling[c] = "first" /\ calling'[c] = "second"
      /\ \A d \in StoreCalls \ {c} : calling'[d] = calling[d]
      /\ \A d \in StoreCalls \ {c} : ProcessOf(d) = p => ~AtWork(d) /\ ~AtWork(d)'
  <2>1. JobOf[c].op # "create"
    OBVIOUS
  <2>2. SummaryTrue(p)
    BY <2>1, ThreadWritten
  <2>3. t \in Threads /\ OwnerOf[t] = p /\ p \in known /\ t # p
    BY <2>1, ThreadWritten
  <2>4. known' = known \cup {t} /\ memory'[t] = write[c].text /\ memory'[p] = process
    BY <2>1, ThreadWritten
  <2>5. \A f \in Files : f # t /\ f # p => memory'[f] = memory[f]
    <3>1. memory' = [[memory EXCEPT ![t] = write[c].text] EXCEPT ![p] = process]
      BY <2>1 DEF FirstWritten
    <3>. HIDE DEF process, t
    <3>. QED
      BY <3>1 DEF StoreTypeOK
  <2>6. /\ calling[c] = "first" /\ calling'[c] = "second"
        /\ \A d \in StoreCalls \ {c} : calling'[d] = calling[d]
    BY <2>1, ThreadWritten
  <2>7. \A d \in StoreCalls \ {c} : ProcessOf(d) = p => ~AtWork(d) /\ ~AtWork(d)'
    BY <2>1, ThreadWritten
  <2>. QED
    BY <2>2, <2>3, <2>4, <2>5, <2>6, <2>7
<1>. DEFINE content == [memory EXCEPT ![t] = write[c].text]
            seen == {memory[u].status : u \in ThreadsIn(p, known)}
<1>1. t \notin known /\ write[c].text = Fresh /\ p \in Files /\ Threads \subseteq Files
  BY <1>0, Jobs DEF NamesFresh, WritesPlaced, Files
<1>2. content[p] = memory[p]
  BY <1>0, <1>1 DEF StoreTypeOK
<1>3. process = [memory[p] EXCEPT !.count = Cardinality(ThreadsIn(p, known'))]
  <2>. HIDE DEF content, t
  <2>. QED
    BY <1>0, <1>2 DEF SaveProcess
<1>4. memory'[p].count = Cardinality(ThreadsIn(p, known')) /\ memory'[p].status = memory[p].status
  <2>. HIDE DEF process, t
  <2>. QED
    BY <1>0, <1>1, <1>3 DEF StoreTypeOK, Contents
<1>5. \A stages : MarkStage(p, stages)' <=> MarkStage(p, stages)
  BY <1>0 DEF MarkStage
<1>6. ~MarkStage(p, {"first"})
  BY <1>0 DEF MarkStage, AtWork
<1>7. {memory'[u].status : u \in ThreadsIn(p, known')} = seen \cup {"Created"}
  <2>. HIDE DEF process, t
  <2>1. ThreadsIn(p, known') = ThreadsIn(p, known) \cup {t} /\ t \notin ThreadsIn(p, known)
    BY <1>0, <1>1 DEF ThreadsIn
  <2>2. \A u \in ThreadsIn(p, known) : memory'[u] = memory[u]
    BY <1>0, <1>1, <2>1, StoreAssumption DEF ThreadsIn
  <2>3. memory'[t].status = "Created"
    BY <1>0, <1>1 DEF Fresh
  <2>. QED
    BY <2>1, <2>2, <2>3
<1>8. StatusNow(p, memory)' = StatusNow(p, memory)
  <2>1. seen \subseteq {"Created", "Active", "Paused"}
    BY DEF ThreadsTyped, ThreadTexts, ThreadsIn
  <2>. QED
    BY <1>7, <2>1, StatusOfNone DEF StatusNow
<1>. QED
  BY <1>0, <1>4, <1>5, <1>6, <1>8 DEF SummaryTrue

LEMMA MarkKeepsSummary ==
  ASSUME StoreTypeOK, ThreadsTyped, WritesPlaced, ManagerHeld, NamesFresh, FilesWhole, IndexKept,
         NEW c \in StoreCalls, FirstWritten(c), JobOf[c].op = "mark",
         NEW p \in Processes, p = ProcessOf(c), Uninterrupted(p)'
  PROVE  SummaryTrue(p)'
<1>. DEFINE t == JobOf[c].file
            process == SaveProcess(c, known \cup {t}, [memory EXCEPT ![t] = write[c].text])
<1>0. /\ SummaryTrue(p) /\ ProcessTrue(p)
      /\ t \in Threads /\ OwnerOf[t] = p /\ p \in known /\ t # p
      /\ known' = known \cup {t}
      /\ memory'[t] = write[c].text /\ memory'[p] = process
      /\ \A f \in Files : f # t /\ f # p => memory'[f] = memory[f]
      /\ calling[c] = "first" /\ calling'[c] = "second" /\ write[c].file = t
  <2>1. JobOf[c].op # "create"
    OBVIOUS
  <2>2. SummaryTrue(p) /\ ProcessTrue(p)
    BY <2>1, ThreadWritten
  <2>3. t \in Threads /\ OwnerOf[t] = p /\ p \in known /\ t # p
    BY <2>1, ThreadWritten
  <2>4. known' = known \cup {t} /\ memory'[t] = write[c].text /\ memory'[p] = process
    BY <2>1, ThreadWritten
  <2>5. \A f \in Files : f # t /\ f # p => memory'[f] = memory[f]
    <3>1. memory' = [[memory EXCEPT ![t] = write[c].text] EXCEPT ![p] = process]
      BY <2>1 DEF FirstWritten
    <3>. HIDE DEF process, t
    <3>. QED
      BY <3>1 DEF StoreTypeOK
  <2>6. calling[c] = "first" /\ calling'[c] = "second" /\ write[c].file = t
    BY <2>1, ThreadWritten
  <2>. QED
    BY <2>2, <2>3, <2>4, <2>5, <2>6
<1>. DEFINE content == [memory EXCEPT ![t] = write[c].text]
<1>1. t \in known /\ p \in Files /\ Threads \subseteq Files
  BY <1>0, Jobs DEF NamesFresh, AtWork, Files
<1>2. write[c].text = memory[t]
  BY <1>0, <1>1 DEF ProcessTrue, AtWork
<1>3. content = memory
  BY <1>2 DEF StoreTypeOK
<1>4. known' = known
  BY <1>0, <1>1
<1>5. process = [memory[p] EXCEPT !.status = StatusNow(p, memory)]
  <2>. HIDE DEF t
  <2>. QED
    BY <1>3 DEF SaveProcess
<1>6. memory'[p].count = memory[p].count /\ memory'[p].status = StatusNow(p, memory)
  <2>. HIDE DEF process, t
  <2>. QED
    BY <1>0, <1>1, <1>5 DEF StoreTypeOK, Contents
<1>7. StatusNow(p, memory)' = StatusNow(p, memory)
  <2>. HIDE DEF process, t
  <2>1. \A u \in ThreadsIn(p, known) : memory'[u] = memory[u]
    BY <1>0, <1>1, <1>2, StoreAssumption DEF ThreadsIn
  <2>2. {memory'[u].status : u \in ThreadsIn(p, known')}
          = {memory[u].status : u \in ThreadsIn(p, known)}
    BY <1>4, <2>1
  <2>. QED
    BY <2>2 DEF StatusNow
<1>8. MarkStage(p, {"second", "done"})'
  BY <1>0 DEF MarkStage
<1>. QED
  BY <1>0, <1>1, <1>4, <1>6, <1>7, <1>8 DEF SummaryTrue

LEMMA SecondKeepsIndex ==
  ASSUME StoreTypeOK, WritesPlaced, ManagerHeld, NamesFresh, FilesWhole, IndexKept,
         NEW c \in StoreCalls, SecondWritten(c),
         NEW p \in Processes, p = ProcessOf(c), Uninterrupted(p)'
  PROVE  ProcessTrue(p)' /\ SummaryTrue(p)'
<1>0. /\ calling[c] = "second" /\ c \notin deserted /\ FileWritten(c) /\ AtWork(c)
      /\ calling' = [calling EXCEPT ![c] = "done"]
      /\ UNCHANGED <<known, memory, write, deserted>>
      /\ write[c].file = p /\ JobOf[c].op # "create" /\ p \in known /\ p \in Files
  BY Jobs DEF SecondWritten, FileWritten, WritesPlaced, AtWork, NamesFresh
<1>1. Uninterrupted(p)
  BY <1>0 DEF Uninterrupted, Interrupted, StoreTypeOK
<1>2. ProcessTrue(p) /\ SummaryTrue(p)
  BY <1>1 DEF IndexKept
<1>3. /\ disk' = [disk EXCEPT ![p] = [holds |-> "text", text |-> write[c].text]]
      /\ \A d \in StoreCalls \ {c} : ProcessOf(d) = p => ~AtWork(d)
  BY <1>0, <1>1, WrittenWhole
<1>4. write[c].text = memory[p]
  BY <1>0, <1>2 DEF ProcessTrue
<1>5. \A d \in StoreCalls : ProcessOf(d) = p => ~AtWork(d)'
  BY <1>0, <1>3 DEF AtWork, StoreTypeOK
<1>6. /\ disk'[p] = [holds |-> "text", text |-> memory'[p]]
      /\ \A f \in Files \ {p} : disk'[f] = disk[f]
  BY <1>0, <1>3, <1>4 DEF StoreTypeOK
<1>7. ProcessTrue(p)'
  <2>1. \A f \in FilesOf(p) \cap known : f # p => disk[f] = [holds |-> "text", text |-> memory[f]]
    BY <1>0, <1>2, <1>3 DEF ProcessTrue
  <2>. QED
    BY <1>0, <1>2, <1>5, <1>6, <2>1, FilesOfTypes DEF ProcessTrue, Legible
<1>8. /\ MarkStage(p, {"first"})' <=> MarkStage(p, {"first"})
      /\ MarkStage(p, {"second", "done"})' <=> MarkStage(p, {"second", "done"})
  BY <1>0, <1>3 DEF MarkStage, AtWork, StoreTypeOK
<1>. QED
  BY <1>0, <1>2, <1>7, <1>8, SummaryStays

LEMMA IndexKeptStep ==
  ASSUME StoreTypeOK, ThreadsTyped, ManagerHeld, WritesPlaced, NamesFresh, FilesWhole, IndexKept,
         NEW c \in StoreCalls, CallStep(c)
  PROVE  IndexKept'
<1>. SUFFICES ASSUME NEW q \in Processes, Uninterrupted(q)'
             PROVE  ProcessTrue(q)' /\ SummaryTrue(q)'
  BY DEF IndexKept
<1>1. CASE q # ProcessOf(c)
  BY <1>1, StepIsLocal, OtherProcessesKept
<1>2. CASE q = ProcessOf(c)
  <2>1. ~Interrupted(c)'
    BY <1>2 DEF Uninterrupted
  <2>2. ~LateWritten(c) /\ ~StoreFails(c) /\ ~Desert(c)
    BY <2>1 DEF LateWritten, StoreFails, Desert, Interrupted, StoreTypeOK
  <2>3. CASE FirstWritten(c)
    BY <1>2, <2>3, Jobs, CreateKeepsIndex, FirstKeepsFiles, AddKeepsSummary, MarkKeepsSummary
  <2>. QED
    BY <1>2, <2>2, <2>3, EnterKeepsIndex, OpenKeepsIndex, SecondKeepsIndex DEF CallStep
<1>. QED
  BY <1>1, <1>2

LEMMA StoreStarts == StoreInit => StoreIInv
<1>. SUFFICES ASSUME StoreInit PROVE StoreIInv
  OBVIOUS
<1>1. StoreTypeOK
  BY StoreTypes
<1>2. /\ \A c \in StoreCalls :
           /\ calling[c] = "none"
           /\ write[c].file = JobOf[c].file /\ write[c].text = Fresh /\ ~write[c].opened
      /\ \A f \in Files :
           disk[f].holds = "nothing" /\ disk[f].text = Fresh /\ memory[f] = Fresh
      /\ known = {} /\ deserted = {} /\ managing = Nobody /\ Threads \subseteq Files
  BY DEF StoreInit, Files
<1>a. Fresh \in ThreadTexts /\ Nobody \notin StoreCalls
      /\ \A c \in StoreCalls : JobOf[c].file \in Files /\ ~AtWork(c)
  BY <1>2, Jobs, StoreAssumption DEF Fresh, ThreadTexts, AtWork
<1>3. ThreadsTyped /\ ManagerHeld /\ WritesPlaced
  <2>1. ThreadsTyped
    BY <1>2, <1>a DEF ThreadsTyped
  <2>2. ManagerHeld
    BY <1>2, <1>a DEF ManagerHeld
  <2>3. WritesPlaced
    BY <1>2 DEF WritesPlaced
  <2>. QED
    BY <2>1, <2>2, <2>3
<1>4. NamesFresh /\ FilesWhole /\ NothingIsLost
  <2>1. NamesFresh
    BY <1>2, <1>a DEF NamesFresh
  <2>2. FilesWhole
    BY <1>2, <1>a DEF FilesWhole
  <2>3. NothingIsLost
    BY <1>2 DEF NothingIsLost
  <2>. QED
    BY <2>1, <2>2, <2>3
<1>5. IndexKept
  BY <1>2, FilesOfTypes DEF IndexKept, ProcessTrue, SummaryTrue, AtWork, Legible
<1>. QED
  BY <1>1, <1>3, <1>4, <1>5 DEF StoreIInv

LEMMA CrashKeepsIndex ==
  ASSUME StoreIInv, StoreCrash, NEW p \in Processes, Uninterrupted(p)'
  PROVE  ProcessTrue(p)' /\ SummaryTrue(p)'
<1>. USE DEF StoreIInv
<1>0. /\ \A c \in StoreCalls :
           calling'[c] = IF calling[c] \in {"first", "second"} THEN "gone" ELSE calling[c]
      /\ known' = Loaded /\ UNCHANGED <<deserted, disk, write>>
      /\ \A f \in Files : memory'[f] = IF f \in Loaded THEN disk[f].text ELSE Fresh
  BY DEF StoreCrash, StoreTypeOK
<1>1. \A c \in StoreCalls : ProcessOf(c) = p =>
        ~AtWork(c) /\ ~AtWork(c)' /\ calling'[c] = calling[c]
  BY <1>0 DEF Uninterrupted, Interrupted, AtWork
<1>2. Uninterrupted(p)
  BY <1>0, <1>1 DEF Uninterrupted, Interrupted
<1>3. ProcessTrue(p) /\ SummaryTrue(p)
  BY <1>2 DEF IndexKept
<1>4. \A f \in FilesOf(p) \cap known : disk[f] = [holds |-> "text", text |-> memory[f]]
  BY <1>1, <1>3 DEF ProcessTrue
<1>b. ASSUME NEW f \in FilesOf(p) \cap known
      PROVE  disk[f].holds = "text" /\ disk[f].text = memory[f]
  <2>1. disk[f] = [holds |-> "text", text |-> memory[f]]
    BY <1>4
  <2>. QED
    BY <2>1
<1>5. \A f \in FilesOf(p) : Legible(f) <=> f \in known
  <2>1. \A f \in FilesOf(p) \ known : ~Legible(f)
    BY <1>3 DEF ProcessTrue
  <2>2. \A f \in FilesOf(p) \cap known : Legible(f)
    BY <1>b DEF Legible
  <2>. QED
    BY <2>1, <2>2
<1>6. \A f \in FilesOf(p) : f \in Loaded <=> f \in known
  <2>1. /\ \A t \in FilesOf(p) \cap Threads : OwnerOf[t] = p
        /\ p \in FilesOf(p)
        /\ \A t \in Threads \cap known : OwnerOf[t] \in known
    BY StoreAssumption DEF FilesOf, NamesFresh
  <2>. QED
    BY <1>5, <2>1, FilesOfTypes DEF Loaded
<1>7. ASSUME NEW f \in FilesOf(p) \cap known PROVE memory'[f] = memory[f]
  <2>1. f \in Files /\ f \in Loaded /\ disk[f].text = memory[f]
    BY <1>b, <1>6, FilesOfTypes
  <2>. QED
    BY <1>0, <2>1
<1>8. ProcessTrue(p)'
  BY <1>0, <1>1, <1>3, <1>4, <1>5, <1>6, <1>7 DEF ProcessTrue, Legible
<1>9. ThreadsIn(p, known') = ThreadsIn(p, known) /\ ThreadsIn(p, known) \subseteq FilesOf(p) \cap known
      /\ p \in FilesOf(p)
  BY <1>0, <1>6 DEF ThreadsIn, FilesOf
<1>10. StatusNow(p, memory)' = StatusNow(p, memory)
  <2>1. {memory'[t].status : t \in ThreadsIn(p, known')}
          = {memory[t].status : t \in ThreadsIn(p, known)}
    BY <1>7, <1>9
  <2>. QED
    BY <2>1 DEF StatusNow
<1>11. \A stages : MarkStage(p, stages)' <=> MarkStage(p, stages)
  BY <1>1 DEF MarkStage
<1>12. SummaryTrue(p)'
  BY <1>0, <1>3, <1>6, <1>7, <1>9, <1>10, <1>11 DEF SummaryTrue
<1>. QED
  BY <1>8, <1>12

LEMMA CrashKeeps == StoreIInv /\ StoreCrash => StoreIInv'
<1>. SUFFICES ASSUME StoreIInv, StoreCrash PROVE StoreIInv'
  OBVIOUS
<1>. USE DEF StoreIInv
<1>0. /\ \A c \in StoreCalls :
           calling'[c] = IF calling[c] \in {"first", "second"} THEN "gone" ELSE calling[c]
      /\ known' = Loaded /\ managing' = Nobody /\ UNCHANGED <<deserted, disk, write>>
      /\ \A f \in Files : memory'[f] = IF f \in Loaded THEN disk[f].text ELSE Fresh
      /\ Nobody \notin StoreCalls
  BY StoreAssumption DEF StoreCrash, StoreTypeOK
<1>1. StoreTypeOK'
  BY StoreTypeStep DEF StoreNext
<1>2. ThreadsTyped'
  <2>1. Fresh \in ThreadTexts /\ Threads \subseteq Files
    BY DEF Fresh, ThreadTexts, Files
  <2>. QED
    BY <1>0, <2>1 DEF ThreadsTyped
<1>3. ManagerHeld' /\ WritesPlaced'
  BY <1>0 DEF ManagerHeld, WritesPlaced, AtWork
<1>4. NamesFresh'
  <2>1. \A t \in Threads \cap known' : OwnerOf[t] \in known'
    BY <1>0, StoreAssumption DEF Loaded, Files
  <2>2. \A c \in StoreCalls : ~AtWork(c)' /\ (calling'[c] \in {"none", "first"} => calling[c] = "none")
                              /\ (calling[c] = "none" => calling'[c] = "none")
    BY <1>0 DEF AtWork
  <2>3. \A c \in StoreCalls : JobOf[c].op # "mark" /\ calling[c] = "none" => JobOf[c].file \notin known'
    BY <1>0 DEF NamesFresh, Loaded, Legible
  <2>. QED
    BY <1>0, <2>1, <2>2, <2>3 DEF NamesFresh
<1>5. FilesWhole'
  BY <1>0 DEF FilesWhole, Loaded, Legible
<1>6. NothingIsLost'
  <2>1. Disturbed \subseteq Disturbed'
    BY <1>0 DEF Disturbed, Interrupted
  <2>2. \A f \in known : Legible(f) \/ f \in Disturbed'
    <3>1. ASSUME NEW c \in StoreCalls, AtWork(c), write[c].opened PROVE write[c].file \in Disturbed'
      BY <1>0, <3>1 DEF Disturbed, Interrupted, AtWork
    <3>. QED
      BY <2>1, <3>1 DEF FilesWhole
  <2>3. ASSUME NEW c \in StoreCalls, {JobOf[c].file, ProcessOf(c)} \subseteq known
        PROVE  \/ {JobOf[c].file, ProcessOf(c)} \subseteq known'
               \/ JobOf[c].file \in Disturbed' \/ ProcessOf(c) \in Disturbed'
    <3>1. ProcessOf(c) \notin Threads /\ {JobOf[c].file, ProcessOf(c)} \subseteq Files
          /\ (JobOf[c].file \in Threads => ProcessOf(c) = OwnerOf[JobOf[c].file])
      BY Jobs, StoreAssumption
    <3>. QED
      BY <1>0, <2>2, <2>3, <3>1 DEF Loaded
  <2>. QED
    BY <1>0, <2>1, <2>3 DEF NothingIsLost
<1>7. IndexKept'
  BY CrashKeepsIndex DEF IndexKept
<1>. QED
  BY <1>1, <1>2, <1>3, <1>4, <1>5, <1>6, <1>7

LEMMA StoreSteps == StoreIInv /\ [StoreNext]_storeVars => StoreIInv'
<1>. SUFFICES ASSUME StoreIInv, [StoreNext]_storeVars PROVE StoreIInv'
  OBVIOUS
<1>. USE DEF StoreIInv
<1>1. ASSUME NEW c \in StoreCalls, CallStep(c) PROVE StoreIInv'
  <2>1. StoreTypeOK'
    BY StoreTypeStep
  <2>. QED
    BY <1>1, <2>1, ThreadsTypedStep, ManagerHeldStep, WritesPlacedStep, NamesFreshStep,
       FilesWholeStep, NothingLostStep, IndexKeptStep
<1>2. CASE UNCHANGED storeVars
  <2>1. StoreTypeOK' /\ ThreadsTyped' /\ ManagerHeld' /\ WritesPlaced' /\ NamesFresh'
    BY <1>2 DEF storeVars, StoreTypeOK, ThreadsTyped, ManagerHeld, WritesPlaced, NamesFresh, AtWork
  <2>2. FilesWhole' /\ NothingIsLost'
    BY <1>2 DEF storeVars, FilesWhole, NothingIsLost, AtWork, Disturbed, Interrupted, Legible
  <2>3. IndexKept'
    <3>1. UNCHANGED <<calling, deserted, known, memory, disk, write>>
      BY <1>2 DEF storeVars
    <3>2. \A p \in Processes : Uninterrupted(p)' <=> Uninterrupted(p)
      BY <3>1 DEF Uninterrupted, Interrupted
    <3>3. ASSUME NEW p \in Processes, ProcessTrue(p) PROVE ProcessTrue(p)'
      BY <3>1, <3>3 DEF ProcessTrue, Legible, AtWork
    <3>4. ASSUME NEW p \in Processes, SummaryTrue(p) PROVE SummaryTrue(p)'
      BY <3>1, <3>4, SummaryStays DEF MarkStage
    <3>. QED
      BY <3>2, <3>3, <3>4 DEF IndexKept
  <2>. QED
    BY <2>1, <2>2, <2>3
<1>. QED
  BY <1>1, <1>2, CrashKeeps DEF StoreNext, CallStep

LEMMA StoreInvariant == StoreSpec => []StoreIInv
  BY StoreStarts, StoreSteps, PTL DEF StoreSpec

\* The processes, their files and the calls of the process manager keep their
\* form, for any number of each.
THEOREM StoreTypeCorrect == StoreSpec => []StoreTypeOK
  BY StoreInvariant, PTL DEF StoreIInv

LEMMA IndexReads == StoreIInv => IndexIsTrue
<1>. SUFFICES ASSUME StoreIInv, NEW p \in Processes \cap known,
                     \A c \in StoreCalls :
                       ProcessOf(c) = p => calling[c] \in {"none", "done"} /\ c \notin deserted
             PROVE  /\ \A f \in {p} \cup ThreadsIn(p, known) :
                         disk[f] = [holds |-> "text", text |-> memory[f]]
                    /\ memory[p].count = Cardinality(ThreadsIn(p, known))
                    /\ memory[p].status =
                         IF \E c \in StoreCalls :
                              ProcessOf(c) = p /\ JobOf[c].op = "mark" /\ calling[c] = "done"
                         THEN StatusNow(p, memory) ELSE "Created"
  BY DEF IndexIsTrue
<1>1. Uninterrupted(p) /\ \A c \in StoreCalls : ProcessOf(c) = p => ~AtWork(c)
  BY DEF Uninterrupted, Interrupted, AtWork
<1>2. ProcessTrue(p) /\ SummaryTrue(p)
  BY <1>1 DEF StoreIInv, IndexKept
<1>3. \A f \in {p} \cup ThreadsIn(p, known) : disk[f] = [holds |-> "text", text |-> memory[f]]
  BY <1>1, <1>2 DEF ProcessTrue, ThreadsIn, FilesOf
<1>4. ~MarkStage(p, {"first"})
  BY <1>1 DEF MarkStage, AtWork
<1>5. MarkStage(p, {"second", "done"}) <=>
        \E c \in StoreCalls : ProcessOf(c) = p /\ JobOf[c].op = "mark" /\ calling[c] = "done"
  BY <1>1 DEF MarkStage, AtWork
<1>. QED
  BY <1>2, <1>3, <1>4, <1>5 DEF SummaryTrue

\* What the skills list of a process is what is on disk, with the number of its
\* threads and the status they give it, as long as no call of it was broken off:
\* for any number of processes, threads and calls.
THEOREM ProcessIndexTrue == StoreSpec => []IndexIsTrue
  BY StoreInvariant, IndexReads, PTL

\* A process or thread whose creation was answered stays listed whatever fails,
\* is dropped or restarts, unless a write of its file or of its process's was
\* broken off.
THEOREM NothingGetsLost == StoreSpec => []NothingIsLost
  BY StoreInvariant, PTL DEF StoreIInv

-----------------------------------------------------------------------------
(* The four stores together.                                                 *)

\* Beside the others, each store does what its own specification allows: a step
\* of one changes none of the tables and files of the others.
THEOREM StoresImplementEach == StoresSpec => FairSpec /\ LogSpec /\ MetaSpec /\ StoreSpec
<1>1. StoresInit => Init /\ LogInit /\ MetaInit /\ StoreInit
  BY DEF StoresInit
<1>2. [StoresNext]_storesVars => /\ [Next]_vars /\ [LogNext]_logVars
                                 /\ [MetaNext]_metaVars /\ [StoreNext]_storeVars
  BY DEF StoresNext, storesVars, lockVars
<1>. QED
  BY <1>1, <1>2, PTL DEF StoresSpec, FairSpec, Spec, LogSpec, MetaSpec, StoreSpec

\* The tables of the locks, the event log, the meta.json and the files of
\* processes keep their form together, for every value of the constants.
THEOREM StoresTypeCorrect == StoresSpec => []StoresTypeOK
<1>1. TypeOK /\ LogTypeOK /\ MetaTypeOK /\ StoreTypeOK => StoresTypeOK
  BY DEF StoresTypeOK
<1>2. FairSpec => Spec
  BY DEF FairSpec
<1>. QED
  BY <1>1, <1>2, StoresImplementEach, TypeCorrect, LogTypeCorrect, MetaTypeCorrect,
     StoreTypeCorrect, PTL

\* What each store promises holds where they all are: the queue of a directory
\* is fair, nobody waits in a circle, recorded events are read, meta.json
\* survives, the list of processes is true and none is lost.
THEOREM StoresKeepPromises ==
  StoresSpec => [](/\ NoOvertaking /\ NoCircularWait /\ EventIsRead
                   /\ MetaSurvives /\ IndexIsTrue /\ NothingIsLost)
<1>1. FairSpec => Spec
  BY DEF FairSpec
<1>. QED
  BY <1>1, StoresImplementEach, QueueIsFair, NoCircle, RecordedEventsAreRead, MetaSurvival,
     ProcessIndexTrue, NothingGetsLost, PTL
=============================================================================
