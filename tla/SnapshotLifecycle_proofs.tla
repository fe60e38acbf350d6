----------------------- MODULE SnapshotLifecycle_proofs -----------------------
(***************************************************************************)
(* Proofs about SnapshotLifecycle, for every set of handles and entries,   *)
(* every number of snapshots and all batch limits.                         *)
(***************************************************************************)
EXTENDS SnapshotLifecycle, FiniteSetTheorems, TLAPS

USE DEF Id

-----------------------------------------------------------------------------
(* Facts about the operators of the model *)

\* An empty batch is the sign of an empty table: the loops of
\* clean_incomplete_snapshot and delete_deleting_snapshot stop only when no
\* row is left, because the limit is at least one.
LEMMA EmptyBatch ==
    ASSUME NEW R, NEW D, IsBatch(D, R), D = {}
    PROVE  R = {}
<1>1. CASE Cardinality(R) <= CleanBatchLimit
  BY <1>1 DEF IsBatch
<1>2. CASE ~(Cardinality(R) <= CleanBatchLimit)
  <2>1. Cardinality(D) = 0
    BY FS_EmptySet
  <2>2. QED
    BY <1>2, <2>1, LimitsAssumption DEF IsBatch
<1>3. QED
  BY <1>1, <1>2

\* Inserting one record adds its item.
LEMMA ItemsAdd ==
    ASSUME NEW R, NEW e, NEW k
    PROVE  Items(R \cup {<<e, k>>}) = Items(R) \cup {e}
<1>1. <<e, k>>[1] = e
  OBVIOUS
<1>2. QED
  BY <1>1 DEF Items

\* A handle that is not in an operation keeps its part of the invariant
\* whatever happens to the tables, as long as its own state is left alone.
LEMMA InertHandle ==
    ASSUME NEW g \in Handle, HandleInv(g), pc[g] \in PC, pc[g] \notin Active,
           pc'[g] = pc[g], op'[g] = op[g], cur'[g] = cur[g],
           todo'[g] = todo[g], batch'[g] = batch[g]
    PROVE  HandleInv(g)'
  BY DEF HandleInv, SweepInv, DrainInv, PipelineInv, RestoreInv, PC, Active,
         Pipeline, Drain, Recovery

\* What an action of handle h leaves alone of the others.
Frame(h) ==
    \A g \in Handle \ {h} :
        /\ pc'[g] = pc[g]
        /\ op'[g] = op[g]
        /\ cur'[g] = cur[g]
        /\ todo'[g] = todo[g]
        /\ left'[g] = left[g]
        /\ batch'[g] = batch[g]

\* The holder of the lock is the only handle in an operation, so a step of h
\* has to re-establish the tables' part and h's own part only.
LEMMA StepCompose ==
    ASSUME IndInv, NEW h \in Handle, lock \in {h, None}, Frame(h), TypeOK',
           pc'[h] \in Active => lock' = h,
           TablesInv', HandleInv(h)'
    PROVE  IndInv'
<1>1. ASSUME NEW g \in Handle \ {h}
      PROVE  pc[g] \notin Active /\ pc'[g] \notin Active /\ HandleInv(g)'
  <2>1. pc[g] \notin Active
    BY <1>1, NoneAssumption DEF IndInv, LockHeld
  <2>2. pc'[g] \notin Active
    BY <1>1, <2>1 DEF Frame
  <2>3. HandleInv(g) /\ pc[g] \in PC
    BY <1>1 DEF IndInv, TypeOK
  <2>4. QED
    BY <1>1, <2>1, <2>2, <2>3, InertHandle DEF Frame
<1>2. LockHeld'
  BY <1>1 DEF LockHeld
<1>3. QED
  BY <1>1, <1>2 DEF IndInv

\* The tables' part depends on the tables only.
LEMMA TablesUnchanged ==
    ASSUME TablesInv, UNCHANGED <<lastId, status, rows, src>>
    PROVE  TablesInv'
  BY DEF TablesInv, CompleteIsWhole, Items, OneRecordPerItem

-----------------------------------------------------------------------------
(* Taking and leaving an operation *)

LEMMA AcquireForEngineInv ==
    ASSUME IndInv, NEW h \in Handle, NEW o \in {"snapshot", "restore"},
           AcquireForEngine(h, o)
    PROVE  IndInv'
<1> USE DEF AcquireForEngine, Goto, disk
<1>1. TypeOK'
  BY DEF IndInv, TypeOK, PC, Active, Recovery, Op
<1>2. TablesInv'
  BY TablesUnchanged DEF IndInv
<1>3. HandleInv(h)'
  <2>1. /\ pc[h] = "idle"
        /\ HandleInv(h)
        /\ pc'[h] = "recover"
        /\ op'[h] = o
        /\ cur'[h] = cur[h]
        /\ todo'[h] = todo[h]
        /\ batch'[h] = batch[h]
    BY DEF IndInv, TypeOK
  <2>2. QED
    BY <2>1 DEF HandleInv, SweepInv, DrainInv, PipelineInv, RestoreInv, Active,
           Pipeline, Drain, Recovery
<1>4. Frame(h) /\ pc'[h] \in Active /\ lock' = h
  BY DEF Frame, IndInv, TypeOK, Active, Recovery
<1>5. QED
  BY <1>1, <1>2, <1>3, <1>4, StepCompose

LEMMA AcquireForDeleteInv ==
    ASSUME IndInv, NEW h \in Handle, NEW i \in Id, AcquireForDelete(h, i)
    PROVE  IndInv'
<1> USE DEF AcquireForDelete, Goto, disk
<1>1. TypeOK'
  BY DEF IndInv, TypeOK, PC, Active, Op
<1>2. TablesInv'
  BY TablesUnchanged DEF IndInv
<1>3. HandleInv(h)'
  <2>1. /\ pc[h] = "idle"
        /\ HandleInv(h)
        /\ pc'[h] = "begin"
        /\ op'[h] = "delete"
        /\ cur'[h] = i
        /\ todo'[h] = todo[h]
        /\ batch'[h] = batch[h]
    BY DEF IndInv, TypeOK
  <2>2. QED
    BY <2>1 DEF HandleInv, SweepInv, DrainInv, PipelineInv, RestoreInv, Active,
           Pipeline, Drain, Recovery
<1>4. Frame(h) /\ pc'[h] \in Active /\ lock' = h
  BY DEF Frame, IndInv, TypeOK, Active
<1>5. QED
  BY <1>1, <1>2, <1>3, <1>4, StepCompose

\* Release, Unwind and Crash end an operation the same way: local state gone,
\* lock free, tables as committed so far.
LEMMA ExitInv ==
    ASSUME IndInv, NEW h \in Handle, pc[h] \in Active, lock' = None,
           ResetWork(h), NEW label \in {"idle", "closed"}, Goto(h, label),
           UNCHANGED disk, recovered' \in [Handle -> BOOLEAN]
    PROVE  IndInv'
<1> USE DEF ResetWork, Goto, disk
<1>1. TypeOK'
  BY DEF IndInv, TypeOK, PC, Op
<1>2. TablesInv'
  BY TablesUnchanged DEF IndInv
<1>3. HandleInv(h)'
  BY DEF IndInv, TypeOK, HandleInv, SweepInv, DrainInv, PipelineInv, RestoreInv,
         Active, Pipeline, Drain, Recovery
<1>4. Frame(h) /\ pc'[h] \notin Active /\ lock = h
  BY DEF Frame, IndInv, TypeOK, LockHeld, Active, Pipeline, Drain, Recovery
<1>5. QED
  BY <1>1, <1>2, <1>3, <1>4, StepCompose

LEMMA LeaveInv ==
    ASSUME IndInv, NEW h \in Handle, Release(h) \/ Unwind(h) \/ Crash(h)
    PROVE  IndInv'
<1>1. recovered \in [Handle -> BOOLEAN]
  BY DEF IndInv, TypeOK
<1>2. CASE Release(h)
  BY <1>1, <1>2, ExitInv DEF Release, Active
<1>3. CASE Unwind(h)
  BY <1>1, <1>3, ExitInv DEF Unwind
<1>4. CASE Crash(h)
  BY <1>1, <1>4, ExitInv DEF Crash
<1>5. QED
  BY <1>2, <1>3, <1>4

\* Opening and closing a handle touches no table and no other handle.
LEMMA OpenCloseInv ==
    ASSUME IndInv, NEW h \in Handle, Open(h) \/ Close(h)
    PROVE  IndInv'
<1> USE DEF Open, Close, Goto, disk, work
<1>1. TypeOK'
  BY DEF IndInv, TypeOK, PC
<1>2. TablesInv'
  BY TablesUnchanged DEF IndInv
<1>3. LockHeld'
  BY DEF IndInv, TypeOK, LockHeld, Active, Pipeline, Drain, Recovery
<1>4. HandleInv(h)'
  <2>1. /\ pc[h] \in {"idle", "closed"} /\ pc'[h] \in {"idle", "closed"}
        /\ HandleInv(h)
    BY DEF IndInv, TypeOK
  <2>2. QED
    BY <2>1 DEF HandleInv, SweepInv, DrainInv, PipelineInv, RestoreInv, Active,
           Pipeline, Drain, Recovery
<1>5. ASSUME NEW g \in Handle \ {h}
      PROVE  HandleInv(g)'
  <2>1. pc'[g] = pc[g] /\ HandleInv(g)
    BY DEF IndInv, TypeOK
  <2>2. QED
    BY <2>1 DEF HandleInv, SweepInv, DrainInv, PipelineInv, RestoreInv, Settled,
           RelationshipsHold, DropsRow, OneRecordPerItem, Items, OfKind
<1>6. QED
  BY <1>1, <1>2, <1>3, <1>4, <1>5 DEF IndInv

-----------------------------------------------------------------------------
(* Recovery *)

\* Steps of recovery that change nothing but the program counter.
LEMMA RecoverMoveInv ==
    ASSUME IndInv, NEW h \in Handle,
           RecoverSkip(h) \/ SweepDone(h) \/ QuickRelationshipCheck(h)
    PROVE  IndInv'
<1> USE DEF RecoverSkip, SweepDone, QuickRelationshipCheck, Goto, disk, work
<1>1. TypeOK'
  BY DEF IndInv, TypeOK, PC, Active, Recovery
<1>2. TablesInv'
  BY TablesUnchanged DEF IndInv
<1>3. /\ pc[h] \in {"recover", "sweep", "check"}
      /\ pc'[h] \in {"begin", "clear_temp"}
      /\ HandleInv(h)
      /\ pc'[h] = "clear_temp" => pc[h] = "sweep" /\ todo[h] = {}
      /\ todo[h] = {}
  BY DEF IndInv, TypeOK, HandleInv, SweepInv, Drain
<1>4. pc'[h] = "clear_temp" => RelationshipsHold'
  BY <1>3 DEF HandleInv, SweepInv, Settled, RelationshipsHold
<1>5. HandleInv(h)'
  BY <1>3, <1>4 DEF HandleInv, SweepInv, DrainInv, PipelineInv, RestoreInv, Active,
         Pipeline, Drain, Recovery
<1>6. Frame(h) /\ lock = h /\ lock' = h
  BY <1>3 DEF Frame, IndInv, TypeOK, LockHeld, Active, Recovery
<1>7. QED
  BY <1>1, <1>2, <1>5, <1>6, StepCompose

LEMMA RecoverListInv ==
    ASSUME IndInv, NEW h \in Handle, RecoverList(h)
    PROVE  IndInv'
<1> USE DEF RecoverList, Goto, disk
<1>1. TypeOK'
  <2>1. {<<i, status[i]>> : i \in {j \in Id : status[j] \in Incomplete}}
          \subseteq Id \X Status
    BY DEF IndInv, TypeOK
  <2>2. QED
    BY <2>1 DEF IndInv, TypeOK, PC, Active, Recovery
<1>2. TablesInv'
  BY TablesUnchanged DEF IndInv
<1>3. /\ pc[h] = "recover" /\ pc'[h] = "sweep"
      /\ HandleInv(h)
      /\ todo'[h] = {<<i, status[i]>> : i \in {j \in Id : status[j] \in Incomplete}}
      /\ op'[h] = op[h] /\ cur'[h] = cur[h] /\ batch'[h] = batch[h]
      /\ op[h] # "delete"
  BY DEF IndInv, TypeOK, HandleInv, DrainInv, Drain
<1>4. \A i \in Id : Settled(i)' \/ \E item \in todo'[h] : item[1] = i
  <2>1. ASSUME NEW i \in Id, ~Settled(i)
        PROVE  <<i, status[i]>> \in todo'[h]
    BY <1>3, <2>1 DEF Settled, Incomplete, IndInv, TypeOK
  <2>2. UNCHANGED <<status, rows>>
    OBVIOUS
  <2>3. QED
    BY <2>1, <2>2 DEF Settled
<1>5. SweepInv(h)'
  BY <1>3, <1>4 DEF SweepInv, Drain
<1>6. HandleInv(h)'
  BY <1>3, <1>5 DEF HandleInv, DrainInv, PipelineInv, RestoreInv, Active,
         Pipeline, Drain, Recovery
<1>7. Frame(h) /\ lock = h /\ lock' = h
  BY <1>3 DEF Frame, IndInv, TypeOK, LockHeld, Active, Recovery
<1>8. QED
  BY <1>1, <1>2, <1>6, <1>7, StepCompose

LEMMA SweepStalePendingInv ==
    ASSUME IndInv, NEW h \in Handle, SweepStalePending(h)
    PROVE  IndInv'
<1> USE DEF Goto
<1>1. PICK item \in todo[h] :
        /\ item[2] = "pending"
        /\ status[item[1]] = "pending"
        /\ status' = [status EXCEPT ![item[1]] = "failed"]
        /\ cur' = [cur EXCEPT ![h] = item[1]]
  BY DEF SweepStalePending
<1>2. /\ pc[h] = "sweep" /\ pc' = [pc EXCEPT ![h] = "drain_entries"]
      /\ UNCHANGED <<lock, lastId, rows, src, temp, op, todo, left, batch, verdict,
                     recovered>>
  BY DEF SweepStalePending
<1>3. item[1] \in Id /\ HandleInv(h) /\ lock = h /\ op[h] # "delete"
  BY <1>2 DEF IndInv, TypeOK, LockHeld, Active, Recovery, HandleInv, DrainInv, Drain
<1>4. TypeOK'
  BY <1>1, <1>2, <1>3 DEF IndInv, TypeOK, PC, Active, Drain, Status
<1>5. TablesInv'
  <2>1. /\ status[item[1]] # "absent" /\ status[item[1]] # "complete"
        /\ status'[item[1]] = "failed"
        /\ \A i \in Id : i # item[1] => status'[i] = status[i]
    BY <1>1, <1>3 DEF IndInv, TypeOK
  <2>2. QED
    BY <1>2, <2>1 DEF IndInv, TablesInv, CompleteIsWhole, Items, OneRecordPerItem
<1>6. /\ pc'[h] = "drain_entries" /\ cur'[h] = item[1] /\ todo'[h] = todo[h]
      /\ op'[h] = op[h] /\ batch'[h] = batch[h]
      /\ status'[item[1]] = "failed"
      /\ \A i \in Id : i # item[1] => status'[i] = status[i]
      /\ \A t \in todo[h] : t[1] \in Id
  BY <1>1, <1>2, <1>3 DEF IndInv, TypeOK
<1>7. SweepInv(h)'
  BY <1>2, <1>3, <1>6 DEF HandleInv, SweepInv, Drain, Settled
<1>8. DrainInv(h)'
  <2>1. <<item[1], "deleting">> \notin todo[h]
    BY <1>1, <1>2, <1>3 DEF HandleInv, SweepInv
  <2>2. ~DropsRow(h)'
    BY <1>2, <1>3, <1>6, <2>1 DEF DropsRow
  <2>3. QED
    BY <1>3, <1>6, <2>2 DEF DrainInv, Drain
<1>9. HandleInv(h)'
  BY <1>2, <1>3, <1>6, <1>7, <1>8 DEF HandleInv, PipelineInv, RestoreInv, Pipeline,
         Drain
<1>10. Frame(h) /\ lock' = h
  BY <1>1, <1>2, <1>3 DEF Frame, IndInv, TypeOK
<1>11. QED
  BY <1>3, <1>4, <1>5, <1>9, <1>10, StepCompose

LEMMA SweepOtherInv ==
    ASSUME IndInv, NEW h \in Handle, SweepOther(h)
    PROVE  IndInv'
<1> USE DEF Goto, disk
<1>1. PICK item \in todo[h] :
        /\ item[2] # "pending"
        /\ cur' = [cur EXCEPT ![h] = item[1]]
  BY DEF SweepOther
<1>2. /\ pc[h] = "sweep" /\ pc' = [pc EXCEPT ![h] = "drain_entries"]
      /\ UNCHANGED <<lock, lastId, status, rows, src, temp, op, todo, left, batch,
                     verdict, recovered>>
  BY DEF SweepOther
<1>3. /\ item \in Id \X Status /\ HandleInv(h) /\ lock = h /\ op[h] # "delete"
      /\ todo[h] \subseteq Id \X Status
  BY <1>2 DEF IndInv, TypeOK, LockHeld, Active, Recovery, HandleInv, DrainInv, Drain
<1>4. TypeOK'
  BY <1>1, <1>2, <1>3 DEF IndInv, TypeOK, PC, Active, Drain
<1>5. TablesInv'
  BY <1>2, TablesUnchanged DEF IndInv
<1>6. /\ pc'[h] = "drain_entries" /\ cur'[h] = item[1] /\ todo'[h] = todo[h]
      /\ op'[h] = op[h] /\ batch'[h] = batch[h]
  BY <1>1, <1>2, <1>3 DEF IndInv, TypeOK
<1>7. SweepInv(h)'
  BY <1>2, <1>3, <1>6 DEF HandleInv, SweepInv, Drain, Settled
<1>8. DrainInv(h)'
  <2>1. /\ status[item[1]] = item[2]
        /\ status[item[1]] \in {"failed", "cancelled", "deleting"}
    BY <1>1, <1>2, <1>3 DEF HandleInv, SweepInv, Incomplete, Status
  <2>2. \A t \in todo[h] : t[1] = item[1] => t[2] = item[2]
    BY <1>2, <1>3, <2>1 DEF HandleInv, SweepInv
  <2>3. item = <<item[1], item[2]>>
    BY <1>3
  <2>4. DropsRow(h)' <=> item[2] = "deleting"
    BY <1>2, <1>3, <1>6, <2>2, <2>3 DEF DropsRow
  <2>5. QED
    BY <1>2, <1>3, <1>6, <2>1, <2>4 DEF DrainInv, Drain
<1>9. HandleInv(h)'
  BY <1>2, <1>3, <1>6, <1>7, <1>8 DEF HandleInv, PipelineInv, RestoreInv, Pipeline,
         Drain
<1>10. Frame(h) /\ lock' = h
  BY <1>1, <1>2, <1>3 DEF Frame, IndInv, TypeOK
<1>11. QED
  BY <1>3, <1>4, <1>5, <1>9, <1>10, StepCompose

LEMMA ClearTemporaryInv ==
    ASSUME IndInv, NEW h \in Handle, ClearTemporary(h)
    PROVE  IndInv'
<1> USE DEF ClearTemporary, Goto, work
<1>1. TypeOK'
  BY DEF IndInv, TypeOK, PC, Active, Recovery
<1>2. TablesInv'
  BY TablesUnchanged DEF IndInv
<1>3. /\ pc[h] = "clear_temp" /\ pc'[h] = "check" /\ HandleInv(h)
      /\ lock = h /\ lock' = h
  BY DEF IndInv, TypeOK, LockHeld, Active, Recovery
<1>4. RelationshipsHold'
  BY <1>3 DEF HandleInv, SweepInv, RelationshipsHold
<1>5. HandleInv(h)'
  BY <1>3, <1>4 DEF HandleInv, SweepInv, DrainInv, PipelineInv, RestoreInv, Pipeline,
         Drain
<1>6. Frame(h)
  BY DEF Frame, IndInv, TypeOK
<1>7. QED
  BY <1>1, <1>2, <1>3, <1>5, <1>6, StepCompose

-----------------------------------------------------------------------------
(* The bounded cleanup loops *)

\* Removing rows of a snapshot that is being cleaned up or deleted keeps the
\* tables' part: it is not visible.
LEMMA TablesDrained ==
    ASSUME IndInv, NEW i \in Id, NEW D, status[i] # "complete",
           rows' = [rows EXCEPT ![i] = @ \ D], UNCHANGED <<lastId, status, src>>
    PROVE  TablesInv'
<1>1. /\ rows'[i] = rows[i] \ D
      /\ \A j \in Id : j # i => rows'[j] = rows[j]
  BY DEF IndInv, TypeOK
<1>2. QED
  BY <1>1 DEF IndInv, TablesInv, CompleteIsWhole, Items, OneRecordPerItem

LEMMA DrainEntriesInv ==
    ASSUME IndInv, NEW h \in Handle, DrainEntries(h)
    PROVE  IndInv'
<1> USE DEF Goto, work
<1>1. PICK D \in SUBSET OfKind(rows[cur[h]], "entry") :
        /\ IsBatch(D, OfKind(rows[cur[h]], "entry"))
        /\ rows' = [rows EXCEPT ![cur[h]] = @ \ D]
        /\ pc' = [pc EXCEPT ![h] = IF D = {} THEN "drain_warnings"
                                             ELSE "drain_entries"]
  BY DEF DrainEntries
<1>2. /\ pc[h] = "drain_entries"
      /\ UNCHANGED <<lock, lastId, status, src, temp, op, cur, todo, left, batch,
                     verdict, recovered>>
  BY DEF DrainEntries
<1>3. /\ HandleInv(h) /\ lock = h /\ cur[h] \in Id
      /\ status[cur[h]] \in {"failed", "cancelled", "deleting"}
  BY <1>2 DEF IndInv, LockHeld, Active, HandleInv, DrainInv, Drain
<1>4. TypeOK'
  BY <1>1, <1>2, <1>3 DEF IndInv, TypeOK, PC, Active, Drain
<1>5. TablesInv'
  BY <1>1, <1>2, <1>3, TablesDrained
<1>6. /\ pc'[h] = IF D = {} THEN "drain_warnings" ELSE "drain_entries"
      /\ rows'[cur[h]] = rows[cur[h]] \ D
      /\ \A i \in Id : i # cur[h] => rows'[i] = rows[i]
  BY <1>1, <1>3 DEF IndInv, TypeOK
<1>7. SweepInv(h)'
  <2>1. \A i \in Id : i # cur[h] => (Settled(i) => Settled(i)')
    BY <1>2, <1>6 DEF Settled
  <2>2. QED
    BY <1>2, <1>3, <1>6, <2>1 DEF HandleInv, SweepInv, Drain
<1>8. DrainInv(h)'
  <2>1. D = {} => OfKind(rows'[cur[h]], "entry") = {}
    BY <1>1, <1>6, EmptyBatch DEF OfKind
  <2>2. QED
    BY <1>2, <1>3, <1>6, <2>1 DEF HandleInv, DrainInv, Drain, DropsRow
<1>9. HandleInv(h)'
  BY <1>2, <1>3, <1>6, <1>7, <1>8 DEF HandleInv, PipelineInv, RestoreInv, Pipeline,
         Drain
<1>10. Frame(h) /\ lock' = h
  BY <1>1, <1>2, <1>3 DEF Frame, IndInv, TypeOK
<1>11. QED
  BY <1>3, <1>4, <1>5, <1>9, <1>10, StepCompose

\* Leaving a cleanup: either the next snapshot of recovery's list, with the
\* finished one settled, or the end of the operation.
LEMMA DrainReturnsInv ==
    ASSUME IndInv, NEW h \in Handle, pc[h] \in Drain, DrainReturns(h),
           rows'[cur[h]] = {}, status'[cur[h]] \in {"absent", "failed", "cancelled"},
           \A i \in Id : i # cur[h] => rows'[i] = rows[i] /\ status'[i] = status[i],
           UNCHANGED <<lock, lastId, src, temp, op, cur, left, batch, verdict,
                       recovered>>
    PROVE  /\ HandleInv(h)' /\ Frame(h) /\ lock = h /\ lock' = h
           /\ pc' \in [Handle -> PC]
           /\ todo' \in [Handle -> SUBSET (Id \X Status)]
<1> USE DEF DrainReturns, Goto
<1>1. /\ HandleInv(h) /\ lock = h /\ cur[h] \in Id
      /\ todo[h] \subseteq Id \X Status
  BY DEF IndInv, TypeOK, LockHeld, Active, HandleInv, DrainInv
<1>2. /\ pc'[h] = IF todo[h] # {} THEN "sweep" ELSE "release"
      /\ todo'[h] = {item \in todo[h] : item[1] # cur[h]}
  BY DEF IndInv, TypeOK
<1>3. Frame(h) /\ pc' \in [Handle -> PC] /\ todo' \in [Handle -> SUBSET (Id \X Status)]
  BY <1>1, <1>2 DEF Frame, IndInv, TypeOK, PC, Active, Recovery
<1>4. SweepInv(h)'
  <2>1. CASE todo[h] = {}
    BY <1>2, <2>1 DEF SweepInv, Drain
  <2>2. CASE todo[h] # {}
    <3>1. \A item \in todo'[h] : item[2] \in Incomplete /\ status'[item[1]] = item[2]
      BY <1>1, <1>2, <2>2 DEF HandleInv, SweepInv
    <3>2. ASSUME NEW i \in Id
          PROVE  Settled(i)' \/ \E item \in todo'[h] : item[1] = i
      <4>1. CASE i = cur[h]
        BY <4>1 DEF Settled
      <4>2. CASE i # cur[h]
        <5>1. Settled(i) \/ \E item \in todo[h] : item[1] = i
          BY <1>1, <2>2 DEF HandleInv, SweepInv
        <5>2. QED
          BY <1>2, <4>2, <5>1 DEF Settled
      <4>3. QED
        BY <4>1, <4>2
    <3>3. QED
      BY <1>2, <2>2, <3>1, <3>2 DEF SweepInv, Drain
  <2>3. QED
    BY <2>1, <2>2
<1>5. HandleInv(h)'
  BY <1>1, <1>2, <1>4 DEF HandleInv, DrainInv, PipelineInv, RestoreInv, Pipeline, Drain
<1>6. QED
  BY <1>1, <1>3, <1>5

LEMMA DrainWarningsInv ==
    ASSUME IndInv, NEW h \in Handle, DrainWarnings(h)
    PROVE  IndInv'
<1> USE DEF Goto
<1>1. PICK D \in SUBSET OfKind(rows[cur[h]], "warning") :
        /\ IsBatch(D, OfKind(rows[cur[h]], "warning"))
        /\ rows' = [rows EXCEPT ![cur[h]] = @ \ D]
        /\ \/ D # {} /\ UNCHANGED <<pc, todo>>
           \/ D = {} /\ DropsRow(h) /\ Goto(h, "drop_row") /\ UNCHANGED todo
           \/ D = {} /\ ~DropsRow(h) /\ DrainReturns(h)
  BY DEF DrainWarnings
<1>2. /\ pc[h] = "drain_warnings"
      /\ UNCHANGED <<lock, lastId, status, src, temp, op, cur, left, batch, verdict,
                     recovered>>
  BY DEF DrainWarnings
<1>3. /\ HandleInv(h) /\ lock = h /\ cur[h] \in Id
      /\ status[cur[h]] \in {"failed", "cancelled", "deleting"}
      /\ OfKind(rows[cur[h]], "entry") = {}
  BY <1>2 DEF IndInv, LockHeld, Active, HandleInv, DrainInv, Drain
<1>4. TablesInv'
  BY <1>1, <1>2, <1>3, TablesDrained
<1>5. /\ rows'[cur[h]] = rows[cur[h]] \ D
      /\ \A i \in Id : i # cur[h] => rows'[i] = rows[i]
      /\ rows' \in [Id -> SUBSET Record]
  BY <1>1, <1>3 DEF IndInv, TypeOK
<1>6. CASE D = {} /\ ~DropsRow(h)
  <2>1. OfKind(rows[cur[h]], "warning") = {}
    BY <1>1, <1>6, EmptyBatch
  <2>2. rows[cur[h]] \subseteq Record
    BY <1>3 DEF IndInv, TypeOK
  <2>3. rows'[cur[h]] = {}
    BY <1>3, <1>5, <2>1, <2>2 DEF OfKind, Record, Kind
  <2>4. status[cur[h]] \in {"failed", "cancelled"}
    BY <1>2, <1>3, <1>6 DEF HandleInv, DrainInv, Drain
  <2>5. /\ HandleInv(h)' /\ Frame(h) /\ lock' = h
        /\ pc' \in [Handle -> PC]
        /\ todo' \in [Handle -> SUBSET (Id \X Status)]
    BY <1>1, <1>2, <1>3, <1>5, <1>6, <2>3, <2>4, DrainReturnsInv DEF Drain
  <2>6. TypeOK'
    BY <1>2, <1>5, <2>5 DEF IndInv, TypeOK
  <2>7. QED
    BY <1>3, <1>4, <2>5, <2>6, StepCompose
<1>7. CASE D # {} \/ DropsRow(h)
  <2>1. /\ pc'[h] \in {"drain_warnings", "drop_row"} /\ todo' = todo
        /\ \A g \in Handle \ {h} : pc'[g] = pc[g]
        /\ pc' \in [Handle -> PC]
    BY <1>1, <1>2, <1>7 DEF IndInv, TypeOK, PC, Active, Drain
  <2>2. TypeOK'
    BY <1>2, <1>5, <2>1 DEF IndInv, TypeOK
  <2>3. \A i \in Id : i # cur[h] => (Settled(i) => Settled(i)')
    BY <1>2, <1>5 DEF Settled
  <2>4. SweepInv(h)'
    BY <1>2, <1>3, <2>1, <2>3 DEF HandleInv, SweepInv, Drain
  <2>5. DrainInv(h)'
    <3>1. OfKind(rows'[cur[h]], "entry") = {}
      BY <1>3, <1>5 DEF OfKind
    <3>2. QED
      BY <1>2, <1>3, <2>1, <3>1 DEF HandleInv, DrainInv, Drain, DropsRow
  <2>6. HandleInv(h)'
    BY <1>2, <1>3, <2>1, <2>4, <2>5 DEF HandleInv, PipelineInv, RestoreInv, Pipeline,
           Drain
  <2>7. Frame(h) /\ lock' = h
    BY <1>2, <1>3, <2>1 DEF Frame
  <2>8. QED
    BY <1>3, <1>4, <2>2, <2>6, <2>7, StepCompose
<1>8. QED
  BY <1>6, <1>7

LEMMA DropRowInv ==
    ASSUME IndInv, NEW h \in Handle, DropRow(h)
    PROVE  IndInv'
<1> USE DEF DropRow
<1>1. cur[h] \in Id /\ pc[h] \in Drain
  BY DEF IndInv, HandleInv, DrainInv, Drain
<1>2. /\ rows'[cur[h]] = {} /\ status'[cur[h]] = "absent"
      /\ \A i \in Id : i # cur[h] => rows'[i] = rows[i] /\ status'[i] = status[i]
      /\ rows' \in [Id -> SUBSET Record] /\ status' \in [Id -> Status]
  BY <1>1 DEF IndInv, TypeOK, Status
<1>3. /\ HandleInv(h)' /\ Frame(h) /\ lock = h /\ lock' = h
      /\ pc' \in [Handle -> PC]
      /\ todo' \in [Handle -> SUBSET (Id \X Status)]
  BY <1>1, <1>2, DrainReturnsInv
<1>4. TypeOK'
  BY <1>2, <1>3 DEF IndInv, TypeOK
<1>5. TablesInv'
  BY <1>1, <1>2 DEF IndInv, TablesInv, CompleteIsWhole, Items, OneRecordPerItem
<1>6. QED
  BY <1>3, <1>4, <1>5, StepCompose

-----------------------------------------------------------------------------
(* create_snapshot *)

LEMMA CreatePendingInv ==
    ASSUME IndInv, NEW h \in Handle, CreatePending(h)
    PROVE  IndInv'
<1> USE DEF Goto
<1> DEFINE n == lastId + 1
<1>1. PICK found \in SUBSET Entry :
        /\ src' = [src EXCEPT ![n] = found]
        /\ left' = [left EXCEPT ![h] = found]
  BY DEF CreatePending
<1>2. /\ pc[h] = "begin" /\ op[h] = "snapshot" /\ n \in Id /\ lastId' = n
      /\ status' = [status EXCEPT ![n] = "pending"]
      /\ cur' = [cur EXCEPT ![h] = n]
      /\ temp' = temp \cup {n}
      /\ pc' = [pc EXCEPT ![h] = "write"]
      /\ UNCHANGED <<lock, rows, op, todo, batch, verdict, recovered>>
  BY DEF CreatePending
<1>3. /\ lock = h /\ HandleInv(h) /\ batch[h] = {} /\ todo[h] = {}
  BY <1>2 DEF IndInv, LockHeld, Active, HandleInv, PipelineInv, SweepInv, Pipeline, Drain
<1>4. status[n] = "absent" /\ rows[n] = {}
  BY <1>2, MaxIdAssumption DEF IndInv, TablesInv, TypeOK
<1>5. TypeOK'
  BY <1>1, <1>2 DEF IndInv, TypeOK, PC, Active, Pipeline, Status
<1>6. /\ pc'[h] = "write" /\ cur'[h] = n /\ left'[h] = found /\ src'[n] = found
      /\ status'[n] = "pending" /\ rows'[n] = {} /\ batch'[h] = {}
      /\ \A i \in Id : i # n => status'[i] = status[i] /\ src'[i] = src[i]
  BY <1>1, <1>2, <1>3, <1>4 DEF IndInv, TypeOK
<1>7. TablesInv'
  <2>1. \A i \in Id : i > lastId' => i > lastId /\ i # n
    BY <1>2, MaxIdAssumption DEF IndInv, TypeOK
  <2>2. QED
    BY <1>2, <1>6, <2>1 DEF IndInv, TablesInv, CompleteIsWhole, Items, OneRecordPerItem
<1>8. PipelineInv(h)'
  BY <1>2, <1>6 DEF PipelineInv, Pipeline, Items, OneRecordPerItem
<1>9. HandleInv(h)'
  BY <1>2, <1>3, <1>6, <1>8 DEF HandleInv, SweepInv, DrainInv, RestoreInv, Drain
<1>10. Frame(h) /\ lock' = h
  BY <1>1, <1>2, <1>3 DEF Frame, IndInv, TypeOK
<1>11. QED
  BY <1>3, <1>5, <1>7, <1>9, <1>10, StepCompose

\* The sweep, drain and restore parts say nothing about a handle inside the
\* pipeline, about to release, or marking its snapshot.
LEMMA OutsideRecovery ==
    ASSUME NEW h \in Handle, HandleInv(h), op'[h] = "snapshot",
           todo[h] = {}, todo'[h] = {}, PipelineInv(h)',
           pc'[h] \in Pipeline \cup {"mark", "release"}
    PROVE  HandleInv(h)'
  BY DEF HandleInv, SweepInv, DrainInv, RestoreInv, Pipeline, Drain

\* What the invariant gives inside the pipeline.
LEMMA InsidePipeline ==
    ASSUME IndInv, NEW h \in Handle, pc[h] \in Pipeline \cup {"mark"}
    PROVE  /\ lock = h /\ HandleInv(h) /\ PipelineInv(h)
           /\ op[h] = "snapshot" /\ todo[h] = {}
           /\ cur[h] \in Id /\ status[cur[h]] = "pending"
  BY DEF IndInv, LockHeld, Active, HandleInv, SweepInv, PipelineInv, Pipeline, Drain

LEMMA WriteRecordInv ==
    ASSUME IndInv, NEW h \in Handle, WriteRecord(h)
    PROVE  IndInv'
<1> USE DEF Goto, disk
<1>1. PICK e \in left[h], k \in Kind :
        /\ left' = [left EXCEPT ![h] = @ \ {e}]
        /\ batch' = [batch EXCEPT ![h] = @ \cup {<<e, k>>}]
        /\ pc' = [pc EXCEPT ![h] = "commit"] \/ UNCHANGED pc
  BY DEF WriteRecord
<1>2. /\ pc[h] = "write"
      /\ UNCHANGED <<lock, lastId, status, rows, src, temp, op, cur, todo, verdict,
                     recovered>>
  BY DEF WriteRecord
<1>3. /\ lock = h /\ HandleInv(h) /\ PipelineInv(h) /\ op[h] = "snapshot"
      /\ todo[h] = {} /\ cur[h] \in Id /\ status[cur[h]] = "pending"
  BY <1>2, InsidePipeline DEF Pipeline
<1>4. /\ pc'[h] \in {"write", "commit"}
      /\ left'[h] = left[h] \ {e} /\ batch'[h] = batch[h] \cup {<<e, k>>}
      /\ e \in Entry
  BY <1>1, <1>2 DEF IndInv, TypeOK
<1>5. TypeOK'
  BY <1>1, <1>2, <1>4 DEF IndInv, TypeOK, PC, Active, Pipeline, Record
<1>6. TablesInv'
  BY <1>2, TablesUnchanged DEF IndInv
<1>7. PipelineInv(h)'
  <2>1. e \notin Items(rows[cur[h]] \cup batch[h])
    BY <1>1, <1>2, <1>3 DEF PipelineInv, Pipeline
  <2>2. /\ Items(batch'[h]) = Items(batch[h]) \cup {e}
        /\ Items(rows[cur[h]] \cup batch'[h])
             = Items(rows[cur[h]] \cup batch[h]) \cup {e}
    <3>1. rows[cur[h]] \cup batch'[h] = (rows[cur[h]] \cup batch[h]) \cup {<<e, k>>}
      BY <1>4
    <3>2. Items((rows[cur[h]] \cup batch[h]) \cup {<<e, k>>})
            = Items(rows[cur[h]] \cup batch[h]) \cup {e}
      BY ItemsAdd, Zenon
    <3>3. Items(batch[h] \cup {<<e, k>>}) = Items(batch[h]) \cup {e}
      BY ItemsAdd, Zenon
    <3>4. QED
      BY <1>4, <3>1, <3>2, <3>3
  <2>3. OneRecordPerItem(rows[cur[h]] \cup batch'[h])
    BY <1>2, <1>3, <1>4, <2>1 DEF PipelineInv, Pipeline, OneRecordPerItem, Items
  <2>4. left'[h] \cap Items(rows[cur[h]] \cup batch'[h]) = {}
    BY <1>2, <1>3, <1>4, <2>2 DEF PipelineInv, Pipeline
  <2>5. Items(rows[cur[h]]) \cup Items(batch'[h]) \cup left'[h] = src[cur[h]]
    BY <1>1, <1>2, <1>3, <1>4, <2>2 DEF PipelineInv, Pipeline
  <2>6. QED
    BY <1>2, <1>3, <1>4, <2>3, <2>4, <2>5 DEF PipelineInv, Pipeline
<1>8. HandleInv(h)'
  BY <1>2, <1>3, <1>4, <1>7, OutsideRecovery DEF Pipeline
<1>9. Frame(h) /\ lock' = h
  BY <1>1, <1>2, <1>3 DEF Frame, IndInv, TypeOK
<1>10. QED
  BY <1>3, <1>5, <1>6, <1>8, <1>9, StepCompose

LEMMA CommitBatchInv ==
    ASSUME IndInv, NEW h \in Handle, CommitBatch(h)
    PROVE  IndInv'
<1> USE DEF Goto, CommitBatch
<1>1. /\ pc[h] \in {"write", "commit"}
      /\ lock = h /\ HandleInv(h) /\ PipelineInv(h) /\ op[h] = "snapshot"
      /\ todo[h] = {} /\ cur[h] \in Id /\ status[cur[h]] = "pending"
  BY InsidePipeline DEF Pipeline
<1>2. /\ pc'[h] = "write" /\ batch'[h] = {}
      /\ rows'[cur[h]] = rows[cur[h]] \cup batch[h]
      /\ \A i \in Id : i # cur[h] => rows'[i] = rows[i]
  BY <1>1 DEF IndInv, TypeOK
<1>3. TypeOK'
  BY <1>1 DEF IndInv, TypeOK, PC, Active, Pipeline
<1>4. TablesInv'
  BY <1>1, <1>2 DEF IndInv, TablesInv, CompleteIsWhole, Items, OneRecordPerItem
<1>5. PipelineInv(h)'
  <2>1. /\ Items(rows'[cur[h]]) = Items(rows[cur[h]]) \cup Items(batch[h])
        /\ Items(batch'[h]) = {}
        /\ rows'[cur[h]] \cup batch'[h] = rows[cur[h]] \cup batch[h]
    BY <1>2 DEF Items
  <2>2. QED
    BY <1>1, <1>2, <2>1 DEF PipelineInv, Pipeline
<1>6. HandleInv(h)'
  BY <1>1, <1>2, <1>5, OutsideRecovery DEF Pipeline
<1>7. Frame(h) /\ lock' = h
  BY <1>1 DEF Frame, IndInv, TypeOK
<1>8. QED
  BY <1>1, <1>3, <1>4, <1>6, <1>7, StepCompose

LEMMA FinishPipelineInv ==
    ASSUME IndInv, NEW h \in Handle, FinishPipeline(h)
    PROVE  IndInv'
<1> USE DEF Goto, FinishPipeline, work
<1>1. /\ pc[h] = "write"
      /\ lock = h /\ HandleInv(h) /\ PipelineInv(h) /\ op[h] = "snapshot"
      /\ todo[h] = {} /\ cur[h] \in Id /\ status[cur[h]] = "pending"
  BY InsidePipeline DEF Pipeline
<1>2. pc'[h] = "publish"
  BY DEF IndInv, TypeOK
<1>3. TypeOK'
  BY <1>1 DEF IndInv, TypeOK, PC, Active, Pipeline
<1>4. TablesInv'
  BY TablesUnchanged DEF IndInv
<1>5. PipelineInv(h)'
  BY <1>1, <1>2 DEF PipelineInv, Pipeline, Items, OneRecordPerItem
<1>6. HandleInv(h)'
  BY <1>1, <1>2, <1>5, OutsideRecovery DEF Pipeline
<1>7. Frame(h) /\ lock' = h
  BY <1>1 DEF Frame, IndInv, TypeOK
<1>8. QED
  BY <1>1, <1>3, <1>4, <1>6, <1>7, StepCompose

LEMMA PublishInv ==
    ASSUME IndInv, NEW h \in Handle, Publish(h)
    PROVE  IndInv'
<1> USE DEF Goto, Publish, work
<1>1. /\ pc[h] = "publish"
      /\ lock = h /\ HandleInv(h) /\ PipelineInv(h) /\ op[h] = "snapshot"
      /\ todo[h] = {} /\ cur[h] \in Id /\ status[cur[h]] = "pending"
  BY InsidePipeline DEF Pipeline
<1>2. /\ pc'[h] = "release" /\ status'[cur[h]] = "complete"
      /\ \A i \in Id : i # cur[h] => status'[i] = status[i]
  BY <1>1 DEF IndInv, TypeOK
<1>3. TypeOK'
  BY <1>1 DEF IndInv, TypeOK, PC, Active, Status
<1>4. TablesInv'
  <2>1. /\ Items(rows[cur[h]]) = src[cur[h]]
        /\ OneRecordPerItem(rows[cur[h]])
    BY <1>1 DEF PipelineInv, Pipeline, Items, OneRecordPerItem
  <2>2. QED
    BY <1>1, <1>2, <2>1 DEF IndInv, TablesInv, CompleteIsWhole, Items, OneRecordPerItem
<1>5. HandleInv(h)'
  BY <1>1, <1>2, OutsideRecovery DEF PipelineInv, Pipeline
<1>6. Frame(h) /\ lock' = h
  BY <1>1 DEF Frame, IndInv, TypeOK
<1>7. QED
  BY <1>1, <1>3, <1>4, <1>5, <1>6, StepCompose

LEMMA PipelineErrorInv ==
    ASSUME IndInv, NEW h \in Handle, NEW s \in {"failed", "cancelled"},
           PipelineError(h, s)
    PROVE  IndInv'
<1> USE DEF Goto, PipelineError
<1>1. /\ pc[h] \in Pipeline
      /\ lock = h /\ HandleInv(h) /\ PipelineInv(h) /\ op[h] = "snapshot"
      /\ todo[h] = {} /\ cur[h] \in Id /\ status[cur[h]] = "pending"
  BY InsidePipeline
<1>2. pc'[h] = "mark" /\ batch'[h] = {}
  BY DEF IndInv, TypeOK
<1>3. TypeOK'
  BY <1>1 DEF IndInv, TypeOK, PC, Active
<1>4. TablesInv'
  BY TablesUnchanged DEF IndInv
<1>5. HandleInv(h)'
  BY <1>1, <1>2, OutsideRecovery DEF PipelineInv, Pipeline
<1>6. Frame(h) /\ lock' = h
  BY <1>1 DEF Frame, IndInv, TypeOK
<1>7. QED
  BY <1>1, <1>3, <1>4, <1>5, <1>6, StepCompose

LEMMA MarkIncompleteInv ==
    ASSUME IndInv, NEW h \in Handle, MarkIncomplete(h)
    PROVE  IndInv'
<1> USE DEF Goto, MarkIncomplete, work
<1>1. /\ pc[h] = "mark"
      /\ lock = h /\ HandleInv(h) /\ PipelineInv(h) /\ op[h] = "snapshot"
      /\ todo[h] = {} /\ cur[h] \in Id /\ status[cur[h]] = "pending"
  BY InsidePipeline
<1>2. /\ pc'[h] = "drain_entries" /\ status'[cur[h]] \in {"failed", "cancelled"}
      /\ \A i \in Id : i # cur[h] => status'[i] = status[i]
  BY <1>1 DEF IndInv, TypeOK
<1>3. TypeOK'
  BY <1>1 DEF IndInv, TypeOK, PC, Active, Drain, Status
<1>4. TablesInv'
  BY <1>1, <1>2 DEF IndInv, TablesInv, CompleteIsWhole, Items, OneRecordPerItem
<1>5. HandleInv(h)'
  BY <1>1, <1>2 DEF HandleInv, SweepInv, DrainInv, PipelineInv, RestoreInv, Pipeline,
         Drain, DropsRow
<1>6. Frame(h) /\ lock' = h
  BY <1>1 DEF Frame, IndInv, TypeOK
<1>7. QED
  BY <1>1, <1>3, <1>4, <1>5, <1>6, StepCompose

-----------------------------------------------------------------------------
(* Restore and deletion *)

LEMMA RestoreStepInv ==
    ASSUME IndInv, NEW h \in Handle, RestoreStep(h)
    PROVE  IndInv'
<1> USE DEF Goto, disk, work
<1>1. CASE EndRestore(h)
  <2> USE <1>1 DEF EndRestore
  <2>1. /\ pc[h] = "restore" /\ pc'[h] = "release" /\ HandleInv(h)
        /\ lock = h /\ lock' = h
    BY DEF IndInv, TypeOK, LockHeld, Active
  <2>2. TypeOK'
    BY DEF IndInv, TypeOK, PC, Active
  <2>3. TablesInv'
    BY TablesUnchanged DEF IndInv
  <2>4. HandleInv(h)'
    BY <2>1 DEF HandleInv, SweepInv, DrainInv, PipelineInv, RestoreInv, Pipeline, Drain
  <2>5. Frame(h)
    BY DEF Frame, IndInv, TypeOK
  <2>6. QED
    BY <2>1, <2>2, <2>3, <2>4, <2>5, StepCompose
<1>2. ASSUME NEW i \in Id, BeginRestore(h, i)
      PROVE  IndInv'
  <2> USE <1>2 DEF BeginRestore
  <2>1. /\ pc[h] = "begin" /\ pc'[h] = "restore" /\ HandleInv(h)
        /\ lock = h /\ lock' = h /\ op[h] = "restore"
        /\ cur'[h] = i /\ batch'[h] = rows[i]
    BY DEF IndInv, TypeOK, LockHeld, Active
  <2>2. TypeOK'
    BY DEF IndInv, TypeOK, PC, Active
  <2>3. TablesInv'
    BY TablesUnchanged DEF IndInv
  <2>4. HandleInv(h)'
    BY <2>1 DEF HandleInv, SweepInv, DrainInv, PipelineInv, RestoreInv, Pipeline, Drain
  <2>5. Frame(h)
    BY DEF Frame, IndInv, TypeOK
  <2>6. QED
    BY <2>1, <2>2, <2>3, <2>4, <2>5, StepCompose
<1>3. QED
  BY <1>1, <1>2 DEF RestoreStep

LEMMA TransitionToDeletingInv ==
    ASSUME IndInv, NEW h \in Handle, TransitionToDeleting(h)
    PROVE  IndInv'
<1> USE DEF Goto, TransitionToDeleting, work
<1>1. /\ pc[h] = "begin" /\ op[h] = "delete" /\ HandleInv(h)
      /\ lock = h /\ lock' = h /\ cur[h] \in Id /\ todo[h] = {}
  BY DEF IndInv, LockHeld, Active, HandleInv, DrainInv
<1>2. /\ pc'[h] = "drain_entries" /\ status'[cur[h]] = "deleting"
      /\ \A i \in Id : i # cur[h] => status'[i] = status[i]
  BY <1>1 DEF IndInv, TypeOK
<1>3. TypeOK'
  BY <1>1 DEF IndInv, TypeOK, PC, Active, Drain, Status
<1>4. TablesInv'
  BY <1>1, <1>2 DEF IndInv, TablesInv, CompleteIsWhole, Items, OneRecordPerItem
<1>5. HandleInv(h)'
  BY <1>1, <1>2 DEF HandleInv, SweepInv, DrainInv, PipelineInv, RestoreInv, Pipeline,
         Drain, DropsRow
<1>6. Frame(h)
  BY <1>1 DEF Frame, IndInv, TypeOK
<1>7. QED
  BY <1>1, <1>3, <1>4, <1>5, <1>6, StepCompose

-----------------------------------------------------------------------------
(* The invariant and what follows from it *)

LEMMA InitIndInv == Init => IndInv
<1> SUFFICES ASSUME Init PROVE IndInv
  OBVIOUS
<1> USE DEF Init
<1>1. TypeOK
  BY MaxIdAssumption DEF TypeOK, Status, PC, Op
<1>2. LockHeld
  BY DEF LockHeld, Active, Pipeline, Drain, Recovery
<1>3. TablesInv
  BY DEF TablesInv, CompleteIsWhole
<1>4. \A h \in Handle : HandleInv(h)
  BY DEF HandleInv, SweepInv, DrainInv, PipelineInv, RestoreInv, Pipeline, Drain
<1>5. QED
  BY <1>1, <1>2, <1>3, <1>4 DEF IndInv

LEMMA StutterIndInv == IndInv /\ UNCHANGED vars => IndInv'
  BY DEF vars, IndInv, TypeOK, LockHeld, TablesInv, CompleteIsWhole, HandleInv, SweepInv,
         DrainInv, PipelineInv, RestoreInv, Settled, RelationshipsHold, DropsRow,
         OneRecordPerItem, Items, OfKind

LEMMA NextIndInv == IndInv /\ [Next]_vars => IndInv'
<1>1. ASSUME IndInv, NEW h \in Handle, Progress(h)
      PROVE  IndInv'
  <2>1. CASE RecoverStep(h)
    BY <1>1, <2>1, RecoverMoveInv, RecoverListInv, SweepStalePendingInv, SweepOtherInv,
       ClearTemporaryInv DEF RecoverStep
  <2>2. CASE DrainStep(h)
    BY <1>1, <2>2, DrainEntriesInv, DrainWarningsInv, DropRowInv DEF DrainStep
  <2>3. CASE SnapshotStep(h)
    BY <1>1, <2>3, CreatePendingInv, WriteRecordInv, CommitBatchInv, FinishPipelineInv,
       PublishInv, MarkIncompleteInv DEF SnapshotStep
  <2>4. CASE RestoreStep(h) \/ TransitionToDeleting(h) \/ Release(h)
    BY <1>1, <2>4, RestoreStepInv, TransitionToDeletingInv, LeaveInv
  <2>5. QED
    BY <1>1, <2>1, <2>2, <2>3, <2>4 DEF Progress
<1>2. ASSUME IndInv, NEW h \in Handle, Fault(h)
      PROVE  IndInv'
  BY <1>2, LeaveInv, PipelineErrorInv DEF Fault
<1>3. ASSUME IndInv, NEW h \in Handle, Demand(h)
      PROVE  IndInv'
  BY <1>3, OpenCloseInv, AcquireForEngineInv, AcquireForDeleteInv DEF Demand
<1>4. QED
  BY <1>1, <1>2, <1>3, StutterIndInv DEF Next

\* The invariant holds in every reachable state, for all constants: any number
\* of handles crashing, failing and recovering in any order.
THEOREM InvariantHolds == Spec => []IndInv
  BY InitIndInv, NextIndInv, PTL DEF Spec

\* Type correctness of the tables and of every handle's local state.
THEOREM TypeCorrect == Spec => []TypeOK
<1>1. IndInv => TypeOK
  BY DEF IndInv
<1>2. QED
  BY <1>1, InvariantHolds, PTL

\* Every visible snapshot is whole: one record per scanned item, whatever
\* batches were lost, operations interrupted or recoveries run.
THEOREM VisibleSnapshotsWhole == Spec => []CompleteIsWhole
<1>1. IndInv => CompleteIsWhole
  BY DEF IndInv, TablesInv
<1>2. QED
  BY <1>1, InvariantHolds, PTL

\* No recovery, deletion or second writer touches a snapshot being written.
THEOREM WriterUndisturbed == Spec => []LiveSnapshotUntouched
<1>1. IndInv => LiveSnapshotUntouched
  BY DEF IndInv, HandleInv, PipelineInv, Pipeline, LiveSnapshotUntouched
<1>2. QED
  BY <1>1, InvariantHolds, PTL

\* The separate statements a restore runs all see the same complete snapshot.
THEOREM RestoreUndisturbed == Spec => []RestoreReadsStable
<1>1. IndInv => RestoreReadsStable
  BY DEF IndInv, HandleInv, RestoreInv, RestoreReadsStable
<1>2. QED
  BY <1>1, InvariantHolds, PTL

\* Recovery's final relationship check never fails on what LocalVault itself
\* can leave behind.
THEOREM RecoveryCleans == Spec => []RecoveryReachesCleanState
<1>1. IndInv => RecoveryReachesCleanState
  BY DEF IndInv, HandleInv, SweepInv, RecoveryReachesCleanState
<1>2. QED
  BY <1>1, InvariantHolds, PTL
-----------------------------------------------------------------------------
(* Every step changes the tables in one of six ways; snapshots therefore   *)
(* follow the documented lifecycle, and the protocol implements            *)
(* SnapshotVault.                                                          *)

\* No status changes and no visible row does.
QuietStep ==
    /\ UNCHANGED <<status, lastId, src>>
    /\ \A i \in Id : status[i] = "complete" => rows'[i] = rows[i]

RequestStep ==
    /\ lastId + 1 \in Id
    /\ lastId' = lastId + 1
    /\ status[lastId + 1] = "absent"
    /\ status' = [status EXCEPT ![lastId + 1] = "pending"]
    /\ \E found \in SUBSET Entry : src' = [src EXCEPT ![lastId + 1] = found]
    /\ UNCHANGED rows

\* A row moves from one status to another, nothing else changes.
MoveStep(from, to) ==
    /\ \E i \in Id : status[i] = from /\ status' = [status EXCEPT ![i] = to]
    /\ UNCHANGED <<lastId, src, rows>>

PublishStep ==
    /\ \E i \in Id :
         /\ status[i] = "pending"
         /\ status' = [status EXCEPT ![i] = "complete"]
         /\ Items(rows[i]) = src[i]
         /\ OneRecordPerItem(rows[i])
    /\ UNCHANGED <<lastId, src, rows>>

DropStep ==
    /\ \E i \in Id :
         /\ status[i] = "deleting"
         /\ status' = [status EXCEPT ![i] = "absent"]
         /\ rows' = [rows EXCEPT ![i] = {}]
    /\ UNCHANGED <<lastId, src>>

TableStep ==
    \/ QuietStep \/ RequestStep \/ PublishStep \/ DropStep
    \/ MoveStep("pending", "failed") \/ MoveStep("pending", "cancelled")
    \/ MoveStep("complete", "deleting")

-----------------------------------------------------------------------------
LEMMA RecoverTables ==
    ASSUME IndInv, NEW h \in Handle, RecoverStep(h)
    PROVE  TableStep
<1>1. CASE SweepStalePending(h)
  <2>1. PICK item \in todo[h] : /\ status[item[1]] = "pending"
                                /\ status' = [status EXCEPT ![item[1]] = "failed"]
    BY <1>1 DEF SweepStalePending
  <2>2. item[1] \in Id
    BY DEF IndInv, TypeOK
  <2>3. MoveStep("pending", "failed")
    BY <1>1, <2>1, <2>2 DEF SweepStalePending, MoveStep
  <2>4. QED
    BY <2>3 DEF TableStep
<1>2. CASE ~SweepStalePending(h)
  <2>1. QuietStep
    BY <1>2 DEF RecoverStep, RecoverSkip, RecoverList, SweepOther, SweepDone,
           ClearTemporary, QuickRelationshipCheck, QuietStep, disk
  <2>2. QED
    BY <2>1 DEF TableStep
<1>3. QED
  BY <1>1, <1>2

LEMMA DrainTables ==
    ASSUME IndInv, NEW h \in Handle, DrainStep(h)
    PROVE  TableStep
<1>1. /\ cur[h] \in Id
      /\ status[cur[h]] \in {"failed", "cancelled", "deleting"}
  BY DEF DrainStep, DrainEntries, DrainWarnings, DropRow, IndInv, HandleInv, DrainInv,
         Drain
<1>2. CASE DropRow(h)
  <2>1. DropStep
    BY <1>1, <1>2 DEF DropRow, DropStep
  <2>2. QED
    BY <2>1 DEF TableStep
<1>3. CASE DrainEntries(h) \/ DrainWarnings(h)
  <2>1. \A i \in Id : i # cur[h] => rows'[i] = rows[i]
    <3>1. \E D : rows' = [rows EXCEPT ![cur[h]] = @ \ D]
      BY <1>3 DEF DrainEntries, DrainWarnings
    <3>2. QED
      BY <1>1, <3>1 DEF IndInv, TypeOK
  <2>2. QuietStep
    BY <1>1, <1>3, <2>1 DEF DrainEntries, DrainWarnings, QuietStep
  <2>3. QED
    BY <2>2 DEF TableStep
<1>4. QED
  BY <1>2, <1>3 DEF DrainStep

LEMMA SnapshotTables ==
    ASSUME IndInv, NEW h \in Handle, SnapshotStep(h)
    PROVE  TableStep
<1>1. CASE CreatePending(h)
  <2>1. status[lastId + 1] = "absent"
    BY <1>1, MaxIdAssumption DEF CreatePending, IndInv, TablesInv, TypeOK
  <2>2. RequestStep
    BY <1>1, <2>1 DEF CreatePending, RequestStep
  <2>3. QED
    BY <2>2 DEF TableStep
<1>2. CASE WriteRecord(h) \/ FinishPipeline(h)
  <2>1. QuietStep
    BY <1>2 DEF WriteRecord, FinishPipeline, QuietStep, disk
  <2>2. QED
    BY <2>1 DEF TableStep
<1>3. CASE CommitBatch(h)
  <2>1. cur[h] \in Id /\ status[cur[h]] = "pending"
    BY <1>3, InsidePipeline DEF CommitBatch, Pipeline
  <2>2. \A i \in Id : i # cur[h] => rows'[i] = rows[i]
    BY <1>3, <2>1 DEF CommitBatch, IndInv, TypeOK
  <2>3. QuietStep
    BY <1>3, <2>1, <2>2 DEF CommitBatch, QuietStep
  <2>4. QED
    BY <2>3 DEF TableStep
<1>4. CASE Publish(h)
  <2>1. cur[h] \in Id /\ status[cur[h]] = "pending" /\ PipelineInv(h)
    BY <1>4, InsidePipeline DEF Publish, Pipeline
  <2>2. Items(rows[cur[h]]) = src[cur[h]] /\ OneRecordPerItem(rows[cur[h]])
    BY <1>4, <2>1 DEF Publish, PipelineInv, Pipeline, Items, OneRecordPerItem
  <2>3. PublishStep
    BY <1>4, <2>1, <2>2 DEF Publish, PublishStep
  <2>4. QED
    BY <2>3 DEF TableStep
<1>5. CASE MarkIncomplete(h)
  <2>1. cur[h] \in Id /\ verdict[h] \in {"failed", "cancelled"}
    BY <1>5, InsidePipeline DEF MarkIncomplete, IndInv, TypeOK
  <2>2. MoveStep("pending", "failed") \/ MoveStep("pending", "cancelled")
    BY <1>5, <2>1 DEF MarkIncomplete, MoveStep
  <2>3. QED
    BY <2>2 DEF TableStep
<1>6. QED
  BY <1>1, <1>2, <1>3, <1>4, <1>5 DEF SnapshotStep

\* Every step of the protocol is one of the six kinds of table step.
LEMMA NextTables ==
    ASSUME IndInv, [Next]_vars
    PROVE  TableStep
<1>1. CASE UNCHANGED vars
  BY <1>1 DEF vars, TableStep, QuietStep
<1>2. ASSUME NEW h \in Handle, Progress(h)
      PROVE  TableStep
  <2>1. CASE RestoreStep(h) \/ Release(h)
    BY <2>1 DEF RestoreStep, BeginRestore, EndRestore, Release, disk, TableStep, QuietStep
  <2>2. CASE TransitionToDeleting(h)
    <3>1. cur[h] \in Id
      BY <2>2 DEF TransitionToDeleting, IndInv, HandleInv, DrainInv
    <3>2. MoveStep("complete", "deleting")
      BY <2>2, <3>1 DEF TransitionToDeleting, MoveStep
    <3>3. QED
      BY <3>2 DEF TableStep
  <2>3. QED
    BY <1>2, <2>1, <2>2, RecoverTables, DrainTables, SnapshotTables DEF Progress
<1>3. ASSUME NEW h \in Handle, Fault(h) \/ Demand(h)
      PROVE  TableStep
  <2>1. UNCHANGED <<status, lastId, src, rows>>
    BY <1>3 DEF Fault, Demand, Crash, Unwind, PipelineError, Open, Close,
           AcquireForEngine, AcquireForDelete, disk
  <2>2. QED
    BY <2>1 DEF TableStep, QuietStep
<1>4. QED
  BY <1>1, <1>2, <1>3 DEF Next

-----------------------------------------------------------------------------
LEMMA TableStepLifecycle ==
    ASSUME IndInv, TableStep
    PROVE  LifecycleStep
<1> USE DEF IndInv, TypeOK, Lifecycle, LifecycleStep
<1>1. CASE QuietStep
  BY <1>1 DEF QuietStep
<1>2. CASE RequestStep
  <2>1. ~(lastId + 1 <= lastId)
    BY MaxIdAssumption
  <2>2. \A i \in Id : i # lastId + 1 => status'[i] = status[i]
    BY <1>2 DEF RequestStep
  <2>3. QED
    BY <1>2, <2>1, <2>2 DEF RequestStep
<1>3. CASE PublishStep
  BY <1>3 DEF PublishStep
<1>4. CASE DropStep
  BY <1>4 DEF DropStep
<1>5. CASE \/ MoveStep("pending", "failed") \/ MoveStep("pending", "cancelled")
           \/ MoveStep("complete", "deleting")
  BY <1>5 DEF MoveStep
<1>6. QED
  BY <1>1, <1>2, <1>3, <1>4, <1>5 DEF TableStep

\* A snapshot's status only moves along the lifecycle, a deleted id is never
\* reused, and the rows of a visible snapshot never change.
THEOREM LifecycleTheorem == Spec => LifecycleRespected
<1>1. IndInv /\ [Next]_vars => [LifecycleStep]_<<status, rows, lastId>>
  BY NextTables, TableStepLifecycle
<1>2. QED
  BY <1>1, InvariantHolds, PTL DEF Spec, LifecycleRespected

-----------------------------------------------------------------------------
(* Refinement *)

LEMMA InitRefines == Init => Vault!VaultInit
  BY MaxIdAssumption DEF Init, Vault!VaultInit, VisibleState, VisibleRows

\* The visible state of one snapshot, by its status.
LEMMA VisibleStateOf ==
    ASSUME NEW i \in Id
    PROVE  /\ status[i] = "complete" => VisibleState[i] = "visible"
           /\ status[i] = "pending" => VisibleState[i] = "hidden"
           /\ status[i] = "absent" /\ i > lastId => VisibleState[i] = "unused"
           /\ status[i] = "absent" /\ ~(i > lastId) => VisibleState[i] = "retired"
           /\ status[i] \in {"failed", "cancelled", "deleting"}
                => VisibleState[i] = "retired"
  BY DEF VisibleState

\* The same after a step.
LEMMA VisibleStateOfNext ==
    ASSUME NEW i \in Id
    PROVE  /\ status'[i] = "complete" => VisibleState'[i] = "visible"
           /\ status'[i] = "pending" => VisibleState'[i] = "hidden"
           /\ status'[i] = "absent" /\ i > lastId' => VisibleState'[i] = "unused"
           /\ status'[i] = "absent" /\ ~(i > lastId') => VisibleState'[i] = "retired"
           /\ status'[i] \in {"failed", "cancelled", "deleting"}
                => VisibleState'[i] = "retired"
  BY DEF VisibleState

\* Two functions on Id that differ at most at i are an EXCEPT of each other.
LEMMA ExceptAt ==
    ASSUME NEW f, NEW g, NEW i \in Id, NEW v,
           f = [j \in Id |-> f[j]], g = [j \in Id |-> g[j]],
           g[i] = v, \A j \in Id : j # i => g[j] = f[j]
    PROVE  g = [f EXCEPT ![i] = v]
  OBVIOUS

LEMMA VisibleFunctions ==
    /\ VisibleState = [j \in Id |-> VisibleState[j]]
    /\ VisibleState' = [j \in Id |-> VisibleState'[j]]
    /\ VisibleRows = [j \in Id |-> VisibleRows[j]]
    /\ VisibleRows' = [j \in Id |-> VisibleRows'[j]]
  BY DEF VisibleState, VisibleRows

\* A snapshot whose status, rows and position relative to the sequence stay
\* the same looks the same.
LEMMA VisibleUnchangedAt ==
    ASSUME NEW j \in Id, status'[j] = status[j], j > lastId <=> j > lastId',
           status[j] = "complete" => rows'[j] = rows[j]
    PROVE  VisibleState'[j] = VisibleState[j] /\ VisibleRows'[j] = VisibleRows[j]
  BY DEF VisibleState, VisibleRows

LEMMA QuietRefines ==
    ASSUME IndInv, QuietStep
    PROVE  UNCHANGED <<VisibleState, src, VisibleRows>>
<1>1. \A j \in Id : VisibleState'[j] = VisibleState[j] /\ VisibleRows'[j] = VisibleRows[j]
  BY VisibleUnchangedAt DEF QuietStep
<1>2. QED
  BY <1>1, VisibleFunctions DEF QuietStep

LEMMA RequestRefines ==
    ASSUME IndInv, RequestStep
    PROVE  \E i \in Id : Vault!Request(i)
<1> DEFINE n == lastId + 1
<1>1. /\ n \in Id /\ lastId' = n /\ status[n] = "absent" /\ status'[n] = "pending"
      /\ n > lastId
      /\ \A j \in Id : j # n => status'[j] = status[j] /\ (j > lastId <=> j > lastId')
  BY MaxIdAssumption DEF RequestStep, IndInv, TypeOK
<1>2. \A j \in Id : j # n => /\ VisibleState'[j] = VisibleState[j]
                             /\ VisibleRows'[j] = VisibleRows[j]
  BY <1>1, VisibleUnchangedAt DEF RequestStep
<1>3. VisibleState[n] = "unused" /\ VisibleState'[n] = "hidden"
  BY <1>1, VisibleStateOf, VisibleStateOfNext
<1>4. VisibleRows'[n] = {} /\ VisibleRows[n] = {}
  BY <1>1 DEF VisibleRows
<1>5. VisibleState' = [VisibleState EXCEPT ![n] = "hidden"]
  BY <1>1, <1>2, <1>3, VisibleFunctions, ExceptAt
<1>6. VisibleRows' = VisibleRows
  BY <1>2, <1>4, VisibleFunctions
<1>7. QED
  BY <1>1, <1>3, <1>5, <1>6 DEF RequestStep, Vault!Request

\* A row that leaves the visible or hidden states for a final one.
LEMMA MoveRefines ==
    ASSUME IndInv, NEW from \in {"pending", "complete"},
           NEW to \in {"failed", "cancelled", "deleting"}, MoveStep(from, to)
    PROVE  \E i \in Id : Vault!Retire(i)
<1>1. PICK i \in Id : status[i] = from /\ status' = [status EXCEPT ![i] = to]
  BY DEF MoveStep
<1>2. status'[i] = to /\ \A j \in Id : j # i => status'[j] = status[j]
  BY <1>1 DEF IndInv, TypeOK
<1>3. \A j \in Id : j # i => /\ VisibleState'[j] = VisibleState[j]
                             /\ VisibleRows'[j] = VisibleRows[j]
  BY <1>2, VisibleUnchangedAt DEF MoveStep
<1>4. VisibleState[i] \in {"hidden", "visible"} /\ VisibleState'[i] = "retired"
  BY <1>1, <1>2, VisibleStateOf, VisibleStateOfNext
<1>5. VisibleRows'[i] = {}
  BY <1>2 DEF VisibleRows
<1>6. /\ VisibleState' = [VisibleState EXCEPT ![i] = "retired"]
      /\ VisibleRows' = [VisibleRows EXCEPT ![i] = {}]
  BY <1>3, <1>4, <1>5, VisibleFunctions, ExceptAt
<1>7. QED
  BY <1>4, <1>6 DEF MoveStep, Vault!Retire

LEMMA DropRefines ==
    ASSUME IndInv, DropStep
    PROVE  UNCHANGED <<VisibleState, src, VisibleRows>>
<1>1. PICK i \in Id : /\ status[i] = "deleting"
                      /\ status' = [status EXCEPT ![i] = "absent"]
                      /\ rows' = [rows EXCEPT ![i] = {}]
  BY DEF DropStep
<1>2. /\ status'[i] = "absent" /\ ~(i > lastId) /\ lastId' = lastId
      /\ \A j \in Id : j # i => status'[j] = status[j] /\ rows'[j] = rows[j]
  BY <1>1 DEF IndInv, TypeOK, TablesInv, DropStep
<1>3. \A j \in Id : j # i => /\ VisibleState'[j] = VisibleState[j]
                             /\ VisibleRows'[j] = VisibleRows[j]
  BY <1>2, VisibleUnchangedAt DEF DropStep
<1>4. VisibleState[i] = "retired" /\ VisibleState'[i] = "retired"
  BY <1>1, <1>2, VisibleStateOf, VisibleStateOfNext
<1>5. VisibleRows[i] = {} /\ VisibleRows'[i] = {}
  BY <1>1, <1>2 DEF VisibleRows
<1>6. \A j \in Id : VisibleState'[j] = VisibleState[j] /\ VisibleRows'[j] = VisibleRows[j]
  BY <1>3, <1>4, <1>5, Zenon
<1>7. VisibleState' = VisibleState
  BY <1>6, VisibleFunctions
<1>8. VisibleRows' = VisibleRows
  BY <1>6, VisibleFunctions
<1>9. QED
  BY <1>7, <1>8 DEF DropStep

\* Publication reveals the rows at once, and they are a function of the
\* requested items.
LEMMA PublishRefines ==
    ASSUME IndInv, PublishStep
    PROVE  \E i \in Id : Vault!MakeVisible(i)
<1>1. PICK i \in Id : /\ status[i] = "pending"
                      /\ status' = [status EXCEPT ![i] = "complete"]
                      /\ Items(rows[i]) = src[i]
                      /\ OneRecordPerItem(rows[i])
  BY DEF PublishStep
<1>2. /\ status'[i] = "complete" /\ \A j \in Id : j # i => status'[j] = status[j]
      /\ rows[i] \subseteq Record
  BY <1>1 DEF IndInv, TypeOK
<1>3. \A j \in Id : j # i => /\ VisibleState'[j] = VisibleState[j]
                             /\ VisibleRows'[j] = VisibleRows[j]
  BY <1>2, VisibleUnchangedAt DEF PublishStep
<1>4. VisibleState[i] = "hidden" /\ VisibleState'[i] = "visible"
  BY <1>1, <1>2, VisibleStateOf, VisibleStateOfNext
<1>5. VisibleRows'[i] = rows[i]
  BY <1>2 DEF VisibleRows, PublishStep
<1> DEFINE kind == [p \in src[i] |-> CHOOSE k \in Kind : <<p, k>> \in rows[i]]
<1>6. \A r \in rows[i] : /\ r = <<r[1], r[2]>> /\ r[2] \in Kind /\ r[1] \in src[i]
  BY <1>1, <1>2 DEF Record, Items
<1>7. \A p \in src[i] : \E k \in Kind : <<p, k>> \in rows[i]
  <2>1. \A p \in src[i] : \E r \in rows[i] : r[1] = p
    BY <1>1 DEF Items
  <2>2. QED
    BY <1>6, <2>1
<1>8. \A p \in src[i] : kind[p] \in Kind /\ <<p, kind[p]>> \in rows[i]
  BY <1>7
<1>10. kind \in [src[i] -> Kind]
  BY <1>8
<1> HIDE DEF kind
<1>9. rows[i] = {<<p, kind[p]>> : p \in src[i]}
  <2>1. ASSUME NEW r \in rows[i]
        PROVE  r = <<r[1], kind[r[1]]>>
    <3>1. r[1] \in src[i] /\ <<r[1], kind[r[1]]>> \in rows[i]
      BY <1>6, <1>8, <2>1
    <3>2. <<r[1], kind[r[1]]>>[1] = r[1]
      OBVIOUS
    <3>3. QED
      BY <1>1, <3>1, <3>2 DEF OneRecordPerItem
  <2>2. ASSUME NEW r \in rows[i]
        PROVE  r \in {<<p, kind[p]>> : p \in src[i]}
    BY <1>6, <2>1
  <2>3. ASSUME NEW p \in src[i]
        PROVE  <<p, kind[p]>> \in rows[i]
    BY <1>8
  <2>4. QED
    BY <2>2, <2>3, Zenon
<1>11. /\ VisibleState' = [VisibleState EXCEPT ![i] = "visible"]
       /\ VisibleRows' = [VisibleRows EXCEPT ![i] = rows[i]]
  BY <1>3, <1>4, <1>5, VisibleFunctions, ExceptAt
<1>12. \E k \in [src[i] -> Kind] :
         VisibleRows' = [VisibleRows EXCEPT ![i] = {<<p, k[p]>> : p \in src[i]}]
  BY <1>9, <1>10, <1>11
<1>13. QED
  BY <1>4, <1>11, <1>12 DEF PublishStep, Vault!MakeVisible

LEMMA StepRefines ==
    ASSUME IndInv, TableStep
    PROVE  [Vault!VaultNext]_<<VisibleState, src, VisibleRows>>
  BY QuietRefines, RequestRefines, MoveRefines, DropRefines, PublishRefines
     DEF TableStep, Vault!VaultNext

\* The transactional protocol implements the vault: for every number of
\* handles, snapshots and entries, snapshots appear whole, in one step, once.
THEOREM Refinement == Spec => ImplementsVault
<1>1. IndInv /\ [Next]_vars => [Vault!VaultNext]_<<VisibleState, src, VisibleRows>>
  BY NextTables, StepRefines
<1>2. QED
  BY <1>1, InitRefines, InvariantHolds, PTL
     DEF Spec, ImplementsVault, Vault!VaultSpec, Vault!vaultVars
=============================================================================
