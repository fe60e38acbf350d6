-------------------------- MODULE SnapshotLifecycle --------------------------
(***************************************************************************)
(* Snapshot rows, the writer lock and crash recovery of one repository.    *)
(*                                                                         *)
(* Several Repository handles (of one or several processes) share the      *)
(* SQLite metadata, the temporary/ tree and repository.lock. A handle runs *)
(* one writer operation at a time: SnapshotEngine::create_snapshot,        *)
(* RestoreEngine::restore, or the MetadataStore deletion protocol. Each    *)
(* action is one SQLite transaction or one lock operation, because those   *)
(* are the steps a crash or another handle can fall between; an open       *)
(* transaction is private (batch) until it commits and is lost by a crash. *)
(*                                                                         *)
(* The pipeline that produces the records is abstracted here to the set of *)
(* items the scan emitted (src) and those not yet written (left).          *)
(***************************************************************************)
EXTENDS Naturals, FiniteSets

CONSTANTS
    Handle,            \* Repository objects, each with its own connection
    MaxId,             \* bound: snapshots ever created (AUTOINCREMENT rowids)
    Entry,             \* items a scan may emit: a path to store or to warn about
    WriteBatchLimit,   \* metadata_batch_entry_limit_
    CleanBatchLimit,   \* entry_batch_limit of the cleanup loops
    None               \* no handle holds repository.lock

ASSUME LimitsAssumption ==
    /\ WriteBatchLimit \in Nat \ {0}
    /\ CleanBatchLimit \in Nat \ {0}
ASSUME MaxIdAssumption == MaxId \in Nat
ASSUME EntryAssumption == IsFiniteSet(Entry)
ASSUME NoneAssumption == None \notin Handle

VARIABLES
    lock,        \* the handle whose descriptor holds the flock, or None
    lastId,      \* sqlite_sequence: the last snapshot id handed out
    status,      \* snapshots.status by id; "absent" when there is no row
    rows,        \* committed entries / snapshot_warnings rows by snapshot id
    src,         \* what the scan of each snapshot emitted (history)
    temp,        \* snapshots with files under temporary/
    pc,          \* where each handle's operation is
    op,          \* the operation it runs
    cur,         \* the snapshot it works on, 0 when none
    todo,        \* recovery's list of incomplete snapshots still to handle
    left,        \* scanned items not yet inserted by the writer thread
    batch,       \* records inserted in the writer's open transaction
    verdict,     \* the status a failing snapshot is to be marked with
    recovered    \* Repository::Impl::recovery_complete_

vars == <<lock, lastId, status, rows, src, temp, pc, op, cur, todo, left,
          batch, verdict, recovered>>
disk == <<lastId, status, rows, src, temp>>
work == <<op, cur, todo, left, batch, verdict>>

Id == 1..MaxId
Status == {"absent", "pending", "complete", "failed", "cancelled", "deleting"}
Incomplete == Status \ {"absent", "complete"}
Kind == {"entry", "warning"}
Record == Entry \X Kind
Op == {"none", "snapshot", "restore", "delete"}

Pipeline == {"write", "commit", "publish"}
Drain == {"drain_entries", "drain_warnings", "drop_row"}
Recovery == {"recover", "sweep", "clear_temp", "check"}
Active == Pipeline \cup Drain \cup Recovery
            \cup {"begin", "mark", "restore", "release"}
PC == Active \cup {"closed", "idle"}

OfKind(R, k) == {r \in R : r[2] = k}
Items(R) == {r[1] : r \in R}

(***************************************************************************)
(* One bounded DELETE ... LIMIT :entry_batch_limit removes D out of R. The *)
(* statement takes the lowest row ids; insertion order is scheduling       *)
(* dependent, so any subset of the right size stands for them.             *)
(***************************************************************************)
IsBatch(D, R) ==
    /\ D \subseteq R
    /\ IF Cardinality(R) <= CleanBatchLimit
         THEN D = R
         ELSE Cardinality(D) = CleanBatchLimit

Init ==
    /\ lock = None
    /\ lastId = 0
    /\ status = [i \in Id |-> "absent"]
    /\ rows = [i \in Id |-> {}]
    /\ src = [i \in Id |-> {}]
    /\ temp = {}
    /\ pc = [h \in Handle |-> "closed"]
    /\ op = [h \in Handle |-> "none"]
    /\ cur = [h \in Handle |-> 0]
    /\ todo = [h \in Handle |-> {}]
    /\ left = [h \in Handle |-> {}]
    /\ batch = [h \in Handle |-> {}]
    /\ verdict = [h \in Handle |-> "failed"]
    /\ recovered = [h \in Handle |-> FALSE]

Goto(h, label) == pc' = [pc EXCEPT ![h] = label]

-----------------------------------------------------------------------------
(* Handles *)

\* Repository::open takes no lock and runs no recovery.
Open(h) ==
    /\ pc[h] = "closed"
    /\ Goto(h, "idle")
    /\ recovered' = [recovered EXCEPT ![h] = FALSE]
    /\ UNCHANGED <<lock, disk, work>>

\* Destroying a Repository between operations.
Close(h) ==
    /\ pc[h] = "idle"
    /\ Goto(h, "closed")
    /\ UNCHANGED <<lock, disk, work, recovered>>

\* What every exit from an operation leaves of its local state.
ResetWork(h) ==
    /\ op' = [op EXCEPT ![h] = "none"]
    /\ cur' = [cur EXCEPT ![h] = 0]
    /\ todo' = [todo EXCEPT ![h] = {}]
    /\ left' = [left EXCEPT ![h] = {}]
    /\ batch' = [batch EXCEPT ![h] = {}]
    /\ verdict' = [verdict EXCEPT ![h] = "failed"]

\* Mutant: the writer lock is not exclusive.
AcquireForEngineShared(h, o) ==
    /\ pc[h] = "idle"
    /\ o \in {"snapshot", "restore"}
    /\ lock' = h
    /\ op' = [op EXCEPT ![h] = o]
    /\ Goto(h, "recover")
    /\ UNCHANGED <<disk, cur, todo, left, batch, verdict, recovered>>

\* flock(LOCK_EX | LOCK_NB); a busy lock throws and changes nothing, so only
\* success is a step. Snapshot and restore run recovery next.
AcquireForEngine(h, o) ==
    /\ pc[h] = "idle"
    /\ o \in {"snapshot", "restore"}
    /\ lock = None
    /\ lock' = h
    /\ op' = [op EXCEPT ![h] = o]
    /\ Goto(h, "recover")
    /\ UNCHANGED <<disk, cur, todo, left, batch, verdict, recovered>>

\* ~RepositoryLock when the operation returns.
Release(h) ==
    /\ pc[h] = "release"
    /\ lock' = None
    /\ ResetWork(h)
    /\ Goto(h, "idle")
    /\ UNCHANGED <<disk, recovered>>

\* The process dies: the kernel drops the flock, SQLite drops the open
\* transaction, files under temporary/ stay.
Crash(h) ==
    /\ pc[h] \in Active
    /\ lock' = None
    /\ ResetWork(h)
    /\ Goto(h, "closed")
    /\ recovered' = [recovered EXCEPT ![h] = FALSE]
    /\ UNCHANGED disk

\* An exception (injected, SQLite, file system, argument) outside the try
\* block of create_snapshot, or one swallowed by mark_incomplete_best_effort:
\* the current transaction rolls back and the lock is released.
Unwind(h) ==
    /\ pc[h] \in Active \ (Pipeline \cup {"release"})
    /\ lock' = None
    /\ ResetWork(h)
    /\ Goto(h, "idle")
    /\ UNCHANGED <<disk, recovered>>

-----------------------------------------------------------------------------
(* Repository::recover_after_writer_lock *)

\* recovery_complete_ is per handle: once set, recovery is skipped.
RecoverSkip(h) ==
    /\ pc[h] = "recover"
    /\ recovered[h]
    /\ Goto(h, "begin")
    /\ UNCHANGED <<lock, disk, work, recovered>>

\* Mutant: snapshots already marked failed or cancelled are taken as cleaned.
RecoverListUnfinished(h) ==
    /\ pc[h] = "recover"
    /\ ~recovered[h]
    /\ todo' = [todo EXCEPT ![h] =
                  {<<i, status[i]>> : i \in {j \in Id : status[j] \in {"pending", "deleting"}}}]
    /\ Goto(h, "sweep")
    /\ UNCHANGED <<lock, disk, op, cur, left, batch, verdict, recovered>>

RecoverList(h) ==
    /\ pc[h] = "recover"
    /\ ~recovered[h]
    /\ todo' = [todo EXCEPT ![h] =
                  {<<i, status[i]>> : i \in {j \in Id : status[j] \in Incomplete}}]
    /\ Goto(h, "sweep")
    /\ UNCHANGED <<lock, disk, op, cur, left, batch, verdict, recovered>>

\* The loop takes the incomplete snapshots in id order. A stale pending one
\* is first marked failed in a transaction of its own.
NextTodo(h, item) ==
    /\ item \in todo[h]
    /\ \A other \in todo[h] : item[1] <= other[1]

SweepStalePending(h) ==
    /\ pc[h] = "sweep"
    /\ \E item \in todo[h] :
         /\ NextTodo(h, item)
         /\ item[2] = "pending"
         /\ status[item[1]] = "pending"
         /\ status' = [status EXCEPT ![item[1]] = "failed"]
         /\ cur' = [cur EXCEPT ![h] = item[1]]
    /\ Goto(h, "drain_entries")
    /\ UNCHANGED <<lock, lastId, rows, src, temp, op, todo, left, batch, verdict,
                   recovered>>

SweepOther(h) ==
    /\ pc[h] = "sweep"
    /\ \E item \in todo[h] :
         /\ NextTodo(h, item)
         /\ item[2] # "pending"
         /\ cur' = [cur EXCEPT ![h] = item[1]]
    /\ Goto(h, "drain_entries")
    /\ UNCHANGED <<lock, disk, op, todo, left, batch, verdict, recovered>>

SweepDone(h) ==
    /\ pc[h] = "sweep"
    /\ todo[h] = {}
    /\ Goto(h, "clear_temp")
    /\ UNCHANGED <<lock, disk, work, recovered>>

\* clear_temporary_tree; a path another process still shares is left behind.
ClearTemporary(h) ==
    /\ pc[h] = "clear_temp"
    /\ \E shared \in SUBSET temp : temp' = shared
    /\ Goto(h, "check")
    /\ UNCHANGED <<lock, lastId, status, rows, src, work, recovered>>

\* MetadataStore::quick_relationship_check on the committed tables.
RelationshipsHold ==
    \A i \in Id :
        /\ status[i] \notin {"pending", "deleting"}
        /\ status[i] \in {"failed", "cancelled"} => rows[i] = {}

\* The check throws (Unwind) when it does not hold.
QuickRelationshipCheck(h) ==
    /\ pc[h] = "check"
    /\ RelationshipsHold
    /\ recovered' = [recovered EXCEPT ![h] = (temp = {})]
    /\ Goto(h, "begin")
    /\ UNCHANGED <<lock, disk, work>>

-----------------------------------------------------------------------------
(* The bounded cleanup loops shared by recovery, by a failing snapshot     *)
(* (clean_incomplete_snapshot) and by deletion (delete_deleting_snapshot). *)

\* Only delete_deleting_snapshot ends by deleting the snapshots row. Recovery
\* chooses by the status it listed.
DropsRow(h) ==
    \/ op[h] = "delete"
    \/ <<cur[h], "deleting">> \in todo[h]

\* Every batch re-reads the status and throws when it is not the expected one.
DrainAllowed(h) ==
    IF DropsRow(h) THEN status[cur[h]] = "deleting"
                   ELSE status[cur[h]] \in {"failed", "cancelled"}

\* Mutant: the loop does not advance past the snapshot it has handled.
DrainRepeats(h) ==
    /\ UNCHANGED todo
    /\ Goto(h, IF todo[h] # {} THEN "sweep" ELSE "release")

\* Recovery goes on with the next snapshot of its list, the others return.
DrainReturns(h) ==
    /\ todo' = [todo EXCEPT ![h] = {item \in @ : item[1] # cur[h]}]
    /\ Goto(h, IF todo[h] # {} THEN "sweep" ELSE "release")

DrainEntries(h) ==
    /\ pc[h] = "drain_entries"
    /\ DrainAllowed(h)
    /\ \E D \in SUBSET OfKind(rows[cur[h]], "entry") :
         /\ IsBatch(D, OfKind(rows[cur[h]], "entry"))
         /\ rows' = [rows EXCEPT ![cur[h]] = @ \ D]
         /\ Goto(h, IF D = {} THEN "drain_warnings" ELSE "drain_entries")
    /\ UNCHANGED <<lock, lastId, status, src, temp, work, recovered>>

DrainWarnings(h) ==
    /\ pc[h] = "drain_warnings"
    /\ DrainAllowed(h)
    /\ \E D \in SUBSET OfKind(rows[cur[h]], "warning") :
         /\ IsBatch(D, OfKind(rows[cur[h]], "warning"))
         /\ rows' = [rows EXCEPT ![cur[h]] = @ \ D]
         /\ \/ /\ D # {}
               /\ UNCHANGED <<pc, todo>>
            \/ /\ D = {}
               /\ DropsRow(h)
               /\ Goto(h, "drop_row")
               /\ UNCHANGED todo
            \/ /\ D = {}
               /\ ~DropsRow(h)
               /\ DrainReturns(h)
    /\ UNCHANGED <<lock, lastId, status, src, temp, op, cur, left, batch, verdict,
                   recovered>>

\* Mutant: the id of the newest snapshot is free again once its row is gone
\* (a rowid without AUTOINCREMENT).
DropRowReusesId(h) ==
    /\ pc[h] = "drop_row"
    /\ status[cur[h]] = "deleting"
    /\ status' = [status EXCEPT ![cur[h]] = "absent"]
    /\ rows' = [rows EXCEPT ![cur[h]] = {}]
    /\ lastId' = IF lastId = cur[h] THEN lastId - 1 ELSE lastId
    /\ DrainReturns(h)
    /\ UNCHANGED <<lock, src, temp, op, cur, left, batch, verdict, recovered>>

\* The last transaction of delete_deleting_snapshot; ON DELETE CASCADE takes
\* whatever rows would still refer to the snapshot.
DropRow(h) ==
    /\ pc[h] = "drop_row"
    /\ status[cur[h]] = "deleting"
    /\ status' = [status EXCEPT ![cur[h]] = "absent"]
    /\ rows' = [rows EXCEPT ![cur[h]] = {}]
    /\ DrainReturns(h)
    /\ UNCHANGED <<lock, lastId, src, temp, op, cur, left, batch, verdict, recovered>>

-----------------------------------------------------------------------------
(* SnapshotEngine::create_snapshot *)

\* create_pending_snapshot (autocommit), then the pipeline starts. Spools and
\* staged objects live under temporary/objects while it runs.
CreatePending(h) ==
    /\ pc[h] = "begin"
    /\ op[h] = "snapshot"
    /\ lastId + 1 \in Id
    /\ lastId' = lastId + 1
    /\ status' = [status EXCEPT ![lastId + 1] = "pending"]
    /\ \E found \in SUBSET Entry :
         /\ src' = [src EXCEPT ![lastId + 1] = found]
         /\ left' = [left EXCEPT ![h] = found]
    /\ cur' = [cur EXCEPT ![h] = lastId + 1]
    /\ temp' = temp \cup {lastId + 1}
    /\ Goto(h, "write")
    /\ UNCHANGED <<lock, rows, op, todo, batch, verdict, recovered>>

\* The writer thread inserts one processed item. The entry limit forces a
\* commit; the byte limit may ask for one at any size.
WriteRecord(h) ==
    /\ pc[h] = "write"
    /\ \E e \in left[h], k \in Kind :
         /\ left' = [left EXCEPT ![h] = @ \ {e}]
         /\ batch' = [batch EXCEPT ![h] = @ \cup {<<e, k>>}]
         /\ \/ Goto(h, "commit")
            \/ /\ Cardinality(batch[h]) + 1 < WriteBatchLimit
               /\ UNCHANGED pc
    /\ UNCHANGED <<lock, disk, op, cur, todo, verdict, recovered>>

\* commit_batch: at the limit, and once more when the queue has drained.
CommitBatch(h) ==
    /\ \/ pc[h] = "commit"
       \/ pc[h] = "write" /\ left[h] = {} /\ batch[h] # {}
    /\ rows' = [rows EXCEPT ![cur[h]] = @ \cup batch[h]]
    /\ batch' = [batch EXCEPT ![h] = {}]
    /\ Goto(h, "write")
    /\ UNCHANGED <<lock, lastId, status, src, temp, op, cur, todo, left, verdict,
                   recovered>>

\* Mutant: the last, partial batch is never committed.
FinishPipelineEarly(h) ==
    /\ pc[h] = "write"
    /\ left[h] = {}
    /\ temp' = temp \ {cur[h]}
    /\ batch' = [batch EXCEPT ![h] = {}]
    /\ Goto(h, "publish")
    /\ UNCHANGED <<lock, lastId, status, rows, src, op, cur, todo, left, verdict, recovered>>

\* The threads are joined: their temporary files are gone.
FinishPipeline(h) ==
    /\ pc[h] = "write"
    /\ left[h] = {}
    /\ batch[h] = {}
    /\ temp' = temp \ {cur[h]}
    /\ Goto(h, "publish")
    /\ UNCHANGED <<lock, lastId, status, rows, src, work, recovered>>

\* The publication transaction: mark_snapshot_complete and COMMIT.
Publish(h) ==
    /\ pc[h] = "publish"
    /\ status[cur[h]] = "pending"
    /\ status' = [status EXCEPT ![cur[h]] = "complete"]
    /\ Goto(h, "release")
    /\ UNCHANGED <<lock, lastId, rows, src, temp, work, recovered>>

\* Any error or cancellation inside the try block: the open batch rolls back,
\* the threads are joined and the handler chooses the status to record.
PipelineError(h, s) ==
    /\ pc[h] \in Pipeline
    /\ s \in {"failed", "cancelled"}
    /\ verdict' = [verdict EXCEPT ![h] = s]
    /\ batch' = [batch EXCEPT ![h] = {}]
    /\ left' = [left EXCEPT ![h] = {}]
    /\ temp' = temp \ {cur[h]}
    /\ Goto(h, "mark")
    /\ UNCHANGED <<lock, lastId, status, rows, src, op, cur, todo, recovered>>

\* mark_incomplete_best_effort: mark_snapshot_incomplete, then the cleanup.
MarkIncomplete(h) ==
    /\ pc[h] = "mark"
    /\ status[cur[h]] = "pending"
    /\ status' = [status EXCEPT ![cur[h]] = verdict[h]]
    /\ Goto(h, "drain_entries")
    /\ UNCHANGED <<lock, lastId, rows, src, temp, work, recovered>>

-----------------------------------------------------------------------------
(* RestoreEngine::restore, as far as the metadata goes *)

\* require_complete_snapshot, then the statements that read its entries and
\* chunks, one after the other and in no common transaction.
BeginRestore(h, i) ==
    /\ pc[h] = "begin"
    /\ op[h] = "restore"
    /\ status[i] = "complete"
    /\ cur' = [cur EXCEPT ![h] = i]
    /\ batch' = [batch EXCEPT ![h] = rows[i]]
    /\ Goto(h, "restore")
    /\ UNCHANGED <<lock, disk, op, todo, left, verdict, recovered>>

EndRestore(h) ==
    /\ pc[h] = "restore"
    /\ Goto(h, "release")
    /\ UNCHANGED <<lock, disk, work, recovered>>

-----------------------------------------------------------------------------
(* Deletion: the caller takes the lock and drives MetadataStore itself *)

\* Mutant: deletion does not take the writer lock exclusively.
AcquireForDeleteShared(h, i) ==
    /\ pc[h] = "idle"
    /\ lock' = h
    /\ op' = [op EXCEPT ![h] = "delete"]
    /\ cur' = [cur EXCEPT ![h] = i]
    /\ Goto(h, "begin")
    /\ UNCHANGED <<disk, todo, left, batch, verdict, recovered>>

AcquireForDelete(h, i) ==
    /\ pc[h] = "idle"
    /\ lock = None
    /\ lock' = h
    /\ op' = [op EXCEPT ![h] = "delete"]
    /\ cur' = [cur EXCEPT ![h] = i]
    /\ Goto(h, "begin")
    /\ UNCHANGED <<disk, todo, left, batch, verdict, recovered>>

\* Mutant: the UPDATE loses its AND status = 'complete'.
TransitionAnyToDeleting(h) ==
    /\ pc[h] = "begin"
    /\ op[h] = "delete"
    /\ status' = [status EXCEPT ![cur[h]] = "deleting"]
    /\ Goto(h, "drain_entries")
    /\ UNCHANGED <<lock, lastId, rows, src, temp, work, recovered>>

TransitionToDeleting(h) ==
    /\ pc[h] = "begin"
    /\ op[h] = "delete"
    /\ status[cur[h]] = "complete"
    /\ status' = [status EXCEPT ![cur[h]] = "deleting"]
    /\ Goto(h, "drain_entries")
    /\ UNCHANGED <<lock, lastId, rows, src, temp, work, recovered>>

-----------------------------------------------------------------------------
RecoverStep(h) ==
    \/ RecoverSkip(h) \/ RecoverList(h)
    \/ SweepStalePending(h) \/ SweepOther(h) \/ SweepDone(h)
    \/ ClearTemporary(h) \/ QuickRelationshipCheck(h)
DrainStep(h) == DrainEntries(h) \/ DrainWarnings(h) \/ DropRow(h)
SnapshotStep(h) ==
    \/ CreatePending(h) \/ WriteRecord(h) \/ CommitBatch(h)
    \/ FinishPipeline(h) \/ Publish(h) \/ MarkIncomplete(h)
RestoreStep(h) == (\E i \in Id : BeginRestore(h, i)) \/ EndRestore(h)

\* What a handle does by itself once an operation has started.
Progress(h) ==
    \/ RecoverStep(h) \/ DrainStep(h) \/ SnapshotStep(h) \/ RestoreStep(h)
    \/ TransitionToDeleting(h) \/ Release(h)

Fault(h) ==
    \/ Crash(h) \/ Unwind(h)
    \/ \E s \in {"failed", "cancelled"} : PipelineError(h, s)

Demand(h) ==
    \/ Open(h) \/ Close(h)
    \/ \E o \in {"snapshot", "restore"} : AcquireForEngine(h, o)
    \/ \E i \in Id : AcquireForDelete(h, i)

Next == \E h \in Handle : Progress(h) \/ Fault(h) \/ Demand(h)

Spec == Init /\ [][Next]_vars

\* A running operation keeps executing, or is ended by a fault.
FairSpec == Spec /\ \A h \in Handle : WF_vars(Progress(h) \/ Fault(h))

-----------------------------------------------------------------------------
TypeOK ==
    /\ lock \in Handle \cup {None}
    /\ lastId \in Id \cup {0}
    /\ status \in [Id -> Status]
    /\ rows \in [Id -> SUBSET Record]
    /\ src \in [Id -> SUBSET Entry]
    /\ temp \in SUBSET Id
    /\ pc \in [Handle -> PC]
    /\ op \in [Handle -> Op]
    /\ cur \in [Handle -> Id \cup {0}]
    /\ todo \in [Handle -> SUBSET (Id \X Status)]
    /\ left \in [Handle -> SUBSET Entry]
    /\ batch \in [Handle -> SUBSET Record]
    /\ verdict \in [Handle -> {"failed", "cancelled"}]
    /\ recovered \in [Handle -> BOOLEAN]

\* A set of records holds each item once, as an entry or as a warning.
OneRecordPerItem(R) == \A r, t \in R : r[1] = t[1] => r = t

\* A published snapshot holds exactly one record, entry or warning, for every
\* item its scan emitted, whatever crashed, failed, was cancelled or recovered
\* since: no lost batch, no partial publication, no cleanup of a live snapshot
\* (mark_snapshot_complete, commit_batch, clean_incomplete_snapshot).
CompleteIsWhole ==
    \A i \in Id : status[i] = "complete" =>
        /\ Items(rows[i]) = src[i]
        /\ OneRecordPerItem(rows[i])

\* While a pipeline runs nobody else touches its snapshot: the row is still
\* pending, committed plus uncommitted plus unwritten records are the scan,
\* and its files under temporary/ exist. Recovery by a second handle is what
\* would break this (repository.lock, recover_after_writer_lock).
LiveSnapshotUntouched ==
    \A h \in Handle : pc[h] \in {"write", "commit"} =>
        /\ status[cur[h]] = "pending"
        /\ Items(rows[cur[h]]) \cup Items(batch[h]) \cup left[h] = src[cur[h]]
        /\ cur[h] \in temp

\* A restore reads the metadata of its snapshot statement by statement; under
\* the lock every statement sees the rows the first one saw.
RestoreReadsStable ==
    \A h \in Handle : pc[h] = "restore" =>
        /\ status[cur[h]] = "complete"
        /\ rows[cur[h]] = batch[h]

\* Recovery handles every kind of residue: when it reaches the relationship
\* check, the check passes, so the check can only fail on foreign corruption
\* and never locks the user out (recover_after_writer_lock).
RecoveryReachesCleanState ==
    \A h \in Handle : pc[h] \in {"clear_temp", "check"} => RelationshipsHold

\* A snapshot's status only moves along the documented lifecycle, and the rows
\* of a complete snapshot never change while it is visible.
Lifecycle ==
    {<<"absent", "pending">>, <<"pending", "complete">>, <<"pending", "failed">>,
     <<"pending", "cancelled">>, <<"complete", "deleting">>, <<"deleting", "absent">>}
LifecycleStep ==
    \A i \in Id :
        /\ status'[i] # status[i] => <<status[i], status'[i]>> \in Lifecycle
        /\ status[i] = "complete" => rows'[i] = rows[i]
        /\ status[i] = "absent" /\ i <= lastId => status'[i] = "absent"
LifecycleRespected == [][LifecycleStep]_<<status, rows, lastId>>

\* Nobody keeps repository.lock for ever: every writer operation ends.
LockReleased == \A h \in Handle : lock = h ~> lock # h

-----------------------------------------------------------------------------
(* The inductive invariant behind the safety properties above. *)

\* An operation in progress holds repository.lock.
LockHeld == \A h \in Handle : pc[h] \in Active => lock = h

\* What the committed tables satisfy in every state: ids above the sequence
\* were never used, rows belong to an existing snapshot, visible is whole.
TablesInv ==
    /\ \A i \in Id : i > lastId => status[i] = "absent"
    /\ \A i \in Id : status[i] = "absent" => rows[i] = {}
    /\ CompleteIsWhole

\* The residue recovery leaves untouched because nothing is left to do.
Settled(i) ==
    \/ status[i] \in {"absent", "complete"}
    \/ status[i] \in {"failed", "cancelled"} /\ rows[i] = {}

\* Recovery's worklist agrees with the tables, the snapshot being drained
\* aside, and every snapshot not on it is settled.
SweepInv(h) ==
    /\ todo[h] # {} => pc[h] \in {"sweep"} \cup Drain
    /\ pc[h] = "sweep" \/ (pc[h] \in Drain /\ todo[h] # {}) =>
         /\ \A item \in todo[h] :
              /\ item[2] \in Incomplete
              /\ pc[h] = "sweep" \/ item[1] # cur[h] => status[item[1]] = item[2]
         /\ \A i \in Id : Settled(i) \/ \E item \in todo[h] : item[1] = i
    /\ pc[h] \in Drain /\ todo[h] # {} => \E item \in todo[h] : item[1] = cur[h]
    /\ pc[h] \in {"clear_temp", "check"} => RelationshipsHold

DrainInv(h) ==
    /\ op[h] = "delete" =>
         /\ pc[h] \in {"begin", "release"} \cup Drain
         /\ todo[h] = {}
         /\ cur[h] \in Id
    /\ pc[h] \in Drain =>
         /\ cur[h] \in Id
         /\ status[cur[h]] \in {"failed", "cancelled", "deleting"}
         /\ status[cur[h]] = "deleting" <=> DropsRow(h)
    /\ pc[h] = "drain_warnings" => OfKind(rows[cur[h]], "entry") = {}

PipelineInv(h) ==
    /\ pc[h] \in Pipeline \cup {"mark"} =>
         /\ cur[h] \in Id
         /\ status[cur[h]] = "pending"
         /\ op[h] = "snapshot"
    /\ pc[h] \in Pipeline =>
         /\ Items(rows[cur[h]]) \cup Items(batch[h]) \cup left[h] = src[cur[h]]
         /\ OneRecordPerItem(rows[cur[h]] \cup batch[h])
         /\ left[h] \cap Items(rows[cur[h]] \cup batch[h]) = {}
    /\ pc[h] \in {"write", "commit"} => cur[h] \in temp
    /\ pc[h] = "publish" => left[h] = {} /\ batch[h] = {}
    /\ pc[h] \notin Pipeline \cup {"restore", "release"} => batch[h] = {}

RestoreInv(h) ==
    pc[h] = "restore" =>
        /\ cur[h] \in Id
        /\ status[cur[h]] = "complete"
        /\ rows[cur[h]] = batch[h]

HandleInv(h) == SweepInv(h) /\ DrainInv(h) /\ PipelineInv(h) /\ RestoreInv(h)

IndInv ==
    /\ TypeOK
    /\ LockHeld
    /\ TablesInv
    /\ \A h \in Handle : HandleInv(h)

-----------------------------------------------------------------------------
(* What list_complete_snapshots, list_entries and restore can see. *)
VisibleState ==
    [i \in Id |->
        CASE status[i] = "complete" -> "visible"
          [] status[i] = "pending" -> "hidden"
          [] status[i] = "absent" /\ i > lastId -> "unused"
          [] OTHER -> "retired"]
VisibleRows == [i \in Id |-> IF status[i] = "complete" THEN rows[i] ELSE {}]

Vault == INSTANCE SnapshotVault WITH
            SnapshotId <- Id, SourceItem <- Entry, RecordKind <- Kind,
            state <- VisibleState, request <- src, content <- VisibleRows

\* The transactional protocol, with its crashes, batches and recoveries,
\* implements the vault: snapshots appear whole, atomically and once.
ImplementsVault == Vault!VaultSpec
=============================================================================
