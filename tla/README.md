# TLA+ verification of LocalVault (FileVault)

LocalVault keeps snapshots of a directory tree in a repository: content-addressed,
compressed objects under `objects/`, and SQLite metadata that says which snapshot
holds which entry and which entry consists of which chunks. This project models
the parts of it where order, concurrency and failure decide whether a backup is
worth anything, checks them with TLC and proves the central results with TLAPS.

All paths below are relative to the repository; the core is `src/core/`.

## 1. Inventory

| Part | State it keeps | Operations | Interacts with |
|---|---|---|---|
| Metadata store (`database/metadata_store.cpp`, schema in `migrations.cpp`) | tables `snapshots` (status), `entries`, `snapshot_warnings`, `chunks`, `entry_chunks` | create pending, insert, mark complete / incomplete, mark stale pending failed, clean, transition to deleting, delete, relationship check | every engine, one SQLite transaction at a time |
| Writer lock (`platform/posix_lock.cpp`) | `flock` on `repository.lock` | `acquire_exclusive` (never waits), release by destructor or by process death | snapshot, restore, deletion |
| Repository (`repository.cpp`) | per handle: open mode, `recovery_complete_` | create, open, `recover_after_writer_lock` | lock, metadata, `temporary/` |
| Snapshot engine (`snapshot_engine.cpp`) | two bounded queues, `first_error`, `pipeline_stop`, `active_workers`, open transaction, totals | scanner, worker, writer and progress threads; the calling thread starts and joins them | queues, object store, metadata, user's stop token and callback |
| Bounded queue (`concurrency/bounded_queue.hpp`) | deque, byte count, `closed_`, two condition variables | push, pop, close | the pipeline's threads, one stop token |
| Object store (`storage/object_store.cpp`, `posix_file_metadata.cpp`, `posix_repository_support.cpp`) | files `objects/xx/...`, per-store cache, shared table of 256 mutexes | store, ensure_metadata, read_verified | workers (publish), writer (register), restore (read) |
| Progress aggregator (`snapshot_engine.cpp:130`) | atomic counters, dirty/finished/cancelled flags, window of emissions | record, emit, run | all pipeline threads, user callback |
| Restore engine (`restore_engine.cpp`) | plan, destination tree | plan conflicts, write and publish files, directory metadata | lock, metadata, object store |
| Repository creation (`repository.cpp:490`, `creation_ledger.hpp`) | ledger of what was created | create, undo | other creators, `Repository::open` |
| Scanner (`filesystem/file_scanner.cpp`) | stack of directory iterators | `scan_streaming`, `decide_scan_entry` | the user's source tree, ignore rules, pipeline |
| Ignore rules (`filesystem/ignore_rules.cpp`) | patterns, case policy | load, match | scanner |
| Chunker (`storage/chunker.cpp`) | buffer and offset of one file | `for_each_chunk` | the user's file, worker |
| Codec, hash, path safety | none across calls | pure | workers, restore |

What is hard here, and what correctness means for it:

* **Lifecycle.** A snapshot is written in many transactions and made visible in one.
  Crashes, swallowed cleanup errors and a recovery that runs in whichever process
  comes next must never show part of a snapshot, damage a running one, or leave a
  state in which recovery itself refuses to start.
* **Pipeline.** Five kinds of threads, two bounded queues, one shutdown path that any
  of them may run at any time, and a user's cancellation on yet another thread. Nothing
  may be lost or published in part, the reported error must be the cause, the call
  must return, and nothing may touch the locals of a scope that has been left.
* **Queue.** `notify_one` together with a byte budget: a wakeup can go to a producer
  that still does not fit.
* **Restore.** The destination is the user's and may change while it is written. What is
  there must survive unless a replacement was asked for, a file must appear whole or not
  at all, no call may follow a link a check has refused, and the result must be true.
* **Object store.** Write, fsync, rename and directory flush race with other workers,
  with failed earlier attempts at the same object and with power loss; a committed
  row must only ever name an object that survives.

* **Creation.** No lock exists before the repository does: creators exclude each other
  by making paths exclusively, and undo by name. A published repository must survive
  the losers, and an open in between must not take half a repository for a whole one.
* **Scan and capture.** The source tree is in use. A path is looked at several times by
  name before it is listed or read, and a file is read in many calls. What is stored
  must be one version, nothing may be lost without a warning, links must not lead out.
* **Progress.** Events are put together from counters that change, under a limit that
  must not cost the user the events that announce a phase.

The hazards, each at its line and with the properties aimed at it, are in
`PROJECT.json`.

## 2. Modules

| Module | Models | Checked by | Proved in |
|---|---|---|---|
| `SnapshotLifecycle` | snapshot rows, writer lock, recovery, deletion, crashes | `MCSnapshotLifecycle` | `SnapshotLifecycle_proofs` |
| `SnapshotVault` | abstract: what listing and restoring can see | through `SnapshotLifecycle!ImplementsVault` | `SnapshotLifecycle_proofs` |
| `SnapshotPipeline` | threads of `create_snapshot` | `MCSnapshotPipeline` | `SnapshotPipeline_proofs` |
| `BoundedQueue` | the queue at the level of its condition variables | `MCBoundedQueue` | `SnapshotPipeline_proofs` |
| `RestoreEngine` | `restore()` writing into a destination others work in | `MCRestoreEngine` | `RestoreEngine_proofs` |
| `ObjectStore` | publication and adoption of objects, rows, power loss | `MCObjectStore` | `ObjectStore_proofs` |
| `RepositoryCreation` | several `create()` and `open()` at one path | `MCRepositoryCreation` | `RepositoryCreation_proofs` |
| `FileScanner` | the walk over a tree that changes | `MCFileScanner` | `FileScanner_proofs` |
| `IgnoreRules` | loading and matching of patterns | `MCIgnoreRules` | |
| `FileCapture` | the attempts of a worker at one file that is in use | `MCFileCapture` | `FileCapture_proofs` |
| `ProgressAggregator` | counters, the progress thread, the limit on events | `MCProgressAggregator` | `ProgressAggregator_proofs` |
| `LinkRestore` | temporary links of several restores in one directory | `MCLinkRestore` | |

How they fit together: `SnapshotLifecycle` is the whole of a repository seen through its
transactions. Its pipeline steps are refined by `SnapshotPipeline` (threads and queues),
whose queues are `BoundedQueue`, whose reading of one file is `FileCapture`, whose
storing of one chunk is `ObjectStore`, and whose scanner and progress thread are
`FileScanner` (with `IgnoreRules`) and `ProgressAggregator`. `RestoreEngine` with
`LinkRestore` takes what the lifecycle made visible; `RepositoryCreation` comes before
all of it. Only the step from `SnapshotLifecycle` to `SnapshotVault` is a checked
refinement; the others meet in the operations they share.

### SnapshotLifecycle

One action per SQLite transaction or lock operation, since only between those can
another handle or a crash intervene. `status`, `rows` and `lastId` are the committed
tables (`lastId` is `sqlite_sequence`: ids are `AUTOINCREMENT`); `batch` is the open
transaction; `temp` the snapshots with files under `temporary/`; `pc`, `cur`, `todo`
the local state of each handle's operation. An `Entry` is an item emitted by the
scan; a record says whether it ended as an entry or as a warning. A directory that
is stored and cannot be enumerated is two items.

`AcquireForEngine`, `RecoverSkip`/`RecoverList`, the `Sweep*` and `Drain*` actions,
`ClearTemporary` and `QuickRelationshipCheck` follow `recover_after_writer_lock`
statement by statement; `CreatePending`, `WriteRecord`, `CommitBatch`,
`FinishPipeline`, `Publish`, `PipelineError` and `MarkIncomplete` follow
`create_snapshot` with its threads abstracted to the set of items still to write;
`BeginRestore`/`EndRestore` are the reads of `RestoreEngine::restore`;
`AcquireForDelete`, `TransitionToDeleting` and the drain are the deletion protocol of
`MetadataStore`. No code in `src/core` calls deletion yet, only recovery resumes it
and the tests drive it under the lock; the model takes the lock as they do. `Crash`
is the death of a process at any point, `Unwind` an exception outside the `try` block
of `create_snapshot` or one swallowed by `mark_incomplete_best_effort`.

The relationship check is modelled for the rows it counts; its test of the form of
stored file hashes is data and left out, and so are totals and messages.

### SnapshotVault

The abstract promise: a snapshot is requested once, becomes visible atomically with
one record per item, does not change while visible, and never comes back once
retired. `SnapshotLifecycle` maps its tables to it by `VisibleState` and
`VisibleRows`, what `list_complete_snapshots` and `list_entries` return.

### SnapshotPipeline

The scanner, the workers, the writer, the progress thread, the calling thread and
the user's thread, each with its own `pc`. The queues are what `BoundedQueue`
provides: operations that wait for room or data and come back on closure or stop.
`shutdown` takes three steps (`RecordFirstError`, `RequestStop`, `CloseAll`) that
interleave with everything. A genuine error may strike at every place that can
throw, up to `MaxFault` per behaviour; refused pushes and seen stop tokens are
fallout and not bounded. `Unregister` waits for a running callback as
`~stop_callback` does. One step reads a whole file, its chunks stored.

### BoundedQueue

One action is one stay under `mutex_`. `phase` tells blocked waiters from woken ones that
do not have the mutex yet. `StopToken` sets the flag, `RunStopCallback` runs the
callback of each wait, which is `notify_all` on its variable. All operations use one
token, as in the pipeline. `arg` is the element of a push that waits, `NoItem` when none
does. `Size` 0 for every item is the queue without byte budget. Its
specification is `QueueSpec`, so that one module can speak of the queue and the pipeline.

### ObjectStore

One action is one system call of `store()`. A file is visible at once; its bytes are
durable after its own flush (`contentOn`), its name after that of its shard
(`entryOn`), the shard after that of `objects/` (`shardOn`). `PowerLoss` keeps any
subset of what was not flushed, and may damage unflushed bytes. Assumptions: a flush
that returns is on disk (on macOS the directory flush is a plain `fsync`), a rename is
atomic, `COMMIT` under `synchronous = FULL` is durable. The workers' stores have no
metadata; the writer's store only registers, so its own cache plays no role. A retry
of an unstable file finds the chunks of the first attempt and counts them as reused.

### RestoreEngine

`fs` is what `lstat` shows at each path of the destination and `data` whose it is;
paths are sequences of components. One action is one check or one system call of
`restore()`, so that others (`OutsideCreate`, `OutsideRemove`), cancellation, a failure
(`Fault`) or a crash can come between any two. `BuildPlan` follows `build_plan` and
`conflict_action`, with the user's answer to a prompt as a choice; the passes over
directories, files, links and metadata follow the loops of `restore()` in their order by
depth (entries of equal depth in any order). A call whose path leads over a link acts
outside the tree (`FollowLinks`); `fresh` are the links made since the last
`require_safe_ancestors`, `followed` those a call went over although a check had seen
them. `stamped` are the directories whose saved metadata is in force: any change in a
directory, by the restore itself too, takes it out. `good` says whether the chunks the
rows name are those of the file, which only the hash of the whole file tells.
`metadata_allowed` is false exactly for skipped entries and not kept apart.

`restored` are the entries the counters of `RestoreResult` count, `skipped` its
`skipped_entries`, each with what is said of it. Three reasons name entries that were not
restored ("conflict", "appeared", "unavailable"); the fourth, "metadata", is a warning about
a file or directory that is counted as restored as well, as
`tests/integration/restore_engine_test.cpp:637` requires. `ResultIsTrue` is about both kinds.
`touched` are the paths at which others made or removed something, and `PathTouched` asks
for one at the entry or above it; for the metadata of a directory the objects in it count
too (`WorkedIn`). The destructors of the temporaries ignore a failing removal: the
temporary then stays (`left`), and `LeftoversNamed` says whose it can be. An entry
with a warning is in both parts of the sum from which `report_progress` takes
`processed_entries`, so the last event of a restore can show more entries than
`total_entries`; no document speaks of that sum, and it is not modelled.

Assumed: the snapshot is a tree of entries, as the scanner writes it; others create and
remove single objects, and do not rename a directory with a temporary in it. Left out:
path encoding and containment, the validation of the rows read (`validate_entries`,
`validate_chunks`: a refusal is a `Fault`), progress events, names of temporaries, durability of the destination.
`LinkPrivilegeUnavailable` is an answer only the Windows layer gives.

### RepositoryCreation

Each creator runs `create()` one system call or transaction at a time: the looks at the
root, the reserved names, the directories and empty files of the ledger in their order,
the lock, migration, row, checkpoint, self-check and release; `Throw` is a failure at any of
them, `Crash` the death of the process. `fs` names who made what stands at a path,
`flock` who holds which lock file, `row` which databases have their row. Cleanup is
`CleanRecord` over the ledger backwards, first under the lock without the protected
records, then after `Unlock` with them, then the permissions. Openers run `open()` again
and again: layout, choice of access, database, row, and a writer lock. Missing ancestors
of the root are left out, and so is power loss. An SQLite call that answers BUSY because
of an opener is a fault: `initialize_connection` sets `journal_mode` before `busy_timeout`
(`database.cpp:198`, `202`), so it does not wait, and `SomeoneWins` promises nothing then.

### FileScanner

`frames` is the recursion of `scan_directory`; a directory is listed when it is opened,
names that change afterwards may or may not be returned. Each entry passes `ReadStatus`,
`ReadPlatform`, `DecideEntry` (with `Decide` for `decide_scan_entry`), `ReadMetadata`,
`ReadTarget` and `EmitEntry`, and every one of these looks at the path again, by name.
Each may fail. `touched` and `through` are history: what changed during the scan, and
through which links it went. Rules are the sets of paths they match. Assumed: whatever the
tree holds lies in directories, and what is below a link is outside the tree.

### IgnoreRules

The only module whose steps are those of one sequential function: an iteration of the
loop of `match_component` is an action, so that its offsets can be bounded and its end
stated. `MatchIsExact` compares the verdict with a definition of what the patterns mean
that says nothing of stars remembered or offsets. Bytes stand for classes of bytes, with
two- and three-byte characters; patterns and paths are valid UTF-8.

### FileCapture

One worker and one file: look, open, read block by block, store each chunk, look again,
compare, and a second attempt. The user writes, truncates, sets times, renames, or
exchanges a directory above at any moment. A block is named after the change that wrote
it, so that contents tell from which versions they come. `ClockSteps` says whether two
changes may fall into one tick of the clock of the filesystem. The last section has the
rows the writer makes of the result and the checks a restore runs over them. Overflow
checks are left out; a read is atomic for one block.

### ProgressAggregator

Each load of an atomic counter is a step, so an event may be put together from different
moments; each stay under `state_mutex_` is one step. The caller's own events, `finish`,
the join, the verdict and the publication are there because the required events come from
three threads. The pipeline is reduced to what it tells the aggregator. The callback is
set; the two chunk counters behave as the bytes do and are left out. `LimitAssumption`
is the arithmetic behind the limits: six required and four ordinary events are ten. The
history `seen.within` counts the deliveries of every second, wherever it begins.

### LinkRestore

Restores of one repository exclude each other by its lock; restores from different
repositories into one directory do not, and only that is modelled here: the choice of a
name by looking, the creation, the publication and the removal by the guard. `Number` are the names a process tries, from its
own counter that starts at zero. What stands at a temporary or final name is the process
whose target it has.

## 3. Runs

| Run | Bounds | Distinct states | Shows |
|---|---|---|---|
| `lifecycle` | 2 handles, 2 snapshots ever, 2 items, write batches of 2, cleanup batches of 1 | 467 142 | whole snapshots, undisturbed writers and restores, recovery, refinement of the vault |
| `lifecycle_live` | same with 1 item | 140 752 | `LockReleased` |
| `queue` | 3 producers, 2 consumers, 4 elements of 3 sizes (two of the smallest, one above the budget), 2 items / 2 bytes, 4 pushes | 149 000 | `QueueInv` (budget, no lost wakeup, nothing stranded), order, and every call comes back |
| `objects` | 3 workers, one of them of a store with its own mutexes, 2 objects in one shard, cache of 1 | 1.9 M | durability of rows, results and caches, one new result per object |
| `pipeline` | 2 workers, a file and a non-file, queues of 1, batches of 2, 2 attempts, 1 fault | 2.6 M | `PipelineInv` (exactly once, scope), whole publication, root cause, `NobodyStuck` |
| `restore` | a directory with a file, and a link; every destination; the whole snapshot with prompts, the file with "never", the link with "always"; 4 steps of others | 3.2 M | user's data, whole files, links, temporaries, result, metadata, skipped directories |
| `creation` | 2 creators, 1 opener, both modes, every user directory, 1 fault | 3.9 M | whole repositories, cleanup, somebody wins |
| `scanner` | 3 names, one not UTF-8, depth 2, 33 trees with every kind of entry, 1 change, a stop | 4.8 M | `ScanInv` (parents, options, links), `NothingLost` |
| `ignore` | every pattern of 3 characters, and of 4 without `?`, against every name of 3; every line of 3 characters and some pairs against 8 paths | 135 000 | the verdict is exact, `MatchEnds` |
| `capture` | 2 files, a link, exchanged directories, 2 blocks, 3 changes | 4.5 M | one version, detours, errors, retry, rows a restore accepts |
| `progress` | 1 worker, 2 entries, 2 seconds, limits 8 and 2 | 1.6 M | limit, totals, order, last event, `CallReturns` |
| `links_three` | 3 processes, 1 link each | (violated) | a finding, below |

Why these are enough. Two handles are one that runs and one that recovers; a second
snapshot gives recovery and deletion something else to damage; cleanup batches of 1
against 2 rows make every loop run more than once. Three producers are needed for a
wakeup to go to the wrong one of two sleepers, two consumers for one to be woken for
what the other takes; elements of one, two and three bytes make `has_capacity`
differ between waiters. Two small elements in the queue with a big and a small one
waiting take four pushes: then one pop may wake the big one, which does not fit, and the
small one sleeps on. Two different elements of one byte are the least for which order can
be told from disorder. Queues of 1 make every
thread block; one genuine fault with a free cancellation already gives two competing
first errors, and any number of fallout errors. Two workers in one stripe and one
outside it are a holder, a waiter and one that meets them only at the rename. Four
steps of others are what it takes to lead both the creation of a temporary and its
publication over a link past the check between them. For the source tree one change turns any look of the scanner against the
next. Three changes of a file are one that a reader mixes
in, one that hides it (the size, the time or the name set back) and one that upsets the
second attempt. A pattern of four characters has two stars with something between and
after them, the least for which the loop goes back more than once. Two creators and an
opener are a winner, a loser and a witness. Two seconds and a limit of eight make both
parts of the limit bind with few entries.
The proofs below lift the bounds for the safety properties of the lifecycle, the object
store, the restore, the queue, the pipeline, the creation, the scanner, the capture and
the progress events.

Symmetry is used in safety runs only, over handles, items, creators, files and workers,
none of which any definition tells apart. `lifecycle`'s refinement property mentions no
single handle or item. Runs of calls that end switch deadlock checking off; `NobodyStuck`,
`MatchEnds` and `CallReturns` say that they end as they should, and the passes of a restore
are loops over a fixed list. Every
property has a mutant in `PROJECT.json`, a plausible bug of the code under which TLC
finds it violated; the mutants' definitions stand before the ones they replace.

### Findings

`links_three` is a run that TLC must find violated (`LinkHasSavedTarget`): the guard of a
restore whose creation of a temporary link failed removes the temporary of another
process; a third takes the name, and the second publishes a link with the wrong target.
`tests/integration/restore_engine_test.cpp:150` requires a restored link to have the saved
one.

In four more places the models reach states that a document or a test rules out. No run
checks them; the passing properties are stated so that they say what does hold.

* `RepositoryCreation`, `repository.cpp:600`: a creator that loses sets the permissions of
  the root back to what it found, after the winner has made them owner-only. The test at
  `tests/integration/repository_test.cpp:756` requires 0700 of a created repository.
* `RepositoryCreation`, `repository.cpp:712`: a read-write open while a creation is under
  way makes SQLite's files, over which the creation fails and which its cleanup does not
  remove, so that the path stays unusable. The log of milestone M1 says that caught
  failures remove the invalid repository. `CreationInv` therefore says that a
  failed creation leaves nothing that it made itself, and that somebody gets the
  repository if no opener has made a file.
* `FileScanner`, `file_scanner.cpp:216`: a directory replaced by a link after the look at
  it and before it is opened is walked through the link. Brief D of M5 says not to recurse
  through link targets; for links that stay links that holds (`StableLinksNotTraversed`,
  part of `ScanInv`).
* `FileCapture`, `snapshot_engine.cpp:749`: where two changes can have one timestamp
  (`ClockSteps` with 0), the comparison before and after misses a write, and blocks of two
  versions are stored. Brief E of M5 says not to store a mixture silently; with a clock
  that tells changes apart that holds (`StableReadIsOneVersion`).

### Fairness

* `lifecycle_live`: a handle inside an operation takes another step of it, or a fault
  ends it. Threads are scheduled and SQLite calls return. Nothing is assumed of opening,
  closing or starting operations.
* `queue`: a notified thread gets the mutex, consumers keep popping (the worker
  and writer loops do nothing else), `request_stop` reaches its callbacks. Pushes,
  closure, stop requests and spurious wakeups are not fair.
* `ignore`: `match()` is a sequential function and runs on.
* `progress`: threads run, the callback returns, and a shutdown that has begun is
  completed. Records, failures and spurious wakeups are not forced.

`pipeline` needs no fairness: `NobodyStuck` says that until `create_snapshot` returns some
thread has what it needs (`Goes`), and that whoever has it can take a step that is no fault
and no request of the user. That the call returns
follows because a behaviour has finitely many such steps. `restore`, `scanner` and
`capture` are checked for safety only. A file that others lengthen for ever is excluded by
`MaxChanges`: for it `for_each_chunk` has no end but a stop.

## 4. Proofs

All theorems hold for every value of the constants under the named assumptions of the
modules: finite sets of items and threads, positive limits, a lock or mutex value that is
no thread, thread names that differ, at least one worker and one creator, entries that
form a tree, and for the progress events limits that leave room for the six required ones
(in the code 4 + 6 = 10). Each inductive invariant was checked with TLC on the instance of
its run before it was proved.

**Lifecycle** (`SnapshotLifecycle_proofs`). `CompleteIsWhole` is not inductive:
whether `Publish` keeps it depends on what the pipeline has written, whether recovery
keeps it on its worklist. `IndInv` adds that a running operation holds the lock
(`LockHeld`, which reduces every interleaving to one active handle), that ids above
`lastId` are unused and absent snapshots have no rows (`TablesInv`), and for the
active handle: the worklist agrees with the tables and everything not on it is settled
(`SweepInv`), a drained snapshot has the status its loop expects (`DrainInv`), and
committed, uncommitted and unwritten records partition the scan (`PipelineInv`). From
it follow `TypeOK`, `CompleteIsWhole`, `LiveSnapshotUntouched`, `RestoreReadsStable` and
`RecoveryReachesCleanState`, then `LifecycleRespected` and that every step is a step of `SnapshotVault` or a stutter.

**Object store** (`ObjectStore_proofs`). `IndInv` says that a visible object already
has whole, durable bytes in a durable shard, so that its entry is all that can be
missing (`VisibleInv`); that a call past the flush of `objects/` has a durable shard
and a call at the rename a flushed temporary file (`CallInv`); that the worker between
rename and return is the only one to report its object as new (`NewsInv`). Rows,
results and caches then stay durable under `PowerLoss` because it can take away only
what has not been flushed.

**Restore** (`RestoreEngine_proofs`). `IndInv` adds to the types that a temporary is at hand
only between its creation and its publication (`TemporaryInv`), that what stands before
publication has been verified (`VerifiedInv`), that no replacement is planned under the
policy never (`PolicyInv`), and that at each call every link on its path is younger than
the check before it (`LinksInv`). From it follow `WholeFilesOnly`,
`NoSeenLinkFollowed` and, since only `MakeRoot`, `MakeDirectory` and `Publish` write,
`UserDataKept`, for any snapshot, destination and number of steps of others.
`LeftoversNamed` is inductive beside it: a failing removal adds the entry at hand in the
step that throws or names it, and nothing takes a name out of `skipped_entries`.

For the other three, `ResultInv` says why the result is true. At any moment the entries
accounted for are those of the passes before and those of the present pass that are not
left to do, each counted or named as not restored (`AccountInv`); the plan grows from the top down and skips everything below a
skipped directory (`PlanInv`); what has been put in place is still there, and a call leads
elsewhere only over a link that others made (`PlaceInv`); what the plan found absent is
there only if others or the restore made it, so that what "appeared" is others' work
(`AbsentInv`); and once a directory has its
metadata the restore does nothing in it any more (`StampInv`). From it follow
`ResultIsTrue`, `SkippedSubtreeUntouched` and `MetadataLast`.

**Queue** (first part of `SnapshotPipeline_proofs`). `QueueInv` lacks two facts to be inductive: a producer
that waits or was woken must be known to fit an empty queue (`WaitersFit`; otherwise the one
producer told of an empty queue might go back to sleep), and each consumer that has
ended, not only all of them, has found the queue closed and empty or a stop request
(`EndedConsumers`). `BudgetExact` is stated with a running total over the elements, which
a push extends and a pop shifts, so that it needs no induction over the queue. `Fifo` is a
step property and follows from the types.

**Pipeline** (`SnapshotPipeline_proofs`). `IndInv` adds to the checked properties: the
order in which the calling thread starts and joins the others, and that the user's
callback runs only while it is registered (`ThreadInv`); that an error is recorded before
the stop it causes, so that whoever sees the stop comes second (`ErrorInv`); that a queue
is closed, and the thread behind it ends, only when nothing can come any more, with
`active_workers` as the count of workers that have not gone (`FlowInv`); and who holds an
item (`HandInv`). `ExactlyOnce` is stated over the places an entry passes: it is never at
two of them, nor twice at one, and until something goes wrong it is at one. From it
follow `PipelineInv`, `PublishedIsWhole` and `RootCauseReported`.

That the pipeline is never deadlocked is proved in terms of what each thread needs to go on,
`Goes`, read off the guards of its steps: `SomeoneGoes`, the half of `NobodyStuck` that is
about all threads together. `GoInv` adds that a recorded error is followed by a stop, or by
a thread about to request it; that the last worker closes the result queue; and that there
is always a next thread to start. The argument follows the joins backwards: while the calling
thread waits for the scanner, either somebody has stopped the pipeline or all threads were
started; then a full job queue leaves a worker that can pop, or one that waits to push; then
the result queue is full and the writer can pop. The other half of `NobodyStuck`, that a
thread which has what it needs can take a step, is about single threads and `ENABLED`, and
TLC checks it.

**Creation** (`RepositoryCreation_proofs`). Everything rests on ownership: what stands at
a path is listed by the ledger of the process that made it, and by no other (`OwnerInv`).
How far a creator has come tells what its ledger lists and whether it has the lock
(`LedgerInv`, `LockInv`); the row comes under the lock and after all that an open looks
for (`RowInv`); and a cleanup has left nothing above its position in the ledger but the
records it protects (`CleanedInv`). That creators which nothing disturbs never all lose
needs `HopeInv`: such a creator gives up only if another one is ahead of it, and that one
never gives up. From it follow `RepositoryWhole`, `CreationInv` and `RemovesOnlyOwn`, for
any number of creators, openers and faults.

**Progress** (`ProgressAggregator_proofs`). Events are emitted by the calling thread or by
the progress thread, never by both (`CallInv`, `StageInv`, `FlagInv`). Each required event
is emitted once and the end of the scan is not forgotten (`OnceInv`); the window of
emissions therefore holds at most `MaxOrdinary` ordinary ones and one required one for each
label used up (`LimitInv`), which leaves room for the next. An entry is counted as
discovered before it can be counted as processed (`FlowInv`). `EventInv` relates the event
under way and the last one to the counters, load by load: each counter already loaded is at
least that of the last event, and once the calling thread is past the join it is final.
With `PhaseInv` this gives `EventsConsistent` and `EventsMonotone`.

`LimitKept` has two halves. That no required event is dropped follows from `LimitInv`. That
the callback runs at most `MaxEvents` times in any second does not: the limit counts the
time an event was admitted, the promise is about the time it is delivered, and an event
admitted just before a second begins is delivered in it. `SecondInv` charges every delivery of
the second under way, and the event on its way, to an ordinary emission of that second or to
a required label used up. The late one is charged to a label: either it is required itself,
or the progress thread emits it and `preparing` was sent before. Four and six are ten again.

**Scanner** (`FileScanner_proofs`), for any names, depth, trees, rules and options and any
number of changes. The directories on the stack lie in one another, each was captured
before it was opened, and what its iterator may have missed has been touched (`StackInv`,
`ItemInv`). What is known of the entry in hand is still true if the path stayed as it was
(`TruthInv`), although it is looked at again and again by name: the paths above it were
captured as directories, so that if they stayed no link among them leads elsewhere
(`EntryInv`, lemma `StableAt`). With what `Decide` lets pass (`DecisionInv`) this gives
`ScanInv`. For `NothingLost`, `LossInv` says that every name an iterator gave is under way
or accounted for with all that is below it. When a directory ends, take a path in it that
stayed: the first name on the way down to it was there, so either the iterator gave it and
`LossInv` applies, or it is among the changed ones, which contradicts that it stayed
(lemma `DirectoryDone`). `WellFormed` is part of the invariant: a path that was captured as
no directory has nothing below it.

**Capture** (`FileCapture_proofs`). Two invariants, for any files and links, lengths of
files and chunks, and any number of changes. `BaseInv` holds whatever the clock does. The
rows of an attempt follow one another, end where the hashed contents end and give them
(`RowsInv`); validation and contents are stated row by row, so that one more chunk extends
them without an induction over the rows. A second attempt starts only after a change or a
failed call, and an attempt as young as its last trouble still agrees with the file
(`RetryInv`); therefore a difference at its end costs one more, which gives
`RetryAbsorbsOneChange`. Nothing moves after the result (`EndInv`). From it follows
`CapturedIsRestorable`. `SameInv` needs `ClockSteps = {1}`, a clock that gives no two
changes one time: a change time that is the one seen before vouches for the size and the
modification time, for all that was read of that file so far, and for the name not having
left and come back. From both follow `StableReadIsOneVersion` and `CaptureInv`, which are
theorems under that hypothesis; without it the first is false (section 3).

Proved and not listed in a run, because TLC checks them as parts or consequences of
properties that are: `TypeOK` of the lifecycle, `NeverTorn` of the objects,
`WholeFilesOnly` and `NoSeenLinkFollowed` of the restore,
`SomeoneGoes` of the pipeline.
`LifecycleRespected` is a theorem only; what it says of visible rows is part of
`ImplementsVault`.

Only model-checked, because the prover cannot do it:

* liveness and fairness: `LockReleased`, `PushReturns`, `Drained`, `ShutdownWakesAll`,
  `MatchEnds`, `CallReturns`; and the half of `NobodyStuck` that is about `ENABLED`;
* induction over data: `MatchIsExact` (that the loop computes what a pattern means for
  every text);
* `LinkRestore` is a finding and proves nothing.

## 5. Plan

What is left: the steps between the models that meet only in the operations they share, first
of all the pipeline seen through its transactions as the writer of the lifecycle.

### Not modelled

* The Windows platform files offer the same operations; what they answer differently
  (reparse points, missing link privilege) appears as outcomes in `FileScanner` and
  `RestoreEngine`, their code is not followed.
* The SQLite wrapper (`database.cpp`, `statement.cpp`) binds and steps statements of an
  external library. It keeps no state that two steps of the program could disagree
  about; opening, checkpointing and closing are in `RepositoryCreation`.
* BLAKE3 and zstd: content is named by its hash, and a codec round trip is assumed.
* Path and UTF-8 handling beyond what `FileScanner` and `IgnoreRules` need, and
  `filesystem_classifier.cpp`: tables and conversions without state.
* Power loss in the destination of a restore and during a creation: the code flushes only
  in part there and no document promises more.
* The command line and desktop programs are stubs.
