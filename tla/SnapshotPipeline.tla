--------------------------- MODULE SnapshotPipeline ---------------------------
(***************************************************************************)
(* The threads of SnapshotEngine::create_snapshot between the pending row  *)
(* and its publication: scanner -> jobs -> workers -> processed -> metadata *)
(* writer, the progress thread, the calling thread that starts and joins   *)
(* them, and the user's thread that may request cancellation.              *)
(*                                                                         *)
(* The queues are what BoundedQueue provides: push and pop that wait for   *)
(* room or data and come back on closure or stop. Items are distinct and   *)
(* their order is not observable, so a queue is a set. A failure of any    *)
(* thread runs the shutdown lambda, whose steps interleave with everything *)
(* else, including other shutdowns.                                        *)
(***************************************************************************)
EXTENDS Integers, FiniteSets

CONSTANTS
    Worker,            \* worker threads
    Entry,             \* items the scanner emits
    File,              \* those that are regular files; the rest pass through
    JobCapacity,       \* job_queue_capacity_
    ResultCapacity,    \* result_queue_capacity_
    BatchLimit,        \* metadata_batch_entry_limit_
    AttemptCount,      \* 2 with retry_unstable_files, otherwise 1
    MaxFault,          \* bound: genuine errors thrown in a behaviour
    None

ASSUME FileAssumption == IsFiniteSet(Entry) /\ File \subseteq Entry
ASSUME WorkerAssumption == IsFiniteSet(Worker) /\ Worker # {}
ASSUME LimitAssumption ==
    /\ JobCapacity \in Nat \ {0} /\ ResultCapacity \in Nat \ {0}
    /\ BatchLimit \in Nat \ {0} /\ AttemptCount \in Nat \ {0}
ASSUME FaultAssumption == MaxFault \in Nat

Record == Entry \X {"entry", "warning"}
Stage == {"todo", "jobs", "processed", "batch", "committed"}
ASSUME DistinctAssumption ==
    /\ None \notin Record
    /\ Worker \cap ({"main", "scanner", "writer", "progress", "user"} \cup Stage) = {}

VARIABLES
    pc,                \* control of every thread
    started,           \* threads the calling thread has created
    registered,        \* the external stop_callback exists
    extStop,           \* the caller's stop token
    stop,              \* pipeline_stop
    firstError,        \* what first_error holds
    err,               \* the exception each thread hands to shutdown
    todo,              \* entries not yet pushed by the scanner
    jobs, jobsClosed,
    processed, processedClosed,
    hand,              \* the item a worker or the writer is working on
    attempt,           \* the worker's attempt at a file
    active,            \* active_workers
    batch,             \* records in the writer's open transaction
    committed,         \* records in committed batches
    progressStop,      \* cancel() or finish() was called on the aggregator
    outcome,           \* how create_snapshot ends
    faults             \* genuine errors so far (history, bounded)

control == <<pc, started, registered, extStop>>
errors == <<stop, firstError, err>>
queues == <<jobs, jobsClosed, processed, processedClosed>>
data == <<todo, hand, attempt, active, batch, committed>>
rest == <<progressStop, outcome, faults>>
vars == <<control, errors, queues, data, rest>>

Pool == Worker \cup {"scanner", "writer", "progress"}
Thread == Pool \cup {"main", "user"}
Holder == Worker \cup {"writer"}
Paths(R) == {r[1] : r \in R}
ShutdownStep == {"record", "request_stop", "close"}

Init ==
    /\ pc = [t \in Thread |-> IF t = "main" THEN "prepare"
                              ELSE IF t = "user" THEN "idle" ELSE "unborn"]
    /\ started = {}
    /\ registered = FALSE
    /\ extStop = FALSE
    /\ stop = FALSE
    /\ firstError = "none"
    /\ err = [t \in Thread |-> "none"]
    /\ todo = Entry
    /\ jobs = {} /\ jobsClosed = FALSE
    /\ processed = {} /\ processedClosed = FALSE
    /\ hand = [t \in Holder |-> None]
    /\ attempt = [w \in Worker |-> 0]
    /\ active = Cardinality(Worker)
    /\ batch = {} /\ committed = {}
    /\ progressStop = FALSE
    /\ outcome = "none"
    /\ faults = 0

Goto(t, label) == pc' = [pc EXCEPT ![t] = label]

-----------------------------------------------------------------------------
(* shutdown(error): what every catch handler calls *)

\* t catches e and starts the shutdown.
Raise(t, e) ==
    /\ err' = [err EXCEPT ![t] = e]
    /\ Goto(t, "record")

\* A genuine error, as opposed to the fallout of a stop request.
Fault(t) ==
    /\ faults < MaxFault
    /\ faults' = faults + 1
    /\ Raise(t, "error")

\* Mutant: the last error wins.
RecordLastError(t) ==
    /\ pc[t] = "record"
    /\ firstError' = err[t]
    /\ err' = [err EXCEPT ![t] = "none"]
    /\ Goto(t, "request_stop")
    /\ UNCHANGED <<started, registered, extStop, stop, queues, data, rest>>

RecordFirstError(t) ==
    /\ pc[t] = "record"
    /\ firstError' = IF firstError = "none" THEN err[t] ELSE firstError
    /\ err' = [err EXCEPT ![t] = "none"]
    /\ Goto(t, "request_stop")
    /\ UNCHANGED <<started, registered, extStop, stop, queues, data, rest>>

RequestStop(t) ==
    /\ pc[t] = "request_stop"
    /\ stop' = TRUE
    /\ Goto(t, "close")
    /\ UNCHANGED <<started, registered, extStop, firstError, err, queues, data, rest>>

\* Where a thread goes on after its handler.
AfterShutdown(t) ==
    CASE t \in Worker -> "retire"
      [] t = "main" -> "join_scanner"
      [] OTHER -> "exit"

\* jobs.close(), processed.close() and progress.cancel(). With the stop request
\* made, every push and pop already comes back at once, so that nobody can
\* tell these three apart.
CloseAll(t) ==
    /\ pc[t] = "close"
    /\ jobsClosed' = TRUE
    /\ processedClosed' = TRUE
    /\ progressStop' = TRUE
    /\ Goto(t, AfterShutdown(t))
    /\ UNCHANGED <<started, registered, extStop, errors, jobs, processed, data,
                   outcome, faults>>

Shutdown(t) == RecordFirstError(t) \/ RequestStop(t) \/ CloseAll(t)

\* require_push on a refused push: fallout of a stop, or a rejected item.
Refused == IF stop THEN "cancelled" ELSE "rejected"

-----------------------------------------------------------------------------
(* The scanner thread *)

ScanPush ==
    /\ pc["scanner"] = "run"
    /\ ~stop /\ ~jobsClosed
    /\ Cardinality(jobs) < JobCapacity
    /\ \E e \in todo : jobs' = jobs \cup {e} /\ todo' = todo \ {e}
    /\ UNCHANGED <<control, errors, jobsClosed, processed, processedClosed,
                   hand, attempt, active, batch, committed, rest>>

\* The scan notices the token itself, also between entries it skips, or its
\* push comes back false.
ScanRefused ==
    /\ pc["scanner"] = "run"
    /\ stop \/ (jobsClosed /\ todo # {})
    /\ Raise("scanner", Refused)
    /\ UNCHANGED <<started, registered, extStop, stop, firstError, queues, data, rest>>

ScanFault ==
    /\ pc["scanner"] = "run"
    /\ Fault("scanner")
    /\ UNCHANGED <<started, registered, extStop, stop, firstError, queues, data,
                   progressStop, outcome>>

\* mark_scan_complete, then no more jobs.
ScanDone ==
    /\ pc["scanner"] = "run"
    /\ todo = {}
    /\ jobsClosed' = TRUE
    /\ Goto("scanner", "exit")
    /\ UNCHANGED <<started, registered, extStop, errors, jobs, processed, processedClosed,
                   data, rest>>

-----------------------------------------------------------------------------
(* A worker thread *)

\* Directories, symbolic links and scan warnings go straight through.
PopJob(w) ==
    /\ pc[w] = "run"
    /\ ~stop
    /\ \E e \in jobs :
         /\ jobs' = jobs \ {e}
         /\ \/ /\ e \in File
               /\ hand' = [hand EXCEPT ![w] = <<e, "entry">>]
               /\ Goto(w, "process")
            \/ /\ e \notin File
               /\ \E k \in {"entry", "warning"} : hand' = [hand EXCEPT ![w] = <<e, k>>]
               /\ Goto(w, "push")
    /\ attempt' = [attempt EXCEPT ![w] = 0]
    /\ UNCHANGED <<started, registered, extStop, errors, jobsClosed, processed,
                   processedClosed, todo, active, batch, committed, rest>>

PopJobEnd(w) ==
    /\ pc[w] = "run"
    /\ stop \/ (jobsClosed /\ jobs = {})
    /\ Goto(w, "retire")
    /\ UNCHANGED <<started, registered, extStop, errors, queues, data, rest>>

\* Read, chunk, hash and store the file; the metadata before and after agree.
FileStable(w) ==
    /\ pc[w] = "process"
    /\ Goto(w, "push")
    /\ UNCHANGED <<started, registered, extStop, errors, queues, data, rest>>

\* Mutant: an unstable file is neither an entry nor a warning.
FileSkipped(w) ==
    /\ pc[w] = "process"
    /\ hand' = [hand EXCEPT ![w] = None]
    /\ Goto(w, "run")
    /\ UNCHANGED <<started, registered, extStop, errors, queues, todo, attempt, active,
                   batch, committed, rest>>

\* source_changed or filesystem_error while reading: one more attempt, then
\* the entry becomes a warning.
FileUnstable(w) ==
    /\ pc[w] = "process"
    /\ \/ /\ attempt[w] + 1 < AttemptCount
          /\ attempt' = [attempt EXCEPT ![w] = @ + 1]
          /\ UNCHANGED <<pc, hand>>
       \/ /\ attempt[w] + 1 >= AttemptCount
          /\ hand' = [hand EXCEPT ![w] = <<@[1], "warning">>]
          /\ Goto(w, "push")
          /\ UNCHANGED attempt
    /\ UNCHANGED <<started, registered, extStop, errors, queues, todo, active, batch,
                   committed, rest>>

\* check_cancelled, the chunker and the object store see the token.
FileCancelled(w) ==
    /\ pc[w] = "process"
    /\ stop
    /\ Raise(w, "cancelled")
    /\ UNCHANGED <<started, registered, extStop, stop, firstError, queues, data, rest>>

\* An error of its setup or of the object store, an oversized result, a
\* failing spool.
WorkerFault(w) ==
    /\ pc[w] \in {"run", "process", "push"}
    /\ Fault(w)
    /\ UNCHANGED <<started, registered, extStop, stop, firstError, queues, data,
                   progressStop, outcome>>

PushResult(w) ==
    /\ pc[w] = "push"
    /\ ~stop /\ ~processedClosed
    /\ Cardinality(processed) < ResultCapacity
    /\ processed' = processed \cup {hand[w]}
    /\ hand' = [hand EXCEPT ![w] = None]
    /\ Goto(w, "run")
    /\ UNCHANGED <<started, registered, extStop, errors, jobs, jobsClosed, processedClosed,
                   todo, attempt, active, batch, committed, rest>>

PushRefused(w) ==
    /\ pc[w] = "push"
    /\ stop \/ processedClosed
    /\ Raise(w, Refused)
    /\ UNCHANGED <<started, registered, extStop, stop, firstError, queues, data, rest>>

\* active_workers.fetch_sub(1) == 1: the last one closes the result queue.
Retire(w) ==
    /\ pc[w] = "retire"
    /\ active' = active - 1
    /\ processedClosed' = (processedClosed \/ active = 1)
    /\ Goto(w, "exit")
    /\ UNCHANGED <<started, registered, extStop, errors, jobs, jobsClosed, processed,
                   todo, hand, attempt, batch, committed, rest>>

-----------------------------------------------------------------------------
(* The metadata writer thread *)

PopResult ==
    /\ pc["writer"] = "run"
    /\ ~stop
    /\ \E r \in processed :
         /\ processed' = processed \ {r}
         /\ hand' = [hand EXCEPT !["writer"] = r]
    /\ Goto("writer", "insert")
    /\ UNCHANGED <<started, registered, extStop, errors, jobs, jobsClosed, processedClosed,
                   todo, attempt, active, batch, committed, rest>>

\* The loop ends: with a stop request the open batch is abandoned.
PopResultEnd ==
    /\ pc["writer"] = "run"
    /\ stop \/ (processedClosed /\ processed = {})
    /\ \/ stop /\ batch' = {} /\ Goto("writer", "exit")
       \/ ~stop /\ UNCHANGED batch /\ Goto("writer", "last_commit")
    /\ UNCHANGED <<started, registered, extStop, errors, queues, todo, hand, attempt,
                   active, committed, rest>>

\* The entry limit forces a commit, the byte limit may ask for one.
Insert ==
    /\ pc["writer"] = "insert"
    /\ hand["writer"][2] = "warning" \/ ~stop
    /\ batch' = batch \cup {hand["writer"]}
    /\ hand' = [hand EXCEPT !["writer"] = None]
    /\ \/ Goto("writer", "commit")
       \/ Cardinality(batch) + 1 < BatchLimit /\ Goto("writer", "run")
    /\ UNCHANGED <<started, registered, extStop, errors, queues, todo, attempt, active,
                   committed, rest>>

InsertCancelled ==
    /\ pc["writer"] = "insert"
    /\ hand["writer"][2] = "entry" /\ stop
    /\ Raise("writer", "cancelled")
    /\ batch' = {}
    /\ UNCHANGED <<started, registered, extStop, stop, firstError, queues, todo, hand,
                   attempt, active, committed, rest>>

\* Mutant: the writer ends on its own error without a shutdown.
WriterDies ==
    /\ pc["writer"] \in {"run", "insert", "commit", "last_commit"}
    /\ faults < MaxFault
    /\ faults' = faults + 1
    /\ batch' = {}
    /\ Goto("writer", "exit")
    /\ UNCHANGED <<started, registered, extStop, errors, queues, todo, hand, attempt,
                   active, committed, progressStop, outcome>>

\* A SQLite, object or injected error, BEGIN included; the transaction rolls
\* back.
WriterFault ==
    /\ pc["writer"] \in {"run", "insert", "commit", "last_commit"}
    /\ Fault("writer")
    /\ batch' = {}
    /\ UNCHANGED <<started, registered, extStop, stop, firstError, queues, todo, hand,
                   attempt, active, committed, progressStop, outcome>>

AfterCommit == IF pc["writer"] = "commit" THEN "run" ELSE "exit"

\* Mutant: nothing is left to commit once the queue has drained.
CommitBatchAtLimit ==
    /\ pc["writer"] \in {"commit", "last_commit"}
    /\ ~stop \/ batch = {}
    /\ IF pc["writer"] = "commit" THEN committed' = committed \cup batch
                                  ELSE UNCHANGED committed
    /\ batch' = {}
    /\ Goto("writer", AfterCommit)
    /\ UNCHANGED <<started, registered, extStop, errors, queues, todo, hand, attempt,
                   active, rest>>

\* commit_batch looks at the token first, but only when there are records.
CommitBatch ==
    /\ pc["writer"] \in {"commit", "last_commit"}
    /\ ~stop \/ batch = {}
    /\ committed' = committed \cup batch
    /\ batch' = {}
    /\ Goto("writer", AfterCommit)
    /\ UNCHANGED <<started, registered, extStop, errors, queues, todo, hand, attempt,
                   active, rest>>

CommitCancelled ==
    /\ pc["writer"] \in {"commit", "last_commit"}
    /\ stop /\ batch # {}
    /\ Raise("writer", "cancelled")
    /\ batch' = {}
    /\ UNCHANGED <<started, registered, extStop, stop, firstError, queues, todo, hand,
                   attempt, active, committed, rest>>

-----------------------------------------------------------------------------
(* The progress thread *)

\* The callback throws.
ProgressFault ==
    /\ pc["progress"] = "run"
    /\ Fault("progress")
    /\ UNCHANGED <<started, registered, extStop, stop, firstError, queues, data,
                   progressStop, outcome>>

ProgressEnd ==
    /\ pc["progress"] = "run"
    /\ progressStop
    /\ Goto("progress", "exit")
    /\ UNCHANGED <<started, registered, extStop, errors, queues, data, rest>>

-----------------------------------------------------------------------------
(* The user's thread: request_stop on the caller's stop source *)

Cancel ==
    /\ pc["user"] = "idle"
    /\ extStop' = TRUE
    /\ Goto("user", "callback")
    /\ UNCHANGED <<started, registered, errors, queues, data, rest>>

\* request_stop runs the callback if it is still registered.
RunCallback ==
    /\ pc["user"] = "callback"
    /\ \/ registered /\ Raise("user", "cancelled")
       \/ ~registered /\ Goto("user", "exit") /\ UNCHANGED err
    /\ UNCHANGED <<started, registered, extStop, stop, firstError, queues, data, rest>>

-----------------------------------------------------------------------------
(* The calling thread *)

\* Up to the declaration of the threads: two looks at the token around the
\* scanning event.
Prepare ==
    /\ pc["main"] = "prepare"
    /\ ~extStop
    /\ Goto("main", "register")
    /\ UNCHANGED <<started, registered, extStop, errors, queues, data, rest>>

\* The stop_callback constructor; a token already stopped runs it in place.
\* No thread is created when the pipeline has been stopped by then.
Register ==
    /\ pc["main"] = "register"
    /\ registered' = ~extStop
    /\ IF extStop THEN Raise("main", "cancelled")
                  ELSE Goto("main", "spawn") /\ UNCHANGED err
    /\ UNCHANGED <<started, extStop, stop, firstError, queues, data, rest>>

StartThreads ==
    /\ pc["main"] = "spawn"
    /\ started = {}
    /\ stop
    /\ Goto("main", "join_scanner")
    /\ UNCHANGED <<started, registered, extStop, errors, queues, data, rest>>

\* progress, writer, the workers, the scanner, in this order.
MaySpawn(t) ==
    /\ t \notin started
    /\ t = "progress" => ~stop
    /\ t # "progress" => "progress" \in started
    /\ t \notin {"progress", "writer"} => "writer" \in started
    /\ t = "scanner" => Worker \subseteq started

Spawn(t) ==
    /\ pc["main"] = "spawn"
    /\ MaySpawn(t)
    /\ started' = started \cup {t}
    /\ pc' = [pc EXCEPT ![t] = "run",
                        !["main"] = IF t = "scanner" THEN "join_scanner" ELSE "spawn"]
    /\ UNCHANGED <<registered, extStop, errors, queues, data, rest>>

\* std::jthread throws; the threads that exist are shut down and joined.
SpawnFault ==
    /\ pc["main"] = "spawn"
    /\ started # {} \/ ~stop
    /\ Fault("main")
    /\ UNCHANGED <<started, registered, extStop, stop, firstError, queues, data,
                   progressStop, outcome>>

Gone(t) == t \notin started \/ pc[t] = "exit"

JoinScanner ==
    /\ pc["main"] = "join_scanner"
    /\ Gone("scanner")
    /\ Goto("main", "join_workers")
    /\ UNCHANGED <<started, registered, extStop, errors, queues, data, rest>>

JoinWorkers ==
    /\ pc["main"] = "join_workers"
    /\ \A w \in Worker : Gone(w)
    /\ Goto("main", "join_writer")
    /\ UNCHANGED <<started, registered, extStop, errors, queues, data, rest>>

JoinWriter ==
    /\ pc["main"] = "join_writer"
    /\ Gone("writer")
    /\ progressStop' = TRUE
    /\ Goto("main", "join_progress")
    /\ UNCHANGED <<started, registered, extStop, errors, queues, data, outcome, faults>>

JoinProgress ==
    /\ pc["main"] = "join_progress"
    /\ Gone("progress")
    /\ Goto("main", "unregister")
    /\ UNCHANGED <<started, registered, extStop, errors, queues, data, rest>>

\* ~stop_callback blocks while another thread runs the callback.
Unregister ==
    /\ pc["main"] = "unregister"
    /\ pc["user"] \notin ShutdownStep
    /\ registered' = FALSE
    /\ Goto("main", "rethrow")
    /\ UNCHANGED <<started, extStop, errors, queues, data, rest>>

Finish(o) ==
    /\ outcome' = o
    /\ Goto("main", "exit")
    /\ UNCHANGED <<started, registered, extStop, errors, queues, data, progressStop>>

\* The catch handlers choose the status by the error code.
Verdict(e) == IF e = "cancelled" THEN "cancelled" ELSE "failed"

Rethrow ==
    /\ pc["main"] = "rethrow"
    /\ firstError # "none"
    /\ Finish(Verdict(firstError))
    /\ UNCHANGED faults

\* check_cancelled, around the scanning and around the finalizing event.
CheckCancelled ==
    /\ pc["main"] \in {"prepare", "rethrow", "finalize"}
    /\ firstError = "none"
    /\ extStop
    /\ Finish("cancelled")
    /\ UNCHANGED faults

Finalize ==
    /\ pc["main"] = "rethrow"
    /\ firstError = "none"
    /\ ~extStop
    /\ Goto("main", "finalize")
    /\ UNCHANGED <<started, registered, extStop, errors, queues, data, rest>>

\* The publication transaction, after the last look at the token.
Publish ==
    /\ pc["main"] = "finalize"
    /\ ~extStop
    /\ Finish("complete")
    /\ UNCHANGED faults

\* The scanning or the finalizing callback throws, or the publication
\* transaction fails.
CallerFault ==
    /\ pc["main"] \in {"prepare", "finalize"}
    /\ faults < MaxFault
    /\ faults' = faults + 1
    /\ Finish("failed")

-----------------------------------------------------------------------------
ScannerStep == ScanPush \/ ScanRefused \/ ScanDone \/ Shutdown("scanner")
WorkerStep(w) ==
    \/ PopJob(w) \/ PopJobEnd(w) \/ FileStable(w) \/ FileUnstable(w) \/ FileCancelled(w)
    \/ PushResult(w) \/ PushRefused(w) \/ Retire(w) \/ Shutdown(w)
WriterStep ==
    \/ PopResult \/ PopResultEnd \/ Insert \/ InsertCancelled
    \/ CommitBatch \/ CommitCancelled \/ Shutdown("writer")
ProgressStep == ProgressEnd \/ Shutdown("progress")
UserStep == RunCallback \/ Shutdown("user")
MainStep ==
    \/ Prepare \/ Register \/ StartThreads \/ (\E t \in Pool : Spawn(t))
    \/ JoinScanner \/ JoinWorkers \/ JoinWriter \/ JoinProgress
    \/ Unregister \/ Rethrow \/ CheckCancelled \/ Finalize \/ Publish
    \/ Shutdown("main")
FaultStep ==
    \/ ScanFault \/ WriterFault \/ ProgressFault \/ SpawnFault \/ CallerFault
    \/ \E w \in Worker : WorkerFault(w)

Next ==
    \/ ScannerStep \/ WriterStep \/ ProgressStep \/ UserStep \/ MainStep
    \/ \E w \in Worker : WorkerStep(w)
    \/ Cancel \/ FaultStep

Spec == Init /\ [][Next]_vars

-----------------------------------------------------------------------------
TypeOK ==
    /\ pc \in [Thread -> ShutdownStep \cup
                 {"unborn", "idle", "callback", "prepare", "register", "spawn", "run", "process", "push",
                  "retire", "insert", "commit", "last_commit", "join_scanner",
                  "join_workers", "join_writer", "join_progress", "unregister",
                  "rethrow", "finalize", "exit"}]
    /\ started \subseteq Pool
    /\ registered \in BOOLEAN /\ extStop \in BOOLEAN /\ stop \in BOOLEAN
    /\ firstError \in {"none", "cancelled", "error", "rejected"}
    /\ err \in [Thread -> {"none", "cancelled", "error", "rejected"}]
    /\ todo \subseteq Entry /\ jobs \subseteq Entry
    /\ jobsClosed \in BOOLEAN /\ processedClosed \in BOOLEAN
    /\ processed \subseteq Record /\ batch \subseteq Record /\ committed \subseteq Record
    /\ hand \in [Holder -> Record \cup {None}]
    /\ attempt \in [Worker -> 0..(AttemptCount - 1)]
    /\ active \in 0..Cardinality(Worker)
    /\ progressStop \in BOOLEAN
    /\ outcome \in {"none", "complete", "cancelled", "failed"}
    /\ faults \in 0..MaxFault

\* The places an entry passes on its way through the pipeline, and the entries
\* that are at each of them.
InHand(t) == IF hand[t] = None THEN {} ELSE {hand[t]}
Place == Stage \cup Holder
At(p) == CASE p = "todo" -> todo
           [] p = "jobs" -> jobs
           [] p = "processed" -> Paths(processed)
           [] p = "batch" -> Paths(batch)
           [] p = "committed" -> Paths(committed)
           [] p \in Holder -> Paths(InHand(p))
OneRecordEach(R) == \A r, q \in R : r[1] = q[1] => r = q

\* No entry is lost or doubled on its way: it is never at two places, nor twice
\* at one, and until something goes wrong it is at one.
ExactlyOnce ==
    /\ \A e \in Entry, p \in Place : e \in At(p) => \A q \in Place \ {p} : e \notin At(q)
    /\ OneRecordEach(processed) /\ OneRecordEach(batch) /\ OneRecordEach(committed)
    /\ firstError = "none" /\ faults = 0 => \A e \in Entry : \E p \in Place : e \in At(p)

\* A snapshot is published only if no thread failed, and then every scanned
\* entry is in a committed batch, although cancellation, worker exits and the
\* last partial batch race with each other (writer loop, join order, publish).
PublishedIsWhole ==
    outcome = "complete" =>
        /\ faults = 0
        /\ Paths(committed) = Entry
        /\ OneRecordEach(committed)

\* The reported verdict is the root cause and never its fallout: cancelled only
\* if the caller asked for it, failed only if something really failed, and the
\* queues never reject an item (shutdown, require_push, fetch_sub).
RootCauseReported ==
    /\ outcome = "cancelled" => extStop
    /\ outcome = "failed" => faults > 0
    /\ firstError # "rejected"

\* Nothing outlives the locals it refers to: when the calling thread leaves the
\* scope of the queues, no other thread can touch them any more.
NoUseAfterScope ==
    pc["main"] \in {"rethrow", "finalize", "exit"} =>
        /\ \A t \in Pool : Gone(t)
        /\ pc["user"] \notin ShutdownStep

\* Along the whole pipeline no entry is lost or doubled and no thread touches
\* what its creator has left behind.
PipelineInv == TypeOK /\ ExactlyOnce /\ NoUseAfterScope

\* Why these hold. The calling thread starts the threads once and joins them
\* in order, and the user's callback runs only while it is registered.
Joining == {"join_scanner", "join_workers", "join_writer", "join_progress", "unregister",
            "rethrow", "finalize"}
ThreadInv ==
    /\ \A t \in Pool : t \in started <=> pc[t] # "unborn"
    /\ pc["main"] \in {"prepare", "register"} => started = {} /\ ~registered
    /\ pc["main"] \in Joining => started = Pool \/ firstError # "none"
    /\ pc["main"] \in Joining \ {"join_scanner"} => Gone("scanner")
    /\ pc["main"] \in Joining \ {"join_scanner", "join_workers"} => \A w \in Worker : Gone(w)
    /\ pc["main"] \in {"join_progress", "unregister", "rethrow", "finalize"} => Gone("writer")
    /\ pc["main"] \in {"unregister", "rethrow", "finalize"} => Gone("progress")
    /\ pc["main"] \in {"rethrow", "finalize"} => ~registered
    /\ pc["main"] = "exit" => /\ \A t \in Pool : Gone(t)
                              /\ ~registered
    /\ pc["main"] = "exit" <=> outcome # "none"
    /\ ~registered => pc["user"] \notin ShutdownStep
    /\ pc["user"] = "callback" => extStop

\* An error is recorded before the stop it causes, so that whoever sees the stop
\* comes second.
ErrorInv ==
    /\ stop => firstError # "none"
    /\ \A t \in Thread : pc[t] = "record" <=> err[t] # "none"
    /\ \A t \in Thread : pc[t] \in {"request_stop", "close"} => firstError # "none"
    /\ \A t \in Thread : pc[t] = "close" => stop
    /\ \A t \in Thread : err[t] = "cancelled" => extStop \/ firstError # "none"
    /\ \A t \in Thread : err[t] = "error" => faults > 0
    /\ \A t \in Thread : err[t] # "rejected"
    /\ firstError = "cancelled" => extStop
    /\ firstError = "error" => faults > 0
    /\ faults > 0 => \/ firstError # "none"
                     \/ \E t \in Thread : pc[t] = "record"
                     \/ outcome = "failed"
    /\ pc["main"] = "finalize" => firstError = "none"

\* A queue is closed, and a thread behind it ends, only when nothing can come
\* any more; active_workers counts the workers that have not gone.
FlowInv ==
    /\ jobsClosed => stop \/ (pc["scanner"] = "exit" /\ todo = {})
    /\ processedClosed => stop \/ \A w \in Worker : pc[w] = "exit"
    /\ pc["scanner"] = "exit" => stop \/ (jobsClosed /\ todo = {})
    /\ \A w \in Worker : pc[w] \in {"retire", "exit"} => stop \/ (jobsClosed /\ jobs = {})
    /\ pc["writer"] = "last_commit" => stop \/ (processedClosed /\ processed = {})
    /\ pc["writer"] = "exit" => stop \/ (processedClosed /\ processed = {} /\ batch = {})
    /\ active = Cardinality({w \in Worker : pc[w] # "exit"})

\* Who holds an item, and that nobody ends with one in hand.
HandInv ==
    /\ \A w \in Worker : /\ pc[w] \in {"process", "push"} => hand[w] # None
                         /\ pc[w] \in {"unborn", "run"} => hand[w] = None
                         /\ pc[w] \in {"retire", "exit"} => stop \/ hand[w] = None
    /\ pc["writer"] = "insert" => hand["writer"] # None
    /\ pc["writer"] \in {"unborn", "run", "commit", "last_commit"} => hand["writer"] = None
    /\ pc["writer"] = "exit" => stop \/ hand["writer"] = None

IndInv ==
    /\ PipelineInv /\ RootCauseReported /\ PublishedIsWhole
    /\ ThreadInv /\ ErrorInv /\ FlowInv /\ HandInv

\* What each thread needs to go on: a push needs room or a reason to be refused,
\* a pop an item or a reason to give up, a join the end of the thread it waits for.
ScannerGoes ==
    /\ pc["scanner"] = "run"
    /\ stop \/ jobsClosed \/ todo = {} \/ Cardinality(jobs) < JobCapacity
WorkerGoes(w) ==
    \/ pc[w] \in {"process", "retire"}
    \/ pc[w] = "run" /\ (stop \/ jobsClosed \/ jobs # {})
    \/ pc[w] = "push" /\ (stop \/ processedClosed \/ Cardinality(processed) < ResultCapacity)
WriterGoes ==
    \/ pc["writer"] \in {"insert", "commit", "last_commit"}
    \/ pc["writer"] = "run" /\ (stop \/ processedClosed \/ processed # {})
MainGoes ==
    \/ pc["main"] \in {"prepare", "finalize"} /\ (~extStop \/ firstError = "none")
    \/ pc["main"] \in {"register", "rethrow"}
    \/ pc["main"] = "spawn" /\ ((started = {} /\ stop) \/ \E t \in Pool : MaySpawn(t))
    \/ pc["main"] = "join_scanner" /\ Gone("scanner")
    \/ pc["main"] = "join_workers" /\ \A w \in Worker : Gone(w)
    \/ pc["main"] = "join_writer" /\ Gone("writer")
    \/ pc["main"] = "join_progress" /\ Gone("progress")
    \/ pc["main"] = "unregister" /\ pc["user"] \notin ShutdownStep
Goes(t) ==
    \/ pc[t] \in ShutdownStep
    \/ t = "scanner" /\ ScannerGoes
    \/ t \in Worker /\ WorkerGoes(t)
    \/ t = "writer" /\ WriterGoes
    \/ t = "progress" /\ pc[t] = "run" /\ progressStop
    \/ t = "user" /\ pc[t] = "callback"
    \/ t = "main" /\ MainGoes

\* Until create_snapshot returns some thread has what it needs: the queues, the
\* joins, the stop callback and the shutdowns never wait for each other in a circle.
SomeoneGoes == outcome = "none" => \E t \in Thread : Goes(t)

\* create_snapshot returns whatever fails, in whatever order: until it has, some
\* thread has what it needs, and whoever has it can take a step, without the user's
\* help. So none is left blocked on a full or empty queue whose other side has gone,
\* and no join waits for ever. No step can be repeated without end: entries, attempts
\* and threads are finite.
NobodyStuck ==
    /\ SomeoneGoes
    /\ Goes("scanner") => ENABLED ScannerStep
    /\ Goes("writer") => ENABLED WriterStep
    /\ Goes("progress") => ENABLED ProgressStep
    /\ Goes("user") => ENABLED UserStep
    /\ Goes("main") => ENABLED MainStep
    /\ \A w \in Worker : Goes(w) => ENABLED WorkerStep(w)

=============================================================================
