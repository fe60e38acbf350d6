------------------------- MODULE ProgressAggregator -------------------------
(***************************************************************************)
(* ProgressAggregator: the counters every pipeline thread updates, the     *)
(* progress thread that turns them into events for the user's callback,    *)
(* and the limit on events per second, which must never cost the user one  *)
(* of the events that announce a phase.                                    *)
(*                                                                         *)
(* Each access to an atomic counter and each stay under state_mutex_ is a  *)
(* step of its own, and so are reading the clock and calling the callback. *)
(* The pipeline is reduced to what it tells the aggregator. The chunk      *)
(* counters behave as the processed bytes do and are left out, like paths. *)
(***************************************************************************)
EXTENDS Integers, FiniteSets

CONSTANTS
    Worker,        \* worker threads
    Sizes,         \* bytes of an entry
    MaxEntry,      \* bound: entries the scan finds
    Second,        \* ticks of the clock in one second
    MaxTime,       \* bound: last tick
    MaxEvents,     \* events per second, 10
    MaxOrdinary    \* of which ordinary ones, 4

\* The six events of a snapshot that must reach the user: those of the
\* calling thread, the end of the scan, and the first write.
RequiredLabel ==
    {"preparing", "scanning", "scanned", "writing", "finalizing", "complete"}

ASSUME WorkerAssumption == IsFiniteSet(Worker)
ASSUME SizesAssumption == Sizes \subseteq Nat
ASSUME BoundAssumption == MaxEntry \in Nat /\ MaxTime \in Nat /\ Second \in Nat \ {0}
\* 4 + 6 <= 10: what makes the limit safe for the required events.
ASSUME LimitAssumption ==
    /\ MaxOrdinary \in Nat
    /\ MaxEvents \in Nat
    /\ MaxOrdinary + 6 <= MaxEvents

VARIABLES
    count,           \* the atomic counters
    flag,            \* what state_mutex_ protects
    writingEmitted,  \* writing_phase_emitted_
    emissions,       \* emissions_, each with its number
    clock,           \* clock_()
    scanner,         \* label of the scanner thread
    worker,          \* labels of the worker threads
    queued,          \* entries pushed and not yet taken
    progress,        \* label of the progress thread
    tookScan,        \* scan_completion in this round of run()
    caller,          \* label of the thread in create_snapshot
    shutdown,        \* none; recorded: first_error is set; done
    call,            \* the emit() under way and the event it puts together
    seen             \* history: events admitted, the last one delivered, the
                     \* required labels delivered and dropped, and for every
                     \* tick the events delivered in the second that it begins

workers == <<scanner, worker, queued>>
vars == <<count, flag, writingEmitted, emissions, clock, workers, progress, tookScan,
          caller, shutdown, call, seen>>

Absent == -1
NoEvent == [phase |-> "none", discovered |-> 0, processed |-> 0, bytes |-> 0,
            total |-> Absent, totalBytes |-> Absent]
NoCall == [label |-> "none", required |-> FALSE, step |-> "idle", event |-> NoEvent]

Init ==
    /\ count = [discovered |-> 0, discoveredBytes |-> 0, processed |-> 0, processedBytes |-> 0]
    /\ flag = [dirty |-> FALSE, finished |-> FALSE, cancelled |-> FALSE,
               scanComplete |-> FALSE, scanPending |-> FALSE]
    /\ writingEmitted = FALSE
    /\ emissions = {}
    /\ clock = 0
    /\ scanner = "unborn" /\ worker = [w \in Worker |-> "unborn"] /\ queued = 0
    /\ progress = "unborn" /\ tookScan = FALSE
    /\ caller = "start" /\ shutdown = "none"
    /\ call = NoCall
    /\ seen = [issued |-> 0, last |-> NoEvent, sent |-> {}, lost |-> {},
               within |-> [from \in 0..MaxTime |-> 0]]

\* state_changed_.notify_one(): only the progress thread waits on it.
NotifyOne == progress' = IF progress = "asleep" THEN "wait" ELSE progress

Tick ==
    /\ clock < MaxTime
    /\ clock' = clock + 1
    /\ UNCHANGED <<count, flag, writingEmitted, emissions, workers, progress, tookScan,
                   caller, shutdown, call, seen>>

-----------------------------------------------------------------------------
(* emit(): run by the calling thread, or by the progress thread while the  *)
(* calling thread waits for it.                                            *)

EmitFrame == UNCHANGED <<count, flag, writingEmitted, clock, workers, tookScan>>

Emit(label, phase, required) ==
    call' = [label |-> label, required |-> required, step |-> "throttle",
             event |-> [NoEvent EXCEPT !.phase = phase]]

\* emit() returns to the thread that called it.
AfterEmit ==
    /\ call' = NoCall
    /\ IF progress = "emit"
         THEN progress' = "wait" /\ UNCHANGED caller
         ELSE /\ caller' = CASE call.label = "preparing" -> "prepared"
                             [] call.label = "scanning" -> "spawn"
                             [] call.label = "finalizing" -> "publish"
                             [] call.label = "complete" -> "returned"
              /\ UNCHANGED progress

\* The label of a required event, for the history.
Announced == IF call.required THEN {call.label} ELSE {}

\* emissions_ once those a second or more old are popped.
Recent == {e \in emissions : clock - e.time < Second}

\* Mutant: the ordinary events have no limit of their own.
AdmitsAny(required) == Cardinality(Recent) < MaxEvents

Admits(required) ==
    /\ Cardinality(Recent) < MaxEvents
    /\ required \/ Cardinality({e \in Recent : ~e.required}) < MaxOrdinary

Admit ==
    /\ call.step = "throttle"
    /\ Admits(call.required)
    /\ emissions' = Recent \cup
                      {[n |-> seen.issued, time |-> clock, required |-> call.required]}
    /\ seen' = [seen EXCEPT !.issued = @ + 1]
    /\ call' = [call EXCEPT !.step = "flag"]
    /\ UNCHANGED <<progress, caller, shutdown>>
    /\ EmitFrame

Drop ==
    /\ call.step = "throttle"
    /\ ~Admits(call.required)
    /\ emissions' = Recent
    /\ seen' = [seen EXCEPT !.lost = @ \cup Announced]
    /\ AfterEmit
    /\ UNCHANGED shutdown
    /\ EmitFrame

\* event(): scan_complete_ under the mutex, then one counter after another.
LoadStep(step, next, loaded) ==
    /\ call.step = step
    /\ call' = [call EXCEPT !.step = next, !.event = loaded]
    /\ UNCHANGED <<emissions, progress, caller, shutdown, seen>>
    /\ EmitFrame

LoadFlag == LoadStep("flag", "discovered",
    [call.event EXCEPT !.total = IF flag.scanComplete THEN 0 ELSE Absent])
LoadDiscovered ==
    LoadStep("discovered", "processed", [call.event EXCEPT !.discovered = count.discovered])
LoadProcessed ==
    LoadStep("processed", "bytes", [call.event EXCEPT !.processed = count.processed])
LoadBytes ==
    LoadStep("bytes", "totals", [call.event EXCEPT !.bytes = count.processedBytes])
LoadTotals == LoadStep("totals", "callback",
    IF call.event.total = Absent THEN call.event
    ELSE [call.event EXCEPT !.total = count.discovered, !.totalBytes = count.discoveredBytes])

\* The clock is in the second that begins at a tick.
InSecond(from) == from <= clock /\ clock < from + Second

\* The callback runs once more in each of those seconds.
OneMoreNow ==
    [from \in 0..MaxTime |-> seen.within[from] + (IF InSecond(from) THEN 1 ELSE 0)]

\* callback_(event): it sees the event and returns, or throws. A throw is a fatal
\* pipeline error on the progress thread and ends the snapshot on the calling
\* thread, unless that is published already.
Deliver ==
    /\ call.step = "callback"
    /\ seen' = [seen EXCEPT !.last = call.event, !.sent = @ \cup Announced,
                            !.within = OneMoreNow]
    /\ \/ AfterEmit /\ UNCHANGED shutdown
       \/ /\ call' = NoCall
          /\ IF progress = "emit"
               THEN /\ progress' = "done"
                    /\ shutdown' = IF shutdown = "none" THEN "recorded" ELSE shutdown
                    /\ UNCHANGED caller
               ELSE /\ caller' = IF call.label = "complete" THEN "returned" ELSE "failed"
                    /\ UNCHANGED <<progress, shutdown>>
    /\ UNCHANGED emissions
    /\ EmitFrame

-----------------------------------------------------------------------------
(* The scanner and the workers *)

CounterFrame == UNCHANGED <<writingEmitted, emissions, clock, tookScan, caller, shutdown,
                            call, seen>>

\* notify(): dirty_ under the mutex, then notify_one.
Notify == flag' = [flag EXCEPT !.dirty = TRUE] /\ NotifyOne

\* record_discovered: two additions, then notify(); the entry is pushed after it.
DiscoverEntry ==
    /\ scanner = "scan" /\ count.discovered < MaxEntry
    /\ count' = [count EXCEPT !.discovered = @ + 1]
    /\ scanner' = "bytes"
    /\ UNCHANGED <<flag, worker, queued, progress>>
    /\ CounterFrame

DiscoverBytes ==
    /\ scanner = "bytes"
    /\ \E size \in Sizes : count' = [count EXCEPT !.discoveredBytes = @ + size]
    /\ scanner' = "notify"
    /\ UNCHANGED <<flag, worker, queued, progress>>
    /\ CounterFrame

NotifyDiscovered ==
    /\ scanner = "notify"
    /\ Notify
    /\ scanner' = "push"
    /\ UNCHANGED <<count, worker, queued>>
    /\ CounterFrame

PushEntry ==
    /\ scanner = "push"
    /\ queued' = queued + 1
    /\ scanner' = "scan"
    /\ UNCHANGED <<count, flag, worker, progress>>
    /\ CounterFrame

MarkScanComplete ==
    /\ scanner = "scan" /\ count.discovered > 0 \* the root at least
    /\ flag' = [flag EXCEPT !.scanComplete = TRUE, !.scanPending = TRUE, !.dirty = TRUE]
    /\ NotifyOne
    /\ scanner' = "done"
    /\ UNCHANGED <<count, worker, queued>>
    /\ CounterFrame

WorkerMoves(w, from, to) ==
    /\ worker[w] = from
    /\ worker' = [worker EXCEPT ![w] = to]
    /\ UNCHANGED scanner
    /\ CounterFrame

\* A worker takes an entry; one that ends as a warning is not counted.
TakeEntry(w) ==
    /\ queued > 0
    /\ queued' = queued - 1
    /\ WorkerMoves(w, "pop", "entries") \/ WorkerMoves(w, "pop", "pop")
    /\ UNCHANGED <<count, flag, progress>>

\* record_processed: additions, then notify(). The size is that of the stable
\* read, not the one the scan saw.
ProcessEntry(w) ==
    /\ WorkerMoves(w, "entries", "bytes")
    /\ count' = [count EXCEPT !.processed = @ + 1]
    /\ UNCHANGED <<flag, queued, progress>>

ProcessBytes(w) ==
    /\ WorkerMoves(w, "bytes", "notify")
    /\ \E size \in Sizes : count' = [count EXCEPT !.processedBytes = @ + size]
    /\ UNCHANGED <<flag, queued, progress>>

NotifyProcessed(w) ==
    /\ WorkerMoves(w, "notify", "pop")
    /\ Notify
    /\ UNCHANGED <<count, queued>>

\* The job queue is closed and empty, or shutdown() has been called.
WorkerEnds(w) ==
    /\ (queued = 0 /\ scanner = "done") \/ shutdown # "none"
    /\ WorkerMoves(w, "pop", "done")
    /\ UNCHANGED <<count, flag, queued, progress>>

-----------------------------------------------------------------------------
(* shutdown(): an error or a cancellation, in any thread *)

\* Somewhere between the start of the first thread and the last join.
Fail ==
    /\ caller \in {"join", "joinProgress"} /\ shutdown = "none"
    /\ shutdown' = "recorded"
    /\ UNCHANGED <<count, flag, writingEmitted, emissions, clock, workers, tookScan, progress,
                   caller, call, seen>>

\* The stop request and the closed queues come first, cancel() last.
Cancel ==
    /\ shutdown = "recorded"
    /\ shutdown' = "done"
    /\ flag' = [flag EXCEPT !.cancelled = TRUE]
    /\ NotifyOne
    /\ UNCHANGED <<count, writingEmitted, emissions, clock, workers, tookScan, caller, call, seen>>

\* The scanner sees the stop request or a refused push.
ScannerStops ==
    /\ shutdown # "none"
    /\ scanner \in {"scan", "push"}
    /\ scanner' = "done"
    /\ UNCHANGED <<count, flag, worker, queued, progress>>
    /\ CounterFrame

-----------------------------------------------------------------------------
(* run(), the progress thread *)

RunFrame == UNCHANGED <<count, emissions, clock, workers, caller, shutdown, seen>>

RunGoes(label) == progress' = label /\ UNCHANGED <<flag, tookScan>>
RunTakes ==
    /\ progress' = "decide"
    /\ tookScan' = flag.scanPending
    /\ flag' = [flag EXCEPT !.scanPending = FALSE, !.dirty = FALSE]

\* Mutant: finish() ends the thread although something is left to report.
RunLockedHasty ==
    \/ (flag.cancelled \/ flag.finished) /\ RunGoes("done")
    \/ ~flag.cancelled /\ ~flag.finished /\ flag.dirty /\ RunTakes
    \/ ~flag.cancelled /\ ~flag.finished /\ ~flag.dirty /\ RunGoes("asleep")

\* The wait with its predicate, and what follows under the mutex.
RunLocked ==
    \/ flag.cancelled /\ RunGoes("done")
    \/ ~flag.cancelled /\ flag.dirty /\ RunTakes
    \/ ~flag.cancelled /\ ~flag.dirty /\ flag.finished /\ RunGoes("done")
    \/ ~flag.cancelled /\ ~flag.dirty /\ ~flag.finished /\ RunGoes("asleep")

RunWait ==
    /\ progress = "wait"
    /\ RunLocked
    /\ UNCHANGED <<writingEmitted, call>>
    /\ RunFrame

SpuriousWakeup ==
    /\ progress = "asleep"
    /\ RunGoes("wait")
    /\ UNCHANGED <<writingEmitted, call>>
    /\ RunFrame

\* has_processed and the phase it stands for.
HasProcessed == count.processed > 0
Phase == IF HasProcessed THEN "writing_metadata" ELSE "scanning"

\* Mutant: the end of the scan is always announced as scanning.
ChooseScanningAtEnd ==
    IF tookScan THEN Emit("scanned", "scanning", TRUE)
    ELSE IF HasProcessed /\ ~writingEmitted THEN Emit("writing", Phase, TRUE)
    ELSE Emit("none", Phase, FALSE)

Choose ==
    IF tookScan THEN Emit("scanned", Phase, TRUE)
    ELSE IF HasProcessed /\ ~writingEmitted THEN Emit("writing", Phase, TRUE)
    ELSE Emit("none", Phase, FALSE)

\* writing_phase_emitted_ is set after the event in the code; nobody else reads it.
RunDecide ==
    /\ progress = "decide"
    /\ Choose
    /\ writingEmitted' = (writingEmitted \/ HasProcessed)
    /\ RunGoes("emit")
    /\ RunFrame

-----------------------------------------------------------------------------
(* create_snapshot, the calling thread *)

CallerFrame == UNCHANGED <<count, writingEmitted, emissions, clock, tookScan, shutdown, seen>>

CallerEmits(from, label) ==
    /\ caller = from
    /\ caller' = "emitting"
    /\ Emit(label, label, TRUE)
    /\ UNCHANGED <<flag, workers, progress>>
    /\ CallerFrame

CallerMoves(from, to) ==
    /\ caller = from
    /\ caller' = to
    /\ UNCHANGED call
    /\ CallerFrame

Preparing == CallerEmits("start", "preparing")
Scanning == CallerEmits("prepared", "scanning")

StartThreads ==
    /\ CallerMoves("spawn", "join")
    /\ progress' = "wait"
    /\ scanner' = "scan"
    /\ worker' = [w \in Worker |-> "pop"]
    /\ UNCHANGED <<flag, queued>>

\* Mutant: finish() wakes nobody.
FinishQuietly ==
    /\ scanner = "done" /\ \A w \in Worker : worker[w] = "done"
    /\ CallerMoves("join", "joinProgress")
    /\ flag' = [flag EXCEPT !.finished = TRUE]
    /\ UNCHANGED <<workers, progress>>

\* The scanner and the workers are joined, then finish().
Finish ==
    /\ scanner = "done" /\ \A w \in Worker : worker[w] = "done"
    /\ CallerMoves("join", "joinProgress")
    /\ flag' = [flag EXCEPT !.finished = TRUE]
    /\ NotifyOne
    /\ UNCHANGED workers

\* The progress thread is joined, the stop callback gone; first_error decides.
LeaveScope ==
    /\ progress = "done"
    /\ shutdown # "recorded"
    /\ CallerMoves("joinProgress", IF shutdown = "none" THEN "verdict" ELSE "failed")
    /\ UNCHANGED <<flag, workers, progress>>

Finalizing == CallerEmits("verdict", "finalizing")
Publish == CallerMoves("publish", "published") /\ UNCHANGED <<flag, workers, progress>>
Complete == CallerEmits("published", "complete")

\* A cancellation seen, or an error, between the events of the calling thread.
CallerFails ==
    /\ \E from \in {"start", "prepared", "spawn", "verdict", "publish"} :
         CallerMoves(from, "failed")
    /\ UNCHANGED <<flag, workers, progress>>

EmitStep ==
    \/ Admit \/ Drop \/ Deliver
    \/ LoadFlag \/ LoadDiscovered \/ LoadProcessed \/ LoadBytes \/ LoadTotals
ScannerStep ==
    \/ DiscoverEntry \/ DiscoverBytes \/ NotifyDiscovered \/ PushEntry
    \/ MarkScanComplete \/ ScannerStops
WorkerStep(w) ==
    TakeEntry(w) \/ ProcessEntry(w) \/ ProcessBytes(w) \/ NotifyProcessed(w) \/ WorkerEnds(w)
ProgressStep == RunWait \/ RunDecide
CallerStep ==
    \/ Preparing \/ Scanning \/ StartThreads \/ Finish \/ LeaveScope
    \/ Finalizing \/ Publish \/ Complete

Next ==
    \/ Tick \/ EmitStep \/ ScannerStep \/ (\E w \in Worker : WorkerStep(w))
    \/ ProgressStep \/ SpuriousWakeup \/ CallerStep \/ CallerFails \/ Fail \/ Cancel

Spec == Init /\ [][Next]_vars

\* Threads run, the user's callback returns, a shutdown begun is completed.
FairSpec ==
    /\ Spec
    /\ WF_vars(EmitStep) /\ WF_vars(ScannerStep) /\ WF_vars(ProgressStep)
    /\ WF_vars(CallerStep) /\ WF_vars(Cancel)
    /\ \A w \in Worker : WF_vars(WorkerStep(w))

-----------------------------------------------------------------------------
(* Properties *)

Phases == {"none", "preparing", "scanning", "writing_metadata", "finalizing", "complete"}
Event == [phase : Phases, discovered : Nat, processed : Nat, bytes : Nat,
          total : Nat \cup {Absent}, totalBytes : Nat \cup {Absent}]

\* Every variable keeps its type.
TypeOK ==
    /\ count \in [discovered : Nat, discoveredBytes : Nat, processed : Nat, processedBytes : Nat]
    /\ flag \in [dirty : BOOLEAN, finished : BOOLEAN, cancelled : BOOLEAN,
                 scanComplete : BOOLEAN, scanPending : BOOLEAN]
    /\ writingEmitted \in BOOLEAN /\ tookScan \in BOOLEAN
    /\ emissions \subseteq [n : Nat, time : 0..MaxTime, required : BOOLEAN]
    /\ clock \in 0..MaxTime
    /\ scanner \in {"unborn", "scan", "bytes", "notify", "push", "done"}
    /\ worker \in [Worker -> {"unborn", "pop", "entries", "bytes", "notify", "done"}]
    /\ queued \in Nat
    /\ progress \in {"unborn", "wait", "asleep", "decide", "emit", "done"}
    /\ caller \in {"start", "emitting", "prepared", "spawn", "join", "joinProgress", "verdict",
                   "publish", "published", "returned", "failed"}
    /\ shutdown \in {"none", "recorded", "done"}
    /\ call \in [label : RequiredLabel \cup {"none"}, required : BOOLEAN, event : Event,
                 step : {"idle", "throttle", "flag", "discovered", "processed", "bytes",
                         "totals", "callback"}]
    /\ seen \in [issued : Nat, last : Event, sent : SUBSET RequiredLabel,
                 lost : SUBSET RequiredLabel, within : [0..MaxTime -> Nat]]

\* The limit never drops one of the events that announce a phase: however fast
\* entries come in, the four ordinary events of a second leave room for all six
\* (emit).
RequiredNeverDropped == seen.lost = {}

\* The user's callback runs at most MaxEvents times in any second, by the time
\* it is called and not by the earlier time emit() recorded.
RateBounded == \A from \in 0..MaxTime : seen.within[from] <= MaxEvents

PhaseOrder == [none |-> 0, preparing |-> 1, scanning |-> 2, writing_metadata |-> 3,
               finalizing |-> 4, complete |-> 5]

\* Events never go backwards: counters only grow from one event to the next,
\* the phase advances, and totals once shown stay as they are, although an event
\* is put together from counters that change meanwhile (event).
EventsMonotone ==
    [][LET old == seen.last
           new == seen'.last
       IN /\ PhaseOrder[old.phase] <= PhaseOrder[new.phase]
          /\ old.discovered <= new.discovered
          /\ old.processed <= new.processed
          /\ old.bytes <= new.bytes
          /\ old.total # Absent =>
               new.total = old.total /\ new.totalBytes = old.totalBytes]_vars

\* Totals appear only once the scan is over, and then an event is consistent in
\* itself: what it calls processed lies within what it calls the total (event).
TotalsExact ==
    seen.last.total # Absent =>
        /\ scanner = "done"
        /\ seen.last.total = count.discovered
        /\ seen.last.totalBytes = count.discoveredBytes
        /\ seen.last.discovered = seen.last.total
        /\ seen.last.processed <= seen.last.total

\* The events of a finished pipeline show everything it did, and the end of the
\* scan has been announced by then (run, finish).
FinalEventExact ==
    seen.last.phase \in {"finalizing", "complete"} =>
        /\ seen.last.processed = count.processed
        /\ seen.last.bytes = count.processedBytes
        /\ seen.last.total = count.discovered
        /\ {"preparing", "scanning", "scanned"} \subseteq seen.sent

\* A failed or cancelled pipeline never reports that it is complete
\* (create_snapshot).
FailureNeverComplete == shutdown # "none" => "complete" \notin seen.sent

\* The progress thread ends once it is told to, so that the join after it
\* returns and the call with it (run, finish, cancel).
CallReturns == <>(caller \in {"returned", "failed"})

\* The limit is kept and never costs the user an event that announces a phase.
LimitKept == RequiredNeverDropped /\ RateBounded

\* The events tell the truth about the pipeline, to the last one.
EventsConsistent == TypeOK /\ TotalsExact /\ FinalEventExact /\ FailureNeverComplete

\* Why these hold. One thread emits at a time: the calling thread, or the progress
\* thread while the calling thread waits to join it.
Joining == {"join", "joinProgress"}
OwnEvents == {"preparing", "scanning", "finalizing", "complete"}
CallInv ==
    /\ call.step = "idle" => call = NoCall
    /\ call.step # "idle" <=> caller = "emitting" \/ progress = "emit"
    /\ caller = "emitting" =>
         call.required /\ call.label \in OwnEvents /\ call.event.phase = call.label
    /\ progress = "emit" =>
         /\ call.required <=> call.label # "none"
         /\ call.label \in {"none", "scanned", "writing"}
         /\ call.event.phase \in {"scanning", "writing_metadata"}

\* How far the calling thread is tells what the others can be doing.
Early == caller \in {"start", "prepared", "spawn"}
         \/ (caller = "emitting" /\ call.label \in {"preparing", "scanning"})
Late == caller \in {"verdict", "publish", "published"}
        \/ (caller = "emitting" /\ call.label \in {"finalizing", "complete"})
StageInv ==
    /\ Early => /\ scanner = "unborn" /\ shutdown = "none" /\ queued = 0
                /\ count.discovered = 0 /\ count.processed = 0
                /\ \A w \in Worker : worker[w] = "unborn"
                /\ ~flag.scanComplete /\ ~flag.finished
    /\ progress = "unborn" <=> scanner = "unborn"
    /\ progress \in {"wait", "asleep", "decide", "emit"} => caller \in Joining
    /\ caller \in Joining => scanner # "unborn"
    /\ scanner \in {"scan", "bytes", "notify", "push"} => caller = "join"
    /\ \A w \in Worker : worker[w] \notin {"unborn", "done"} => caller = "join"
    /\ shutdown # "none" => caller \in Joining \cup {"failed"}
    /\ Late => flag.finished /\ progress = "done" /\ shutdown = "none"

\* What has been announced of the end of the scan and of the shutdown.
Taken == progress = "decide" /\ tookScan
FlagInv ==
    /\ flag.scanPending => flag.dirty /\ flag.scanComplete
    /\ flag.scanComplete => scanner = "done"
    /\ scanner = "done" /\ shutdown = "none" => flag.scanComplete
    /\ flag.cancelled => shutdown = "done"
    /\ flag.finished => scanner = "done" /\ caller # "join"
    /\ progress = "done" /\ shutdown = "none" => flag.finished /\ ~flag.scanPending

\* Every required event is emitted once, and the end of the scan not forgotten.
OnceInv ==
    /\ flag.scanComplete <=>
         flag.scanPending \/ Taken \/ call.label = "scanned" \/ "scanned" \in seen.sent
    /\ flag.scanPending => ~Taken /\ call.label # "scanned" /\ "scanned" \notin seen.sent
    /\ Taken \/ call.label = "scanned" => "scanned" \notin seen.sent
    /\ call.label = "writing" \/ "writing" \in seen.sent => writingEmitted
    /\ call.label = "writing" => "writing" \notin seen.sent
    /\ caller = "start" => seen.sent = {}
    /\ caller = "prepared" => seen.sent = {"preparing"}
    /\ caller = "spawn" => seen.sent = {"preparing", "scanning"}
    /\ caller = "emitting" /\ call.label = "preparing" => seen.sent = {}
    /\ caller = "emitting" /\ call.label = "scanning" => seen.sent = {"preparing"}
    /\ caller \in Joining \/ Late => {"preparing", "scanning"} \subseteq seen.sent
    /\ caller \in Joining \cup {"verdict"} => seen.sent \cap {"finalizing", "complete"} = {}
    /\ caller = "emitting" /\ call.label = "finalizing" => seen.sent \cap {"finalizing", "complete"} = {}
    /\ "complete" \in seen.sent => caller = "returned"

\* The window: few ordinary events, and required ones only for labels used up.
Admitted == seen.sent \cup (IF call.step \in {"idle", "throttle"} THEN {} ELSE Announced)
LimitInv ==
    /\ IsFiniteSet(emissions)
    /\ Cardinality({e \in emissions : ~e.required}) <= MaxOrdinary
    /\ Cardinality({e \in emissions : e.required}) <= Cardinality(Admitted)

\* The second under way, wherever it begins: each event delivered in it, and the
\* one on its way to the callback, is an ordinary emission of that second or a
\* required label used up. An event admitted before the second begins counts
\* against the required label that was first of all.
Pending == IF call.step \in {"idle", "throttle"} THEN 0 ELSE 1
OrdinarySince(from) == {e \in emissions : ~e.required /\ from <= e.time}
SecondInv ==
    /\ \A e \in emissions : e.n < seen.issued
    /\ \A from \in 0..MaxTime :
         /\ clock < from => seen.within[from] = 0
         /\ InSecond(from) =>
              seen.within[from] + Pending
                  <= Cardinality(OrdinarySince(from)) + Cardinality(Admitted)

\* Entries are counted as discovered before they can be processed.
FlowInv ==
    count.processed + queued + Cardinality({w \in Worker : worker[w] = "entries"})
        + (IF scanner \in {"bytes", "notify", "push"} THEN 1 ELSE 0) <= count.discovered

\* What the event under way, and the last one, know of the counters.
Fits(e) ==
    /\ e.discovered <= count.discovered
    /\ e.processed <= count.processed
    /\ e.bytes <= count.processedBytes
Whole(e) ==
    /\ e.total = count.discovered /\ e.totalBytes = count.discoveredBytes
    /\ e.discovered = count.discovered
LoadedDiscovered == call.step \in {"processed", "bytes", "totals", "callback"}
LoadedProcessed == call.step \in {"bytes", "totals", "callback"}
LoadedBytes == call.step \in {"totals", "callback"}
EventInv ==
    /\ Fits(seen.last)
    /\ seen.last.total # Absent => flag.scanComplete /\ Whole(seen.last)
    /\ seen.last.phase = "writing_metadata" => count.processed > 0
    /\ call.event.phase = "writing_metadata" => count.processed > 0
    /\ Fits(call.event)
    /\ call.step \in {"idle", "throttle", "flag"} => call.event.total = Absent
    /\ call.event.total # Absent => flag.scanComplete
    /\ call.step \notin {"idle", "throttle", "flag"} =>
         (seen.last.total # Absent \/ Late => call.event.total # Absent)
    /\ LoadedDiscovered =>
         /\ seen.last.discovered <= call.event.discovered
         /\ call.event.total # Absent => call.event.discovered = count.discovered
    /\ LoadedProcessed =>
         /\ seen.last.processed <= call.event.processed
         /\ Late => call.event.processed = count.processed
    /\ LoadedBytes =>
         /\ seen.last.bytes <= call.event.bytes
         /\ Late => call.event.bytes = count.processedBytes
    /\ call.step = "callback" /\ call.event.total # Absent => Whole(call.event)

\* Phases come in order.
PhaseInv ==
    LET last == PhaseOrder[seen.last.phase]
    IN /\ caller = "start" => last = 0
       /\ caller = "prepared" => last <= 1
       /\ caller = "spawn" => last <= 2
       /\ caller \in Joining \cup {"verdict"} => last <= 3
       /\ caller \in {"publish", "published"} => last <= 4
       /\ call.step # "idle" => last <= PhaseOrder[call.event.phase]

IndInv ==
    /\ EventsConsistent /\ LimitKept
    /\ CallInv /\ StageInv /\ FlagInv /\ OnceInv /\ LimitInv /\ SecondInv
    /\ FlowInv /\ EventInv /\ PhaseInv

=============================================================================
