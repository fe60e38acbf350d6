---------------------- MODULE ProgressAggregator_proofs ----------------------
(***************************************************************************)
(* Proofs about ProgressAggregator, for any number of workers and entries, *)
(* all sizes and every limit that leaves room for the six required events. *)
(***************************************************************************)
EXTENDS ProgressAggregator, FiniteSetTheorems, TLAPS

-----------------------------------------------------------------------------
(* Types *)

\* The type invariant in three parts: the counters and what the mutex protects,
\* the threads, and the events.
CountTypes ==
    /\ count \in [discovered : Nat, discoveredBytes : Nat, processed : Nat, processedBytes : Nat]
    /\ flag \in [dirty : BOOLEAN, finished : BOOLEAN, cancelled : BOOLEAN,
                 scanComplete : BOOLEAN, scanPending : BOOLEAN]
    /\ clock \in 0..MaxTime
    /\ queued \in Nat
ThreadTypes ==
    /\ writingEmitted \in BOOLEAN /\ tookScan \in BOOLEAN
    /\ scanner \in {"unborn", "scan", "bytes", "notify", "push", "done"}
    /\ worker \in [Worker -> {"unborn", "pop", "entries", "bytes", "notify", "done"}]
    /\ progress \in {"unborn", "wait", "asleep", "decide", "emit", "done"}
    /\ caller \in {"start", "emitting", "prepared", "spawn", "join", "joinProgress", "verdict",
                   "publish", "published", "returned", "failed"}
    /\ shutdown \in {"none", "recorded", "done"}
CallTypes ==
    call \in [label : RequiredLabel \cup {"none"}, required : BOOLEAN, event : Event,
              step : {"idle", "throttle", "flag", "discovered", "processed", "bytes",
                      "totals", "callback"}]
SeenTypes ==
    seen \in [issued : Nat, last : Event, sent : SUBSET RequiredLabel,
              lost : SUBSET RequiredLabel, within : [0..MaxTime -> Nat]]
EmissionTypes == emissions \subseteq [n : Nat, time : 0..MaxTime, required : BOOLEAN]

\* Together they are the type invariant.
LEMMA TypeParts ==
    TypeOK <=> CountTypes /\ ThreadTypes /\ CallTypes /\ SeenTypes /\ EmissionTypes
  BY DEF TypeOK, CountTypes, ThreadTypes, CallTypes, SeenTypes, EmissionTypes

LEMMA TypePartsNext ==
    TypeOK' <=> CountTypes' /\ ThreadTypes' /\ CallTypes' /\ SeenTypes' /\ EmissionTypes'
  BY DEF TypeOK, CountTypes, ThreadTypes, CallTypes, SeenTypes, EmissionTypes

\* What an event is made of stays an event.
LEMMA EventTypes ==
    /\ NoEvent \in Event
    /\ \A p \in Phases : [NoEvent EXCEPT !.phase = p] \in Event
    /\ \A e \in Event : \A n \in Nat \cup {Absent}, m \in Nat \cup {Absent} :
         /\ [e EXCEPT !.total = n] \in Event
         /\ [e EXCEPT !.total = n, !.totalBytes = m] \in Event
    /\ \A e \in Event : \A n \in Nat :
         /\ [e EXCEPT !.discovered = n] \in Event
         /\ [e EXCEPT !.processed = n] \in Event
         /\ [e EXCEPT !.bytes = n] \in Event
  BY DEF Event, NoEvent, Phases, Absent

\* The counters and flags keep their types.
LEMMA CountTypesStep ==
    ASSUME CountTypes, [Next]_vars
    PROVE  CountTypes'
<1>1. CASE Tick
  BY <1>1, SizesAssumption, BoundAssumption DEF Tick, CountTypes, workers
<1>2. CASE Admit
  BY <1>2, SizesAssumption, BoundAssumption DEF Admit, EmitFrame, CountTypes, workers
<1>3. CASE Drop
  BY <1>3, SizesAssumption, BoundAssumption DEF Drop, AfterEmit, EmitFrame, CountTypes,
     workers
<1>4. CASE Deliver
  BY <1>4, SizesAssumption, BoundAssumption DEF Deliver, AfterEmit, EmitFrame, CountTypes,
     workers
<1>5. CASE LoadFlag
  BY <1>5, SizesAssumption, BoundAssumption DEF LoadFlag, LoadStep, EmitFrame, CountTypes,
     workers
<1>6. CASE LoadDiscovered
  BY <1>6, SizesAssumption, BoundAssumption DEF LoadDiscovered, LoadStep, EmitFrame,
     CountTypes, workers
<1>7. CASE LoadProcessed
  BY <1>7, SizesAssumption, BoundAssumption DEF LoadProcessed, LoadStep, EmitFrame,
     CountTypes, workers
<1>8. CASE LoadBytes
  BY <1>8, SizesAssumption, BoundAssumption DEF LoadBytes, LoadStep, EmitFrame, CountTypes,
     workers
<1>9. CASE LoadTotals
  BY <1>9, SizesAssumption, BoundAssumption DEF LoadTotals, LoadStep, EmitFrame, CountTypes,
     workers
<1>10. CASE DiscoverEntry
  BY <1>10, SizesAssumption, BoundAssumption DEF DiscoverEntry, CounterFrame, CountTypes,
     workers
<1>11. CASE DiscoverBytes
  BY <1>11, SizesAssumption, BoundAssumption DEF DiscoverBytes, CounterFrame, CountTypes,
     workers
<1>12. CASE NotifyDiscovered
  BY <1>12, SizesAssumption, BoundAssumption DEF NotifyDiscovered, CounterFrame, Notify,
     NotifyOne, CountTypes, workers
<1>13. CASE PushEntry
  BY <1>13, SizesAssumption, BoundAssumption DEF PushEntry, CounterFrame, CountTypes,
     workers
<1>14. CASE MarkScanComplete
  BY <1>14, SizesAssumption, BoundAssumption DEF MarkScanComplete, CounterFrame, NotifyOne,
     CountTypes, workers
<1>15. CASE ScannerStops
  BY <1>15, SizesAssumption, BoundAssumption DEF ScannerStops, CounterFrame, CountTypes,
     workers
<1>16. ASSUME NEW w \in Worker, TakeEntry(w) PROVE CountTypes'
  BY <1>16, SizesAssumption, BoundAssumption DEF TakeEntry, WorkerMoves, CounterFrame,
     CountTypes, workers
<1>17. ASSUME NEW w \in Worker, ProcessEntry(w) PROVE CountTypes'
  BY <1>17, SizesAssumption, BoundAssumption DEF ProcessEntry, WorkerMoves, CounterFrame,
     CountTypes, workers
<1>18. ASSUME NEW w \in Worker, ProcessBytes(w) PROVE CountTypes'
  BY <1>18, SizesAssumption, BoundAssumption DEF ProcessBytes, WorkerMoves, CounterFrame,
     CountTypes, workers
<1>19. ASSUME NEW w \in Worker, NotifyProcessed(w) PROVE CountTypes'
  BY <1>19, SizesAssumption, BoundAssumption DEF NotifyProcessed, WorkerMoves, CounterFrame,
     Notify, NotifyOne, CountTypes, workers
<1>20. ASSUME NEW w \in Worker, WorkerEnds(w) PROVE CountTypes'
  BY <1>20, SizesAssumption, BoundAssumption DEF WorkerEnds, WorkerMoves, CounterFrame,
     CountTypes, workers
<1>21. CASE RunWait
  BY <1>21, SizesAssumption, BoundAssumption DEF RunWait, RunLocked, RunGoes, RunTakes,
     RunFrame, CountTypes, workers
<1>22. CASE SpuriousWakeup
  BY <1>22, SizesAssumption, BoundAssumption DEF SpuriousWakeup, RunGoes, RunFrame,
     CountTypes, workers
<1>23. CASE RunDecide
  BY <1>23, SizesAssumption, BoundAssumption DEF RunDecide, Choose, Emit, Phase,
     HasProcessed, RunGoes, RunFrame, CountTypes, workers
<1>24. CASE Preparing
  BY <1>24, SizesAssumption, BoundAssumption DEF Preparing, CallerEmits, Emit, CallerFrame,
     CountTypes, workers
<1>25. CASE Scanning
  BY <1>25, SizesAssumption, BoundAssumption DEF Scanning, CallerEmits, Emit, CallerFrame,
     CountTypes, workers
<1>26. CASE StartThreads
  BY <1>26, SizesAssumption, BoundAssumption DEF StartThreads, CallerMoves, CallerFrame,
     CountTypes, workers
<1>27. CASE Finish
  BY <1>27, SizesAssumption, BoundAssumption DEF Finish, CallerMoves, CallerFrame,
     NotifyOne, CountTypes, workers
<1>28. CASE LeaveScope
  BY <1>28, SizesAssumption, BoundAssumption DEF LeaveScope, CallerMoves, CallerFrame,
     CountTypes, workers
<1>29. CASE Finalizing
  BY <1>29, SizesAssumption, BoundAssumption DEF Finalizing, CallerEmits, Emit, CallerFrame,
     CountTypes, workers
<1>30. CASE Publish
  BY <1>30, SizesAssumption, BoundAssumption DEF Publish, CallerMoves, CallerFrame,
     CountTypes, workers
<1>31. CASE Complete
  BY <1>31, SizesAssumption, BoundAssumption DEF Complete, CallerEmits, Emit, CallerFrame,
     CountTypes, workers
<1>32. CASE CallerFails
  BY <1>32, SizesAssumption, BoundAssumption DEF CallerFails, CallerMoves, CallerFrame,
     CountTypes, workers
<1>33. CASE Fail
  BY <1>33, SizesAssumption, BoundAssumption DEF Fail, CountTypes, workers
<1>34. CASE Cancel
  BY <1>34, SizesAssumption, BoundAssumption DEF Cancel, NotifyOne, CountTypes, workers
<1>35. CASE UNCHANGED vars
  BY <1>35, SizesAssumption, BoundAssumption DEF vars, workers, CountTypes, workers
<1>36. QED
  BY <1>1, <1>2, <1>3, <1>4, <1>5, <1>6, <1>7, <1>8, <1>9, <1>10, <1>11, <1>12, <1>13,
     <1>14, <1>15, <1>16, <1>17, <1>18, <1>19, <1>20, <1>21, <1>22, <1>23, <1>24, <1>25,
     <1>26, <1>27, <1>28, <1>29, <1>30, <1>31, <1>32, <1>33, <1>34, <1>35 DEF Next,
     EmitStep, ScannerStep, WorkerStep, ProgressStep, CallerStep

\* The threads keep their types.
LEMMA ThreadTypesStep ==
    ASSUME CountTypes, ThreadTypes, CallTypes, CallInv, [Next]_vars
    PROVE  ThreadTypes'
<1>1. CASE Tick
  BY <1>1 DEF Tick, ThreadTypes, workers
<1>2. CASE Admit
  BY <1>2 DEF Admit, EmitFrame, ThreadTypes, workers
<1>3. CASE Drop
  BY <1>3 DEF Drop, AfterEmit, EmitFrame, ThreadTypes, workers, CallInv, OwnEvents,
     CallTypes, RequiredLabel
<1>4. CASE Deliver
  BY <1>4 DEF Deliver, AfterEmit, EmitFrame, ThreadTypes, workers, CallInv, OwnEvents,
     CallTypes, RequiredLabel
<1>5. CASE LoadFlag
  BY <1>5 DEF LoadFlag, LoadStep, EmitFrame, ThreadTypes, workers
<1>6. CASE LoadDiscovered
  BY <1>6 DEF LoadDiscovered, LoadStep, EmitFrame, ThreadTypes, workers
<1>7. CASE LoadProcessed
  BY <1>7 DEF LoadProcessed, LoadStep, EmitFrame, ThreadTypes, workers
<1>8. CASE LoadBytes
  BY <1>8 DEF LoadBytes, LoadStep, EmitFrame, ThreadTypes, workers
<1>9. CASE LoadTotals
  BY <1>9 DEF LoadTotals, LoadStep, EmitFrame, ThreadTypes, workers
<1>10. CASE DiscoverEntry
  BY <1>10 DEF DiscoverEntry, CounterFrame, ThreadTypes, workers
<1>11. CASE DiscoverBytes
  BY <1>11 DEF DiscoverBytes, CounterFrame, ThreadTypes, workers
<1>12. CASE NotifyDiscovered
  BY <1>12 DEF NotifyDiscovered, CounterFrame, Notify, NotifyOne, ThreadTypes, workers
<1>13. CASE PushEntry
  BY <1>13 DEF PushEntry, CounterFrame, ThreadTypes, workers
<1>14. CASE MarkScanComplete
  BY <1>14 DEF MarkScanComplete, CounterFrame, NotifyOne, ThreadTypes, workers
<1>15. CASE ScannerStops
  BY <1>15 DEF ScannerStops, CounterFrame, ThreadTypes, workers
<1>16. ASSUME NEW w \in Worker, TakeEntry(w) PROVE ThreadTypes'
  BY <1>16 DEF TakeEntry, WorkerMoves, CounterFrame, ThreadTypes, workers
<1>17. ASSUME NEW w \in Worker, ProcessEntry(w) PROVE ThreadTypes'
  BY <1>17 DEF ProcessEntry, WorkerMoves, CounterFrame, ThreadTypes, workers
<1>18. ASSUME NEW w \in Worker, ProcessBytes(w) PROVE ThreadTypes'
  BY <1>18 DEF ProcessBytes, WorkerMoves, CounterFrame, ThreadTypes, workers
<1>19. ASSUME NEW w \in Worker, NotifyProcessed(w) PROVE ThreadTypes'
  BY <1>19 DEF NotifyProcessed, WorkerMoves, CounterFrame, Notify, NotifyOne, ThreadTypes,
     workers
<1>20. ASSUME NEW w \in Worker, WorkerEnds(w) PROVE ThreadTypes'
  BY <1>20 DEF WorkerEnds, WorkerMoves, CounterFrame, ThreadTypes, workers
<1>21. CASE RunWait
  BY <1>21 DEF RunWait, RunLocked, RunGoes, RunTakes, RunFrame, ThreadTypes, workers,
     CountTypes
<1>22. CASE SpuriousWakeup
  BY <1>22 DEF SpuriousWakeup, RunGoes, RunFrame, ThreadTypes, workers
<1>23. CASE RunDecide
  BY <1>23 DEF RunDecide, Choose, Emit, Phase, HasProcessed, RunGoes, RunFrame, ThreadTypes,
     workers
<1>24. CASE Preparing
  BY <1>24 DEF Preparing, CallerEmits, Emit, CallerFrame, ThreadTypes, workers
<1>25. CASE Scanning
  BY <1>25 DEF Scanning, CallerEmits, Emit, CallerFrame, ThreadTypes, workers
<1>26. CASE StartThreads
  BY <1>26 DEF StartThreads, CallerMoves, CallerFrame, ThreadTypes, workers
<1>27. CASE Finish
  BY <1>27 DEF Finish, CallerMoves, CallerFrame, NotifyOne, ThreadTypes, workers
<1>28. CASE LeaveScope
  BY <1>28 DEF LeaveScope, CallerMoves, CallerFrame, ThreadTypes, workers
<1>29. CASE Finalizing
  BY <1>29 DEF Finalizing, CallerEmits, Emit, CallerFrame, ThreadTypes, workers
<1>30. CASE Publish
  BY <1>30 DEF Publish, CallerMoves, CallerFrame, ThreadTypes, workers
<1>31. CASE Complete
  BY <1>31 DEF Complete, CallerEmits, Emit, CallerFrame, ThreadTypes, workers
<1>32. CASE CallerFails
  BY <1>32 DEF CallerFails, CallerMoves, CallerFrame, ThreadTypes, workers
<1>33. CASE Fail
  BY <1>33 DEF Fail, ThreadTypes, workers
<1>34. CASE Cancel
  BY <1>34 DEF Cancel, NotifyOne, ThreadTypes, workers
<1>35. CASE UNCHANGED vars
  BY <1>35 DEF vars, workers, ThreadTypes, workers
<1>36. QED
  BY <1>1, <1>2, <1>3, <1>4, <1>5, <1>6, <1>7, <1>8, <1>9, <1>10, <1>11, <1>12, <1>13,
     <1>14, <1>15, <1>16, <1>17, <1>18, <1>19, <1>20, <1>21, <1>22, <1>23, <1>24, <1>25,
     <1>26, <1>27, <1>28, <1>29, <1>30, <1>31, <1>32, <1>33, <1>34, <1>35 DEF Next,
     EmitStep, ScannerStep, WorkerStep, ProgressStep, CallerStep

\* The call under way keeps its type.
LEMMA CallTypesStep ==
    ASSUME CallTypes, CountTypes, ThreadTypes, [Next]_vars
    PROVE  CallTypes'
<1>1. CASE Tick
  BY <1>1 DEF Tick, CallTypes, RequiredLabel, workers
<1>2. CASE Admit
  BY <1>2 DEF Admit, EmitFrame, CallTypes, RequiredLabel, workers
<1>3. CASE Drop
  BY <1>3, EventTypes DEF Drop, AfterEmit, EmitFrame, CallTypes, RequiredLabel, workers,
     NoCall
<1>4. CASE Deliver
  <2>1. call' = NoCall
    BY <1>4 DEF Deliver, AfterEmit
  <2>2. QED
    BY <2>1, EventTypes DEF CallTypes, NoCall, RequiredLabel
<1>5. CASE LoadFlag
  BY <1>5, EventTypes DEF LoadFlag, LoadStep, EmitFrame, CallTypes, RequiredLabel, workers,
     Absent
<1>6. CASE LoadDiscovered
  BY <1>6, EventTypes DEF LoadDiscovered, LoadStep, EmitFrame, CallTypes, RequiredLabel,
     workers, CountTypes, Absent
<1>7. CASE LoadProcessed
  BY <1>7, EventTypes DEF LoadProcessed, LoadStep, EmitFrame, CallTypes, RequiredLabel,
     workers, CountTypes, Absent
<1>8. CASE LoadBytes
  BY <1>8, EventTypes DEF LoadBytes, LoadStep, EmitFrame, CallTypes, RequiredLabel, workers,
     CountTypes, Absent
<1>9. CASE LoadTotals
  BY <1>9, EventTypes DEF LoadTotals, LoadStep, EmitFrame, CallTypes, RequiredLabel,
     workers, CountTypes, Absent
<1>10. CASE DiscoverEntry
  BY <1>10 DEF DiscoverEntry, CounterFrame, CallTypes, RequiredLabel, workers
<1>11. CASE DiscoverBytes
  BY <1>11 DEF DiscoverBytes, CounterFrame, CallTypes, RequiredLabel, workers
<1>12. CASE NotifyDiscovered
  BY <1>12 DEF NotifyDiscovered, CounterFrame, Notify, NotifyOne, CallTypes, RequiredLabel,
     workers
<1>13. CASE PushEntry
  BY <1>13 DEF PushEntry, CounterFrame, CallTypes, RequiredLabel, workers
<1>14. CASE MarkScanComplete
  BY <1>14 DEF MarkScanComplete, CounterFrame, NotifyOne, CallTypes, RequiredLabel, workers
<1>15. CASE ScannerStops
  BY <1>15 DEF ScannerStops, CounterFrame, CallTypes, RequiredLabel, workers
<1>16. ASSUME NEW w \in Worker, TakeEntry(w) PROVE CallTypes'
  BY <1>16 DEF TakeEntry, WorkerMoves, CounterFrame, CallTypes, RequiredLabel, workers
<1>17. ASSUME NEW w \in Worker, ProcessEntry(w) PROVE CallTypes'
  BY <1>17 DEF ProcessEntry, WorkerMoves, CounterFrame, CallTypes, RequiredLabel, workers
<1>18. ASSUME NEW w \in Worker, ProcessBytes(w) PROVE CallTypes'
  BY <1>18 DEF ProcessBytes, WorkerMoves, CounterFrame, CallTypes, RequiredLabel, workers
<1>19. ASSUME NEW w \in Worker, NotifyProcessed(w) PROVE CallTypes'
  BY <1>19 DEF NotifyProcessed, WorkerMoves, CounterFrame, Notify, NotifyOne, CallTypes,
     RequiredLabel, workers
<1>20. ASSUME NEW w \in Worker, WorkerEnds(w) PROVE CallTypes'
  BY <1>20 DEF WorkerEnds, WorkerMoves, CounterFrame, CallTypes, RequiredLabel, workers
<1>21. CASE RunWait
  BY <1>21 DEF RunWait, RunLocked, RunGoes, RunTakes, RunFrame, CallTypes, RequiredLabel,
     workers
<1>22. CASE SpuriousWakeup
  BY <1>22 DEF SpuriousWakeup, RunGoes, RunFrame, CallTypes, RequiredLabel, workers
<1>23. CASE RunDecide
  <2>1. Phase \in Phases
    BY DEF Phase, Phases
  <2>2. PICK label \in RequiredLabel \cup {"none"}, required \in BOOLEAN :
               Emit(label, Phase, required)
    BY <1>23 DEF RunDecide, Choose, RequiredLabel
  <2>3. [NoEvent EXCEPT !.phase = Phase] \in Event
    BY <2>1, EventTypes
  <2>4. QED
    BY <2>2, <2>3 DEF CallTypes, Emit
<1>24. CASE Preparing
  BY <1>24, EventTypes DEF Preparing, CallerEmits, Emit, CallerFrame, CallTypes,
     RequiredLabel, workers, CountTypes, Phases
<1>25. CASE Scanning
  BY <1>25, EventTypes DEF Scanning, CallerEmits, Emit, CallerFrame, CallTypes,
     RequiredLabel, workers, CountTypes, Phases
<1>26. CASE StartThreads
  BY <1>26 DEF StartThreads, CallerMoves, CallerFrame, CallTypes, RequiredLabel, workers
<1>27. CASE Finish
  BY <1>27 DEF Finish, CallerMoves, CallerFrame, NotifyOne, CallTypes, RequiredLabel,
     workers
<1>28. CASE LeaveScope
  BY <1>28 DEF LeaveScope, CallerMoves, CallerFrame, CallTypes, RequiredLabel, workers
<1>29. CASE Finalizing
  BY <1>29, EventTypes DEF Finalizing, CallerEmits, Emit, CallerFrame, CallTypes,
     RequiredLabel, workers, CountTypes, Phases
<1>30. CASE Publish
  BY <1>30 DEF Publish, CallerMoves, CallerFrame, CallTypes, RequiredLabel, workers
<1>31. CASE Complete
  BY <1>31, EventTypes DEF Complete, CallerEmits, Emit, CallerFrame, CallTypes,
     RequiredLabel, workers, CountTypes, Phases
<1>32. CASE CallerFails
  BY <1>32 DEF CallerFails, CallerMoves, CallerFrame, CallTypes, RequiredLabel, workers
<1>33. CASE Fail
  BY <1>33 DEF Fail, CallTypes, RequiredLabel, workers
<1>34. CASE Cancel
  BY <1>34 DEF Cancel, NotifyOne, CallTypes, RequiredLabel, workers
<1>35. CASE UNCHANGED vars
  BY <1>35 DEF vars, workers, CallTypes, RequiredLabel, workers
<1>36. QED
  BY <1>1, <1>2, <1>3, <1>4, <1>5, <1>6, <1>7, <1>8, <1>9, <1>10, <1>11, <1>12, <1>13,
     <1>14, <1>15, <1>16, <1>17, <1>18, <1>19, <1>20, <1>21, <1>22, <1>23, <1>24, <1>25,
     <1>26, <1>27, <1>28, <1>29, <1>30, <1>31, <1>32, <1>33, <1>34, <1>35 DEF Next,
     EmitStep, ScannerStep, WorkerStep, ProgressStep, CallerStep

\* What the user has seen keeps its type.
LEMMA SeenTypesStep ==
    ASSUME SeenTypes, CallTypes, CallInv, CountTypes, ThreadTypes, [Next]_vars
    PROVE  SeenTypes'
<1>1. CASE Tick
  BY <1>1 DEF Tick, SeenTypes, workers
<1>2. CASE Admit
  BY <1>2 DEF Admit, EmitFrame, SeenTypes, workers
<1>3. CASE Drop
  BY <1>3 DEF Drop, AfterEmit, EmitFrame, SeenTypes, workers, CallTypes, CallInv,
     ThreadTypes, OwnEvents, Announced, RequiredLabel
<1>4. CASE Deliver
  <2>1. Announced \subseteq RequiredLabel
    BY <1>4 DEF Deliver, Announced, CallInv, OwnEvents, CallTypes, RequiredLabel
  <2>2. call.event \in Event /\ clock \in 0..MaxTime
    BY DEF CallTypes, CountTypes
  <2>3. seen' = [seen EXCEPT !.last = call.event, !.sent = @ \cup Announced,
                            !.within = OneMoreNow]
    BY <1>4 DEF Deliver
  <2>4. OneMoreNow \in [0..MaxTime -> Nat]
    <3>1. \A from \in 0..MaxTime : seen.within[from] \in Nat
      BY DEF SeenTypes
    <3>2. QED
      BY <3>1 DEF OneMoreNow
  <2>5. seen.sent \cup Announced \in SUBSET RequiredLabel
    BY <2>1 DEF SeenTypes
  <2>6. QED
    BY <2>2, <2>3, <2>4, <2>5 DEF SeenTypes
<1>5. CASE LoadFlag
  BY <1>5 DEF LoadFlag, LoadStep, EmitFrame, SeenTypes, workers
<1>6. CASE LoadDiscovered
  BY <1>6 DEF LoadDiscovered, LoadStep, EmitFrame, SeenTypes, workers
<1>7. CASE LoadProcessed
  BY <1>7 DEF LoadProcessed, LoadStep, EmitFrame, SeenTypes, workers
<1>8. CASE LoadBytes
  BY <1>8 DEF LoadBytes, LoadStep, EmitFrame, SeenTypes, workers
<1>9. CASE LoadTotals
  BY <1>9 DEF LoadTotals, LoadStep, EmitFrame, SeenTypes, workers
<1>10. CASE DiscoverEntry
  BY <1>10 DEF DiscoverEntry, CounterFrame, SeenTypes, workers
<1>11. CASE DiscoverBytes
  BY <1>11 DEF DiscoverBytes, CounterFrame, SeenTypes, workers
<1>12. CASE NotifyDiscovered
  BY <1>12 DEF NotifyDiscovered, CounterFrame, Notify, NotifyOne, SeenTypes, workers
<1>13. CASE PushEntry
  BY <1>13 DEF PushEntry, CounterFrame, SeenTypes, workers
<1>14. CASE MarkScanComplete
  BY <1>14 DEF MarkScanComplete, CounterFrame, NotifyOne, SeenTypes, workers
<1>15. CASE ScannerStops
  BY <1>15 DEF ScannerStops, CounterFrame, SeenTypes, workers
<1>16. ASSUME NEW w \in Worker, TakeEntry(w) PROVE SeenTypes'
  BY <1>16 DEF TakeEntry, WorkerMoves, CounterFrame, SeenTypes, workers
<1>17. ASSUME NEW w \in Worker, ProcessEntry(w) PROVE SeenTypes'
  BY <1>17 DEF ProcessEntry, WorkerMoves, CounterFrame, SeenTypes, workers
<1>18. ASSUME NEW w \in Worker, ProcessBytes(w) PROVE SeenTypes'
  BY <1>18 DEF ProcessBytes, WorkerMoves, CounterFrame, SeenTypes, workers
<1>19. ASSUME NEW w \in Worker, NotifyProcessed(w) PROVE SeenTypes'
  BY <1>19 DEF NotifyProcessed, WorkerMoves, CounterFrame, Notify, NotifyOne, SeenTypes,
     workers
<1>20. ASSUME NEW w \in Worker, WorkerEnds(w) PROVE SeenTypes'
  BY <1>20 DEF WorkerEnds, WorkerMoves, CounterFrame, SeenTypes, workers
<1>21. CASE RunWait
  BY <1>21 DEF RunWait, RunLocked, RunGoes, RunTakes, RunFrame, SeenTypes, workers
<1>22. CASE SpuriousWakeup
  BY <1>22 DEF SpuriousWakeup, RunGoes, RunFrame, SeenTypes, workers
<1>23. CASE RunDecide
  BY <1>23 DEF RunDecide, Choose, Emit, Phase, HasProcessed, RunGoes, RunFrame, SeenTypes,
     workers
<1>24. CASE Preparing
  BY <1>24 DEF Preparing, CallerEmits, Emit, CallerFrame, SeenTypes, workers
<1>25. CASE Scanning
  BY <1>25 DEF Scanning, CallerEmits, Emit, CallerFrame, SeenTypes, workers
<1>26. CASE StartThreads
  BY <1>26 DEF StartThreads, CallerMoves, CallerFrame, SeenTypes, workers
<1>27. CASE Finish
  BY <1>27 DEF Finish, CallerMoves, CallerFrame, NotifyOne, SeenTypes, workers
<1>28. CASE LeaveScope
  BY <1>28 DEF LeaveScope, CallerMoves, CallerFrame, SeenTypes, workers
<1>29. CASE Finalizing
  BY <1>29 DEF Finalizing, CallerEmits, Emit, CallerFrame, SeenTypes, workers
<1>30. CASE Publish
  BY <1>30 DEF Publish, CallerMoves, CallerFrame, SeenTypes, workers
<1>31. CASE Complete
  BY <1>31 DEF Complete, CallerEmits, Emit, CallerFrame, SeenTypes, workers
<1>32. CASE CallerFails
  BY <1>32 DEF CallerFails, CallerMoves, CallerFrame, SeenTypes, workers
<1>33. CASE Fail
  BY <1>33 DEF Fail, SeenTypes, workers
<1>34. CASE Cancel
  BY <1>34 DEF Cancel, NotifyOne, SeenTypes, workers
<1>35. CASE UNCHANGED vars
  BY <1>35 DEF vars, workers, SeenTypes, workers
<1>36. QED
  BY <1>1, <1>2, <1>3, <1>4, <1>5, <1>6, <1>7, <1>8, <1>9, <1>10, <1>11, <1>12, <1>13,
     <1>14, <1>15, <1>16, <1>17, <1>18, <1>19, <1>20, <1>21, <1>22, <1>23, <1>24, <1>25,
     <1>26, <1>27, <1>28, <1>29, <1>30, <1>31, <1>32, <1>33, <1>34, <1>35 DEF Next,
     EmitStep, ScannerStep, WorkerStep, ProgressStep, CallerStep

\* The window keeps its type.
LEMMA EmissionTypesStep ==
    ASSUME EmissionTypes, SeenTypes, CountTypes, CallTypes, [Next]_vars
    PROVE  EmissionTypes'
<1>1. CASE Tick
  BY <1>1 DEF Tick, EmissionTypes, workers
<1>2. CASE Admit
  BY <1>2 DEF Admit, EmitFrame, EmissionTypes, workers, Recent, SeenTypes, CountTypes,
     CallTypes
<1>3. CASE Drop
  BY <1>3 DEF Drop, AfterEmit, EmitFrame, EmissionTypes, workers, Recent
<1>4. CASE Deliver
  BY <1>4 DEF Deliver, AfterEmit, EmitFrame, EmissionTypes, workers
<1>5. CASE LoadFlag
  BY <1>5 DEF LoadFlag, LoadStep, EmitFrame, EmissionTypes, workers
<1>6. CASE LoadDiscovered
  BY <1>6 DEF LoadDiscovered, LoadStep, EmitFrame, EmissionTypes, workers
<1>7. CASE LoadProcessed
  BY <1>7 DEF LoadProcessed, LoadStep, EmitFrame, EmissionTypes, workers
<1>8. CASE LoadBytes
  BY <1>8 DEF LoadBytes, LoadStep, EmitFrame, EmissionTypes, workers
<1>9. CASE LoadTotals
  BY <1>9 DEF LoadTotals, LoadStep, EmitFrame, EmissionTypes, workers
<1>10. CASE DiscoverEntry
  BY <1>10 DEF DiscoverEntry, CounterFrame, EmissionTypes, workers
<1>11. CASE DiscoverBytes
  BY <1>11 DEF DiscoverBytes, CounterFrame, EmissionTypes, workers
<1>12. CASE NotifyDiscovered
  BY <1>12 DEF NotifyDiscovered, CounterFrame, Notify, NotifyOne, EmissionTypes, workers
<1>13. CASE PushEntry
  BY <1>13 DEF PushEntry, CounterFrame, EmissionTypes, workers
<1>14. CASE MarkScanComplete
  BY <1>14 DEF MarkScanComplete, CounterFrame, NotifyOne, EmissionTypes, workers
<1>15. CASE ScannerStops
  BY <1>15 DEF ScannerStops, CounterFrame, EmissionTypes, workers
<1>16. ASSUME NEW w \in Worker, TakeEntry(w) PROVE EmissionTypes'
  BY <1>16 DEF TakeEntry, WorkerMoves, CounterFrame, EmissionTypes, workers
<1>17. ASSUME NEW w \in Worker, ProcessEntry(w) PROVE EmissionTypes'
  BY <1>17 DEF ProcessEntry, WorkerMoves, CounterFrame, EmissionTypes, workers
<1>18. ASSUME NEW w \in Worker, ProcessBytes(w) PROVE EmissionTypes'
  BY <1>18 DEF ProcessBytes, WorkerMoves, CounterFrame, EmissionTypes, workers
<1>19. ASSUME NEW w \in Worker, NotifyProcessed(w) PROVE EmissionTypes'
  BY <1>19 DEF NotifyProcessed, WorkerMoves, CounterFrame, Notify, NotifyOne, EmissionTypes,
     workers
<1>20. ASSUME NEW w \in Worker, WorkerEnds(w) PROVE EmissionTypes'
  BY <1>20 DEF WorkerEnds, WorkerMoves, CounterFrame, EmissionTypes, workers
<1>21. CASE RunWait
  BY <1>21 DEF RunWait, RunLocked, RunGoes, RunTakes, RunFrame, EmissionTypes, workers
<1>22. CASE SpuriousWakeup
  BY <1>22 DEF SpuriousWakeup, RunGoes, RunFrame, EmissionTypes, workers
<1>23. CASE RunDecide
  BY <1>23 DEF RunDecide, Choose, Emit, Phase, HasProcessed, RunGoes, RunFrame,
     EmissionTypes, workers
<1>24. CASE Preparing
  BY <1>24 DEF Preparing, CallerEmits, Emit, CallerFrame, EmissionTypes, workers
<1>25. CASE Scanning
  BY <1>25 DEF Scanning, CallerEmits, Emit, CallerFrame, EmissionTypes, workers
<1>26. CASE StartThreads
  BY <1>26 DEF StartThreads, CallerMoves, CallerFrame, EmissionTypes, workers
<1>27. CASE Finish
  BY <1>27 DEF Finish, CallerMoves, CallerFrame, NotifyOne, EmissionTypes, workers
<1>28. CASE LeaveScope
  BY <1>28 DEF LeaveScope, CallerMoves, CallerFrame, EmissionTypes, workers
<1>29. CASE Finalizing
  BY <1>29 DEF Finalizing, CallerEmits, Emit, CallerFrame, EmissionTypes, workers
<1>30. CASE Publish
  BY <1>30 DEF Publish, CallerMoves, CallerFrame, EmissionTypes, workers
<1>31. CASE Complete
  BY <1>31 DEF Complete, CallerEmits, Emit, CallerFrame, EmissionTypes, workers
<1>32. CASE CallerFails
  BY <1>32 DEF CallerFails, CallerMoves, CallerFrame, EmissionTypes, workers
<1>33. CASE Fail
  BY <1>33 DEF Fail, EmissionTypes, workers
<1>34. CASE Cancel
  BY <1>34 DEF Cancel, NotifyOne, EmissionTypes, workers
<1>35. CASE UNCHANGED vars
  BY <1>35 DEF vars, workers, EmissionTypes, workers
<1>36. QED
  BY <1>1, <1>2, <1>3, <1>4, <1>5, <1>6, <1>7, <1>8, <1>9, <1>10, <1>11, <1>12, <1>13,
     <1>14, <1>15, <1>16, <1>17, <1>18, <1>19, <1>20, <1>21, <1>22, <1>23, <1>24, <1>25,
     <1>26, <1>27, <1>28, <1>29, <1>30, <1>31, <1>32, <1>33, <1>34, <1>35 DEF Next,
     EmitStep, ScannerStep, WorkerStep, ProgressStep, CallerStep

\* Every step keeps the types.
LEMMA TypeStep ==
    ASSUME TypeOK, CallInv, [Next]_vars
    PROVE  TypeOK'
  BY TypeParts, TypePartsNext, CountTypesStep, ThreadTypesStep, CallTypesStep, SeenTypesStep,
     EmissionTypesStep

-----------------------------------------------------------------------------
(* Who emits *)

\* One thread emits at a time.
LEMMA CallStep ==
    ASSUME TypeOK, CallInv, StageInv, [Next]_vars
    PROVE  CallInv'
<1>1. CASE Tick
  BY <1>1 DEF Tick, CallInv, NoCall, NoEvent, OwnEvents, workers, StageInv, Joining, TypeOK,
     Event, RequiredLabel, Phases
<1>2. CASE Admit
  BY <1>2 DEF Admit, EmitFrame, CallInv, NoCall, NoEvent, OwnEvents, workers, StageInv,
     Joining, TypeOK, Event, RequiredLabel, Phases
<1>3. CASE Drop
  BY <1>3 DEF Drop, AfterEmit, EmitFrame, CallInv, NoCall, NoEvent, OwnEvents, workers,
     StageInv, Joining, TypeOK, Event, RequiredLabel, Phases
<1>4. CASE Deliver
  BY <1>4 DEF Deliver, AfterEmit, EmitFrame, CallInv, NoCall, NoEvent, OwnEvents, workers,
     StageInv, Joining, TypeOK, Event, RequiredLabel, Phases
<1>5. CASE LoadFlag
  BY <1>5 DEF LoadFlag, LoadStep, EmitFrame, CallInv, NoCall, NoEvent, OwnEvents, workers,
     StageInv, Joining, TypeOK, Event, RequiredLabel, Phases
<1>6. CASE LoadDiscovered
  BY <1>6 DEF LoadDiscovered, LoadStep, EmitFrame, CallInv, NoCall, NoEvent, OwnEvents,
     workers, StageInv, Joining, TypeOK, Event, RequiredLabel, Phases
<1>7. CASE LoadProcessed
  BY <1>7 DEF LoadProcessed, LoadStep, EmitFrame, CallInv, NoCall, NoEvent, OwnEvents,
     workers, StageInv, Joining, TypeOK, Event, RequiredLabel, Phases
<1>8. CASE LoadBytes
  BY <1>8 DEF LoadBytes, LoadStep, EmitFrame, CallInv, NoCall, NoEvent, OwnEvents, workers,
     StageInv, Joining, TypeOK, Event, RequiredLabel, Phases
<1>9. CASE LoadTotals
  BY <1>9 DEF LoadTotals, LoadStep, EmitFrame, CallInv, NoCall, NoEvent, OwnEvents, workers,
     StageInv, Joining, TypeOK, Event, RequiredLabel, Phases
<1>10. CASE DiscoverEntry
  BY <1>10 DEF DiscoverEntry, CounterFrame, CallInv, NoCall, NoEvent, OwnEvents, workers,
     StageInv, Joining, TypeOK, Event, RequiredLabel, Phases
<1>11. CASE DiscoverBytes
  BY <1>11 DEF DiscoverBytes, CounterFrame, CallInv, NoCall, NoEvent, OwnEvents, workers,
     StageInv, Joining, TypeOK, Event, RequiredLabel, Phases
<1>12. CASE NotifyDiscovered
  BY <1>12 DEF NotifyDiscovered, CounterFrame, Notify, NotifyOne, CallInv, NoCall, NoEvent,
     OwnEvents, workers, StageInv, Joining, TypeOK, Event, RequiredLabel, Phases
<1>13. CASE PushEntry
  BY <1>13 DEF PushEntry, CounterFrame, CallInv, NoCall, NoEvent, OwnEvents, workers,
     StageInv, Joining, TypeOK, Event, RequiredLabel, Phases
<1>14. CASE MarkScanComplete
  BY <1>14 DEF MarkScanComplete, CounterFrame, NotifyOne, CallInv, NoCall, NoEvent,
     OwnEvents, workers, StageInv, Joining, TypeOK, Event, RequiredLabel, Phases
<1>15. CASE ScannerStops
  BY <1>15 DEF ScannerStops, CounterFrame, CallInv, NoCall, NoEvent, OwnEvents, workers,
     StageInv, Joining, TypeOK, Event, RequiredLabel, Phases
<1>16. ASSUME NEW w \in Worker, TakeEntry(w) PROVE CallInv'
  BY <1>16 DEF TakeEntry, WorkerMoves, CounterFrame, CallInv, NoCall, NoEvent, OwnEvents,
     workers, StageInv, Joining, TypeOK, Event, RequiredLabel, Phases
<1>17. ASSUME NEW w \in Worker, ProcessEntry(w) PROVE CallInv'
  BY <1>17 DEF ProcessEntry, WorkerMoves, CounterFrame, CallInv, NoCall, NoEvent, OwnEvents,
     workers, StageInv, Joining, TypeOK, Event, RequiredLabel, Phases
<1>18. ASSUME NEW w \in Worker, ProcessBytes(w) PROVE CallInv'
  BY <1>18 DEF ProcessBytes, WorkerMoves, CounterFrame, CallInv, NoCall, NoEvent, OwnEvents,
     workers, StageInv, Joining, TypeOK, Event, RequiredLabel, Phases
<1>19. ASSUME NEW w \in Worker, NotifyProcessed(w) PROVE CallInv'
  BY <1>19 DEF NotifyProcessed, WorkerMoves, CounterFrame, Notify, NotifyOne, CallInv,
     NoCall, NoEvent, OwnEvents, workers, StageInv, Joining, TypeOK, Event, RequiredLabel,
     Phases
<1>20. ASSUME NEW w \in Worker, WorkerEnds(w) PROVE CallInv'
  BY <1>20 DEF WorkerEnds, WorkerMoves, CounterFrame, CallInv, NoCall, NoEvent, OwnEvents,
     workers, StageInv, Joining, TypeOK, Event, RequiredLabel, Phases
<1>21. CASE RunWait
  BY <1>21 DEF RunWait, RunLocked, RunGoes, RunTakes, RunFrame, CallInv, NoCall, NoEvent,
     OwnEvents, workers, StageInv, Joining, TypeOK, Event, RequiredLabel, Phases
<1>22. CASE SpuriousWakeup
  BY <1>22 DEF SpuriousWakeup, RunGoes, RunFrame, CallInv, NoCall, NoEvent, OwnEvents,
     workers, StageInv, Joining, TypeOK, Event, RequiredLabel, Phases
<1>23. CASE RunDecide
  BY <1>23 DEF RunDecide, Choose, Emit, Phase, HasProcessed, RunGoes, RunFrame, CallInv,
     NoCall, NoEvent, OwnEvents, workers, StageInv, Joining, TypeOK, Event, RequiredLabel,
     Phases
<1>24. CASE Preparing
  BY <1>24 DEF Preparing, CallerEmits, Emit, CallerFrame, CallInv, NoCall, NoEvent,
     OwnEvents, workers, StageInv, Joining, TypeOK, Event, RequiredLabel, Phases
<1>25. CASE Scanning
  BY <1>25 DEF Scanning, CallerEmits, Emit, CallerFrame, CallInv, NoCall, NoEvent,
     OwnEvents, workers, StageInv, Joining, TypeOK, Event, RequiredLabel, Phases
<1>26. CASE StartThreads
  BY <1>26 DEF StartThreads, CallerMoves, CallerFrame, CallInv, NoCall, NoEvent, OwnEvents,
     workers, StageInv, Joining, TypeOK, Event, RequiredLabel, Phases
<1>27. CASE Finish
  BY <1>27 DEF Finish, CallerMoves, CallerFrame, NotifyOne, CallInv, NoCall, NoEvent,
     OwnEvents, workers, StageInv, Joining, TypeOK, Event, RequiredLabel, Phases
<1>28. CASE LeaveScope
  BY <1>28 DEF LeaveScope, CallerMoves, CallerFrame, CallInv, NoCall, NoEvent, OwnEvents,
     workers, StageInv, Joining, TypeOK, Event, RequiredLabel, Phases
<1>29. CASE Finalizing
  BY <1>29 DEF Finalizing, CallerEmits, Emit, CallerFrame, CallInv, NoCall, NoEvent,
     OwnEvents, workers, StageInv, Joining, TypeOK, Event, RequiredLabel, Phases
<1>30. CASE Publish
  BY <1>30 DEF Publish, CallerMoves, CallerFrame, CallInv, NoCall, NoEvent, OwnEvents,
     workers, StageInv, Joining, TypeOK, Event, RequiredLabel, Phases
<1>31. CASE Complete
  BY <1>31 DEF Complete, CallerEmits, Emit, CallerFrame, CallInv, NoCall, NoEvent,
     OwnEvents, workers, StageInv, Joining, TypeOK, Event, RequiredLabel, Phases
<1>32. CASE CallerFails
  BY <1>32 DEF CallerFails, CallerMoves, CallerFrame, CallInv, NoCall, NoEvent, OwnEvents,
     workers, StageInv, Joining, TypeOK, Event, RequiredLabel, Phases
<1>33. CASE Fail
  BY <1>33 DEF Fail, CallInv, NoCall, NoEvent, OwnEvents, workers, StageInv, Joining,
     TypeOK, Event, RequiredLabel, Phases
<1>34. CASE Cancel
  BY <1>34 DEF Cancel, NotifyOne, CallInv, NoCall, NoEvent, OwnEvents, workers, StageInv,
     Joining, TypeOK, Event, RequiredLabel, Phases
<1>35. CASE UNCHANGED vars
  BY <1>35 DEF vars, workers, CallInv, NoCall, NoEvent, OwnEvents, workers, StageInv,
     Joining, TypeOK, Event, RequiredLabel, Phases
<1>36. QED
  BY <1>1, <1>2, <1>3, <1>4, <1>5, <1>6, <1>7, <1>8, <1>9, <1>10, <1>11, <1>12, <1>13,
     <1>14, <1>15, <1>16, <1>17, <1>18, <1>19, <1>20, <1>21, <1>22, <1>23, <1>24, <1>25,
     <1>26, <1>27, <1>28, <1>29, <1>30, <1>31, <1>32, <1>33, <1>34, <1>35 DEF Next,
     EmitStep, ScannerStep, WorkerStep, ProgressStep, CallerStep

\* How far the calling thread is tells what the others can be doing.
LEMMA StageStep ==
    ASSUME CountTypes, ThreadTypes, CallTypes, CallInv, StageInv, FlagInv, [Next]_vars
    PROVE  StageInv'
<1>1. CASE Tick
  BY <1>1 DEF Tick, StageInv, CallInv, FlagInv, OwnEvents, NoCall, Joining, Early, Late,
     ThreadTypes, workers
<1>2. CASE Admit
  BY <1>2 DEF Admit, EmitFrame, StageInv, CallInv, FlagInv, OwnEvents, NoCall, Joining,
     Early, Late, ThreadTypes, workers
<1>3. CASE Drop
  BY <1>3 DEF Drop, AfterEmit, EmitFrame, StageInv, CallInv, FlagInv, OwnEvents, NoCall,
     Joining, Early, Late, ThreadTypes, workers
<1>4. CASE Deliver
  BY <1>4 DEF Deliver, AfterEmit, EmitFrame, StageInv, CallInv, FlagInv, OwnEvents, NoCall,
     Joining, Early, Late, ThreadTypes, workers
<1>5. CASE LoadFlag
  BY <1>5 DEF LoadFlag, LoadStep, EmitFrame, StageInv, CallInv, FlagInv, OwnEvents, NoCall,
     Joining, Early, Late, ThreadTypes, workers
<1>6. CASE LoadDiscovered
  BY <1>6 DEF LoadDiscovered, LoadStep, EmitFrame, StageInv, CallInv, FlagInv, OwnEvents,
     NoCall, Joining, Early, Late, ThreadTypes, workers
<1>7. CASE LoadProcessed
  BY <1>7 DEF LoadProcessed, LoadStep, EmitFrame, StageInv, CallInv, FlagInv, OwnEvents,
     NoCall, Joining, Early, Late, ThreadTypes, workers
<1>8. CASE LoadBytes
  BY <1>8 DEF LoadBytes, LoadStep, EmitFrame, StageInv, CallInv, FlagInv, OwnEvents, NoCall,
     Joining, Early, Late, ThreadTypes, workers
<1>9. CASE LoadTotals
  BY <1>9 DEF LoadTotals, LoadStep, EmitFrame, StageInv, CallInv, FlagInv, OwnEvents,
     NoCall, Joining, Early, Late, ThreadTypes, workers
<1>10. CASE DiscoverEntry
  BY <1>10 DEF DiscoverEntry, CounterFrame, StageInv, CallInv, FlagInv, OwnEvents, NoCall,
     Joining, Early, Late, ThreadTypes, workers
<1>11. CASE DiscoverBytes
  BY <1>11 DEF DiscoverBytes, CounterFrame, StageInv, CallInv, FlagInv, OwnEvents, NoCall,
     Joining, Early, Late, ThreadTypes, workers
<1>12. CASE NotifyDiscovered
  BY <1>12 DEF NotifyDiscovered, CounterFrame, Notify, NotifyOne, StageInv, CallInv,
     FlagInv, OwnEvents, NoCall, Joining, Early, Late, ThreadTypes, workers
<1>13. CASE PushEntry
  BY <1>13 DEF PushEntry, CounterFrame, StageInv, CallInv, FlagInv, OwnEvents, NoCall,
     Joining, Early, Late, ThreadTypes, workers
<1>14. CASE MarkScanComplete
  BY <1>14 DEF MarkScanComplete, CounterFrame, NotifyOne, StageInv, CallInv, FlagInv,
     OwnEvents, NoCall, Joining, Early, Late, ThreadTypes, workers
<1>15. CASE ScannerStops
  BY <1>15 DEF ScannerStops, CounterFrame, StageInv, CallInv, FlagInv, OwnEvents, NoCall,
     Joining, Early, Late, ThreadTypes, workers
<1>16. ASSUME NEW w \in Worker, TakeEntry(w) PROVE StageInv'
  BY <1>16 DEF TakeEntry, WorkerMoves, CounterFrame, StageInv, CallInv, FlagInv, OwnEvents,
     NoCall, Joining, Early, Late, ThreadTypes, workers
<1>17. ASSUME NEW w \in Worker, ProcessEntry(w) PROVE StageInv'
  BY <1>17 DEF ProcessEntry, WorkerMoves, CounterFrame, StageInv, CallInv, FlagInv,
     OwnEvents, NoCall, Joining, Early, Late, ThreadTypes, workers
<1>18. ASSUME NEW w \in Worker, ProcessBytes(w) PROVE StageInv'
  BY <1>18 DEF ProcessBytes, WorkerMoves, CounterFrame, StageInv, CallInv, FlagInv,
     OwnEvents, NoCall, Joining, Early, Late, ThreadTypes, workers
<1>19. ASSUME NEW w \in Worker, NotifyProcessed(w) PROVE StageInv'
  BY <1>19 DEF NotifyProcessed, WorkerMoves, CounterFrame, Notify, NotifyOne, StageInv,
     CallInv, FlagInv, OwnEvents, NoCall, Joining, Early, Late, ThreadTypes, workers
<1>20. ASSUME NEW w \in Worker, WorkerEnds(w) PROVE StageInv'
  BY <1>20 DEF WorkerEnds, WorkerMoves, CounterFrame, StageInv, CallInv, FlagInv, OwnEvents,
     NoCall, Joining, Early, Late, ThreadTypes, workers
<1>21. CASE RunWait
  BY <1>21 DEF RunWait, RunLocked, RunGoes, RunTakes, RunFrame, StageInv, CallInv, FlagInv,
     OwnEvents, NoCall, Joining, Early, Late, ThreadTypes, workers
<1>22. CASE SpuriousWakeup
  BY <1>22 DEF SpuriousWakeup, RunGoes, RunFrame, StageInv, CallInv, FlagInv, OwnEvents,
     NoCall, Joining, Early, Late, ThreadTypes, workers
<1>23. CASE RunDecide
  BY <1>23 DEF RunDecide, Choose, Emit, Phase, HasProcessed, RunGoes, RunFrame, StageInv,
     CallInv, FlagInv, OwnEvents, NoCall, Joining, Early, Late, ThreadTypes, workers
<1>24. CASE Preparing
  BY <1>24 DEF Preparing, CallerEmits, Emit, CallerFrame, StageInv, CallInv, FlagInv,
     OwnEvents, NoCall, Joining, Early, Late, ThreadTypes, workers
<1>25. CASE Scanning
  BY <1>25 DEF Scanning, CallerEmits, Emit, CallerFrame, StageInv, CallInv, FlagInv,
     OwnEvents, NoCall, Joining, Early, Late, ThreadTypes, workers
<1>26. CASE StartThreads
  BY <1>26 DEF StartThreads, CallerMoves, CallerFrame, StageInv, CallInv, FlagInv,
     OwnEvents, NoCall, Joining, Early, Late, ThreadTypes, workers
<1>27. CASE Finish
  BY <1>27 DEF Finish, CallerMoves, CallerFrame, NotifyOne, StageInv, CallInv, FlagInv,
     OwnEvents, NoCall, Joining, Early, Late, ThreadTypes, workers
<1>28. CASE LeaveScope
  BY <1>28 DEF LeaveScope, CallerMoves, CallerFrame, StageInv, CallInv, FlagInv, OwnEvents,
     NoCall, Joining, Early, Late, ThreadTypes, workers
<1>29. CASE Finalizing
  BY <1>29 DEF Finalizing, CallerEmits, Emit, CallerFrame, StageInv, CallInv, FlagInv,
     OwnEvents, NoCall, Joining, Early, Late, ThreadTypes, workers
<1>30. CASE Publish
  BY <1>30 DEF Publish, CallerMoves, CallerFrame, StageInv, CallInv, FlagInv, OwnEvents,
     NoCall, Joining, Early, Late, ThreadTypes, workers
<1>31. CASE Complete
  BY <1>31 DEF Complete, CallerEmits, Emit, CallerFrame, StageInv, CallInv, FlagInv,
     OwnEvents, NoCall, Joining, Early, Late, ThreadTypes, workers
<1>32. CASE CallerFails
  BY <1>32 DEF CallerFails, CallerMoves, CallerFrame, StageInv, CallInv, FlagInv, OwnEvents,
     NoCall, Joining, Early, Late, ThreadTypes, workers
<1>33. CASE Fail
  BY <1>33 DEF Fail, StageInv, CallInv, FlagInv, OwnEvents, NoCall, Joining, Early, Late,
     ThreadTypes, workers
<1>34. CASE Cancel
  BY <1>34 DEF Cancel, NotifyOne, StageInv, CallInv, FlagInv, OwnEvents, NoCall, Joining,
     Early, Late, ThreadTypes, workers
<1>35. CASE UNCHANGED vars
  BY <1>35 DEF vars, workers, StageInv, CallInv, FlagInv, OwnEvents, NoCall, Joining, Early,
     Late, ThreadTypes, workers
<1>36. QED
  BY <1>1, <1>2, <1>3, <1>4, <1>5, <1>6, <1>7, <1>8, <1>9, <1>10, <1>11, <1>12, <1>13,
     <1>14, <1>15, <1>16, <1>17, <1>18, <1>19, <1>20, <1>21, <1>22, <1>23, <1>24, <1>25,
     <1>26, <1>27, <1>28, <1>29, <1>30, <1>31, <1>32, <1>33, <1>34, <1>35 DEF Next,
     EmitStep, ScannerStep, WorkerStep, ProgressStep, CallerStep

\* The flags tell how far the scan and the shutdown are.
LEMMA FlagStep ==
    ASSUME CountTypes, ThreadTypes, CallTypes, CallInv, StageInv, FlagInv, [Next]_vars
    PROVE  FlagInv'
<1>1. CASE Tick
  BY <1>1 DEF Tick, FlagInv, StageInv, CallInv, Joining, Late, ThreadTypes, CountTypes,
     workers
<1>2. CASE Admit
  BY <1>2 DEF Admit, EmitFrame, FlagInv, StageInv, CallInv, Joining, Late, ThreadTypes,
     CountTypes, workers
<1>3. CASE Drop
  BY <1>3 DEF Drop, AfterEmit, EmitFrame, FlagInv, StageInv, CallInv, Joining, Late,
     ThreadTypes, CountTypes, workers, OwnEvents
<1>4. CASE Deliver
  BY <1>4 DEF Deliver, AfterEmit, EmitFrame, FlagInv, StageInv, CallInv, Joining, Late,
     ThreadTypes, CountTypes, workers, OwnEvents
<1>5. CASE LoadFlag
  BY <1>5 DEF LoadFlag, LoadStep, EmitFrame, FlagInv, StageInv, CallInv, Joining, Late,
     ThreadTypes, CountTypes, workers
<1>6. CASE LoadDiscovered
  BY <1>6 DEF LoadDiscovered, LoadStep, EmitFrame, FlagInv, StageInv, CallInv, Joining,
     Late, ThreadTypes, CountTypes, workers
<1>7. CASE LoadProcessed
  BY <1>7 DEF LoadProcessed, LoadStep, EmitFrame, FlagInv, StageInv, CallInv, Joining, Late,
     ThreadTypes, CountTypes, workers
<1>8. CASE LoadBytes
  BY <1>8 DEF LoadBytes, LoadStep, EmitFrame, FlagInv, StageInv, CallInv, Joining, Late,
     ThreadTypes, CountTypes, workers
<1>9. CASE LoadTotals
  BY <1>9 DEF LoadTotals, LoadStep, EmitFrame, FlagInv, StageInv, CallInv, Joining, Late,
     ThreadTypes, CountTypes, workers
<1>10. CASE DiscoverEntry
  BY <1>10 DEF DiscoverEntry, CounterFrame, FlagInv, StageInv, CallInv, Joining, Late,
     ThreadTypes, CountTypes, workers
<1>11. CASE DiscoverBytes
  BY <1>11 DEF DiscoverBytes, CounterFrame, FlagInv, StageInv, CallInv, Joining, Late,
     ThreadTypes, CountTypes, workers
<1>12. CASE NotifyDiscovered
  BY <1>12 DEF NotifyDiscovered, CounterFrame, Notify, NotifyOne, FlagInv, StageInv,
     CallInv, Joining, Late, ThreadTypes, CountTypes, workers
<1>13. CASE PushEntry
  BY <1>13 DEF PushEntry, CounterFrame, FlagInv, StageInv, CallInv, Joining, Late,
     ThreadTypes, CountTypes, workers
<1>14. CASE MarkScanComplete
  BY <1>14 DEF MarkScanComplete, CounterFrame, NotifyOne, FlagInv, StageInv, CallInv,
     Joining, Late, ThreadTypes, CountTypes, workers
<1>15. CASE ScannerStops
  BY <1>15 DEF ScannerStops, CounterFrame, FlagInv, StageInv, CallInv, Joining, Late,
     ThreadTypes, CountTypes, workers
<1>16. ASSUME NEW w \in Worker, TakeEntry(w) PROVE FlagInv'
  BY <1>16 DEF TakeEntry, WorkerMoves, CounterFrame, FlagInv, StageInv, CallInv, Joining,
     Late, ThreadTypes, CountTypes, workers
<1>17. ASSUME NEW w \in Worker, ProcessEntry(w) PROVE FlagInv'
  BY <1>17 DEF ProcessEntry, WorkerMoves, CounterFrame, FlagInv, StageInv, CallInv, Joining,
     Late, ThreadTypes, CountTypes, workers
<1>18. ASSUME NEW w \in Worker, ProcessBytes(w) PROVE FlagInv'
  BY <1>18 DEF ProcessBytes, WorkerMoves, CounterFrame, FlagInv, StageInv, CallInv, Joining,
     Late, ThreadTypes, CountTypes, workers
<1>19. ASSUME NEW w \in Worker, NotifyProcessed(w) PROVE FlagInv'
  BY <1>19 DEF NotifyProcessed, WorkerMoves, CounterFrame, Notify, NotifyOne, FlagInv,
     StageInv, CallInv, Joining, Late, ThreadTypes, CountTypes, workers
<1>20. ASSUME NEW w \in Worker, WorkerEnds(w) PROVE FlagInv'
  BY <1>20 DEF WorkerEnds, WorkerMoves, CounterFrame, FlagInv, StageInv, CallInv, Joining,
     Late, ThreadTypes, CountTypes, workers
<1>21. CASE RunWait
  BY <1>21 DEF RunWait, RunLocked, RunGoes, RunTakes, RunFrame, FlagInv, StageInv, CallInv,
     Joining, Late, ThreadTypes, CountTypes, workers
<1>22. CASE SpuriousWakeup
  BY <1>22 DEF SpuriousWakeup, RunGoes, RunFrame, FlagInv, StageInv, CallInv, Joining, Late,
     ThreadTypes, CountTypes, workers
<1>23. CASE RunDecide
  BY <1>23 DEF RunDecide, Choose, Emit, Phase, HasProcessed, RunGoes, RunFrame, FlagInv,
     StageInv, CallInv, Joining, Late, ThreadTypes, CountTypes, workers
<1>24. CASE Preparing
  BY <1>24 DEF Preparing, CallerEmits, Emit, CallerFrame, FlagInv, StageInv, CallInv,
     Joining, Late, ThreadTypes, CountTypes, workers
<1>25. CASE Scanning
  BY <1>25 DEF Scanning, CallerEmits, Emit, CallerFrame, FlagInv, StageInv, CallInv,
     Joining, Late, ThreadTypes, CountTypes, workers
<1>26. CASE StartThreads
  BY <1>26 DEF StartThreads, CallerMoves, CallerFrame, FlagInv, StageInv, CallInv, Joining,
     Late, ThreadTypes, CountTypes, workers, Early
<1>27. CASE Finish
  BY <1>27 DEF Finish, CallerMoves, CallerFrame, NotifyOne, FlagInv, StageInv, CallInv,
     Joining, Late, ThreadTypes, CountTypes, workers
<1>28. CASE LeaveScope
  BY <1>28 DEF LeaveScope, CallerMoves, CallerFrame, FlagInv, StageInv, CallInv, Joining,
     Late, ThreadTypes, CountTypes, workers
<1>29. CASE Finalizing
  BY <1>29 DEF Finalizing, CallerEmits, Emit, CallerFrame, FlagInv, StageInv, CallInv,
     Joining, Late, ThreadTypes, CountTypes, workers
<1>30. CASE Publish
  BY <1>30 DEF Publish, CallerMoves, CallerFrame, FlagInv, StageInv, CallInv, Joining, Late,
     ThreadTypes, CountTypes, workers
<1>31. CASE Complete
  BY <1>31 DEF Complete, CallerEmits, Emit, CallerFrame, FlagInv, StageInv, CallInv,
     Joining, Late, ThreadTypes, CountTypes, workers
<1>32. CASE CallerFails
  BY <1>32 DEF CallerFails, CallerMoves, CallerFrame, FlagInv, StageInv, CallInv, Joining,
     Late, ThreadTypes, CountTypes, workers
<1>33. CASE Fail
  BY <1>33 DEF Fail, FlagInv, StageInv, CallInv, Joining, Late, ThreadTypes, CountTypes,
     workers
<1>34. CASE Cancel
  BY <1>34 DEF Cancel, NotifyOne, FlagInv, StageInv, CallInv, Joining, Late, ThreadTypes,
     CountTypes, workers
<1>35. CASE UNCHANGED vars
  BY <1>35 DEF vars, workers, FlagInv, StageInv, CallInv, Joining, Late, ThreadTypes,
     CountTypes, workers
<1>36. QED
  BY <1>1, <1>2, <1>3, <1>4, <1>5, <1>6, <1>7, <1>8, <1>9, <1>10, <1>11, <1>12, <1>13,
     <1>14, <1>15, <1>16, <1>17, <1>18, <1>19, <1>20, <1>21, <1>22, <1>23, <1>24, <1>25,
     <1>26, <1>27, <1>28, <1>29, <1>30, <1>31, <1>32, <1>33, <1>34, <1>35 DEF Next,
     EmitStep, ScannerStep, WorkerStep, ProgressStep, CallerStep

-----------------------------------------------------------------------------
(* The required events *)

\* The size of a disjoint union, and of a pair.
LEMMA DisjointUnion ==
    ASSUME NEW S, NEW T, IsFiniteSet(S), IsFiniteSet(T), S \cap T = {}
    PROVE  IsFiniteSet(S \cup T) /\ Cardinality(S \cup T) = Cardinality(S) + Cardinality(T)
<1>1. Cardinality(S \cap T) = 0
  BY FS_EmptySet
<1>2. Cardinality(S) \in Nat /\ Cardinality(T) \in Nat
  BY FS_CardinalityType
<1>3. IsFiniteSet(S \cup T) /\
      Cardinality(S \cup T) = Cardinality(S) + Cardinality(T) - Cardinality(S \cap T)
  BY FS_Union
<1>4. QED
  BY <1>1, <1>2, <1>3

LEMMA Pairs ==
    ASSUME NEW a, NEW b, a # b
    PROVE  IsFiniteSet({a, b}) /\ Cardinality({a, b}) = 2
<1>1. IsFiniteSet({}) /\ Cardinality({}) = 0
  BY FS_EmptySet
<1>2. IsFiniteSet({} \cup {a}) /\ Cardinality({} \cup {a}) = 1
  BY <1>1, FS_AddElement
<1>3. IsFiniteSet(({} \cup {a}) \cup {b}) /\ Cardinality(({} \cup {a}) \cup {b}) = 2
  BY <1>2, FS_AddElement
<1>4. ({} \cup {a}) \cup {b} = {a, b}
  OBVIOUS
<1>5. QED
  BY <1>3, <1>4

\* There are six required events.
LEMMA LabelsFinite == Cardinality(RequiredLabel) = 6 /\ IsFiniteSet(RequiredLabel)
<1>1. IsFiniteSet({"preparing", "scanning"}) /\ Cardinality({"preparing", "scanning"}) = 2
  BY Pairs
<1>2. IsFiniteSet({"scanned", "writing"}) /\ Cardinality({"scanned", "writing"}) = 2
  BY Pairs
<1>3. IsFiniteSet({"finalizing", "complete"}) /\ Cardinality({"finalizing", "complete"}) = 2
  BY Pairs
<1>4. RequiredLabel =
        ({"preparing", "scanning"} \cup {"scanned", "writing"}) \cup {"finalizing", "complete"}
  BY DEF RequiredLabel
<1>5. LET S == {"preparing", "scanning"} \cup {"scanned", "writing"}
      IN IsFiniteSet(S) /\ Cardinality(S) = 4
  BY <1>1, <1>2, DisjointUnion
<1>6. QED
  BY <1>3, <1>4, <1>5, DisjointUnion

\* A set with one more element.
LEMMA AddOne ==
    ASSUME NEW S, NEW x, IsFiniteSet(S)
    PROVE  /\ Cardinality(S) \in Nat /\ Cardinality(S \cup {x}) \in Nat
           /\ Cardinality(S \cup {x}) <= Cardinality(S) + 1
           /\ x \notin S => Cardinality(S \cup {x}) = Cardinality(S) + 1
<1>1. IsFiniteSet(S \cup {x}) /\
      Cardinality(S \cup {x}) = IF x \in S THEN Cardinality(S) ELSE Cardinality(S) + 1
  BY FS_AddElement
<1>2. Cardinality(S) \in Nat /\ Cardinality(S \cup {x}) \in Nat
  BY <1>1, FS_CardinalityType
<1>3. QED
  BY <1>1, <1>2

\* Popping old emissions leaves no more of either kind.
LEMMA RecentFewer ==
    ASSUME LimitInv, IsFiniteSet(Admitted)
    PROVE  /\ IsFiniteSet(Recent)
           /\ Cardinality({e \in Recent : ~e.required}) <= MaxOrdinary
           /\ Cardinality({e \in Recent : e.required}) <= Cardinality(Admitted)
<1> DEFINE ordinary == {e \in emissions : ~e.required}
           required == {e \in emissions : e.required}
           lessOrdinary == {e \in Recent : ~e.required}
           lessRequired == {e \in Recent : e.required}
<1>1. /\ IsFiniteSet(emissions) /\ Cardinality(ordinary) <= MaxOrdinary
      /\ Cardinality(required) <= Cardinality(Admitted)
  BY DEF LimitInv
<1>2. /\ Recent \subseteq emissions /\ ordinary \subseteq emissions /\ required \subseteq emissions
      /\ lessOrdinary \subseteq ordinary /\ lessRequired \subseteq required
  BY DEF Recent
<1> HIDE DEF ordinary, required, lessOrdinary, lessRequired
<1>3. IsFiniteSet(Recent) /\ IsFiniteSet(ordinary) /\ IsFiniteSet(required)
  BY <1>1, <1>2, FS_Subset
<1>4. IsFiniteSet(lessOrdinary) /\ Cardinality(lessOrdinary) <= Cardinality(ordinary)
  BY <1>2, <1>3, FS_Subset
<1>5. IsFiniteSet(lessRequired) /\ Cardinality(lessRequired) <= Cardinality(required)
  BY <1>2, <1>3, FS_Subset
<1>6. /\ Cardinality(ordinary) \in Nat /\ Cardinality(required) \in Nat
      /\ Cardinality(lessOrdinary) \in Nat /\ Cardinality(lessRequired) \in Nat
      /\ Cardinality(Admitted) \in Nat
  BY <1>3, <1>4, <1>5, FS_CardinalityType
<1>7. Cardinality(lessOrdinary) <= MaxOrdinary /\ Cardinality(lessRequired) <= Cardinality(Admitted)
  BY <1>1, <1>4, <1>5, <1>6, LimitAssumption
<1>8. QED
  BY <1>3, <1>7 DEF lessOrdinary, lessRequired

\* There is always room for a required event: the ordinary ones keep to their
\* own limit, and the required ones before it had other labels.
LEMMA RequiredAdmitted ==
    ASSUME TypeOK, CallInv, OnceInv, LimitInv, call.step = "throttle", call.required
    PROVE  Admits(call.required)
<1> DEFINE ordinary == {e \in emissions : ~e.required}
           required == {e \in emissions : e.required}
<1>1. call.label \in RequiredLabel \ seen.sent
  BY DEF TypeOK, CallInv, OnceInv, OwnEvents, RequiredLabel
<1>2. Cardinality(RequiredLabel) = 6 /\ IsFiniteSet(RequiredLabel)
  BY LabelsFinite
<1>3. Cardinality(seen.sent) < 6
  <2>1. seen.sent \subseteq RequiredLabel /\ seen.sent # RequiredLabel
    BY <1>1 DEF TypeOK
  <2>2. IsFiniteSet(seen.sent) /\ Cardinality(seen.sent) <= 6 /\ Cardinality(seen.sent) # 6
    BY <1>2, <2>1, FS_Subset
  <2>3. QED
    BY <2>2, FS_CardinalityType
<1>4. Cardinality(required) <= Cardinality(seen.sent)
  BY DEF LimitInv, Admitted
<1>5. Cardinality(ordinary) <= MaxOrdinary
  BY DEF LimitInv
<1>6. /\ IsFiniteSet(ordinary) /\ IsFiniteSet(required) /\ IsFiniteSet(emissions)
      /\ emissions = ordinary \cup required /\ ordinary \cap required = {}
  <2>1. IsFiniteSet(emissions)
    BY DEF LimitInv
  <2>2. QED
    BY <2>1, FS_Subset
<1>7. Cardinality(emissions) = Cardinality(ordinary) + Cardinality(required)
  <2> HIDE DEF ordinary, required
  <2>1. QED
    BY <1>6, DisjointUnion
<1>8. Recent \subseteq emissions
  BY DEF Recent
<1>9. Cardinality(Recent) <= Cardinality(emissions) /\ IsFiniteSet(Recent)
  BY <1>6, <1>8, FS_Subset
<1>10. /\ Cardinality(Recent) \in Nat /\ Cardinality(emissions) \in Nat
       /\ Cardinality(ordinary) \in Nat /\ Cardinality(required) \in Nat
       /\ Cardinality(seen.sent) \in Nat
  <2>1. IsFiniteSet(seen.sent)
    BY <1>2, FS_Subset DEF TypeOK
  <2>2. QED
    BY <2>1, <1>6, <1>9, FS_CardinalityType
<1>11. QED
  <2> HIDE DEF ordinary, required
  <2>1. Cardinality(Recent) < MaxEvents
    BY <1>3, <1>4, <1>5, <1>7, <1>9, <1>10, LimitAssumption
  <2>2. QED
    BY <2>1 DEF Admits

\* Every required event is emitted once.
LEMMA OnceStep ==
    ASSUME TypeOK, CountTypes, ThreadTypes, CallTypes, SeenTypes, CallInv, StageInv, FlagInv,
           LimitInv, OnceInv, [Next]_vars
    PROVE  OnceInv'
<1>1. CASE Tick
  BY <1>1 DEF Tick, OnceInv, FlagInv, StageInv, CallInv, OwnEvents, NoCall, NoEvent,
     Joining, Early, Late, Taken, workers
<1>2. CASE Admit
  BY <1>2 DEF Admit, EmitFrame, OnceInv, FlagInv, StageInv, CallInv, OwnEvents, NoCall,
     NoEvent, Joining, Early, Late, Taken, workers
<1>3. CASE Drop
  BY <1>3, RequiredAdmitted DEF Drop, AfterEmit, EmitFrame, OnceInv, FlagInv, StageInv,
     CallInv, OwnEvents, NoCall, NoEvent, Joining, Early, Late, Taken, workers, CallTypes,
     ThreadTypes
<1>4. CASE Deliver
  <2>1. /\ call' = NoCall /\ seen'.sent = seen.sent \cup Announced
        /\ seen'.last = call.event
        /\ UNCHANGED <<flag, writingEmitted, tookScan>>
    BY <1>4 DEF Deliver, AfterEmit, EmitFrame, SeenTypes
  <2>2. CASE progress = "emit"
    <3>1. caller' = caller /\ caller \in Joining /\ progress' # "decide"
      BY <1>4, <2>2 DEF Deliver, AfterEmit, StageInv
    <3>2. Announced = {call.label} \ {"none"} /\ call.label \in {"none", "scanned", "writing"}
      BY <2>2 DEF Announced, CallInv
    <3>3. QED
      BY <2>1, <2>2, <3>1, <3>2 DEF OnceInv, Joining, Late, Taken, NoCall
  <2>3. CASE progress # "emit"
    <3>1. caller = "emitting" /\ call.label \in OwnEvents /\ call.event.phase = call.label
      BY <1>4, <2>3 DEF Deliver, CallInv
    <3>2. /\ progress' = progress
          /\ call.label = "preparing" => caller' \in {"prepared", "failed"}
          /\ call.label = "scanning" => caller' \in {"spawn", "failed"}
          /\ call.label = "finalizing" => caller' \in {"publish", "failed"}
          /\ call.label = "complete" => caller' = "returned"
      BY <1>4, <2>3, <3>1 DEF Deliver, AfterEmit, OwnEvents
    <3>3. Announced = {call.label}
      BY <3>1 DEF Announced, CallInv
    <3>4. progress # "decide"
      BY <3>1 DEF StageInv, Joining
    <3>5. flag.scanComplete <=> flag.scanPending \/ "scanned" \in seen.sent
      BY <3>1, <3>4 DEF OnceInv, Taken, OwnEvents
    <3>6. CASE call.label = "preparing"
      <4>1. seen'.sent = {"preparing"} /\ flag.scanComplete = flag.scanPending
        BY <2>1, <3>1, <3>3, <3>5, <3>6 DEF OnceInv, CountTypes
      <4>2. "scanned" \in seen'.sent <=> "scanned" \in seen.sent
        BY <2>1, <3>3, <3>6
      <4>3. "writing" \in seen'.sent <=> "writing" \in seen.sent
        BY <2>1, <3>3, <3>6
      <4>4. caller' \in {"prepared", "failed"} /\ progress' # "decide" /\ call'.label = "none"
        BY <2>1, <3>2, <3>4, <3>6 DEF NoCall
      <4>5. "complete" \notin seen'.sent /\ ~Taken'
        BY <4>1, <4>4 DEF Taken
      <4>6. /\ flag.scanPending => "scanned" \notin seen.sent
            /\ "writing" \in seen.sent => writingEmitted
        BY <3>1 DEF OnceInv
      <4>7. QED
        BY <2>1, <3>5, <4>1, <4>2, <4>3, <4>4, <4>5, <4>6 DEF OnceInv, Joining, Late
    <3>7. CASE call.label = "scanning"
      <4>1. seen'.sent = {"preparing", "scanning"} /\ flag.scanComplete = flag.scanPending
        BY <2>1, <3>1, <3>3, <3>5, <3>7 DEF OnceInv, CountTypes
      <4>2. "scanned" \in seen'.sent <=> "scanned" \in seen.sent
        BY <2>1, <3>3, <3>7
      <4>3. "writing" \in seen'.sent <=> "writing" \in seen.sent
        BY <2>1, <3>3, <3>7
      <4>4. caller' \in {"spawn", "failed"} /\ progress' # "decide" /\ call'.label = "none"
        BY <2>1, <3>2, <3>4, <3>7 DEF NoCall
      <4>5. "complete" \notin seen'.sent /\ ~Taken'
        BY <4>1, <4>4 DEF Taken
      <4>6. /\ flag.scanPending => "scanned" \notin seen.sent
            /\ "writing" \in seen.sent => writingEmitted
        BY <3>1 DEF OnceInv
      <4>7. QED
        BY <2>1, <3>5, <4>1, <4>2, <4>3, <4>4, <4>5, <4>6 DEF OnceInv, Joining, Late
    <3>8. CASE call.label = "finalizing"
      <4>1. "complete" \notin seen'.sent /\ {"preparing", "scanning"} \subseteq seen'.sent
        BY <2>1, <3>1, <3>3, <3>5, <3>8 DEF OnceInv, Late, CountTypes
      <4>2. "scanned" \in seen'.sent <=> "scanned" \in seen.sent
        BY <2>1, <3>3, <3>8
      <4>3. "writing" \in seen'.sent <=> "writing" \in seen.sent
        BY <2>1, <3>3, <3>8
      <4>4. caller' \in {"publish", "failed"} /\ progress' # "decide" /\ call'.label = "none"
        BY <2>1, <3>2, <3>4, <3>8 DEF NoCall
      <4>5. "complete" \notin seen'.sent /\ ~Taken'
        BY <4>1, <4>4 DEF Taken
      <4>6. /\ flag.scanPending => "scanned" \notin seen.sent
            /\ "writing" \in seen.sent => writingEmitted
        BY <3>1 DEF OnceInv
      <4>7. QED
        BY <2>1, <3>5, <4>1, <4>2, <4>3, <4>4, <4>5, <4>6 DEF OnceInv, Joining, Late
    <3>9. CASE call.label = "complete"
      BY <2>1, <3>1, <3>2, <3>3, <3>4, <3>5, <3>9 DEF OnceInv, Joining, Late, Taken, NoCall
    <3>10. QED
      BY <3>1, <3>6, <3>7, <3>8, <3>9 DEF OwnEvents
  <2>4. QED
    BY <2>2, <2>3
<1>5. CASE LoadFlag
  BY <1>5 DEF LoadFlag, LoadStep, EmitFrame, OnceInv, FlagInv, StageInv, CallInv, OwnEvents,
     NoCall, NoEvent, Joining, Early, Late, Taken, workers
<1>6. CASE LoadDiscovered
  BY <1>6 DEF LoadDiscovered, LoadStep, EmitFrame, OnceInv, FlagInv, StageInv, CallInv,
     OwnEvents, NoCall, NoEvent, Joining, Early, Late, Taken, workers
<1>7. CASE LoadProcessed
  BY <1>7 DEF LoadProcessed, LoadStep, EmitFrame, OnceInv, FlagInv, StageInv, CallInv,
     OwnEvents, NoCall, NoEvent, Joining, Early, Late, Taken, workers
<1>8. CASE LoadBytes
  BY <1>8 DEF LoadBytes, LoadStep, EmitFrame, OnceInv, FlagInv, StageInv, CallInv,
     OwnEvents, NoCall, NoEvent, Joining, Early, Late, Taken, workers
<1>9. CASE LoadTotals
  BY <1>9 DEF LoadTotals, LoadStep, EmitFrame, OnceInv, FlagInv, StageInv, CallInv,
     OwnEvents, NoCall, NoEvent, Joining, Early, Late, Taken, workers
<1>10. CASE DiscoverEntry
  BY <1>10 DEF DiscoverEntry, CounterFrame, OnceInv, FlagInv, StageInv, CallInv, OwnEvents,
     NoCall, NoEvent, Joining, Early, Late, Taken, workers
<1>11. CASE DiscoverBytes
  BY <1>11 DEF DiscoverBytes, CounterFrame, OnceInv, FlagInv, StageInv, CallInv, OwnEvents,
     NoCall, NoEvent, Joining, Early, Late, Taken, workers
<1>12. CASE NotifyDiscovered
  BY <1>12 DEF NotifyDiscovered, CounterFrame, Notify, NotifyOne, OnceInv, FlagInv,
     StageInv, CallInv, OwnEvents, NoCall, NoEvent, Joining, Early, Late, Taken, workers
<1>13. CASE PushEntry
  BY <1>13 DEF PushEntry, CounterFrame, OnceInv, FlagInv, StageInv, CallInv, OwnEvents,
     NoCall, NoEvent, Joining, Early, Late, Taken, workers
<1>14. CASE MarkScanComplete
  BY <1>14 DEF MarkScanComplete, CounterFrame, NotifyOne, OnceInv, FlagInv, StageInv,
     CallInv, OwnEvents, NoCall, NoEvent, Joining, Early, Late, Taken, workers
<1>15. CASE ScannerStops
  BY <1>15 DEF ScannerStops, CounterFrame, OnceInv, FlagInv, StageInv, CallInv, OwnEvents,
     NoCall, NoEvent, Joining, Early, Late, Taken, workers
<1>16. ASSUME NEW w \in Worker, TakeEntry(w) PROVE OnceInv'
  BY <1>16 DEF TakeEntry, WorkerMoves, CounterFrame, OnceInv, FlagInv, StageInv, CallInv,
     OwnEvents, NoCall, NoEvent, Joining, Early, Late, Taken, workers
<1>17. ASSUME NEW w \in Worker, ProcessEntry(w) PROVE OnceInv'
  BY <1>17 DEF ProcessEntry, WorkerMoves, CounterFrame, OnceInv, FlagInv, StageInv, CallInv,
     OwnEvents, NoCall, NoEvent, Joining, Early, Late, Taken, workers
<1>18. ASSUME NEW w \in Worker, ProcessBytes(w) PROVE OnceInv'
  BY <1>18 DEF ProcessBytes, WorkerMoves, CounterFrame, OnceInv, FlagInv, StageInv, CallInv,
     OwnEvents, NoCall, NoEvent, Joining, Early, Late, Taken, workers
<1>19. ASSUME NEW w \in Worker, NotifyProcessed(w) PROVE OnceInv'
  BY <1>19 DEF NotifyProcessed, WorkerMoves, CounterFrame, Notify, NotifyOne, OnceInv,
     FlagInv, StageInv, CallInv, OwnEvents, NoCall, NoEvent, Joining, Early, Late, Taken,
     workers
<1>20. ASSUME NEW w \in Worker, WorkerEnds(w) PROVE OnceInv'
  BY <1>20 DEF WorkerEnds, WorkerMoves, CounterFrame, OnceInv, FlagInv, StageInv, CallInv,
     OwnEvents, NoCall, NoEvent, Joining, Early, Late, Taken, workers
<1>21. CASE RunWait
  BY <1>21 DEF RunWait, RunLocked, RunGoes, RunTakes, RunFrame, OnceInv, FlagInv, StageInv,
     CallInv, OwnEvents, NoCall, NoEvent, Joining, Early, Late, Taken, workers, ThreadTypes,
     CountTypes
<1>22. CASE SpuriousWakeup
  BY <1>22 DEF SpuriousWakeup, RunGoes, RunFrame, OnceInv, FlagInv, StageInv, CallInv,
     OwnEvents, NoCall, NoEvent, Joining, Early, Late, Taken, workers
<1>23. CASE RunDecide
  <2>1. call.label = "none" /\ caller \in Joining
    BY <1>23 DEF RunDecide, CallInv, StageInv, NoCall, Joining
  <2>2. call'.label = IF tookScan THEN "scanned"
                      ELSE IF HasProcessed /\ ~writingEmitted THEN "writing" ELSE "none"
    BY <1>23 DEF RunDecide, Choose, Emit
  <2>3. /\ progress = "decide" /\ progress' = "emit"
        /\ writingEmitted' = (writingEmitted \/ HasProcessed)
        /\ UNCHANGED <<flag, seen, caller, tookScan>>
    BY <1>23 DEF RunDecide, RunGoes, RunFrame
  <2>4. QED
    BY <2>1, <2>2, <2>3 DEF OnceInv, Joining, Late, Taken, CountTypes, ThreadTypes
<1>24. CASE Preparing
  BY <1>24 DEF Preparing, CallerEmits, Emit, CallerFrame, OnceInv, FlagInv, StageInv,
     CallInv, OwnEvents, NoCall, NoEvent, Joining, Early, Late, Taken, workers
<1>25. CASE Scanning
  BY <1>25 DEF Scanning, CallerEmits, Emit, CallerFrame, OnceInv, FlagInv, StageInv,
     CallInv, OwnEvents, NoCall, NoEvent, Joining, Early, Late, Taken, workers
<1>26. CASE StartThreads
  BY <1>26 DEF StartThreads, CallerMoves, CallerFrame, OnceInv, FlagInv, StageInv, CallInv,
     OwnEvents, NoCall, NoEvent, Joining, Early, Late, Taken, workers
<1>27. CASE Finish
  BY <1>27 DEF Finish, CallerMoves, CallerFrame, NotifyOne, OnceInv, FlagInv, StageInv,
     CallInv, OwnEvents, NoCall, NoEvent, Joining, Early, Late, Taken, workers
<1>28. CASE LeaveScope
  BY <1>28 DEF LeaveScope, CallerMoves, CallerFrame, OnceInv, FlagInv, StageInv, CallInv,
     OwnEvents, NoCall, NoEvent, Joining, Early, Late, Taken, workers
<1>29. CASE Finalizing
  BY <1>29 DEF Finalizing, CallerEmits, Emit, CallerFrame, OnceInv, FlagInv, StageInv,
     CallInv, OwnEvents, NoCall, NoEvent, Joining, Early, Late, Taken, workers
<1>30. CASE Publish
  BY <1>30 DEF Publish, CallerMoves, CallerFrame, OnceInv, FlagInv, StageInv, CallInv,
     OwnEvents, NoCall, NoEvent, Joining, Early, Late, Taken, workers
<1>31. CASE Complete
  BY <1>31 DEF Complete, CallerEmits, Emit, CallerFrame, OnceInv, FlagInv, StageInv,
     CallInv, OwnEvents, NoCall, NoEvent, Joining, Early, Late, Taken, workers
<1>32. CASE CallerFails
  BY <1>32 DEF CallerFails, CallerMoves, CallerFrame, OnceInv, FlagInv, StageInv, CallInv,
     OwnEvents, NoCall, NoEvent, Joining, Early, Late, Taken, workers
<1>33. CASE Fail
  BY <1>33 DEF Fail, OnceInv, FlagInv, StageInv, CallInv, OwnEvents, NoCall, NoEvent,
     Joining, Early, Late, Taken, workers
<1>34. CASE Cancel
  BY <1>34 DEF Cancel, NotifyOne, OnceInv, FlagInv, StageInv, CallInv, OwnEvents, NoCall,
     NoEvent, Joining, Early, Late, Taken, workers
<1>35. CASE UNCHANGED vars
  BY <1>35 DEF vars, workers, OnceInv, FlagInv, StageInv, CallInv, OwnEvents, NoCall,
     NoEvent, Joining, Early, Late, Taken, workers
<1>36. QED
  BY <1>1, <1>2, <1>3, <1>4, <1>5, <1>6, <1>7, <1>8, <1>9, <1>10, <1>11, <1>12, <1>13,
     <1>14, <1>15, <1>16, <1>17, <1>18, <1>19, <1>20, <1>21, <1>22, <1>23, <1>24, <1>25,
     <1>26, <1>27, <1>28, <1>29, <1>30, <1>31, <1>32, <1>33, <1>34, <1>35 DEF Next,
     EmitStep, ScannerStep, WorkerStep, ProgressStep, CallerStep

\* The window has few ordinary events, and required ones for labels used up.
LEMMA LimitStep ==
    ASSUME TypeOK, CallInv, StageInv, OnceInv, LimitInv, [Next]_vars
    PROVE  LimitInv'
<1>1. CASE Tick
  BY <1>1 DEF Tick, LimitInv, Admitted, Announced, workers
<1>2. CASE Admit
  <2> DEFINE new == [n |-> seen.issued, time |-> clock, required |-> call.required]
             ordinary == {e \in Recent : ~e.required}
             required == {e \in Recent : e.required}
  <2>1. /\ emissions' = Recent \cup {new} /\ seen'.sent = seen.sent
        /\ call'.step = "flag" /\ call'.label = call.label /\ call'.required = call.required
        /\ new.required = call.required
    BY <1>2 DEF Admit, TypeOK
  <2>2. IsFiniteSet(seen.sent) /\ Admitted = seen.sent
    <3>1. seen.sent \in SUBSET RequiredLabel
      BY DEF TypeOK
    <3>2. QED
      BY <1>2, <3>1, LabelsFinite, FS_Subset DEF Admit, Admitted
  <2>3. /\ IsFiniteSet(Recent) /\ Cardinality(ordinary) <= MaxOrdinary
        /\ Cardinality(required) <= Cardinality(seen.sent)
    BY <2>2, RecentFewer
  <2>4. IsFiniteSet(ordinary)
    BY <2>3, FS_Subset
  <2>5. IsFiniteSet(required)
    BY <2>3, FS_Subset
  <2>6. IsFiniteSet(emissions')
    BY <2>1, <2>3, FS_AddElement
  <2> HIDE DEF new
  <2>7. CASE call.required
    <3>1. {e \in emissions' : ~e.required} = ordinary
      BY <2>1, <2>7
    <3>2. {e \in emissions' : e.required} = required \cup {new}
      BY <2>1, <2>7
    <3>3. Admitted' = seen.sent \cup {call.label}
      BY <2>1, <2>7 DEF Admitted, Announced
    <3>4. call.label \notin seen.sent
      BY <1>2, <2>7 DEF Admit, TypeOK, CallInv, OnceInv, OwnEvents
    <3>5. Cardinality(required \cup {new}) <= Cardinality(seen.sent \cup {call.label})
      <4> HIDE DEF required
      <4>1. /\ Cardinality(required \cup {new}) <= Cardinality(required) + 1
            /\ Cardinality(required) \in Nat /\ Cardinality(required \cup {new}) \in Nat
        BY <2>5, AddOne
      <4>2. /\ Cardinality(seen.sent \cup {call.label}) = Cardinality(seen.sent) + 1
            /\ Cardinality(seen.sent) \in Nat
        BY <2>2, <3>4, AddOne
      <4>3. QED
        BY <2>3, <4>1, <4>2
    <3>6. QED
      BY <2>3, <2>6, <3>1, <3>2, <3>3, <3>5 DEF LimitInv
  <2>8. CASE ~call.required
    <3>1. {e \in emissions' : ~e.required} = ordinary \cup {new}
      BY <2>1, <2>8
    <3>2. {e \in emissions' : e.required} = required
      BY <2>1, <2>8
    <3>3. Admitted' = seen.sent
      BY <2>1, <2>8 DEF Admitted, Announced
    <3>4. Cardinality(ordinary) < MaxOrdinary
      BY <1>2, <2>8 DEF Admit, Admits
    <3>5. Cardinality(ordinary \cup {new}) <= MaxOrdinary
      <4> HIDE DEF ordinary
      <4>1. /\ Cardinality(ordinary \cup {new}) <= Cardinality(ordinary) + 1
            /\ Cardinality(ordinary) \in Nat /\ Cardinality(ordinary \cup {new}) \in Nat
        BY <2>4, AddOne
      <4>2. QED
        BY <3>4, <4>1, LimitAssumption
    <3>6. QED
      BY <2>3, <2>6, <3>1, <3>2, <3>3, <3>5 DEF LimitInv
  <2>9. QED
    BY <2>7, <2>8
<1>3. CASE Drop
  <2>1. emissions' = Recent /\ seen'.sent = seen.sent /\ call' = NoCall
    BY <1>3 DEF Drop, AfterEmit, TypeOK
  <2>2. Admitted = seen.sent /\ Admitted' = seen.sent
    BY <1>3, <2>1 DEF Drop, Admitted, NoCall
  <2>3. IsFiniteSet(seen.sent)
    <3>1. seen.sent \in SUBSET RequiredLabel
      BY DEF TypeOK
    <3>2. QED
      BY <3>1, LabelsFinite, FS_Subset
  <2>4. /\ IsFiniteSet(Recent)
        /\ Cardinality({e \in Recent : ~e.required}) <= MaxOrdinary
        /\ Cardinality({e \in Recent : e.required}) <= Cardinality(seen.sent)
    BY <2>2, <2>3, RecentFewer
  <2>5. QED
    BY <2>1, <2>2, <2>4 DEF LimitInv
<1>4. CASE Deliver
  <2>1. emissions' = emissions /\ seen'.sent = seen.sent \cup Announced /\ call' = NoCall
    BY <1>4 DEF Deliver, AfterEmit, TypeOK
  <2>2. Admitted' = Admitted
    BY <1>4, <2>1 DEF Deliver, Admitted, NoCall
  <2>3. QED
    BY <2>1, <2>2 DEF LimitInv
<1>5. CASE LoadFlag
  BY <1>5 DEF LoadFlag, LoadStep, EmitFrame, LimitInv, Admitted, Announced, workers
<1>6. CASE LoadDiscovered
  BY <1>6 DEF LoadDiscovered, LoadStep, EmitFrame, LimitInv, Admitted, Announced, workers
<1>7. CASE LoadProcessed
  BY <1>7 DEF LoadProcessed, LoadStep, EmitFrame, LimitInv, Admitted, Announced, workers
<1>8. CASE LoadBytes
  BY <1>8 DEF LoadBytes, LoadStep, EmitFrame, LimitInv, Admitted, Announced, workers
<1>9. CASE LoadTotals
  BY <1>9 DEF LoadTotals, LoadStep, EmitFrame, LimitInv, Admitted, Announced, workers
<1>10. CASE DiscoverEntry
  BY <1>10 DEF DiscoverEntry, CounterFrame, LimitInv, Admitted, Announced, workers
<1>11. CASE DiscoverBytes
  BY <1>11 DEF DiscoverBytes, CounterFrame, LimitInv, Admitted, Announced, workers
<1>12. CASE NotifyDiscovered
  BY <1>12 DEF NotifyDiscovered, CounterFrame, Notify, NotifyOne, LimitInv, Admitted,
     Announced, workers
<1>13. CASE PushEntry
  BY <1>13 DEF PushEntry, CounterFrame, LimitInv, Admitted, Announced, workers
<1>14. CASE MarkScanComplete
  BY <1>14 DEF MarkScanComplete, CounterFrame, NotifyOne, LimitInv, Admitted, Announced,
     workers
<1>15. CASE ScannerStops
  BY <1>15 DEF ScannerStops, CounterFrame, LimitInv, Admitted, Announced, workers
<1>16. ASSUME NEW w \in Worker, TakeEntry(w) PROVE LimitInv'
  BY <1>16 DEF TakeEntry, WorkerMoves, CounterFrame, LimitInv, Admitted, Announced, workers
<1>17. ASSUME NEW w \in Worker, ProcessEntry(w) PROVE LimitInv'
  BY <1>17 DEF ProcessEntry, WorkerMoves, CounterFrame, LimitInv, Admitted, Announced,
     workers
<1>18. ASSUME NEW w \in Worker, ProcessBytes(w) PROVE LimitInv'
  BY <1>18 DEF ProcessBytes, WorkerMoves, CounterFrame, LimitInv, Admitted, Announced,
     workers
<1>19. ASSUME NEW w \in Worker, NotifyProcessed(w) PROVE LimitInv'
  BY <1>19 DEF NotifyProcessed, WorkerMoves, CounterFrame, Notify, NotifyOne, LimitInv,
     Admitted, Announced, workers
<1>20. ASSUME NEW w \in Worker, WorkerEnds(w) PROVE LimitInv'
  BY <1>20 DEF WorkerEnds, WorkerMoves, CounterFrame, LimitInv, Admitted, Announced, workers
<1>21. CASE RunWait
  BY <1>21 DEF RunWait, RunLocked, RunGoes, RunTakes, RunFrame, LimitInv, Admitted,
     Announced, workers
<1>22. CASE SpuriousWakeup
  BY <1>22 DEF SpuriousWakeup, RunGoes, RunFrame, LimitInv, Admitted, Announced, workers
<1>23. CASE RunDecide
  <2>1. call.step = "idle"
    BY <1>23 DEF RunDecide, CallInv, StageInv, Joining
  <2>2. call'.step = "throttle" /\ UNCHANGED <<emissions, seen>>
    BY <1>23 DEF RunDecide, Choose, Emit, RunFrame
  <2>3. QED
    BY <2>1, <2>2 DEF LimitInv, Admitted
<1>24. CASE Preparing
  BY <1>24 DEF Preparing, CallerEmits, Emit, CallerFrame, LimitInv, Admitted, Announced,
     workers, CallInv, StageInv, Early, Late, Joining
<1>25. CASE Scanning
  BY <1>25 DEF Scanning, CallerEmits, Emit, CallerFrame, LimitInv, Admitted, Announced,
     workers, CallInv, StageInv, Early, Late, Joining
<1>26. CASE StartThreads
  BY <1>26 DEF StartThreads, CallerMoves, CallerFrame, LimitInv, Admitted, Announced,
     workers
<1>27. CASE Finish
  BY <1>27 DEF Finish, CallerMoves, CallerFrame, NotifyOne, LimitInv, Admitted, Announced,
     workers
<1>28. CASE LeaveScope
  BY <1>28 DEF LeaveScope, CallerMoves, CallerFrame, LimitInv, Admitted, Announced, workers
<1>29. CASE Finalizing
  BY <1>29 DEF Finalizing, CallerEmits, Emit, CallerFrame, LimitInv, Admitted, Announced,
     workers, CallInv, StageInv, Early, Late, Joining
<1>30. CASE Publish
  BY <1>30 DEF Publish, CallerMoves, CallerFrame, LimitInv, Admitted, Announced, workers
<1>31. CASE Complete
  BY <1>31 DEF Complete, CallerEmits, Emit, CallerFrame, LimitInv, Admitted, Announced,
     workers, CallInv, StageInv, Early, Late, Joining
<1>32. CASE CallerFails
  BY <1>32 DEF CallerFails, CallerMoves, CallerFrame, LimitInv, Admitted, Announced, workers
<1>33. CASE Fail
  BY <1>33 DEF Fail, LimitInv, Admitted, Announced, workers
<1>34. CASE Cancel
  BY <1>34 DEF Cancel, NotifyOne, LimitInv, Admitted, Announced, workers
<1>35. CASE UNCHANGED vars
  BY <1>35 DEF vars, workers, LimitInv, Admitted, Announced, workers
<1>36. QED
  BY <1>1, <1>2, <1>3, <1>4, <1>5, <1>6, <1>7, <1>8, <1>9, <1>10, <1>11, <1>12, <1>13,
     <1>14, <1>15, <1>16, <1>17, <1>18, <1>19, <1>20, <1>21, <1>22, <1>23, <1>24, <1>25,
     <1>26, <1>27, <1>28, <1>29, <1>30, <1>31, <1>32, <1>33, <1>34, <1>35 DEF Next,
     EmitStep, ScannerStep, WorkerStep, ProgressStep, CallerStep
-----------------------------------------------------------------------------
(* The counters *)

\* The workers that have taken an entry and not counted it.
Busy == {w \in Worker : worker[w] = "entries"}

\* There are finitely many of them.
LEMMA BusyCount == Cardinality(Busy) \in Nat
<1>1. IsFiniteSet(Busy)
  BY WorkerAssumption, FS_Subset DEF Busy
<1>2. QED
  BY <1>1, FS_CardinalityType

\* A worker that takes an entry becomes busy, one that counts it no longer is.
LEMMA BusyMoves ==
    ASSUME TypeOK, NEW w \in Worker, NEW from, NEW to, WorkerMoves(w, from, to)
    PROVE  /\ Cardinality(Busy) \in Nat /\ Cardinality(Busy') \in Nat
           /\ from # "entries" /\ to # "entries" => Cardinality(Busy') = Cardinality(Busy)
           /\ from # "entries" /\ to = "entries" => Cardinality(Busy') = Cardinality(Busy) + 1
           /\ from = "entries" /\ to # "entries" => Cardinality(Busy') + 1 = Cardinality(Busy)
<1>1. /\ worker[w] = from /\ worker' = [worker EXCEPT ![w] = to]
      /\ worker \in [Worker -> {"unborn", "pop", "entries", "bytes", "notify", "done"}]
  BY DEF WorkerMoves, TypeOK
<1>2. IsFiniteSet(Busy)
  BY WorkerAssumption, FS_Subset DEF Busy
<1>3. IsFiniteSet(Busy')
  BY WorkerAssumption, FS_Subset DEF Busy
<1>4. from # "entries" /\ to # "entries" => Busy' = Busy
  BY <1>1 DEF Busy
<1>5. from # "entries" /\ to = "entries" => Busy' = Busy \cup {w} /\ w \notin Busy
  BY <1>1 DEF Busy
<1>6. from = "entries" /\ to # "entries" => Busy = Busy' \cup {w} /\ w \notin Busy'
  BY <1>1 DEF Busy
<1>7. QED
  BY <1>2, <1>3, <1>4, <1>5, <1>6, AddOne, FS_CardinalityType

\* An entry is counted as discovered before it can be counted as processed.
LEMMA FlowStep ==
    ASSUME TypeOK, StageInv, FlowInv, [Next]_vars
    PROVE  FlowInv'
<1>1. CASE Tick
  BY <1>1 DEF Tick, FlowInv, workers
<1>2. CASE Admit
  BY <1>2 DEF Admit, EmitFrame, FlowInv, workers
<1>3. CASE Drop
  BY <1>3 DEF Drop, AfterEmit, EmitFrame, FlowInv, workers
<1>4. CASE Deliver
  BY <1>4 DEF Deliver, AfterEmit, EmitFrame, FlowInv, workers
<1>5. CASE LoadFlag
  BY <1>5 DEF LoadFlag, LoadStep, EmitFrame, FlowInv, workers
<1>6. CASE LoadDiscovered
  BY <1>6 DEF LoadDiscovered, LoadStep, EmitFrame, FlowInv, workers
<1>7. CASE LoadProcessed
  BY <1>7 DEF LoadProcessed, LoadStep, EmitFrame, FlowInv, workers
<1>8. CASE LoadBytes
  BY <1>8 DEF LoadBytes, LoadStep, EmitFrame, FlowInv, workers
<1>9. CASE LoadTotals
  BY <1>9 DEF LoadTotals, LoadStep, EmitFrame, FlowInv, workers
<1>10. CASE DiscoverEntry
  BY <1>10, BusyCount DEF DiscoverEntry, CounterFrame, FlowInv, workers, TypeOK, Busy
<1>11. CASE DiscoverBytes
  BY <1>11 DEF DiscoverBytes, CounterFrame, FlowInv, workers
<1>12. CASE NotifyDiscovered
  BY <1>12 DEF NotifyDiscovered, CounterFrame, Notify, NotifyOne, FlowInv, workers
<1>13. CASE PushEntry
  BY <1>13, BusyCount DEF PushEntry, CounterFrame, FlowInv, workers, TypeOK, Busy
<1>14. CASE MarkScanComplete
  BY <1>14, BusyCount DEF MarkScanComplete, CounterFrame, NotifyOne, FlowInv, workers,
     TypeOK, Busy
<1>15. CASE ScannerStops
  BY <1>15, BusyCount DEF ScannerStops, CounterFrame, FlowInv, workers, TypeOK, Busy
<1>16. ASSUME NEW w \in Worker, TakeEntry(w) PROVE FlowInv'
  <2>1. \/ WorkerMoves(w, "pop", "entries") /\ Cardinality(Busy') = Cardinality(Busy) + 1
        \/ WorkerMoves(w, "pop", "pop") /\ Cardinality(Busy') = Cardinality(Busy)
    BY <1>16, BusyMoves DEF TakeEntry
  <2>2. UNCHANGED <<count, scanner>> /\ queued' = queued - 1
    BY <1>16 DEF TakeEntry, WorkerMoves
  <2>3. QED
    BY <2>1, <2>2, BusyCount DEF FlowInv, Busy, TypeOK
<1>17. ASSUME NEW w \in Worker, ProcessEntry(w) PROVE FlowInv'
  <2>1. Cardinality(Busy') + 1 = Cardinality(Busy) /\ Cardinality(Busy') \in Nat
    BY <1>17, BusyMoves DEF ProcessEntry
  <2>2. /\ UNCHANGED <<scanner, queued>> /\ count'.discovered = count.discovered
        /\ count'.processed = count.processed + 1
    BY <1>17 DEF ProcessEntry, WorkerMoves, TypeOK
  <2>3. QED
    BY <2>1, <2>2, BusyCount DEF FlowInv, Busy, TypeOK
<1>18. ASSUME NEW w \in Worker, ProcessBytes(w) PROVE FlowInv'
  <2>1. Cardinality(Busy') = Cardinality(Busy)
    BY <1>18, BusyMoves DEF ProcessBytes
  <2>2. /\ UNCHANGED <<scanner, queued>> /\ count'.discovered = count.discovered
        /\ count'.processed = count.processed
    BY <1>18 DEF ProcessBytes, WorkerMoves, TypeOK
  <2>3. QED
    BY <2>1, <2>2 DEF FlowInv, Busy
<1>19. ASSUME NEW w \in Worker, NotifyProcessed(w) PROVE FlowInv'
  <2>1. WorkerMoves(w, "notify", "pop") /\ UNCHANGED <<queued, count>>
    BY <1>19 DEF NotifyProcessed
  <2>2. Cardinality(Busy') = Cardinality(Busy)
    BY <2>1, BusyMoves
  <2>3. QED
    BY <2>1, <2>2 DEF FlowInv, Busy, WorkerMoves
<1>20. ASSUME NEW w \in Worker, WorkerEnds(w) PROVE FlowInv'
  <2>1. WorkerMoves(w, "pop", "done") /\ UNCHANGED <<queued, count>>
    BY <1>20 DEF WorkerEnds
  <2>2. Cardinality(Busy') = Cardinality(Busy)
    BY <2>1, BusyMoves
  <2>3. QED
    BY <2>1, <2>2 DEF FlowInv, Busy, WorkerMoves
<1>21. CASE RunWait
  BY <1>21 DEF RunWait, RunLocked, RunGoes, RunTakes, RunFrame, FlowInv, workers
<1>22. CASE SpuriousWakeup
  BY <1>22 DEF SpuriousWakeup, RunGoes, RunFrame, FlowInv, workers
<1>23. CASE RunDecide
  BY <1>23 DEF RunDecide, Choose, Emit, Phase, HasProcessed, RunGoes, RunFrame, FlowInv,
     workers
<1>24. CASE Preparing
  BY <1>24 DEF Preparing, CallerEmits, Emit, CallerFrame, FlowInv, workers
<1>25. CASE Scanning
  BY <1>25 DEF Scanning, CallerEmits, Emit, CallerFrame, FlowInv, workers
<1>26. CASE StartThreads
  <2>1. {w \in Worker : worker[w] = "entries"} = {w \in Worker : worker'[w] = "entries"}
    BY <1>26 DEF StartThreads, CallerMoves, StageInv, Early
  <2>2. QED
    BY <1>26, <2>1 DEF StartThreads, CallerMoves, CallerFrame, FlowInv, StageInv, Early
<1>27. CASE Finish
  BY <1>27 DEF Finish, CallerMoves, CallerFrame, NotifyOne, FlowInv, workers
<1>28. CASE LeaveScope
  BY <1>28 DEF LeaveScope, CallerMoves, CallerFrame, FlowInv, workers
<1>29. CASE Finalizing
  BY <1>29 DEF Finalizing, CallerEmits, Emit, CallerFrame, FlowInv, workers
<1>30. CASE Publish
  BY <1>30 DEF Publish, CallerMoves, CallerFrame, FlowInv, workers
<1>31. CASE Complete
  BY <1>31 DEF Complete, CallerEmits, Emit, CallerFrame, FlowInv, workers
<1>32. CASE CallerFails
  BY <1>32 DEF CallerFails, CallerMoves, CallerFrame, FlowInv, workers
<1>33. CASE Fail
  BY <1>33 DEF Fail, FlowInv, workers
<1>34. CASE Cancel
  BY <1>34 DEF Cancel, NotifyOne, FlowInv, workers
<1>35. CASE UNCHANGED vars
  BY <1>35 DEF vars, workers, FlowInv, workers
<1>36. QED
  BY <1>1, <1>2, <1>3, <1>4, <1>5, <1>6, <1>7, <1>8, <1>9, <1>10, <1>11, <1>12, <1>13,
     <1>14, <1>15, <1>16, <1>17, <1>18, <1>19, <1>20, <1>21, <1>22, <1>23, <1>24, <1>25,
     <1>26, <1>27, <1>28, <1>29, <1>30, <1>31, <1>32, <1>33, <1>34, <1>35 DEF Next,
     EmitStep, ScannerStep, WorkerStep, ProgressStep, CallerStep
-----------------------------------------------------------------------------
(* The events *)

\* What an event and the counters are made of.
LEMMA Numbers ==
    ASSUME TypeOK
    PROVE  /\ count.discovered \in Nat /\ count.discoveredBytes \in Nat
           /\ count.processed \in Nat /\ count.processedBytes \in Nat
           /\ \A e \in {seen.last, call.event} :
                /\ e.discovered \in Nat /\ e.processed \in Nat /\ e.bytes \in Nat
                /\ e.total \in Nat \cup {Absent} /\ e.totalBytes \in Nat \cup {Absent}
                /\ e.phase \in Phases
<1>1. seen.last \in Event /\ call.event \in Event
  BY DEF TypeOK
<1>2. QED
  BY <1>1 DEF TypeOK, Event

\* Events know the counters as they were.
LEMMA EventStep ==
    ASSUME TypeOK, CallInv, StageInv, FlagInv, EventInv, [Next]_vars
    PROVE  EventInv'
<1>1. CASE Tick
  BY <1>1, Numbers DEF Tick, EventInv, Fits, Whole, LoadedDiscovered, LoadedProcessed,
     LoadedBytes, Late, NoCall, NoEvent, Absent, workers
<1>2. CASE Admit
  BY <1>2, Numbers DEF Admit, EmitFrame, EventInv, Fits, Whole, LoadedDiscovered,
     LoadedProcessed, LoadedBytes, Late, NoCall, NoEvent, Absent, workers
<1>3. CASE Drop
  BY <1>3, Numbers DEF Drop, AfterEmit, EmitFrame, EventInv, Fits, Whole, LoadedDiscovered,
     LoadedProcessed, LoadedBytes, Late, NoCall, NoEvent, Absent, workers
<1>4. CASE Deliver
  <2>1. /\ call.step = "callback" /\ call' = NoCall /\ seen'.last = call.event
        /\ UNCHANGED <<count, flag>>
    BY <1>4 DEF Deliver, AfterEmit, EmitFrame, TypeOK
  <2>2. Fits(NoEvent)
    BY Numbers DEF Fits, NoEvent
  <2>3. QED
    BY <2>1, <2>2, Numbers
       DEF EventInv, Fits, Whole, LoadedDiscovered, LoadedProcessed, LoadedBytes, NoCall,
           NoEvent, Absent
<1>5. CASE LoadFlag
  <2>1. /\ call.step = "flag" /\ call'.step = "discovered" /\ call'.label = call.label
        /\ UNCHANGED <<count, flag, seen, caller>>
    BY <1>5 DEF LoadFlag, LoadStep, EmitFrame, TypeOK
  <2>2. /\ call'.event.total = (IF flag.scanComplete THEN 0 ELSE Absent)
        /\ call'.event.phase = call.event.phase /\ call'.event.discovered = call.event.discovered
        /\ call'.event.processed = call.event.processed /\ call'.event.bytes = call.event.bytes
        /\ call'.event.totalBytes = call.event.totalBytes
    <3>1. call.event \in Event
      BY DEF TypeOK
    <3>2. call'.event = [call.event EXCEPT !.total = (IF flag.scanComplete THEN 0 ELSE Absent)]
      BY <1>5 DEF LoadFlag, LoadStep, TypeOK
    <3>3. QED
      BY <3>1, <3>2 DEF Event
  <2>3. QED
    BY <2>1, <2>2, Numbers
       DEF EventInv, Fits, Whole, LoadedDiscovered, LoadedProcessed, LoadedBytes, Late, Absent,
           StageInv, FlagInv
<1>6. CASE LoadDiscovered
  <2>1. /\ call.step = "discovered" /\ call'.step = "processed" /\ call'.label = call.label
        /\ UNCHANGED <<count, flag, seen, caller>>
    BY <1>6 DEF LoadDiscovered, LoadStep, EmitFrame, TypeOK
  <2>2. /\ call'.event.discovered = count.discovered
        /\ call'.event.phase = call.event.phase /\ call'.event.processed = call.event.processed
        /\ call'.event.bytes = call.event.bytes /\ call'.event.total = call.event.total
        /\ call'.event.totalBytes = call.event.totalBytes
    <3>1. call.event \in Event
      BY DEF TypeOK
    <3>2. call'.event = [call.event EXCEPT !.discovered = count.discovered]
      BY <1>6 DEF LoadDiscovered, LoadStep, TypeOK
    <3>3. QED
      BY <3>1, <3>2 DEF Event
  <2>3. QED
    BY <2>1, <2>2, Numbers
       DEF EventInv, Fits, Whole, LoadedDiscovered, LoadedProcessed, LoadedBytes, Late, Absent
<1>7. CASE LoadProcessed
  <2>1. /\ call.step = "processed" /\ call'.step = "bytes" /\ call'.label = call.label
        /\ UNCHANGED <<count, flag, seen, caller>>
    BY <1>7 DEF LoadProcessed, LoadStep, EmitFrame, TypeOK
  <2>2. /\ call'.event.processed = count.processed
        /\ call'.event.phase = call.event.phase /\ call'.event.discovered = call.event.discovered
        /\ call'.event.bytes = call.event.bytes /\ call'.event.total = call.event.total
        /\ call'.event.totalBytes = call.event.totalBytes
    <3>1. call.event \in Event
      BY DEF TypeOK
    <3>2. call'.event = [call.event EXCEPT !.processed = count.processed]
      BY <1>7 DEF LoadProcessed, LoadStep, TypeOK
    <3>3. QED
      BY <3>1, <3>2 DEF Event
  <2>3. QED
    BY <2>1, <2>2, Numbers
       DEF EventInv, Fits, Whole, LoadedDiscovered, LoadedProcessed, LoadedBytes, Late, Absent
<1>8. CASE LoadBytes
  <2>1. /\ call.step = "bytes" /\ call'.step = "totals" /\ call'.label = call.label
        /\ UNCHANGED <<count, flag, seen, caller>>
    BY <1>8 DEF LoadBytes, LoadStep, EmitFrame, TypeOK
  <2>2. /\ call'.event.bytes = count.processedBytes
        /\ call'.event.phase = call.event.phase /\ call'.event.discovered = call.event.discovered
        /\ call'.event.processed = call.event.processed /\ call'.event.total = call.event.total
        /\ call'.event.totalBytes = call.event.totalBytes
    <3>1. call.event \in Event
      BY DEF TypeOK
    <3>2. call'.event = [call.event EXCEPT !.bytes = count.processedBytes]
      BY <1>8 DEF LoadBytes, LoadStep, TypeOK
    <3>3. QED
      BY <3>1, <3>2 DEF Event
  <2>3. QED
    BY <2>1, <2>2, Numbers
       DEF EventInv, Fits, Whole, LoadedDiscovered, LoadedProcessed, LoadedBytes, Late, Absent
<1>9. CASE LoadTotals
  BY <1>9, Numbers DEF LoadTotals, LoadStep, EmitFrame, EventInv, Fits, Whole,
     LoadedDiscovered, LoadedProcessed, LoadedBytes, Late, NoCall, NoEvent, Absent, workers
<1>10. CASE DiscoverEntry
  <2>1. /\ count'.discovered = count.discovered + 1 /\ count'.processed = count.processed
        /\ count'.discoveredBytes = count.discoveredBytes
        /\ count'.processedBytes = count.processedBytes
        /\ UNCHANGED <<flag, seen, call, caller>> /\ ~flag.scanComplete
    BY <1>10 DEF DiscoverEntry, CounterFrame, FlagInv, TypeOK
  <2>2. QED
    BY <2>1, Numbers
       DEF EventInv, Fits, Whole, LoadedDiscovered, LoadedProcessed, LoadedBytes, Late, Absent
<1>11. CASE DiscoverBytes
  BY <1>11, Numbers, SizesAssumption DEF DiscoverBytes, CounterFrame, EventInv, Fits, Whole,
     LoadedDiscovered, LoadedProcessed, LoadedBytes, Late, NoCall, NoEvent, Absent, workers,
     FlagInv, TypeOK
<1>12. CASE NotifyDiscovered
  BY <1>12, Numbers DEF NotifyDiscovered, CounterFrame, Notify, NotifyOne, EventInv, Fits,
     Whole, LoadedDiscovered, LoadedProcessed, LoadedBytes, Late, NoCall, NoEvent, Absent,
     workers, TypeOK
<1>13. CASE PushEntry
  BY <1>13, Numbers DEF PushEntry, CounterFrame, EventInv, Fits, Whole, LoadedDiscovered,
     LoadedProcessed, LoadedBytes, Late, NoCall, NoEvent, Absent, workers
<1>14. CASE MarkScanComplete
  BY <1>14, Numbers DEF MarkScanComplete, CounterFrame, NotifyOne, EventInv, Fits, Whole,
     LoadedDiscovered, LoadedProcessed, LoadedBytes, Late, NoCall, NoEvent, Absent, workers,
     TypeOK
<1>15. CASE ScannerStops
  BY <1>15, Numbers DEF ScannerStops, CounterFrame, EventInv, Fits, Whole, LoadedDiscovered,
     LoadedProcessed, LoadedBytes, Late, NoCall, NoEvent, Absent, workers
<1>16. ASSUME NEW w \in Worker, TakeEntry(w) PROVE EventInv'
  BY <1>16, Numbers DEF TakeEntry, WorkerMoves, CounterFrame, EventInv, Fits, Whole,
     LoadedDiscovered, LoadedProcessed, LoadedBytes, Late, NoCall, NoEvent, Absent, workers
<1>17. ASSUME NEW w \in Worker, ProcessEntry(w) PROVE EventInv'
  <2>1. /\ count'.discovered = count.discovered /\ count'.processed = count.processed + 1
        /\ count'.discoveredBytes = count.discoveredBytes
        /\ count'.processedBytes = count.processedBytes
        /\ UNCHANGED <<flag, seen, call, caller>> /\ caller = "join"
    BY <1>17 DEF ProcessEntry, WorkerMoves, CounterFrame, StageInv, TypeOK
  <2>2. QED
    BY <2>1, Numbers
       DEF EventInv, Fits, Whole, LoadedDiscovered, LoadedProcessed, LoadedBytes, Late, Absent
<1>18. ASSUME NEW w \in Worker, ProcessBytes(w) PROVE EventInv'
  <2>1. /\ count'.discovered = count.discovered /\ count'.processed = count.processed
        /\ count'.discoveredBytes = count.discoveredBytes
        /\ UNCHANGED <<flag, seen, call, caller>> /\ caller = "join"
    BY <1>18 DEF ProcessBytes, WorkerMoves, CounterFrame, StageInv, TypeOK
  <2>2. \E size \in Nat : count'.processedBytes = count.processedBytes + size
    BY <1>18, SizesAssumption DEF ProcessBytes, TypeOK
  <2>3. QED
    BY <2>1, <2>2, Numbers
       DEF EventInv, Fits, Whole, LoadedDiscovered, LoadedProcessed, LoadedBytes, Late, Absent
<1>19. ASSUME NEW w \in Worker, NotifyProcessed(w) PROVE EventInv'
  BY <1>19, Numbers DEF NotifyProcessed, WorkerMoves, CounterFrame, Notify, NotifyOne,
     EventInv, Fits, Whole, LoadedDiscovered, LoadedProcessed, LoadedBytes, Late, NoCall,
     NoEvent, Absent, workers, TypeOK
<1>20. ASSUME NEW w \in Worker, WorkerEnds(w) PROVE EventInv'
  BY <1>20, Numbers DEF WorkerEnds, WorkerMoves, CounterFrame, EventInv, Fits, Whole,
     LoadedDiscovered, LoadedProcessed, LoadedBytes, Late, NoCall, NoEvent, Absent, workers
<1>21. CASE RunWait
  BY <1>21, Numbers DEF RunWait, RunLocked, RunGoes, RunTakes, RunFrame, EventInv, Fits,
     Whole, LoadedDiscovered, LoadedProcessed, LoadedBytes, Late, NoCall, NoEvent, Absent,
     workers, TypeOK
<1>22. CASE SpuriousWakeup
  BY <1>22, Numbers DEF SpuriousWakeup, RunGoes, RunFrame, EventInv, Fits, Whole,
     LoadedDiscovered, LoadedProcessed, LoadedBytes, Late, NoCall, NoEvent, Absent, workers
<1>23. CASE RunDecide
  BY <1>23, Numbers DEF RunDecide, Choose, Emit, Phase, HasProcessed, RunGoes, RunFrame,
     EventInv, Fits, Whole, LoadedDiscovered, LoadedProcessed, LoadedBytes, Late, NoCall,
     NoEvent, Absent, workers, CallInv, StageInv, FlagInv, Joining
<1>24. CASE Preparing
  BY <1>24, Numbers DEF Preparing, CallerEmits, Emit, CallerFrame, EventInv, Fits, Whole,
     LoadedDiscovered, LoadedProcessed, LoadedBytes, Late, NoCall, NoEvent, Absent, workers,
     CallInv, StageInv, FlagInv, Joining
<1>25. CASE Scanning
  BY <1>25, Numbers DEF Scanning, CallerEmits, Emit, CallerFrame, EventInv, Fits, Whole,
     LoadedDiscovered, LoadedProcessed, LoadedBytes, Late, NoCall, NoEvent, Absent, workers,
     CallInv, StageInv, FlagInv, Joining
<1>26. CASE StartThreads
  BY <1>26, Numbers DEF StartThreads, CallerMoves, CallerFrame, EventInv, Fits, Whole,
     LoadedDiscovered, LoadedProcessed, LoadedBytes, Late, NoCall, NoEvent, Absent, workers,
     CallInv, StageInv, FlagInv, Joining
<1>27. CASE Finish
  BY <1>27, Numbers DEF Finish, CallerMoves, CallerFrame, NotifyOne, EventInv, Fits, Whole,
     LoadedDiscovered, LoadedProcessed, LoadedBytes, Late, NoCall, NoEvent, Absent, workers,
     TypeOK
<1>28. CASE LeaveScope
  BY <1>28, Numbers DEF LeaveScope, CallerMoves, CallerFrame, EventInv, Fits, Whole,
     LoadedDiscovered, LoadedProcessed, LoadedBytes, Late, NoCall, NoEvent, Absent, workers,
     CallInv, StageInv, FlagInv, Joining
<1>29. CASE Finalizing
  BY <1>29, Numbers DEF Finalizing, CallerEmits, Emit, CallerFrame, EventInv, Fits, Whole,
     LoadedDiscovered, LoadedProcessed, LoadedBytes, Late, NoCall, NoEvent, Absent, workers,
     CallInv, StageInv, FlagInv, Joining
<1>30. CASE Publish
  BY <1>30, Numbers DEF Publish, CallerMoves, CallerFrame, EventInv, Fits, Whole,
     LoadedDiscovered, LoadedProcessed, LoadedBytes, Late, NoCall, NoEvent, Absent, workers,
     CallInv, StageInv, FlagInv, Joining
<1>31. CASE Complete
  BY <1>31, Numbers DEF Complete, CallerEmits, Emit, CallerFrame, EventInv, Fits, Whole,
     LoadedDiscovered, LoadedProcessed, LoadedBytes, Late, NoCall, NoEvent, Absent, workers,
     CallInv, StageInv, FlagInv, Joining
<1>32. CASE CallerFails
  BY <1>32, Numbers DEF CallerFails, CallerMoves, CallerFrame, EventInv, Fits, Whole,
     LoadedDiscovered, LoadedProcessed, LoadedBytes, Late, NoCall, NoEvent, Absent, workers,
     CallInv, StageInv, FlagInv, Joining
<1>33. CASE Fail
  BY <1>33, Numbers DEF Fail, EventInv, Fits, Whole, LoadedDiscovered, LoadedProcessed,
     LoadedBytes, Late, NoCall, NoEvent, Absent, workers
<1>34. CASE Cancel
  BY <1>34, Numbers DEF Cancel, NotifyOne, EventInv, Fits, Whole, LoadedDiscovered,
     LoadedProcessed, LoadedBytes, Late, NoCall, NoEvent, Absent, workers, TypeOK
<1>35. CASE UNCHANGED vars
  BY <1>35, Numbers DEF vars, workers, EventInv, Fits, Whole, LoadedDiscovered,
     LoadedProcessed, LoadedBytes, Late, NoCall, NoEvent, Absent, workers
<1>36. QED
  BY <1>1, <1>2, <1>3, <1>4, <1>5, <1>6, <1>7, <1>8, <1>9, <1>10, <1>11, <1>12, <1>13,
     <1>14, <1>15, <1>16, <1>17, <1>18, <1>19, <1>20, <1>21, <1>22, <1>23, <1>24, <1>25,
     <1>26, <1>27, <1>28, <1>29, <1>30, <1>31, <1>32, <1>33, <1>34, <1>35 DEF Next,
     EmitStep, ScannerStep, WorkerStep, ProgressStep, CallerStep
\* The order of the phases.
LEMMA PhaseNumbers ==
    /\ PhaseOrder["none"] = 0 /\ PhaseOrder["preparing"] = 1 /\ PhaseOrder["scanning"] = 2
    /\ PhaseOrder["writing_metadata"] = 3 /\ PhaseOrder["finalizing"] = 4
    /\ PhaseOrder["complete"] = 5
    /\ \A p \in Phases : PhaseOrder[p] \in 0..5
    /\ \A p \in Phases : PhaseOrder[p] = 3 => p = "writing_metadata"
    /\ \A p \in Phases : PhaseOrder[p] = 4 => p = "finalizing"
    /\ \A p \in Phases : PhaseOrder[p] = 5 => p = "complete"
  BY DEF PhaseOrder, Phases

\* Phases come in order.
LEMMA PhaseStep ==
    ASSUME TypeOK, CallInv, StageInv, EventInv, PhaseInv, [Next]_vars
    PROVE  PhaseInv'
<1>1. CASE Tick
  BY <1>1 DEF Tick, PhaseInv, Joining, workers
<1>2. CASE Admit
  BY <1>2 DEF Admit, EmitFrame, PhaseInv, Joining, workers, TypeOK
<1>3. CASE Drop
  <2>1. call' = NoCall /\ seen'.last = seen.last
    BY <1>3 DEF Drop, AfterEmit, TypeOK
  <2>2. CASE progress = "emit"
    BY <1>3, <2>1, <2>2 DEF Drop, AfterEmit, PhaseInv, NoCall
  <2>3. CASE progress # "emit"
    <3>1. caller = "emitting" /\ call.label \in OwnEvents /\ call.event.phase = call.label
      BY <1>3, <2>3 DEF Drop, CallInv
    <3>2. PhaseOrder[seen.last.phase] <= PhaseOrder[call.label]
      BY <1>3, <3>1 DEF Drop, PhaseInv
    <3>3. /\ call.label = "preparing" => caller' = "prepared"
          /\ call.label = "scanning" => caller' = "spawn"
          /\ call.label = "finalizing" => caller' = "publish"
          /\ call.label = "complete" => caller' = "returned"
      BY <1>3, <2>3 DEF Drop, AfterEmit
    <3>4. QED
      BY <2>1, <3>1, <3>2, <3>3, PhaseNumbers DEF PhaseInv, OwnEvents, NoCall, Joining
  <2>4. QED
    BY <2>2, <2>3
<1>4. CASE Deliver
  <2>1. call' = NoCall /\ seen'.last = call.event
    BY <1>4 DEF Deliver, AfterEmit, TypeOK
  <2>2. CASE progress = "emit"
    <3>1. caller' = caller /\ caller \in Joining
      BY <1>4, <2>2 DEF Deliver, AfterEmit, StageInv
    <3>2. call.event.phase \in {"scanning", "writing_metadata"}
      BY <2>2 DEF CallInv
    <3>3. QED
      BY <2>1, <3>1, <3>2, PhaseNumbers DEF PhaseInv, NoCall, Joining
  <2>3. CASE progress # "emit"
    <3>1. caller = "emitting" /\ call.label \in OwnEvents /\ call.event.phase = call.label
      BY <1>4, <2>3 DEF Deliver, CallInv
    <3>2. /\ call.label = "preparing" => caller' \in {"prepared", "failed"}
          /\ call.label = "scanning" => caller' \in {"spawn", "failed"}
          /\ call.label = "finalizing" => caller' \in {"publish", "failed"}
          /\ call.label = "complete" => caller' = "returned"
      BY <1>4, <2>3, <3>1 DEF Deliver, AfterEmit, OwnEvents
    <3>3. QED
      BY <2>1, <3>1, <3>2, PhaseNumbers DEF PhaseInv, OwnEvents, NoCall, Joining
  <2>4. QED
    BY <2>2, <2>3
<1>5. CASE LoadFlag
  <2>1. call.event \in Event
    BY DEF TypeOK
  <2>2. UNCHANGED <<seen, caller>> /\ call.step # "idle" /\ call'.event.phase = call.event.phase
    BY <1>5, <2>1 DEF LoadFlag, LoadStep, EmitFrame, TypeOK, Event
  <2>3. QED
    BY <2>2 DEF PhaseInv, Joining
<1>6. CASE LoadDiscovered
  <2>1. call.event \in Event
    BY DEF TypeOK
  <2>2. UNCHANGED <<seen, caller>> /\ call.step # "idle" /\ call'.event.phase = call.event.phase
    BY <1>6, <2>1 DEF LoadDiscovered, LoadStep, EmitFrame, TypeOK, Event
  <2>3. QED
    BY <2>2 DEF PhaseInv, Joining
<1>7. CASE LoadProcessed
  <2>1. call.event \in Event
    BY DEF TypeOK
  <2>2. UNCHANGED <<seen, caller>> /\ call.step # "idle" /\ call'.event.phase = call.event.phase
    BY <1>7, <2>1 DEF LoadProcessed, LoadStep, EmitFrame, TypeOK, Event
  <2>3. QED
    BY <2>2 DEF PhaseInv, Joining
<1>8. CASE LoadBytes
  <2>1. call.event \in Event
    BY DEF TypeOK
  <2>2. UNCHANGED <<seen, caller>> /\ call.step # "idle" /\ call'.event.phase = call.event.phase
    BY <1>8, <2>1 DEF LoadBytes, LoadStep, EmitFrame, TypeOK, Event
  <2>3. QED
    BY <2>2 DEF PhaseInv, Joining
<1>9. CASE LoadTotals
  BY <1>9 DEF LoadTotals, LoadStep, EmitFrame, PhaseInv, Joining, workers
<1>10. CASE DiscoverEntry
  BY <1>10 DEF DiscoverEntry, CounterFrame, PhaseInv, Joining, workers
<1>11. CASE DiscoverBytes
  BY <1>11 DEF DiscoverBytes, CounterFrame, PhaseInv, Joining, workers
<1>12. CASE NotifyDiscovered
  BY <1>12 DEF NotifyDiscovered, CounterFrame, Notify, NotifyOne, PhaseInv, Joining, workers
<1>13. CASE PushEntry
  BY <1>13 DEF PushEntry, CounterFrame, PhaseInv, Joining, workers
<1>14. CASE MarkScanComplete
  BY <1>14 DEF MarkScanComplete, CounterFrame, NotifyOne, PhaseInv, Joining, workers
<1>15. CASE ScannerStops
  BY <1>15 DEF ScannerStops, CounterFrame, PhaseInv, Joining, workers
<1>16. ASSUME NEW w \in Worker, TakeEntry(w) PROVE PhaseInv'
  BY <1>16 DEF TakeEntry, WorkerMoves, CounterFrame, PhaseInv, Joining, workers
<1>17. ASSUME NEW w \in Worker, ProcessEntry(w) PROVE PhaseInv'
  BY <1>17 DEF ProcessEntry, WorkerMoves, CounterFrame, PhaseInv, Joining, workers
<1>18. ASSUME NEW w \in Worker, ProcessBytes(w) PROVE PhaseInv'
  BY <1>18 DEF ProcessBytes, WorkerMoves, CounterFrame, PhaseInv, Joining, workers
<1>19. ASSUME NEW w \in Worker, NotifyProcessed(w) PROVE PhaseInv'
  BY <1>19 DEF NotifyProcessed, WorkerMoves, CounterFrame, Notify, NotifyOne, PhaseInv,
     Joining, workers
<1>20. ASSUME NEW w \in Worker, WorkerEnds(w) PROVE PhaseInv'
  BY <1>20 DEF WorkerEnds, WorkerMoves, CounterFrame, PhaseInv, Joining, workers
<1>21. CASE RunWait
  BY <1>21 DEF RunWait, RunLocked, RunGoes, RunTakes, RunFrame, PhaseInv, Joining, workers
<1>22. CASE SpuriousWakeup
  BY <1>22 DEF SpuriousWakeup, RunGoes, RunFrame, PhaseInv, Joining, workers
<1>23. CASE RunDecide
  <2>1. caller \in Joining /\ UNCHANGED <<seen, caller>>
    BY <1>23 DEF RunDecide, StageInv, RunFrame
  <2>2. call'.event.phase = Phase
    BY <1>23 DEF RunDecide, Choose, Emit, NoEvent
  <2>3. PhaseOrder[seen.last.phase] <= PhaseOrder[Phase]
    <3>1. PhaseOrder[seen.last.phase] <= 3
      BY <2>1 DEF PhaseInv
    <3>2. CASE HasProcessed
      BY <3>1, <3>2, PhaseNumbers DEF Phase
    <3>3. CASE ~HasProcessed
      <4>1. seen.last.phase # "writing_metadata"
        BY <3>3 DEF EventInv, HasProcessed
      <4>2. PhaseOrder[seen.last.phase] # 3 /\ PhaseOrder[seen.last.phase] \in 0..5
        BY <4>1, Numbers, PhaseNumbers
      <4>3. QED
        BY <3>1, <3>3, <4>2, PhaseNumbers DEF Phase
    <3>4. QED
      BY <3>2, <3>3
  <2>4. QED
    BY <2>1, <2>2, <2>3 DEF PhaseInv, Joining
<1>24. CASE Preparing
  <2>1. /\ caller = "start" /\ caller' = "emitting" /\ UNCHANGED seen
        /\ call'.event.phase = "preparing"
    BY <1>24 DEF Preparing, CallerEmits, Emit, CallerFrame, NoEvent
  <2>2. PhaseOrder[seen.last.phase] <= PhaseOrder["preparing"]
    BY <2>1, Numbers, PhaseNumbers DEF PhaseInv, Joining
  <2>3. QED
    BY <2>1, <2>2 DEF PhaseInv, Joining
<1>25. CASE Scanning
  <2>1. /\ caller = "prepared" /\ caller' = "emitting" /\ UNCHANGED seen
        /\ call'.event.phase = "scanning"
    BY <1>25 DEF Scanning, CallerEmits, Emit, CallerFrame, NoEvent
  <2>2. PhaseOrder[seen.last.phase] <= PhaseOrder["scanning"]
    BY <2>1, Numbers, PhaseNumbers DEF PhaseInv, Joining
  <2>3. QED
    BY <2>1, <2>2 DEF PhaseInv, Joining
<1>26. CASE StartThreads
  BY <1>26, PhaseNumbers, Numbers DEF StartThreads, CallerMoves, CallerFrame, PhaseInv,
     Joining, workers
<1>27. CASE Finish
  BY <1>27, PhaseNumbers, Numbers DEF Finish, CallerMoves, CallerFrame, NotifyOne, PhaseInv,
     Joining, workers
<1>28. CASE LeaveScope
  BY <1>28, PhaseNumbers, Numbers DEF LeaveScope, CallerMoves, CallerFrame, PhaseInv,
     Joining, workers
<1>29. CASE Finalizing
  <2>1. /\ caller = "verdict" /\ caller' = "emitting" /\ UNCHANGED seen
        /\ call'.event.phase = "finalizing"
    BY <1>29 DEF Finalizing, CallerEmits, Emit, CallerFrame, NoEvent
  <2>2. PhaseOrder[seen.last.phase] <= PhaseOrder["finalizing"]
    BY <2>1, Numbers, PhaseNumbers DEF PhaseInv, Joining
  <2>3. QED
    BY <2>1, <2>2 DEF PhaseInv, Joining
<1>30. CASE Publish
  BY <1>30, PhaseNumbers, Numbers DEF Publish, CallerMoves, CallerFrame, PhaseInv, Joining,
     workers
<1>31. CASE Complete
  <2>1. /\ caller = "published" /\ caller' = "emitting" /\ UNCHANGED seen
        /\ call'.event.phase = "complete"
    BY <1>31 DEF Complete, CallerEmits, Emit, CallerFrame, NoEvent
  <2>2. PhaseOrder[seen.last.phase] <= PhaseOrder["complete"]
    BY <2>1, Numbers, PhaseNumbers DEF PhaseInv, Joining
  <2>3. QED
    BY <2>1, <2>2 DEF PhaseInv, Joining
<1>32. CASE CallerFails
  BY <1>32 DEF CallerFails, CallerMoves, CallerFrame, PhaseInv, Joining, workers
<1>33. CASE Fail
  BY <1>33 DEF Fail, PhaseInv, Joining, workers
<1>34. CASE Cancel
  BY <1>34 DEF Cancel, NotifyOne, PhaseInv, Joining, workers
<1>35. CASE UNCHANGED vars
  BY <1>35 DEF vars, workers, PhaseInv, Joining, workers
<1>36. QED
  BY <1>1, <1>2, <1>3, <1>4, <1>5, <1>6, <1>7, <1>8, <1>9, <1>10, <1>11, <1>12, <1>13,
     <1>14, <1>15, <1>16, <1>17, <1>18, <1>19, <1>20, <1>21, <1>22, <1>23, <1>24, <1>25,
     <1>26, <1>27, <1>28, <1>29, <1>30, <1>31, <1>32, <1>33, <1>34, <1>35 DEF Next,
     EmitStep, ScannerStep, WorkerStep, ProgressStep, CallerStep
-----------------------------------------------------------------------------
(* What the user sees *)

\* Only emit() changes what the user has seen.
LEMMA SeenSteps ==
    ASSUME [Next]_vars
    PROVE  UNCHANGED seen \/ Admit \/ Drop \/ Deliver
<1>1. CASE Tick \/ Fail \/ Cancel \/ UNCHANGED vars
  BY <1>1 DEF Tick, Fail, Cancel, vars
<1>2. CASE EmitStep
  BY <1>2 DEF EmitStep, LoadFlag, LoadDiscovered, LoadProcessed, LoadBytes, LoadTotals, LoadStep
<1>3. CASE ScannerStep
  BY <1>3 DEF ScannerStep, DiscoverEntry, DiscoverBytes, NotifyDiscovered, PushEntry,
     MarkScanComplete, ScannerStops, CounterFrame
<1>4. ASSUME NEW w \in Worker, WorkerStep(w) PROVE UNCHANGED seen
  BY <1>4 DEF WorkerStep, TakeEntry, ProcessEntry, ProcessBytes, NotifyProcessed, WorkerEnds,
     WorkerMoves, CounterFrame
<1>5. CASE ProgressStep \/ SpuriousWakeup
  BY <1>5 DEF ProgressStep, RunWait, RunDecide, SpuriousWakeup, RunFrame
<1>6. CASE CallerStep \/ CallerFails
  BY <1>6 DEF CallerStep, Preparing, Scanning, StartThreads, Finish, LeaveScope, Finalizing,
     Publish, Complete, CallerFails, CallerEmits, CallerMoves, CallerFrame
<1>7. QED
  BY <1>1, <1>2, <1>3, <1>4, <1>5, <1>6 DEF Next

\* What is seen changes as emit() says.
LEMMA SeenValues ==
    ASSUME TypeOK, [Next]_vars
    PROVE  \/ UNCHANGED seen
           \/ Admit /\ UNCHANGED <<seen.last, seen.lost, seen.sent>>
           \/ /\ Drop
              /\ seen'.lost = seen.lost \cup Announced
              /\ UNCHANGED <<seen.last, seen.sent>>
           \/ /\ Deliver
              /\ seen'.last = call.event /\ seen'.sent = seen.sent \cup Announced
              /\ UNCHANGED seen.lost
  BY SeenSteps DEF TypeOK, Admit, Drop, Deliver

\* The limit drops no required event.
LEMMA LostStep ==
    ASSUME TypeOK, CallInv, OnceInv, LimitInv, RequiredNeverDropped, [Next]_vars
    PROVE  RequiredNeverDropped'
<1>1. CASE Drop /\ seen'.lost = seen.lost \cup Announced
  <2>1. ~call.required
    BY <1>1, RequiredAdmitted DEF Drop
  <2>2. QED
    BY <1>1, <2>1 DEF Announced, RequiredNeverDropped
<1>2. QED
  BY <1>1, SeenValues DEF RequiredNeverDropped

\* The counters stand still unless the pipeline runs.
LEMMA CountSteps ==
    ASSUME TypeOK, StageInv, [Next]_vars
    PROVE  UNCHANGED count \/ caller = "join"
<1>1. CASE Tick \/ Fail \/ Cancel \/ UNCHANGED vars
  BY <1>1 DEF Tick, Fail, Cancel, vars
<1>2. CASE EmitStep
  BY <1>2 DEF EmitStep, Admit, Drop, Deliver, LoadFlag, LoadDiscovered, LoadProcessed, LoadBytes,
     LoadTotals, LoadStep, EmitFrame
<1>3. CASE ScannerStep
  BY <1>3 DEF ScannerStep, DiscoverEntry, DiscoverBytes, NotifyDiscovered, PushEntry,
     MarkScanComplete, ScannerStops, StageInv
<1>4. ASSUME NEW w \in Worker, WorkerStep(w) PROVE UNCHANGED count \/ caller = "join"
  BY <1>4 DEF WorkerStep, TakeEntry, ProcessEntry, ProcessBytes, NotifyProcessed, WorkerEnds,
     WorkerMoves, StageInv
<1>5. CASE ProgressStep \/ SpuriousWakeup
  BY <1>5 DEF ProgressStep, RunWait, RunDecide, SpuriousWakeup, RunFrame
<1>6. CASE CallerStep \/ CallerFails
  BY <1>6 DEF CallerStep, Preparing, Scanning, StartThreads, Finish, LeaveScope, Finalizing,
     Publish, Complete, CallerFails, CallerEmits, CallerMoves, CallerFrame
<1>7. QED
  BY <1>1, <1>2, <1>3, <1>4, <1>5, <1>6 DEF Next

\* The last events show everything the pipeline did.
LEMMA FinalStep ==
    ASSUME TypeOK, CallInv, StageInv, FlagInv, OnceInv, EventInv, PhaseInv, FinalEventExact,
           [Next]_vars
    PROVE  FinalEventExact'
<1> DEFINE final == seen.last.phase \in {"finalizing", "complete"}
<1>1. CASE seen'.last = seen.last /\ seen.sent \subseteq seen'.sent
  <2>1. final => UNCHANGED count
    BY CountSteps, PhaseNumbers, Numbers DEF PhaseInv, Joining
  <2>2. QED
    BY <1>1, <2>1 DEF FinalEventExact
<1>2. CASE Deliver /\ seen'.last = call.event /\ seen'.sent = seen.sent \cup Announced
  <2>1. SUFFICES ASSUME call.event.phase \in {"finalizing", "complete"}
                 PROVE  FinalEventExact'
    BY <1>2 DEF FinalEventExact
  <2>2. caller = "emitting" /\ call.label \in {"finalizing", "complete"} /\ progress = "done"
    BY <1>2, <2>1 DEF Deliver, CallInv, StageInv, Late
  <2>3. Late
    BY <2>2 DEF Late
  <2>4. /\ call.event.processed = count.processed /\ call.event.bytes = count.processedBytes
        /\ call.event.total = count.discovered
    BY <1>2, <2>3 DEF Deliver, EventInv, LoadedProcessed, LoadedBytes, Whole
  <2>5. "scanned" \in seen.sent
    <3>1. flag.scanComplete /\ ~flag.scanPending
      BY <2>2, <2>3 DEF StageInv, FlagInv
    <3>2. QED
      BY <2>2, <3>1 DEF OnceInv, Taken
  <2>6. {"preparing", "scanning"} \subseteq seen.sent
    BY <2>3 DEF OnceInv
  <2>7. UNCHANGED count
    BY <1>2 DEF Deliver, EmitFrame
  <2>8. QED
    BY <1>2, <2>4, <2>5, <2>6, <2>7 DEF FinalEventExact
<1>3. QED
  BY <1>1, <1>2, SeenValues

\* The other promises of EventsConsistent follow from the state alone.
LEMMA TotalsHold ==
    ASSUME TypeOK, FlagInv, FlowInv, EventInv
    PROVE  TotalsExact
<1>1. count.processed <= count.discovered
  <2>1. /\ Cardinality(Busy) \in Nat /\ queued \in Nat
        /\ count.processed \in Nat /\ count.discovered \in Nat
    BY BusyCount DEF TypeOK
  <2>2. QED
    BY <2>1 DEF FlowInv, Busy
<1>2. QED
  BY <1>1, Numbers DEF TotalsExact, EventInv, FlagInv, Whole, Fits

LEMMA FailureHolds ==
    ASSUME StageInv, OnceInv
    PROVE  FailureNeverComplete
  BY DEF FailureNeverComplete, StageInv, OnceInv, Joining

-----------------------------------------------------------------------------
(* The events of a second *)

\* A step that neither emits nor lets time pass leaves the limit's state alone.
Quiet == UNCHANGED <<seen, emissions, clock, Pending, Admitted>>

LEMMA QuietSteps ==
    ASSUME TypeOK, CallInv, StageInv, [Next]_vars
    PROVE  Tick \/ Admit \/ Drop \/ Deliver \/ Quiet
<1>1. ASSUME UNCHANGED <<seen, emissions, clock, call>>
      PROVE  Quiet
  BY <1>1 DEF Quiet, Pending, Admitted, Announced
<1>2. ASSUME UNCHANGED <<seen, emissions, clock>>, call.step = "idle", call'.step = "throttle"
      PROVE  Quiet
  BY <1>2 DEF Quiet, Pending, Admitted
<1>3. CASE Fail \/ Cancel \/ UNCHANGED vars
  BY <1>1, <1>3 DEF Fail, Cancel, vars
<1>4. ASSUME NEW from, NEW to, NEW loaded, LoadStep(from, to, loaded),
             from \notin {"idle", "throttle"}, to \notin {"idle", "throttle"}
      PROVE  Quiet
  <2>1. /\ call.step = from /\ call'.step = to
        /\ call'.required = call.required /\ call'.label = call.label
    BY <1>4 DEF LoadStep, TypeOK
  <2>2. QED
    BY <1>4, <2>1 DEF LoadStep, EmitFrame, Quiet, Pending, Admitted, Announced
<1>5. CASE LoadFlag \/ LoadDiscovered \/ LoadProcessed \/ LoadBytes \/ LoadTotals
  BY <1>4, <1>5 DEF LoadFlag, LoadDiscovered, LoadProcessed, LoadBytes, LoadTotals
<1>6. CASE ScannerStep
  BY <1>1, <1>6 DEF ScannerStep, DiscoverEntry, DiscoverBytes, NotifyDiscovered, PushEntry,
     MarkScanComplete, ScannerStops, CounterFrame
<1>7. ASSUME NEW w \in Worker, WorkerStep(w) PROVE Quiet
  BY <1>1, <1>7 DEF WorkerStep, TakeEntry, ProcessEntry, ProcessBytes, NotifyProcessed,
     WorkerEnds, WorkerMoves, CounterFrame
<1>8. CASE RunWait \/ SpuriousWakeup
  BY <1>1, <1>8 DEF RunWait, SpuriousWakeup, RunFrame
<1>9. CASE RunDecide
  <2>1. call.step = "idle"
    BY <1>9 DEF RunDecide, CallInv, StageInv, Joining
  <2>2. call'.step = "throttle" /\ UNCHANGED <<seen, emissions, clock>>
    BY <1>9 DEF RunDecide, Choose, Emit, RunFrame
  <2>3. QED
    BY <1>2, <2>1, <2>2
<1>10. CASE Preparing \/ Scanning \/ Finalizing \/ Complete
  <2>1. caller \in {"start", "prepared", "verdict", "published"}
    BY <1>10 DEF Preparing, Scanning, Finalizing, Complete, CallerEmits
  <2>2. call.step = "idle"
    BY <2>1 DEF CallInv, StageInv, Joining
  <2>3. call'.step = "throttle" /\ UNCHANGED <<seen, emissions, clock>>
    BY <1>10 DEF Preparing, Scanning, Finalizing, Complete, CallerEmits, Emit, CallerFrame
  <2>4. QED
    BY <1>2, <2>2, <2>3
<1>11. CASE StartThreads \/ Finish \/ LeaveScope \/ Publish \/ CallerFails
  BY <1>1, <1>11 DEF StartThreads, Finish, LeaveScope, Publish, CallerFails, CallerMoves,
     CallerFrame
<1>12. QED
  BY <1>3, <1>5, <1>6, <1>7, <1>8, <1>9, <1>10, <1>11 DEF Next, EmitStep, ProgressStep, CallerStep

\* The sets that are counted are finite, and small.
LEMMA SecondCounts ==
    ASSUME TypeOK, CallInv, LimitInv, NEW from \in 0..MaxTime
    PROVE  /\ IsFiniteSet(OrdinarySince(from)) /\ IsFiniteSet(Admitted) /\ IsFiniteSet(seen.sent)
           /\ Cardinality(OrdinarySince(from)) \in 0..MaxOrdinary
           /\ Cardinality(Admitted) \in 0..6 /\ Cardinality(seen.sent) \in 0..6
<1> DEFINE ordinary == {e \in emissions : ~e.required}
<1>1. IsFiniteSet(ordinary) /\ Cardinality(ordinary) <= MaxOrdinary
  BY FS_Subset DEF LimitInv
<1>2. OrdinarySince(from) \subseteq ordinary
  BY DEF OrdinarySince
<1>3. /\ IsFiniteSet(OrdinarySince(from))
      /\ Cardinality(OrdinarySince(from)) <= Cardinality(ordinary)
  <2> HIDE DEF ordinary
  <2>1. QED
    BY <1>1, <1>2, FS_Subset
<1>4. Cardinality(OrdinarySince(from)) \in 0..MaxOrdinary
  <2> HIDE DEF ordinary
  <2>1. Cardinality(OrdinarySince(from)) \in Nat /\ Cardinality(ordinary) \in Nat
    BY <1>1, <1>3, FS_CardinalityType
  <2>2. QED
    BY <1>1, <1>3, <2>1, LimitAssumption
<1>5. Announced \subseteq RequiredLabel
  BY DEF Announced, CallInv, OwnEvents, TypeOK, RequiredLabel, NoCall
<1>6. Admitted \subseteq RequiredLabel /\ seen.sent \subseteq RequiredLabel
  BY <1>5 DEF Admitted, TypeOK
<1>7. ASSUME NEW S \in SUBSET RequiredLabel
      PROVE  IsFiniteSet(S) /\ Cardinality(S) \in 0..6
  <2>1. IsFiniteSet(S) /\ Cardinality(S) <= 6
    BY LabelsFinite, FS_Subset
  <2>2. QED
    BY <2>1, FS_CardinalityType
<1>8. QED
  BY <1>3, <1>4, <1>6, <1>7

\* An event on its way was preceded by a required one, or is one.
LEMMA PendingCounted ==
    ASSUME TypeOK, CallInv, StageInv, OnceInv, LimitInv
    PROVE  Pending <= Cardinality(Admitted)
<1>1. 0 \in 0..MaxTime
  BY BoundAssumption
<1>2. IsFiniteSet(Admitted) /\ Cardinality(Admitted) \in 0..6
  BY <1>1, SecondCounts
<1>3. CASE call.step \in {"idle", "throttle"}
  BY <1>2, <1>3 DEF Pending
<1>4. CASE call.step \notin {"idle", "throttle"}
  <2>1. Admitted # {}
    <3>1. CASE call.required
      BY <1>4, <3>1 DEF Admitted, Announced
    <3>2. CASE ~call.required
      <4>1. progress = "emit" /\ caller \in Joining
        BY <1>4, <3>2 DEF CallInv, StageInv
      <4>2. QED
        BY <4>1 DEF OnceInv, Admitted
    <3>3. QED
      BY <3>1, <3>2 DEF TypeOK
  <2>2. Cardinality(Admitted) # 0
    BY <1>2, <2>1, FS_EmptySet
  <2>3. QED
    BY <1>2, <1>4, <2>2 DEF Pending
<1>5. QED
  BY <1>3, <1>4

\* Popping the old emissions takes none of the second under way.
LEMMA RecentSince ==
    ASSUME TypeOK, NEW from \in 0..MaxTime, InSecond(from)
    PROVE  {e \in Recent : ~e.required /\ from <= e.time} = OrdinarySince(from)
<1>1. ASSUME NEW e \in emissions, from <= e.time
      PROVE  clock - e.time < Second
  <2>1. e.time \in Nat /\ clock \in Nat /\ from \in Nat
    BY BoundAssumption DEF TypeOK
  <2>2. QED
    BY <1>1, <2>1, BoundAssumption DEF InSecond
<1>2. QED
  BY <1>1 DEF Recent, OrdinarySince

\* In every second the deliveries stay within what was emitted in it and the
\* required labels used up.
LEMMA SecondStep ==
    ASSUME TypeOK, CallInv, StageInv, OnceInv, LimitInv, SecondInv, [Next]_vars
    PROVE  SecondInv'
<1>1. CASE Quiet
  BY <1>1 DEF Quiet, SecondInv, OrdinarySince, InSecond
<1>2. CASE Tick
  <2>1. UNCHANGED <<seen, emissions, call>> /\ clock' = clock + 1
    BY <1>2 DEF Tick
  <2>2. \A e \in emissions' : e.n < seen'.issued
    BY <2>1 DEF SecondInv
  <2>3. ASSUME NEW from \in 0..MaxTime
        PROVE  /\ clock' < from => seen'.within[from] = 0
               /\ InSecond(from)' => seen'.within[from] + Pending'
                    <= Cardinality(OrdinarySince(from)') + Cardinality(Admitted')
    <3>1. clock \in Nat /\ from \in Nat
      BY BoundAssumption DEF TypeOK
    <3>2. Pending' = Pending /\ Admitted' = Admitted /\ OrdinarySince(from)' = OrdinarySince(from)
      BY <2>1 DEF Pending, Admitted, Announced, OrdinarySince
    <3>3. CASE from <= clock
      BY <2>1, <3>1, <3>2, <3>3, BoundAssumption DEF SecondInv, InSecond
    <3>4. CASE clock < from
      <4>1. seen.within[from] = 0
        BY <3>4 DEF SecondInv
      <4>2. Pending <= Cardinality(Admitted)
        BY PendingCounted
      <4>3. Cardinality(OrdinarySince(from)) \in Nat /\ Cardinality(Admitted) \in Nat
        BY SecondCounts, LimitAssumption
      <4>4. Pending \in {0, 1}
        BY DEF Pending
      <4>5. seen.within[from] + Pending <= Cardinality(OrdinarySince(from)) + Cardinality(Admitted)
        BY <4>1, <4>2, <4>3, <4>4
      <4>6. QED
        BY <2>1, <3>2, <4>1, <4>5
    <3>5. QED
      BY <3>1, <3>3, <3>4
  <2>4. QED
    BY <2>2, <2>3 DEF SecondInv
<1>3. CASE Admit
  <2> DEFINE new == [n |-> seen.issued, time |-> clock, required |-> call.required]
  <2>1. /\ emissions' = Recent \cup {new} /\ clock' = clock /\ call.step = "throttle"
        /\ call'.step = "flag" /\ call'.required = call.required /\ call'.label = call.label
        /\ seen'.issued = seen.issued + 1 /\ seen'.within = seen.within /\ seen'.sent = seen.sent
    BY <1>3 DEF Admit, EmitFrame, TypeOK
  <2>2. \A e \in emissions' : e.n < seen'.issued
    <3>1. \A e \in emissions : e.n < seen.issued /\ e.n \in Nat
      BY DEF SecondInv, TypeOK
    <3>2. seen.issued \in Nat /\ Recent \subseteq emissions
      BY DEF TypeOK, Recent
    <3>3. QED
      BY <2>1, <3>1, <3>2
  <2>3. Pending = 0 /\ Pending' = 1 /\ Admitted = seen.sent /\ Admitted' = seen.sent \cup Announced
    BY <2>1 DEF Pending, Admitted, Announced
  <2>4. ASSUME NEW from \in 0..MaxTime
        PROVE  /\ clock' < from => seen'.within[from] = 0
               /\ InSecond(from)' => seen'.within[from] + Pending'
                    <= Cardinality(OrdinarySince(from)') + Cardinality(Admitted')
    <3>1. clock' < from => seen'.within[from] = 0
      BY <2>1 DEF SecondInv
    <3>2. SUFFICES ASSUME InSecond(from)
                   PROVE  seen.within[from] + 1
                            <= Cardinality(OrdinarySince(from)') + Cardinality(Admitted')
      BY <2>1, <2>3, <3>1 DEF InSecond
    <3>3. seen.within[from] <= Cardinality(OrdinarySince(from)) + Cardinality(seen.sent)
      <4>1. seen.within[from] \in Nat
        BY DEF TypeOK
      <4>2. QED
        BY <2>3, <3>2, <4>1 DEF SecondInv
    <3>4. /\ IsFiniteSet(OrdinarySince(from)) /\ IsFiniteSet(seen.sent)
          /\ Cardinality(OrdinarySince(from)) \in Nat /\ Cardinality(seen.sent) \in Nat
      BY SecondCounts, LimitAssumption
    <3>5. seen.within[from] \in Nat
      BY DEF TypeOK
    <3>6. {e \in Recent : ~e.required /\ from <= e.time} = OrdinarySince(from)
      BY <3>2, RecentSince
    <3>7. OrdinarySince(from)' = {e \in Recent \cup {new} : ~e.required /\ from <= e.time}
      BY <2>1 DEF OrdinarySince
    <3>8. CASE call.required
      <4>1. OrdinarySince(from)' = OrdinarySince(from)
        BY <3>6, <3>7, <3>8
      <4>2. call.label \notin seen.sent /\ Admitted' = seen.sent \cup {call.label}
        BY <2>1, <2>3, <3>8 DEF Announced, TypeOK, CallInv, OnceInv, OwnEvents, RequiredLabel
      <4>3. Cardinality(Admitted') = Cardinality(seen.sent) + 1
        BY <3>4, <4>2, AddOne
      <4>4. QED
        BY <3>3, <3>4, <3>5, <4>1, <4>3
    <3>9. CASE ~call.required
      <4>1. OrdinarySince(from)' = OrdinarySince(from) \cup {new}
        <5>1. ~new.required /\ from <= new.time
          BY <3>2, <3>9 DEF InSecond
        <5>2. QED
          BY <3>6, <3>7, <5>1
      <4>2. new \notin OrdinarySince(from)
        <5>1. \A e \in OrdinarySince(from) : e.n < seen.issued
          BY DEF OrdinarySince, SecondInv
        <5>2. new.n = seen.issued /\ seen.issued \in Nat
          BY DEF TypeOK
        <5>3. QED
          BY <5>1, <5>2
      <4>3. Admitted' = seen.sent
        BY <2>3, <3>9 DEF Announced
      <4>4. Cardinality(OrdinarySince(from)') = Cardinality(OrdinarySince(from)) + 1
        <5> HIDE DEF new
        <5>1. QED
          BY <3>4, <4>1, <4>2, AddOne
      <4>5. QED
        BY <3>3, <3>4, <3>5, <4>3, <4>4
    <3>10. QED
      BY <3>8, <3>9 DEF TypeOK
  <2>5. QED
    BY <2>2, <2>4 DEF SecondInv
<1>4. CASE Drop
  <2>1. /\ emissions' = Recent /\ clock' = clock /\ call.step = "throttle" /\ call' = NoCall
        /\ seen'.issued = seen.issued /\ seen'.within = seen.within /\ seen'.sent = seen.sent
    BY <1>4 DEF Drop, AfterEmit, EmitFrame, TypeOK
  <2>2. \A e \in emissions' : e.n < seen'.issued
    BY <2>1 DEF SecondInv, Recent
  <2>3. Pending' = Pending /\ Admitted' = Admitted
    BY <2>1 DEF Pending, Admitted, NoCall
  <2>4. ASSUME NEW from \in 0..MaxTime, InSecond(from)
        PROVE  OrdinarySince(from)' = OrdinarySince(from)
    BY <2>1, <2>4, RecentSince DEF OrdinarySince
  <2>5. QED
    BY <2>1, <2>2, <2>3, <2>4 DEF SecondInv, InSecond
<1>5. CASE Deliver
  <2>1. /\ emissions' = emissions /\ clock' = clock /\ call.step = "callback" /\ call' = NoCall
        /\ seen'.issued = seen.issued /\ seen'.within = OneMoreNow
        /\ seen'.sent = seen.sent \cup Announced
    BY <1>5 DEF Deliver, AfterEmit, EmitFrame, TypeOK
  <2>2. Pending = 1 /\ Pending' = 0 /\ Admitted' = Admitted
    BY <2>1 DEF Pending, Admitted, NoCall
  <2>3. \A from \in 0..MaxTime : OrdinarySince(from)' = OrdinarySince(from)
    BY <2>1 DEF OrdinarySince
  <2>4. \A from \in 0..MaxTime : seen.within[from] \in Nat /\ clock \in Nat
    BY BoundAssumption DEF TypeOK
  <2>5. ASSUME NEW from \in 0..MaxTime
        PROVE  /\ InSecond(from) => seen'.within[from] = seen.within[from] + 1
               /\ ~InSecond(from) => seen'.within[from] = seen.within[from]
    BY <2>1, <2>4 DEF OneMoreNow
  <2>6. ASSUME NEW from \in 0..MaxTime
        PROVE  /\ clock' < from => seen'.within[from] = 0
               /\ InSecond(from)' => seen'.within[from] + Pending'
                    <= Cardinality(OrdinarySince(from)') + Cardinality(Admitted')
    <3>1. clock' < from => seen'.within[from] = 0
      BY <2>1, <2>4, <2>5 DEF SecondInv, InSecond
    <3>2. InSecond(from)' => seen'.within[from] + Pending' = seen.within[from] + Pending
      BY <2>1, <2>2, <2>4, <2>5 DEF InSecond
    <3>3. QED
      BY <2>1, <2>2, <2>3, <3>1, <3>2 DEF SecondInv, InSecond
  <2>7. QED
    BY <2>1, <2>6 DEF SecondInv
<1>6. QED
  BY <1>1, <1>2, <1>3, <1>4, <1>5, QuietSteps

\* The callback runs once more only while the second has room for it.
LEMMA RateStep ==
    ASSUME TypeOK, CallInv, StageInv, LimitInv, SecondInv, RateBounded, [Next]_vars
    PROVE  RateBounded'
<1>1. CASE seen'.within = seen.within
  BY <1>1 DEF RateBounded
<1>2. CASE Deliver
  <2>1. seen'.within = OneMoreNow /\ Pending = 1
    BY <1>2 DEF Deliver, Pending, TypeOK
  <2>2. ASSUME NEW from \in 0..MaxTime
        PROVE  seen'.within[from] <= MaxEvents
    <3>1. seen.within[from] \in Nat
      BY DEF TypeOK
    <3>2. CASE InSecond(from)
      <4>1. seen'.within[from] = seen.within[from] + 1
        BY <2>1, <3>2 DEF OneMoreNow
      <4>2. seen.within[from] + 1 <= Cardinality(OrdinarySince(from)) + Cardinality(Admitted)
        BY <2>1, <3>2 DEF SecondInv
      <4>3. Cardinality(OrdinarySince(from)) \in 0..MaxOrdinary /\ Cardinality(Admitted) \in 0..6
        BY SecondCounts
      <4>4. QED
        BY <3>1, <4>1, <4>2, <4>3, LimitAssumption
    <3>3. CASE ~InSecond(from)
      BY <2>1, <3>1, <3>3 DEF OneMoreNow, RateBounded
    <3>4. QED
      BY <3>2, <3>3
  <2>3. QED
    BY <2>2 DEF RateBounded
<1>3. CASE Admit \/ Drop
  BY <1>1, <1>3 DEF Admit, Drop, TypeOK
<1>4. CASE Tick \/ Quiet
  BY <1>1, <1>4 DEF Tick, Quiet
<1>5. QED
  BY <1>2, <1>3, <1>4, QuietSteps

-----------------------------------------------------------------------------
(* Theorems *)

\* Every step keeps the inductive invariant.
LEMMA IndStep ==
    ASSUME IndInv, [Next]_vars
    PROVE  IndInv'
<1>1. /\ TypeOK /\ FinalEventExact /\ RequiredNeverDropped /\ RateBounded /\ CallInv /\ StageInv
      /\ FlagInv /\ OnceInv /\ LimitInv /\ SecondInv /\ FlowInv /\ EventInv /\ PhaseInv
  BY DEF IndInv, EventsConsistent, LimitKept
<1>2. CountTypes /\ ThreadTypes /\ CallTypes /\ SeenTypes
  BY <1>1, TypeParts
<1>3. TypeOK' /\ CallInv' /\ StageInv' /\ FlagInv'
  BY <1>1, <1>2, TypeStep, CallStep, StageStep, FlagStep
<1>4. OnceInv' /\ LimitInv' /\ FlowInv' /\ EventInv' /\ PhaseInv'
  BY <1>1, <1>2, OnceStep, LimitStep, FlowStep, EventStep, PhaseStep
<1>5. RequiredNeverDropped' /\ FinalEventExact' /\ SecondInv' /\ RateBounded'
  BY <1>1, LostStep, FinalStep, SecondStep, RateStep
<1>6. (TypeOK /\ FlagInv /\ FlowInv /\ EventInv => TotalsExact)'
  BY TotalsHold, PTL
<1>7. (StageInv /\ OnceInv => FailureNeverComplete)'
  BY FailureHolds, PTL
<1>8. QED
  BY <1>3, <1>4, <1>5, <1>6, <1>7 DEF IndInv, EventsConsistent, LimitKept

\* It holds before the first step.
LEMMA IndInit ==
    ASSUME Init
    PROVE  IndInv
<1>1. TypeOK
  <2>1. [t \in 0..MaxTime |-> 0] \in [0..MaxTime -> Nat] /\ 0 \in 0..MaxTime
    BY BoundAssumption
  <2>2. NoEvent \in Event
    BY EventTypes
  <2>3. CountTypes /\ ThreadTypes /\ EmissionTypes
    BY <2>1 DEF Init, CountTypes, ThreadTypes, EmissionTypes
  <2>4. CallTypes
    BY <2>2 DEF Init, CallTypes, NoCall
  <2>5. SeenTypes
    BY <2>1, <2>2 DEF Init, SeenTypes
  <2>6. QED
    BY <2>3, <2>4, <2>5, TypeParts
<1>2. CallInv /\ StageInv /\ FlagInv /\ OnceInv /\ RequiredNeverDropped
  BY DEF Init, CallInv, StageInv, FlagInv, OnceInv, RequiredNeverDropped, NoCall, NoEvent, Early,
     Late, Joining, Taken
<1>3. LimitInv
  <2>1. {e \in emissions : ~e.required} = {} /\ {e \in emissions : e.required} = {}
    BY DEF Init
  <2>2. Admitted = {}
    BY DEF Init, Admitted, NoCall
  <2>3. QED
    BY <2>1, <2>2, FS_EmptySet, LimitAssumption DEF Init, LimitInv
<1>4. FlowInv
  <2>1. Cardinality({w \in Worker : worker[w] = "entries"}) = 0
    <3>1. {w \in Worker : worker[w] = "entries"} = {}
      BY DEF Init
    <3>2. QED
      BY <3>1, FS_EmptySet
  <2>2. QED
    BY <2>1 DEF Init, FlowInv
<1>5. EventInv
  BY DEF Init, EventInv, Fits, Whole, NoCall, NoEvent, Late, Absent, LoadedDiscovered,
     LoadedProcessed, LoadedBytes
<1>6. PhaseInv
  BY PhaseNumbers DEF Init, PhaseInv, NoCall, NoEvent, Joining
<1>7. FinalEventExact
  BY DEF Init, FinalEventExact, NoEvent
<1>8. RateBounded
  BY LimitAssumption DEF Init, RateBounded
<1>9. SecondInv
  <2>1. Pending = 0 /\ emissions = {} /\ \A from \in 0..MaxTime : seen.within[from] = 0
    BY DEF Init, Pending, NoCall
  <2>2. ASSUME NEW from \in 0..MaxTime
        PROVE  Cardinality(OrdinarySince(from)) \in Nat /\ Cardinality(Admitted) \in Nat
    BY <1>1, <1>2, <1>3, SecondCounts, LimitAssumption
  <2>3. QED
    BY <2>1, <2>2 DEF SecondInv
<1>10. QED
  BY <1>1, <1>2, <1>3, <1>4, <1>5, <1>6, <1>7, <1>8, <1>9, TotalsHold, FailureHolds
     DEF IndInv, EventsConsistent, LimitKept

\* The inductive invariant holds in every reachable state.
THEOREM IndInvariant == Spec => []IndInv
<1>1. Init => IndInv
  BY IndInit
<1>2. IndInv /\ [Next]_vars => IndInv'
  BY IndStep
<1>3. QED
  BY <1>1, <1>2, PTL DEF Spec

\* The events tell the truth about the pipeline: totals appear once the scan is
\* over and are exact, the last events show everything that was processed, and
\* a failed pipeline never reports that it is complete (event, run, finish).
THEOREM TruthfulEvents == Spec => []EventsConsistent
<1>1. IndInv => EventsConsistent
  BY DEF IndInv
<1>2. QED
  BY <1>1, IndInvariant, PTL

\* The limit on events per second is kept: the callback runs at most MaxEvents times
\* in any second, by the time of the call, however long an event admitted earlier
\* takes to reach it; and it never costs one of the six events that announce a
\* phase. Both hold for every limit that leaves room for the six (emit).
THEOREM LimitTheorem == Spec => []LimitKept
<1>1. IndInv => LimitKept
  BY DEF IndInv
<1>2. QED
  BY <1>1, IndInvariant, PTL

\* Events never go backwards, although an event is put together from counters
\* that other threads change meanwhile (event).
THEOREM NoStepBack == Spec => EventsMonotone
<1> DEFINE old == seen.last
           new == seen'.last
           forward == /\ PhaseOrder[old.phase] <= PhaseOrder[new.phase]
                      /\ old.discovered <= new.discovered
                      /\ old.processed <= new.processed
                      /\ old.bytes <= new.bytes
                      /\ old.total # Absent =>
                           new.total = old.total /\ new.totalBytes = old.totalBytes
<1>1. ASSUME IndInv, [Next]_vars
      PROVE  [forward]_vars
  <2>1. /\ TypeOK /\ CallInv /\ EventInv /\ PhaseInv
    BY <1>1 DEF IndInv, EventsConsistent
  <2>2. CASE seen'.last = seen.last
    <3>1. PhaseOrder[seen.last.phase] \in 0..5
      BY <2>1, Numbers, PhaseNumbers
    <3>2. QED
      BY <2>1, <2>2, <3>1, Numbers
  <2>3. CASE Deliver /\ seen'.last = call.event
    <3>1. PhaseOrder[seen.last.phase] <= PhaseOrder[call.event.phase]
      BY <2>1, <2>3 DEF PhaseInv, Deliver
    <3>2. /\ seen.last.discovered <= call.event.discovered
          /\ seen.last.processed <= call.event.processed
          /\ seen.last.bytes <= call.event.bytes
      BY <2>1, <2>3 DEF Deliver, EventInv, LoadedDiscovered, LoadedProcessed, LoadedBytes
    <3>3. seen.last.total # Absent =>
            call.event.total = seen.last.total /\ call.event.totalBytes = seen.last.totalBytes
      BY <2>1, <2>3 DEF Deliver, EventInv, Whole
    <3>4. QED
      BY <2>3, <3>1, <3>2, <3>3
  <2>4. QED
    BY <1>1, <2>1, <2>2, <2>3, SeenValues
<1>2. IndInv /\ [Next]_vars => [forward]_vars
  BY <1>1
<1>3. QED
  BY <1>2, IndInvariant, PTL DEF Spec, EventsMonotone
=============================================================================
