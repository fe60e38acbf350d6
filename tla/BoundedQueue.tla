---------------------------- MODULE BoundedQueue ----------------------------
(***************************************************************************)
(* BoundedQueue<T>: the mutex-protected bounded queue between the threads  *)
(* of the snapshot pipeline, at the level of its two condition variables.  *)
(*                                                                         *)
(* A step is one stay inside mutex_: from taking it to leaving it or to    *)
(* blocking in condition_variable_any::wait. Producers and consumers loop  *)
(* as the pipeline's threads do and end on the first refusal (push false,  *)
(* pop nullopt). All operations use one stop token, pipeline_stop's.       *)
(***************************************************************************)
EXTENDS Integers, FiniteSets, SequencesExt

CONSTANTS
    Producer,       \* threads that push
    Consumer,       \* threads that pop
    Item,           \* elements
    NoItem,         \* the argument of a producer that is not in a push
    Size,           \* size_function_: bytes of an element; all 0 = no budget
    ItemCapacity,   \* item_capacity_
    ByteCapacity,   \* byte_capacity_
    MaxPush         \* bound: push calls in a behaviour

ASSUME ThreadAssumption ==
    /\ IsFiniteSet(Producer)
    /\ IsFiniteSet(Consumer)
    /\ Producer \cap Consumer = {}
ASSUME CapacityAssumption ==
    /\ ItemCapacity \in Nat \ {0}
    /\ ByteCapacity \in Nat
ASSUME SizeAssumption == Size \in [Item -> Nat] /\ NoItem \notin Item
ASSUME MaxPushAssumption == MaxPush \in Nat

VARIABLES
    items,       \* items_: queued elements, oldest first
    bytes,       \* bytes_used_
    closed,      \* closed_
    stopped,     \* stop_requested() of the shared token
    callbacks,   \* waits whose stop callback request_stop has yet to run
    phase,       \* idle: between calls; waiting / woken: inside wait; done
    arg,         \* the element a producer is pushing
    calls        \* push calls so far

queueVars == <<items, bytes, closed, stopped, callbacks, phase, arg, calls>>

QueueThread == Producer \cup Consumer
Blocked(Role) == {t \in Role : phase[t] = "waiting"}
Woken(Role) == {t \in Role : phase[t] = "woken"}

QueueInit ==
    /\ items = <<>>
    /\ bytes = 0
    /\ closed = FALSE
    /\ stopped = FALSE
    /\ callbacks = {}
    /\ phase = [t \in QueueThread |-> "idle"]
    /\ arg = [p \in Producer |-> NoItem]
    /\ calls = 0

\* notify_one and notify_all on the condition variable a role waits on: the
\* sets of threads that may be woken.
NotifyOne(Role) ==
    IF Blocked(Role) = {} THEN {{}} ELSE {{t} : t \in Blocked(Role)}
NotifyAll(Role) == Blocked(Role)

HasCapacity(v) ==
    /\ Len(items) < ItemCapacity
    /\ Size[v] <= ByteCapacity - bytes

\* t leaves (or blocks in) its call with the given label, W is woken.
Leave(t, label, W) ==
    phase' = [s \in QueueThread |->
              IF s = t THEN label ELSE IF s \in W THEN "woken" ELSE phase[s]]

-----------------------------------------------------------------------------
(* push_impl *)

Refuse(t) ==
    /\ Leave(t, "done", {})
    /\ callbacks' = callbacks \ {t}
    /\ UNCHANGED <<items, bytes, closed, stopped>>

Block(t) ==
    /\ Leave(t, "waiting", {})
    /\ UNCHANGED <<items, bytes, closed, stopped, callbacks>>

\* Mutant: consumers are told only when the queue was empty before.
AcceptNotifyOnEmpty(p, v) ==
    /\ items' = Append(items, v)
    /\ bytes' = bytes + Size[v]
    /\ \E W \in IF items = <<>> THEN NotifyOne(Consumer) ELSE {{}} : Leave(p, "idle", W)
    /\ callbacks' = callbacks \ {p}
    /\ UNCHANGED <<closed, stopped>>

\* Mutant: consumers are never told.
AcceptSilently(p, v) ==
    /\ items' = Append(items, v)
    /\ bytes' = bytes + Size[v]
    /\ Leave(p, "idle", {})
    /\ callbacks' = callbacks \ {p}
    /\ UNCHANGED <<closed, stopped>>

Accept(p, v) ==
    /\ items' = Append(items, v)
    /\ bytes' = bytes + Size[v]
    /\ \E W \in NotifyOne(Consumer) : Leave(p, "idle", W)
    /\ callbacks' = callbacks \ {p}
    /\ UNCHANGED <<closed, stopped>>

\* The predicate of not_full_.wait and what follows it. With a stop request
\* pending the wait returns at once and the call is refused.
PushLocked(p, v) ==
    \/ (stopped \/ closed) /\ Refuse(p)
    \/ ~stopped /\ ~closed /\ HasCapacity(v) /\ Accept(p, v)
    \/ ~stopped /\ ~closed /\ ~HasCapacity(v) /\ Block(p)

\* The argument lives as long as the call.
Hold(p, v) == arg' = [arg EXCEPT ![p] = IF phase'[p] = "waiting" THEN v ELSE NoItem]

\* The test of the token before the lock is repeated under it. An element
\* above the whole budget is refused before any wait.
Push(p, v) ==
    /\ phase[p] = "idle"
    /\ calls < MaxPush
    /\ calls' = calls + 1
    /\ IF Size[v] > ByteCapacity THEN Refuse(p) ELSE PushLocked(p, v)
    /\ Hold(p, v)

ResumePush(p) ==
    /\ phase[p] = "woken"
    /\ PushLocked(p, arg[p])
    /\ Hold(p, arg[p])
    /\ UNCHANGED calls

-----------------------------------------------------------------------------
(* pop *)

\* Mutant: producers are told only when all places were taken.
TakeTellsWhenFull(c) ==
    /\ items' = Tail(items)
    /\ bytes' = bytes - Size[Head(items)]
    /\ \E W \in IF Len(items) = ItemCapacity THEN NotifyOne(Producer) ELSE {{}} :
          Leave(c, "idle", W)
    /\ callbacks' = callbacks \ {c}
    /\ UNCHANGED <<closed, stopped>>

\* Mutant: the newest element is taken.
TakeNewest(c) ==
    /\ items' = Front(items)
    /\ bytes' = bytes - Size[Last(items)]
    /\ \E W \in NotifyOne(Producer) : Leave(c, "idle", W)
    /\ callbacks' = callbacks \ {c}
    /\ UNCHANGED <<closed, stopped>>

Take(c) ==
    /\ items' = Tail(items)
    /\ bytes' = bytes - Size[Head(items)]
    /\ \E W \in NotifyOne(Producer) : Leave(c, "idle", W)
    /\ callbacks' = callbacks \ {c}
    /\ UNCHANGED <<closed, stopped>>

\* A closed queue is still drained; a stop request ends pop at once.
PopLocked(c) ==
    \/ (stopped \/ (closed /\ items = <<>>)) /\ Refuse(c)
    \/ ~stopped /\ items # <<>> /\ Take(c)
    \/ ~stopped /\ ~closed /\ items = <<>> /\ Block(c)

Pop(c) ==
    /\ phase[c] = "idle"
    /\ PopLocked(c)
    /\ UNCHANGED <<arg, calls>>

ResumePop(c) ==
    /\ phase[c] = "woken"
    /\ PopLocked(c)
    /\ UNCHANGED <<arg, calls>>

-----------------------------------------------------------------------------
(* close, the stop token and the condition variables *)

\* Mutant: close tells the consumers only.
CloseWakesConsumers ==
    /\ closed' = TRUE
    /\ phase' = [t \in QueueThread |-> IF t \in NotifyAll(Consumer) THEN "woken" ELSE phase[t]]
    /\ UNCHANGED <<items, bytes, stopped, callbacks, arg, calls>>

\* close is idempotent.
Close ==
    /\ closed' = TRUE
    /\ phase' = [t \in QueueThread |-> IF t \in NotifyAll(Producer) \cup NotifyAll(Consumer)
                                 THEN "woken" ELSE phase[t]]
    /\ UNCHANGED <<items, bytes, stopped, callbacks, arg, calls>>

\* request_stop sets the flag and then runs the callbacks of the waits in
\* progress one by one; a wait that returns first takes its callback away.
StopToken ==
    /\ ~stopped
    /\ stopped' = TRUE
    /\ callbacks' = Blocked(QueueThread) \cup Woken(QueueThread)
    /\ UNCHANGED <<items, bytes, closed, phase, arg, calls>>

\* The callback of wait(lock, token, predicate) is notify_all on its variable.
RunStopCallback(t) ==
    /\ t \in callbacks
    /\ callbacks' = callbacks \ {t}
    /\ LET W == IF t \in Producer THEN NotifyAll(Producer) ELSE NotifyAll(Consumer)
       IN  phase' = [s \in QueueThread |-> IF s \in W THEN "woken" ELSE phase[s]]
    /\ UNCHANGED <<items, bytes, closed, stopped, arg, calls>>

\* A condition variable may wake without a notification.
SpuriousWake(t) ==
    /\ phase[t] = "waiting"
    /\ phase' = [phase EXCEPT ![t] = "woken"]
    /\ UNCHANGED <<items, bytes, closed, stopped, callbacks, arg, calls>>

QueueNext ==
    \/ \E p \in Producer, v \in Item : Push(p, v)
    \/ \E p \in Producer : ResumePush(p)
    \/ \E c \in Consumer : Pop(c) \/ ResumePop(c)
    \/ Close \/ StopToken
    \/ \E t \in QueueThread : RunStopCallback(t) \/ SpuriousWake(t)

QueueSpec == QueueInit /\ [][QueueNext]_queueVars

\* A notified thread gets the mutex, consumers keep calling pop, request_stop
\* gets to every callback. Nothing is assumed of push, close or a stop request.
FairQueueSpec ==
    /\ QueueSpec
    /\ \A p \in Producer : WF_queueVars(ResumePush(p))
    /\ \A c \in Consumer : WF_queueVars(Pop(c) \/ ResumePop(c))
    /\ \A t \in QueueThread : WF_queueVars(RunStopCallback(t))

-----------------------------------------------------------------------------
QueueTypeOK ==
    /\ items \in Seq(Item)
    /\ bytes \in Nat
    /\ closed \in BOOLEAN
    /\ stopped \in BOOLEAN
    /\ callbacks \in SUBSET QueueThread
    /\ phase \in [QueueThread -> {"idle", "waiting", "woken", "done"}]
    /\ arg \in [Producer -> Item \cup {NoItem}]
    /\ calls \in Nat

\* The elements of q take b bytes together: s[i] is what the first i take.
IsRunningTotal(s, q) ==
    /\ s[0] = 0
    /\ \A i \in 1..Len(q) : s[i] = s[i - 1] + Size[q[i]]
    /\ \A i, j \in 0..Len(q) : i <= j => s[i] <= s[j]
Takes(q, b) ==
    \E s \in [0..Len(q) -> 0..b] : IsRunningTotal(s, q) /\ s[Len(q)] = b

\* bytes_used_ is the sum over the queue whatever was pushed, popped, refused
\* or woken in between, and neither bound is exceeded: has_capacity subtracts
\* unsigned numbers and would wrap around otherwise.
BudgetExact ==
    /\ Takes(items, bytes)
    /\ bytes <= ByteCapacity
    /\ Len(items) <= ItemCapacity

\* notify_one is enough. While the queue is open no consumer sleeps over an
\* element that no woken consumer is about to take, and no producer sleeps
\* over an empty queue unless a woken producer is about to fill it; closing
\* leaves nobody asleep, a stop request leaves nobody without a callback.
ConsumersWoken ==
    ~stopped /\ Blocked(Consumer) # {} => Len(items) <= Cardinality(Woken(Consumer))
ProducersWoken ==
    ~stopped /\ items = <<>> /\ Blocked(Producer) # {} => Woken(Producer) # {}
NoLostWakeup ==
    /\ ConsumersWoken
    /\ ProducersWoken
    /\ closed => Blocked(QueueThread) = {}
    /\ stopped => Blocked(QueueThread) \subseteq callbacks

\* Elements leave in the order they entered, one at a time, and none enters
\* once the queue is closed, also not from a push that was already waiting.
FifoStep ==
    \/ items' = items
    \/ ~closed /\ ~stopped /\ \E v \in Item : items' = Append(items, v)
    \/ ~stopped /\ items # <<>> /\ items' = Tail(items)
Fifo == [][FifoStep]_queueVars

\* Consumers that have all ended without a stop request left nothing behind.
NothingStranded ==
    /\ Consumer # {}
    /\ \A c \in Consumer : phase[c] = "done"
    /\ ~stopped
    => items = <<>> /\ closed

\* The state of the queue under mutex_ is consistent and nobody sleeps over
\* something that is there: exact budget, no lost wakeup, nothing left behind.
QueueInv == QueueTypeOK /\ BudgetExact /\ NoLostWakeup /\ NothingStranded

\* QueueInv is not inductive alone: a woken producer must be known to fit an
\* empty queue, and each consumer that ended, not only all of them, must have
\* found the queue closed and empty.
WaitersFit ==
    \A p \in Producer : phase[p] \in {"waiting", "woken"} =>
        arg[p] \in Item /\ Size[arg[p]] <= ByteCapacity
EndedConsumers ==
    \A c \in Consumer : phase[c] = "done" /\ ~stopped => items = <<>> /\ closed
QueueIndInv == QueueInv /\ WaitersFit /\ EndedConsumers

\* Every push returns as long as consumers run, although notify_one may wake a
\* producer whose element does not fit while a smaller one sleeps.
PushReturns == \A p \in Producer : phase[p] = "waiting" ~> phase[p] \in {"idle", "done"}

\* Everything accepted is taken, after close() too, unless a stop request
\* abandons it.
Drained == items # <<>> ~> (items = <<>> \/ stopped)

\* After close() or a stop request every call in progress comes back.
ShutdownWakesAll ==
    closed \/ stopped ~> \A t \in QueueThread : phase[t] \notin {"waiting", "woken"}
=============================================================================
