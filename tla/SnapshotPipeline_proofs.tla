----------------------- MODULE SnapshotPipeline_proofs -----------------------
(***************************************************************************)
(* Proofs about SnapshotPipeline, for any number of workers and entries    *)
(* and all capacities and limits; and, before it, about the queue between  *)
(* its threads, BoundedQueue, for any number of producers and consumers,   *)
(* any element sizes and any two capacities.                               *)
(***************************************************************************)
EXTENDS BoundedQueue, SnapshotPipeline, FiniteSetTheorems, TLAPS

-----------------------------------------------------------------------------
(* The queue: the byte budget *)

\* An empty queue uses no bytes.
LEMMA EmptyTakesNothing ==
    ASSUME NEW q, NEW b, Takes(q, b), q = <<>>
    PROVE  b = 0
  BY DEF Takes, IsRunningTotal

LEMMA NothingTakesNothing == Takes(<<>>, 0)
<1> DEFINE s == [i \in 0..0 |-> 0]
<1>1. s \in [0..Len(<<>>) -> 0..0]
  OBVIOUS
<1>2. IsRunningTotal(s, <<>>) /\ s[Len(<<>>)] = 0
  BY DEF IsRunningTotal
<1>3. QED
  BY <1>1, <1>2 DEF Takes

\* push_impl: the running total of the longer queue goes one step further.
LEMMA TakesAppend ==
    ASSUME NEW q \in Seq(Item), NEW b \in Nat, Takes(q, b), NEW v \in Item
    PROVE  Takes(Append(q, v), b + Size[v])
<1> DEFINE n == Len(q)
           r == Append(q, v)
           c == b + Size[v]
<1>1. n \in Nat /\ Len(r) = n + 1 /\ r[n + 1] = v /\ \A i \in 1..n : r[i] = q[i]
  OBVIOUS
<1>2. c \in Nat /\ b <= c
  BY SizeAssumption
<1>3. PICK s \in [0..n -> 0..b] : IsRunningTotal(s, q) /\ s[n] = b
  BY DEF Takes
<1> DEFINE z == [i \in 0..(n + 1) |-> IF i = n + 1 THEN c ELSE s[i]]
<1>4. z \in [0..(n + 1) -> 0..c]
  BY <1>1, <1>2
<1>5. IsRunningTotal(z, r)
  <2>1. z[0] = 0
    BY <1>1, <1>3 DEF IsRunningTotal
  <2>2. ASSUME NEW i \in 1..(n + 1)
        PROVE  z[i] = z[i - 1] + Size[r[i]]
    <3>1. CASE i = n + 1
      <4>1. r[i] = v /\ z[i] = c /\ z[i - 1] = s[n]
        BY <3>1, <1>1
      <4>2. QED
        BY <4>1, <1>3
    <3>2. CASE i # n + 1
      <4>1. i \in 1..n /\ r[i] = q[i]
        BY <3>2, <1>1
      <4>2. z[i] = s[i] /\ z[i - 1] = s[i - 1]
        BY <4>1, <1>1
      <4>3. QED
        BY <4>1, <4>2, <1>3 DEF IsRunningTotal
    <3>3. QED
      BY <3>1, <3>2
  <2>3. ASSUME NEW i \in 0..(n + 1), NEW j \in 0..(n + 1), i <= j
        PROVE  z[i] <= z[j]
    <3>1. CASE j = n + 1
      <4>1. z[j] = c /\ z[i] \in 0..c
        BY <3>1, <1>4, <1>1
      <4>2. QED
        BY <4>1, <1>2
    <3>2. CASE j # n + 1
      <4>1. i \in 0..n /\ j \in 0..n /\ z[i] = s[i] /\ z[j] = s[j]
        BY <3>2, <2>3, <1>1
      <4>2. QED
        BY <4>1, <2>3, <1>3 DEF IsRunningTotal
    <3>3. QED
      BY <3>1, <3>2
  <2> HIDE DEF z, r
  <2>4. QED
    BY <2>1, <2>2, <2>3, <1>1 DEF IsRunningTotal
<1>6. z[n + 1] = c
  BY <1>1
<1> HIDE DEF z
<1>7. QED
  BY <1>1, <1>4, <1>5, <1>6 DEF Takes

\* pop: the running total of the shorter queue starts where the old one was
\* after its first element, so the subtraction cannot go below zero.
LEMMA TakesTail ==
    ASSUME NEW q \in Seq(Item), NEW b \in Nat, Takes(q, b), q # <<>>
    PROVE  /\ Takes(Tail(q), b - Size[Head(q)])
           /\ b - Size[Head(q)] \in Nat
           /\ b - Size[Head(q)] <= b
<1> DEFINE n == Len(q)
           r == Tail(q)
<1>1. /\ n \in Nat \ {0}
      /\ Len(r) = n - 1
      /\ Head(q) = q[1]
      /\ q[1] \in Item
      /\ \A i \in 1..(n - 1) : r[i] = q[i + 1]
  OBVIOUS
<1>2. Size[q[1]] \in Nat
  BY <1>1, SizeAssumption
<1>3. PICK s \in [0..n -> 0..b] : IsRunningTotal(s, q) /\ s[n] = b
  BY DEF Takes
<1>4. s[0] = 0 /\ s[1] = Size[q[1]] /\ s[1] <= b
  <2>1. 1 \in 1..n /\ 1 \in 0..n /\ 1 - 1 = 0
    BY <1>1
  <2>2. s[0] = 0 /\ s[1] = s[1 - 1] + Size[q[1]]
    BY <2>1, <1>3 DEF IsRunningTotal
  <2>3. s[1] \in 0..b
    BY <2>1, <1>3
  <2>4. QED
    BY <2>1, <2>2, <2>3, <1>2
<1> DEFINE c == b - Size[Head(q)]
<1>5. c = b - s[1] /\ c \in Nat /\ c <= b
  BY <1>1, <1>2, <1>4
<1> DEFINE z == [i \in 0..(n - 1) |-> s[i + 1] - s[1]]
<1>6. ASSUME NEW i \in 0..(n - 1)
      PROVE  s[i + 1] \in 0..b /\ s[1] <= s[i + 1] /\ z[i] = s[i + 1] - s[1]
  <2>1. i + 1 \in 0..n /\ 1 \in 0..n /\ 1 <= i + 1
    BY <1>1
  <2>2. QED
    BY <2>1, <1>3 DEF IsRunningTotal
<1>7. z \in [0..(n - 1) -> 0..c]
  <2>1. ASSUME NEW i \in 0..(n - 1)
        PROVE  s[i + 1] - s[1] \in 0..c
    BY <1>2, <1>4, <1>5, <1>6
  <2>2. QED
    BY <2>1
<1>8. IsRunningTotal(z, r)
  <2>1. z[0] = 0
    BY <1>1, <1>2, <1>4
  <2>2. ASSUME NEW i \in 1..(n - 1)
        PROVE  z[i] = z[i - 1] + Size[r[i]]
    <3>1. /\ i + 1 \in 1..n /\ (i + 1) - 1 = i
          /\ i \in 0..(n - 1) /\ i - 1 \in 0..(n - 1) /\ (i - 1) + 1 = i
      BY <1>1
    <3>2. s[i + 1] = s[i] + Size[q[i + 1]]
      BY <3>1, <1>3 DEF IsRunningTotal
    <3>3. r[i] = q[i + 1] /\ q[i + 1] \in Item
      BY <3>1, <1>1
    <3>4. z[i] = s[i + 1] - s[1] /\ z[i - 1] = s[i] - s[1] /\ s[i] \in 0..b
      BY <3>1, <1>6
    <3>5. Size[q[i + 1]] \in Nat
      BY <3>3, SizeAssumption
    <3>6. QED
      BY <3>2, <3>3, <3>4, <3>5, <1>2, <1>4
  <2>3. ASSUME NEW i \in 0..(n - 1), NEW j \in 0..(n - 1), i <= j
        PROVE  z[i] <= z[j]
    <3>1. i + 1 \in 0..n /\ j + 1 \in 0..n /\ i + 1 <= j + 1
      BY <2>3, <1>1
    <3>2. s[i + 1] <= s[j + 1]
      BY <3>1, <1>3 DEF IsRunningTotal
    <3>3. QED
      BY <3>2, <1>6, <1>2, <1>4
  <2> HIDE DEF z, r
  <2>4. QED
    BY <2>1, <2>2, <2>3, <1>1 DEF IsRunningTotal
<1>9. z[n - 1] = c
  <2>1. n - 1 \in 0..(n - 1) /\ (n - 1) + 1 = n
    BY <1>1
  <2>2. QED
    BY <2>1, <1>3, <1>5
<1> HIDE DEF z
<1>10. QED
  BY <1>1, <1>5, <1>7, <1>8, <1>9 DEF Takes

-----------------------------------------------------------------------------
(* The queue: its threads *)

\* A step of thread t leaves the element every other producer pushes alone.
ArgFrame(t) ==
    /\ arg' \in [Producer -> Item \cup {NoItem}]
    /\ calls' \in Nat
    /\ \A p \in Producer \ {t} : arg'[p] = arg[p]

\* The labels after a step of t that wakes W.
LEMMA LeaveLabels ==
    ASSUME QueueTypeOK, NEW t \in QueueThread, NEW W \in SUBSET QueueThread,
           NEW label \in {"idle", "waiting", "done"}, Leave(t, label, W)
    PROVE  /\ phase' \in [QueueThread -> {"idle", "waiting", "woken", "done"}]
           /\ phase'[t] = label
           /\ \A s \in QueueThread \ {t} : phase'[s] = IF s \in W THEN "woken" ELSE phase[s]
  BY DEF Leave, QueueTypeOK

\* notify_one wakes a blocked thread if there is one, and at most one.
LEMMA NotifyOneWakes ==
    ASSUME NEW Role \in SUBSET QueueThread, NEW W \in NotifyOne(Role)
    PROVE  /\ W \subseteq Blocked(Role)
           /\ W = {} => Blocked(Role) = {}
           /\ W # {} => \E t \in Blocked(Role) : W = {t}
  BY DEF NotifyOne

\* The threads are finitely many, so the woken ones can be counted.
LEMMA RolesFinite ==
    /\ IsFiniteSet(Woken(Consumer))
    /\ Cardinality(Woken(Consumer)) \in Nat
    /\ IsFiniteSet(Woken(Consumer)')
    /\ Cardinality(Woken(Consumer)') \in Nat
<1>1. Woken(Consumer) \subseteq Consumer /\ Woken(Consumer)' \subseteq Consumer
  BY DEF Woken
<1>2. QED
  BY <1>1, ThreadAssumption, FS_Subset, FS_CardinalityType

\* What no step of a producer may do to the consumers without telling them.
LEMMA ConsumersLeftAlone ==
    ASSUME ConsumersWoken, \A c \in Consumer : phase'[c] = phase[c],
           UNCHANGED <<items, stopped>>
    PROVE  ConsumersWoken'
<1>1. Blocked(Consumer)' = Blocked(Consumer) /\ Woken(Consumer)' = Woken(Consumer)
  BY DEF Blocked, Woken
<1>2. QED
  BY <1>1 DEF ConsumersWoken

LEMMA ProducersLeftAlone ==
    ASSUME ProducersWoken, \A p \in Producer : phase'[p] = phase[p],
           UNCHANGED <<items, stopped>>
    PROVE  ProducersWoken'
<1>1. Blocked(Producer)' = Blocked(Producer) /\ Woken(Producer)' = Woken(Producer)
  BY DEF Blocked, Woken
<1>2. QED
  BY <1>1 DEF ProducersWoken

\* NothingStranded is what EndedConsumers says of the last consumer.
LEMMA StrandedFromEnded ==
    ASSUME EndedConsumers PROVE NothingStranded
  BY DEF EndedConsumers, NothingStranded

LEMMA StrandedFromEndedNext ==
    ASSUME EndedConsumers' PROVE NothingStranded'
  BY DEF EndedConsumers, NothingStranded

-----------------------------------------------------------------------------
(* The queue: push and pop *)

\* A refused push, a refused pop.
LEMMA RefuseInv ==
    ASSUME QueueIndInv, NEW t \in QueueThread, Refuse(t), ArgFrame(t),
           phase[t] \in {"idle", "woken"},
           t \in Producer => stopped \/ closed \/ phase[t] = "idle",
           t \in Consumer => stopped \/ (closed /\ items = <<>>)
    PROVE  QueueIndInv'
<1> USE DEF QueueIndInv, QueueInv
<1>1. /\ phase' \in [QueueThread -> {"idle", "waiting", "woken", "done"}]
      /\ phase'[t] = "done"
      /\ \A s \in QueueThread \ {t} : phase'[s] = phase[s]
  BY LeaveLabels DEF Refuse
<1>2. QueueTypeOK'
  BY <1>1 DEF QueueTypeOK, ArgFrame, Refuse
<1>3. BudgetExact'
  BY DEF BudgetExact, Refuse
<1>4. NoLostWakeup'
  <2>1. ConsumersWoken'
    <3>1. CASE t \in Producer
      BY <3>1, <1>1, ThreadAssumption, ConsumersLeftAlone DEF QueueThread, Refuse, NoLostWakeup
    <3>2. CASE t \in Consumer
      <4>1. stopped' \/ items' = <<>>
        BY <3>2 DEF Refuse
      <4>2. items' = <<>> => Len(items') = 0
        OBVIOUS
      <4>3. QED
        BY <4>1, <4>2, RolesFinite DEF ConsumersWoken
    <3>3. QED
      BY <3>1, <3>2 DEF QueueThread
  <2>2. ProducersWoken'
    <3>1. CASE t \in Consumer
      BY <3>1, <1>1, ThreadAssumption, ProducersLeftAlone DEF QueueThread, Refuse, NoLostWakeup
    <3>2. CASE t \in Producer /\ phase[t] = "idle"
      <4>1. Blocked(Producer)' = Blocked(Producer) /\ Woken(Producer)' = Woken(Producer)
        BY <3>2, <1>1 DEF Blocked, Woken, QueueThread
      <4>2. QED
        BY <4>1 DEF ProducersWoken, NoLostWakeup, Refuse
    <3>3. CASE stopped
      BY <3>3 DEF ProducersWoken, Refuse
    <3>4. CASE closed
      <4>1. Blocked(Producer)' = {}
        BY <3>4, <1>1 DEF NoLostWakeup, Blocked, QueueThread
      <4>2. QED
        BY <4>1 DEF ProducersWoken
    <3>5. QED
      BY <3>1, <3>2, <3>3, <3>4 DEF QueueThread
  <2>3. Blocked(QueueThread)' = Blocked(QueueThread) /\ t \notin Blocked(QueueThread)
    BY <1>1 DEF Blocked
  <2>4. QED
    BY <2>1, <2>2, <2>3 DEF NoLostWakeup, Refuse
<1>5. WaitersFit'
  BY <1>1 DEF WaitersFit, ArgFrame, QueueThread
<1>6. EndedConsumers'
  BY <1>1 DEF EndedConsumers, Refuse, QueueThread
<1>7. QED
  BY <1>2, <1>3, <1>4, <1>5, <1>6, StrandedFromEndedNext

\* A push that finds no room: it would fit an empty queue, so the queue is not
\* empty. A pop that finds nothing.
LEMMA BlockInv ==
    ASSUME QueueIndInv, NEW t \in QueueThread, Block(t), ArgFrame(t),
           ~stopped, ~closed, phase[t] \in {"idle", "woken"},
           t \in Producer => /\ arg'[t] \in Item
                            /\ ~HasCapacity(arg'[t]) /\ Size[arg'[t]] <= ByteCapacity,
           t \in Consumer => items = <<>>
    PROVE  QueueIndInv'
<1> USE DEF QueueIndInv, QueueInv
<1>1. /\ phase' \in [QueueThread -> {"idle", "waiting", "woken", "done"}]
      /\ phase'[t] = "waiting"
      /\ \A s \in QueueThread \ {t} : phase'[s] = phase[s]
  BY LeaveLabels DEF Block
<1>2. QueueTypeOK'
  BY <1>1 DEF QueueTypeOK, ArgFrame, Block
<1>3. BudgetExact'
  BY DEF BudgetExact, Block
<1>4. NoLostWakeup'
  <2>1. ConsumersWoken'
    <3>1. CASE t \in Producer
      BY <3>1, <1>1, ThreadAssumption, ConsumersLeftAlone DEF QueueThread, Block, NoLostWakeup
    <3>2. CASE t \in Consumer
      <4>1. Len(items') = 0
        BY <3>2 DEF Block
      <4>2. QED
        BY <4>1, RolesFinite DEF ConsumersWoken
    <3>3. QED
      BY <3>1, <3>2 DEF QueueThread
  <2>2. ProducersWoken'
    <3>1. CASE t \in Consumer
      BY <3>1, <1>1, ThreadAssumption, ProducersLeftAlone DEF QueueThread, Block, NoLostWakeup
    <3>2. CASE t \in Producer
      <4>1. items # <<>>
        <5>1. SUFFICES ASSUME items = <<>> PROVE HasCapacity(arg'[t])
          BY <3>2
        <5>2. bytes = 0 /\ Len(items) = 0
          BY <5>1, EmptyTakesNothing DEF BudgetExact
        <5>3. Size[arg'[t]] \in Nat /\ Size[arg'[t]] <= ByteCapacity
          BY <3>2, SizeAssumption DEF ArgFrame
        <5>4. QED
          BY <5>2, <5>3, CapacityAssumption DEF HasCapacity
      <4>2. QED
        BY <4>1 DEF ProducersWoken, Block
    <3>3. QED
      BY <3>1, <3>2 DEF QueueThread
  <2>3. QED
    BY <2>1, <2>2 DEF NoLostWakeup, Block
<1>5. WaitersFit'
  BY <1>1 DEF WaitersFit, ArgFrame, QueueThread
<1>6. EndedConsumers'
  BY <1>1 DEF EndedConsumers, Block, QueueThread
<1>7. QED
  BY <1>2, <1>3, <1>4, <1>5, <1>6, StrandedFromEndedNext

\* An accepted push: one more element, and one more woken consumer if any
\* sleeps.
LEMMA AcceptInv ==
    ASSUME QueueIndInv, NEW p \in Producer, NEW v \in Item, Accept(p, v), ArgFrame(p),
           ~stopped, ~closed, HasCapacity(v)
    PROVE  QueueIndInv'
<1> USE DEF QueueIndInv, QueueInv
<1>1. p \in QueueThread /\ Consumer \subseteq QueueThread /\ p \notin Consumer
  BY ThreadAssumption DEF QueueThread
<1>2. PICK W \in NotifyOne(Consumer) : Leave(p, "idle", W)
  BY DEF Accept
<1>3. /\ W \subseteq Blocked(Consumer)
      /\ W = {} => Blocked(Consumer) = {}
      /\ W # {} => \E t \in Blocked(Consumer) : W = {t}
  BY <1>1, NotifyOneWakes
<1>4. W \subseteq Consumer
  BY <1>3 DEF Blocked
<1>5. /\ phase' \in [QueueThread -> {"idle", "waiting", "woken", "done"}]
      /\ phase'[p] = "idle"
      /\ \A s \in QueueThread \ {p} : phase'[s] = IF s \in W THEN "woken" ELSE phase[s]
  BY <1>1, <1>2, <1>4, LeaveLabels
<1>6. /\ items' \in Seq(Item) /\ items' # <<>> /\ Len(items') = Len(items) + 1
      /\ Len(items) \in Nat
  BY DEF QueueTypeOK, Accept
<1>7. bytes' \in Nat
  BY SizeAssumption DEF QueueTypeOK, Accept
<1>8. QueueTypeOK'
  BY <1>5, <1>6, <1>7 DEF QueueTypeOK, ArgFrame, Accept
<1>9. BudgetExact'
  <2>1. Takes(items', bytes')
    BY TakesAppend DEF Accept, QueueTypeOK, BudgetExact
  <2>2. bytes \in Nat /\ Size[v] \in Nat
    BY SizeAssumption DEF QueueTypeOK
  <2>3. QED
    BY <2>1, <2>2, <1>6, CapacityAssumption DEF BudgetExact, HasCapacity, Accept
<1>10. NoLostWakeup'
  <2>1. ConsumersWoken'
    <3>1. CASE Blocked(Consumer) = {}
      <4>1. Blocked(Consumer)' = {}
        BY <3>1, <1>1, <1>3, <1>5 DEF Blocked
      <4>2. QED
        BY <4>1 DEF ConsumersWoken
    <3>2. CASE Blocked(Consumer) # {}
      <4>1. PICK t \in Blocked(Consumer) : W = {t}
        BY <3>2, <1>3
      <4>2. t \in Consumer /\ t \notin Woken(Consumer)
        BY <4>1 DEF Blocked, Woken
      <4>3. Woken(Consumer)' = Woken(Consumer) \cup {t}
        BY <4>1, <4>2, <1>1, <1>5 DEF Woken
      <4>4. Cardinality(Woken(Consumer)') = Cardinality(Woken(Consumer)) + 1
        BY <4>2, <4>3, RolesFinite, FS_AddElement
      <4>5. Len(items) <= Cardinality(Woken(Consumer))
        BY <3>2 DEF NoLostWakeup, ConsumersWoken
      <4>6. QED
        BY <4>4, <4>5, <1>6, RolesFinite DEF ConsumersWoken
    <3>3. QED
      BY <3>1, <3>2
  <2>2. ProducersWoken'
    BY <1>6 DEF ProducersWoken
  <2>3. QED
    BY <2>1, <2>2 DEF NoLostWakeup, Accept
<1>11. WaitersFit'
  BY <1>4, <1>5, ThreadAssumption DEF WaitersFit, ArgFrame, QueueThread
<1>12. EndedConsumers'
  BY <1>1, <1>5 DEF EndedConsumers, Accept
<1>13. QED
  BY <1>8, <1>9, <1>10, <1>11, <1>12, StrandedFromEndedNext

\* A pop that gets an element: one element and at most one woken consumer
\* less, and one more woken producer if any sleeps.
LEMMA TakeInv ==
    ASSUME QueueIndInv, NEW c \in Consumer, Take(c), UNCHANGED <<arg, calls>>,
           ~stopped, items # <<>>, phase[c] \in {"idle", "woken"}
    PROVE  QueueIndInv'
<1> USE DEF QueueIndInv, QueueInv
<1>1. c \in QueueThread /\ Producer \subseteq QueueThread /\ c \notin Producer
  BY ThreadAssumption DEF QueueThread
<1>2. PICK W \in NotifyOne(Producer) : Leave(c, "idle", W)
  BY DEF Take
<1>3. /\ W \subseteq Blocked(Producer)
      /\ W = {} => Blocked(Producer) = {}
      /\ W # {} => \E t \in Blocked(Producer) : W = {t}
  BY <1>1, NotifyOneWakes
<1>4. W \subseteq Producer
  BY <1>3 DEF Blocked
<1>5. /\ phase' \in [QueueThread -> {"idle", "waiting", "woken", "done"}]
      /\ phase'[c] = "idle"
      /\ \A s \in QueueThread \ {c} : phase'[s] = IF s \in W THEN "woken" ELSE phase[s]
  BY <1>1, <1>2, <1>4, LeaveLabels
<1>6. /\ items' \in Seq(Item) /\ Len(items') = Len(items) - 1
      /\ Len(items) \in Nat \ {0}
  BY DEF QueueTypeOK, Take
<1>7. /\ Takes(items', bytes')
      /\ bytes' \in Nat /\ bytes' <= bytes
  BY TakesTail DEF Take, QueueTypeOK, BudgetExact
<1>8. QueueTypeOK'
  BY <1>5, <1>6, <1>7 DEF QueueTypeOK, Take
<1>9. BudgetExact'
  BY <1>6, <1>7, CapacityAssumption DEF BudgetExact, QueueTypeOK
<1>10. NoLostWakeup'
  <2>1. ConsumersWoken'
    <3>1. Blocked(Consumer)' = Blocked(Consumer)
      BY <1>1, <1>4, <1>5, ThreadAssumption DEF Blocked, QueueThread
    <3>2. Woken(Consumer)' = Woken(Consumer) \ {c}
      BY <1>1, <1>4, <1>5, ThreadAssumption DEF Woken, QueueThread
    <3>3. Cardinality(Woken(Consumer)') >= Cardinality(Woken(Consumer)) - 1
      BY <3>2, RolesFinite, FS_RemoveElement
    <3>4. Blocked(Consumer) # {} => Len(items) <= Cardinality(Woken(Consumer))
      BY DEF NoLostWakeup, ConsumersWoken
    <3>5. QED
      BY <3>1, <3>3, <3>4, <1>6, RolesFinite DEF ConsumersWoken
  <2>2. ProducersWoken'
    <3>1. CASE Blocked(Producer) = {}
      <4>1. Blocked(Producer)' = {}
        BY <3>1, <1>1, <1>3, <1>5 DEF Blocked
      <4>2. QED
        BY <4>1 DEF ProducersWoken
    <3>2. CASE Blocked(Producer) # {}
      <4>1. PICK t \in Blocked(Producer) : W = {t}
        BY <3>2, <1>3
      <4>2. t \in Woken(Producer)'
        BY <4>1, <1>1, <1>5 DEF Blocked, Woken
      <4>3. QED
        BY <4>2 DEF ProducersWoken
    <3>3. QED
      BY <3>1, <3>2
  <2>3. Blocked(QueueThread)' \subseteq Blocked(QueueThread)
    BY <1>1, <1>5 DEF Blocked
  <2>4. QED
    BY <2>1, <2>2, <2>3 DEF NoLostWakeup, Take
<1>11. WaitersFit'
  <2>1. \A p \in Producer : phase'[p] \in {"waiting", "woken"} => phase[p] \in {"waiting", "woken"}
    BY <1>1, <1>3, <1>5 DEF Blocked
  <2>2. QED
    BY <2>1 DEF WaitersFit
<1>12. EndedConsumers'
  <2>1. \A d \in Consumer : phase'[d] = "done" => phase[d] = "done"
    BY <1>1, <1>5 DEF QueueThread
  <2>2. QED
    BY <2>1 DEF EndedConsumers, Take
<1>13. QED
  BY <1>8, <1>9, <1>10, <1>11, <1>12, StrandedFromEndedNext

LEMMA PushInv ==
    ASSUME QueueIndInv, NEW p \in Producer, NEW v \in Item, Push(p, v)
    PROVE  QueueIndInv'
<1>1. /\ ArgFrame(p)
      /\ phase'[p] = "waiting" => arg'[p] = v
      /\ p \in QueueThread /\ p \notin Consumer /\ phase[p] = "idle"
  BY ThreadAssumption DEF Push, Hold, ArgFrame, QueueIndInv, QueueInv, QueueTypeOK, QueueThread
<1>2. CASE Size[v] > ByteCapacity
  BY <1>1, <1>2, RefuseInv DEF Push
<1>3. CASE ~(Size[v] > ByteCapacity)
  <2>1. Size[v] <= ByteCapacity
    BY <1>3, SizeAssumption, CapacityAssumption
  <2>2. CASE (stopped \/ closed) /\ Refuse(p)
    BY <1>1, <2>2, RefuseInv
  <2>3. CASE ~stopped /\ ~closed /\ HasCapacity(v) /\ Accept(p, v)
    BY <1>1, <2>3, AcceptInv
  <2>4. CASE ~stopped /\ ~closed /\ ~HasCapacity(v) /\ Block(p)
    <3>1. phase'[p] = "waiting"
      BY <1>1, <2>4 DEF Block, Leave
    <3>2. QED
      BY <1>1, <2>1, <2>4, <3>1, BlockInv
  <2>5. QED
    BY <1>3, <2>2, <2>3, <2>4 DEF Push, PushLocked
<1>4. QED
  BY <1>2, <1>3

LEMMA ResumePushInv ==
    ASSUME QueueIndInv, NEW p \in Producer, ResumePush(p)
    PROVE  QueueIndInv'
<1>1. /\ ArgFrame(p) /\ arg[p] \in Item
      /\ phase'[p] = "waiting" => arg'[p] = arg[p]
      /\ p \in QueueThread /\ p \notin Consumer
      /\ phase[p] = "woken" /\ Size[arg[p]] <= ByteCapacity
  BY ThreadAssumption
     DEF ResumePush, Hold, ArgFrame, QueueIndInv, QueueInv, QueueTypeOK, QueueThread, WaitersFit
<1>2. CASE (stopped \/ closed) /\ Refuse(p)
  BY <1>1, <1>2, RefuseInv
<1>3. CASE ~stopped /\ ~closed /\ HasCapacity(arg[p]) /\ Accept(p, arg[p])
  BY <1>1, <1>3, AcceptInv
<1>4. CASE ~stopped /\ ~closed /\ ~HasCapacity(arg[p]) /\ Block(p)
  <2>1. phase'[p] = "waiting"
    BY <1>1, <1>4 DEF Block, Leave
  <2>2. QED
    BY <1>1, <1>4, <2>1, BlockInv
<1>5. QED
  BY <1>2, <1>3, <1>4 DEF ResumePush, PushLocked

\* pop and its continuation after the wait.
LEMMA PopLockedInv ==
    ASSUME QueueIndInv, NEW c \in Consumer, PopLocked(c), UNCHANGED <<arg, calls>>,
           phase[c] \in {"idle", "woken"}
    PROVE  QueueIndInv'
<1>1. ArgFrame(c) /\ c \in QueueThread /\ c \notin Producer
  BY ThreadAssumption DEF ArgFrame, QueueIndInv, QueueInv, QueueTypeOK, QueueThread
<1>2. CASE (stopped \/ (closed /\ items = <<>>)) /\ Refuse(c)
  BY <1>1, <1>2, RefuseInv
<1>3. CASE ~stopped /\ items # <<>> /\ Take(c)
  BY <1>3, TakeInv
<1>4. CASE ~stopped /\ ~closed /\ items = <<>> /\ Block(c)
  BY <1>1, <1>4, BlockInv
<1>5. QED
  BY <1>2, <1>3, <1>4 DEF PopLocked

-----------------------------------------------------------------------------
(* The queue: close, the stop token and the condition variables *)

\* Waking blocked threads, and nothing else, keeps everything but the
\* count of the woken consumers as it is; that one can only grow.
LEMMA WakeInv ==
    ASSUME QueueIndInv, NEW W, W \subseteq Blocked(QueueThread),
           phase' = [t \in QueueThread |-> IF t \in W THEN "woken" ELSE phase[t]],
           UNCHANGED <<items, bytes, stopped, arg, calls>>,
           closed' \in BOOLEAN, closed => closed',
           closed' => Blocked(QueueThread)' = {},
           callbacks' \in SUBSET QueueThread, stopped => Blocked(QueueThread)' \subseteq callbacks'
    PROVE  QueueIndInv'
<1> USE DEF QueueIndInv, QueueInv
<1>1. QueueTypeOK'
  BY DEF QueueTypeOK
<1>2. BudgetExact'
  BY DEF BudgetExact
<1>3. \A t \in QueueThread : phase'[t] = IF t \in W THEN "woken" ELSE phase[t]
  OBVIOUS
<1>4. \A t \in W : phase[t] = "waiting"
  BY DEF Blocked
<1>5. ConsumersWoken'
  <2>1. Woken(Consumer) \subseteq Woken(Consumer)'
    BY <1>3 DEF Woken, QueueThread
  <2>2. Cardinality(Woken(Consumer)) <= Cardinality(Woken(Consumer)')
    BY <2>1, RolesFinite, FS_Subset
  <2>3. Blocked(Consumer)' \subseteq Blocked(Consumer)
    BY <1>3 DEF Blocked, QueueThread
  <2>4. Len(items) \in Nat
    BY DEF QueueTypeOK
  <2>5. QED
    BY <2>2, <2>3, <2>4, RolesFinite DEF NoLostWakeup, ConsumersWoken
<1>6. ProducersWoken'
  <2>1. Woken(Producer) \subseteq Woken(Producer)'
    BY <1>3 DEF Woken, QueueThread
  <2>2. Blocked(Producer)' \subseteq Blocked(Producer)
    BY <1>3 DEF Blocked, QueueThread
  <2>3. QED
    BY <2>1, <2>2 DEF NoLostWakeup, ProducersWoken
<1>7. NoLostWakeup'
  BY <1>5, <1>6 DEF NoLostWakeup
<1>8. WaitersFit'
  BY <1>3, <1>4 DEF WaitersFit, QueueThread
<1>9. EndedConsumers'
  BY <1>3 DEF EndedConsumers, QueueThread
<1>10. QED
  BY <1>1, <1>2, <1>7, <1>8, <1>9, StrandedFromEndedNext

LEMMA CloseInv ==
    ASSUME QueueIndInv, Close
    PROVE  QueueIndInv'
<1> DEFINE W == NotifyAll(Producer) \cup NotifyAll(Consumer)
<1>1. W = Blocked(QueueThread)
  BY DEF NotifyAll, Blocked, QueueThread
<1>2. Blocked(QueueThread)' = {}
  BY <1>1 DEF Close, Blocked, QueueThread
<1>3. closed' \in BOOLEAN /\ callbacks' \in SUBSET QueueThread
  BY DEF Close, QueueIndInv, QueueInv, QueueTypeOK
<1>4. phase' = [t \in QueueThread |-> IF t \in W THEN "woken" ELSE phase[t]]
  BY DEF Close
<1>5. QED
  BY <1>1, <1>2, <1>3, <1>4, WakeInv DEF Close

LEMMA StopTokenInv ==
    ASSUME QueueIndInv, StopToken
    PROVE  QueueIndInv'
<1> USE DEF QueueIndInv, QueueInv, StopToken
<1>1. QueueTypeOK'
  BY DEF QueueTypeOK, Blocked, Woken
<1>2. BudgetExact'
  BY DEF BudgetExact
<1>3. NoLostWakeup'
  BY DEF NoLostWakeup, ConsumersWoken, ProducersWoken, Blocked, Woken
<1>4. WaitersFit' /\ EndedConsumers'
  BY DEF WaitersFit, EndedConsumers
<1>5. QED
  BY <1>1, <1>2, <1>3, <1>4, StrandedFromEndedNext

LEMMA RunCallbackInv ==
    ASSUME QueueIndInv, NEW t \in QueueThread, RunStopCallback(t)
    PROVE  QueueIndInv'
<1> DEFINE W == IF t \in Producer THEN NotifyAll(Producer) ELSE NotifyAll(Consumer)
<1>1. W \subseteq Blocked(QueueThread) /\ (t \in Blocked(QueueThread) => t \in W)
  BY DEF NotifyAll, Blocked, QueueThread
<1>2. phase' = [s \in QueueThread |-> IF s \in W THEN "woken" ELSE phase[s]]
  BY DEF RunStopCallback
<1>3. Blocked(QueueThread)' \subseteq Blocked(QueueThread) \ {t}
  BY <1>1, <1>2 DEF Blocked
<1>4. /\ closed' \in BOOLEAN
      /\ callbacks' \in SUBSET QueueThread
      /\ closed => Blocked(QueueThread) = {}
      /\ stopped => Blocked(QueueThread) \subseteq callbacks
  BY DEF RunStopCallback, QueueIndInv, QueueInv, QueueTypeOK, NoLostWakeup
<1>5. QED
  BY <1>1, <1>2, <1>3, <1>4, WakeInv DEF RunStopCallback

LEMMA SpuriousWakeInv ==
    ASSUME QueueIndInv, NEW t \in QueueThread, SpuriousWake(t)
    PROVE  QueueIndInv'
<1> DEFINE W == {t}
<1>1. W \subseteq Blocked(QueueThread)
  BY DEF SpuriousWake, Blocked
<1>2. phase' = [s \in QueueThread |-> IF s \in W THEN "woken" ELSE phase[s]]
  BY DEF SpuriousWake, QueueIndInv, QueueInv, QueueTypeOK
<1>3. Blocked(QueueThread)' \subseteq Blocked(QueueThread)
  BY <1>2 DEF Blocked
<1>4. /\ closed' \in BOOLEAN
      /\ callbacks' \in SUBSET QueueThread
      /\ closed => Blocked(QueueThread) = {}
      /\ stopped => Blocked(QueueThread) \subseteq callbacks
  BY DEF SpuriousWake, QueueIndInv, QueueInv, QueueTypeOK, NoLostWakeup
<1>5. QED
  BY <1>1, <1>2, <1>3, <1>4, WakeInv DEF SpuriousWake

-----------------------------------------------------------------------------
(* The queue: the theorems *)

LEMMA QueueInitInv == QueueInit => QueueIndInv
<1> SUFFICES ASSUME QueueInit PROVE QueueIndInv
  OBVIOUS
<1> USE DEF QueueInit
<1>1. QueueTypeOK
  <2>1. items \in Seq(Item) /\ bytes \in Nat /\ calls \in Nat
    OBVIOUS
  <2>2. closed \in BOOLEAN /\ stopped \in BOOLEAN /\ callbacks \in SUBSET QueueThread
    OBVIOUS
  <2>3. phase \in [QueueThread -> {"idle", "waiting", "woken", "done"}]
    OBVIOUS
  <2>4. QED
    BY <2>1, <2>2, <2>3 DEF QueueTypeOK
<1>2. BudgetExact
  BY NothingTakesNothing, CapacityAssumption DEF BudgetExact
<1>3. Blocked(QueueThread) = {} /\ Blocked(Producer) = {} /\ Blocked(Consumer) = {}
  BY DEF Blocked, QueueThread
<1>4. NoLostWakeup
  BY <1>3 DEF NoLostWakeup, ConsumersWoken, ProducersWoken
<1>5. WaitersFit /\ EndedConsumers
  BY DEF WaitersFit, EndedConsumers, QueueThread
<1>6. QED
  BY <1>1, <1>2, <1>4, <1>5, StrandedFromEnded DEF QueueIndInv, QueueInv

LEMMA StutterInv == QueueIndInv /\ UNCHANGED queueVars => QueueIndInv'
<1> SUFFICES ASSUME QueueIndInv, UNCHANGED queueVars PROVE QueueIndInv'
  OBVIOUS
<1>1. QueueTypeOK' /\ BudgetExact'
  BY DEF queueVars, QueueIndInv, QueueInv, QueueTypeOK, BudgetExact
<1>2. NoLostWakeup'
  BY DEF queueVars, QueueIndInv, QueueInv, NoLostWakeup, ConsumersWoken, ProducersWoken,
         Blocked, Woken
<1>3. WaitersFit' /\ EndedConsumers'
  BY DEF queueVars, QueueIndInv, WaitersFit, EndedConsumers
<1>4. QED
  BY <1>1, <1>2, <1>3, StrandedFromEndedNext DEF QueueIndInv, QueueInv

LEMMA QueueNextInv == QueueIndInv /\ [QueueNext]_queueVars => QueueIndInv'
<1> SUFFICES ASSUME QueueIndInv, [QueueNext]_queueVars PROVE QueueIndInv'
  OBVIOUS
<1>1. ASSUME NEW p \in Producer, NEW v \in Item, Push(p, v) PROVE QueueIndInv'
  BY <1>1, PushInv
<1>2. ASSUME NEW p \in Producer, ResumePush(p) PROVE QueueIndInv'
  BY <1>2, ResumePushInv
<1>3. ASSUME NEW c \in Consumer, Pop(c) \/ ResumePop(c) PROVE QueueIndInv'
  BY <1>3, PopLockedInv DEF Pop, ResumePop
<1>4. CASE Close
  BY <1>4, CloseInv
<1>5. CASE StopToken
  BY <1>5, StopTokenInv
<1>6. ASSUME NEW t \in QueueThread, RunStopCallback(t) \/ SpuriousWake(t) PROVE QueueIndInv'
  BY <1>6, RunCallbackInv, SpuriousWakeInv
<1>7. CASE UNCHANGED queueVars
  BY <1>7, StutterInv
<1>8. QED
  BY <1>1, <1>2, <1>3, <1>4, <1>5, <1>6, <1>7 DEF QueueNext

\* The inductive invariant of the queue.
THEOREM QueueIndInvariant == QueueSpec => []QueueIndInv
  BY QueueInitInv, QueueNextInv, PTL DEF QueueSpec

\* bytes_used_ is always the sum over the queue and within the budget, the one
\* notify_one per push and per pop loses no wakeup whatever the number of
\* sleepers, and consumers that ended unasked left an empty, closed queue.
THEOREM QueueInvariant == QueueSpec => []QueueInv
<1>1. QueueIndInv => QueueInv
  BY DEF QueueIndInv
<1>2. QED
  BY <1>1, QueueIndInvariant, PTL

\* push_impl, pop and close keep the order: an element enters at the back of
\* an open queue or leaves at the front, one at a time.
THEOREM FifoHolds == QueueSpec => Fifo
<1>1. QueueIndInv /\ [QueueNext]_queueVars => [FifoStep]_queueVars
  <2> SUFFICES ASSUME QueueIndInv, [QueueNext]_queueVars PROVE [FifoStep]_queueVars
    OBVIOUS
  <2>1. ASSUME NEW p \in Producer, NEW v \in Item, Push(p, v) PROVE FifoStep
    BY <2>1 DEF FifoStep, Push, PushLocked, Refuse, Accept, Block
  <2>2. ASSUME NEW p \in Producer, ResumePush(p) PROVE FifoStep
    <3>1. arg[p] \in Item
      BY <2>2 DEF QueueIndInv, WaitersFit, ResumePush
    <3>2. QED
      BY <2>2, <3>1 DEF FifoStep, ResumePush, PushLocked, Refuse, Accept, Block
  <2>3. ASSUME NEW c \in Consumer, Pop(c) \/ ResumePop(c) PROVE FifoStep
    BY <2>3 DEF FifoStep, Pop, ResumePop, PopLocked, Refuse, Take, Block
  <2>4. CASE Close \/ StopToken
    BY <2>4 DEF FifoStep, Close, StopToken
  <2>5. ASSUME NEW t \in QueueThread, RunStopCallback(t) \/ SpuriousWake(t) PROVE FifoStep
    BY <2>5 DEF FifoStep, RunStopCallback, SpuriousWake
  <2>6. QED
    BY <2>1, <2>2, <2>3, <2>4, <2>5 DEF QueueNext
<1>2. QED
  BY <1>1, QueueIndInvariant, PTL DEF QueueSpec, Fifo

-----------------------------------------------------------------------------
(* The pipeline: the threads and the places *)

\* The threads have different names.
LEMMA Roles ==
    /\ "main" \in Thread /\ "user" \in Thread
    /\ "main" \notin Pool /\ "user" \notin Pool
    /\ "scanner" \in Pool /\ "writer" \in Pool /\ "progress" \in Pool
    /\ Worker \subseteq Pool /\ Pool \subseteq Thread
    /\ "scanner" \notin Worker /\ "writer" \notin Worker /\ "progress" \notin Worker
    /\ "main" \notin Worker /\ "user" \notin Worker
    /\ Worker \subseteq Holder /\ "writer" \in Holder /\ Holder \subseteq Pool
    /\ \A t \in Thread : t \in Pool \/ t = "main" \/ t = "user"
    /\ \A t \in Pool : t \in Worker \/ t \in {"scanner", "writer", "progress"}
    /\ \A t \in Holder : t \in Worker \/ t = "writer"
  BY DistinctAssumption DEF Thread, Pool, Holder

\* The entries at each place.
LEMMA AtValues ==
    /\ At("todo") = todo
    /\ At("jobs") = jobs
    /\ At("processed") = Paths(processed)
    /\ At("batch") = Paths(batch)
    /\ At("committed") = Paths(committed)
    /\ \A t \in Holder : At(t) = Paths(InHand(t))
<1>1. Stage \cap Holder = {}
  BY DistinctAssumption DEF Stage, Holder
<1>2. QED
  BY <1>1 DEF At, Stage

LEMMA AtValuesNext ==
    /\ At("todo")' = todo'
    /\ At("jobs")' = jobs'
    /\ At("processed")' = Paths(processed')
    /\ At("batch")' = Paths(batch')
    /\ At("committed")' = Paths(committed')
    /\ \A t \in Holder : At(t)' = Paths(InHand(t)')
<1>1. Stage \cap Holder = {}
  BY DistinctAssumption DEF Stage, Holder
<1>2. QED
  BY <1>1 DEF At, Stage

\* The places are different ones.
LEMMA Places ==
    /\ Stage \subseteq Place /\ Holder \subseteq Place
    /\ "todo" \in Stage /\ "jobs" \in Stage /\ "processed" \in Stage
    /\ "batch" \in Stage /\ "committed" \in Stage
    /\ Stage \cap Holder = {}
    /\ \A p \in Place : p \in Stage \/ p \in Holder
  BY DistinctAssumption DEF Place, Stage, Holder

\* What a hand holds.
LEMMA HandPaths ==
    ASSUME NEW t \in Holder
    PROVE  /\ hand[t] = None => Paths(InHand(t)) = {}
           /\ hand[t] # None => Paths(InHand(t)) = {hand[t][1]}
           /\ hand'[t] = None => Paths(InHand(t)') = {}
           /\ hand'[t] # None => Paths(InHand(t)') = {hand'[t][1]}
  BY DEF Paths, InHand

\* The parts of ExactlyOnce: at most one place each, and one for each.
Disjoint ==
    \A e \in Entry, p \in Place : e \in At(p) => \A q \in Place \ {p} : e \notin At(q)
Complete == \A e \in Entry : \E p \in Place : e \in At(p)

\* Entries that go from one place to the next are neither lost nor doubled.
LEMMA Move ==
    ASSUME Disjoint, NEW a \in Place, NEW b \in Place, a # b,
           NEW S, S \subseteq At(a),
           At(a)' = At(a) \ S, At(b)' = At(b) \cup S,
           \A p \in Place \ {a, b} : At(p)' = At(p)
    PROVE  Disjoint' /\ (Complete => Complete')
<1>1. Disjoint'
  <2> SUFFICES ASSUME NEW e \in Entry, NEW p \in Place, NEW q \in Place \ {p},
                      e \in At(p)', e \in At(q)'
               PROVE  FALSE
    BY DEF Disjoint
  <2>1. CASE e \in S
    <3>1. e \notin At(a)'
      BY <2>1
    <3>2. \A x \in Place \ {a} : e \notin At(x)
      BY <2>1 DEF Disjoint
    <3>3. p = b /\ q = b
      BY <3>1, <3>2
    <3>4. QED
      BY <3>3
  <2>2. CASE e \notin S
    <3>1. e \in At(p) /\ e \in At(q)
      BY <2>2
    <3>2. QED
      BY <3>1 DEF Disjoint
  <2>3. QED
    BY <2>1, <2>2
<1>2. ASSUME Complete PROVE Complete'
  <2> SUFFICES ASSUME NEW e \in Entry PROVE \E p \in Place : e \in At(p)'
    BY DEF Complete
  <2>1. PICK p \in Place : e \in At(p)
    BY <1>2 DEF Complete
  <2>2. CASE p = a /\ e \in S
    BY <2>2
  <2>3. CASE p = a /\ e \notin S
    BY <2>1, <2>3
  <2>4. CASE p # a
    BY <2>1, <2>4
  <2>5. QED
    BY <2>2, <2>3, <2>4
<1>3. QED
  BY <1>1, <1>2

\* What is dropped is not doubled.
LEMMA Drop ==
    ASSUME Disjoint, \A p \in Place : At(p)' \subseteq At(p)
    PROVE  Disjoint'
  BY DEF Disjoint

\* Nothing moves.
LEMMA Stay ==
    ASSUME \A p \in Place : At(p)' = At(p)
    PROVE  Disjoint' = Disjoint /\ Complete' = Complete
  BY DEF Disjoint, Complete

LEMMA OnceParts ==
    ExactlyOnce <=> /\ Disjoint
                    /\ OneRecordEach(processed)
                    /\ OneRecordEach(batch)
                    /\ OneRecordEach(committed)
                    /\ firstError = "none" /\ faults = 0 => Complete
  BY DEF ExactlyOnce, Disjoint, Complete

LEMMA OncePartsNext ==
    ASSUME Disjoint', OneRecordEach(processed'), OneRecordEach(batch'),
           OneRecordEach(committed'), firstError' = "none" /\ faults' = 0 => Complete'
    PROVE  ExactlyOnce'
  BY DEF ExactlyOnce, Disjoint, Complete, OneRecordEach

\* Adding the record of an entry that has none.
LEMMA OneRecordAdd ==
    ASSUME NEW R, OneRecordEach(R), NEW r, r[1] \notin Paths(R)
    PROVE  OneRecordEach(R \cup {r})
  BY DEF OneRecordEach, Paths

-----------------------------------------------------------------------------
(* Control: threads, errors and outcomes *)

LEMMA ScopeFromThreadsNext ==
    ASSUME ThreadInv' PROVE NoUseAfterScope'
  BY Roles DEF ThreadInv, NoUseAfterScope, Joining

LEMMA Compose ==
    ASSUME TypeOK', ExactlyOnce', RootCauseReported', PublishedIsWhole',
           ThreadInv', ErrorInv', FlowInv', HandInv'
    PROVE  IndInv'
  BY ScopeFromThreadsNext DEF IndInv, PipelineInv

\* While a thread of the pool runs, the calling thread is still inside the
\* scope of the queues.
LEMMA PoolRuns ==
    ASSUME IndInv, NEW t \in Pool, pc[t] \notin {"unborn", "exit"}
    PROVE  /\ t \in started
           /\ pc["main"] \notin {"prepare", "register", "rethrow", "finalize", "exit"}
           /\ outcome = "none"
  BY Roles DEF IndInv, ThreadInv, PipelineInv, NoUseAfterScope, Gone

\* The verdict follows from what it was, as long as nobody decides it.
LEMMA VerdictKept ==
    ASSUME IndInv, UNCHANGED outcome, extStop => extStop', faults' \in Nat, faults' >= faults,
           firstError' # "rejected",
           outcome = "complete" => UNCHANGED <<faults, committed>>
    PROVE  RootCauseReported' /\ PublishedIsWhole'
<1>1. faults \in Nat
  BY FaultAssumption DEF IndInv, PipelineInv, TypeOK
<1>2. faults' > 0 \/ ~(faults > 0)
  BY <1>1
<1>3. RootCauseReported'
  BY <1>2 DEF IndInv, RootCauseReported
<1>4. PublishedIsWhole'
  BY DEF IndInv, PublishedIsWhole
<1>5. QED
  BY <1>3, <1>4

\* A thread of the pool goes on to its next label.
LEMMA PoolMove ==
    ASSUME IndInv, NEW t \in Pool, NEW l,
           pc[t] \notin ShutdownStep \cup {"unborn", "exit"},
           l \notin ShutdownStep \cup {"unborn"}, Goto(t, l),
           UNCHANGED <<started, registered, extStop, stop, firstError, err, outcome, faults>>
    PROVE  ThreadInv' /\ ErrorInv' /\ RootCauseReported' /\ PublishedIsWhole'
<1> USE DEF Goto
<1>1. /\ t \in Thread
      /\ \A s \in Thread \ {t} : pc'[s] = pc[s]
      /\ pc'[t] = l
      /\ pc'["main"] = pc["main"] /\ pc'["user"] = pc["user"]
  BY Roles DEF IndInv, PipelineInv, TypeOK
<1>2. pc["main"] \notin {"prepare", "register", "rethrow", "finalize", "exit"} /\ outcome = "none"
      /\ t \in started
  BY PoolRuns
<1>3. \A s \in Pool : Gone(s) => s # t /\ Gone(s)'
  BY <1>1, <1>2, Roles DEF Gone
<1>4. ThreadInv'
  <2>1. \A s \in Pool : s \in started' <=> pc'[s] # "unborn"
    BY <1>1, <1>2, Roles DEF IndInv, ThreadInv
  <2>2. QED
    BY <1>1, <1>2, <1>3, <2>1, Roles DEF IndInv, ThreadInv, Joining
<1>5. ErrorInv'
  <2>1. \A s \in Thread : pc'[s] \in ShutdownStep => pc'[s] = pc[s]
    BY <1>1
  <2>2. \A s \in Thread : pc[s] = "record" <=> pc'[s] = "record"
    BY <1>1 DEF ShutdownStep
  <2>3. \A s \in Thread : pc'[s] \in {"request_stop", "close"} => pc'[s] = pc[s]
    BY <2>1 DEF ShutdownStep
  <2>4. QED
    BY <1>1, <1>2, <2>2, <2>3 DEF IndInv, ErrorInv
<1>6. firstError # "rejected" /\ faults' \in Nat /\ faults' >= faults
  BY FaultAssumption DEF IndInv, RootCauseReported, PipelineInv, TypeOK
<1>7. RootCauseReported' /\ PublishedIsWhole'
  BY <1>2, <1>6, VerdictKept
<1>8. QED
  BY <1>4, <1>5, <1>7

\* A thread starts the shutdown with an error that has a cause.
LEMMA RaiseControl ==
    ASSUME IndInv, NEW t \in Thread, NEW e \in {"cancelled", "error"}, Raise(t, e),
           pc[t] \notin ShutdownStep \cup {"unborn", "exit"},
           t = "main" => pc[t] \in {"register", "spawn"},
           t = "user" => registered,
           e = "cancelled" => UNCHANGED faults /\ (extStop \/ firstError # "none"),
           e = "error" => faults' = faults + 1,
           UNCHANGED <<started, registered, extStop, stop, firstError, outcome, committed>>
    PROVE  ThreadInv' /\ ErrorInv' /\ RootCauseReported' /\ PublishedIsWhole'
<1> USE DEF Raise, Goto
<1>1. /\ \A s \in Thread \ {t} : pc'[s] = pc[s] /\ err'[s] = err[s]
      /\ pc'[t] = "record" /\ err'[t] = e
  BY DEF IndInv, PipelineInv, TypeOK
<1>2. /\ pc["main"] # "exit" /\ outcome = "none"
      /\ pc["main"] \notin {"rethrow", "finalize"}
  <2>1. CASE t \in Pool
    BY <2>1, PoolRuns
  <2>2. CASE t = "main"
    BY <2>2 DEF IndInv, ThreadInv
  <2>3. CASE t = "user"
    BY <2>3 DEF IndInv, ThreadInv
  <2>4. QED
    BY <2>1, <2>2, <2>3, Roles
<1>3. t \in Pool => t \in started
  BY DEF IndInv, ThreadInv
<1>4. \A s \in Pool : Gone(s) => Gone(s)'
  BY <1>1, <1>3, Roles DEF Gone
<1>5. faults \in Nat /\ faults' \in Nat /\ faults' >= faults /\ (e = "error" => faults' > 0)
      /\ (e = "cancelled" => faults' = faults)
  BY FaultAssumption DEF IndInv, PipelineInv, TypeOK
<1>6. ThreadInv'
  <2>1. \A s \in Pool : s \in started' <=> pc'[s] # "unborn"
    BY <1>1, <1>3, Roles DEF IndInv, ThreadInv
  <2>2. pc'["main"] = "record" \/ pc'["main"] = pc["main"]
    BY <1>1, Roles
  <2>3. ~registered' => pc'["user"] \notin ShutdownStep
    <3>1. CASE t = "user"
      BY <3>1
    <3>2. CASE t # "user"
      BY <3>2, <1>1, Roles DEF IndInv, ThreadInv
    <3>3. QED
      BY <3>1, <3>2
  <2>4. pc'["main"] \in {"prepare", "register"} => started' = {} /\ ~registered'
    BY <1>1, <2>2, Roles DEF IndInv, ThreadInv
  <2>5. QED
    BY <1>2, <1>4, <2>1, <2>2, <2>3, <2>4, Roles DEF IndInv, ThreadInv, Joining
<1>7. ErrorInv'
  <2>1. \A s \in Thread : pc'[s] = "record" <=> err'[s] # "none"
    BY <1>1 DEF IndInv, ErrorInv
  <2>2. \A s \in Thread : pc'[s] \in {"request_stop", "close"} => pc'[s] = pc[s]
    BY <1>1
  <2>3. \A s \in Thread : err'[s] = "cancelled" => extStop' \/ firstError' # "none"
    BY <1>1 DEF IndInv, ErrorInv
  <2>4. faults > 0 => faults' > 0
    BY <1>5
  <2>5. \A s \in Thread : err'[s] = "error" => faults' > 0
    BY <1>1, <1>5, <2>4 DEF IndInv, ErrorInv
  <2>6. \A s \in Thread : err'[s] # "rejected"
    BY <1>1 DEF IndInv, ErrorInv
  <2>7. pc'["main"] # "finalize"
    BY <1>1, <1>2, Roles
  <2>8. QED
    BY <1>1, <2>1, <2>2, <2>3, <2>4, <2>5, <2>6, <2>7 DEF IndInv, ErrorInv
<1>8. firstError # "rejected"
  BY DEF IndInv, RootCauseReported
<1>9. RootCauseReported' /\ PublishedIsWhole'
  BY <1>2, <1>5, <1>8, VerdictKept
<1>10. QED
  BY <1>6, <1>7, <1>9

-----------------------------------------------------------------------------
(* The handlers: shutdown and its steps *)

\* Raising an error moves no item, though the writer may abandon its batch.
LEMMA RaiseInv ==
    ASSUME IndInv, NEW t \in Thread, NEW e \in {"cancelled", "error"}, Raise(t, e),
           pc[t] \notin ShutdownStep \cup {"unborn", "exit"},
           t = "main" => pc[t] \in {"register", "spawn"},
           t = "user" => registered,
           e = "cancelled" => UNCHANGED faults /\ (extStop \/ firstError # "none"),
           e = "error" => faults < MaxFault /\ faults' = faults + 1,
           batch' = batch \/ (batch' = {} /\ (stop \/ e = "error")),
           UNCHANGED <<started, registered, extStop, stop, firstError, outcome, committed,
                       queues, todo, hand, attempt, active, progressStop>>
    PROVE  IndInv'
<1> USE DEF Raise, Goto, queues
<1>1. ThreadInv' /\ ErrorInv' /\ RootCauseReported' /\ PublishedIsWhole'
  BY RaiseControl
<1>2. /\ \A s \in Thread \ {t} : pc'[s] = pc[s]
      /\ pc'[t] = "record"
  BY DEF IndInv, PipelineInv, TypeOK
<1>3. /\ faults \in Nat /\ (firstError' = "none" /\ faults' = 0 => UNCHANGED <<faults, batch>>)
      /\ faults' \in 0..MaxFault
  BY FaultAssumption DEF IndInv, PipelineInv, TypeOK, ErrorInv
<1>4. TypeOK'
  BY <1>3 DEF IndInv, PipelineInv, TypeOK, ShutdownStep
<1>5. ExactlyOnce'
  <2>1. \A p \in Place \ {"batch"} : At(p)' = At(p)
    BY AtValues, AtValuesNext, Places DEF InHand, Stage, Place
  <2>2. At("batch")' \subseteq At("batch") /\ (batch' = batch => At("batch")' = At("batch"))
    BY AtValues, AtValuesNext DEF Paths
  <2>3. Disjoint
    BY OnceParts DEF IndInv, PipelineInv
  <2>4. Disjoint'
    BY <2>1, <2>2, <2>3, Drop
  <2>5. ASSUME firstError' = "none", faults' = 0 PROVE Complete'
    <3>1. Complete /\ batch' = batch
      BY <1>3, <2>5, OnceParts DEF IndInv, PipelineInv
    <3>2. \A p \in Place : At(p)' = At(p)
      BY <2>1, <2>2, <3>1
    <3>3. QED
      BY <3>1, <3>2, Stay
  <2>6. OneRecordEach(processed') /\ OneRecordEach(batch') /\ OneRecordEach(committed')
    BY OnceParts DEF IndInv, PipelineInv, OneRecordEach
  <2>7. QED
    BY <2>4, <2>5, <2>6, OncePartsNext
<1>6. \A w \in Worker : pc'[w] = "exit" <=> pc[w] = "exit"
  BY <1>2, Roles
<1>7. FlowInv'
  <2>1. {w \in Worker : pc'[w] # "exit"} = {w \in Worker : pc[w] # "exit"}
    BY <1>6
  <2>2. pc'["scanner"] \in {"exit", "record", pc["scanner"]} /\ (pc["scanner"] = "exit" => pc'["scanner"] = "exit")
    BY <1>2, Roles
  <2>3. pc'["writer"] \in {"record", pc["writer"]}
    BY <1>2, Roles
  <2>4. \A w \in Worker : pc'[w] \in {"record", pc[w]}
    BY <1>2, Roles
  <2>5. pc'["scanner"] = "exit" => pc["scanner"] = "exit"
    BY <1>2, Roles
  <2>6. QED
    BY <1>6, <2>1, <2>2, <2>3, <2>4, <2>5 DEF IndInv, FlowInv
<1>8. HandInv'
  <2>1. pc'["writer"] \in {"record", pc["writer"]}
    BY <1>2, Roles
  <2>2. \A w \in Worker : pc'[w] \in {"record", pc[w]}
    BY <1>2, Roles
  <2>3. QED
    BY <2>1, <2>2 DEF IndInv, HandInv
<1>9. QED
  BY <1>1, <1>4, <1>5, <1>7, <1>8, Compose

\* Nobody is refused by a queue that was not stopped.
LEMMA RefusedIsCancelled ==
    ASSUME IndInv
    PROVE  /\ pc["scanner"] = "run" /\ (stop \/ jobsClosed) => stop
           /\ \A w \in Worker : pc[w] = "push" /\ (stop \/ processedClosed) => stop
  BY DEF IndInv, FlowInv

\* The steps that meet an error, or the fallout of a stop.
LEMMA RaisingSteps ==
    ASSUME IndInv,
           \/ ScanRefused \/ ScanFault \/ InsertCancelled \/ CommitCancelled \/ WriterFault
           \/ ProgressFault \/ SpawnFault
           \/ \E w \in Worker : FileCancelled(w) \/ PushRefused(w) \/ WorkerFault(w)
    PROVE  IndInv'
<1> USE DEF data, rest, queues, ShutdownStep
<1>0. stop => firstError # "none"
  BY DEF IndInv, ErrorInv
<1>1. CASE ScanRefused
  <2>1. stop
    BY <1>1, RefusedIsCancelled DEF ScanRefused
  <2>2. QED
    BY <1>0, <1>1, <2>1, Roles, RaiseInv DEF ScanRefused, Refused
<1>2. CASE ScanFault
  BY <1>2, Roles, RaiseInv DEF ScanFault, Fault
<1>3. CASE InsertCancelled
  BY <1>0, <1>3, Roles, RaiseInv DEF InsertCancelled
<1>4. CASE CommitCancelled
  BY <1>0, <1>4, Roles, RaiseInv DEF CommitCancelled
<1>5. CASE WriterFault
  BY <1>5, Roles, RaiseInv DEF WriterFault, Fault
<1>6. CASE ProgressFault
  BY <1>6, Roles, RaiseInv DEF ProgressFault, Fault
<1>7. CASE SpawnFault
  BY <1>7, Roles, RaiseInv DEF SpawnFault, Fault
<1>8. ASSUME NEW w \in Worker, FileCancelled(w) PROVE IndInv'
  BY <1>0, <1>8, Roles, RaiseInv DEF FileCancelled
<1>9. ASSUME NEW w \in Worker, PushRefused(w) PROVE IndInv'
  <2>1. stop
    BY <1>9, RefusedIsCancelled DEF PushRefused
  <2>2. QED
    BY <1>0, <1>9, <2>1, Roles, RaiseInv DEF PushRefused, Refused
<1>10. ASSUME NEW w \in Worker, WorkerFault(w) PROVE IndInv'
  BY <1>10, Roles, RaiseInv DEF WorkerFault, Fault
<1>11. QED
  BY <1>1, <1>2, <1>3, <1>4, <1>5, <1>6, <1>7, <1>8, <1>9, <1>10

\* A step that moves no item, and forgets no error.
LEMMA DataStay ==
    ASSUME IndInv, UNCHANGED <<todo, jobs, processed, hand, batch, committed>>,
           firstError' = "none" /\ faults' = 0 => firstError = "none" /\ faults = 0
    PROVE  ExactlyOnce'
<1>1. \A p \in Place : At(p)' = At(p)
  BY AtValues, AtValuesNext, Places DEF InHand, Stage, Place
<1>2. /\ Disjoint /\ (firstError = "none" /\ faults = 0 => Complete)
      /\ OneRecordEach(processed') /\ OneRecordEach(batch') /\ OneRecordEach(committed')
  BY OnceParts DEF IndInv, PipelineInv
<1>3. Disjoint' /\ (firstError' = "none" /\ faults' = 0 => Complete')
  BY <1>1, <1>2, Stay
<1>4. QED
  BY <1>2, <1>3, OncePartsNext

\* A thread in its handler is a live one, and the calling thread waits for it.
LEMMA ShutdownRuns ==
    ASSUME IndInv, NEW t \in Thread, pc[t] \in ShutdownStep
    PROVE  /\ pc["main"] \notin {"rethrow", "finalize", "exit"}
           /\ outcome = "none"
           /\ t \in Pool => t \in started
           /\ t = "user" => registered
<1> USE DEF ShutdownStep
<1>1. CASE t \in Pool
  BY <1>1, PoolRuns, Roles
<1>2. CASE t = "main"
  BY <1>2, Roles DEF IndInv, ThreadInv
<1>3. CASE t = "user"
  BY <1>3, Roles DEF IndInv, ThreadInv
<1>4. QED
  BY <1>1, <1>2, <1>3, Roles

\* A handler's steps, as the other threads see them.
LEMMA ShutdownThreads ==
    ASSUME IndInv, NEW t \in Thread, pc[t] \in ShutdownStep, NEW l, Goto(t, l),
           \/ l \in {"request_stop", "close"}
           \/ pc[t] = "close" /\ l = AfterShutdown(t),
           UNCHANGED <<started, registered, extStop, outcome>>,
           firstError # "none" => firstError' # "none"
    PROVE  /\ ThreadInv'
           /\ pc'[t] = l
           /\ \A s \in Thread \ {t} : pc'[s] = pc[s]
<1> USE DEF Goto
<1>1. \A s \in Thread \ {t} : pc'[s] = pc[s]
  BY DEF IndInv, PipelineInv, TypeOK
<1>2. pc'[t] = l
  BY DEF IndInv, PipelineInv, TypeOK
<1>3. /\ pc["main"] \notin {"rethrow", "finalize", "exit"}
      /\ outcome = "none"
      /\ t \in Pool => t \in started
      /\ t = "user" => registered
  BY ShutdownRuns
<1>4. pc[t] \notin {"unborn", "exit"} /\ l # "unborn"
      /\ (l = AfterShutdown(t) => /\ t = "main" => l = "join_scanner"
                                  /\ t # "main" => l \in {"exit", "retire"})
  BY Roles DEF AfterShutdown, ShutdownStep
<1>5. \A s \in Pool : s \in started' <=> pc'[s] # "unborn"
  BY <1>1, <1>2, <1>3, <1>4, Roles DEF IndInv, ThreadInv
<1>6. \A s \in Pool : Gone(s) => Gone(s)'
  BY <1>1, <1>3, <1>4, Roles DEF Gone
<1>7. \/ pc'["main"] = pc["main"]
      \/ pc'["main"] \in {"request_stop", "close"}
      \/ pc'["main"] = "join_scanner" /\ pc["main"] = "close"
  BY <1>1, <1>2, <1>4, Roles
<1>8. pc["main"] = "close" => firstError # "none"
  BY Roles DEF IndInv, ErrorInv
<1>9. /\ ~registered' => pc'["user"] \notin ShutdownStep
      /\ pc'["user"] = "callback" => extStop'
  BY <1>1, <1>2, <1>3, <1>4, Roles DEF IndInv, ThreadInv
<1>10. ThreadInv'
  BY <1>3, <1>5, <1>6, <1>7, <1>8, <1>9, Roles DEF IndInv, ThreadInv, Joining
<1>11. QED
  BY <1>1, <1>2, <1>10

\* A thread in its handler stays there, or has made the stop request: the queues
\* and the hands are as its peers expect.
LEMMA ShutdownFlow ==
    ASSUME IndInv, NEW t \in Thread, pc[t] \in ShutdownStep, NEW l,
           pc'[t] = l, \A s \in Thread \ {t} : pc'[s] = pc[s],
           \/ l \in {"request_stop", "close"}
           \/ stop /\ l = AfterShutdown(t),
           stop => stop', UNCHANGED <<jobs, processed, todo, batch, active, hand>>,
           stop' \/ UNCHANGED <<jobsClosed, processedClosed>>
    PROVE  FlowInv' /\ HandInv'
<1>0. pc[t] \notin {"exit", "retire", "unborn", "run", "process", "push", "insert", "commit", "last_commit"}
  BY DEF ShutdownStep
<1>00. l \notin {"unborn", "run", "process", "push", "insert", "commit", "last_commit"}
       /\ (t \in Worker => l # "exit") /\ (~stop' => l \notin {"retire", "exit"})
  BY Roles DEF AfterShutdown
<1>1. {w \in Worker : pc'[w] # "exit"} = {w \in Worker : pc[w] # "exit"}
  BY <1>0, <1>00, Roles
<1>2. /\ \A s \in Thread : pc'[s] # pc[s] =>
            /\ pc'[s] \notin {"unborn", "run", "process", "push", "insert", "commit", "last_commit"}
            /\ pc[s] # "exit"
            /\ ~stop' => pc'[s] \notin {"retire", "exit"}
  BY <1>0, <1>00
<1>3. active' = Cardinality({w \in Worker : pc'[w] # "exit"})
  BY <1>1 DEF IndInv, FlowInv
<1>4. FlowInv'
  BY <1>2, <1>3, Roles DEF IndInv, FlowInv
<1>5. HandInv'
  <2>1. "writer" \in Thread /\ Worker \subseteq Thread
    BY Roles
  <2>2. \A w \in Worker : /\ pc'[w] \in {"process", "push"} => hand'[w] # None
                          /\ pc'[w] \in {"unborn", "run"} => hand'[w] = None
                          /\ pc'[w] \in {"retire", "exit"} => stop' \/ hand'[w] = None
    BY <1>2, <2>1 DEF IndInv, HandInv
  <2>3. QED
    BY <1>2, <2>1, <2>2 DEF IndInv, HandInv
<1>6. QED
  BY <1>4, <1>5

\* shutdown(error), step by step.
LEMMA RecordFirstErrorInv ==
    ASSUME IndInv, NEW t \in Thread, RecordFirstError(t)
    PROVE  IndInv'
<1> USE DEF RecordFirstError, Goto, queues, data, rest
<1>1. TypeOK'
  BY DEF IndInv, PipelineInv, TypeOK, ShutdownStep
<1>2. err[t] # "none" /\ err[t] # "rejected" /\ firstError # "rejected"
  BY DEF IndInv, ErrorInv, RootCauseReported
<1>3. firstError' # "none" /\ firstError' # "rejected" /\ pc[t] \in ShutdownStep
      /\ (firstError # "none" => firstError' = firstError)
  BY <1>2 DEF ShutdownStep
<1>4. /\ ThreadInv' /\ pc'[t] = "request_stop"
      /\ \A s \in Thread \ {t} : pc'[s] = pc[s]
  BY <1>3, ShutdownThreads
<1>5. /\ outcome = "none" /\ pc["main"] # "finalize"
  BY <1>3, ShutdownRuns
<1>6. err'[t] = "none" /\ \A s \in Thread \ {t} : err'[s] = err[s]
  BY DEF IndInv, PipelineInv, TypeOK
<1>7. ErrorInv'
  <2>1. pc'["main"] # "finalize"
    BY <1>4, <1>5, Roles
  <2>2. /\ firstError' = "cancelled" => extStop
        /\ firstError' = "error" => faults > 0
    BY DEF IndInv, ErrorInv
  <2>3. \A s \in Thread : pc'[s] = "record" <=> err'[s] # "none"
    BY <1>4, <1>6 DEF IndInv, ErrorInv
  <2>4. \A s \in Thread : pc'[s] = "close" => stop'
    BY <1>4 DEF IndInv, ErrorInv
  <2>5. \A s \in Thread : err'[s] = "error" => faults' > 0
    BY <1>6 DEF IndInv, ErrorInv
  <2>6. \A s \in Thread : err'[s] # "rejected"
    BY <1>6 DEF IndInv, ErrorInv
  <2>7. QED
    BY <1>3, <2>1, <2>2, <2>3, <2>4, <2>5, <2>6 DEF IndInv, ErrorInv
<1>8. FlowInv' /\ HandInv'
  BY <1>3, <1>4, ShutdownFlow
<1>9. ExactlyOnce'
  BY <1>3, DataStay
<1>10. faults' \in Nat /\ faults' >= faults
  BY FaultAssumption DEF IndInv, PipelineInv, TypeOK
<1>11. RootCauseReported' /\ PublishedIsWhole'
  BY <1>3, <1>10, VerdictKept
<1>12. QED
  BY <1>1, <1>4, <1>7, <1>8, <1>9, <1>11, Compose

LEMMA RequestStopInv ==
    ASSUME IndInv, NEW t \in Thread, RequestStop(t)
    PROVE  IndInv'
<1> USE DEF RequestStop, Goto, queues, data, rest
<1>1. TypeOK'
  BY DEF IndInv, PipelineInv, TypeOK, ShutdownStep
<1>2. firstError # "none" /\ firstError # "rejected" /\ pc[t] \in ShutdownStep
  BY DEF IndInv, ErrorInv, RootCauseReported, ShutdownStep
<1>3. /\ ThreadInv' /\ pc'[t] = "close"
      /\ \A s \in Thread \ {t} : pc'[s] = pc[s]
  BY <1>2, ShutdownThreads
<1>4. ErrorInv'
  <2>1. pc'["main"] # "finalize"
    BY <1>2, <1>3, ShutdownRuns, Roles
  <2>2. \A s \in Thread : pc'[s] = "record" <=> pc[s] = "record"
    BY <1>3
  <2>3. QED
    BY <1>2, <2>1, <2>2 DEF IndInv, ErrorInv
<1>5. FlowInv' /\ HandInv'
  BY <1>2, <1>3, ShutdownFlow
<1>6. ExactlyOnce'
  BY DataStay
<1>7. faults' \in Nat /\ faults' >= faults
  BY FaultAssumption DEF IndInv, PipelineInv, TypeOK
<1>8. RootCauseReported' /\ PublishedIsWhole'
  BY <1>2, <1>7, VerdictKept
<1>9. QED
  BY <1>1, <1>3, <1>4, <1>5, <1>6, <1>8, Compose

LEMMA CloseAllInv ==
    ASSUME IndInv, NEW t \in Thread, CloseAll(t)
    PROVE  IndInv'
<1> USE DEF CloseAll, Goto, errors, data
<1>1. TypeOK'
  BY DEF IndInv, PipelineInv, TypeOK, AfterShutdown
<1>2. firstError # "none" /\ firstError # "rejected" /\ stop /\ pc[t] \in ShutdownStep
  BY DEF IndInv, ErrorInv, RootCauseReported, ShutdownStep
<1>3. /\ ThreadInv' /\ pc'[t] = AfterShutdown(t)
      /\ \A s \in Thread \ {t} : pc'[s] = pc[s]
  BY <1>2, ShutdownThreads
<1>4. AfterShutdown(t) \in {"retire", "join_scanner", "exit"}
  BY DEF AfterShutdown
<1>5. ErrorInv'
  <2>1. pc'["main"] # "finalize"
    BY <1>2, <1>3, <1>4, ShutdownRuns, Roles
  <2>2. \A s \in Thread : pc'[s] = "record" <=> pc[s] = "record"
    BY <1>3, <1>4
  <2>3. QED
    BY <1>2, <2>1, <2>2 DEF IndInv, ErrorInv
<1>6. FlowInv' /\ HandInv'
  BY <1>2, <1>3, ShutdownFlow
<1>7. ExactlyOnce'
  BY DataStay
<1>8. faults' \in Nat /\ faults' >= faults
  BY FaultAssumption DEF IndInv, PipelineInv, TypeOK
<1>9. RootCauseReported' /\ PublishedIsWhole'
  BY <1>2, <1>8, VerdictKept
<1>10. QED
  BY <1>1, <1>3, <1>5, <1>6, <1>7, <1>9, Compose

LEMMA ShutdownInv ==
    ASSUME IndInv, NEW t \in Thread, Shutdown(t)
    PROVE  IndInv'
  BY RecordFirstErrorInv, RequestStopInv, CloseAllInv DEF Shutdown

-----------------------------------------------------------------------------
(* The calling thread and the user's *)

\* The pipeline does not move while only the calling or the user's thread does.
LEMMA PoolRests ==
    ASSUME IndInv, \A t \in Pool : pc'[t] = pc[t],
           UNCHANGED <<stop, queues, data>>
    PROVE  FlowInv' /\ HandInv'
<1>1. /\ pc'["scanner"] = pc["scanner"] /\ pc'["writer"] = pc["writer"]
      /\ \A w \in Worker : pc'[w] = pc[w]
  BY Roles
<1>2. {w \in Worker : pc'[w] # "exit"} = {w \in Worker : pc[w] # "exit"}
  BY <1>1
<1>3. FlowInv'
  BY <1>1, <1>2 DEF IndInv, FlowInv, queues, data
<1>4. HandInv'
  BY <1>1 DEF IndInv, HandInv, data
<1>5. QED
  BY <1>3, <1>4

\* The calling thread goes on, and nothing else changes.
LEMMA MainMove ==
    ASSUME IndInv, NEW l \in Joining \cup {"register", "spawn"},
           pc["main"] \in Joining \cup {"prepare", "register", "spawn"},
           Goto("main", l), l = "finalize" => firstError = "none",
           registered' \in BOOLEAN, progressStop' \in BOOLEAN,
           UNCHANGED <<started, extStop, errors, queues, data, outcome, faults>>
    PROVE  /\ pc'["main"] = l
           /\ \A t \in Thread \ {"main"} : pc'[t] = pc[t]
           /\ \A t \in Pool : Gone(t)' = Gone(t)
           /\ ThreadInv' => IndInv'
<1> USE DEF Goto, errors, queues, data
<1>1. /\ pc'["main"] = l
      /\ \A t \in Thread \ {"main"} : pc'[t] = pc[t]
  BY Roles DEF IndInv, PipelineInv, TypeOK
<1>2. \A t \in Pool : pc'[t] = pc[t] /\ Gone(t)' = Gone(t)
  BY <1>1, Roles DEF Gone
<1>3. TypeOK'
  BY DEF IndInv, PipelineInv, TypeOK, Joining
<1>4. FlowInv' /\ HandInv'
  BY <1>2, PoolRests
<1>5. ExactlyOnce'
  BY DataStay
<1>6. ErrorInv'
  <2>1. pc["main"] \notin ShutdownStep /\ l \notin ShutdownStep
    BY DEF ShutdownStep, Joining
  <2>2. \A t \in Thread : /\ pc'[t] = "record" <=> pc[t] = "record"
                          /\ pc'[t] = "request_stop" <=> pc[t] = "request_stop"
                          /\ pc'[t] = "close" <=> pc[t] = "close"
    BY <1>1, <2>1 DEF ShutdownStep
  <2>3. QED
    BY <1>1, <2>2 DEF IndInv, ErrorInv
<1>7. faults' \in Nat /\ faults' >= faults /\ firstError' # "rejected"
  BY FaultAssumption DEF IndInv, PipelineInv, TypeOK, RootCauseReported
<1>8. RootCauseReported' /\ PublishedIsWhole'
  BY <1>7, VerdictKept
<1>9. QED
  BY <1>1, <1>2, <1>3, <1>4, <1>5, <1>6, <1>8, Compose

\* The calling thread's way through create_snapshot.
LEMMA MainMoves ==
    ASSUME IndInv,
           \/ Prepare \/ (Register /\ ~extStop) \/ StartThreads
           \/ JoinScanner \/ JoinWorkers \/ JoinWriter \/ JoinProgress
           \/ Unregister \/ Finalize
    PROVE  IndInv'
<1> USE DEF control, rest, Joining
<1>0. /\ registered \in BOOLEAN /\ progressStop \in BOOLEAN
      /\ \A t \in Thread \ {"main"} : t \in Pool \/ t = "user"
  BY Roles DEF IndInv, PipelineInv, TypeOK
<1>00. "user" \in Thread \ {"main"} /\ Pool \subseteq Thread \ {"main"}
       /\ Worker \subseteq Pool /\ "scanner" \in Pool /\ "writer" \in Pool /\ "progress" \in Pool
  BY Roles
<1>1. CASE Prepare
  <2>1. /\ pc'["main"] = "register" /\ (ThreadInv' => IndInv')
        /\ \A t \in Thread \ {"main"} : pc'[t] = pc[t]
    BY <1>0, <1>1, MainMove DEF Prepare
  <2>2. ThreadInv'
    BY <1>00, <1>1, <2>1 DEF Prepare, IndInv, ThreadInv, errors
  <2>3. QED
    BY <2>1, <2>2
<1>2. CASE Register /\ ~extStop
  <2>1. /\ pc'["main"] = "spawn" /\ (ThreadInv' => IndInv')
        /\ \A t \in Thread \ {"main"} : pc'[t] = pc[t]
    BY <1>0, <1>2, MainMove DEF Register, errors
  <2>2. ThreadInv'
    BY <1>00, <1>2, <2>1 DEF Register, IndInv, ThreadInv, errors
  <2>3. QED
    BY <2>1, <2>2
<1>3. CASE StartThreads
  <2>1. /\ pc'["main"] = "join_scanner" /\ (ThreadInv' => IndInv')
        /\ \A t \in Thread \ {"main"} : pc'[t] = pc[t]
    BY <1>0, <1>3, MainMove DEF StartThreads
  <2>2. firstError # "none"
    BY <1>3 DEF StartThreads, IndInv, ErrorInv
  <2>3. ThreadInv'
    BY <1>00, <1>3, <2>1, <2>2 DEF StartThreads, IndInv, ThreadInv, errors
  <2>4. QED
    BY <2>1, <2>3
<1>4. CASE JoinScanner
  <2>1. /\ pc'["main"] = "join_workers" /\ (ThreadInv' => IndInv')
        /\ \A t \in Thread \ {"main"} : pc'[t] = pc[t]
        /\ \A t \in Pool : Gone(t)' = Gone(t)
    BY <1>0, <1>4, MainMove DEF JoinScanner
  <2>2. ThreadInv'
    BY <1>00, <1>4, <2>1 DEF JoinScanner, IndInv, ThreadInv, errors
  <2>3. QED
    BY <2>1, <2>2
<1>5. CASE JoinWorkers
  <2>1. /\ pc'["main"] = "join_writer" /\ (ThreadInv' => IndInv')
        /\ \A t \in Thread \ {"main"} : pc'[t] = pc[t]
        /\ \A t \in Pool : Gone(t)' = Gone(t)
    BY <1>0, <1>5, MainMove DEF JoinWorkers
  <2>2. ThreadInv'
    BY <1>00, <1>5, <2>1 DEF JoinWorkers, IndInv, ThreadInv, errors
  <2>3. QED
    BY <2>1, <2>2
<1>6. CASE JoinWriter
  <2>1. /\ pc'["main"] = "join_progress" /\ (ThreadInv' => IndInv')
        /\ \A t \in Thread \ {"main"} : pc'[t] = pc[t]
        /\ \A t \in Pool : Gone(t)' = Gone(t)
    BY <1>0, <1>6, MainMove DEF JoinWriter
  <2>2. ThreadInv'
    BY <1>00, <1>6, <2>1 DEF JoinWriter, IndInv, ThreadInv, errors
  <2>3. QED
    BY <2>1, <2>2
<1>7. CASE JoinProgress
  <2>1. /\ pc'["main"] = "unregister" /\ (ThreadInv' => IndInv')
        /\ \A t \in Thread \ {"main"} : pc'[t] = pc[t]
        /\ \A t \in Pool : Gone(t)' = Gone(t)
    BY <1>0, <1>7, MainMove DEF JoinProgress
  <2>2. ThreadInv'
    BY <1>00, <1>7, <2>1 DEF JoinProgress, IndInv, ThreadInv, errors
  <2>3. QED
    BY <2>1, <2>2
<1>8. CASE Unregister
  <2>1. /\ pc'["main"] = "rethrow" /\ (ThreadInv' => IndInv')
        /\ \A t \in Thread \ {"main"} : pc'[t] = pc[t]
        /\ \A t \in Pool : Gone(t)' = Gone(t)
    BY <1>0, <1>8, MainMove DEF Unregister
  <2>2. ThreadInv'
    BY <1>00, <1>8, <2>1 DEF Unregister, IndInv, ThreadInv, errors
  <2>3. QED
    BY <2>1, <2>2
<1>9. CASE Finalize
  <2>1. /\ pc'["main"] = "finalize" /\ (ThreadInv' => IndInv')
        /\ \A t \in Thread \ {"main"} : pc'[t] = pc[t]
        /\ \A t \in Pool : Gone(t)' = Gone(t)
    BY <1>0, <1>9, MainMove DEF Finalize
  <2>2. ThreadInv'
    BY <1>00, <1>9, <2>1 DEF Finalize, IndInv, ThreadInv, errors
  <2>3. QED
    BY <2>1, <2>2
<1>10. QED
  BY <1>1, <1>2, <1>3, <1>4, <1>5, <1>6, <1>7, <1>8, <1>9

\* Leaving create_snapshot with a verdict that is deserved.
LEMMA FinishInv ==
    ASSUME IndInv, pc["main"] \in {"prepare", "rethrow", "finalize"},
           NEW o \in {"complete", "cancelled", "failed"}, Finish(o),
           \/ UNCHANGED faults
           \/ o = "failed" /\ faults < MaxFault /\ faults' = faults + 1,
           o = "cancelled" => extStop, o = "failed" => faults' > 0,
           o = "complete" => faults = 0 /\ Paths(committed) = Entry
    PROVE  IndInv'
<1> USE DEF Finish, Goto, errors, queues, data
<1>1. faults \in Nat /\ faults' \in 0..MaxFault /\ faults' \in Nat /\ faults' >= faults
  BY FaultAssumption DEF IndInv, PipelineInv, TypeOK
<1>2. TypeOK'
  BY <1>1 DEF IndInv, PipelineInv, TypeOK
<1>3. /\ pc'["main"] = "exit"
      /\ \A t \in Thread \ {"main"} : pc'[t] = pc[t]
      /\ \A t \in Pool : pc'[t] = pc[t] /\ (Gone(t)' = Gone(t))
      /\ pc'["user"] = pc["user"]
  BY Roles DEF IndInv, PipelineInv, TypeOK, Gone
<1>4. FlowInv' /\ HandInv'
  BY <1>3, PoolRests
<1>5. ExactlyOnce'
  BY <1>1, DataStay
<1>6. ThreadInv'
  <2>1. \A t \in Pool : Gone(t)
    BY DEF IndInv, ThreadInv, PipelineInv, NoUseAfterScope, Gone
  <2>2. ~registered
    BY DEF IndInv, ThreadInv
  <2>3. QED
    BY <1>3, <2>1, <2>2, Roles DEF IndInv, ThreadInv, Joining
<1>7. ErrorInv'
  <2>1. \A t \in Thread : /\ pc'[t] = "record" <=> pc[t] = "record"
                          /\ pc'[t] = "request_stop" <=> pc[t] = "request_stop"
                          /\ pc'[t] = "close" <=> pc[t] = "close"
    BY <1>3
  <2>2. faults > 0 => faults' > 0
    BY <1>1
  <2>3. outcome = "none"
    BY DEF IndInv, ThreadInv
  <2>4. faults' > 0 => \/ firstError' # "none"
                       \/ \E t \in Thread : pc'[t] = "record"
                       \/ outcome' = "failed"
    BY <2>1, <2>3 DEF IndInv, ErrorInv
  <2>5. \A t \in Thread : err[t] = "error" => faults' > 0
    BY <2>2 DEF IndInv, ErrorInv
  <2>6. firstError = "error" => faults' > 0
    BY <2>2 DEF IndInv, ErrorInv
  <2>7. QED
    BY <1>3, <2>1, <2>4, <2>5, <2>6 DEF IndInv, ErrorInv
<1>8. RootCauseReported'
  BY DEF IndInv, RootCauseReported
<1>9. PublishedIsWhole'
  BY OnceParts DEF IndInv, PipelineInv, PublishedIsWhole
<1>10. QED
  BY <1>2, <1>4, <1>5, <1>6, <1>7, <1>8, <1>9, Compose

\* When the calling thread comes to publish, every thread has run to its end
\* and every entry has arrived in a committed batch.
LEMMA DrainedAtFinalize ==
    ASSUME IndInv, pc["main"] = "finalize"
    PROVE  faults = 0 /\ Paths(committed) = Entry
<1>1. /\ firstError = "none" /\ ~stop /\ outcome = "none"
      /\ ~registered /\ \A t \in Pool : Gone(t)
  BY DEF IndInv, ErrorInv, ThreadInv, PipelineInv, NoUseAfterScope
<1>2. started = Pool
  BY <1>1 DEF IndInv, ThreadInv, Joining
<1>3. \A t \in Pool : pc[t] = "exit"
  BY <1>1, <1>2 DEF Gone
<1>4. faults = 0
  <2>1. \A t \in Thread : pc[t] # "record"
    BY <1>1, <1>3, Roles DEF IndInv, ThreadInv, ShutdownStep
  <2>2. ~(faults > 0)
    BY <1>1, <2>1 DEF IndInv, ErrorInv
  <2>3. QED
    BY <2>2, FaultAssumption DEF IndInv, PipelineInv, TypeOK
<1>5. /\ todo = {} /\ jobs = {} /\ processed = {} /\ batch = {}
      /\ \A t \in Holder : hand[t] = None
  BY <1>1, <1>3, WorkerAssumption, Roles DEF IndInv, FlowInv, HandInv
<1>6. \A p \in Place \ {"committed"} : At(p) = {}
  <2>1. Paths(processed) = {} /\ Paths(batch) = {}
    BY <1>5 DEF Paths
  <2>2. \A t \in Holder : Paths(InHand(t)) = {}
    BY <1>5, HandPaths
  <2>3. QED
    BY <1>5, <2>1, <2>2, AtValues, Places DEF Stage, Place
<1>7. Complete
  BY <1>1, <1>4, OnceParts DEF IndInv, PipelineInv
<1>8. Entry \subseteq Paths(committed)
  BY <1>6, <1>7, AtValues DEF Complete
<1>9. Paths(committed) \subseteq Entry
  BY DEF IndInv, PipelineInv, TypeOK, Paths, Record
<1>10. QED
  BY <1>4, <1>8, <1>9

LEMMA FinishSteps ==
    ASSUME IndInv, Rethrow \/ CheckCancelled \/ Publish \/ CallerFault
    PROVE  IndInv'
<1>0. /\ faults \in Nat
      /\ firstError # "rejected" /\ firstError \in {"none", "cancelled", "error", "rejected"}
      /\ firstError = "cancelled" => extStop
      /\ firstError = "error" => faults > 0
  BY FaultAssumption DEF IndInv, PipelineInv, TypeOK, ErrorInv, RootCauseReported
<1>1. CASE Rethrow
  BY <1>0, <1>1, FinishInv DEF Rethrow, Verdict
<1>2. CASE CheckCancelled
  BY <1>0, <1>2, FinishInv DEF CheckCancelled
<1>3. CASE Publish
  BY <1>0, <1>3, DrainedAtFinalize, FinishInv DEF Publish
<1>4. CASE CallerFault
  BY <1>0, <1>4, FinishInv DEF CallerFault
<1>5. QED
  BY <1>1, <1>2, <1>3, <1>4

LEMMA SpawnInv ==
    ASSUME IndInv, NEW t \in Pool, Spawn(t)
    PROVE  IndInv'
<1> USE DEF Spawn, errors, queues, data, rest
<1>1. TypeOK'
  BY Roles DEF IndInv, PipelineInv, TypeOK
<1>2. /\ pc'[t] = "run" /\ pc[t] = "unborn" /\ t \notin started
      /\ pc'["main"] = (IF t = "scanner" THEN "join_scanner" ELSE "spawn")
      /\ \A s \in Thread \ {t, "main"} : pc'[s] = pc[s]
      /\ pc'["user"] = pc["user"]
  BY Roles DEF IndInv, PipelineInv, TypeOK, ThreadInv, MaySpawn
<1>3. /\ firstError # "rejected" /\ outcome = "none" /\ faults' \in Nat /\ faults' >= faults
  BY FaultAssumption DEF IndInv, RootCauseReported, ThreadInv, PipelineInv, TypeOK
<1>4. ThreadInv'
  <2>1. \A s \in Pool : s \in started' <=> pc'[s] # "unborn"
    BY <1>2, Roles DEF IndInv, ThreadInv
  <2>2. pc'["main"] = "join_scanner" => started' = Pool
    <3>1. ASSUME t = "scanner" PROVE Pool \subseteq started'
      BY <3>1, Roles DEF MaySpawn
    <3>2. started' \subseteq Pool
      BY <1>1 DEF TypeOK
    <3>3. QED
      BY <1>2, <3>1, <3>2
  <2>3. /\ ~registered' => pc'["user"] \notin ShutdownStep
        /\ pc'["user"] = "callback" => extStop'
    BY <1>2 DEF IndInv, ThreadInv
  <2>4. pc'["main"] \in {"spawn", "join_scanner"}
    BY <1>2
  <2>5. QED
    BY <1>3, <2>1, <2>2, <2>3, <2>4 DEF ThreadInv, Joining
<1>5. ErrorInv'
  <2>1. \A s \in Thread : /\ pc'[s] = "record" <=> pc[s] = "record"
                          /\ pc'[s] = "request_stop" <=> pc[s] = "request_stop"
                          /\ pc'[s] = "close" <=> pc[s] = "close"
    <3>1. \A s \in Thread : \/ pc'[s] = pc[s]
                            \/ /\ pc'[s] \in {"run", "spawn", "join_scanner"}
                               /\ pc[s] \in {"unborn", "spawn"}
      BY <1>2
    <3>2. QED
      BY <3>1
  <2>2. pc'["main"] # "finalize"
    BY <1>2
  <2>3. QED
    BY <2>1, <2>2 DEF IndInv, ErrorInv
<1>6. \A s \in Pool : \/ pc'[s] = pc[s]
                      \/ pc[s] = "unborn" /\ pc'[s] = "run"
  BY <1>2, Roles
<1>7. FlowInv'
  <2>1. {w \in Worker : pc'[w] # "exit"} = {w \in Worker : pc[w] # "exit"}
    BY <1>6, Roles
  <2>2. /\ \A w \in Worker : /\ pc[w] = "exit" => pc'[w] = "exit"
                            /\ pc'[w] # "run" => pc'[w] = pc[w]
        /\ pc["scanner"] = "exit" => pc'["scanner"] = "exit"
        /\ pc'["scanner"] # "run" => pc'["scanner"] = pc["scanner"]
        /\ pc'["writer"] # "run" => pc'["writer"] = pc["writer"]
    BY <1>6, Roles
  <2>3. QED
    BY <2>1, <2>2 DEF IndInv, FlowInv
<1>8. HandInv'
  BY <1>6, Roles DEF IndInv, HandInv
<1>9. ExactlyOnce'
  BY DataStay
<1>10. RootCauseReported' /\ PublishedIsWhole'
  BY <1>3, VerdictKept
<1>11. QED
  BY <1>1, <1>4, <1>5, <1>7, <1>8, <1>9, <1>10, Compose

LEMMA RegisterInv ==
    ASSUME IndInv, Register
    PROVE  IndInv'
<1>1. CASE extStop
  <2>1. registered' = registered
    BY <1>1 DEF Register, IndInv, ThreadInv, PipelineInv, TypeOK
  <2>2. QED
    BY <1>1, <2>1, Roles, RaiseInv DEF Register, data, rest, ShutdownStep, queues
<1>2. CASE ~extStop
  BY <1>2, MainMoves
<1>3. QED
  BY <1>1, <1>2

\* The user's thread goes on outside its callback.
LEMMA UserMove ==
    ASSUME IndInv, NEW l \in {"callback", "exit"}, Goto("user", l),
           pc["user"] \in {"idle", "callback"},
           extStop => extStop', l = "callback" => extStop', extStop' \in BOOLEAN,
           UNCHANGED <<started, registered, errors, queues, data, rest>>
    PROVE  IndInv'
<1> USE DEF Goto, errors, queues, data, rest
<1>1. TypeOK'
  BY DEF IndInv, PipelineInv, TypeOK
<1>2. /\ pc'["user"] = l /\ pc'["main"] = pc["main"]
      /\ \A t \in Thread \ {"user"} : pc'[t] = pc[t]
      /\ \A t \in Pool : pc'[t] = pc[t] /\ (Gone(t)' = Gone(t))
  BY Roles DEF IndInv, PipelineInv, TypeOK, Gone
<1>3. FlowInv' /\ HandInv'
  BY <1>2, PoolRests
<1>4. ThreadInv'
  BY <1>2, Roles DEF IndInv, ThreadInv, Joining, ShutdownStep
<1>5. ErrorInv'
  <2>1. \A t \in Thread : /\ pc'[t] = "record" <=> pc[t] = "record"
                          /\ pc'[t] = "request_stop" <=> pc[t] = "request_stop"
                          /\ pc'[t] = "close" <=> pc[t] = "close"
    BY <1>2
  <2>2. QED
    BY <1>2, <2>1 DEF IndInv, ErrorInv
<1>6. ExactlyOnce'
  BY DataStay
<1>7. firstError # "rejected" /\ faults' \in Nat /\ faults' >= faults
  BY FaultAssumption DEF IndInv, RootCauseReported, PipelineInv, TypeOK
<1>8. RootCauseReported' /\ PublishedIsWhole'
  BY <1>7, VerdictKept
<1>9. QED
  BY <1>1, <1>3, <1>4, <1>5, <1>6, <1>8, Compose

LEMMA UserSteps ==
    ASSUME IndInv, Cancel \/ RunCallback
    PROVE  IndInv'
<1>0. extStop \in BOOLEAN
  BY DEF IndInv, PipelineInv, TypeOK
<1>1. CASE Cancel
  BY <1>1, UserMove DEF Cancel
<1>2. CASE RunCallback /\ registered
  <2>1. extStop
    BY <1>2 DEF RunCallback, IndInv, ThreadInv
  <2>2. QED
    BY <1>2, <2>1, Roles, RaiseInv DEF RunCallback, data, rest, ShutdownStep, queues
<1>3. CASE RunCallback /\ ~registered
  BY <1>0, <1>3, UserMove DEF RunCallback, errors
<1>4. QED
  BY <1>1, <1>2, <1>3

-----------------------------------------------------------------------------
(* The pipeline: scanner, workers, writer *)

\* A thread of the pool does its work: what is left to show.
LEMMA PoolStep ==
    ASSUME IndInv, NEW t \in Pool, NEW l,
           pc[t] \notin ShutdownStep \cup {"unborn", "exit"},
           l \notin ShutdownStep \cup {"unborn"}, Goto(t, l),
           UNCHANGED <<started, registered, extStop, stop, firstError, err, outcome, faults>>,
           TypeOK', ExactlyOnce', FlowInv', HandInv'
    PROVE  IndInv'
  BY PoolMove, Compose

\* What is handed on is neither lost nor doubled.
LEMMA HandOn ==
    ASSUME IndInv, NEW a \in Place, NEW b \in Place, a # b,
           NEW S, S \subseteq At(a),
           At(a)' = At(a) \ S, At(b)' = At(b) \cup S,
           \A p \in Place \ {a, b} : At(p)' = At(p),
           OneRecordEach(processed'), OneRecordEach(batch'), OneRecordEach(committed'),
           UNCHANGED <<firstError, faults>>
    PROVE  ExactlyOnce'
<1>1. Disjoint /\ (firstError = "none" /\ faults = 0 => Complete)
  BY OnceParts DEF IndInv, PipelineInv
<1>2. Disjoint' /\ (Complete => Complete')
  BY <1>1, Move
<1>3. QED
  BY <1>1, <1>2, OncePartsNext

LEMMA OneEach ==
    ASSUME IndInv
    PROVE  OneRecordEach(processed) /\ OneRecordEach(batch) /\ OneRecordEach(committed) /\ Disjoint
  BY OnceParts DEF IndInv, PipelineInv

LEMMA ScanPushInv ==
    ASSUME IndInv, ScanPush
    PROVE  IndInv'
<1> USE DEF ScanPush, control, errors, rest
<1>1. PICK e \in todo : jobs' = jobs \cup {e} /\ todo' = todo \ {e}
  OBVIOUS
<1>2. TypeOK'
  BY DEF IndInv, PipelineInv, TypeOK
<1>3. ExactlyOnce'
  <2>1. /\ At("todo")' = At("todo") \ {e} /\ At("jobs")' = At("jobs") \cup {e}
        /\ {e} \subseteq At("todo")
    BY <1>1, AtValues, AtValuesNext
  <2>2. \A p \in Place \ {"todo", "jobs"} : At(p)' = At(p)
    BY AtValues, AtValuesNext, Places DEF InHand, Stage, Place
  <2>3. QED
    BY <2>1, <2>2, OneEach, Places, HandOn
<1>4. FlowInv'
  <2>1. ~stop /\ ~jobsClosed /\ \A w \in Worker : pc[w] \notin {"retire", "exit"}
    BY DEF IndInv, FlowInv
  <2>2. QED
    BY <2>1 DEF IndInv, FlowInv
<1>5. HandInv'
  BY DEF IndInv, HandInv
<1>6. Goto("scanner", "run")
  BY Roles DEF Goto, IndInv, PipelineInv, TypeOK
<1>7. QED
  BY <1>2, <1>3, <1>4, <1>5, <1>6, Roles, PoolStep DEF ShutdownStep

LEMMA ScanDoneInv ==
    ASSUME IndInv, ScanDone
    PROVE  IndInv'
<1> USE DEF ScanDone, errors, rest, data
<1>1. TypeOK'
  BY DEF IndInv, PipelineInv, TypeOK, Goto
<1>2. ExactlyOnce'
  BY DataStay
<1>3. pc'["scanner"] = "exit" /\ \A s \in Thread \ {"scanner"} : pc'[s] = pc[s]
  BY Roles DEF Goto, IndInv, PipelineInv, TypeOK
<1>4. pc'["writer"] = pc["writer"] /\ \A w \in Worker : pc'[w] = pc[w]
  BY <1>3, Roles
<1>5. FlowInv'
  <2>1. {w \in Worker : pc'[w] # "exit"} = {w \in Worker : pc[w] # "exit"}
    BY <1>4
  <2>2. QED
    BY <1>3, <1>4, <2>1 DEF IndInv, FlowInv
<1>6. HandInv'
  BY <1>4 DEF IndInv, HandInv
<1>7. QED
  BY <1>1, <1>2, <1>5, <1>6, Roles, PoolStep DEF ShutdownStep

LEMMA ProgressEndInv ==
    ASSUME IndInv, ProgressEnd
    PROVE  IndInv'
<1> USE DEF ProgressEnd, errors, rest, data, queues
<1>1. TypeOK'
  BY DEF IndInv, PipelineInv, TypeOK, Goto
<1>2. ExactlyOnce'
  BY DataStay
<1>3. /\ pc'["scanner"] = pc["scanner"] /\ pc'["writer"] = pc["writer"]
      /\ \A w \in Worker : pc'[w] = pc[w]
  BY Roles DEF Goto, IndInv, PipelineInv, TypeOK
<1>4. FlowInv'
  <2>1. {w \in Worker : pc'[w] # "exit"} = {w \in Worker : pc[w] # "exit"}
    BY <1>3
  <2>2. QED
    BY <1>3, <2>1 DEF IndInv, FlowInv
<1>5. HandInv'
  BY <1>3 DEF IndInv, HandInv
<1>6. QED
  BY <1>1, <1>2, <1>4, <1>5, Roles, PoolStep DEF ShutdownStep

\* A worker goes on without leaving its loop for good.
LEMMA WorkerFlow ==
    ASSUME IndInv, NEW w \in Worker, NEW l, pc[w] # "exit", l # "exit", Goto(w, l),
           jobs' \subseteq jobs, processed' = processed \/ (~stop /\ ~processedClosed),
           UNCHANGED <<stop, jobsClosed, processedClosed, todo, batch, active>>,
           l = "retire" => stop \/ (jobsClosed /\ jobs = {}),
           \A s \in Holder \ {w} : hand'[s] = hand[s],
           l \in {"process", "push"} => hand'[w] # None,
           l \in {"unborn", "run"} => hand'[w] = None,
           l = "retire" => stop \/ hand'[w] = None
    PROVE  FlowInv' /\ HandInv'
<1>1. /\ pc'[w] = l /\ \A v \in Worker \ {w} : pc'[v] = pc[v]
      /\ pc'["scanner"] = pc["scanner"] /\ pc'["writer"] = pc["writer"]
  BY Roles DEF Goto, IndInv, PipelineInv, TypeOK
<1>2. {v \in Worker : pc'[v] # "exit"} = {v \in Worker : pc[v] # "exit"}
  BY <1>1
<1>3. \A v \in Worker : pc'[v] \in {"retire", "exit"} => stop' \/ (jobsClosed' /\ jobs' = {})
  BY <1>1 DEF IndInv, FlowInv
<1>4. processedClosed' => stop'
  BY DEF IndInv, FlowInv
<1>5. FlowInv'
  BY <1>1, <1>2, <1>3, <1>4 DEF IndInv, FlowInv
<1>6. \A v \in Worker : /\ pc'[v] \in {"process", "push"} => hand'[v] # None
                        /\ pc'[v] \in {"unborn", "run"} => hand'[v] = None
                        /\ pc'[v] \in {"retire", "exit"} => stop' \/ hand'[v] = None
  BY <1>1, Roles DEF IndInv, HandInv
<1>7. hand'["writer"] = hand["writer"]
  BY Roles
<1>8. HandInv'
  BY <1>1, <1>6, <1>7 DEF IndInv, HandInv
<1>9. QED
  BY <1>5, <1>8

LEMMA PopJobInv ==
    ASSUME IndInv, NEW w \in Worker, PopJob(w)
    PROVE  IndInv'
<1> USE DEF PopJob, errors, rest
<1>0. w \in Holder /\ w \in Place /\ w \in Thread /\ w \in Pool /\ hand[w] = None
  BY Roles, Places DEF IndInv, HandInv
<1>1. PICK e \in jobs, k \in {"entry", "warning"}, l \in {"process", "push"} :
         jobs' = jobs \ {e} /\ hand' = [hand EXCEPT ![w] = <<e, k>>] /\ Goto(w, l)
  BY Zenon
<1>2. <<e, k>> \in Record /\ <<e, k>> # None /\ e \in Entry
  BY DistinctAssumption DEF Record, IndInv, PipelineInv, TypeOK
<1>3. hand'[w] = <<e, k>> /\ \A s \in Holder \ {w} : hand'[s] = hand[s]
  BY <1>0, <1>1 DEF IndInv, PipelineInv, TypeOK
<1>4. TypeOK'
  BY <1>0, <1>1, <1>2, LimitAssumption DEF IndInv, PipelineInv, TypeOK, Goto
<1>5. ExactlyOnce'
  <2>1. At("jobs")' = At("jobs") \ {e} /\ {e} \subseteq At("jobs") /\ w # "jobs" /\ "jobs" \in Place
    BY <1>0, <1>1, AtValues, AtValuesNext, Places
  <2>2. At(w) = {} /\ At(w)' = {e}
    BY <1>0, <1>2, <1>3, AtValues, AtValuesNext, HandPaths
  <2>3. \A s \in Holder \ {w} : At(s)' = At(s)
    BY <1>3, AtValues, AtValuesNext DEF InHand
  <2>4. \A p \in Place \ {"jobs", w} : At(p)' = At(p)
    BY <2>3, AtValues, AtValuesNext, Places DEF Stage, Place
  <2>5. QED
    BY <1>0, <2>1, <2>2, <2>4, OneEach, HandOn
<1>6. FlowInv' /\ HandInv'
  BY <1>1, <1>2, <1>3, WorkerFlow
<1>7. QED
  BY <1>0, <1>1, <1>4, <1>5, <1>6, PoolStep DEF ShutdownStep

LEMMA PopJobEndInv ==
    ASSUME IndInv, NEW w \in Worker, PopJobEnd(w)
    PROVE  IndInv'
<1> USE DEF PopJobEnd, errors, rest, data, queues
<1>0. w \in Pool /\ hand[w] = None
  BY Roles DEF IndInv, HandInv
<1>1. TypeOK'
  BY DEF IndInv, PipelineInv, TypeOK, Goto
<1>2. ExactlyOnce'
  BY DataStay
<1>3. FlowInv' /\ HandInv'
  BY <1>0, WorkerFlow
<1>4. QED
  BY <1>0, <1>1, <1>2, <1>3, PoolStep DEF ShutdownStep

LEMMA FileStableInv ==
    ASSUME IndInv, NEW w \in Worker, FileStable(w)
    PROVE  IndInv'
<1> USE DEF FileStable, errors, rest, data, queues
<1>0. w \in Pool /\ hand[w] # None
  BY Roles DEF IndInv, HandInv
<1>1. TypeOK'
  BY DEF IndInv, PipelineInv, TypeOK, Goto
<1>2. ExactlyOnce'
  BY DataStay
<1>3. FlowInv' /\ HandInv'
  BY <1>0, WorkerFlow
<1>4. QED
  BY <1>0, <1>1, <1>2, <1>3, PoolStep DEF ShutdownStep

LEMMA FileUnstableInv ==
    ASSUME IndInv, NEW w \in Worker, FileUnstable(w)
    PROVE  IndInv'
<1> USE DEF FileUnstable, errors, rest, queues
<1>0. w \in Holder /\ w \in Pool /\ w \in Thread /\ hand[w] # None /\ hand[w] \in Record
      /\ attempt[w] \in 0..(AttemptCount - 1)
  BY Roles DEF IndInv, PipelineInv, TypeOK, HandInv
<1>1. CASE UNCHANGED <<pc, hand>> /\ attempt' = [attempt EXCEPT ![w] = @ + 1]
           /\ attempt[w] + 1 < AttemptCount
  <2>1. attempt' \in [Worker -> 0..(AttemptCount - 1)]
    <3>1. attempt[w] + 1 \in 0..(AttemptCount - 1)
      BY <1>0, <1>1, LimitAssumption
    <3>2. QED
      BY <1>1, <3>1 DEF IndInv, PipelineInv, TypeOK
  <2>2. TypeOK'
    BY <1>1, <2>1 DEF IndInv, PipelineInv, TypeOK
  <2>3. ExactlyOnce'
    BY <1>1, DataStay
  <2>4. Goto(w, "process")
    BY <1>0, <1>1 DEF Goto, IndInv, PipelineInv, TypeOK
  <2>5. FlowInv' /\ HandInv'
    BY <1>0, <1>1, <2>4, WorkerFlow
  <2>6. QED
    BY <1>0, <2>2, <2>3, <2>4, <2>5, PoolStep DEF ShutdownStep
<1>2. CASE /\ hand' = [hand EXCEPT ![w] = <<hand[w][1], "warning">>]
           /\ Goto(w, "push") /\ UNCHANGED attempt
  <2>1. <<hand[w][1], "warning">> \in Record /\ <<hand[w][1], "warning">> # None
    BY <1>0, DistinctAssumption DEF Record
  <2>2. hand'[w] = <<hand[w][1], "warning">> /\ \A s \in Holder \ {w} : hand'[s] = hand[s]
    BY <1>0, <1>2 DEF IndInv, PipelineInv, TypeOK
  <2>3. TypeOK'
    BY <1>2, <2>1 DEF IndInv, PipelineInv, TypeOK, Goto
  <2>4. ExactlyOnce'
    <3>1. At(w)' = At(w)
      <4>1. hand'[w][1] = hand[w][1] /\ hand'[w] # None
        BY <2>1, <2>2
      <4>2. Paths(InHand(w)) = {hand[w][1]} /\ Paths(InHand(w)') = {hand'[w][1]}
        BY <1>0, <4>1, HandPaths
      <4>3. QED
        BY <1>0, <4>1, <4>2, AtValues, AtValuesNext
    <3>2. \A s \in Holder \ {w} : At(s)' = At(s)
      BY <2>2, AtValues, AtValuesNext DEF InHand
    <3>3. \A p \in Place : At(p)' = At(p)
      BY <3>1, <3>2, AtValues, AtValuesNext, Places DEF Stage, Place
    <3>4. QED
      BY <3>3, Stay, OneEach, OnceParts, OncePartsNext DEF IndInv, PipelineInv
  <2>5. FlowInv' /\ HandInv'
    BY <1>2, <2>1, <2>2, WorkerFlow
  <2>6. QED
    BY <1>0, <1>2, <2>3, <2>4, <2>5, PoolStep DEF ShutdownStep
<1>3. QED
  BY <1>1, <1>2

LEMMA PushResultInv ==
    ASSUME IndInv, NEW w \in Worker, PushResult(w)
    PROVE  IndInv'
<1> USE DEF PushResult, errors, rest
<1>0. w \in Holder /\ w \in Place /\ w \in Pool /\ hand[w] # None /\ hand[w] \in Record
  BY Roles, Places DEF IndInv, PipelineInv, TypeOK, HandInv
<1>1. hand'[w] = None /\ \A s \in Holder \ {w} : hand'[s] = hand[s]
  BY <1>0 DEF IndInv, PipelineInv, TypeOK
<1>2. TypeOK'
  BY <1>0 DEF IndInv, PipelineInv, TypeOK, Goto
<1>3. At(w) = {hand[w][1]} /\ At(w)' = {}
  BY <1>0, <1>1, AtValues, AtValuesNext, HandPaths
<1>4. hand[w][1] \in Entry
  BY <1>0 DEF Record
<1>5. "processed" \in Place /\ w # "processed"
  BY <1>0, Places
<1>6. hand[w][1] \notin Paths(processed)
  BY <1>0, <1>3, <1>4, <1>5, OneEach, AtValues DEF Disjoint
<1>7. OneRecordEach(processed')
  BY <1>6, OneEach, OneRecordAdd
<1>8. ExactlyOnce'
  <2>1. Paths(processed') = Paths(processed) \cup {hand[w][1]}
    BY DEF Paths
  <2>2. At("processed")' = At("processed") \cup {hand[w][1]}
    BY <2>1, AtValues, AtValuesNext
  <2>3. \A s \in Holder \ {w} : At(s)' = At(s)
    BY <1>1, AtValues, AtValuesNext DEF InHand
  <2>4. \A p \in Place \ {w, "processed"} : At(p)' = At(p)
    BY <2>3, AtValues, AtValuesNext, Places DEF Stage, Place
  <2>5. QED
    BY <1>0, <1>3, <1>5, <1>7, <2>2, <2>4, OneEach, HandOn
<1>9. FlowInv' /\ HandInv'
  BY <1>1, WorkerFlow
<1>10. QED
  BY <1>0, <1>2, <1>8, <1>9, PoolStep DEF ShutdownStep

\* active_workers reaches zero with the last worker, and not before.
LEMMA RetireInv ==
    ASSUME IndInv, NEW w \in Worker, Retire(w)
    PROVE  IndInv'
<1> USE DEF Retire, errors, rest
<1> DEFINE Live == {v \in Worker : pc[v] # "exit"}
           LiveNext == {v \in Worker : pc'[v] # "exit"}
<1>0. w \in Pool
  BY Roles
<1>1. /\ pc'[w] = "exit" /\ \A v \in Worker \ {w} : pc'[v] = pc[v]
      /\ pc'["scanner"] = pc["scanner"] /\ pc'["writer"] = pc["writer"]
  BY Roles DEF Goto, IndInv, PipelineInv, TypeOK
<1>2. LiveNext = Live \ {w} /\ w \in Live
  BY <1>1
<1>3. IsFiniteSet(Live) /\ IsFiniteSet(LiveNext)
  BY WorkerAssumption, FS_Subset
<1>4. /\ Cardinality(Live) \in Nat /\ Cardinality(LiveNext) \in Nat
      /\ Cardinality(LiveNext) = Cardinality(Live) - 1
      /\ Cardinality(LiveNext) = 0 <=> LiveNext = {}
  BY <1>2, <1>3, FS_CardinalityType, FS_RemoveElement, FS_EmptySet
<1>5. active = Cardinality(Live)
  BY DEF IndInv, FlowInv
<1>6. active' = Cardinality(LiveNext) /\ (active = 1 => LiveNext = {})
  BY <1>4, <1>5
<1>7. TypeOK'
  <2>1. Cardinality(Worker) \in Nat
    BY WorkerAssumption, FS_CardinalityType
  <2>2. active \in 0..Cardinality(Worker)
    BY DEF IndInv, PipelineInv, TypeOK
  <2>3. active' \in 0..Cardinality(Worker)
    BY <1>4, <1>5, <1>6, <2>1, <2>2
  <2>4. QED
    BY <2>3 DEF IndInv, PipelineInv, TypeOK, Goto
<1>8. ExactlyOnce'
  BY DataStay
<1>9. FlowInv'
  <2>1. processedClosed' => stop' \/ \A v \in Worker : pc'[v] = "exit"
    BY <1>1, <1>6 DEF IndInv, FlowInv
  <2>2. \A v \in Worker : pc'[v] \in {"retire", "exit"} => stop' \/ (jobsClosed' /\ jobs' = {})
    BY <1>1 DEF IndInv, FlowInv
  <2>3. processedClosed => processedClosed'
    OBVIOUS
  <2>4. QED
    BY <1>1, <1>6, <2>1, <2>2, <2>3 DEF IndInv, FlowInv
<1>10. HandInv'
  BY <1>1 DEF IndInv, HandInv
<1>11. QED
  BY <1>0, <1>7, <1>8, <1>9, <1>10, PoolStep DEF ShutdownStep

\* The writer goes on.
LEMMA WriterFlow ==
    ASSUME IndInv, NEW l, Goto("writer", l), processed' \subseteq processed,
           UNCHANGED <<stop, jobs, jobsClosed, processedClosed, todo, active>>,
           l = "last_commit" => stop \/ (processedClosed /\ processed' = {}),
           l = "exit" => stop \/ (processedClosed /\ processed' = {} /\ batch' = {}),
           \A w \in Worker : hand'[w] = hand[w],
           l = "insert" => hand'["writer"] # None,
           l \in {"unborn", "run", "commit", "last_commit"} => hand'["writer"] = None,
           l = "exit" => stop \/ hand'["writer"] = None
    PROVE  FlowInv' /\ HandInv'
<1>1. /\ pc'["writer"] = l /\ \A w \in Worker : pc'[w] = pc[w]
      /\ pc'["scanner"] = pc["scanner"]
  BY Roles DEF Goto, IndInv, PipelineInv, TypeOK
<1>2. {w \in Worker : pc'[w] # "exit"} = {w \in Worker : pc[w] # "exit"}
  BY <1>1
<1>3. FlowInv'
  BY <1>1, <1>2 DEF IndInv, FlowInv
<1>4. HandInv'
  BY <1>1 DEF IndInv, HandInv
<1>5. QED
  BY <1>3, <1>4

LEMMA PopResultInv ==
    ASSUME IndInv, PopResult
    PROVE  IndInv'
<1> USE DEF PopResult, errors, rest
<1>0. hand["writer"] = None
  BY DEF IndInv, HandInv
<1>1. PICK r \in processed :
         processed' = processed \ {r} /\ hand' = [hand EXCEPT !["writer"] = r]
  OBVIOUS
<1>2. r \in Record /\ r # None
  BY DistinctAssumption DEF IndInv, PipelineInv, TypeOK
<1>3. hand'["writer"] = r /\ \A s \in Holder \ {"writer"} : hand'[s] = hand[s]
  BY <1>1, Roles DEF IndInv, PipelineInv, TypeOK
<1>4. TypeOK'
  BY <1>1, <1>2 DEF IndInv, PipelineInv, TypeOK, Goto
<1>5. ExactlyOnce'
  <2>1. Paths(processed') = Paths(processed) \ {r[1]} /\ {r[1]} \subseteq Paths(processed)
    BY <1>1, OneEach DEF Paths, OneRecordEach
  <2>2. At("processed")' = At("processed") \ {r[1]} /\ {r[1]} \subseteq At("processed")
    BY <2>1, AtValues, AtValuesNext
  <2>3. At("writer") = {} /\ At("writer")' = {r[1]}
    BY <1>0, <1>2, <1>3, Roles, AtValues, AtValuesNext, HandPaths
  <2>4. \A s \in Holder \ {"writer"} : At(s)' = At(s)
    BY <1>3, AtValues, AtValuesNext DEF InHand
  <2>5. \A p \in Place \ {"processed", "writer"} : At(p)' = At(p)
    BY <2>4, AtValues, AtValuesNext, Places DEF Stage, Place
  <2>6. OneRecordEach(processed')
    BY <1>1, OneEach DEF OneRecordEach
  <2>7. "processed" \in Place /\ "writer" \in Place /\ "processed" # "writer"
    BY Places, Roles
  <2>8. QED
    BY <2>2, <2>3, <2>5, <2>6, <2>7, OneEach, HandOn
<1>6. FlowInv' /\ HandInv'
  BY <1>1, <1>2, <1>3, Roles, WriterFlow
<1>7. QED
  BY <1>4, <1>5, <1>6, Roles, PoolStep DEF ShutdownStep

LEMMA PopResultEndInv ==
    ASSUME IndInv, PopResultEnd
    PROVE  IndInv'
<1> USE DEF PopResultEnd, errors, rest, queues
<1>0. hand["writer"] = None /\ (stop => firstError # "none")
  BY DEF IndInv, HandInv, ErrorInv
<1>1. CASE stop /\ batch' = {} /\ Goto("writer", "exit")
  <2>1. TypeOK'
    BY <1>1 DEF IndInv, PipelineInv, TypeOK, Goto
  <2>2. ExactlyOnce'
    <3>1. At("batch")' = {}
      BY <1>1, AtValuesNext DEF Paths
    <3>2. \A p \in Place \ {"batch"} : At(p)' = At(p)
      BY AtValues, AtValuesNext, Places DEF InHand, Stage, Place
    <3>3. Disjoint'
      BY <3>1, <3>2, OneEach, Drop
    <3>4. OneRecordEach(processed') /\ OneRecordEach(batch') /\ OneRecordEach(committed')
      BY <1>1, OneEach DEF OneRecordEach
    <3>5. QED
      BY <1>0, <1>1, <3>3, <3>4, OncePartsNext
  <2>3. FlowInv' /\ HandInv'
    BY <1>0, <1>1, WriterFlow
  <2>4. QED
    BY <1>1, <2>1, <2>2, <2>3, Roles, PoolStep DEF ShutdownStep
<1>2. CASE ~stop /\ UNCHANGED batch /\ Goto("writer", "last_commit")
  <2>1. TypeOK'
    BY <1>2 DEF IndInv, PipelineInv, TypeOK, Goto
  <2>2. ExactlyOnce'
    BY <1>2, DataStay
  <2>3. FlowInv' /\ HandInv'
    BY <1>0, <1>2, WriterFlow
  <2>4. QED
    BY <1>2, <2>1, <2>2, <2>3, Roles, PoolStep DEF ShutdownStep
<1>3. QED
  BY <1>1, <1>2

LEMMA InsertInv ==
    ASSUME IndInv, Insert
    PROVE  IndInv'
<1> USE DEF Insert, errors, rest, queues
<1>0. hand["writer"] # None /\ hand["writer"] \in Record /\ hand["writer"][1] \in Entry
  BY Roles DEF IndInv, PipelineInv, TypeOK, HandInv, Record
<1>1. hand'["writer"] = None /\ \A s \in Holder \ {"writer"} : hand'[s] = hand[s]
  BY Roles DEF IndInv, PipelineInv, TypeOK
<1>2. PICK l \in {"commit", "run"} : Goto("writer", l)
  OBVIOUS
<1>3. TypeOK'
  BY <1>0, <1>2 DEF IndInv, PipelineInv, TypeOK, Goto
<1>4. "batch" \in Place /\ "writer" \in Place /\ "batch" # "writer"
  BY Places, Roles
<1>5. At("writer") = {hand["writer"][1]} /\ At("writer")' = {}
  BY <1>0, <1>1, Roles, AtValues, AtValuesNext, HandPaths
<1>6. hand["writer"][1] \notin Paths(batch)
  BY <1>0, <1>4, <1>5, OneEach, AtValues DEF Disjoint
<1>7. OneRecordEach(batch')
  BY <1>6, OneEach, OneRecordAdd
<1>8. ExactlyOnce'
  <2>1. Paths(batch') = Paths(batch) \cup {hand["writer"][1]}
    BY DEF Paths
  <2>2. At("batch")' = At("batch") \cup {hand["writer"][1]}
    BY <2>1, AtValues, AtValuesNext
  <2>3. \A s \in Holder \ {"writer"} : At(s)' = At(s)
    BY <1>1, AtValues, AtValuesNext DEF InHand
  <2>4. \A p \in Place \ {"writer", "batch"} : At(p)' = At(p)
    BY <2>3, AtValues, AtValuesNext, Places DEF Stage, Place
  <2>5. QED
    BY <1>4, <1>5, <1>7, <2>2, <2>4, OneEach, HandOn
<1>9. FlowInv' /\ HandInv'
  BY <1>1, <1>2, Roles, WriterFlow
<1>10. QED
  BY <1>2, <1>3, <1>8, <1>9, Roles, PoolStep DEF ShutdownStep

LEMMA CommitBatchInv ==
    ASSUME IndInv, CommitBatch
    PROVE  IndInv'
<1> USE DEF CommitBatch, errors, rest, queues
<1>0. hand["writer"] = None
  BY DEF IndInv, HandInv
<1>1. AfterCommit \in {"run", "exit"} /\ (AfterCommit = "exit" => pc["writer"] = "last_commit")
  BY DEF AfterCommit
<1>2. TypeOK'
  BY <1>1 DEF IndInv, PipelineInv, TypeOK, Goto
<1>3. "batch" \in Place /\ "committed" \in Place /\ "batch" # "committed"
  BY Places
<1>4. \A e \in Entry : ~(e \in Paths(batch) /\ e \in Paths(committed))
  BY <1>3, OneEach, AtValues DEF Disjoint
<1>5. OneRecordEach(committed') /\ OneRecordEach(batch')
  <2>1. batch \subseteq Record /\ committed \subseteq Record
    BY DEF IndInv, PipelineInv, TypeOK
  <2>2. \A r \in batch, q \in committed : r[1] # q[1]
    BY <1>4, <2>1 DEF Paths, Record
  <2>3. QED
    BY <2>2, OneEach DEF OneRecordEach
<1>6. ExactlyOnce'
  <2>1. Paths(committed') = Paths(committed) \cup Paths(batch) /\ Paths(batch') = {}
    BY DEF Paths
  <2>2. /\ At("committed")' = At("committed") \cup Paths(batch)
        /\ At("batch")' = At("batch") \ Paths(batch)
        /\ Paths(batch) \subseteq At("batch")
    BY <2>1, AtValues, AtValuesNext
  <2>3. \A p \in Place \ {"batch", "committed"} : At(p)' = At(p)
    BY AtValues, AtValuesNext, Places DEF InHand, Stage, Place
  <2>4. QED
    BY <1>3, <1>5, <2>2, <2>3, OneEach, HandOn
<1>7. FlowInv' /\ HandInv'
  <2>1. AfterCommit = "exit" => stop \/ (processedClosed /\ processed = {})
    BY <1>1 DEF IndInv, FlowInv
  <2>2. QED
    BY <1>0, <1>1, <2>1, WriterFlow
<1>8. QED
  BY <1>1, <1>2, <1>6, <1>7, Roles, PoolStep DEF ShutdownStep

-----------------------------------------------------------------------------
(* The pipeline: the theorems *)

LEMMA InitInv ==
    ASSUME Init PROVE IndInv
<1> USE DEF Init
<1>1. Cardinality(Worker) \in Nat
  BY WorkerAssumption, FS_CardinalityType
<1>2. TypeOK
  <2>1. 0 \in 0..(AttemptCount - 1) /\ Cardinality(Worker) \in 0..Cardinality(Worker)
        /\ 0 \in 0..MaxFault
    BY <1>1, LimitAssumption, FaultAssumption
  <2>2. attempt \in [Worker -> 0..(AttemptCount - 1)] /\ active \in 0..Cardinality(Worker)
        /\ faults \in 0..MaxFault
    BY <2>1
  <2>3. /\ pc \in [Thread -> {"prepare", "idle", "unborn"}]
        /\ err \in [Thread -> {"none"}] /\ hand \in [Holder -> {None}]
    OBVIOUS
  <2>4. QED
    BY <2>2, <2>3 DEF TypeOK
<1>3. /\ pc["main"] = "prepare" /\ pc["user"] = "idle"
      /\ \A t \in Pool : pc[t] = "unborn"
  BY Roles
<1>4. ExactlyOnce
  <2>1. /\ At("todo") = Entry
        /\ \A p \in Place \ {"todo"} : At(p) = {}
    <3>1. Paths(processed) = {} /\ Paths(batch) = {} /\ Paths(committed) = {}
      BY DEF Paths
    <3>2. \A t \in Holder : hand[t] = None
      OBVIOUS
    <3>3. \A t \in Holder : Paths(InHand(t)) = {}
      BY <3>2, HandPaths
    <3>4. QED
      BY <3>1, <3>3, AtValues, Places DEF Stage, Place
  <2>2. Disjoint /\ Complete
    BY <2>1, Places DEF Disjoint, Complete
  <2>3. OneRecordEach({})
    BY DEF OneRecordEach
  <2>4. QED
    BY <2>2, <2>3, OnceParts
<1>5. ThreadInv
  BY <1>3, Roles DEF ThreadInv, Joining, ShutdownStep
<1>6. ErrorInv
  <2>1. \A t \in Thread : pc[t] \in {"prepare", "idle", "unborn"} /\ err[t] = "none"
    BY <1>3, Roles
  <2>2. QED
    BY <1>3, <2>1 DEF ErrorInv
<1>7. FlowInv
  <2>1. {w \in Worker : pc[w] # "exit"} = Worker
    BY <1>3, Roles
  <2>2. \A w \in Worker : pc[w] = "unborn"
    BY <1>3, Roles
  <2>3. pc["writer"] = "unborn" /\ pc["scanner"] = "unborn"
    BY <1>3, Roles
  <2>4. QED
    BY <2>1, <2>2, <2>3 DEF FlowInv
<1>8. HandInv
  <2>1. pc["writer"] = "unborn" /\ \A w \in Worker : pc[w] = "unborn"
    BY <1>3, Roles
  <2>2. hand["writer"] = None /\ \A w \in Worker : hand[w] = None
    BY Roles
  <2>3. QED
    BY <2>1, <2>2 DEF HandInv
<1>9. NoUseAfterScope /\ RootCauseReported /\ PublishedIsWhole
  BY <1>3 DEF NoUseAfterScope, RootCauseReported, PublishedIsWhole
<1>10. QED
  BY <1>2, <1>4, <1>5, <1>6, <1>7, <1>8, <1>9 DEF IndInv, PipelineInv

LEMMA NextInv ==
    ASSUME IndInv, [Next]_vars PROVE IndInv'
<1>1. CASE ScannerStep
  BY <1>1, ScanPushInv, RaisingSteps, ScanDoneInv, ShutdownInv, Roles DEF ScannerStep
<1>2. CASE WriterStep
  BY <1>2, PopResultInv, PopResultEndInv, InsertInv, CommitBatchInv, RaisingSteps, ShutdownInv,
     Roles DEF WriterStep
<1>3. CASE ProgressStep
  BY <1>3, ProgressEndInv, ShutdownInv, Roles DEF ProgressStep
<1>4. CASE UserStep \/ Cancel
  BY <1>4, UserSteps, ShutdownInv, Roles DEF UserStep
<1>5. CASE MainStep
  BY <1>5, MainMoves, RegisterInv, SpawnInv, FinishSteps, ShutdownInv, Roles DEF MainStep
<1>6. ASSUME NEW w \in Worker, WorkerStep(w) PROVE IndInv'
  BY <1>6, PopJobInv, PopJobEndInv, FileStableInv, FileUnstableInv, PushResultInv, RetireInv,
     RaisingSteps, ShutdownInv, Roles DEF WorkerStep
<1>7. CASE FaultStep
  BY <1>7, RaisingSteps, FinishSteps DEF FaultStep
<1>8. CASE UNCHANGED vars
  <2> USE <1>8 DEF vars, control, errors, queues, data, rest
  <2>2. TypeOK'
    BY DEF IndInv, PipelineInv, TypeOK
  <2>3. ExactlyOnce'
    BY DataStay
  <2>4. ThreadInv'
    BY DEF IndInv, ThreadInv, Gone
  <2>5. ErrorInv'
    BY DEF IndInv, ErrorInv
  <2>6. FlowInv' /\ HandInv'
    BY PoolRests
  <2>7. RootCauseReported' /\ PublishedIsWhole'
    BY DEF IndInv, RootCauseReported, PublishedIsWhole
  <2>8. QED
    BY <2>2, <2>3, <2>4, <2>5, <2>6, <2>7, Compose
<1>9. QED
  BY <1>1, <1>2, <1>3, <1>4, <1>5, <1>6, <1>7, <1>8 DEF Next

\* Who runs, who holds what, which queue is closed and which error is recorded
\* fit together after every step of every thread.
THEOREM IndInvariant == Spec => []IndInv
<1>1. Init => IndInv
  BY InitInv
<1>2. IndInv /\ [Next]_vars => IndInv'
  BY NextInv
<1>3. QED
  BY <1>1, <1>2, PTL DEF Spec

\* For any number of workers and entries, all queue capacities, batch limits,
\* attempts, faults and cancellations: no entry is lost or doubled between the
\* scanner and the committed batches, and no thread outlives the scope of
\* create_snapshot's queues.
THEOREM PipelineInvariant == Spec => []PipelineInv
<1>1. IndInv => PipelineInv
  BY DEF IndInv
<1>2. QED
  BY <1>1, IndInvariant, PTL

\* A snapshot is published only if nothing failed, with every entry scanned in
\* a committed batch, once.
THEOREM WholePublished == Spec => []PublishedIsWhole
<1>1. IndInv => PublishedIsWhole
  BY DEF IndInv
<1>2. QED
  BY <1>1, IndInvariant, PTL

\* create_snapshot reports what went wrong first, never the fallout of its own
\* shutdown.
THEOREM RootCause == Spec => []RootCauseReported
<1>1. IndInv => RootCauseReported
  BY DEF IndInv
<1>2. QED
  BY <1>1, IndInvariant, PTL

-----------------------------------------------------------------------------
(* The pipeline: nobody waits in a circle *)

\* The labels of each thread.
Labels(t) ==
    ShutdownStep \cup {"exit"} \cup
        CASE t = "main" -> Joining \cup {"prepare", "register", "spawn"}
          [] t = "user" -> {"idle", "callback"}
          [] t = "writer" -> {"unborn", "run", "insert", "commit", "last_commit"}
          [] t \in {"scanner", "progress"} -> {"unborn", "run"}
          [] OTHER -> {"unborn", "run", "process", "push", "retire"}

\* An error that is recorded leads to a stop, the last worker closes the result
\* queue, and there is always something the calling thread does next.
GoInv ==
    /\ \A t \in Thread : pc[t] \in Labels(t)
    /\ firstError # "none" => stop \/ \E t \in Thread : pc[t] = "request_stop"
    /\ (\A w \in Worker : pc[w] = "exit") => processedClosed
    /\ pc["main"] = "join_progress" => progressStop
    /\ pc["main"] \in {"prepare", "register"} => firstError = "none"
    /\ pc["main"] = "spawn" => "scanner" \notin started
    /\ started # {} => "progress" \in started

LEMMA LabelValues ==
    /\ Labels("main") = ShutdownStep \cup {"exit", "prepare", "register", "spawn"} \cup Joining
    /\ Labels("user") = ShutdownStep \cup {"exit", "idle", "callback"}
    /\ Labels("writer") =
         ShutdownStep \cup {"exit", "unborn", "run", "insert", "commit", "last_commit"}
    /\ Labels("scanner") = ShutdownStep \cup {"exit", "unborn", "run"}
    /\ Labels("progress") = ShutdownStep \cup {"exit", "unborn", "run"}
    /\ \A w \in Worker : Labels(w) =
         ShutdownStep \cup {"exit", "unborn", "run", "process", "push", "retire"}
  BY Roles DEF Labels

\* A thread outside its handler goes on to another of its labels.
LEMMA GoOn ==
    ASSUME IndInv, GoInv, NEW t \in Thread, NEW l \in Labels(t), Goto(t, l),
           pc[t] # "request_stop",
           t \in Worker => l # "exit",
           t = "main" =>
             /\ l \notin {"prepare", "spawn"} \/ (l = "spawn" /\ pc["main"] = "register")
             /\ l = "register" => pc["main"] = "prepare"
             /\ l = "join_progress" => progressStop',
           UNCHANGED <<started, stop, firstError>>,
           progressStop => progressStop', processedClosed => processedClosed'
    PROVE  GoInv'
<1>1. pc'[t] = l /\ \A s \in Thread \ {t} : pc'[s] = pc[s]
  BY DEF Goto, IndInv, PipelineInv, TypeOK
<1>2. \A s \in Thread : pc'[s] \in Labels(s)
  BY <1>1 DEF GoInv
<1>3. firstError' # "none" => stop' \/ \E s \in Thread : pc'[s] = "request_stop"
  BY <1>1 DEF GoInv
<1>4. (\A w \in Worker : pc'[w] = "exit") => processedClosed'
  BY <1>1, Roles DEF GoInv
<1>5. /\ pc'["main"] = "join_progress" => progressStop'
      /\ pc'["main"] \in {"prepare", "register"} => firstError' = "none"
      /\ pc'["main"] = "spawn" => "scanner" \notin started'
  <2>1. CASE t = "main"
    BY <1>1, <2>1 DEF GoInv, IndInv, ThreadInv
  <2>2. CASE t # "main"
    BY <1>1, <2>2, Roles DEF GoInv
  <2>3. QED
    BY <2>1, <2>2
<1>6. QED
  BY <1>2, <1>3, <1>4, <1>5 DEF GoInv

\* A step in which nobody moves.
LEMMA GoStay ==
    ASSUME GoInv, UNCHANGED <<pc, started, stop, firstError, progressStop, processedClosed>>
    PROVE  GoInv'
  BY DEF GoInv

\* The steps of a handler.
LEMMA GoShutdown ==
    ASSUME IndInv, GoInv, NEW t \in Thread, Shutdown(t)
    PROVE  GoInv'
<1>1. \A s \in Thread : ShutdownStep \cup {"exit"} \subseteq Labels(s)
  BY DEF Labels
<1>2. CASE RecordFirstError(t)
  <2> USE <1>2 DEF RecordFirstError, rest, queues
  <2>1. pc'[t] = "request_stop" /\ \A s \in Thread \ {t} : pc'[s] = pc[s]
    BY DEF Goto, IndInv, PipelineInv, TypeOK
  <2>2. \A s \in Thread : pc'[s] \in Labels(s)
    BY <1>1, <2>1 DEF GoInv, ShutdownStep
  <2>3. (\A w \in Worker : pc'[w] = "exit") => processedClosed'
    BY <2>1, Roles DEF GoInv
  <2>4. pc["main"] \notin {"prepare", "register"}
    <3>1. pc["main"] \in {"prepare", "register"} => started = {} /\ ~registered
      BY DEF IndInv, ThreadInv
    <3>2. t \in Pool => t \in started
      BY ShutdownRuns DEF ShutdownStep
    <3>3. t = "user" => registered
      BY ShutdownRuns DEF ShutdownStep
    <3>4. QED
      BY <3>1, <3>2, <3>3, Roles
  <2>5. /\ pc'["main"] = "join_progress" => progressStop'
        /\ pc'["main"] \notin {"prepare", "register"}
        /\ pc'["main"] = "spawn" => "scanner" \notin started'
    BY <2>1, <2>4, Roles DEF GoInv
  <2>6. QED
    BY <2>1, <2>2, <2>3, <2>5 DEF GoInv
<1>3. CASE RequestStop(t)
  <2> USE <1>3 DEF RequestStop, rest, queues
  <2>1. pc'[t] = "close" /\ \A s \in Thread \ {t} : pc'[s] = pc[s]
    BY DEF Goto, IndInv, PipelineInv, TypeOK
  <2>2. \A s \in Thread : pc'[s] \in Labels(s)
    BY <1>1, <2>1 DEF GoInv, ShutdownStep
  <2>3. (\A w \in Worker : pc'[w] = "exit") => processedClosed'
    BY <2>1, Roles DEF GoInv
  <2>4. /\ pc'["main"] = "join_progress" => progressStop'
        /\ pc'["main"] \in {"prepare", "register"} => firstError' = "none"
        /\ pc'["main"] = "spawn" => "scanner" \notin started'
    BY <2>1, Roles DEF GoInv
  <2>5. QED
    BY <2>2, <2>3, <2>4 DEF GoInv
<1>4. CASE CloseAll(t)
  <2>1. AfterShutdown(t) \in Labels(t) /\ (t \in Worker => AfterShutdown(t) # "exit")
    BY LabelValues, Roles DEF AfterShutdown, Joining, Labels
  <2>2. t = "main" => AfterShutdown(t) = "join_scanner"
    BY Roles DEF AfterShutdown
  <2>3. QED
    BY <1>4, <2>1, <2>2, GoOn DEF CloseAll, errors, data
<1>5. QED
  BY <1>2, <1>3, <1>4 DEF Shutdown

\* A thread meets an error.
LEMMA GoRaise ==
    ASSUME IndInv, GoInv, NEW t \in Thread, NEW e, Raise(t, e), pc[t] # "request_stop",
           UNCHANGED <<started, stop, firstError, progressStop, processedClosed>>
    PROVE  GoInv'
<1>1. "record" \in Labels(t)
  BY DEF Labels, ShutdownStep
<1>2. QED
  BY <1>1, GoOn DEF Raise

\* The scanner, the workers, the writer and the progress thread.
LEMMA GoPool ==
    ASSUME IndInv, GoInv,
           ScannerStep \/ WriterStep \/ ProgressStep \/ \E w \in Worker : WorkerStep(w)
    PROVE  GoInv'
<1> USE DEF data, rest, queues, errors, control
<1>1. CASE ScannerStep
  <2>1. CASE ScanPush
    BY <2>1, GoStay DEF ScanPush
  <2>2. CASE ScanRefused
    BY <2>2, GoRaise, Roles DEF ScanRefused
  <2>3. CASE ScanDone
    BY <2>3, GoOn, LabelValues, Roles DEF ScanDone
  <2>4. QED
    BY <1>1, <2>1, <2>2, <2>3, GoShutdown, Roles DEF ScannerStep
<1>2. CASE WriterStep
  <2>1. CASE PopResult
    BY <2>1, GoOn, LabelValues, Roles DEF PopResult
  <2>2. CASE PopResultEnd
    BY <2>2, GoOn, LabelValues, Roles DEF PopResultEnd
  <2>3. CASE Insert
    BY <2>3, GoOn, LabelValues, Roles DEF Insert
  <2>4. CASE InsertCancelled \/ CommitCancelled
    BY <2>4, GoRaise, Roles DEF InsertCancelled, CommitCancelled
  <2>5. CASE CommitBatch
    <3>1. AfterCommit \in {"run", "exit"}
      BY DEF AfterCommit
    <3>2. QED
      BY <2>5, <3>1, GoOn, LabelValues, Roles DEF CommitBatch
  <2>6. QED
    BY <1>2, <2>1, <2>2, <2>3, <2>4, <2>5, GoShutdown, Roles DEF WriterStep
<1>3. CASE ProgressStep
  <2>1. CASE ProgressEnd
    BY <2>1, GoOn, LabelValues, Roles DEF ProgressEnd
  <2>2. QED
    BY <1>3, <2>1, GoShutdown, Roles DEF ProgressStep
<1>4. ASSUME NEW w \in Worker, WorkerStep(w) PROVE GoInv'
  <2>0. w \in Thread /\ w # "main"
    BY Roles
  <2>1. CASE PopJob(w)
    <3>1. PICK l \in {"process", "push"} : Goto(w, l)
      BY <2>1 DEF PopJob
    <3>2. QED
      BY <2>0, <2>1, <3>1, GoOn, LabelValues DEF PopJob
  <2>2. CASE PopJobEnd(w)
    BY <2>0, <2>2, GoOn, LabelValues DEF PopJobEnd
  <2>3. CASE FileStable(w)
    BY <2>0, <2>3, GoOn, LabelValues DEF FileStable
  <2>4. CASE FileUnstable(w)
    <3>1. UNCHANGED pc \/ Goto(w, "push")
      BY <2>4 DEF FileUnstable
    <3>2. QED
      BY <2>0, <2>4, <3>1, GoStay, GoOn, LabelValues DEF FileUnstable
  <2>5. CASE FileCancelled(w) \/ PushRefused(w)
    BY <2>0, <2>5, GoRaise DEF FileCancelled, PushRefused
  <2>6. CASE PushResult(w)
    BY <2>0, <2>6, GoOn, LabelValues DEF PushResult
  <2>7. CASE Retire(w)
    <3> DEFINE Live == {v \in Worker : pc[v] # "exit"}
    <3>1. pc'[w] = "exit" /\ \A s \in Thread \ {w} : pc'[s] = pc[s]
      BY <2>0, <2>7 DEF Retire, Goto, IndInv, PipelineInv, TypeOK
    <3>2. \A s \in Thread : pc'[s] \in Labels(s)
      BY <3>1 DEF GoInv, Labels
    <3>3. ASSUME \A v \in Worker : pc'[v] = "exit"
          PROVE  active = 1
      <4>1. \A v \in Worker : v \in Thread
        BY Roles
      <4>2. Live = {w}
        BY <2>7, <3>1, <3>3, <4>1 DEF Retire
      <4>3. active = Cardinality(Live)
        BY DEF IndInv, FlowInv
      <4>4. QED
        BY <4>2, <4>3, FS_Singleton
    <3>4. (\A v \in Worker : pc'[v] = "exit") => processedClosed'
      BY <2>7, <3>3 DEF Retire
    <3>5. firstError' # "none" => stop' \/ \E s \in Thread : pc'[s] = "request_stop"
      BY <2>7, <3>1 DEF GoInv, Retire
    <3>6. pc'["main"] = pc["main"] /\ UNCHANGED <<started, progressStop, firstError>>
      BY <2>0, <2>7, <3>1, Roles DEF Retire
    <3>7. QED
      BY <3>2, <3>4, <3>5, <3>6 DEF GoInv
  <2>8. QED
    BY <1>4, <2>0, <2>1, <2>2, <2>3, <2>4, <2>5, <2>6, <2>7, GoShutdown DEF WorkerStep
<1>5. QED
  BY <1>1, <1>2, <1>3, <1>4

\* The calling thread and the user's.
LEMMA GoCaller ==
    ASSUME IndInv, GoInv, MainStep \/ UserStep \/ Cancel
    PROVE  GoInv'
<1> USE DEF data, rest, queues, errors, control
<1>0. "main" \in Thread /\ "main" \notin Worker /\ "user" \in Thread /\ "user" \notin Worker
  BY Roles
<1>1. CASE Cancel
  BY <1>0, <1>1, GoOn, LabelValues DEF Cancel
<1>2. CASE RunCallback
  <2>1. Raise("user", "cancelled") \/ Goto("user", "exit")
    BY <1>2 DEF RunCallback
  <2>2. QED
    BY <1>0, <1>2, <2>1, GoRaise, GoOn, LabelValues DEF RunCallback
<1>3. CASE Prepare
  BY <1>0, <1>3, GoOn, LabelValues DEF Prepare
<1>4. CASE Register
  <2>1. Raise("main", "cancelled") \/ Goto("main", "spawn")
    BY <1>4 DEF Register
  <2>2. QED
    BY <1>0, <1>4, <2>1, GoRaise, GoOn, LabelValues DEF Register
<1>5. CASE StartThreads
  BY <1>0, <1>5, GoOn, LabelValues DEF StartThreads, Joining
<1>6. ASSUME NEW t \in Pool, Spawn(t) PROVE GoInv'
  <2> USE <1>6 DEF Spawn
  <2>0. t \in Thread /\ t # "main" /\ t # "user"
    BY Roles
  <2>1. /\ pc'[t] = "run"
        /\ pc'["main"] = IF t = "scanner" THEN "join_scanner" ELSE "spawn"
        /\ \A s \in Thread \ {t, "main"} : pc'[s] = pc[s]
    BY <1>0, <2>0 DEF IndInv, PipelineInv, TypeOK
  <2>2. \A s \in Thread : pc'[s] \in Labels(s)
    <3>1. "run" \in Labels(t)
      BY LabelValues, Roles
    <3>2. pc'["main"] \in Labels("main")
      BY <2>1, LabelValues DEF Joining
    <3>3. QED
      BY <2>1, <3>1, <3>2 DEF GoInv
  <2>3. firstError' # "none" => stop' \/ \E s \in Thread : pc'[s] = "request_stop"
    <3>1. pc[t] = "unborn" /\ pc["main"] = "spawn"
      BY DEF MaySpawn, IndInv, ThreadInv
    <3>2. QED
      BY <2>1, <3>1 DEF GoInv
  <2>4. (\A w \in Worker : pc'[w] = "exit") => processedClosed'
    BY <1>0, <2>1, Roles DEF GoInv
  <2>5. pc'["main"] = "spawn" => "scanner" \notin started'
    BY <2>1 DEF GoInv
  <2>6. "progress" \in started'
    BY DEF MaySpawn
  <2>7. pc'["main"] \in {"join_scanner", "spawn"}
    BY <2>1
  <2>8. QED
    BY <2>2, <2>3, <2>4, <2>5, <2>6, <2>7 DEF GoInv
<1>7. CASE JoinScanner \/ JoinWorkers \/ JoinProgress
  BY <1>0, <1>7, GoOn, LabelValues DEF JoinScanner, JoinWorkers, JoinProgress, Joining
<1>8. CASE JoinWriter
  BY <1>0, <1>8, GoOn, LabelValues DEF JoinWriter, Joining
<1>9. CASE Unregister \/ Finalize
  BY <1>0, <1>9, GoOn, LabelValues DEF Unregister, Finalize, Joining
<1>10. CASE Rethrow \/ CheckCancelled \/ Publish
  BY <1>0, <1>10, GoOn, LabelValues DEF Rethrow, CheckCancelled, Publish, Finish
<1>11. QED
  BY <1>0, <1>1, <1>2, <1>3, <1>4, <1>5, <1>6, <1>7, <1>8, <1>9, <1>10, GoShutdown
     DEF MainStep, UserStep

\* The errors.
LEMMA GoFault ==
    ASSUME IndInv, GoInv, FaultStep
    PROVE  GoInv'
<1> USE DEF data, rest, queues, errors, Fault
<1>1. CASE ScanFault \/ WriterFault \/ ProgressFault \/ SpawnFault
  BY <1>1, GoRaise, Roles DEF ScanFault, WriterFault, ProgressFault, SpawnFault
<1>2. ASSUME NEW w \in Worker, WorkerFault(w) PROVE GoInv'
  BY <1>2, GoRaise, Roles DEF WorkerFault
<1>3. CASE CallerFault
  BY <1>3, GoOn, LabelValues, Roles DEF CallerFault, Finish
<1>4. QED
  BY <1>1, <1>2, <1>3 DEF FaultStep

LEMMA GoInit ==
    ASSUME Init PROVE GoInv
<1>1. pc["main"] = "prepare" /\ pc["user"] = "idle" /\ \A t \in Pool : pc[t] = "unborn"
  BY Roles DEF Init
<1>2. \A t \in Thread : pc[t] \in Labels(t)
  BY <1>1, LabelValues, Roles
<1>3. ~\A w \in Worker : pc[w] = "exit"
  BY <1>1, WorkerAssumption, Roles
<1>4. QED
  BY <1>1, <1>2, <1>3 DEF Init, GoInv

LEMMA GoNext ==
    ASSUME IndInv, GoInv, [Next]_vars
    PROVE  GoInv'
<1>1. CASE UNCHANGED vars
  BY <1>1, GoStay DEF vars, control, errors, queues, rest
<1>2. QED
  BY <1>1, GoPool, GoCaller, GoFault DEF Next

\* The writer takes what is there.
LEMMA WriterFree ==
    ASSUME IndInv, GoInv, "writer" \in started, ~stop, ~processedClosed, processed # {}
    PROVE  Goes("writer")
<1>1. pc["writer"] \notin {"unborn", "exit"}
  BY Roles DEF IndInv, ThreadInv, FlowInv
<1>2. pc["writer"] \in Labels("writer")
  BY Roles DEF GoInv
<1>3. QED
  BY <1>1, <1>2, LabelValues DEF Goes, WriterGoes

\* A worker that has not ended goes on, or waits for the writer, who does.
LEMMA WorkerFree ==
    ASSUME IndInv, GoInv, NEW w \in Worker, w \in started, pc[w] # "exit", "writer" \in started,
           stop \/ jobsClosed \/ jobs # {}
    PROVE  Goes(w) \/ Goes("writer")
<1>1. pc[w] \in Labels(w) /\ pc[w] \notin {"unborn", "exit"}
  BY Roles DEF GoInv, IndInv, ThreadInv
<1>2. CASE pc[w] = "push" /\ ~(stop \/ processedClosed \/ Cardinality(processed) < ResultCapacity)
  <2>1. processed # {}
    BY <1>2, FS_EmptySet, LimitAssumption
  <2>2. QED
    BY <1>2, <2>1, WriterFree
<1>3. QED
  BY <1>1, <1>2, LabelValues DEF Goes, WorkerGoes

\* A worker can only be asked for by a thread that waits after all were started, or
\* after a stop; and a stop comes from a thread that goes on.
LEMMA StartedOrStopped ==
    ASSUME IndInv, GoInv, pc["main"] \in Joining, \A t \in Thread : ~Goes(t)
    PROVE  stop \/ started = Pool
  BY DEF GoInv, IndInv, ThreadInv, Goes, ShutdownStep

\* In every state of the pipeline some thread has what it needs.
LEMMA GoesOn ==
    ASSUME IndInv, GoInv
    PROVE  SomeoneGoes
<1> SUFFICES ASSUME outcome = "none", \A t \in Thread : ~Goes(t)
             PROVE  FALSE
  BY DEF SomeoneGoes
<1>0. "main" \in Thread /\ "user" \in Thread /\ \A t \in Pool : t \in Thread
  BY Roles
<1>1. pc["main"] \in Labels("main") /\ pc["main"] # "exit"
  BY <1>0 DEF GoInv, IndInv, ThreadInv
<1>2. ~MainGoes /\ \A t \in Thread : pc[t] \notin ShutdownStep
  BY <1>0 DEF Goes
<1>3. CASE pc["main"] \in {"prepare", "register", "rethrow", "finalize"}
  BY <1>2, <1>3 DEF MainGoes, GoInv, IndInv, ErrorInv
<1>4. CASE pc["main"] = "spawn"
  <2>1. \A t \in Pool : ~MaySpawn(t)
    BY <1>2, <1>4 DEF MainGoes
  <2>2. CASE started = {}
    <3>1. ~stop
      BY <1>2, <1>4, <2>2 DEF MainGoes
    <3>2. MaySpawn("progress")
      BY <2>2, <3>1 DEF MaySpawn
    <3>3. QED
      BY <2>1, <3>2, Roles
  <2>3. CASE started # {}
    <3>1. "progress" \in started /\ "scanner" \notin started
      BY <1>4, <2>3 DEF GoInv
    <3>2. "writer" \in started
      BY <2>1, <3>1, Roles DEF MaySpawn
    <3>3. \A w \in Worker : w \in started
      BY <2>1, <3>1, <3>2, Roles DEF MaySpawn
    <3>4. MaySpawn("scanner")
      BY <3>1, <3>2, <3>3 DEF MaySpawn
    <3>5. QED
      BY <2>1, <3>4, Roles
  <2>4. QED
    BY <2>2, <2>3
<1>5. CASE pc["main"] = "join_scanner"
  <2>1. "scanner" \in started /\ pc["scanner"] # "exit"
    BY <1>2, <1>5 DEF MainGoes, Gone
  <2>2. pc["scanner"] = "run"
    BY <1>0, <1>2, <2>1, LabelValues, Roles DEF GoInv, IndInv, ThreadInv
  <2>3. ~stop /\ ~jobsClosed /\ ~(Cardinality(jobs) < JobCapacity)
    BY <1>0, <2>2, Roles DEF Goes, ScannerGoes
  <2>4. jobs # {}
    BY <2>3, FS_EmptySet, LimitAssumption
  <2>5. started = Pool
    BY <1>5, <2>3, StartedOrStopped DEF Joining
  <2>6. PICK w \in Worker : TRUE
    BY WorkerAssumption
  <2>7. pc[w] # "exit"
    BY <2>3 DEF IndInv, FlowInv
  <2>8. QED
    BY <1>0, <2>4, <2>5, <2>7, WorkerFree, Roles
<1>6. CASE pc["main"] = "join_workers"
  <2>1. PICK w \in Worker : w \in started /\ pc[w] # "exit"
    BY <1>2, <1>6 DEF MainGoes, Gone
  <2>2. stop \/ started = Pool
    BY <1>6, StartedOrStopped DEF Joining
  <2>3. stop \/ jobsClosed
    <3>1. Gone("scanner")
      BY <1>6 DEF IndInv, ThreadInv, Joining
    <3>2. QED
      BY <2>2, <3>1, Roles DEF Gone, IndInv, FlowInv
  <2>4. CASE stop
    <3>1. pc[w] \in Labels(w) /\ pc[w] # "unborn"
      BY <2>1, Roles DEF GoInv, IndInv, ThreadInv
    <3>2. Goes(w)
      BY <2>1, <2>4, <3>1, LabelValues DEF Goes, WorkerGoes
    <3>3. QED
      BY <1>0, <3>2, Roles
  <2>5. CASE started = Pool
    BY <1>0, <2>1, <2>3, <2>5, WorkerFree, Roles
  <2>6. QED
    BY <2>2, <2>4, <2>5
<1>7. CASE pc["main"] = "join_writer"
  <2>1. "writer" \in started /\ pc["writer"] # "exit"
    BY <1>2, <1>7 DEF MainGoes, Gone
  <2>2. pc["writer"] \in Labels("writer") /\ pc["writer"] # "unborn"
    BY <2>1, Roles DEF GoInv, IndInv, ThreadInv
  <2>3. ~stop /\ ~processedClosed
    BY <1>0, <2>1, <2>2, LabelValues, Roles DEF Goes, WriterGoes
  <2>4. started = Pool
    BY <1>7, <2>3, StartedOrStopped DEF Joining
  <2>5. \A w \in Worker : pc[w] = "exit"
    BY <1>7, <2>4, Roles DEF IndInv, ThreadInv, Joining, Gone
  <2>6. QED
    BY <2>3, <2>5 DEF GoInv
<1>8. CASE pc["main"] = "join_progress"
  <2>1. "progress" \in started /\ pc["progress"] # "exit"
    BY <1>2, <1>8 DEF MainGoes, Gone
  <2>2. pc["progress"] = "run"
    BY <1>0, <1>2, <2>1, LabelValues, Roles DEF GoInv, IndInv, ThreadInv
  <2>3. progressStop
    BY <1>8 DEF GoInv
  <2>4. QED
    BY <1>0, <2>2, <2>3, Roles DEF Goes
<1>9. CASE pc["main"] = "unregister"
  BY <1>0, <1>2, <1>9 DEF MainGoes
<1>10. pc["main"] \notin ShutdownStep
  BY <1>0, <1>2
<1>11. QED
  BY <1>1, <1>3, <1>4, <1>5, <1>6, <1>7, <1>8, <1>9, <1>10, LabelValues DEF Joining

\* create_snapshot is never deadlocked: for any number of workers and entries, all
\* capacities, faults and cancellations, until it returns some thread has the room,
\* the item, the closure or the ended thread it needs to go on.
THEOREM NeverDeadlocked == Spec => []SomeoneGoes
<1>1. Init => GoInv
  BY GoInit
<1>2. IndInv /\ GoInv /\ [Next]_vars => GoInv'
  BY GoNext
<1>3. IndInv /\ GoInv => SomeoneGoes
  BY GoesOn
<1>4. QED
  BY <1>1, <1>2, <1>3, IndInvariant, PTL DEF Spec
=============================================================================
