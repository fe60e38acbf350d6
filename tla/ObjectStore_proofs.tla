------------------------- MODULE ObjectStore_proofs -------------------------
(***************************************************************************)
(* IndInv is an invariant of ObjectStore for all sets of workers, hashes,  *)
(* shards and mutex tables, and with it the durability of committed rows.  *)
(***************************************************************************)
EXTENDS ObjectStore, TLAPS

LEMMA InitInv == Init => IndInv
  BY KnownAssumption
     DEF Init, IndInv, TypeOK, VisibleInv, Present, RowsSurvive, ResultsSurvive, Durable,
         CallInv, NewsInv, OneNewPerObject, StripeHeld, InStripe

\* Steps that only move a worker inside its stripe, changing no file.
LEMMA MoveInv ==
    ASSUME IndInv, NEW w \in Worker,
           \/ Recheck(w) \/ WriteTemporary(w) \/ SyncTemporary(w)
    PROVE  IndInv'
<1> USE DEF IndInv
<1>1. TypeOK'
  BY DEF TypeOK, Recheck, WriteTemporary, SyncTemporary, FoundExisting, Goto, fs, rowVars
<1>2. UNCHANGED <<fs, mutex, want, known, news, rowVars>> /\ synced \subseteq synced'
  BY DEF Recheck, WriteTemporary, SyncTemporary
<1>3. /\ \A v \in Worker : v # w => pc'[v] = pc[v]
      /\ pc[w] \in {"recheck", "write", "sync"}
      /\ pc'[w] \in {"adopt_sync", "make_shard", "sync", "publish"}
  BY DEF Recheck, WriteTemporary, SyncTemporary, FoundExisting, Goto, TypeOK
<1>4. VisibleInv' /\ RowsSurvive' /\ ResultsSurvive' /\ (batchRows \subseteq Durable)'
  BY <1>2 DEF VisibleInv, RowsSurvive, ResultsSurvive, Durable, Present, fs, rowVars
<1>5. CallInv(w)'
  BY <1>2 DEF CallInv, TypeOK, Recheck, WriteTemporary, SyncTemporary, FoundExisting, Goto,
              fs, Present
<1>6. \A v \in Worker : v # w => CallInv(v)'
  BY <1>2, <1>3 DEF CallInv, fs, Present
<1>7. NewsInv'
  BY <1>2, <1>3 DEF NewsInv, OneNewPerObject, fs
<1>8. StripeHeld'
  BY <1>2, <1>3 DEF StripeHeld, InStripe, Stripe
<1>9. QED
  BY <1>1, <1>4, <1>5, <1>6, <1>7, <1>8

\* Calls that find their object in the cache, or leave it to the stripe.
LEMMA StoreInv ==
    ASSUME IndInv, NEW w \in Worker, NEW h \in Hash, StoreKnown(w, h) \/ StoreUnknown(w, h)
    PROVE  IndInv'
<1> USE DEF IndInv
<1>1. CASE StoreKnown(w, h)
  <2>1. UNCHANGED <<fs, callVars, known, news, batchRows, rows>> /\ handed' = handed \cup {h}
    BY <1>1 DEF StoreKnown
  <2>2. h \in Durable /\ Durable' = Durable
    BY <1>1, <2>1 DEF StoreKnown, ResultsSurvive, Durable, fs
  <2>3. VisibleInv' /\ RowsSurvive' /\ ResultsSurvive' /\ (batchRows \subseteq Durable)'
    BY <2>1, <2>2 DEF VisibleInv, RowsSurvive, ResultsSurvive, Present, fs
  <2>4. TypeOK' /\ (\A v \in Worker : CallInv(v)') /\ NewsInv' /\ StripeHeld'
    BY <2>1 DEF TypeOK, CallInv, NewsInv, OneNewPerObject, StripeHeld, InStripe, Stripe,
                Present, fs, callVars
  <2>5. QED
    BY <2>3, <2>4
<1>2. CASE StoreUnknown(w, h)
  <2>1. /\ UNCHANGED <<fs, mutex, synced, known, news, rowVars>>
        /\ pc' = [pc EXCEPT ![w] = "compressed"]
        /\ want' = [want EXCEPT ![w] = h]
    BY <1>2 DEF StoreUnknown, Goto
  <2>2. /\ pc'[w] = "compressed"
        /\ \A v \in Worker : v # w => pc'[v] = pc[v] /\ want'[v] = want[v]
    BY <2>1 DEF TypeOK
  <2>3. TypeOK'
    BY <2>1 DEF TypeOK, fs, rowVars
  <2>4. VisibleInv' /\ RowsSurvive' /\ ResultsSurvive' /\ (batchRows \subseteq Durable)'
    BY <2>1 DEF VisibleInv, RowsSurvive, ResultsSurvive, Durable, Present, fs, rowVars
  <2>5. \A v \in Worker : CallInv(v)'
    BY <2>1, <2>2 DEF CallInv, fs, Present
  <2>6. NewsInv' /\ StripeHeld'
    BY <2>1, <2>2 DEF NewsInv, OneNewPerObject, StripeHeld, InStripe, Stripe, fs
  <2>7. QED
    BY <2>3, <2>4, <2>5, <2>6
<1>3. QED
  BY <1>1, <1>2

LEMMA LockInv ==
    ASSUME IndInv, NEW w \in Worker, LockStripe(w)
    PROVE  IndInv'
<1> USE DEF IndInv
<1>1. /\ UNCHANGED <<fs, want, synced, known, news, rowVars>>
      /\ pc' = [pc EXCEPT ![w] = "recheck"]
      /\ mutex[Stripe(w)] = None
      /\ mutex' = [mutex EXCEPT ![Stripe(w)] = w]
  BY DEF LockStripe, Goto
<1>2. Stripe(w) \in Sync \X Shard
  BY SyncAssumption, ShardAssumption DEF Stripe, TypeOK
<1>3. pc'[w] = "recheck" /\ \A v \in Worker : v # w => pc'[v] = pc[v]
  BY <1>1 DEF TypeOK
<1>4. TypeOK'
  BY <1>1, <1>2 DEF TypeOK, fs, rowVars
<1>5. VisibleInv' /\ RowsSurvive' /\ ResultsSurvive' /\ (batchRows \subseteq Durable)'
  BY <1>1 DEF VisibleInv, RowsSurvive, ResultsSurvive, Durable, Present, fs, rowVars
<1>6. \A v \in Worker : CallInv(v)'
  BY <1>1, <1>3 DEF CallInv, fs, Present
<1>7. NewsInv'
  BY <1>1, <1>3 DEF NewsInv, OneNewPerObject, fs
<1>8. StripeHeld'
  <2>1. \A v \in Worker : Stripe(v)' = Stripe(v) /\ Stripe(v) \in Sync \X Shard
    BY <1>1, SyncAssumption, ShardAssumption DEF Stripe, TypeOK
  <2>2. ASSUME NEW v \in Worker, InStripe(v)'
        PROVE  mutex'[Stripe(v)] = v
    <3>1. CASE v = w
      BY <1>1, <1>2, <3>1 DEF TypeOK
    <3>2. CASE v # w
      <4>1. mutex[Stripe(v)] = v
        BY <1>3, <2>2, <3>2 DEF StripeHeld, InStripe
      <4>2. Stripe(v) # Stripe(w)
        BY <1>1, <4>1, FreeAssumption
      <4>3. QED
        BY <1>1, <2>1, <4>1, <4>2 DEF TypeOK
    <3>3. QED
      BY <3>1, <3>2
  <2>3. QED
    BY <2>1, <2>2 DEF StripeHeld
<1>9. QED
  BY <1>4, <1>5, <1>6, <1>7, <1>8

\* Leaving the stripe gives back a mutex of one's own only.
LEMMA LeaveInv ==
    ASSUME IndInv, NEW w \in Worker, LeaveStripe(w)
    PROVE  /\ pc' \in [Worker -> {"idle", "compressed", "recheck", "adopt_sync",
                 "adopt_flush", "make_shard", "flush_objects", "write", "sync", "publish",
                 "flush_shard"}]
           /\ mutex' \in [Sync \X Shard -> Worker \cup {None}]
           /\ synced' \in SUBSET Worker
           /\ want' = want
           /\ pc'[w] = "idle"
           /\ \A v \in Worker : v # w => pc'[v] = pc[v] /\ (v \in synced' <=> v \in synced)
           /\ StripeHeld'
<1> USE DEF IndInv
<1>1. /\ UNCHANGED want
      /\ pc' = [pc EXCEPT ![w] = "idle"]
      /\ synced' = synced \ {w}
      /\ mutex' = [mutex EXCEPT ![Stripe(w)] =
                      IF mutex[Stripe(w)] = w THEN None ELSE mutex[Stripe(w)]]
  BY DEF LeaveStripe, Goto
<1>2. \A v \in Worker : Stripe(v)' = Stripe(v) /\ Stripe(v) \in Sync \X Shard
  BY <1>1, SyncAssumption, ShardAssumption DEF Stripe, TypeOK
<1>3. pc'[w] = "idle" /\ \A v \in Worker : v # w => pc'[v] = pc[v]
  BY <1>1 DEF TypeOK
<1>4. ASSUME NEW v \in Worker, InStripe(v)'
      PROVE  mutex'[Stripe(v)] = v
  <2>1. v # w /\ mutex[Stripe(v)] = v
    BY <1>3, <1>4 DEF StripeHeld, InStripe
  <2>2. QED
    BY <1>1, <1>2, <2>1 DEF TypeOK
<1>5. StripeHeld'
  BY <1>2, <1>4 DEF StripeHeld
<1>6. QED
  BY <1>1, <1>2, <1>3, <1>5 DEF TypeOK

LEMMA ThrowInv ==
    ASSUME IndInv, NEW w \in Worker, Throw(w)
    PROVE  IndInv'
<1> USE DEF IndInv
<1>1. LeaveStripe(w) /\ UNCHANGED <<fs, known, news, rowVars>>
  BY DEF Throw
<1>2. TypeOK' /\ StripeHeld'
  BY <1>1, LeaveInv DEF TypeOK, fs, rowVars
<1>3. VisibleInv' /\ RowsSurvive' /\ ResultsSurvive' /\ (batchRows \subseteq Durable)'
  BY <1>1 DEF VisibleInv, RowsSurvive, ResultsSurvive, Durable, Present, fs, rowVars
<1>4. \A v \in Worker : CallInv(v)'
  BY <1>1, LeaveInv DEF CallInv, fs, Present
<1>5. NewsInv'
  BY <1>1, LeaveInv DEF NewsInv, OneNewPerObject, fs
<1>6. QED
  BY <1>2, <1>3, <1>4, <1>5

\* Flushes and mkdir only add to what is on disk or visible.
LEMMA GrowInv ==
    ASSUME IndInv, NEW w \in Worker, AdoptSync(w) \/ EnsureShard(w) \/ FlushObjects(w)
    PROVE  IndInv'
<1> USE DEF IndInv
<1>1. UNCHANGED <<file, entryOn, mutex, want, synced, known, news, handed, batchRows, rows>>
  BY DEF AdoptSync, EnsureShard, FlushObjects, rowVars
<1>2. ShardOf[want[w]] \in Shard /\ want[w] \in Hash
  BY ShardAssumption DEF TypeOK
<1>3. /\ contentOn \subseteq contentOn' /\ contentOn' \in SUBSET Hash
      /\ shard \subseteq shard' /\ shard' \in SUBSET Shard
      /\ shardOn \subseteq shardOn' /\ shardOn' \subseteq shard'
  BY <1>2 DEF AdoptSync, EnsureShard, FlushObjects, TypeOK, VisibleInv
<1>4. /\ pc' \in [Worker -> {"idle", "compressed", "recheck", "adopt_sync", "adopt_flush",
                             "make_shard", "flush_objects", "write", "sync", "publish",
                             "flush_shard"}]
      /\ \A v \in Worker : v # w => pc'[v] = pc[v]
      /\ pc[w] \in {"adopt_sync", "make_shard", "flush_objects"}
      /\ pc'[w] \in {"adopt_flush", "flush_objects", "write"}
  BY DEF AdoptSync, EnsureShard, FlushObjects, Goto, TypeOK
<1>5. TypeOK'
  BY <1>1, <1>3, <1>4 DEF TypeOK
<1>6. Durable \subseteq Durable' /\ Present' = Present
  BY <1>1, <1>3 DEF Durable, Present
<1>7. VisibleInv'
  BY <1>1, <1>3, <1>6 DEF VisibleInv
<1>8. RowsSurvive' /\ ResultsSurvive' /\ (batchRows \subseteq Durable)'
  BY <1>1, <1>6 DEF RowsSurvive, ResultsSurvive
<1>9. CallInv(w)'
  BY <1>1, <1>2, <1>3, <1>6
     DEF CallInv, AdoptSync, EnsureShard, FlushObjects, Goto, TypeOK
<1>10. \A v \in Worker : v # w => CallInv(v)'
  BY <1>1, <1>3, <1>4, <1>6 DEF CallInv
<1>11. NewsInv' /\ StripeHeld'
  BY <1>1, <1>4 DEF NewsInv, OneNewPerObject, StripeHeld, InStripe, Stripe
<1>12. QED
  BY <1>5, <1>7, <1>8, <1>9, <1>10, <1>11

\* The rename makes an object visible that no row, cache or result named yet;
\* losing the race to another store changes nothing but where the call goes.
LEMMA PublishInv ==
    ASSUME IndInv, NEW w \in Worker, Publish(w)
    PROVE  IndInv'
<1> USE DEF IndInv
<1>1. /\ UNCHANGED <<mutex, want, synced, known, news, handed, batchRows, rows>>
      /\ pc[w] = "publish" /\ w \in synced
      /\ ShardOf[want[w]] \in shardOn /\ want[w] \in Hash
  BY DEF Publish, rowVars, CallInv, TypeOK
<1>2. CASE file[want[w]] = "absent" /\ Rename(w)
  <2>1. /\ file' = [file EXCEPT ![want[w]] = "whole"]
        /\ contentOn' = contentOn \cup {want[w]}
        /\ entryOn' = entryOn \ {want[w]}
        /\ UNCHANGED <<shard, shardOn>>
        /\ pc' = [pc EXCEPT ![w] = "flush_shard"]
    BY <1>1, <1>2 DEF Rename, Goto
  <2>2. pc'[w] = "flush_shard" /\ \A v \in Worker : v # w => pc'[v] = pc[v]
    BY <2>1 DEF TypeOK
  <2>3. TypeOK'
    BY <1>1, <2>1 DEF TypeOK
  <2>4. Present' = Present \cup {want[w]} /\ want[w] \notin Present
    BY <1>1, <1>2, <2>1 DEF Present, TypeOK
  <2>5. VisibleInv'
    <3>1. ASSUME NEW h \in Present'
          PROVE  file'[h] = "whole" /\ h \in contentOn' /\ ShardOf[h] \in shardOn'
      BY <1>1, <2>1, <2>4, <3>1 DEF VisibleInv, TypeOK, Present
    <3>2. QED
      BY <2>1, <2>4, <3>1 DEF VisibleInv
  <2>6. Durable \subseteq Durable'
    BY <1>2, <2>1 DEF Durable, TypeOK
  <2>7. RowsSurvive' /\ ResultsSurvive' /\ (batchRows \subseteq Durable)'
    BY <1>1, <2>6 DEF RowsSurvive, ResultsSurvive
  <2>8. \A v \in Worker : CallInv(v)'
    BY <1>1, <2>1, <2>2, <2>4 DEF CallInv
  <2>9. NewsInv'
    <3>1. news[want[w]] = 0
      BY <1>1, <1>2 DEF NewsInv, OneNewPerObject, TypeOK
    <3>2. \A v \in Worker : pc[v] = "flush_shard" => want[v] # want[w]
      BY <1>1, <2>4 DEF CallInv
    <3>3. OneNewPerObject'
      BY <1>1, <2>1, <3>1 DEF NewsInv, OneNewPerObject, TypeOK
    <3>4. QED
      BY <1>1, <2>2, <3>1, <3>2, <3>3 DEF NewsInv
  <2>10. StripeHeld'
    BY <1>1, <2>2 DEF StripeHeld, InStripe, Stripe
  <2>11. QED
    BY <2>3, <2>5, <2>7, <2>8, <2>9, <2>10
<1>3. CASE FoundExisting(w) /\ UNCHANGED fs
  <2>1. pc' = [pc EXCEPT ![w] = "adopt_sync"] /\ file[want[w]] = "whole"
    BY <1>3 DEF FoundExisting, Goto
  <2>2. pc'[w] = "adopt_sync" /\ \A v \in Worker : v # w => pc'[v] = pc[v]
    BY <2>1 DEF TypeOK
  <2>3. TypeOK'
    BY <1>1, <1>3, <2>1 DEF TypeOK, fs
  <2>4. VisibleInv' /\ RowsSurvive' /\ ResultsSurvive' /\ (batchRows \subseteq Durable)'
    BY <1>1, <1>3 DEF VisibleInv, RowsSurvive, ResultsSurvive, Durable, Present, fs
  <2>5. \A v \in Worker : CallInv(v)'
    BY <1>1, <1>3, <2>1, <2>2 DEF CallInv, fs, Present
  <2>6. NewsInv' /\ StripeHeld'
    BY <1>1, <1>3, <2>2 DEF NewsInv, OneNewPerObject, StripeHeld, InStripe, Stripe, fs
  <2>7. QED
    BY <2>3, <2>4, <2>5, <2>6
<1>4. QED
  BY <1>2, <1>3 DEF Publish

\* Both ways of returning flush the shard directory first, so the object that
\* is remembered and handed over is durable.
LEMMA ReturnInv ==
    ASSUME IndInv, NEW w \in Worker, AdoptFlush(w) \/ FlushShard(w)
    PROVE  IndInv'
<1> USE DEF IndInv
<1>1. /\ UNCHANGED <<file, contentOn, shard, shardOn, batchRows, rows>>
      /\ entryOn' = entryOn \cup InShard(ShardOf[want[w]])
      /\ handed' = handed \cup {want[w]}
      /\ Remember(w, want[w]) /\ LeaveStripe(w)
  BY DEF AdoptFlush, FlushShard, FlushShardOf, Return
<1>2. want[w] \in Present /\ want[w] \in Hash
  BY DEF AdoptFlush, FlushShard, CallInv, Present
<1>3. Present' = Present /\ Durable \subseteq Durable'
  BY <1>1 DEF Present, Durable
<1>4. VisibleInv'
  BY <1>1, <1>3 DEF VisibleInv, InShard
<1>5. want[w] \in Durable'
  BY <1>1, <1>2 DEF VisibleInv, Durable, InShard, Present
<1>6. /\ known' \in [Worker -> SUBSET Hash]
      /\ \A v \in Worker : known'[v] \subseteq known[v] \cup {want[w]}
  <2> DEFINE kept == IF Cardinality(known[w]) >= MaxKnown /\ want[w] \notin known[w]
                     THEN {want[w]} ELSE known[w] \cup {want[w]}
  <2>1. known' = [known EXCEPT ![w] = kept]
    BY <1>1 DEF Remember
  <2>2. kept \subseteq known[w] \cup {want[w]}
    OBVIOUS
  <2> HIDE DEF kept
  <2>3. QED
    BY <1>2, <2>1, <2>2 DEF TypeOK
<1>7. /\ news' \in [Hash -> Nat]
      /\ OneNewPerObject'
      /\ \A h \in Hash : h # want[w] => news'[h] = news[h]
  <2>1. CASE AdoptFlush(w)
    BY <1>1, <2>1 DEF AdoptFlush, NewsInv, OneNewPerObject, TypeOK
  <2>2. CASE FlushShard(w)
    BY <1>1, <1>2, <2>2 DEF FlushShard, NewsInv, OneNewPerObject, TypeOK, Present
  <2>3. QED
    BY <2>1, <2>2
<1>8. TypeOK' /\ StripeHeld'
  BY <1>1, <1>2, <1>6, <1>7, LeaveInv DEF TypeOK, InShard, Present
<1>9. RowsSurvive' /\ ResultsSurvive' /\ (batchRows \subseteq Durable)'
  BY <1>1, <1>3, <1>5, <1>6 DEF RowsSurvive, ResultsSurvive
<1>10. \A v \in Worker : CallInv(v)'
  BY <1>1, <1>3, LeaveInv DEF CallInv
<1>11. NewsInv'
  <2>1. ASSUME NEW v \in Worker, pc'[v] = "flush_shard"
        PROVE  /\ news'[want'[v]] = 0
               /\ \A u \in Worker : pc'[u] = "flush_shard" /\ want'[u] = want'[v] => u = v
    <3>1. v # w /\ pc[v] = "flush_shard" /\ want' = want
      BY <1>1, <2>1, LeaveInv
    <3>2. \A u \in Worker : pc'[u] = "flush_shard" => pc[u] = "flush_shard"
      BY <1>1, LeaveInv
    <3>3. news'[want[v]] = 0
      <4>1. CASE AdoptFlush(w)
        BY <3>1, <4>1 DEF AdoptFlush, NewsInv
      <4>2. CASE FlushShard(w)
        <5>1. want[v] # want[w] /\ want[v] \in Hash
          BY <3>1, <4>2 DEF FlushShard, NewsInv, TypeOK
        <5>2. QED
          BY <1>7, <3>1, <5>1 DEF NewsInv
      <4>3. QED
        BY <4>1, <4>2
    <3>4. QED
      BY <3>1, <3>2, <3>3 DEF NewsInv
  <2>2. QED
    BY <1>7, <2>1 DEF NewsInv
<1>12. QED
  BY <1>4, <1>8, <1>9, <1>10, <1>11

\* A row is only written for an object handed over, hence durable.
LEMMA WriterInv ==
    ASSUME IndInv, CommitRows \/ \E h \in Hash : EnsureMetadata(h)
    PROVE  IndInv'
<1> USE DEF IndInv
<1>1. UNCHANGED <<fs, callVars, known, news, handed>>
  BY DEF CommitRows, EnsureMetadata
<1>2. /\ rows' \subseteq rows \cup batchRows
      /\ batchRows' \subseteq batchRows \cup handed
  BY DEF CommitRows, EnsureMetadata
<1>3. Durable' = Durable
  BY <1>1 DEF Durable, fs
<1>4. RowsSurvive' /\ ResultsSurvive' /\ (batchRows \subseteq Durable)'
  BY <1>1, <1>2, <1>3 DEF RowsSurvive, ResultsSurvive
<1>5. TypeOK' /\ VisibleInv'
  BY <1>1, <1>2 DEF TypeOK, VisibleInv, Present, fs, callVars
<1>6. (\A v \in Worker : CallInv(v)') /\ NewsInv' /\ StripeHeld'
  BY <1>1 DEF CallInv, NewsInv, OneNewPerObject, StripeHeld, InStripe, Stripe, Present, fs,
              callVars
<1>7. QED
  BY <1>4, <1>5, <1>6

\* What a new operation starts with, whatever became of the last one.
LEMMA ForgetInv ==
    ASSUME TypeOK, ForgetOperation
    PROVE  /\ mutex' \in [Sync \X Shard -> Worker \cup {None}]
           /\ \A w \in Worker : pc'[w] = "idle" /\ known'[w] = {}
           /\ pc' \in [Worker -> {"idle"}] /\ known' \in [Worker -> SUBSET Hash]
           /\ synced' = {} /\ handed' = {} /\ batchRows' = {}
           /\ UNCHANGED <<want, rows>>
           /\ (\A w \in Worker : CallInv(w)') /\ StripeHeld'
  BY DEF ForgetOperation, CallInv, StripeHeld, InStripe

LEMMA ProcessEndsInv ==
    ASSUME IndInv, ProcessEnds
    PROVE  IndInv'
<1> USE DEF IndInv
<1>1. ForgetOperation /\ UNCHANGED <<fs, news>>
  BY DEF ProcessEnds
<1>2. TypeOK'
  BY <1>1, ForgetInv DEF TypeOK, fs
<1>3. VisibleInv' /\ RowsSurvive' /\ ResultsSurvive' /\ (batchRows \subseteq Durable)'
  BY <1>1, ForgetInv DEF VisibleInv, RowsSurvive, ResultsSurvive, Durable, Present, fs
<1>4. NewsInv'
  BY <1>1, ForgetInv DEF NewsInv, OneNewPerObject, fs
<1>5. QED
  BY <1>1, <1>2, <1>3, <1>4, ForgetInv

\* The case the flushes are for: every visible object has its bytes on disk, so
\* none can be torn, and a durable one has its entry and shard on disk too.
LEMMA PowerLossInv ==
    ASSUME IndInv, PowerLoss
    PROVE  IndInv'
<1> USE DEF IndInv
<1>1. ForgetOperation
  BY DEF PowerLoss
<1>2. PICK keptShards \in SUBSET shard, keptFiles \in SUBSET Present :
        /\ shardOn \subseteq keptShards
        /\ \A h \in Present : /\ h \in keptFiles => ShardOf[h] \in keptShards
                              /\ h \in entryOn /\ ShardOf[h] \in keptShards => h \in keptFiles
        /\ \E damaged \in SUBSET (keptFiles \ contentOn) :
             file' = [h \in Hash |-> IF h \notin keptFiles THEN "absent"
                                     ELSE IF h \in damaged THEN "torn" ELSE file[h]]
        /\ contentOn' = keptFiles
        /\ entryOn' = keptFiles
        /\ shard' = keptShards
        /\ shardOn' = keptShards
        /\ news' = [h \in Hash |-> IF h \in keptFiles THEN news[h] ELSE 0]
  BY DEF PowerLoss
<1>3. keptFiles \ contentOn = {}
  BY DEF VisibleInv
<1>4. file' = [h \in Hash |-> IF h \notin keptFiles THEN "absent" ELSE file[h]]
  BY <1>2, <1>3
<1>5. \A h \in Hash : /\ h \in keptFiles => file'[h] = "whole"
                      /\ h \notin keptFiles => file'[h] = "absent"
  BY <1>4 DEF VisibleInv, Present
<1>6. Present' = keptFiles /\ keptFiles \subseteq Hash
  BY <1>5 DEF Present
<1>7. TypeOK'
  BY <1>1, <1>2, <1>4, <1>6, ForgetInv DEF TypeOK
<1>8. VisibleInv'
  BY <1>2, <1>5, <1>6 DEF VisibleInv
<1>9. Durable \subseteq Durable'
  BY <1>2, <1>5, <1>6 DEF Durable, Present
<1>10. RowsSurvive' /\ ResultsSurvive' /\ (batchRows \subseteq Durable)'
  BY <1>1, <1>9, ForgetInv DEF RowsSurvive, ResultsSurvive
<1>11. NewsInv'
  <2>1. ASSUME NEW h \in Hash
        PROVE  news'[h] <= IF file'[h] = "absent" THEN 0 ELSE 1
    <3>1. CASE h \in keptFiles
      BY <1>2, <1>5, <3>1 DEF NewsInv, OneNewPerObject, Present
    <3>2. CASE h \notin keptFiles
      BY <1>2, <3>2
    <3>3. QED
      BY <3>1, <3>2
  <2>2. QED
    BY <1>1, <2>1, ForgetInv DEF NewsInv, OneNewPerObject
<1>12. QED
  BY <1>1, <1>7, <1>8, <1>10, <1>11, ForgetInv

LEMMA StutterInv ==
    ASSUME IndInv, UNCHANGED vars
    PROVE  IndInv'
  BY DEF vars, fs, callVars, rowVars, IndInv, TypeOK, VisibleInv, Present, RowsSurvive,
         ResultsSurvive, Durable, CallInv, NewsInv, OneNewPerObject, StripeHeld, InStripe, Stripe

\* IndInv holds in every reachable state, for any number of workers, objects,
\* shards and mutex tables, and any cache size.
THEOREM InvariantHolds == Spec => []IndInv
<1>1. ASSUME IndInv, [Next]_vars PROVE IndInv'
  <2>1. CASE \E w \in Worker, h \in Hash : StoreKnown(w, h) \/ StoreUnknown(w, h)
    BY <1>1, <2>1, StoreInv
  <2>2. CASE \E w \in Worker : Step(w)
    BY <1>1, <2>2, LockInv, MoveInv, GrowInv, PublishInv, ReturnInv, ThrowInv DEF Step
  <2>3. CASE CommitRows \/ \E h \in Hash : EnsureMetadata(h)
    BY <1>1, <2>3, WriterInv
  <2>4. CASE ProcessEnds
    BY <1>1, <2>4, ProcessEndsInv
  <2>5. CASE PowerLoss
    BY <1>1, <2>5, PowerLossInv
  <2>6. CASE UNCHANGED vars
    BY <1>1, <2>6, StutterInv
  <2>7. QED
    BY <1>1, <2>1, <2>2, <2>3, <2>4, <2>5, <2>6 DEF Next
<1>2. QED
  BY <1>1, InitInv, PTL DEF Spec

\* A committed chunks row never names an object that a crash or a power loss can
\* take away or damage (store, find_existing_file, ensure_metadata).
THEOREM RowsAreDurable == Spec => []RowsSurvive
<1>1. IndInv => RowsSurvive
  BY DEF IndInv
<1>2. QED
  BY <1>1, InvariantHolds, PTL

\* Cached objects and returned results are durable, which is what allows a cache
\* hit and the writer to flush nothing (find_existing, ensure_metadata).
THEOREM ResultsAreDurable == Spec => []ResultsSurvive
<1>1. IndInv => ResultsSurvive
  BY DEF IndInv
<1>2. QED
  BY <1>1, InvariantHolds, PTL

\* No damaged file ever stands at a final path (the order write, sync, rename).
THEOREM ObjectsNeverTorn == Spec => []NeverTorn
<1>1. IndInv => NeverTorn
  BY DEF IndInv, NeverTorn, VisibleInv, Present
<1>2. QED
  BY <1>1, InvariantHolds, PTL

\* At most one store call reports an object as new, with or without a common
\* mutex table (the rename that replaces nothing).
THEOREM NewOnce == Spec => []OneNewPerObject
<1>1. IndInv => OneNewPerObject
  BY DEF IndInv, NewsInv
<1>2. QED
  BY <1>1, InvariantHolds, PTL
=============================================================================
