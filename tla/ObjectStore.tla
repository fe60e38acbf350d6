----------------------------- MODULE ObjectStore -----------------------------
(***************************************************************************)
(* ObjectStore: publication of content-addressed objects by the workers of *)
(* a snapshot, registration of their chunks rows by the metadata writer,   *)
(* and what a process crash or a power loss leaves of both.                *)
(*                                                                         *)
(* A file system object has a visible state, which every process sees at   *)
(* once, and a durable part: a file's bytes and each directory's entries   *)
(* reach the disk only by the flush of that file or directory. A step is   *)
(* one system call. Every worker owns an ObjectStore without metadata, as  *)
(* in SnapshotEngine; SyncOf says which of them share the mutex table.     *)
(***************************************************************************)
EXTENDS Naturals, FiniteSets

CONSTANTS
    Worker,      \* threads calling store()
    Hash,        \* chunk contents, named by their BLAKE3 identifier
    Shard,       \* objects/xx directories; also the mutex stripe
    ShardOf,     \* first byte of a hash
    Sync,        \* ObjectStoreSynchronization instances
    SyncOf,      \* the instance a worker's store uses
    MaxKnown,    \* maximum_known_objects
    None         \* a free mutex

ASSUME ShardAssumption == ShardOf \in [Hash -> Shard]
ASSUME SyncAssumption == SyncOf \in [Worker -> Sync]
ASSUME KnownAssumption == MaxKnown \in Nat \ {0}
ASSUME FreeAssumption == None \notin Worker

VARIABLES
    file,        \* what the final path of each object shows
    contentOn,   \* objects whose bytes are on disk
    entryOn,     \* objects whose directory entry is on disk
    shard,       \* shard directories that exist
    shardOn,     \* shard directories whose entry in objects/ is on disk
    mutex,       \* object_mutexes of each synchronization instance
    pc, want,    \* where each worker's store() call is, and for which object
    synced,      \* workers whose temporary file has been flushed
    known,       \* known_objects_ of each worker's store
    news,        \* newly_stored results for the object now at the path (history)
    handed,      \* results on their way to the metadata writer
    batchRows,   \* chunks rows in the writer's open transaction
    rows         \* committed chunks rows

fs == <<file, contentOn, entryOn, shard, shardOn>>
callVars == <<mutex, pc, want, synced>>
rowVars == <<handed, batchRows, rows>>
vars == <<fs, callVars, known, news, rowVars>>

Stripe(w) == <<SyncOf[w], ShardOf[want[w]]>>
Present == {h \in Hash : file[h] # "absent"}
InShard(d) == {h \in Present : ShardOf[h] = d}

\* An object no power loss can take away or damage.
Durable == {h \in Hash : /\ file[h] = "whole"
                         /\ h \in contentOn
                         /\ h \in entryOn
                         /\ ShardOf[h] \in shardOn}

Init ==
    /\ file = [h \in Hash |-> "absent"]
    /\ contentOn = {} /\ entryOn = {}
    /\ shard = {} /\ shardOn = {}
    /\ mutex = [m \in Sync \X Shard |-> None]
    /\ pc = [w \in Worker |-> "idle"]
    /\ want \in [Worker -> Hash]
    /\ synced = {}
    /\ known = [w \in Worker |-> {}]
    /\ news = [h \in Hash |-> 0]
    /\ handed = {} /\ batchRows = {} /\ rows = {}

Goto(w, label) == pc' = [pc EXCEPT ![w] = label]

-----------------------------------------------------------------------------
(* store: before the stripe *)

\* find_existing: a cached object only has its file size checked again.
StoreKnown(w, h) ==
    /\ pc[w] = "idle"
    /\ h \in known[w]
    /\ file[h] = "whole"
    /\ handed' = handed \cup {h}
    /\ UNCHANGED <<fs, callVars, known, news, batchRows, rows>>

StoreUnknown(w, h) ==
    /\ pc[w] = "idle"
    /\ h \notin known[w]
    /\ want' = [want EXCEPT ![w] = h]
    /\ Goto(w, "compressed")
    /\ UNCHANGED <<fs, mutex, synced, known, news, rowVars>>

LockStripe(w) ==
    /\ pc[w] = "compressed"
    /\ mutex[Stripe(w)] = None
    /\ mutex' = [mutex EXCEPT ![Stripe(w)] = w]
    /\ Goto(w, "recheck")
    /\ UNCHANGED <<fs, want, synced, known, news, rowVars>>

\* remember: a full cache is emptied first.
Remember(w, h) ==
    known' = [known EXCEPT ![w] =
                 IF Cardinality(@) >= MaxKnown /\ h \notin @ THEN {h} ELSE @ \cup {h}]

\* The lock_guard and the TemporaryOutputFile go out of scope.
LeaveStripe(w) ==
    /\ mutex' = [mutex EXCEPT ![Stripe(w)] = IF @ = w THEN None ELSE @]
    /\ synced' = synced \ {w}
    /\ Goto(w, "idle")
    /\ UNCHANGED want

Return(w) ==
    /\ Remember(w, want[w])
    /\ handed' = handed \cup {want[w]}
    /\ LeaveStripe(w)
    /\ UNCHANGED <<batchRows, rows>>

-----------------------------------------------------------------------------
(* find_existing_file: an object already at the final path is adopted *)

\* Only the bytes of the existing file are verified here (read_verified); a
\* damaged one is an error.
FoundExisting(w) ==
    /\ file[want[w]] = "whole"
    /\ Goto(w, "adopt_sync")

Recheck(w) ==
    /\ pc[w] = "recheck"
    /\ \/ FoundExisting(w)
       \/ file[want[w]] = "absent" /\ Goto(w, "make_shard")
    /\ UNCHANGED <<fs, mutex, want, synced, known, news, rowVars>>

\* sync_existing_regular_file
AdoptSync(w) ==
    /\ pc[w] = "adopt_sync"
    /\ contentOn' = contentOn \cup {want[w]}
    /\ Goto(w, "adopt_flush")
    /\ UNCHANGED <<file, entryOn, shard, shardOn, mutex, want, synced, known, news, rowVars>>

\* flush_containing_directory(final_path) writes out every entry of the shard.
FlushShardOf(w) == entryOn' = entryOn \cup InShard(ShardOf[want[w]])

\* Mutant: an adopted object is taken to be on disk already.
AdoptUnflushed(w) ==
    /\ pc[w] = "adopt_flush"
    /\ Return(w)
    /\ UNCHANGED <<fs, news>>

AdoptFlush(w) ==
    /\ pc[w] = "adopt_flush"
    /\ FlushShardOf(w)
    /\ Return(w)
    /\ UNCHANGED <<file, contentOn, shard, shardOn, news>>

-----------------------------------------------------------------------------
(* publication of a new object *)

\* Mutant: objects/ is flushed only by the attempt that created the shard.
EnsureShardOnce(w) ==
    /\ pc[w] = "make_shard"
    /\ shard' = shard \cup {ShardOf[want[w]]}
    /\ Goto(w, IF ShardOf[want[w]] \in shard THEN "write" ELSE "flush_objects")
    /\ UNCHANGED <<file, contentOn, entryOn, shardOn, mutex, want, synced, known, news, rowVars>>

EnsureShard(w) ==
    /\ pc[w] = "make_shard"
    /\ shard' = shard \cup {ShardOf[want[w]]}
    /\ Goto(w, "flush_objects")
    /\ UNCHANGED <<file, contentOn, entryOn, shardOn, mutex, want, synced, known, news, rowVars>>

\* flush_containing_directory(shard): also when the shard existed before.
FlushObjects(w) ==
    /\ pc[w] = "flush_objects"
    /\ shardOn' = shardOn \cup shard
    /\ Goto(w, "write")
    /\ UNCHANGED <<file, contentOn, entryOn, shard, mutex, want, synced, known, news, rowVars>>

WriteTemporary(w) ==
    /\ pc[w] = "write"
    /\ Goto(w, "sync")
    /\ UNCHANGED <<fs, mutex, want, synced, known, news, rowVars>>

SyncTemporary(w) ==
    /\ pc[w] = "sync"
    /\ synced' = synced \cup {w}
    /\ Goto(w, "publish")
    /\ UNCHANGED <<fs, mutex, want, known, news, rowVars>>

\* The temporary file becomes the object, with its bytes as durable as they are.
Rename(w) ==
    /\ file' = [file EXCEPT ![want[w]] = "whole"]
    /\ contentOn' = IF w \in synced THEN contentOn \cup {want[w]}
                                    ELSE contentOn \ {want[w]}
    /\ entryOn' = entryOn \ {want[w]}
    /\ Goto(w, "flush_shard")
    /\ UNCHANGED <<shard, shardOn>>

\* Mutant: publish replaces an object that appeared in the meantime.
PublishReplacing(w) ==
    /\ pc[w] = "publish"
    /\ Rename(w)
    /\ UNCHANGED <<mutex, want, synced, known, news, rowVars>>

\* TemporaryOutputFile::publish(final_path, false): rename without replacing.
\* Stores that do not share a mutex table can meet here.
Publish(w) ==
    /\ pc[w] = "publish"
    /\ \/ file[want[w]] = "absent" /\ Rename(w)
       \/ FoundExisting(w) /\ UNCHANGED fs
    /\ UNCHANGED <<mutex, want, synced, known, news, rowVars>>

FlushShard(w) ==
    /\ pc[w] = "flush_shard"
    /\ FlushShardOf(w)
    /\ news' = [news EXCEPT ![want[w]] = @ + 1]
    /\ Return(w)
    /\ UNCHANGED <<file, contentOn, shard, shardOn>>

\* Any exception (cancellation, injected failure, I/O error, damaged object)
\* leaves the call; what is visible on disk stays.
Throw(w) ==
    /\ pc[w] # "idle"
    /\ LeaveStripe(w)
    /\ UNCHANGED <<fs, known, news, rowVars>>

-----------------------------------------------------------------------------
(* the metadata writer *)

\* Mutant: the row is written for an object a worker is still storing.
EnsureMetadataEarly(h) ==
    /\ file[h] = "whole"
    /\ batchRows' = batchRows \cup {h}
    /\ UNCHANGED <<fs, callVars, known, news, handed, rows>>

\* ensure_metadata: the file is looked at again, then ensure_chunk.
EnsureMetadata(h) ==
    /\ h \in handed
    /\ file[h] = "whole"
    /\ batchRows' = batchRows \cup {h}
    /\ UNCHANGED <<fs, callVars, known, news, handed, rows>>

\* COMMIT under PRAGMA synchronous = FULL: durable when it returns.
CommitRows ==
    /\ rows' = rows \cup batchRows
    /\ batchRows' = {}
    /\ UNCHANGED <<fs, callVars, known, news, handed>>

-----------------------------------------------------------------------------
(* the end of an operation, expected or not *)

ForgetOperation ==
    /\ mutex' = [m \in Sync \X Shard |-> None]
    /\ pc' = [w \in Worker |-> "idle"]
    /\ synced' = {}
    /\ known' = [w \in Worker |-> {}]
    /\ handed' = {}
    /\ batchRows' = {}
    /\ UNCHANGED <<want, rows>>

\* The process dies, or the operation returns and a later one starts over.
ProcessEnds ==
    /\ ForgetOperation
    /\ UNCHANGED <<fs, news>>

\* Unflushed entries and bytes may or may not have reached the disk.
PowerLoss ==
    /\ \E keptShards \in SUBSET shard, keptFiles \in SUBSET Present :
         /\ shardOn \subseteq keptShards
         /\ \A h \in Present : /\ h \in keptFiles => ShardOf[h] \in keptShards
                               /\ h \in entryOn /\ ShardOf[h] \in keptShards => h \in keptFiles
         /\ \E damaged \in SUBSET (keptFiles \ contentOn) :
              file' = [h \in Hash |-> IF h \notin keptFiles THEN "absent"
                                      ELSE IF h \in damaged THEN "torn" ELSE file[h]]
         /\ contentOn' = keptFiles
         /\ entryOn' = keptFiles
         /\ shard' = keptShards
         /\ shardOn' = keptShards
         /\ news' = [h \in Hash |-> IF h \in keptFiles THEN news[h] ELSE 0]
    /\ ForgetOperation

Step(w) ==
    \/ LockStripe(w) \/ Recheck(w) \/ AdoptSync(w) \/ AdoptFlush(w)
    \/ EnsureShard(w) \/ FlushObjects(w) \/ WriteTemporary(w) \/ SyncTemporary(w)
    \/ Publish(w) \/ FlushShard(w) \/ Throw(w)

Next ==
    \/ \E w \in Worker, h \in Hash : StoreKnown(w, h) \/ StoreUnknown(w, h)
    \/ \E w \in Worker : Step(w)
    \/ \E h \in Hash : EnsureMetadata(h)
    \/ CommitRows \/ ProcessEnds \/ PowerLoss

Spec == Init /\ [][Next]_vars

-----------------------------------------------------------------------------
TypeOK ==
    /\ file \in [Hash -> {"absent", "whole", "torn"}]
    /\ contentOn \in SUBSET Hash /\ entryOn \in SUBSET Hash
    /\ shard \in SUBSET Shard /\ shardOn \in SUBSET Shard
    /\ mutex \in [Sync \X Shard -> Worker \cup {None}]
    /\ pc \in [Worker -> {"idle", "compressed", "recheck", "adopt_sync", "adopt_flush",
                          "make_shard", "flush_objects", "write", "sync", "publish",
                          "flush_shard"}]
    /\ want \in [Worker -> Hash]
    /\ synced \in SUBSET Worker
    /\ known \in [Worker -> SUBSET Hash]
    /\ news \in [Hash -> Nat]
    /\ handed \in SUBSET Hash /\ batchRows \in SUBSET Hash /\ rows \in SUBSET Hash

\* Every committed chunks row names an object that survives any crash or power
\* loss undamaged, however many earlier attempts at it failed half way
\* (store, find_existing_file, ensure_metadata).
RowsSurvive == rows \subseteq Durable

\* What lets cache hits and the writer skip the flushes: everything a store
\* remembers or has returned is durable already.
ResultsSurvive ==
    /\ handed \subseteq Durable
    /\ \A w \in Worker : known[w] \subseteq Durable

\* No power loss leaves a damaged file at a final path, where it would make
\* every later snapshot of that chunk fail (fsync before the rename).
NeverTorn == \A h \in Hash : file[h] # "torn"

\* However many workers race for the same new content, with or without a
\* common mutex table, at most one result says newly_stored.
OneNewPerObject ==
    \A h \in Hash : news[h] <= IF file[h] = "absent" THEN 0 ELSE 1

\* A worker inside the stripe holds its mutex, so that no other worker of the
\* same table works on the same shard.
InStripe(w) == pc[w] \notin {"idle", "compressed"}
StripeHeld == \A w \in Worker : InStripe(w) => mutex[Stripe(w)] = w

-----------------------------------------------------------------------------
(* The inductive invariant behind the properties above. *)

\* A visible object has whole, durable bytes in a durable shard: its entry is
\* the only thing that can still be missing on disk.
VisibleInv ==
    /\ \A h \in Present : file[h] = "whole" /\ h \in contentOn /\ ShardOf[h] \in shardOn
    /\ entryOn \subseteq Present
    /\ shardOn \subseteq shard

CallInv(w) ==
    /\ pc[w] \in {"write", "sync", "publish"} => ShardOf[want[w]] \in shardOn
    /\ pc[w] = "publish" => w \in synced
    /\ pc[w] \in {"adopt_sync", "adopt_flush", "flush_shard"} => want[w] \in Present
    /\ pc[w] = "flush_objects" => ShardOf[want[w]] \in shard

\* The worker between its rename and its return is the only one that will
\* report its object as new.
NewsInv ==
    /\ OneNewPerObject
    /\ \A w \in Worker : pc[w] = "flush_shard" =>
         /\ news[want[w]] = 0
         /\ \A v \in Worker : pc[v] = "flush_shard" /\ want[v] = want[w] => v = w

IndInv ==
    /\ TypeOK
    /\ VisibleInv
    /\ RowsSurvive
    /\ ResultsSurvive
    /\ batchRows \subseteq Durable
    /\ \A w \in Worker : CallInv(w)
    /\ NewsInv
    /\ StripeHeld
=============================================================================
