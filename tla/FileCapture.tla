----------------------------- MODULE FileCapture -----------------------------
(***************************************************************************)
(* A worker captures one regular file: metadata, the file read in chunks,  *)
(* metadata again, and a second attempt if the two differ, while the user  *)
(* goes on writing to the file, replaces it or takes it away.              *)
(*                                                                         *)
(* A file is a sequence of blocks, each named after the change that wrote  *)
(* it; reading is not atomic beyond a block. The file is always reached by *)
(* name, and only the metadata call does not follow links.                 *)
(***************************************************************************)
EXTENDS Integers, Sequences, SequencesExt, FiniteSets

CONSTANTS
    Regular, Link,   \* inodes: regular files and symbolic links
    MaxBlocks,       \* bound: blocks in a file
    ChunkBlocks,     \* chunk size of the repository
    ClockSteps,      \* by how much the clock of the filesystem moves from one
                     \* change to the next: 0 if it may be too coarse
    Swaps,           \* whether a directory above the file may be exchanged
    MaxChanges,      \* bound: changes by the user
    NoFile

Inode == Regular \cup Link

ASSUME InodeAssumption == Regular \cap Link = {} /\ NoFile \notin Inode /\ Regular # {}
ASSUME BlockAssumption == MaxBlocks \in Nat /\ ChunkBlocks \in Nat \ {0} /\ MaxChanges \in Nat
ASSUME ClockAssumption == ClockSteps \subseteq {0, 1} /\ Swaps \in BOOLEAN

VARIABLES
    inode,     \* inode -> its blocks (of a link: its text), mtime and ctime
    target,    \* link -> the file it leads to
    name,      \* the inode at the entry's path
    clock,     \* time of the last change
    changes,   \* changes so far
    retry,     \* retry_unstable_files
    stop,      \* a stop has been requested
    objects,   \* chunks in the object store
    worker,    \* local state of the worker
    output,    \* the ProcessedEntry, or that of a failure of the pipeline
    history    \* versions each inode has had; whether a directory was exchanged; errors

user == <<inode, target, name, clock, changes>>
vars == <<user, retry, stop, objects, worker, output, history>>

Metadata(i) == [id |-> i, size |-> Len(inode[i].blocks), mtime |-> inode[i].mtime,
                ctime |-> inode[i].ctime]
NoMetadata == [id |-> NoFile, size |-> 0, mtime |-> 0, ctime |-> 0]

\* Mutant: the second attempt writes its rows after those of the first.
AttemptKeepsRows(n) == [pc |-> "before", attempt |-> n, before |-> NoMetadata, fd |-> NoFile,
                        buffer |-> <<>>, eof |-> FALSE, offset |-> 0, bytesRead |-> 0,
                        sequence |-> 0, hashed |-> <<>>,
                        refs |-> IF n = 0 THEN <<>> ELSE worker.refs, fresh |-> 0]

\* The variables of an attempt, as they are declared in the loop.
Attempt(n) == [pc |-> "before", attempt |-> n, before |-> NoMetadata, fd |-> NoFile,
               buffer |-> <<>>, eof |-> FALSE, offset |-> 0, bytesRead |-> 0,
               sequence |-> 0, hashed |-> <<>>, refs |-> <<>>, fresh |-> 0]

Nothing == [kind |-> "none"]

Init ==
    /\ \E n \in 0..MaxBlocks :
         inode = [i \in Inode |-> [blocks |-> [b \in 1..n |-> <<i, 0>>], mtime |-> 0, ctime |-> 0]]
    /\ target \in [Link -> Regular]
    /\ name \in Regular
    /\ clock = 0 /\ changes = 0
    /\ retry \in BOOLEAN
    /\ stop = FALSE
    /\ objects = {}
    /\ worker = Attempt(0)
    /\ output = Nothing
    /\ history = [versions |-> {[id |-> i, blocks |-> inode[i].blocks, mtime |-> 0] : i \in Inode},
                  swapped |-> FALSE, sourceErrors |-> 0, repositoryError |-> FALSE]

-----------------------------------------------------------------------------
(* The user *)

Running == output = Nothing

\* A change of one inode, and of the name.
Change(i, blocks, mtime, at) ==
    /\ Running /\ changes < MaxChanges
    /\ changes' = changes + 1
    /\ inode' = [inode EXCEPT ![i] = [blocks |-> blocks, mtime |-> mtime, ctime |-> clock']]
    /\ name' = at
    /\ history' = [history EXCEPT !.versions =
                   @ \cup {[id |-> i, blocks |-> blocks, mtime |-> mtime]}]
    /\ UNCHANGED <<target, retry, stop, objects, worker, output>>

Ticks == \E step \in ClockSteps : clock' = clock + step

\* write, append or truncate, in place
Write(i) ==
    /\ Ticks
    /\ LET old == inode[i].blocks
           new == <<i, changes + 1>>
       IN \E blocks \in {[old EXCEPT ![b] = new] : b \in DOMAIN old}
                          \cup {Append(old, new)}
                          \cup (IF old = <<>> THEN {} ELSE {Front(old)}) :
            /\ Len(blocks) <= MaxBlocks
            /\ Change(i, blocks, clock', name)

\* utimensat, which sets the modification time to anything it has been
SetTime(i) ==
    /\ Ticks
    /\ \E v \in history.versions : v.id = i /\ Change(i, inode[i].blocks, v.mtime, name)

\* rename onto the name, from it, or removal
Rename(i) ==
    /\ Ticks
    /\ \/ i # name /\ Change(i, inode[i].blocks, inode[i].mtime, i)
       \/ i = name /\ Change(i, inode[i].blocks, inode[i].mtime, NoFile)

\* A directory above is exchanged: no inode at the path changes.
SwapParent ==
    /\ Running /\ Swaps /\ changes < MaxChanges
    /\ changes' = changes + 1
    /\ \E i \in Inode \ {name} : name' = i
    /\ history' = [history EXCEPT !.swapped = TRUE]
    /\ UNCHANGED <<inode, target, clock, retry, stop, objects, worker, output>>

RequestStop ==
    /\ Running /\ ~stop
    /\ stop' = TRUE
    /\ UNCHANGED <<user, retry, objects, worker, output, history>>

UserStep ==
    \/ (\E i \in Regular : Write(i))
    \/ (\E i \in Inode : SetTime(i) \/ Rename(i))
    \/ SwapParent \/ RequestStop

-----------------------------------------------------------------------------
(* The worker *)

WorkerFrame == UNCHANGED <<user, retry, stop>>
At(label) == Running /\ worker.pc = label
Goes(changed) == worker' = changed /\ UNCHANGED <<output, history>>

\* The pipeline fails: shutdown() with this error.
Fatal(error) ==
    /\ output' = [kind |-> "fatal", error |-> error]
    /\ history' = [history EXCEPT !.repositoryError = (error = "repository")]
    /\ UNCHANGED worker

\* catch (LocalVaultError) for an error of the source: another attempt, or a warning.
Fails(code) ==
    IF retry /\ worker.attempt = 0
      THEN worker' = Attempt(1) /\ UNCHANGED output
      ELSE output' = [kind |-> "warning", code |-> code] /\ UNCHANGED worker

\* The source is gone or was seen to change.
SourceChanged(code) == Fails(code) /\ UNCHANGED history

\* A call on the source fails: no permission, an I/O error.
SourceError ==
    /\ Fails("source_unavailable")
    /\ history' = [history EXCEPT !.sourceErrors = @ + 1]

\* The spool of an attempt is opened before anything is caught.
SpoolFails ==
    /\ At("before")
    /\ Fatal("repository")
    /\ UNCHANGED objects
    /\ WorkerFrame

\* check_cancelled, and the lstat before.
LookBefore ==
    /\ At("before")
    /\ IF stop THEN Fatal("cancelled")
       ELSE IF name = NoFile THEN SourceChanged("source_unavailable")
       ELSE \/ Goes([worker EXCEPT !.pc = "open", !.before = Metadata(name)])
            \/ SourceError
    /\ UNCHANGED objects
    /\ WorkerFrame

\* std::ifstream follows a link.
Resolve(i) == IF i \in Link THEN target[i] ELSE i

OpenSource ==
    /\ At("open")
    /\ IF stop THEN Fatal("cancelled")
       ELSE \/ name # NoFile /\ Goes([worker EXCEPT !.pc = "read", !.fd = Resolve(name)])
            \/ name = NoFile /\ SourceChanged("source_unavailable")
            \/ SourceError
    /\ UNCHANGED objects
    /\ WorkerFrame

\* input.read goes on until the buffer is full or the file gives nothing more.
ReadBlock ==
    /\ At("read")
    /\ stop => worker.buffer # <<>>
    /\ LET blocks == inode[worker.fd].blocks
           position == worker.offset + Len(worker.buffer) + 1
           filled == IF position <= Len(blocks) THEN Append(worker.buffer, blocks[position])
                     ELSE worker.buffer
           eof == position > Len(blocks)
       IN \/ Goes([worker EXCEPT !.buffer = filled, !.eof = eof,
                     !.pc = IF eof /\ filled = <<>> THEN "after"
                            ELSE IF eof \/ Len(filled) = ChunkBlocks THEN "chunk" ELSE "read"])
          \/ SourceError
    /\ UNCHANGED objects
    /\ WorkerFrame

\* for_each_chunk looks at the stop token before it fills the buffer.
ReadCancelled ==
    /\ At("read") /\ stop /\ worker.buffer = <<>>
    /\ Fatal("cancelled")
    /\ UNCHANGED objects
    /\ WorkerFrame

\* The callback: hash, store, append to the spool. An error in it is not one of
\* the source, whatever its code.
StoreChunk ==
    /\ At("chunk") /\ ~stop
    /\ objects' = objects \cup {worker.buffer}
    /\ Goes([worker EXCEPT
         !.hashed = @ \o worker.buffer,
         !.bytesRead = @ + Len(worker.buffer),
         !.refs = Append(@, [sequence |-> worker.sequence, offset |-> worker.offset,
                             chunk |-> worker.buffer]),
         !.fresh = IF worker.buffer \in objects THEN @ ELSE @ + 1,
         !.sequence = @ + 1,
         !.offset = @ + Len(worker.buffer),
         !.buffer = <<>>,
         !.pc = IF worker.eof THEN "after" ELSE "read"])
    /\ WorkerFrame

\* A full disk, a damaged object; or a stop seen in the callback.
StoreFails ==
    /\ At("chunk")
    /\ Fatal(IF stop THEN "cancelled" ELSE "repository")
    /\ UNCHANGED objects
    /\ WorkerFrame

\* Mutant: the change time is not compared.
SameWithoutChangeTime(before, after) ==
    before.size = after.size /\ before.mtime = after.mtime /\ before.id = after.id

\* same_stable_identity
SameStableIdentity(before, after) ==
    /\ before.size = after.size
    /\ before.mtime = after.mtime
    /\ before.ctime = after.ctime
    /\ before.id = after.id

\* The entry takes over what was read in this attempt.
Captured ==
    [kind |-> "entry", size |-> worker.before.size, mtime |-> worker.before.mtime,
     hash |-> worker.hashed, refs |-> worker.refs, count |-> worker.sequence,
     fresh |-> worker.fresh, looked |-> worker.before.id, read |-> worker.fd]

\* Mutant: the number of bytes is not compared.
LookAfterUncounted ==
    /\ At("after")
    /\ IF name = NoFile THEN SourceChanged("source_unavailable")
       ELSE IF ~SameStableIdentity(worker.before, Metadata(name)) THEN SourceChanged("source_changed")
       ELSE output' = Captured /\ UNCHANGED <<worker, history>>
    /\ UNCHANGED objects
    /\ WorkerFrame

\* The lstat after.
LookAfter ==
    /\ At("after")
    /\ IF name = NoFile THEN SourceChanged("source_unavailable")
       ELSE IF \/ worker.bytesRead # worker.before.size
               \/ ~SameStableIdentity(worker.before, Metadata(name))
            THEN SourceChanged("source_changed") \/ SourceError
       ELSE \/ output' = Captured /\ UNCHANGED <<worker, history>>
            \/ SourceError
    /\ UNCHANGED objects
    /\ WorkerFrame

WorkerStep ==
    \/ SpoolFails \/ LookBefore \/ OpenSource \/ ReadBlock \/ ReadCancelled
    \/ StoreChunk \/ StoreFails \/ LookAfter

Next == WorkerStep \/ UserStep

Spec == Init /\ [][Next]_vars

-----------------------------------------------------------------------------
(* The rows the metadata writer makes of it, and what a restore accepts *)

\* The records of the spool, as many as chunk_count says.
Rows == SubSeq(output.refs, 1, output.count)

\* Where row n ends; expected_offset once the rows up to it are accepted.
EndOf(rows, n) == IF n = 0 THEN 0 ELSE rows[n].offset + Len(rows[n].chunk)

\* validate_chunks: each row has the number and the offset expected after the one
\* before it.
ValidateChunks(rows, size) ==
    /\ \A n \in DOMAIN rows :
         /\ rows[n].sequence = n - 1
         /\ rows[n].offset = EndOf(rows, n - 1)
         /\ rows[n].chunk # <<>>
         /\ Len(rows[n].chunk) <= ChunkBlocks
    /\ EndOf(rows, Len(rows)) = size
    /\ (size = 0) <=> (rows = <<>>)

\* Chunks written one after another, each from where the last one ended, give
\* the contents, and nothing is left over.
Give(rows, contents) ==
    /\ EndOf(rows, Len(rows)) = Len(contents)
    /\ \A n \in DOMAIN rows : rows[n].offset = EndOf(rows, n - 1)
    /\ \A n \in DOMAIN rows : \A k \in DOMAIN rows[n].chunk :
         contents[rows[n].offset + k] = rows[n].chunk[k]

-----------------------------------------------------------------------------
(* Properties *)

Stored == output.kind = "entry"

Block == Inode \X Nat
FileMetadata == [id : Inode \cup {NoFile}, size : Nat, mtime : Nat, ctime : Nat]
Attempts == [pc : {"before", "open", "read", "chunk", "after"}, attempt : {0, 1},
             before : FileMetadata, fd : Inode \cup {NoFile}, buffer : Seq(Block),
             eof : BOOLEAN, offset : Nat, bytesRead : Nat, sequence : Nat,
             hashed : Seq(Block), fresh : Nat,
             refs : Seq([sequence : Nat, offset : Nat, chunk : Seq(Block)])]

\* Every variable keeps its type.
TypeOK ==
    /\ inode \in [Inode -> [blocks : Seq(Block), mtime : Nat, ctime : Nat]]
    /\ \A i \in Inode : Len(inode[i].blocks) <= MaxBlocks
    /\ target \in [Link -> Regular]
    /\ name \in Inode \cup {NoFile}
    /\ changes \in 0..MaxChanges /\ clock \in 0..MaxChanges
    /\ retry \in BOOLEAN /\ stop \in BOOLEAN
    /\ objects \subseteq Seq(Block)
    /\ worker \in Attempts
    /\ worker.attempt = 1 => retry
    /\ worker.pc \in {"read", "chunk", "after"} => worker.fd \in Regular
    /\ worker.offset = Len(worker.hashed) /\ worker.bytesRead = Len(worker.hashed)
    /\ output.kind \in {"none", "entry", "warning", "fatal"}
    /\ history \in [versions : SUBSET [id : Inode, blocks : Seq(Block), mtime : Nat],
                    swapped : BOOLEAN, sourceErrors : Nat, repositoryError : BOOLEAN]

\* No mixture of versions is stored: what is kept for the file is what it held
\* at one moment, with the size and the modification time it had then.
OneVersionStored ==
    Stored => \E v \in history.versions :
        /\ v.id = output.looked
        /\ Give(Rows, v.blocks)
        /\ v.mtime = output.mtime
        /\ Len(v.blocks) = output.size

\* The same where the clock tells changes apart, however the user writes,
\* touches or renames around the steps of the capture, provided the file that
\* was looked at is the one that was read (the comparison before and after).
StableReadIsOneVersion == Stored /\ output.looked = output.read => OneVersionStored

\* Another file than the one looked at is read only through a link, or when a
\* directory above was exchanged, and then its length is that of the one looked
\* at (bytes_read, same_stable_identity).
OtherFileOnlyByDetour ==
    Stored /\ output.looked # output.read =>
        /\ output.looked \in Link \/ history.swapped
        /\ EndOf(Rows, Len(Rows)) = output.size

\* What a snapshot records of a file is what a restore accepts: the rows pass
\* its validation and give the contents that were hashed, and they alone,
\* although an earlier attempt may have stored chunks of its own
\* (the variables of an attempt, validate_chunks).
CapturedIsRestorable ==
    Stored =>
        /\ ValidateChunks(Rows, output.size)
        /\ Give(Rows, output.hash)
        /\ \A n \in DOMAIN Rows : Rows[n].chunk \in objects

\* An error of the repository is never passed off as one of the source, which
\* would leave the file out of a snapshot that calls itself complete, and no
\* second attempt hides it (callback_error).
RepositoryErrorIsFatal == history.repositoryError => output.kind = "fatal"

\* One change, or one failed call, costs nobody a file: with the retry on, a file
\* that is still there is left out only after two of them (attempt_count).
RetryAbsorbsOneChange ==
    output.kind = "warning" /\ retry /\ name \in Regular /\ ~history.swapped =>
        changes + history.sourceErrors >= 2

\* Whatever the user does, a capture keeps its books and gives up a file only for
\* a reason in the source.
CaptureInv ==
    TypeOK /\ OtherFileOnlyByDetour /\ RepositoryErrorIsFatal /\ RetryAbsorbsOneChange

-----------------------------------------------------------------------------
(* Why they hold *)

\* The rows of an attempt follow one another and give what was
\* hashed; a buffer that is handed on has something in it.
RowsInv ==
    /\ worker.pc \in {"before", "open"} => worker.hashed = <<>> /\ worker.buffer = <<>>
    /\ worker.pc = "read" => Len(worker.buffer) < ChunkBlocks
    /\ worker.pc = "chunk" => worker.buffer # <<>> /\ Len(worker.buffer) <= ChunkBlocks
    /\ worker.pc = "after" => worker.buffer = <<>>
    /\ worker.eof => worker.pc \in {"chunk", "after"}
    /\ worker.sequence = Len(worker.refs)
    /\ ValidateChunks(worker.refs, Len(worker.hashed))
    /\ Give(worker.refs, worker.hashed)
    /\ \A n \in DOMAIN worker.refs : /\ EndOf(worker.refs, n) <= Len(worker.hashed)
                                     /\ worker.refs[n].chunk \in objects

\* What was read so far is how these blocks begin, and all of them at the end.
Begins(hashed, buffer, blocks) ==
    /\ Len(hashed) + Len(buffer) <= Len(blocks)
    /\ \A k \in 1..Len(hashed) : hashed[k] = blocks[k]
    /\ \A k \in 1..Len(buffer) : buffer[k] = blocks[Len(hashed) + k]
ReadFrom(attempt, blocks) ==
    /\ Begins(attempt.hashed, attempt.buffer, blocks)
    /\ attempt.eof \/ attempt.pc = "after" =>
         Len(attempt.hashed) + Len(attempt.buffer) = Len(blocks)

VersionInv ==
    \A i \in Inode :
        [id |-> i, blocks |-> inode[i].blocks, mtime |-> inode[i].mtime] \in history.versions

\* An attempt fails for a reason of its own: nothing that happened so far is left
\* to disturb the attempt under way.
Undisturbed ==
    /\ worker.pc # "before" => worker.before = Metadata(name)
    /\ worker.pc \in {"read", "chunk", "after"} =>
         worker.fd = name /\ ReadFrom(worker, inode[name].blocks)
RetryInv ==
    /\ changes = 0 => name \in Regular
    /\ worker.attempt <= changes + history.sourceErrors \/ ~Running
    /\ Running /\ changes + history.sourceErrors <= worker.attempt /\ name \in Regular =>
         Undisturbed

\* When a file has been captured nothing moves any more.
EndInv ==
    Stored => /\ output = Captured /\ worker.pc = "after" /\ name # NoFile
              /\ worker.bytesRead = worker.before.size
              /\ SameStableIdentity(worker.before, Metadata(name))

\* Where the clock tells changes apart, a file whose change time is the one seen
\* before has not changed since, and has not left its name and come back.
Looked == worker.before.id
Unchanged == inode[Looked].ctime = worker.before.ctime
ClockInv ==
    /\ clock <= changes
    /\ \A i \in Inode : inode[i].ctime <= clock
SameInv ==
    worker.pc # "before" =>
        /\ Looked \in Inode
        /\ worker.before.ctime <= inode[Looked].ctime
        /\ Unchanged =>
             /\ worker.before.mtime = inode[Looked].mtime
             /\ worker.before.size = Len(inode[Looked].blocks)
             /\ worker.pc # "open" /\ worker.fd = Looked => ReadFrom(worker, inode[Looked].blocks)
             /\ worker.pc # "open" /\ Looked \in Regular /\ ~history.swapped /\ name = Looked =>
                  worker.fd = Looked

BaseInv ==
    /\ TypeOK /\ ClockInv /\ RowsInv /\ VersionInv /\ RetryInv /\ EndInv
    /\ RepositoryErrorIsFatal /\ RetryAbsorbsOneChange
IndInv == BaseInv /\ SameInv

=============================================================================
