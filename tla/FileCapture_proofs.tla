------------------------- MODULE FileCapture_proofs -------------------------
(***************************************************************************)
(* Proofs about FileCapture, for any files and links, all lengths of files *)
(* and chunks, and any number of changes by the user.                      *)
(***************************************************************************)
EXTENDS FileCapture, SequenceTheorems, TLAPS

-----------------------------------------------------------------------------
(* Blocks, chunks and rows *)

RowType == [sequence : Nat, offset : Nat, chunk : Seq(Block)]

\* Nothing read is how any blocks begin.
LEMMA BeginsEmpty ==
    ASSUME NEW blocks \in Seq(Block)
    PROVE  Begins(<<>>, <<>>, blocks)
  BY DEF Begins

\* The next block of the file goes on with them.
LEMMA BeginsRead ==
    ASSUME NEW hashed \in Seq(Block), NEW buffer \in Seq(Block), NEW blocks \in Seq(Block),
           Begins(hashed, buffer, blocks),
           NEW p, p = Len(hashed) + Len(buffer) + 1, p <= Len(blocks)
    PROVE  /\ Append(buffer, blocks[p]) \in Seq(Block)
           /\ Len(Append(buffer, blocks[p])) = Len(buffer) + 1
           /\ Begins(hashed, Append(buffer, blocks[p]), blocks)
<1>1. p \in 1..Len(blocks) /\ blocks[p] \in Block
  BY LenProperties, ElementOfSeq
<1>2. QED
  BY <1>1 DEF Begins

\* What is hashed takes the buffer over.
LEMMA BeginsStore ==
    ASSUME NEW hashed \in Seq(Block), NEW buffer \in Seq(Block), NEW blocks \in Seq(Block),
           Begins(hashed, buffer, blocks)
    PROVE  Begins(hashed \o buffer, <<>>, blocks)
<1>1. /\ Len(hashed \o buffer) = Len(hashed) + Len(buffer)
      /\ Len(hashed) \in Nat /\ Len(buffer) \in Nat
      /\ \A k \in 1..Len(hashed) : (hashed \o buffer)[k] = hashed[k]
      /\ \A k \in Len(hashed) + 1..Len(hashed) + Len(buffer) :
           (hashed \o buffer)[k] = buffer[k - Len(hashed)]
  OBVIOUS
<1>2. ASSUME NEW k \in 1..Len(hashed \o buffer) PROVE (hashed \o buffer)[k] = blocks[k]
  <2>1. CASE k \in 1..Len(hashed)
    BY <1>1, <2>1 DEF Begins
  <2>2. CASE k \in Len(hashed) + 1..Len(hashed) + Len(buffer)
    <3>1. k - Len(hashed) \in 1..Len(buffer) /\ Len(hashed) + (k - Len(hashed)) = k
      BY <1>1, <2>2
    <3>2. QED
      BY <1>1, <2>2, <3>1 DEF Begins
  <2>3. QED
    BY <1>1, <1>2, <2>1, <2>2
<1>3. QED
  BY <1>1, <1>2 DEF Begins

\* All of the blocks are the blocks.
LEMMA BeginsWhole ==
    ASSUME NEW hashed \in Seq(Block), NEW blocks \in Seq(Block),
           Begins(hashed, <<>>, blocks), Len(hashed) = Len(blocks)
    PROVE  hashed = blocks
<1>1. \A k \in 1..Len(hashed) : hashed[k] = blocks[k]
  BY DEF Begins
<1>2. QED
  BY <1>1, SeqEqual

\* No rows for no contents.
LEMMA NoRows == ValidateChunks(<<>>, 0) /\ Give(<<>>, <<>>)
  BY DEF ValidateChunks, Give, EndOf

\* The types of a row.
LEMMA RowFields ==
    \A row \in RowType :
        row.offset \in Nat /\ row.chunk \in Seq(Block) /\ Len(row.chunk) \in Nat
  BY DEF RowType

\* One more row, where the last one ended, for the chunk that was hashed.
LEMMA OneMoreRow ==
    ASSUME NEW rows \in Seq(RowType), NEW contents \in Seq(Block), NEW chunk \in Seq(Block),
           chunk # <<>>, Len(chunk) <= ChunkBlocks,
           ValidateChunks(rows, Len(contents)), Give(rows, contents),
           \A n \in DOMAIN rows : EndOf(rows, n) <= Len(contents),
           NEW more, more = Append(rows, [sequence |-> Len(rows), offset |-> Len(contents),
                                          chunk |-> chunk])
    PROVE  /\ more \in Seq(RowType)
           /\ ValidateChunks(more, Len(contents \o chunk))
           /\ Give(more, contents \o chunk)
           /\ \A n \in DOMAIN more : EndOf(more, n) <= Len(contents \o chunk)
<1> DEFINE row == [sequence |-> Len(rows), offset |-> Len(contents), chunk |-> chunk]
           whole == contents \o chunk
<1>1. row \in RowType /\ Len(rows) \in Nat /\ Len(contents) \in Nat /\ Len(chunk) \in Nat \ {0}
  BY DEF RowType
<1>2. /\ row.sequence = Len(rows) /\ row.offset = Len(contents) /\ row.chunk = chunk
  OBVIOUS
<1> HIDE DEF row
<1>3. /\ more \in Seq(RowType) /\ Len(more) = Len(rows) + 1
      /\ DOMAIN rows = 1..Len(rows) /\ DOMAIN more = 1..Len(rows) + 1
      /\ \A n \in 1..Len(rows) : more[n] = rows[n]
      /\ more[Len(rows) + 1] = row
  BY <1>1 DEF row
<1>4. /\ Len(whole) = Len(contents) + Len(chunk)
      /\ \A k \in 1..Len(contents) : whole[k] = contents[k]
      /\ \A k \in 1..Len(chunk) : whole[Len(contents) + k] = chunk[k]
  <2>1. \A k \in 1..Len(chunk) : /\ Len(contents) + k \in Len(contents) + 1..Len(contents) + Len(chunk)
                                 /\ Len(contents) + k - Len(contents) = k
    BY <1>1
  <2>2. QED
    BY <2>1, <1>1
<1> HIDE DEF whole
<1>5. \A n \in 0..Len(rows) : EndOf(more, n) = EndOf(rows, n)
  BY <1>1, <1>3 DEF EndOf
<1>6. EndOf(more, Len(rows) + 1) = Len(whole)
  BY <1>1, <1>2, <1>3, <1>4 DEF EndOf
<1>7. EndOf(rows, Len(rows)) = Len(contents)
  BY DEF ValidateChunks
<1>8. \A n \in 1..Len(rows) + 1 : n \in 1..Len(rows) \/ n = Len(rows) + 1
  BY <1>1
<1>9. \A n \in 1..Len(rows) + 1 : more[n].offset = EndOf(more, n - 1)
  <2>1. ASSUME NEW n \in 1..Len(rows) PROVE more[n].offset = EndOf(more, n - 1)
    BY <2>1, <1>1, <1>3, <1>5 DEF Give
  <2>2. more[Len(rows) + 1].offset = EndOf(more, Len(rows) + 1 - 1)
    BY <1>1, <1>2, <1>3, <1>5, <1>7
  <2>3. QED
    BY <2>1, <2>2, <1>8
<1>10. \A n \in 1..Len(rows) + 1 : EndOf(more, n) <= Len(whole)
  <2>1. ASSUME NEW n \in 1..Len(rows) PROVE EndOf(more, n) <= Len(whole)
    <3>1. rows[n].offset \in Nat /\ Len(rows[n].chunk) \in Nat
      BY ElementOfSeq, RowFields
    <3>2. EndOf(rows, n) <= Len(contents)
      BY <1>3
    <3>3. EndOf(rows, n) \in Nat
      BY <3>1 DEF EndOf
    <3>4. QED
      BY <3>2, <3>3, <1>1, <1>4, <1>5
  <2>2. QED
    BY <2>1, <1>8, <1>6, <1>1, <1>4
<1>11. \A n \in 1..Len(rows) + 1 :
         more[n].sequence = n - 1 /\ more[n].chunk # <<>> /\ Len(more[n].chunk) <= ChunkBlocks
  <2>1. ASSUME NEW n \in 1..Len(rows)
        PROVE  more[n].sequence = n - 1 /\ more[n].chunk # <<>> /\ Len(more[n].chunk) <= ChunkBlocks
    BY <2>1, <1>3 DEF ValidateChunks
  <2>2. QED
    BY <2>1, <1>8, <1>1, <1>2, <1>3
<1>12. ASSUME NEW n \in 1..Len(rows) + 1, NEW k \in DOMAIN more[n].chunk
       PROVE  whole[more[n].offset + k] = more[n].chunk[k]
  <2>1. CASE n \in 1..Len(rows)
    <3>1. rows[n].offset \in Nat /\ rows[n].chunk \in Seq(Block) /\ Len(rows[n].chunk) \in Nat
      BY <2>1, ElementOfSeq, RowFields
    <3>2. /\ EndOf(rows, n) = rows[n].offset + Len(rows[n].chunk) /\ EndOf(rows, n) <= Len(contents)
      BY <2>1, <1>3, <1>1 DEF EndOf
    <3>3. k \in 1..Len(rows[n].chunk) /\ more[n] = rows[n]
      BY <2>1, <1>12, <3>1, <1>3
    <3>4. rows[n].offset + k \in 1..Len(contents)
      BY <3>1, <3>2, <3>3, <1>1
    <3>5. contents[rows[n].offset + k] = rows[n].chunk[k]
      BY <2>1, <1>3, <1>12, <3>3 DEF Give
    <3>6. QED
      BY <3>3, <3>4, <3>5, <1>4
  <2>2. CASE n = Len(rows) + 1
    BY <2>2, <1>12, <1>2, <1>3, <1>4
  <2>3. QED
    BY <2>1, <2>2, <1>8
<1>13. more # <<>> /\ Len(whole) # 0
  BY <1>1, <1>3, <1>4
<1>14. ValidateChunks(more, Len(whole))
  BY <1>3, <1>6, <1>9, <1>11, <1>13 DEF ValidateChunks
<1>15. Give(more, whole)
  BY <1>3, <1>6, <1>9, <1>12 DEF Give
<1>16. QED
  BY <1>3, <1>10, <1>14, <1>15 DEF whole
-----------------------------------------------------------------------------
(* What the steps do *)

\* How a step of the worker turns out: the pipeline fails, the source is gone or
\* was seen to change, a call on the source fails, or the capture goes on.
StopsWork == UNCHANGED objects /\ \E error : Fatal(error)
Misses ==
    /\ UNCHANGED objects
    /\ \E code : SourceChanged(code)
    /\ \/ name = NoFile
       \/ /\ worker.pc = "after" /\ name # NoFile
          /\ \/ worker.bytesRead # worker.before.size
             \/ ~SameStableIdentity(worker.before, Metadata(name))
Errs == UNCHANGED objects /\ SourceError
Looks ==
    /\ UNCHANGED objects /\ worker.pc = "before" /\ name # NoFile
    /\ Goes([worker EXCEPT !.pc = "open", !.before = Metadata(name)])
Opens ==
    /\ UNCHANGED objects /\ worker.pc = "open" /\ name # NoFile
    /\ Goes([worker EXCEPT !.pc = "read", !.fd = Resolve(name)])
Position == worker.offset + Len(worker.buffer) + 1
Ended == Position > Len(inode[worker.fd].blocks)
Filled ==
    IF Position <= Len(inode[worker.fd].blocks)
      THEN Append(worker.buffer, inode[worker.fd].blocks[Position])
      ELSE worker.buffer
AfterRead ==
    IF Ended /\ Filled = <<>> THEN "after"
    ELSE IF Ended \/ Len(Filled) = ChunkBlocks THEN "chunk" ELSE "read"
Reads ==
    /\ UNCHANGED objects /\ worker.pc = "read"
    /\ Goes([worker EXCEPT !.buffer = Filled, !.eof = Ended, !.pc = AfterRead])
Stores == worker.pc = "chunk" /\ StoreChunk
Captures ==
    /\ UNCHANGED objects /\ worker.pc = "after" /\ name # NoFile
    /\ worker.bytesRead = worker.before.size
    /\ SameStableIdentity(worker.before, Metadata(name))
    /\ output' = Captured /\ UNCHANGED <<worker, history>>

\* A change by the user of one inode, and what becomes of the name.
ChangesOne(i, blocks, mtime, at) ==
    /\ Ticks /\ Change(i, blocks, mtime, at)
    /\ Len(blocks) <= MaxBlocks
    /\ at \in {name, i, NoFile}

\* The types in parts: the files, the worker, and what is remembered.
FileTypes ==
    /\ inode \in [Inode -> [blocks : Seq(Block), mtime : Nat, ctime : Nat]]
    /\ \A i \in Inode : Len(inode[i].blocks) <= MaxBlocks
    /\ target \in [Link -> Regular]
    /\ name \in Inode \cup {NoFile}
    /\ changes \in 0..MaxChanges /\ clock \in 0..MaxChanges
    /\ retry \in BOOLEAN /\ stop \in BOOLEAN
    /\ objects \subseteq Seq(Block)
WorkerTypes ==
    /\ worker \in Attempts
    /\ worker.attempt = 1 => retry
    /\ worker.pc \in {"read", "chunk", "after"} => worker.fd \in Regular
    /\ worker.offset = Len(worker.hashed) /\ worker.bytesRead = Len(worker.hashed)
HistoryTypes ==
    /\ output.kind \in {"none", "entry", "warning", "fatal"}
    /\ history \in [versions : SUBSET [id : Inode, blocks : Seq(Block), mtime : Nat],
                    swapped : BOOLEAN, sourceErrors : Nat, repositoryError : BOOLEAN]

\* Together they are the type invariant.
LEMMA TypeParts == TypeOK <=> FileTypes /\ WorkerTypes /\ HistoryTypes
  BY DEF TypeOK, FileTypes, WorkerTypes, HistoryTypes
LEMMA TypePartsNext == TypeOK' <=> FileTypes' /\ WorkerTypes' /\ HistoryTypes'
  BY DEF TypeOK, FileTypes, WorkerTypes, HistoryTypes

\* Every step of the worker turns out in one of these ways.
LEMMA WorkerStepCases ==
    ASSUME WorkerStep
    PROVE  /\ Running /\ WorkerFrame
           /\ \/ StopsWork \/ Misses \/ Errs \/ Looks \/ Opens \/ Reads \/ Stores \/ Captures
<1>1. CASE SpoolFails
  BY <1>1 DEF SpoolFails, At, StopsWork
<1>2. CASE LookBefore
  BY <1>2 DEF LookBefore, At, StopsWork, Misses, Errs, Looks
<1>3. CASE OpenSource
  BY <1>3 DEF OpenSource, At, StopsWork, Misses, Errs, Opens
<1>4. CASE ReadBlock
  <2>1. /\ Running /\ WorkerFrame /\ UNCHANGED objects /\ worker.pc = "read"
    BY <1>4 DEF ReadBlock, At
  <2>2. \/ SourceError
        \/ LET blocks == inode[worker.fd].blocks
               position == worker.offset + Len(worker.buffer) + 1
               filled == IF position <= Len(blocks) THEN Append(worker.buffer, blocks[position])
                         ELSE worker.buffer
               eof == position > Len(blocks)
           IN Goes([worker EXCEPT !.buffer = filled, !.eof = eof,
                      !.pc = IF eof /\ filled = <<>> THEN "after"
                             ELSE IF eof \/ Len(filled) = ChunkBlocks THEN "chunk" ELSE "read"])
    BY <1>4 DEF ReadBlock
  <2>3. QED
    BY <2>1, <2>2 DEF Errs, Reads, Position, Ended, Filled, AfterRead
<1>5. CASE ReadCancelled
  BY <1>5 DEF ReadCancelled, At, StopsWork
<1>6. CASE StoreChunk
  BY <1>6 DEF StoreChunk, At, Stores
<1>7. CASE StoreFails
  BY <1>7 DEF StoreFails, At, StopsWork
<1>8. CASE LookAfter
  BY <1>8 DEF LookAfter, At, Misses, Errs, Captures
<1>9. QED
  BY <1>1, <1>2, <1>3, <1>4, <1>5, <1>6, <1>7, <1>8 DEF WorkerStep

\* Every change of an inode is of that form, and keeps the types.
LEMMA UserStepCases ==
    ASSUME FileTypes, HistoryTypes, UserStep
    PROVE  \/ \E i \in Inode : \E blocks \in Seq(Block) : \E mtime \in Nat :
                \E at \in Inode \cup {NoFile} : ChangesOne(i, blocks, mtime, at)
           \/ SwapParent
           \/ RequestStop
<1>1. ASSUME NEW i \in Regular, Write(i)
      PROVE  \E blocks \in Seq(Block) : \E mtime \in Nat : ChangesOne(i, blocks, mtime, name)
  <2> DEFINE old == inode[i].blocks
             new == <<i, changes + 1>>
  <2>1. i \in Inode /\ old \in Seq(Block) /\ new \in Block /\ Ticks
    BY <1>1 DEF Write, FileTypes, Inode, Block
  <2>2. PICK blocks \in {[old EXCEPT ![b] = new] : b \in DOMAIN old}
                          \cup {Append(old, new)}
                          \cup (IF old = <<>> THEN {} ELSE {Front(old)}) :
             Len(blocks) <= MaxBlocks /\ Change(i, blocks, clock', name)
    BY <1>1 DEF Write
  <2> HIDE DEF old, new
  <2>3. blocks \in Seq(Block)
    <3>1. CASE \E b \in DOMAIN old : blocks = [old EXCEPT ![b] = new]
      BY <3>1, <2>1, ExceptSeq
    <3>2. CASE blocks = Append(old, new)
      BY <3>2, <2>1
    <3>3. CASE old # <<>> /\ blocks = Front(old)
      BY <3>3, <2>1 DEF Front
    <3>4. QED
      BY <2>2, <3>1, <3>2, <3>3
  <2>4. clock' \in Nat
    BY <2>1, ClockAssumption DEF Ticks, FileTypes
  <2>5. QED
    BY <2>1, <2>2, <2>3, <2>4 DEF ChangesOne
<1>2. ASSUME NEW i \in Inode, SetTime(i)
      PROVE  \E blocks \in Seq(Block) : \E mtime \in Nat : ChangesOne(i, blocks, mtime, name)
  <2>1. PICK v \in history.versions : v.id = i /\ Change(i, inode[i].blocks, v.mtime, name)
    BY <1>2 DEF SetTime
  <2>2. v.mtime \in Nat
    BY <2>1 DEF HistoryTypes
  <2>3. inode[i].blocks \in Seq(Block) /\ Len(inode[i].blocks) <= MaxBlocks
    BY DEF FileTypes
  <2>4. QED
    BY <1>2, <2>1, <2>2, <2>3 DEF SetTime, ChangesOne
<1>3. ASSUME NEW i \in Inode, Rename(i)
      PROVE  \E blocks \in Seq(Block) : \E mtime \in Nat : \E at \in Inode \cup {NoFile} :
                ChangesOne(i, blocks, mtime, at)
  <2>1. /\ inode[i].blocks \in Seq(Block) /\ Len(inode[i].blocks) <= MaxBlocks
        /\ inode[i].mtime \in Nat
    BY DEF FileTypes
  <2>2. ChangesOne(i, inode[i].blocks, inode[i].mtime, i)
          \/ ChangesOne(i, inode[i].blocks, inode[i].mtime, NoFile)
    BY <1>3, <2>1 DEF Rename, ChangesOne
  <2>3. QED
    BY <2>1, <2>2
<1>4. name \in Inode \cup {NoFile} /\ Regular \subseteq Inode
  BY DEF FileTypes, Inode
<1>5. QED
  BY <1>1, <1>2, <1>3, <1>4 DEF UserStep
-----------------------------------------------------------------------------
(* The worker, field by field *)

\* Looking fills in what was seen.
LEMMA LooksFields ==
    ASSUME WorkerTypes, Looks
    PROVE  /\ worker'.pc = "open" /\ worker'.attempt = worker.attempt
           /\ worker'.before = Metadata(name) /\ worker'.fd = worker.fd
           /\ worker'.buffer = worker.buffer /\ worker'.eof = worker.eof
           /\ worker'.offset = worker.offset /\ worker'.bytesRead = worker.bytesRead
           /\ worker'.sequence = worker.sequence /\ worker'.hashed = worker.hashed
           /\ worker'.refs = worker.refs /\ worker'.fresh = worker.fresh
           /\ output' = output /\ history' = history
  BY DEF Looks, Goes, WorkerTypes, Attempts

\* Opening fills in which file it is.
LEMMA OpensFields ==
    ASSUME WorkerTypes, Opens
    PROVE  /\ worker'.pc = "read" /\ worker'.attempt = worker.attempt
           /\ worker'.before = worker.before /\ worker'.fd = Resolve(name)
           /\ worker'.buffer = worker.buffer /\ worker'.eof = worker.eof
           /\ worker'.offset = worker.offset /\ worker'.bytesRead = worker.bytesRead
           /\ worker'.sequence = worker.sequence /\ worker'.hashed = worker.hashed
           /\ worker'.refs = worker.refs /\ worker'.fresh = worker.fresh
           /\ output' = output /\ history' = history
  BY DEF Opens, Goes, WorkerTypes, Attempts

\* Reading fills the buffer.
LEMMA ReadsFields ==
    ASSUME WorkerTypes, Reads
    PROVE  /\ worker'.pc = AfterRead /\ worker'.attempt = worker.attempt
           /\ worker'.before = worker.before /\ worker'.fd = worker.fd
           /\ worker'.buffer = Filled /\ worker'.eof = Ended /\ worker'.offset = worker.offset
           /\ worker'.bytesRead = worker.bytesRead /\ worker'.sequence = worker.sequence
           /\ worker'.hashed = worker.hashed /\ worker'.refs = worker.refs
           /\ worker'.fresh = worker.fresh
           /\ output' = output /\ history' = history
  BY DEF Reads, Goes, WorkerTypes, Attempts

\* Storing empties it.
LEMMA StoresFields ==
    ASSUME WorkerTypes, Stores
    PROVE  /\ worker'.pc = IF worker.eof THEN "after" ELSE "read"
           /\ worker'.attempt = worker.attempt /\ worker'.before = worker.before
           /\ worker'.fd = worker.fd /\ worker'.buffer = <<>> /\ worker'.eof = worker.eof
           /\ worker'.offset = worker.offset + Len(worker.buffer)
           /\ worker'.bytesRead = worker.bytesRead + Len(worker.buffer)
           /\ worker'.sequence = worker.sequence + 1
           /\ worker'.hashed = worker.hashed \o worker.buffer
           /\ worker'.refs = Append(worker.refs, [sequence |-> worker.sequence, offset |-> worker.offset,
                                              chunk |-> worker.buffer])
           /\ worker'.fresh = IF worker.buffer \in objects THEN worker.fresh ELSE worker.fresh + 1
           /\ output' = output /\ history' = history
  BY DEF Stores, StoreChunk, Goes, WorkerTypes, Attempts

\* A failure in the source leaves the attempt as it is, with a warning, or starts
\* the second attempt.
LEMMA FailsCases ==
    ASSUME NEW code, Fails(code)
    PROVE  \/ /\ retry /\ worker.attempt = 0
              /\ worker' = Attempt(1) /\ output' = output
           \/ /\ ~retry \/ worker.attempt # 0
              /\ worker' = worker /\ output'.kind = "warning" /\ output' # Nothing
  BY DEF Fails, Nothing

LEMMA AttemptFields ==
    ASSUME NEW n
    PROVE  /\ Attempt(n).pc = "before" /\ Attempt(n).attempt = n /\ Attempt(n).before = NoMetadata
           /\ Attempt(n).fd = NoFile /\ Attempt(n).buffer = <<>> /\ Attempt(n).eof = FALSE
           /\ Attempt(n).offset = 0 /\ Attempt(n).bytesRead = 0 /\ Attempt(n).sequence = 0
           /\ Attempt(n).hashed = <<>> /\ Attempt(n).refs = <<>> /\ Attempt(n).fresh = 0
           /\ n \in {0, 1} => Attempt(n) \in Attempts
  BY DEF Attempt, Attempts, FileMetadata, NoMetadata

\* A metadata call gives metadata.
LEMMA MetadataType ==
    ASSUME FileTypes, NEW i \in Inode
    PROVE  /\ Metadata(i) \in FileMetadata
           /\ Metadata(i).id = i /\ Metadata(i).size = Len(inode[i].blocks)
           /\ Metadata(i).mtime = inode[i].mtime /\ Metadata(i).ctime = inode[i].ctime
  BY DEF Metadata, FileMetadata, FileTypes

\* What comes out of a read: the next block of the file, or the end of it.
Continues(hashed, buffer, file, p, filled) ==
    /\ filled \in Seq(Block)
    /\ Len(filled) <= ChunkBlocks
    /\ p <= Len(file) => filled # <<>>
    /\ Len(filled) = ChunkBlocks => filled # <<>>
    /\ Begins(hashed, buffer, file) =>
         /\ Begins(hashed, filled, file)
         /\ p > Len(file) => Len(hashed) + Len(filled) = Len(file)
LEMMA NextBlock ==
    ASSUME NEW hashed \in Seq(Block), NEW buffer \in Seq(Block), NEW file \in Seq(Block),
           Len(buffer) < ChunkBlocks,
           NEW p, p = Len(hashed) + Len(buffer) + 1,
           NEW filled, filled = IF p <= Len(file) THEN Append(buffer, file[p]) ELSE buffer
    PROVE  Continues(hashed, buffer, file, p, filled)
<1>1. /\ Len(buffer) \in Nat /\ Len(hashed) \in Nat /\ Len(file) \in Nat /\ ChunkBlocks \in Nat \ {0}
      /\ p \in Nat
  BY BlockAssumption
<1>2. CASE p > Len(file)
  <2>1. filled = buffer
    BY <1>1, <1>2
  <2>2. Begins(hashed, buffer, file) => Len(hashed) + Len(buffer) = Len(file)
    BY <1>1, <1>2 DEF Begins
  <2>3. QED
    BY <1>1, <1>2, <2>1, <2>2 DEF Continues
<1>3. CASE p <= Len(file)
  <2>1. filled = Append(buffer, file[p])
    BY <1>3
  <2>2. file[p] \in Block
    BY <1>1, <1>3, ElementOfSeq
  <2>3. filled \in Seq(Block) /\ Len(filled) = Len(buffer) + 1 /\ filled # <<>>
    BY <1>1, <2>1, <2>2
  <2>4. Begins(hashed, buffer, file) => Begins(hashed, filled, file)
    BY <1>3, <2>1, BeginsRead
  <2>5. QED
    BY <1>1, <1>3, <2>3, <2>4 DEF Continues
<1>4. QED
  BY <1>1, <1>2, <1>3

LEMMA ReadOutcome ==
    ASSUME FileTypes, WorkerTypes, RowsInv, worker.pc = "read"
    PROVE  /\ inode[worker.fd].blocks \in Seq(Block)
           /\ Filled \in Seq(Block) /\ Ended \in BOOLEAN
           /\ AfterRead \in {"after", "chunk", "read"}
           /\ AfterRead = "after" => Ended /\ Filled = <<>>
           /\ AfterRead = "chunk" => Filled # <<>> /\ Len(Filled) <= ChunkBlocks
           /\ AfterRead = "read" => ~Ended /\ Len(Filled) < ChunkBlocks
           /\ Begins(worker.hashed, worker.buffer, inode[worker.fd].blocks) =>
                /\ Begins(worker.hashed, Filled, inode[worker.fd].blocks)
                /\ Ended => Len(worker.hashed) + Len(Filled) = Len(inode[worker.fd].blocks)
<1> DEFINE file == inode[worker.fd].blocks
           hashed == worker.hashed
           buffer == worker.buffer
<1>1. file \in Seq(Block)
  <2>1. worker.fd \in Inode
    BY DEF WorkerTypes, Inode
  <2>2. QED
    BY <2>1 DEF FileTypes
<1>2. buffer \in Seq(Block) /\ hashed \in Seq(Block) /\ Len(buffer) < ChunkBlocks
  BY DEF WorkerTypes, Attempts, RowsInv
<1>3. Position = Len(hashed) + Len(buffer) + 1
  BY DEF WorkerTypes, Position
<1>4. Filled = IF Position <= Len(file) THEN Append(buffer, file[Position]) ELSE buffer
  BY DEF Filled
<1>5. Ended = (Position > Len(file))
  BY DEF Ended
<1> HIDE DEF file, hashed, buffer
<1>6. /\ Filled \in Seq(Block) /\ Len(Filled) <= ChunkBlocks
      /\ Position <= Len(file) => Filled # <<>>
      /\ Len(Filled) = ChunkBlocks => Filled # <<>>
      /\ Begins(hashed, buffer, file) =>
           /\ Begins(hashed, Filled, file)
           /\ Position > Len(file) => Len(hashed) + Len(Filled) = Len(file)
  <2>1. Continues(hashed, buffer, file, Position, Filled)
    BY <1>1, <1>2, <1>3, <1>4, NextBlock
  <2>2. QED
    BY <2>1 DEF Continues
<1>7. Len(Filled) \in Nat /\ ChunkBlocks \in Nat /\ Position \in Nat /\ Len(file) \in Nat
  BY <1>1, <1>2, <1>3, <1>6, BlockAssumption
<1>8. AfterRead = "read" => Len(Filled) < ChunkBlocks
  BY <1>6, <1>7 DEF AfterRead
<1>9. Ended \in BOOLEAN /\ (~Ended => Filled # <<>>)
  <2>1. Ended \in BOOLEAN
    BY <1>5
  <2>2. ~(Position > Len(file)) => Filled # <<>>
    BY <1>6, <1>7
  <2>3. QED
    BY <2>1, <2>2, <1>5
<1>10. /\ AfterRead \in {"after", "chunk", "read"}
       /\ AfterRead = "after" => Ended /\ Filled = <<>>
       /\ AfterRead = "chunk" => Filled # <<>>
       /\ AfterRead = "read" => ~Ended
  BY <1>6, <1>9 DEF AfterRead
<1>11. QED
  BY <1>1, <1>5, <1>6, <1>8, <1>9, <1>10 DEF file, hashed, buffer
-----------------------------------------------------------------------------
(* Types *)

\* The files keep their types, and the clock runs no faster than the changes.
LEMMA FileTypesStep ==
    ASSUME FileTypes, HistoryTypes, WorkerTypes, ClockInv, [Next]_vars
    PROVE  (FileTypes /\ ClockInv)'
<1>1. CASE Running /\ WorkerFrame /\ StopsWork
  BY <1>1 DEF StopsWork, Fatal, WorkerFrame, user, FileTypes, ClockInv
<1>2. CASE Running /\ WorkerFrame /\ Misses
  BY <1>2 DEF Misses, SourceChanged, WorkerFrame, user, FileTypes, ClockInv
<1>3. CASE Running /\ WorkerFrame /\ Errs
  BY <1>3 DEF Errs, SourceError, WorkerFrame, user, FileTypes, ClockInv
<1>4. CASE Running /\ WorkerFrame /\ Looks
  BY <1>4 DEF Looks, WorkerFrame, user, FileTypes, ClockInv
<1>5. CASE Running /\ WorkerFrame /\ Opens
  BY <1>5 DEF Opens, WorkerFrame, user, FileTypes, ClockInv
<1>6. CASE Running /\ WorkerFrame /\ Reads
  BY <1>6 DEF Reads, WorkerFrame, user, FileTypes, ClockInv
<1>7. CASE Running /\ WorkerFrame /\ Stores
  BY <1>7 DEF Stores, StoreChunk, WorkerFrame, user, FileTypes, ClockInv, WorkerTypes,
     Attempts
<1>8. CASE Running /\ WorkerFrame /\ Captures
  BY <1>8 DEF Captures, WorkerFrame, user, FileTypes, ClockInv
<1>9. ASSUME NEW i \in Inode, NEW blocks \in Seq(Block), NEW mtime \in Nat,
             NEW at \in Inode \cup {NoFile}, ChangesOne(i, blocks, mtime, at)
      PROVE  (FileTypes /\ ClockInv)'
  <2>1. /\ changes < MaxChanges /\ changes' = changes + 1 /\ name' = at
        /\ inode' = [inode EXCEPT ![i] = [blocks |-> blocks, mtime |-> mtime, ctime |-> clock']]
        /\ UNCHANGED <<target, retry, stop, objects>> /\ Len(blocks) <= MaxBlocks
    BY <1>9 DEF ChangesOne, Change
  <2>2. clock' \in {clock, clock + 1}
    BY <1>9, ClockAssumption DEF ChangesOne, Ticks, FileTypes
  <2>3. /\ changes' \in 0..MaxChanges /\ clock' \in 0..MaxChanges /\ clock' <= changes'
        /\ clock <= clock'
    BY <2>1, <2>2, BlockAssumption DEF FileTypes, ClockInv
  <2>4. inode' \in [Inode -> [blocks : Seq(Block), mtime : Nat, ctime : Nat]]
    BY <2>1, <2>3 DEF FileTypes
  <2>5. ASSUME NEW j \in Inode
        PROVE  Len(inode'[j].blocks) <= MaxBlocks /\ inode'[j].ctime <= clock'
    <3>1. CASE j = i
      BY <2>1, <2>3, <3>1 DEF FileTypes
    <3>2. CASE j # i
      <4>1. inode'[j] = inode[j] /\ inode[j].ctime \in Nat
        BY <2>1, <3>2 DEF FileTypes
      <4>2. Len(inode[j].blocks) <= MaxBlocks
        BY DEF FileTypes
      <4>3. inode[j].ctime <= clock /\ clock \in Nat /\ clock' \in Nat
        BY <2>3 DEF ClockInv, FileTypes
      <4>4. inode[j].ctime <= clock'
        BY <4>1, <4>3, <2>3
      <4>5. QED
        BY <4>1, <4>2, <4>4
    <3>3. QED
      BY <3>1, <3>2
  <2>6. QED
    BY <2>1, <2>3, <2>4, <2>5 DEF FileTypes, ClockInv
<1>10. CASE SwapParent
  BY <1>10, BlockAssumption DEF SwapParent, FileTypes, ClockInv, Inode
<1>11. CASE RequestStop
  BY <1>11 DEF RequestStop, user, FileTypes, ClockInv
<1>12. CASE UNCHANGED vars
  BY <1>12 DEF vars, user, FileTypes, ClockInv
<1>13. QED
  BY <1>1, <1>2, <1>3, <1>4, <1>5, <1>6, <1>7, <1>8, <1>9, <1>10, <1>11, <1>12,
     WorkerStepCases, UserStepCases DEF Next

\* The worker keeps its types, and is where it has read to.
LEMMA WorkerTypesStep ==
    ASSUME FileTypes, HistoryTypes, WorkerTypes, RowsInv, [Next]_vars
    PROVE  WorkerTypes'
<1>1. CASE Running /\ WorkerFrame /\ StopsWork
  BY <1>1 DEF StopsWork, Fatal, WorkerFrame, user, WorkerTypes
<1>2. CASE Running /\ WorkerFrame /\ Misses
  <2>1. PICK code : Fails(code)
    BY <1>2 DEF Misses, SourceChanged, Errs, SourceError
  <2>2. CASE worker' = worker
    BY <1>2, <2>2 DEF WorkerTypes, WorkerFrame
  <2>3. CASE retry /\ worker' = Attempt(1)
    <3>1. /\ worker' \in Attempts /\ worker'.pc = "before"
          /\ worker'.offset = 0 /\ worker'.bytesRead = 0 /\ worker'.hashed = <<>>
      BY <2>3, AttemptFields
    <3>2. Len(worker'.hashed) = 0
      BY <3>1
    <3>3. QED
      BY <1>2, <2>3, <3>1, <3>2 DEF WorkerTypes, WorkerFrame
  <2>4. QED
    BY <2>1, <2>2, <2>3, FailsCases
<1>3. CASE Running /\ WorkerFrame /\ Errs
  <2>1. PICK code : Fails(code)
    BY <1>3 DEF Misses, SourceChanged, Errs, SourceError
  <2>2. CASE worker' = worker
    BY <1>3, <2>2 DEF WorkerTypes, WorkerFrame
  <2>3. CASE retry /\ worker' = Attempt(1)
    <3>1. /\ worker' \in Attempts /\ worker'.pc = "before"
          /\ worker'.offset = 0 /\ worker'.bytesRead = 0 /\ worker'.hashed = <<>>
      BY <2>3, AttemptFields
    <3>2. Len(worker'.hashed) = 0
      BY <3>1
    <3>3. QED
      BY <1>3, <2>3, <3>1, <3>2 DEF WorkerTypes, WorkerFrame
  <2>4. QED
    BY <2>1, <2>2, <2>3, FailsCases
<1>4. CASE Running /\ WorkerFrame /\ Looks
  <2>1. name \in Inode /\ Metadata(name) \in FileMetadata
    BY <1>4, MetadataType DEF Looks, FileTypes
  <2>2. worker' \in Attempts
    BY <1>4, <2>1 DEF Looks, Goes, WorkerTypes, Attempts
  <2>3. worker'.pc = "open" /\ worker'.attempt = worker.attempt
    BY <1>4, LooksFields
  <2>4. /\ worker'.offset = worker.offset /\ worker'.bytesRead = worker.bytesRead
        /\ worker'.hashed = worker.hashed
    BY <1>4, LooksFields
  <2>5. QED
    BY <1>4, <2>2, <2>3, <2>4 DEF WorkerTypes, WorkerFrame
<1>5. CASE Running /\ WorkerFrame /\ Opens
  <2>1. name \in Inode /\ Resolve(name) \in Regular /\ Resolve(name) \in Inode
    BY <1>5 DEF Opens, FileTypes, Resolve, Inode
  <2>2. worker' \in Attempts
    BY <1>5, <2>1 DEF Opens, Goes, WorkerTypes, Attempts
  <2>3. worker'.fd \in Regular /\ worker'.attempt = worker.attempt
    BY <1>5, <2>1, OpensFields
  <2>4. /\ worker'.offset = worker.offset /\ worker'.bytesRead = worker.bytesRead
        /\ worker'.hashed = worker.hashed
    BY <1>5, OpensFields
  <2>5. QED
    BY <1>5, <2>2, <2>3, <2>4 DEF WorkerTypes, WorkerFrame
<1>6. CASE Running /\ WorkerFrame /\ Reads
  <2>1. Filled \in Seq(Block) /\ Ended \in BOOLEAN /\ AfterRead \in {"after", "chunk", "read"}
    BY <1>6, ReadOutcome DEF Reads
  <2>2. worker' \in Attempts
    BY <1>6, <2>1 DEF Reads, Goes, WorkerTypes, Attempts
  <2>3. worker'.fd = worker.fd /\ worker.fd \in Regular /\ worker'.attempt = worker.attempt
    BY <1>6, ReadsFields DEF Reads, WorkerTypes
  <2>4. /\ worker'.offset = worker.offset /\ worker'.bytesRead = worker.bytesRead
        /\ worker'.hashed = worker.hashed
    BY <1>6, ReadsFields
  <2>5. QED
    BY <1>6, <2>2, <2>3, <2>4 DEF WorkerTypes, WorkerFrame
<1>7. CASE Running /\ WorkerFrame /\ Stores
  <2> DEFINE h == worker.hashed
             b == worker.buffer
             row == [sequence |-> worker.sequence, offset |-> worker.offset, chunk |-> worker.buffer]
  <2>1. h \in Seq(Block) /\ b \in Seq(Block) /\ worker.offset = Len(h) /\ worker.bytesRead = Len(h)
    BY DEF WorkerTypes, Attempts
  <2>2. row \in [sequence : Nat, offset : Nat, chunk : Seq(Block)]
    BY DEF WorkerTypes, Attempts
  <2>3. /\ worker'.hashed = h \o b /\ worker'.offset = worker.offset + Len(b)
        /\ worker'.bytesRead = worker.bytesRead + Len(b)
        /\ worker'.fd = worker.fd /\ worker.fd \in Regular /\ worker'.attempt = worker.attempt
    BY <1>7, StoresFields DEF Stores, WorkerTypes
  <2>4. worker' \in Attempts
    <3> HIDE DEF row, h, b
    <3>1. /\ h \o b \in Seq(Block) /\ worker.offset + Len(b) \in Nat
          /\ worker.bytesRead + Len(b) \in Nat
      BY <2>1
    <3>2. /\ worker.sequence + 1 \in Nat
          /\ (IF b \in objects THEN worker.fresh ELSE worker.fresh + 1) \in Nat
          /\ Append(worker.refs, row) \in Seq([sequence : Nat, offset : Nat, chunk : Seq(Block)])
          /\ (IF worker.eof THEN "after" ELSE "read") \in {"before", "open", "read", "chunk", "after"}
      BY <2>2 DEF WorkerTypes, Attempts
    <3>3. worker' = [worker EXCEPT
           !.hashed = h \o b,
           !.bytesRead = worker.bytesRead + Len(b),
           !.refs = Append(worker.refs, row),
           !.fresh = IF b \in objects THEN worker.fresh ELSE worker.fresh + 1,
           !.sequence = worker.sequence + 1,
           !.offset = worker.offset + Len(b),
           !.buffer = <<>>,
           !.pc = IF worker.eof THEN "after" ELSE "read"]
      BY <1>7 DEF Stores, StoreChunk, Goes, WorkerTypes, Attempts, row, h, b
    <3>4. <<>> \in Seq(Block)
      OBVIOUS
    <3>5. QED
      BY <3>1, <3>2, <3>3, <3>4 DEF WorkerTypes, Attempts
  <2> HIDE DEF row, h, b
  <2>5. worker'.offset = Len(worker'.hashed) /\ worker'.bytesRead = Len(worker'.hashed)
    BY <2>1, <2>3
  <2>6. QED
    BY <1>7, <2>3, <2>4, <2>5 DEF WorkerTypes, WorkerFrame
<1>8. CASE Running /\ WorkerFrame /\ Captures
  BY <1>8 DEF Captures, WorkerFrame, user, WorkerTypes
<1>9. ASSUME NEW i \in Inode, NEW blocks \in Seq(Block), NEW mtime \in Nat,
             NEW at \in Inode \cup {NoFile}, ChangesOne(i, blocks, mtime, at)
      PROVE  WorkerTypes'
  BY <1>9 DEF ChangesOne, Change, WorkerTypes
<1>10. CASE SwapParent
  BY <1>10 DEF SwapParent, WorkerTypes
<1>11. CASE RequestStop
  BY <1>11 DEF RequestStop, user, WorkerTypes
<1>12. CASE UNCHANGED vars
  BY <1>12 DEF vars, user, WorkerTypes
<1>13. QED
  BY <1>1, <1>2, <1>3, <1>4, <1>5, <1>6, <1>7, <1>8, <1>9, <1>10, <1>11, <1>12,
     WorkerStepCases, UserStepCases DEF Next

\* What is remembered of the past keeps its type.
LEMMA HistoryTypesStep ==
    ASSUME FileTypes, HistoryTypes, WorkerTypes, [Next]_vars
    PROVE  HistoryTypes'
<1>1. CASE Running /\ WorkerFrame /\ StopsWork
  <2>1. PICK error : Fatal(error)
    BY <1>1 DEF StopsWork
  <2>2. history' = [history EXCEPT !.repositoryError = (error = "repository")] /\ output'.kind = "fatal"
    BY <2>1 DEF Fatal
  <2>3. \A e \in BOOLEAN : [history EXCEPT !.repositoryError = e] \in
          [versions : SUBSET [id : Inode, blocks : Seq(Block), mtime : Nat],
           swapped : BOOLEAN, sourceErrors : Nat, repositoryError : BOOLEAN]
    BY DEF HistoryTypes
  <2>4. (error = "repository") \in BOOLEAN
    OBVIOUS
  <2>5. QED
    BY <2>2, <2>3, <2>4 DEF HistoryTypes
<1>2. CASE Running /\ WorkerFrame /\ Misses
  BY <1>2, FailsCases DEF Misses, SourceChanged, WorkerFrame, user, HistoryTypes
<1>3. CASE Running /\ WorkerFrame /\ Errs
  BY <1>3, FailsCases DEF Errs, SourceError, WorkerFrame, user, HistoryTypes
<1>4. CASE Running /\ WorkerFrame /\ Looks
  BY <1>4 DEF Looks, WorkerFrame, user, Goes, HistoryTypes
<1>5. CASE Running /\ WorkerFrame /\ Opens
  BY <1>5 DEF Opens, WorkerFrame, user, Goes, HistoryTypes
<1>6. CASE Running /\ WorkerFrame /\ Reads
  BY <1>6 DEF Reads, WorkerFrame, user, Goes, HistoryTypes
<1>7. CASE Running /\ WorkerFrame /\ Stores
  BY <1>7 DEF Stores, StoreChunk, WorkerFrame, user, Goes, HistoryTypes
<1>8. CASE Running /\ WorkerFrame /\ Captures
  BY <1>8 DEF Captures, WorkerFrame, user, Captured, HistoryTypes
<1>9. ASSUME NEW i \in Inode, NEW blocks \in Seq(Block), NEW mtime \in Nat,
             NEW at \in Inode \cup {NoFile}, ChangesOne(i, blocks, mtime, at)
      PROVE  HistoryTypes'
  BY <1>9 DEF ChangesOne, Change, HistoryTypes
<1>10. CASE SwapParent
  BY <1>10 DEF SwapParent, HistoryTypes
<1>11. CASE RequestStop
  BY <1>11 DEF RequestStop, user, HistoryTypes
<1>12. CASE UNCHANGED vars
  BY <1>12 DEF vars, user, HistoryTypes
<1>13. QED
  BY <1>1, <1>2, <1>3, <1>4, <1>5, <1>6, <1>7, <1>8, <1>9, <1>10, <1>11, <1>12,
     WorkerStepCases, UserStepCases DEF Next
-----------------------------------------------------------------------------
(* The rows of an attempt *)

\* The two halves of RowsInv: the buffer, and the rows in the spool.
BufferInv ==
    /\ worker.pc \in {"before", "open"} => worker.hashed = <<>> /\ worker.buffer = <<>>
    /\ worker.pc = "read" => Len(worker.buffer) < ChunkBlocks
    /\ worker.pc = "chunk" => worker.buffer # <<>> /\ Len(worker.buffer) <= ChunkBlocks
    /\ worker.pc = "after" => worker.buffer = <<>>
    /\ worker.eof => worker.pc \in {"chunk", "after"}
Spooled(refs, hashed, store) ==
    /\ ValidateChunks(refs, Len(hashed))
    /\ Give(refs, hashed)
    /\ \A n \in DOMAIN refs : EndOf(refs, n) <= Len(hashed) /\ refs[n].chunk \in store
SpoolInv == worker.sequence = Len(worker.refs) /\ Spooled(worker.refs, worker.hashed, objects)

LEMMA RowsParts == RowsInv <=> BufferInv /\ SpoolInv
  BY DEF RowsInv, BufferInv, SpoolInv, Spooled
LEMMA RowsPartsNext == RowsInv' <=> BufferInv' /\ SpoolInv'
  BY DEF RowsInv, BufferInv, SpoolInv, Spooled

\* A spool is empty, or has one more row.
LEMMA SpooledNothing == ASSUME NEW store PROVE Spooled(<<>>, <<>>, store)
<1>1. Len(<<>>) = 0 /\ DOMAIN <<>> = {}
  OBVIOUS
<1>2. QED
  BY <1>1, NoRows DEF Spooled

LEMMA SpooledOne ==
    ASSUME NEW refs \in Seq(RowType), NEW hashed \in Seq(Block), NEW chunk \in Seq(Block),
           NEW store, chunk # <<>>, Len(chunk) <= ChunkBlocks, Spooled(refs, hashed, store),
           NEW sequence, sequence = Len(refs), NEW offset, offset = Len(hashed)
    PROVE  LET more == Append(refs, [sequence |-> sequence, offset |-> offset, chunk |-> chunk])
           IN  Len(more) = sequence + 1 /\ Spooled(more, hashed \o chunk, store \cup {chunk})
<1> DEFINE row == [sequence |-> sequence, offset |-> offset, chunk |-> chunk]
           more == Append(refs, row)
<1>1. /\ ValidateChunks(refs, Len(hashed)) /\ Give(refs, hashed)
      /\ \A n \in DOMAIN refs : EndOf(refs, n) <= Len(hashed)
  BY DEF Spooled
<1>2. more = Append(refs, [sequence |-> Len(refs), offset |-> Len(hashed), chunk |-> chunk])
  OBVIOUS
<1>3. row.chunk = chunk /\ row \in RowType
  BY DEF RowType
<1> HIDE DEF more
<1>4. /\ more \in Seq(RowType)
      /\ ValidateChunks(more, Len(hashed \o chunk)) /\ Give(more, hashed \o chunk)
      /\ \A n \in DOMAIN more : EndOf(more, n) <= Len(hashed \o chunk)
  BY <1>1, <1>2, OneMoreRow
<1> HIDE DEF row
<1>5. /\ Len(refs) \in Nat /\ Len(more) = Len(refs) + 1
      /\ DOMAIN more = 1..Len(refs) + 1 /\ DOMAIN refs = 1..Len(refs)
      /\ \A n \in 1..Len(refs) : more[n] = refs[n]
      /\ more[Len(refs) + 1] = row
  BY <1>3 DEF more
<1>6. ASSUME NEW n \in DOMAIN more PROVE more[n].chunk \in store \cup {chunk}
  <2>1. CASE n \in 1..Len(refs)
    BY <2>1, <1>5 DEF Spooled
  <2>2. CASE n = Len(refs) + 1
    BY <2>2, <1>3, <1>5
  <2>3. QED
    BY <2>1, <2>2, <1>5
<1>7. QED
  BY <1>4, <1>5, <1>6 DEF Spooled, more, row

\* A buffer that is handed on has something in it, and no more than a chunk.
LEMMA BufferInvStep ==
    ASSUME FileTypes, HistoryTypes, WorkerTypes, RowsInv, [Next]_vars
    PROVE  BufferInv'
<1>. BufferInv
  BY RowsParts
<1>1. CASE Running /\ WorkerFrame /\ StopsWork
  BY <1>1 DEF StopsWork, Fatal, WorkerFrame, user, BufferInv
<1>2. CASE Running /\ WorkerFrame /\ Misses
  <2>1. PICK code : Fails(code)
    BY <1>2 DEF Misses, SourceChanged, Errs, SourceError
  <2>2. UNCHANGED objects
    BY <1>2 DEF Misses, Errs
  <2>3. CASE worker' = worker
    BY <2>2, <2>3 DEF BufferInv
  <2>4. CASE worker' = Attempt(1)
    BY <2>4, AttemptFields DEF BufferInv
  <2>5. QED
    BY <2>1, <2>3, <2>4, FailsCases
<1>3. CASE Running /\ WorkerFrame /\ Errs
  <2>1. PICK code : Fails(code)
    BY <1>3 DEF Misses, SourceChanged, Errs, SourceError
  <2>2. UNCHANGED objects
    BY <1>3 DEF Misses, Errs
  <2>3. CASE worker' = worker
    BY <2>2, <2>3 DEF BufferInv
  <2>4. CASE worker' = Attempt(1)
    BY <2>4, AttemptFields DEF BufferInv
  <2>5. QED
    BY <2>1, <2>3, <2>4, FailsCases
<1>4. CASE Running /\ WorkerFrame /\ Looks
  BY <1>4, LooksFields DEF Looks, WorkerFrame, user, BufferInv
<1>5. CASE Running /\ WorkerFrame /\ Opens
  <2>1. worker'.pc = "read" /\ worker'.buffer = worker.buffer /\ worker'.eof = worker.eof
    BY <1>5, OpensFields
  <2>2. worker.buffer = <<>> /\ ~worker.eof
    BY <1>5 DEF Opens, BufferInv
  <2>3. Len(<<>>) < ChunkBlocks
    BY BlockAssumption
  <2>4. QED
    BY <2>1, <2>2, <2>3 DEF BufferInv
<1>6. CASE Running /\ WorkerFrame /\ Reads
  <2>1. worker'.pc = AfterRead /\ worker'.buffer = Filled /\ worker'.eof = Ended
    BY <1>6, ReadsFields
  <2>2. /\ AfterRead \in {"after", "chunk", "read"}
        /\ AfterRead = "after" => Ended /\ Filled = <<>>
        /\ AfterRead = "chunk" => Filled # <<>> /\ Len(Filled) <= ChunkBlocks
        /\ AfterRead = "read" => ~Ended /\ Len(Filled) < ChunkBlocks
    BY <1>6, ReadOutcome DEF Reads
  <2>3. QED
    BY <2>1, <2>2 DEF BufferInv
<1>7. CASE Running /\ WorkerFrame /\ Stores
  <2>1. /\ worker'.pc = IF worker.eof THEN "after" ELSE "read"
        /\ worker'.buffer = <<>> /\ worker'.eof = worker.eof
    BY <1>7, StoresFields
  <2>2. worker.eof \in BOOLEAN
    BY DEF WorkerTypes, Attempts
  <2>3. Len(<<>>) < ChunkBlocks
    BY BlockAssumption
  <2>4. QED
    BY <2>1, <2>2, <2>3 DEF BufferInv
<1>8. CASE Running /\ WorkerFrame /\ Captures
  BY <1>8 DEF Captures, WorkerFrame, user, BufferInv
<1>9. ASSUME NEW i \in Inode, NEW blocks \in Seq(Block), NEW mtime \in Nat,
             NEW at \in Inode \cup {NoFile}, ChangesOne(i, blocks, mtime, at)
      PROVE  BufferInv'
  BY <1>9 DEF ChangesOne, Change, BufferInv
<1>10. CASE SwapParent
  BY <1>10 DEF SwapParent, BufferInv
<1>11. CASE RequestStop
  BY <1>11 DEF RequestStop, user, BufferInv
<1>12. CASE UNCHANGED vars
  BY <1>12 DEF vars, user, BufferInv
<1>13. QED
  BY <1>1, <1>2, <1>3, <1>4, <1>5, <1>6, <1>7, <1>8, <1>9, <1>10, <1>11, <1>12,
     WorkerStepCases, UserStepCases DEF Next

\* The rows of an attempt follow one another and give what was hashed.
LEMMA SpoolInvStep ==
    ASSUME FileTypes, HistoryTypes, WorkerTypes, RowsInv, [Next]_vars
    PROVE  SpoolInv'
<1>. SpoolInv
  BY RowsParts
<1>1. CASE Running /\ WorkerFrame /\ StopsWork
  BY <1>1 DEF StopsWork, Fatal, WorkerFrame, user, SpoolInv
<1>2. CASE Running /\ WorkerFrame /\ Misses
  <2>1. PICK code : Fails(code)
    BY <1>2 DEF Misses, SourceChanged, Errs, SourceError
  <2>2. UNCHANGED objects
    BY <1>2 DEF Misses, Errs
  <2>3. CASE worker' = worker
    BY <2>2, <2>3 DEF SpoolInv
  <2>4. CASE worker' = Attempt(1)
    <3>1. worker'.refs = <<>> /\ worker'.hashed = <<>> /\ worker'.sequence = 0
      BY <2>4, AttemptFields
    <3>2. Len(worker'.refs) = 0 /\ Spooled(worker'.refs, worker'.hashed, objects')
      BY <3>1, SpooledNothing
    <3>3. QED
      BY <3>1, <3>2 DEF SpoolInv
  <2>5. QED
    BY <2>1, <2>3, <2>4, FailsCases
<1>3. CASE Running /\ WorkerFrame /\ Errs
  <2>1. PICK code : Fails(code)
    BY <1>3 DEF Misses, SourceChanged, Errs, SourceError
  <2>2. UNCHANGED objects
    BY <1>3 DEF Misses, Errs
  <2>3. CASE worker' = worker
    BY <2>2, <2>3 DEF SpoolInv
  <2>4. CASE worker' = Attempt(1)
    <3>1. worker'.refs = <<>> /\ worker'.hashed = <<>> /\ worker'.sequence = 0
      BY <2>4, AttemptFields
    <3>2. Len(worker'.refs) = 0 /\ Spooled(worker'.refs, worker'.hashed, objects')
      BY <3>1, SpooledNothing
    <3>3. QED
      BY <3>1, <3>2 DEF SpoolInv
  <2>5. QED
    BY <2>1, <2>3, <2>4, FailsCases
<1>4. CASE Running /\ WorkerFrame /\ Looks
  <2>1. /\ worker'.refs = worker.refs /\ worker'.hashed = worker.hashed
        /\ worker'.sequence = worker.sequence /\ objects' = objects
    BY <1>4, LooksFields DEF Looks
  <2>2. QED
    BY <2>1 DEF SpoolInv
<1>5. CASE Running /\ WorkerFrame /\ Opens
  <2>1. /\ worker'.refs = worker.refs /\ worker'.hashed = worker.hashed
        /\ worker'.sequence = worker.sequence /\ objects' = objects
    BY <1>5, OpensFields DEF Opens
  <2>2. QED
    BY <2>1 DEF SpoolInv
<1>6. CASE Running /\ WorkerFrame /\ Reads
  <2>1. /\ worker'.refs = worker.refs /\ worker'.hashed = worker.hashed
        /\ worker'.sequence = worker.sequence /\ objects' = objects
    BY <1>6, ReadsFields DEF Reads
  <2>2. QED
    BY <2>1 DEF SpoolInv
<1>7. CASE Running /\ WorkerFrame /\ Stores
  <2> DEFINE chunk == worker.buffer
             hashed == worker.hashed
             refs == worker.refs
             sequence == worker.sequence
             offset == worker.offset
             row == [sequence |-> sequence, offset |-> offset, chunk |-> chunk]
  <2>1. /\ refs \in Seq(RowType) /\ hashed \in Seq(Block) /\ chunk \in Seq(Block)
        /\ sequence = Len(refs) /\ offset = Len(hashed)
    BY DEF WorkerTypes, Attempts, RowType, SpoolInv
  <2>2. chunk # <<>> /\ Len(chunk) <= ChunkBlocks
    BY <1>7, RowsParts DEF BufferInv, Stores
  <2>3. Spooled(refs, hashed, objects)
    BY DEF SpoolInv
  <2>4. objects' = objects \cup {chunk}
    BY <1>7 DEF Stores, StoreChunk
  <2>5. /\ worker'.refs = Append(refs, row) /\ worker'.hashed = hashed \o chunk
        /\ worker'.sequence = sequence + 1
    BY <1>7, StoresFields
  <2> HIDE DEF chunk, hashed, refs, sequence, offset
  <2>6. /\ Len(Append(refs, row)) = sequence + 1
        /\ Spooled(Append(refs, row), hashed \o chunk, objects \cup {chunk})
    BY <2>1, <2>2, <2>3, SpooledOne
  <2> HIDE DEF row
  <2>7. QED
    BY <2>4, <2>5, <2>6 DEF SpoolInv
<1>8. CASE Running /\ WorkerFrame /\ Captures
  BY <1>8 DEF Captures, WorkerFrame, user, SpoolInv
<1>9. ASSUME NEW i \in Inode, NEW blocks \in Seq(Block), NEW mtime \in Nat,
             NEW at \in Inode \cup {NoFile}, ChangesOne(i, blocks, mtime, at)
      PROVE  SpoolInv'
  BY <1>9 DEF ChangesOne, Change, SpoolInv
<1>10. CASE SwapParent
  BY <1>10 DEF SwapParent, SpoolInv
<1>11. CASE RequestStop
  BY <1>11 DEF RequestStop, user, SpoolInv
<1>12. CASE UNCHANGED vars
  BY <1>12 DEF vars, user, SpoolInv
<1>13. QED
  BY <1>1, <1>2, <1>3, <1>4, <1>5, <1>6, <1>7, <1>8, <1>9, <1>10, <1>11, <1>12,
     WorkerStepCases, UserStepCases DEF Next

\* An attempt keeps its rows.
LEMMA RowsInvStep ==
    ASSUME FileTypes, HistoryTypes, WorkerTypes, RowsInv, [Next]_vars
    PROVE  RowsInv'
  BY BufferInvStep, SpoolInvStep, RowsPartsNext
-----------------------------------------------------------------------------
(* Versions, errors and the end *)

\* While the capture runs there is no result.
LEMMA RunningHasNoResult == Running => output.kind = "none" /\ ~Stored
  BY DEF Running, Nothing, Stored

\* The version a file has is one it has had.
LEMMA VersionInvStep ==
    ASSUME FileTypes, HistoryTypes, WorkerTypes, VersionInv, [Next]_vars
    PROVE  VersionInv'
<1>1. CASE Running /\ WorkerFrame /\ StopsWork
  BY <1>1 DEF StopsWork, Fatal, WorkerFrame, user, VersionInv, HistoryTypes
<1>2. CASE Running /\ WorkerFrame /\ Misses
  BY <1>2 DEF Misses, SourceChanged, WorkerFrame, user, VersionInv, HistoryTypes
<1>3. CASE Running /\ WorkerFrame /\ Errs
  BY <1>3 DEF Errs, SourceError, WorkerFrame, user, VersionInv, HistoryTypes
<1>4. CASE Running /\ WorkerFrame /\ Looks
  BY <1>4 DEF Looks, WorkerFrame, user, Goes, VersionInv
<1>5. CASE Running /\ WorkerFrame /\ Opens
  BY <1>5 DEF Opens, WorkerFrame, user, Goes, VersionInv
<1>6. CASE Running /\ WorkerFrame /\ Reads
  BY <1>6 DEF Reads, WorkerFrame, user, Goes, VersionInv
<1>7. CASE Running /\ WorkerFrame /\ Stores
  BY <1>7 DEF Stores, StoreChunk, WorkerFrame, user, Goes, VersionInv
<1>8. CASE Running /\ WorkerFrame /\ Captures
  BY <1>8 DEF Captures, WorkerFrame, user, VersionInv, HistoryTypes
<1>9. ASSUME NEW i \in Inode, NEW blocks \in Seq(Block), NEW mtime \in Nat,
             NEW at \in Inode \cup {NoFile}, ChangesOne(i, blocks, mtime, at)
      PROVE  VersionInv'
  <2>1. /\ inode' = [inode EXCEPT ![i] = [blocks |-> blocks, mtime |-> mtime, ctime |-> clock']]
        /\ history'.versions = history.versions \cup {[id |-> i, blocks |-> blocks, mtime |-> mtime]}
    BY <1>9 DEF ChangesOne, Change, HistoryTypes
  <2>2. ASSUME NEW j \in Inode
        PROVE  [id |-> j, blocks |-> inode'[j].blocks, mtime |-> inode'[j].mtime] \in history'.versions
    <3>1. CASE j = i
      BY <2>1, <3>1 DEF FileTypes
    <3>2. CASE j # i
      <4>1. inode'[j] = inode[j]
        BY <2>1, <3>2 DEF FileTypes
      <4>2. [id |-> j, blocks |-> inode[j].blocks, mtime |-> inode[j].mtime] \in history.versions
        BY DEF VersionInv
      <4>3. QED
        BY <4>1, <4>2, <2>1
    <3>3. QED
      BY <3>1, <3>2
  <2>3. QED
    BY <2>2 DEF VersionInv
<1>10. CASE SwapParent
  BY <1>10 DEF SwapParent, VersionInv, HistoryTypes
<1>11. CASE RequestStop
  BY <1>11 DEF RequestStop, user, VersionInv, HistoryTypes
<1>12. CASE UNCHANGED vars
  BY <1>12 DEF vars, user, VersionInv, HistoryTypes
<1>13. QED
  BY <1>1, <1>2, <1>3, <1>4, <1>5, <1>6, <1>7, <1>8, <1>9, <1>10, <1>11, <1>12,
     WorkerStepCases, UserStepCases DEF Next

\* An error of the repository ends the capture as one.
LEMMA RepositoryErrorStep ==
    ASSUME FileTypes, HistoryTypes, WorkerTypes, RepositoryErrorIsFatal, [Next]_vars
    PROVE  RepositoryErrorIsFatal'
<1>1. CASE Running /\ WorkerFrame /\ StopsWork
  BY <1>1, RunningHasNoResult DEF StopsWork, Fatal, WorkerFrame, user,
     RepositoryErrorIsFatal, HistoryTypes
<1>2. CASE Running /\ WorkerFrame /\ Misses
  BY <1>2, RunningHasNoResult DEF Misses, SourceChanged, WorkerFrame, user,
     RepositoryErrorIsFatal, HistoryTypes
<1>3. CASE Running /\ WorkerFrame /\ Errs
  BY <1>3, RunningHasNoResult DEF Errs, SourceError, WorkerFrame, user,
     RepositoryErrorIsFatal, HistoryTypes
<1>4. CASE Running /\ WorkerFrame /\ Looks
  BY <1>4 DEF Looks, WorkerFrame, user, Goes, RepositoryErrorIsFatal
<1>5. CASE Running /\ WorkerFrame /\ Opens
  BY <1>5 DEF Opens, WorkerFrame, user, Goes, RepositoryErrorIsFatal
<1>6. CASE Running /\ WorkerFrame /\ Reads
  BY <1>6 DEF Reads, WorkerFrame, user, Goes, RepositoryErrorIsFatal
<1>7. CASE Running /\ WorkerFrame /\ Stores
  BY <1>7 DEF Stores, StoreChunk, WorkerFrame, user, Goes, RepositoryErrorIsFatal
<1>8. CASE Running /\ WorkerFrame /\ Captures
  BY <1>8, RunningHasNoResult DEF Captures, WorkerFrame, user, RepositoryErrorIsFatal,
     HistoryTypes
<1>9. ASSUME NEW i \in Inode, NEW blocks \in Seq(Block), NEW mtime \in Nat,
             NEW at \in Inode \cup {NoFile}, ChangesOne(i, blocks, mtime, at)
      PROVE  RepositoryErrorIsFatal'
  BY <1>9, RunningHasNoResult DEF ChangesOne, Change, RepositoryErrorIsFatal, HistoryTypes
<1>10. CASE SwapParent
  BY <1>10, RunningHasNoResult DEF SwapParent, RepositoryErrorIsFatal, HistoryTypes
<1>11. CASE RequestStop
  BY <1>11, RunningHasNoResult DEF RequestStop, user, RepositoryErrorIsFatal, HistoryTypes
<1>12. CASE UNCHANGED vars
  BY <1>12, RunningHasNoResult DEF vars, user, RepositoryErrorIsFatal, HistoryTypes
<1>13. QED
  BY <1>1, <1>2, <1>3, <1>4, <1>5, <1>6, <1>7, <1>8, <1>9, <1>10, <1>11, <1>12,
     WorkerStepCases, UserStepCases DEF Next

\* What ends as an entry is what the last look confirmed.
LEMMA EndInvStep ==
    ASSUME FileTypes, HistoryTypes, WorkerTypes, EndInv, [Next]_vars
    PROVE  EndInv'
<1>1. CASE Running /\ WorkerFrame /\ StopsWork
  BY <1>1, RunningHasNoResult DEF StopsWork, Fatal, WorkerFrame, user, EndInv, Stored
<1>2. CASE Running /\ WorkerFrame /\ Misses
  BY <1>2, RunningHasNoResult, FailsCases DEF Misses, SourceChanged, WorkerFrame, user,
     EndInv, Stored
<1>3. CASE Running /\ WorkerFrame /\ Errs
  BY <1>3, RunningHasNoResult, FailsCases DEF Errs, SourceError, WorkerFrame, user, EndInv,
     Stored
<1>4. CASE Running /\ WorkerFrame /\ Looks
  BY <1>4, RunningHasNoResult DEF Looks, WorkerFrame, user, Goes, EndInv, Stored
<1>5. CASE Running /\ WorkerFrame /\ Opens
  BY <1>5, RunningHasNoResult DEF Opens, WorkerFrame, user, Goes, EndInv, Stored
<1>6. CASE Running /\ WorkerFrame /\ Reads
  BY <1>6, RunningHasNoResult DEF Reads, WorkerFrame, user, Goes, EndInv, Stored
<1>7. CASE Running /\ WorkerFrame /\ Stores
  BY <1>7, RunningHasNoResult DEF Stores, StoreChunk, WorkerFrame, user, Goes, EndInv,
     Stored
<1>8. CASE Running /\ WorkerFrame /\ Captures
  <2>1. /\ worker' = worker /\ inode' = inode /\ name' = name /\ output' = Captured
    BY <1>8 DEF Captures, WorkerFrame, user
  <2>2. Captured' = Captured /\ Metadata(name)' = Metadata(name)
    BY <2>1 DEF Captured, Metadata
  <2>3. QED
    BY <1>8, <2>1, <2>2 DEF EndInv, Captures
<1>9. ASSUME NEW i \in Inode, NEW blocks \in Seq(Block), NEW mtime \in Nat,
             NEW at \in Inode \cup {NoFile}, ChangesOne(i, blocks, mtime, at)
      PROVE  EndInv'
  BY <1>9, RunningHasNoResult DEF ChangesOne, Change, EndInv, Stored, Running
<1>10. CASE SwapParent
  BY <1>10, RunningHasNoResult DEF SwapParent, EndInv, Stored, Running
<1>11. CASE RequestStop
  BY <1>11, RunningHasNoResult DEF RequestStop, user, EndInv, Stored, Running
<1>12. CASE UNCHANGED vars
  <2>1. /\ worker' = worker /\ inode' = inode /\ name' = name /\ output' = output
    BY <1>12 DEF vars, user
  <2>2. Captured' = Captured /\ Metadata(name)' = Metadata(name)
    BY <2>1 DEF Captured, Metadata
  <2>3. QED
    BY <2>1, <2>2 DEF EndInv, Stored
<1>13. QED
  BY <1>1, <1>2, <1>3, <1>4, <1>5, <1>6, <1>7, <1>8, <1>9, <1>10, <1>11, <1>12,
     WorkerStepCases, UserStepCases DEF Next

-----------------------------------------------------------------------------
(* What was read so far *)

\* An attempt that has just opened its file has read nothing.
LEMMA OpensFrom ==
    ASSUME WorkerTypes, BufferInv, Opens, NEW blocks \in Seq(Block)
    PROVE  ReadFrom(worker', blocks)
<1>1. worker'.hashed = <<>> /\ worker'.buffer = <<>> /\ worker'.pc = "read" /\ ~worker'.eof
  BY OpensFields DEF Opens, BufferInv
<1>2. QED
  BY <1>1, BeginsEmpty DEF ReadFrom

\* Reading on from the same blocks.
LEMMA ReadsFrom ==
    ASSUME FileTypes, WorkerTypes, RowsInv, Reads, ReadFrom(worker, inode[worker.fd].blocks)
    PROVE  ReadFrom(worker', inode[worker.fd].blocks)
<1>1. /\ worker'.hashed = worker.hashed /\ worker'.buffer = Filled
      /\ worker'.pc = AfterRead /\ worker'.eof = Ended
  BY ReadsFields
<1>2. Begins(worker.hashed, worker.buffer, inode[worker.fd].blocks)
  BY DEF ReadFrom
<1>3. /\ Begins(worker.hashed, Filled, inode[worker.fd].blocks)
      /\ Ended => Len(worker.hashed) + Len(Filled) = Len(inode[worker.fd].blocks)
      /\ AfterRead = "after" => Ended
  BY <1>2, ReadOutcome DEF Reads
<1>4. QED
  BY <1>1, <1>3 DEF ReadFrom

\* What is hashed takes the buffer over.
LEMMA StoresFrom ==
    ASSUME WorkerTypes, Stores, NEW blocks \in Seq(Block), ReadFrom(worker, blocks)
    PROVE  ReadFrom(worker', blocks)
<1> DEFINE h == worker.hashed
           b == worker.buffer
           h2 == worker'.hashed
           b2 == worker'.buffer
<1>1. /\ h \in Seq(Block) /\ b \in Seq(Block) /\ worker.eof \in BOOLEAN
  BY DEF WorkerTypes, Attempts
<1>2. /\ h2 = h \o b /\ b2 = <<>> /\ worker'.eof = worker.eof
      /\ worker'.pc = IF worker.eof THEN "after" ELSE "read"
  BY StoresFields
<1>3. Begins(h, b, blocks) /\ (worker.eof => Len(h) + Len(b) = Len(blocks))
  BY DEF ReadFrom
<1> HIDE DEF h, b, h2, b2
<1>4. Begins(h2, b2, blocks)
  BY <1>1, <1>2, <1>3, BeginsStore
<1>5. worker'.eof \/ worker'.pc = "after" => worker.eof
  BY <1>2
<1>6. Len(h2) + Len(b2) = Len(h) + Len(b)
  BY <1>1, <1>2
<1>7. QED
  BY <1>3, <1>4, <1>5, <1>6 DEF ReadFrom, h2, b2

\* A file that was read to the end is what was hashed.
LEMMA ReadWhole ==
    ASSUME WorkerTypes, BufferInv, worker.pc = "after", NEW blocks \in Seq(Block),
           ReadFrom(worker, blocks)
    PROVE  worker.hashed = blocks /\ worker.bytesRead = Len(blocks)
<1> DEFINE h == worker.hashed
           b == worker.buffer
<1>1. h \in Seq(Block) /\ b = <<>> /\ worker.bytesRead = Len(h)
  BY DEF WorkerTypes, Attempts, BufferInv
<1>2. Begins(h, b, blocks) /\ Len(h) + Len(b) = Len(blocks)
  BY DEF ReadFrom
<1> HIDE DEF h, b
<1>3. h = blocks
  BY <1>1, <1>2, BeginsWhole
<1>4. QED
  BY <1>1, <1>3 DEF h
-----------------------------------------------------------------------------
(* The second attempt *)

\* Changes by the user and failed calls so far.
Trouble == changes + history.sourceErrors

\* RetryInv and RetryAbsorbsOneChange, in terms of them.
LEMMA RetryParts ==
    /\ RetryInv <=> /\ changes = 0 => name \in Regular
                    /\ worker.attempt <= Trouble \/ ~Running
                    /\ Running /\ Trouble <= worker.attempt /\ name \in Regular => Undisturbed
    /\ RetryAbsorbsOneChange <=>
         (output.kind = "warning" /\ retry /\ name \in Regular /\ ~history.swapped => Trouble >= 2)
  BY DEF RetryInv, RetryAbsorbsOneChange, Trouble
LEMMA RetryPartsNext ==
    /\ RetryInv' <=> /\ changes' = 0 => name' \in Regular
                     /\ worker'.attempt <= Trouble' \/ ~Running'
                     /\ Running' /\ Trouble' <= worker'.attempt /\ name' \in Regular => Undisturbed'
    /\ RetryAbsorbsOneChange' <=>
         (output'.kind = "warning" /\ retry' /\ name' \in Regular /\ ~history'.swapped => Trouble' >= 2)
  BY DEF RetryInv, RetryAbsorbsOneChange, Trouble

LEMMA TroubleType ==
    ASSUME FileTypes, HistoryTypes, WorkerTypes
    PROVE  /\ Trouble \in Nat /\ changes \in Nat /\ worker.attempt \in {0, 1}
           /\ Trouble >= changes
  BY DEF FileTypes, HistoryTypes, WorkerTypes, Attempts, Trouble

\* A difference is seen only after something happened in this attempt.
LEMMA MissesForAReason ==
    ASSUME FileTypes, HistoryTypes, WorkerTypes, RowsInv, RetryInv, Running, Misses
    PROVE  /\ Trouble >= 1
           /\ name \in Regular => Trouble > worker.attempt
<1>1. CASE name = NoFile
  <2>1. name \notin Regular
    BY <1>1, InodeAssumption DEF Inode
  <2>2. changes # 0
    BY <2>1, RetryParts
  <2>3. QED
    BY <2>1, <2>2, TroubleType
<1>2. CASE name # NoFile
  <2>1. /\ worker.pc = "after" /\ name \in Inode
        /\ \/ worker.bytesRead # worker.before.size
           \/ ~SameStableIdentity(worker.before, Metadata(name))
    BY <1>2 DEF Misses, FileTypes
  <2>2. ASSUME name \in Regular, Trouble <= worker.attempt PROVE FALSE
    <3>1. Undisturbed
      BY <2>2, RetryParts
    <3>2. worker.before = Metadata(name) /\ ReadFrom(worker, inode[name].blocks)
      BY <3>1, <2>1 DEF Undisturbed
    <3>3. inode[name].blocks \in Seq(Block)
      BY <2>1 DEF FileTypes
    <3>4. worker.bytesRead = Len(inode[name].blocks)
      BY <2>1, <3>2, <3>3, ReadWhole, RowsParts
    <3>5. worker.before.size = Len(inode[name].blocks)
      BY <2>1, <3>2, MetadataType
    <3>6. SameStableIdentity(worker.before, Metadata(name))
      BY <3>2 DEF SameStableIdentity
    <3>7. QED
      BY <2>1, <3>4, <3>5, <3>6
  <2>3. name \in Regular => Trouble > worker.attempt
    BY <2>2, TroubleType
  <2>4. name \notin Regular => changes # 0
    BY RetryParts
  <2>5. QED
    BY <2>3, <2>4, TroubleType
<1>3. QED
  BY <1>1, <1>2

\* An attempt fails for a reason of its own, and a file is given up for two.
LEMMA RetryInvStep ==
    ASSUME FileTypes, HistoryTypes, WorkerTypes, RowsInv, RetryInv,
           RetryAbsorbsOneChange, [Next]_vars
    PROVE  (RetryInv /\ RetryAbsorbsOneChange)'
<1>1. CASE Running /\ WorkerFrame /\ StopsWork
  <2>1. /\ changes' = changes /\ name' = name
        /\ output'.kind \notin {"none", "warning"}
    BY <1>1 DEF StopsWork, Fatal, WorkerFrame, user
  <2>2. ~Running'
    BY <2>1 DEF Running, Nothing
  <2>3. QED
    BY <2>1, <2>2, RetryParts, RetryPartsNext
<1>2. CASE Running /\ WorkerFrame /\ Misses
  <2>1. PICK code : Fails(code)
    BY <1>2 DEF Misses, SourceChanged, Errs, SourceError
  <2>2. /\ changes' = changes /\ name' = name /\ retry' = retry
        /\ history'.swapped = history.swapped /\ Trouble' = Trouble
    BY <1>2 DEF Misses, SourceChanged, Errs, SourceError, WorkerFrame, user, Trouble, HistoryTypes,
       FileTypes
  <2>3. Trouble' >= 1 /\ (name \in Regular => Trouble' > worker.attempt)
    BY <1>2, <2>2, TroubleType, MissesForAReason
  <2>4. CASE worker' = Attempt(1) /\ output' = output
    <3>1. worker'.attempt = 1 /\ worker'.pc = "before"
      BY <2>4, AttemptFields
    <3>2. Undisturbed'
      BY <3>1 DEF Undisturbed
    <3>3. output'.kind = "none"
      BY <1>2, <2>4, RunningHasNoResult
    <3>4. QED
      BY <2>2, <2>3, <3>1, <3>2, <3>3, RetryParts, RetryPartsNext
  <2>5. CASE (~retry \/ worker.attempt # 0) /\ worker' = worker /\ output' # Nothing
    <3>1. ~Running'
      BY <2>5 DEF Running
    <3>2. retry /\ name \in Regular => Trouble' >= 2
      <4>1. Trouble' \in Nat /\ worker.attempt \in {0, 1}
        BY <2>2, TroubleType
      <4>2. QED
        BY <2>3, <2>5, <4>1
    <3>3. QED
      BY <2>2, <3>1, <3>2, RetryParts, RetryPartsNext
  <2>6. QED
    BY <2>1, <2>4, <2>5, FailsCases
<1>3. CASE Running /\ WorkerFrame /\ Errs
  <2>1. PICK code : Fails(code)
    BY <1>3 DEF Misses, SourceChanged, Errs, SourceError
  <2>2. /\ changes' = changes /\ name' = name /\ retry' = retry
        /\ history'.swapped = history.swapped /\ Trouble' = Trouble + 1
    BY <1>3 DEF Misses, SourceChanged, Errs, SourceError, WorkerFrame, user, Trouble, HistoryTypes,
       FileTypes
  <2>3. Trouble' >= 1 /\ (name \in Regular => Trouble' > worker.attempt)
    BY <1>3, <2>2, TroubleType, RetryParts
  <2>4. CASE worker' = Attempt(1) /\ output' = output
    <3>1. worker'.attempt = 1 /\ worker'.pc = "before"
      BY <2>4, AttemptFields
    <3>2. Undisturbed'
      BY <3>1 DEF Undisturbed
    <3>3. output'.kind = "none"
      BY <1>3, <2>4, RunningHasNoResult
    <3>4. QED
      BY <2>2, <2>3, <3>1, <3>2, <3>3, RetryParts, RetryPartsNext
  <2>5. CASE (~retry \/ worker.attempt # 0) /\ worker' = worker /\ output' # Nothing
    <3>1. ~Running'
      BY <2>5 DEF Running
    <3>2. retry /\ name \in Regular => Trouble' >= 2
      <4>1. Trouble' \in Nat /\ worker.attempt \in {0, 1}
        BY <2>2, TroubleType
      <4>2. QED
        BY <2>3, <2>5, <4>1
    <3>3. QED
      BY <2>2, <3>1, <3>2, RetryParts, RetryPartsNext
  <2>6. QED
    BY <2>1, <2>4, <2>5, FailsCases
<1>4. CASE Running /\ WorkerFrame /\ Looks
  <2>1. /\ worker'.attempt = worker.attempt /\ output' = output /\ history' = history
        /\ changes' = changes /\ name' = name /\ inode' = inode /\ retry' = retry
    BY <1>4, LooksFields DEF WorkerFrame, user
  <2>2. Trouble' = Trouble /\ Running' = Running /\ output'.kind = "none"
    BY <1>4, <2>1, RunningHasNoResult DEF Trouble, Running
  <2>3. Metadata(name)' = Metadata(name)
    BY <2>1 DEF Metadata
  <2>4. ASSUME Undisturbed, name \in Regular PROVE Undisturbed'
    <3>1. worker'.before = Metadata(name) /\ worker'.pc = "open"
      BY <1>4, LooksFields
    <3>2. QED
      BY <2>3, <3>1 DEF Undisturbed
  <2>5. QED
    BY <1>4, <2>1, <2>2, <2>4, RetryParts, RetryPartsNext
<1>5. CASE Running /\ WorkerFrame /\ Opens
  <2>1. /\ worker'.attempt = worker.attempt /\ output' = output /\ history' = history
        /\ changes' = changes /\ name' = name /\ inode' = inode /\ retry' = retry
    BY <1>5, OpensFields DEF WorkerFrame, user
  <2>2. Trouble' = Trouble /\ Running' = Running /\ output'.kind = "none"
    BY <1>5, <2>1, RunningHasNoResult DEF Trouble, Running
  <2>3. Metadata(name)' = Metadata(name)
    BY <2>1 DEF Metadata
  <2>4. ASSUME Undisturbed, name \in Regular PROVE Undisturbed'
    <3>1. worker'.before = worker.before /\ worker'.fd = name
      BY <1>5, <2>4, OpensFields, InodeAssumption DEF Resolve
    <3>2. inode[name].blocks \in Seq(Block)
      BY <2>4 DEF FileTypes, Inode
    <3>3. ReadFrom(worker', inode[name].blocks)
      BY <1>5, <3>2, OpensFrom, RowsParts
    <3>4. worker.before = Metadata(name)
      BY <1>5, <2>4 DEF Opens, Undisturbed
    <3>5. QED
      BY <2>1, <2>3, <3>1, <3>3, <3>4 DEF Undisturbed
  <2>5. QED
    BY <1>5, <2>1, <2>2, <2>4, RetryParts, RetryPartsNext
<1>6. CASE Running /\ WorkerFrame /\ Reads
  <2>1. /\ worker'.attempt = worker.attempt /\ output' = output /\ history' = history
        /\ changes' = changes /\ name' = name /\ inode' = inode /\ retry' = retry
    BY <1>6, ReadsFields DEF WorkerFrame, user
  <2>2. Trouble' = Trouble /\ Running' = Running /\ output'.kind = "none"
    BY <1>6, <2>1, RunningHasNoResult DEF Trouble, Running
  <2>3. Metadata(name)' = Metadata(name)
    BY <2>1 DEF Metadata
  <2>4. ASSUME Undisturbed, name \in Regular PROVE Undisturbed'
    <3>1. worker'.before = worker.before /\ worker'.fd = worker.fd
      BY <1>6, ReadsFields
    <3>2. worker.before = Metadata(name) /\ worker.fd = name /\ ReadFrom(worker, inode[name].blocks)
      BY <1>6, <2>4 DEF Reads, Undisturbed
    <3>3. ReadFrom(worker', inode[name].blocks)
      BY <1>6, <3>2, ReadsFrom
    <3>4. QED
      BY <2>1, <2>3, <3>1, <3>2, <3>3 DEF Undisturbed
  <2>5. QED
    BY <1>6, <2>1, <2>2, <2>4, RetryParts, RetryPartsNext
<1>7. CASE Running /\ WorkerFrame /\ Stores
  <2>1. /\ worker'.attempt = worker.attempt /\ output' = output /\ history' = history
        /\ changes' = changes /\ name' = name /\ inode' = inode /\ retry' = retry
    BY <1>7, StoresFields DEF WorkerFrame, user
  <2>2. Trouble' = Trouble /\ Running' = Running /\ output'.kind = "none"
    BY <1>7, <2>1, RunningHasNoResult DEF Trouble, Running
  <2>3. Metadata(name)' = Metadata(name)
    BY <2>1 DEF Metadata
  <2>4. ASSUME Undisturbed, name \in Regular PROVE Undisturbed'
    <3>1. worker'.before = worker.before /\ worker'.fd = worker.fd
      BY <1>7, StoresFields
    <3>2. worker.before = Metadata(name) /\ worker.fd = name /\ ReadFrom(worker, inode[name].blocks)
      BY <1>7, <2>4 DEF Stores, Undisturbed
    <3>3. inode[name].blocks \in Seq(Block)
      BY <2>4 DEF FileTypes, Inode
    <3>4. ReadFrom(worker', inode[name].blocks)
      BY <1>7, <3>2, <3>3, StoresFrom
    <3>5. QED
      BY <2>1, <2>3, <3>1, <3>2, <3>4 DEF Undisturbed
  <2>5. QED
    BY <1>7, <2>1, <2>2, <2>4, RetryParts, RetryPartsNext
<1>8. CASE Running /\ WorkerFrame /\ Captures
  <2>1. /\ changes' = changes /\ name' = name
        /\ output'.kind \notin {"none", "warning"}
    BY <1>8 DEF Captures, Captured, WorkerFrame, user
  <2>2. ~Running'
    BY <2>1 DEF Running, Nothing
  <2>3. QED
    BY <2>1, <2>2, RetryParts, RetryPartsNext
<1>9. ASSUME NEW i \in Inode, NEW blocks \in Seq(Block), NEW mtime \in Nat,
             NEW at \in Inode \cup {NoFile}, ChangesOne(i, blocks, mtime, at)
      PROVE  (RetryInv /\ RetryAbsorbsOneChange)'
  <2>1. /\ worker' = worker /\ output' = output /\ output'.kind = "none"
        /\ changes' = changes + 1 /\ history'.sourceErrors = history.sourceErrors /\ Running
    BY <1>9, RunningHasNoResult DEF ChangesOne, Change, HistoryTypes
  <2>2. Trouble' = Trouble + 1 /\ changes' # 0
    BY <2>1, TroubleType DEF Trouble, HistoryTypes, FileTypes
  <2>3. worker.attempt <= Trouble /\ Trouble \in Nat /\ worker.attempt \in {0, 1}
    BY <2>1, RetryParts, TroubleType
  <2>4. worker'.attempt <= Trouble' /\ ~(Trouble' <= worker'.attempt)
    BY <2>1, <2>2, <2>3
  <2>5. QED
    BY <2>1, <2>2, <2>4, RetryPartsNext
<1>10. CASE SwapParent
  <2>1. /\ worker' = worker /\ output' = output /\ output'.kind = "none"
        /\ changes' = changes + 1 /\ history'.sourceErrors = history.sourceErrors /\ Running
    BY <1>10, RunningHasNoResult DEF SwapParent, HistoryTypes
  <2>2. Trouble' = Trouble + 1 /\ changes' # 0
    BY <2>1, TroubleType DEF Trouble, HistoryTypes, FileTypes
  <2>3. worker.attempt <= Trouble /\ Trouble \in Nat /\ worker.attempt \in {0, 1}
    BY <2>1, RetryParts, TroubleType
  <2>4. worker'.attempt <= Trouble' /\ ~(Trouble' <= worker'.attempt)
    BY <2>1, <2>2, <2>3
  <2>5. QED
    BY <2>1, <2>2, <2>4, RetryPartsNext
<1>11. CASE RequestStop
  <2>1. /\ worker' = worker /\ output' = output /\ history' = history
        /\ changes' = changes /\ name' = name /\ inode' = inode /\ retry' = retry
    BY <1>11 DEF RequestStop, vars, user
  <2>2. Trouble' = Trouble /\ Running' = Running
    BY <2>1 DEF Trouble, Running
  <2>3. Metadata(name)' = Metadata(name)
    BY <2>1 DEF Metadata
  <2>4. Undisturbed' = Undisturbed
    BY <2>1, <2>3 DEF Undisturbed
  <2>5. QED
    BY <2>1, <2>2, <2>4, RetryParts, RetryPartsNext
<1>12. CASE UNCHANGED vars
  <2>1. /\ worker' = worker /\ output' = output /\ history' = history
        /\ changes' = changes /\ name' = name /\ inode' = inode /\ retry' = retry
    BY <1>12 DEF RequestStop, vars, user
  <2>2. Trouble' = Trouble /\ Running' = Running
    BY <2>1 DEF Trouble, Running
  <2>3. Metadata(name)' = Metadata(name)
    BY <2>1 DEF Metadata
  <2>4. Undisturbed' = Undisturbed
    BY <2>1, <2>3 DEF Undisturbed
  <2>5. QED
    BY <2>1, <2>2, <2>4, RetryParts, RetryPartsNext
<1>13. QED
  BY <1>1, <1>2, <1>3, <1>4, <1>5, <1>6, <1>7, <1>8, <1>9, <1>10, <1>11, <1>12,
     WorkerStepCases, UserStepCases DEF Next
-----------------------------------------------------------------------------
(* Where the clock tells changes apart *)

\* What the change time of the file looked at vouches for.
Vouched ==
    /\ worker.before.mtime = inode[Looked].mtime
    /\ worker.before.size = Len(inode[Looked].blocks)
    /\ worker.pc # "open" /\ worker.fd = Looked => ReadFrom(worker, inode[Looked].blocks)
    /\ worker.pc # "open" /\ Looked \in Regular /\ ~history.swapped /\ name = Looked =>
         worker.fd = Looked

LEMMA SameParts ==
    SameInv <=> (worker.pc # "before" =>
                   /\ Looked \in Inode
                   /\ worker.before.ctime <= inode[Looked].ctime
                   /\ Unchanged => Vouched)
  BY DEF SameInv, Vouched
LEMMA SamePartsNext ==
    SameInv' <=> (worker'.pc # "before" =>
                    /\ Looked' \in Inode
                    /\ worker'.before.ctime <= inode'[Looked'].ctime
                    /\ Unchanged' => Vouched')
  BY DEF SameInv, Vouched

\* A file whose change time is the one seen before has not changed since, and
\* has not left its name and come back.
LEMMA SameInvStep ==
    ASSUME FileTypes, HistoryTypes, WorkerTypes, ClockInv, RowsInv, SameInv,
           ClockSteps = {1}, [Next]_vars
    PROVE  SameInv'
<1>1. CASE Running /\ WorkerFrame /\ StopsWork
  <2>1. /\ worker' = worker /\ inode' = inode /\ name' = name
        /\ history'.swapped = history.swapped
    BY <1>1 DEF StopsWork, Fatal, WorkerFrame, user, HistoryTypes
  <2>2. Looked' = Looked /\ Unchanged' = Unchanged /\ Vouched' = Vouched
    BY <2>1 DEF Looked, Unchanged, Vouched
  <2>3. QED
    BY <2>1, <2>2, SameParts, SamePartsNext
<1>2. CASE Running /\ WorkerFrame /\ Misses
  <2>1. PICK code : Fails(code)
    BY <1>2 DEF Misses, SourceChanged, Errs, SourceError
  <2>2. CASE worker' = worker
    <3>1. inode' = inode /\ name' = name /\ history'.swapped = history.swapped
      BY <1>2 DEF Misses, SourceChanged, WorkerFrame, user, HistoryTypes
    <3>2. Looked' = Looked /\ Unchanged' = Unchanged /\ Vouched' = Vouched
      BY <2>2, <3>1 DEF Looked, Unchanged, Vouched
    <3>3. QED
      BY <2>2, <3>1, <3>2, SameParts, SamePartsNext
  <2>3. CASE worker' = Attempt(1)
    <3>1. worker'.pc = "before"
      BY <2>3, AttemptFields
    <3>2. QED
      BY <3>1, SamePartsNext
  <2>4. QED
    BY <2>1, <2>2, <2>3, FailsCases
<1>3. CASE Running /\ WorkerFrame /\ Errs
  <2>1. PICK code : Fails(code)
    BY <1>3 DEF Misses, SourceChanged, Errs, SourceError
  <2>2. CASE worker' = worker
    <3>1. inode' = inode /\ name' = name /\ history'.swapped = history.swapped
      BY <1>3 DEF Errs, SourceError, WorkerFrame, user, HistoryTypes
    <3>2. Looked' = Looked /\ Unchanged' = Unchanged /\ Vouched' = Vouched
      BY <2>2, <3>1 DEF Looked, Unchanged, Vouched
    <3>3. QED
      BY <2>2, <3>1, <3>2, SameParts, SamePartsNext
  <2>3. CASE worker' = Attempt(1)
    <3>1. worker'.pc = "before"
      BY <2>3, AttemptFields
    <3>2. QED
      BY <3>1, SamePartsNext
  <2>4. QED
    BY <2>1, <2>2, <2>3, FailsCases
<1>4. CASE Running /\ WorkerFrame /\ Looks
  <2>1. name \in Inode /\ inode' = inode
    BY <1>4 DEF Looks, FileTypes, WorkerFrame, user
  <2>2. worker'.before = Metadata(name) /\ worker'.pc = "open"
    BY <1>4, LooksFields
  <2>3. /\ Looked' = name /\ worker'.before.ctime = inode[name].ctime
        /\ worker'.before.mtime = inode[name].mtime
        /\ worker'.before.size = Len(inode[name].blocks)
    BY <2>1, <2>2, MetadataType DEF Looked
  <2>4. inode[name].ctime \in Nat
    BY <2>1 DEF FileTypes
  <2>5. Vouched'
    BY <2>1, <2>2, <2>3 DEF Vouched
  <2>6. worker'.before.ctime <= inode'[Looked'].ctime
    BY <2>1, <2>3, <2>4
  <2>7. QED
    BY <2>1, <2>3, <2>5, <2>6, SamePartsNext
<1>5. CASE Running /\ WorkerFrame /\ Opens
  <2>1. /\ worker'.before = worker.before /\ worker'.pc # "open" /\ worker'.fd = Resolve(name)
        /\ history' = history /\ inode' = inode /\ name' = name /\ worker.pc # "before"
    BY <1>5, OpensFields DEF Opens, WorkerFrame, user
  <2>2. Looked' = Looked /\ Unchanged' = Unchanged /\ Looked \in Inode
    BY <2>1, SameParts DEF Looked, Unchanged
  <2>3. inode[Looked].blocks \in Seq(Block)
    BY <2>2 DEF FileTypes
  <2>4. ReadFrom(worker', inode[Looked].blocks)
    BY <1>5, <2>3, OpensFrom, RowsParts
  <2>5. Vouched => Vouched'
    <3>1. Looked \in Regular /\ name = Looked => worker'.fd = Looked
      BY <2>1, InodeAssumption DEF Resolve
    <3>2. QED
      BY <2>1, <2>2, <2>4, <3>1 DEF Vouched
  <2>6. QED
    BY <2>1, <2>2, <2>5, SameParts, SamePartsNext
<1>6. CASE Running /\ WorkerFrame /\ Reads
  <2>1. /\ worker'.before = worker.before /\ worker'.pc # "open" /\ worker'.fd = worker.fd
        /\ history' = history /\ inode' = inode /\ name' = name /\ worker.pc # "before"
    BY <1>6, ReadsFields, ReadOutcome DEF Reads, WorkerFrame, user
  <2>2. Looked' = Looked /\ Unchanged' = Unchanged /\ Looked \in Inode
    BY <2>1, SameParts DEF Looked, Unchanged
  <2>3. inode[Looked].blocks \in Seq(Block)
    BY <2>2 DEF FileTypes
  <2>4. worker.fd = Looked /\ ReadFrom(worker, inode[Looked].blocks) =>
          ReadFrom(worker', inode[Looked].blocks)
    BY <1>6, ReadsFrom
  <2>5. Vouched => Vouched'
    <3>1. worker.pc # "open"
      BY <1>6 DEF Reads
    <3>2. QED
      BY <2>1, <2>2, <2>4, <3>1 DEF Vouched
  <2>6. QED
    BY <2>1, <2>2, <2>5, SameParts, SamePartsNext
<1>7. CASE Running /\ WorkerFrame /\ Stores
  <2>1. /\ worker'.before = worker.before /\ worker'.pc # "open" /\ worker'.fd = worker.fd
        /\ history' = history /\ inode' = inode /\ name' = name /\ worker.pc # "before"
    BY <1>7, StoresFields DEF Stores, WorkerFrame, user
  <2>2. Looked' = Looked /\ Unchanged' = Unchanged /\ Looked \in Inode
    BY <2>1, SameParts DEF Looked, Unchanged
  <2>3. inode[Looked].blocks \in Seq(Block)
    BY <2>2 DEF FileTypes
  <2>4. ReadFrom(worker, inode[Looked].blocks) => ReadFrom(worker', inode[Looked].blocks)
    BY <1>7, <2>3, StoresFrom
  <2>5. Vouched => Vouched'
    <3>1. worker.pc # "open"
      BY <1>7 DEF Stores
    <3>2. QED
      BY <2>1, <2>2, <2>4, <3>1 DEF Vouched
  <2>6. QED
    BY <2>1, <2>2, <2>5, SameParts, SamePartsNext
<1>8. CASE Running /\ WorkerFrame /\ Captures
  <2>1. /\ worker' = worker /\ inode' = inode /\ name' = name
        /\ history'.swapped = history.swapped
    BY <1>8 DEF Captures, WorkerFrame, user, HistoryTypes
  <2>2. Looked' = Looked /\ Unchanged' = Unchanged /\ Vouched' = Vouched
    BY <2>1 DEF Looked, Unchanged, Vouched
  <2>3. QED
    BY <2>1, <2>2, SameParts, SamePartsNext
<1>9. ASSUME NEW i \in Inode, NEW blocks \in Seq(Block), NEW mtime \in Nat,
             NEW at \in Inode \cup {NoFile}, ChangesOne(i, blocks, mtime, at)
      PROVE  SameInv'
  <2>1. /\ worker' = worker /\ name' = at /\ at \in {name, i, NoFile}
        /\ inode' = [inode EXCEPT ![i] = [blocks |-> blocks, mtime |-> mtime, ctime |-> clock']]
        /\ history'.swapped = history.swapped
    BY <1>9 DEF ChangesOne, Change, HistoryTypes
  <2>2. clock' = clock + 1 /\ clock \in Nat
    BY <1>9 DEF ChangesOne, Ticks, FileTypes
  <2>3. Looked' = Looked
    BY <2>1 DEF Looked
  <2>4. CASE worker.pc = "before"
    BY <2>1, <2>4, SamePartsNext
  <2>5. CASE worker.pc # "before" /\ Looked = i
    <3>1. /\ inode'[i].ctime = clock + 1
          /\ worker.before.ctime <= inode[i].ctime /\ inode[i].ctime <= clock
      BY <2>1, <2>2, <2>5, SameParts DEF ClockInv, FileTypes
    <3>2. inode[i].ctime \in Nat /\ worker.before.ctime \in Nat
      BY DEF FileTypes, WorkerTypes, Attempts, FileMetadata
    <3>3. worker.before.ctime < clock + 1
      BY <3>1, <3>2, <2>2
    <3>4. worker'.before.ctime <= inode'[Looked'].ctime /\ ~Unchanged'
      BY <2>1, <2>2, <2>3, <2>5, <3>1, <3>2, <3>3 DEF Unchanged
    <3>5. QED
      BY <2>3, <2>5, <3>4, SamePartsNext
  <2>6. CASE worker.pc # "before" /\ Looked # i
    <3>1. Looked \in Inode /\ Looked # NoFile
      BY <2>6, SameParts, InodeAssumption
    <3>2. inode'[Looked] = inode[Looked]
      BY <2>1, <2>6, <3>1 DEF FileTypes
    <3>3. name' = Looked => name = Looked
      BY <2>1, <2>6, <3>1
    <3>4. Unchanged' = Unchanged
      BY <2>1, <2>3, <3>2 DEF Unchanged
    <3>5. Vouched => Vouched'
      BY <2>1, <2>3, <3>2, <3>3 DEF Vouched
    <3>6. QED
      BY <2>1, <2>3, <2>6, <3>1, <3>2, <3>4, <3>5, SameParts, SamePartsNext
  <2>7. QED
    BY <2>4, <2>5, <2>6
<1>10. CASE SwapParent
  <2>1. worker' = worker /\ inode' = inode /\ history'.swapped = TRUE
    BY <1>10 DEF SwapParent, HistoryTypes
  <2>2. Looked' = Looked /\ Unchanged' = Unchanged /\ (Vouched => Vouched')
    BY <2>1 DEF Looked, Unchanged, Vouched
  <2>3. QED
    BY <2>1, <2>2, SameParts, SamePartsNext
<1>11. CASE RequestStop
  <2>1. /\ worker' = worker /\ inode' = inode /\ name' = name
        /\ history'.swapped = history.swapped
    BY <1>11 DEF RequestStop, user, HistoryTypes
  <2>2. Looked' = Looked /\ Unchanged' = Unchanged /\ Vouched' = Vouched
    BY <2>1 DEF Looked, Unchanged, Vouched
  <2>3. QED
    BY <2>1, <2>2, SameParts, SamePartsNext
<1>12. CASE UNCHANGED vars
  <2>1. /\ worker' = worker /\ inode' = inode /\ name' = name
        /\ history'.swapped = history.swapped
    BY <1>12 DEF vars, user, HistoryTypes
  <2>2. Looked' = Looked /\ Unchanged' = Unchanged /\ Vouched' = Vouched
    BY <2>1 DEF Looked, Unchanged, Vouched
  <2>3. QED
    BY <2>1, <2>2, SameParts, SamePartsNext
<1>13. QED
  BY <1>1, <1>2, <1>3, <1>4, <1>5, <1>6, <1>7, <1>8, <1>9, <1>10, <1>11, <1>12,
     WorkerStepCases, UserStepCases DEF Next

-----------------------------------------------------------------------------
(* The invariants *)

\* Blocks all alike are a file.
LEMMA FreshBlocks ==
    ASSUME NEW n \in Nat, NEW i \in Inode
    PROVE  /\ [b \in 1..n |-> <<i, 0>>] \in Seq(Block)
           /\ Len([b \in 1..n |-> <<i, 0>>]) = n
<1>1. <<i, 0>> \in Block
  BY DEF Block
<1>2. QED
  BY <1>1

\* A capture starts with everything in order.
LEMMA BaseInvInit == Init => BaseInv /\ SameInv
<1> SUFFICES ASSUME Init PROVE BaseInv /\ SameInv
  OBVIOUS
<1>1. PICK n \in 0..MaxBlocks :
        inode = [i \in Inode |-> [blocks |-> [b \in 1..n |-> <<i, 0>>], mtime |-> 0, ctime |-> 0]]
  BY DEF Init
<1> DEFINE fresh(i) == [b \in 1..n |-> <<i, 0>>]
<1>2. \A i \in Inode : fresh(i) \in Seq(Block) /\ Len(fresh(i)) = n
  BY FreshBlocks
<1>3. inode = [i \in Inode |-> [blocks |-> fresh(i), mtime |-> 0, ctime |-> 0]]
  BY <1>1
<1> HIDE DEF fresh
<1>4. \A i \in Inode : /\ inode[i].blocks = fresh(i) /\ inode[i].blocks \in Seq(Block)
                       /\ inode[i].mtime = 0 /\ inode[i].ctime = 0
  BY <1>2, <1>3
<1>5. inode \in [Inode -> [blocks : Seq(Block), mtime : Nat, ctime : Nat]]
  BY <1>2, <1>3
<1>6. \A i \in Inode : Len(inode[i].blocks) <= MaxBlocks
  <2>1. ASSUME NEW i \in Inode PROVE Len(inode[i].blocks) <= MaxBlocks
    <3>1. Len(inode[i].blocks) = n
      BY <1>2, <1>4
    <3>2. QED
      BY <3>1, BlockAssumption
  <2>2. QED
    BY <2>1
<1>7. /\ target \in [Link -> Regular] /\ name \in Regular /\ clock = 0 /\ changes = 0
      /\ retry \in BOOLEAN /\ stop = FALSE /\ objects = {} /\ worker = Attempt(0)
      /\ output = Nothing
  BY DEF Init
<1>8. FileTypes
  <2>1. name \in Inode /\ objects \subseteq Seq(Block)
    BY <1>7 DEF Inode
  <2>2. clock \in 0..MaxChanges /\ changes \in 0..MaxChanges
    BY <1>7, BlockAssumption
  <2>3. QED
    BY <1>5, <1>6, <1>7, <2>1, <2>2 DEF FileTypes
<1>9. /\ worker.pc = "before" /\ worker.attempt = 0 /\ worker.buffer = <<>> /\ worker.hashed = <<>>
      /\ worker.offset = 0 /\ worker.bytesRead = 0 /\ worker.sequence = 0 /\ worker.refs = <<>>
      /\ worker.eof = FALSE /\ worker \in Attempts
  BY <1>7, AttemptFields
<1>10. WorkerTypes
  <2>1. Len(worker.hashed) = 0
    BY <1>9
  <2>2. QED
    BY <1>9, <2>1 DEF WorkerTypes
<1>11. /\ history.versions = {[id |-> i, blocks |-> inode[i].blocks, mtime |-> 0] : i \in Inode}
      /\ history.sourceErrors = 0 /\ history.repositoryError = FALSE
      /\ HistoryTypes
  <2>1. history = [versions |-> {[id |-> i, blocks |-> inode[i].blocks, mtime |-> 0] : i \in Inode},
                   swapped |-> FALSE, sourceErrors |-> 0, repositoryError |-> FALSE]
    BY DEF Init
  <2>2. {[id |-> i, blocks |-> inode[i].blocks, mtime |-> 0] : i \in Inode}
          \in SUBSET [id : Inode, blocks : Seq(Block), mtime : Nat]
    BY <1>4
  <2>3. QED
    BY <2>1, <2>2, <1>7 DEF HistoryTypes, Nothing
<1>12. VersionInv
  BY <1>4, <1>11 DEF VersionInv
<1>13. ClockInv
  BY <1>4, <1>7 DEF ClockInv
<1>14. RowsInv
  <2>1. BufferInv
    BY <1>9 DEF BufferInv
  <2>2. Len(worker.refs) = 0 /\ Spooled(worker.refs, worker.hashed, objects)
    BY <1>9, SpooledNothing
  <2>3. QED
    BY <1>9, <2>1, <2>2, RowsParts DEF SpoolInv
<1>15. RetryInv /\ RetryAbsorbsOneChange
  <2>1. Trouble = 0 /\ Undisturbed
    BY <1>7, <1>9, <1>11 DEF Trouble, Undisturbed
  <2>2. output.kind = "none"
    BY <1>7 DEF Nothing
  <2>3. QED
    BY <1>7, <1>9, <2>1, <2>2, RetryParts
<1>16. EndInv /\ RepositoryErrorIsFatal /\ SameInv
  BY <1>7, <1>9, <1>11 DEF EndInv, Stored, Nothing, RepositoryErrorIsFatal, SameInv
<1>17. QED
  BY <1>8, <1>10, <1>11, <1>12, <1>13, <1>14, <1>15, <1>16, TypeParts DEF BaseInv

\* What holds whatever the clock does is kept by every step.
LEMMA BaseInvStep == ASSUME BaseInv, [Next]_vars PROVE BaseInv'
<1>1. FileTypes /\ WorkerTypes /\ HistoryTypes
  BY TypeParts DEF BaseInv
<1>2. FileTypes' /\ ClockInv'
  BY <1>1, FileTypesStep DEF BaseInv
<1>3. WorkerTypes' /\ RowsInv'
  BY <1>1, WorkerTypesStep, RowsInvStep DEF BaseInv
<1>4. HistoryTypes' /\ VersionInv' /\ EndInv' /\ RepositoryErrorIsFatal'
  BY <1>1, HistoryTypesStep, VersionInvStep, EndInvStep, RepositoryErrorStep DEF BaseInv
<1>5. RetryInv' /\ RetryAbsorbsOneChange'
  BY <1>1, RetryInvStep DEF BaseInv
<1>6. QED
  BY <1>2, <1>3, <1>4, <1>5, TypePartsNext DEF BaseInv

\* The rows of a capture are those of its last attempt.
LEMMA StoredRows ==
    ASSUME BaseInv, Stored
    PROVE  /\ Rows = worker.refs /\ output.hash = worker.hashed
           /\ output.size = worker.before.size /\ output.mtime = worker.before.mtime
           /\ output.looked = worker.before.id /\ output.read = worker.fd
           /\ output.size = Len(worker.hashed)
<1>1. FileTypes /\ WorkerTypes /\ HistoryTypes /\ RowsInv
  BY TypeParts DEF BaseInv
<1>2. output = Captured /\ worker.bytesRead = worker.before.size
  BY DEF BaseInv, EndInv
<1>3. /\ output.refs = worker.refs /\ output.count = worker.sequence
      /\ output.hash = worker.hashed /\ output.size = worker.before.size
      /\ output.mtime = worker.before.mtime
      /\ output.looked = worker.before.id /\ output.read = worker.fd
  BY <1>2 DEF Captured
<1>4. worker.sequence = Len(worker.refs)
  BY <1>1 DEF RowsInv
<1>5. Rows = worker.refs
  <2> DEFINE refs == worker.refs
  <2>1. refs \in Seq(RowType)
    BY <1>1 DEF WorkerTypes, Attempts, RowType
  <2>2. Rows = SubSeq(refs, 1, Len(refs))
    BY <1>3, <1>4 DEF Rows
  <2> HIDE DEF refs
  <2>3. SubSeq(refs, 1, Len(refs)) = refs
    BY <2>1, SubSeqFull
  <2>4. QED
    BY <2>2, <2>3 DEF refs
<1>6. output.size = Len(worker.hashed)
  BY <1>1, <1>2, <1>3 DEF WorkerTypes
<1>7. QED
  BY <1>3, <1>5, <1>6

\* What is captured can be restored.
LEMMA BaseInvRestorable == BaseInv => CapturedIsRestorable
<1> SUFFICES ASSUME BaseInv, Stored
             PROVE  /\ ValidateChunks(Rows, output.size)
                    /\ Give(Rows, output.hash)
                    /\ \A n \in DOMAIN Rows : Rows[n].chunk \in objects
  BY DEF CapturedIsRestorable
<1>1. Rows = worker.refs /\ output.hash = worker.hashed /\ output.size = Len(worker.hashed)
  BY StoredRows
<1>2. Spooled(worker.refs, worker.hashed, objects)
  BY RowsParts DEF BaseInv, SpoolInv
<1>3. QED
  BY <1>1, <1>2 DEF Spooled

\* Where the clock tells changes apart, what is captured of the file looked at is
\* the version that it has at the end.
LEMMA SameOneVersion == BaseInv /\ SameInv => StableReadIsOneVersion
<1> SUFFICES ASSUME BaseInv, SameInv, Stored, output.looked = output.read
             PROVE  \E v \in history.versions :
                        /\ v.id = output.looked
                        /\ Give(Rows, v.blocks)
                        /\ v.mtime = output.mtime
                        /\ Len(v.blocks) = output.size
  BY DEF StableReadIsOneVersion, OneVersionStored
<1> DEFINE i == worker.before.id
           v == [id |-> i, blocks |-> inode[i].blocks, mtime |-> inode[i].mtime]
<1>1. FileTypes /\ WorkerTypes /\ HistoryTypes /\ RowsInv
  BY TypeParts DEF BaseInv
<1>2. /\ worker.pc = "after" /\ name # NoFile /\ name \in Inode
      /\ SameStableIdentity(worker.before, Metadata(name))
  BY <1>1 DEF BaseInv, EndInv, FileTypes
<1>3. name = i /\ worker.before.ctime = inode[i].ctime
  BY <1>1, <1>2, MetadataType DEF SameStableIdentity
<1>4. Looked = i /\ Unchanged
  BY <1>3 DEF Looked, Unchanged
<1>5. Vouched
  BY <1>2, <1>4, SameParts
<1>6. worker.fd = i
  BY StoredRows
<1>7. ReadFrom(worker, inode[i].blocks) /\ worker.before.mtime = inode[i].mtime
  BY <1>2, <1>4, <1>5, <1>6 DEF Vouched
<1>8. inode[i].blocks \in Seq(Block)
  BY <1>1, <1>2, <1>3 DEF FileTypes
<1>9. worker.hashed = inode[i].blocks
  BY <1>1, <1>2, <1>7, <1>8, ReadWhole, RowsParts
<1>10. v \in history.versions
  BY <1>2, <1>3 DEF BaseInv, VersionInv
<1>11. /\ v.id = output.looked /\ v.blocks = worker.hashed /\ v.mtime = output.mtime
  BY <1>7, <1>9, StoredRows
<1>12. Give(Rows, worker.hashed) /\ output.size = Len(worker.hashed)
  BY <1>1, StoredRows DEF RowsInv
<1> HIDE DEF v
<1>13. QED
  BY <1>10, <1>11, <1>12

\* Another file than the one looked at is read only by a detour.
LEMMA SameDetour == BaseInv /\ SameInv => OtherFileOnlyByDetour
<1> SUFFICES ASSUME BaseInv, SameInv, Stored, output.looked # output.read
             PROVE  /\ output.looked \in Link \/ history.swapped
                    /\ EndOf(Rows, Len(Rows)) = output.size
  BY DEF OtherFileOnlyByDetour
<1>1. FileTypes /\ WorkerTypes /\ HistoryTypes /\ RowsInv
  BY TypeParts DEF BaseInv
<1>2. /\ worker.pc = "after" /\ name # NoFile /\ name \in Inode
      /\ SameStableIdentity(worker.before, Metadata(name))
  BY <1>1 DEF BaseInv, EndInv, FileTypes
<1>3. name = Looked /\ Unchanged
  BY <1>1, <1>2, MetadataType DEF SameStableIdentity, Looked, Unchanged
<1>4. Vouched
  BY <1>2, <1>3, SameParts
<1>5. Looked = output.looked /\ worker.fd = output.read
  BY StoredRows DEF Looked
<1>6. ~(Looked \in Regular /\ ~history.swapped)
  BY <1>2, <1>3, <1>4, <1>5 DEF Vouched
<1>7. Looked \in Link \/ history.swapped
  BY <1>2, <1>3, <1>6 DEF Inode
<1>8. EndOf(Rows, Len(Rows)) = output.size
  BY <1>1, StoredRows DEF RowsInv, Give
<1>9. QED
  BY <1>5, <1>7, <1>8

-----------------------------------------------------------------------------
(* Theorems *)

\* The books of a capture are kept whatever the user does and however coarse the
\* clock of the filesystem is: types, rows and buffer of an attempt, no error of
\* the repository passed off as one of the source, and no file given up for a
\* single change or failed call (process_regular_file).
THEOREM BooksKept == Spec => []BaseInv
<1>1. Init => BaseInv
  BY BaseInvInit
<1>2. BaseInv /\ [Next]_vars => BaseInv'
  BY BaseInvStep
<1>3. QED
  BY <1>1, <1>2, PTL DEF Spec

\* What a snapshot records of a file is what a restore accepts, whatever the clock
\* does: the rows of the entry pass validate_chunks, give what was hashed, and
\* every chunk they name is in the object store.
THEOREM RestorableTheorem == Spec => []CapturedIsRestorable
  BY BooksKept, BaseInvRestorable, PTL

\* Where the clock tells changes apart, a file whose change time is the one seen
\* before was not touched in between.
THEOREM SameTheorem == ASSUME ClockSteps = {1} PROVE Spec => [](BaseInv /\ SameInv)
<1>1. Init => BaseInv /\ SameInv
  BY BaseInvInit
<1>2. BaseInv /\ SameInv /\ [Next]_vars => (BaseInv /\ SameInv)'
  BY BaseInvStep, SameInvStep, TypeParts DEF BaseInv
<1>3. QED
  BY <1>1, <1>2, PTL DEF Spec

\* The entry of a file holds one version of it, with the size and the modification
\* time of that version, and no mixture, provided the clock tells changes apart
\* and the file looked at is the one that was read (same_stable_identity).
THEOREM OneVersionTheorem == ASSUME ClockSteps = {1} PROVE Spec => []StableReadIsOneVersion
  BY SameTheorem, SameOneVersion, PTL

\* A capture keeps its books, reads another file than the one looked at only by a
\* detour, and gives a file up only for a reason in the source.
THEOREM CaptureTheorem == ASSUME ClockSteps = {1} PROVE Spec => []CaptureInv
<1>1. BaseInv /\ SameInv => CaptureInv
  BY SameDetour DEF CaptureInv, BaseInv
<1>2. QED
  BY <1>1, SameTheorem, PTL
=============================================================================
