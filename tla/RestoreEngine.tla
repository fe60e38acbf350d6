----------------------------- MODULE RestoreEngine -----------------------------
(***************************************************************************)
(* RestoreEngine::restore writing a snapshot into a destination directory  *)
(* that belongs to the user, who goes on working in it: the plan made from *)
(* one look at the destination, the passes over directories, files and     *)
(* links, and the metadata of directories at the end.                      *)
(*                                                                         *)
(* One action is one check or one system call that changes the             *)
(* destination; Outside* is everybody else's work in the tree and can come *)
(* between any two. Paths are sequences of components, <<>> is the         *)
(* destination root. What a link points to is outside the tree: a call     *)
(* whose path leads over a link acts there or fails.                       *)
(***************************************************************************)
EXTENDS Naturals, Sequences

CONSTANTS
    Name,        \* path components
    Path,        \* paths in the destination that the model looks at
    Entry,       \* relative_path of each entry of the snapshot
    TypeOf,      \* EntryType of each entry
    Chunks,      \* number of chunks of each regular file
    Requests,    \* the requests made: overwrite_policy and relative_paths
    MaxOutside   \* bound on what others do during the restore

EntryType == {"directory", "regular_file", "symbolic_link"}
Policy == {"never", "always", "prompt"}
Action == {"create", "merge_directory", "replace", "skip"}
Reason == {"conflict", "appeared", "unavailable", "metadata"}

Parent(p) == SubSeq(p, 1, Len(p) - 1)

ASSUME RootAssumption == <<>> \in Entry /\ TypeOf[<<>>] = "directory"
ASSUME EntryAssumption == /\ Entry \subseteq Path
                          /\ TypeOf \in [Entry -> EntryType]
                          /\ Chunks \in [Entry -> Nat]
ASSUME TreeAssumption == /\ \A p \in Path : p \in Seq(Name)
                         /\ \A p \in Path : Parent(p) \in Path
                         /\ \A e \in Entry \ {<<>>} : /\ Parent(e) \in Entry
                                                      /\ TypeOf[Parent(e)] = "directory"
Request == [policy : Policy, paths : SUBSET Entry]
ASSUME RequestAssumption == Requests \subseteq Request
ASSUME OutsideAssumption == MaxOutside \in Nat

VARIABLES
    fs,          \* what lstat shows at each path
    data,        \* whose it is: the user's, or what this restore put there
    outside,     \* steps of others so far
    touched,     \* paths at which others made or removed something
    fresh,       \* links others made since the last look at the ancestors
    request,     \* the options of this restore
    stop,        \* the caller's stop token
    pc, todo, cur,  \* place in restore(), entries left in this pass, entry at hand
    plan,        \* action of each planned entry
    temp,        \* the temporary file or link of the entry at hand
    written, good,  \* chunks written to it, and whether they are the file's
    left,        \* entries whose temporary is in the destination for good
    restored,    \* entries RestoreResult counts
    skipped,     \* skipped_entries: entries and what is said of them
    stamped,     \* directories whose saved metadata is in force
    followed     \* links a call followed although a check had seen them

tree == <<fs, data, stamped, followed>>
others == <<outside, touched, fresh>>
output == <<temp, written, good, left>>
result == <<restored, skipped>>
vars == <<tree, others, request, stop, pc, todo, cur, plan, output, result>>

IsAncestor(p, q) == Len(p) < Len(q) /\ p = SubSeq(q, 1, Len(p))
Ancestors(p) == {q \in Path : IsAncestor(q, p)}
OfType(t) == {e \in Entry : TypeOf[e] = t}

Links(p) == {q \in Ancestors(p) : fs[q] = "link"}
Reachable(p) == \A q \in Ancestors(p) : fs[q] = "directory"
Exists(p) == fs[p] # "not_found"
Finished == pc \in {"returned", "threw", "crashed"}

\* A destination the user may have: what is below something that is no
\* directory is not there, and only links may be followed to elsewhere.
Kind == {"not_found", "directory", "file", "link"}
Init ==
    /\ fs \in {f \in [Path -> Kind] :
                   \A p \in Path : \A q \in Ancestors(p) :
                       f[p] # "not_found" => f[q] = "directory"}
    /\ data = [p \in Path |-> "user"]
    /\ outside = 0
    /\ touched = {}
    /\ fresh = {}
    /\ request \in Requests
    /\ stop = FALSE
    /\ pc = "begin"
    /\ todo = {}
    /\ cur = <<>>
    /\ plan = [e \in Entry |-> "none"]
    /\ temp = "none"
    /\ written = 0
    /\ good = TRUE
    /\ restored = {}
    /\ skipped = {}
    /\ left = {}
    /\ stamped = {}
    /\ followed = {}
--------------------------------------------------------------------------------
(* Others: anyone else who works in the destination, and the caller's       *)
(* request to stop.                                                         *)

OutsideCreate(p, kind) ==
    /\ ~Finished
    /\ outside < MaxOutside
    /\ ~Exists(p) /\ Reachable(p)
    /\ fs' = [fs EXCEPT ![p] = kind]
    /\ data' = [data EXCEPT ![p] = "user"]
    /\ outside' = outside + 1
    /\ touched' = touched \cup {p}
    /\ fresh' = IF kind = "link" THEN fresh \cup {p} ELSE fresh
    /\ stamped' = stamped \ {p, Parent(p)}
    /\ UNCHANGED <<followed, request, stop, pc, todo, cur, plan, output, result>>

\* A directory can be removed only when it is empty, of the temporary at hand
\* too; those left behind are removed with it.
OutsideRemove(p) ==
    /\ ~Finished
    /\ outside < MaxOutside
    /\ Exists(p)
    /\ \A q \in Path : IsAncestor(p, q) => ~Exists(q)
    /\ ~(temp = "inside" /\ p = Parent(cur))
    /\ fs' = [fs EXCEPT ![p] = "not_found"]
    /\ data' = [data EXCEPT ![p] = "user"]
    /\ outside' = outside + 1
    /\ touched' = touched \cup {p}
    /\ fresh' = fresh \ {p}
    /\ stamped' = stamped \ {p, Parent(p)}
    /\ left' = {e \in left : Parent(e) # p}
    /\ UNCHANGED <<followed, request, stop, pc, todo, cur, plan, temp, written, good, result>>

Cancel ==
    /\ ~Finished
    /\ ~stop
    /\ stop' = TRUE
    /\ UNCHANGED <<tree, others, request, pc, todo, cur, plan, output, result>>
--------------------------------------------------------------------------------
(* Leaving with an exception.                                               *)

\* The directory's modification time is no longer the saved one.
Disturb(directory) == stamped' = stamped \ {directory}

\* The destructors of TemporaryOutputFile and TemporaryPath remove the
\* temporary by its path and ignore a failure, which leaves it there. The
\* directory it is in is not empty, so nobody has put a link in the place of
\* one above it.
RemoveTemporary ==
    /\ temp' = "none"
    /\ \/ /\ IF temp = "inside" THEN Disturb(Parent(cur)) ELSE UNCHANGED stamped
          /\ UNCHANGED left
       \/ /\ temp = "inside"
          /\ left' = left \cup {cur}
          /\ UNCHANGED stamped

Throw ==
    /\ pc' = "threw"
    /\ RemoveTemporary
    /\ UNCHANGED <<fs, data, followed, others, request, stop, todo, cur, plan,
                   written, good, result>>

\* Any system call or user callback may fail, wherever the restore is.
Fault ==
    /\ ~Finished
    /\ Throw

Crash ==
    /\ ~Finished
    /\ pc' = "crashed"
    /\ UNCHANGED <<tree, others, request, stop, todo, cur, plan, output, result>>

\* check_cancelled, at the head of every entry of a pass and of every chunk.
CheckCancelled ==
    /\ stop
    /\ \/ pc = "begin"
       \/ pc = "chunks" /\ written < Chunks[cur]
       \/ pc \in {"directories", "files", "links"} /\ todo # {}
    /\ Throw
--------------------------------------------------------------------------------
(* Before anything is written.                                              *)

NormalizedDestination ==
    /\ pc = "begin"
    /\ ~stop
    /\ IF fs[<<>>] \in {"not_found", "directory"}
         THEN /\ pc' = "lock"
              /\ UNCHANGED <<tree, others, request, stop, todo, cur, plan, output, result>>
         ELSE Throw

\* select_entries: what was asked for, all below it, and the directories
\* above it. An empty request is the whole snapshot.
BelowRequested(r) ==
    r \cup {e \in Entry : \E d \in r : TypeOf[d] = "directory" /\ IsAncestor(d, e)}
SelectEntries(r) ==
    IF r = {} THEN Entry
              ELSE LET below == BelowRequested(r)
                   IN  {<<>>} \cup below \cup {a \in Entry : \E e \in below : IsAncestor(a, e)}

Selected == SelectEntries(request.paths)

\* The lock and recovery, the entries and the selection, the chunks of the
\* selected files. Each step validates what it reads; a refusal is a Fault.
Advance(from, to) ==
    /\ pc = from
    /\ pc' = to
    /\ UNCHANGED <<tree, others, request, stop, cur, plan, output, result>>
LockAndRecover == Advance("lock", "read") /\ UNCHANGED todo
ReadEntries == Advance("read", "validate") /\ todo' = Selected
ValidateFiles == Advance("validate", "make_root") /\ UNCHANGED todo

\* create_directories follows a link that has become the root.
MakeRoot ==
    /\ pc = "make_root"
    /\ \/ /\ fs[<<>>] # "file"
          /\ IF Exists(<<>>)
               THEN UNCHANGED <<fs, data>>
               ELSE /\ fs' = [fs EXCEPT ![<<>>] = "directory"]
                    /\ data' = [data EXCEPT ![<<>>] = "whole"]
          /\ pc' = "plan"
          /\ UNCHANGED <<stamped, followed, others, request, stop, todo, cur, plan,
                         output, result>>
       \/ /\ fs[<<>>] \in {"file", "link"}
          /\ Throw
--------------------------------------------------------------------------------
(* The plan.                                                                *)

\* Passes go from the top down, the one over metadata from the bottom up.
Shallowest == {e \in todo : \A d \in todo : Len(e) <= Len(d)}
Deepest == {e \in todo : \A d \in todo : Len(e) >= Len(d)}

\* Only the root is looked at.
RootIsDirectory(p) == fs[<<>>] = "directory"

\* Ancestors are walked from the root until one is not there.
SafeAncestors(p) ==
    /\ fs[<<>>] = "directory"
    /\ \A q \in Ancestors(p) : fs[q] \in {"directory", "not_found"}

\* What conflict_action may decide, "throw" for an exception: with a policy
\* of prompt the user may skip, replace or cancel.
Replacement(e) ==
    IF TypeOf[e] = "directory" \/ fs[e] = "directory" THEN "throw" ELSE "replace"

ConflictAction(e) ==
    IF TypeOf[e] = "directory" /\ fs[e] = "directory" THEN {"merge_directory"}
    ELSE CASE request.policy = "never"  -> {"skip"}
           [] request.policy = "always" -> {Replacement(e)}
           [] request.policy = "prompt" -> {"skip", "throw", Replacement(e)}

\* Skipped directories are not remembered.
SkippedForgotten(e) == FALSE
BelowSkipped(e) ==
    \E d \in OfType("directory") : plan[d] = "skip" /\ IsAncestor(d, e)

Decisions(e) ==
    CASE e = <<>>                        -> {"merge_directory"}
      [] e # <<>> /\ BelowSkipped(e)     -> {"skip"}
      [] e # <<>> /\ ~BelowSkipped(e)    ->
            IF ~SafeAncestors(e) THEN {"throw"}
            ELSE IF Exists(e) THEN ConflictAction(e) ELSE {"create"}

BuildPlan(e) ==
    /\ pc = "plan"
    /\ e \in Shallowest
    /\ \E action \in Decisions(e) :
          IF action = "throw" THEN Throw
          ELSE /\ plan' = [plan EXCEPT ![e] = action]
               /\ todo' = todo \ {e}
               /\ UNCHANGED <<tree, others, request, stop, pc, cur, output, result>>

Planned == {e \in Entry : plan[e] # "none"}

\* The end of a pass and the start of the next.
NextPass(from, to, entries) ==
    /\ pc = from
    /\ todo = {}
    /\ pc' = to
    /\ todo' = entries
    /\ UNCHANGED <<tree, others, request, stop, cur, plan, output, result>>
StartDirectories == NextPass("plan", "directories", Planned)
StartFiles == NextPass("directories", "files", Planned \cap OfType("regular_file"))
StartLinks == NextPass("files", "links", Planned \cap OfType("symbolic_link"))

\* Directories that were there before are left out.
CreatedDirectoriesOnly ==
    NextPass("links", "metadata", {e \in Planned \cap OfType("directory") : plan[e] = "create"})

StartMetadata ==
    NextPass("links", "metadata", {e \in Planned \cap OfType("directory") : plan[e] # "skip"})
--------------------------------------------------------------------------------
(* Steps shared by the passes.                                              *)

\* require_safe_ancestors before a call; links made after it are fresh.
CheckAncestors(p, next) ==
    IF SafeAncestors(p)
      THEN /\ pc' = next
           /\ cur' = p
           /\ fresh' = {}
           /\ UNCHANGED <<tree, outside, touched, request, stop, todo, plan, output, result>>
      ELSE Throw

\* An entry is dealt with and the pass goes on.
Pass == CASE TypeOf[cur] = "directory"     -> "directories"
          [] TypeOf[cur] = "regular_file"  -> "files"
          [] TypeOf[cur] = "symbolic_link" -> "links"

Settle(e) ==
    /\ todo' = todo \ {e}
    /\ UNCHANGED <<outside, touched, fresh, request, stop, plan>>

\* skipped_entries.push_back: for entries that are not restored, and for
\* restored ones whose metadata could not be set.
Report(e, reason) == skipped' = skipped \cup {<<e, reason>>}

\* An entry the plan skips is named in the result.
Skip(e) ==
    /\ Settle(e)
    /\ Report(e, "conflict")
    /\ UNCHANGED <<tree, pc, cur, output, restored>>

\* A call whose path leads over a link acts outside the tree.
FollowLinks(links) ==
    /\ links # {}
    /\ followed' = followed \cup (links \ fresh)
--------------------------------------------------------------------------------
(* Directories.                                                             *)

\* The pass looks at every entry of the plan for the stop token.
DirectoryEntry(e) ==
    /\ pc = "directories"
    /\ ~stop
    /\ e \in Shallowest
    /\ \/ /\ TypeOf[e] # "directory"
          /\ Settle(e)
          /\ UNCHANGED <<tree, pc, cur, output, result>>
       \/ /\ TypeOf[e] = "directory" /\ plan[e] = "skip"
          /\ Skip(e)
       \/ /\ TypeOf[e] = "directory" /\ plan[e] = "merge_directory"
          /\ Settle(e)
          /\ restored' = restored \cup {e}
          /\ UNCHANGED <<tree, pc, cur, output, skipped>>
       \/ /\ TypeOf[e] = "directory" /\ plan[e] = "create"
          /\ CheckAncestors(e, "make_directory")

\* create_directory answers false, which throws, if anything is there.
MakeDirectory ==
    /\ pc = "make_directory"
    /\ \/ /\ Reachable(cur) /\ ~Exists(cur)
          /\ fs' = [fs EXCEPT ![cur] = "directory"]
          /\ data' = [data EXCEPT ![cur] = "whole"]
          /\ Disturb(Parent(cur))
          /\ UNCHANGED followed
          /\ Settle(cur)
          /\ restored' = restored \cup {cur}
          /\ pc' = Pass
          /\ UNCHANGED <<cur, output, skipped>>
       \/ /\ FollowLinks(Links(cur))
          /\ Settle(cur)
          /\ restored' = restored \cup {cur}
          /\ pc' = Pass
          /\ UNCHANGED <<fs, data, stamped, cur, output, skipped>>
       \/ /\ ~Reachable(cur) \/ Exists(cur)
          /\ Throw
--------------------------------------------------------------------------------
(* Files and links: a temporary beside the destination, then a rename.      *)

FileEntry(e) ==
    /\ pc = "files"
    /\ ~stop
    /\ e \in Shallowest
    /\ IF plan[e] = "skip" THEN Skip(e) ELSE CheckAncestors(e, "open")

LinkEntry(e) ==
    /\ pc = "links"
    /\ ~stop
    /\ e \in Shallowest
    /\ IF plan[e] = "skip" THEN Skip(e) ELSE CheckAncestors(e, "open")

\* TemporaryOutputFile, or unique_temporary_path and create_restored_symlink.
\* The rows may name chunks that are not those of the file.
OpenTemporary ==
    /\ pc = "open"
    /\ \/ /\ Reachable(cur)
          /\ temp' = "inside"
          /\ Disturb(Parent(cur))
          /\ UNCHANGED followed
       \/ /\ FollowLinks(Links(cur))
          /\ temp' = "outside"
          /\ UNCHANGED stamped
    /\ written' = 0
    /\ IF TypeOf[cur] = "regular_file"
         THEN pc' = "chunks" /\ good' \in BOOLEAN
         ELSE pc' = "recheck" /\ good' = TRUE
    /\ UNCHANGED <<fs, data, others, request, stop, todo, cur, plan, left, result>>

OpenFails ==
    /\ pc = "open"
    /\ ~Reachable(cur)
    /\ Throw

\* The system refuses to make symbolic links.
LinkPrivilegeUnavailable ==
    /\ pc = "open"
    /\ TypeOf[cur] = "symbolic_link"
    /\ pc' = Pass
    /\ Settle(cur)
    /\ Report(cur, "unavailable")
    /\ UNCHANGED <<tree, cur, output, restored>>

\* read_verified answers with the chunk's bytes or throws.
WriteChunk ==
    /\ pc = "chunks"
    /\ written < Chunks[cur]
    /\ ~stop
    /\ \/ /\ written' = written + 1
          /\ UNCHANGED <<tree, others, request, stop, pc, todo, cur, plan, temp, good, left, result>>
       \/ Throw

FileHashMatches == good

\* Size and hash of the whole file, then sync and metadata by descriptor.
FinishFile ==
    /\ pc = "chunks"
    /\ written = Chunks[cur]
    /\ IF FileHashMatches
         THEN /\ pc' = "recheck"
              /\ UNCHANGED <<tree, others, request, stop, todo, cur, plan, output, result>>
         ELSE Throw

RecheckAncestors ==
    /\ pc = "recheck"
    /\ CheckAncestors(cur, "publish")

Contents == IF TypeOf[cur] = "regular_file" => good /\ written = Chunks[cur]
              THEN "whole" ELSE "torn"
KindOf(e) == IF TypeOf[e] = "symbolic_link" THEN "link" ELSE "file"

\* Publication without RENAME_NOREPLACE.
RenameOver == fs[cur] # "directory"

\* rename(2) replaces anything but a directory; without replacement it
\* answers that something is there.
MayRename == IF plan[cur] = "replace" THEN fs[cur] # "directory" ELSE ~Exists(cur)

\* Publication by a second name, and removal of the first: a failure of that
\* is ignored.
PublishByLink ==
    /\ pc = "publish"
    /\ temp = "inside" /\ Reachable(cur)
    /\ MayRename
    /\ fs' = [fs EXCEPT ![cur] = KindOf(cur)]
    /\ data' = [data EXCEPT ![cur] = Contents]
    /\ temp' = "none"
    /\ left' \in {left, left \cup {cur}}
    /\ Disturb(Parent(cur))
    /\ pc' = "flush"
    /\ UNCHANGED <<followed, others, request, stop, todo, cur, plan, written, good, result>>

Publish ==
    /\ pc = "publish"
    /\ temp = "inside" /\ Reachable(cur)
    /\ MayRename
    /\ fs' = [fs EXCEPT ![cur] = KindOf(cur)]
    /\ data' = [data EXCEPT ![cur] = Contents]
    /\ temp' = "none"
    /\ Disturb(Parent(cur))
    /\ pc' = "flush"
    /\ UNCHANGED <<followed, others, request, stop, todo, cur, plan, written, good, left,
                   result>>

DestinationAppeared ==
    /\ pc = "publish"
    /\ temp = "inside" /\ Reachable(cur)
    /\ plan[cur] # "replace" /\ Exists(cur)
    /\ Settle(cur)
    /\ Report(cur, "appeared")
    /\ RemoveTemporary
    /\ pc' = Pass
    /\ UNCHANGED <<fs, data, followed, cur, written, good, restored>>

\* Everything else a rename can meet: a directory in the way, a temporary that
\* the path does not lead to.
PublishFails ==
    /\ pc = "publish"
    /\ \/ temp = "outside" \/ ~Reachable(cur)
       \/ plan[cur] = "replace" /\ fs[cur] = "directory"
    /\ Throw

\* Both names lead over a link made since the check, as when the temporary
\* was opened; what is there decides between publication and "appeared".
PublishElsewhere ==
    /\ pc = "publish"
    /\ temp = "outside"
    /\ FollowLinks(Links(cur))
    /\ temp' = "none"
    /\ \/ /\ pc' = "flush"
          /\ UNCHANGED <<others, request, stop, todo, plan, result>>
       \/ /\ pc' = Pass
          /\ Settle(cur)
          /\ Report(cur, "appeared")
          /\ UNCHANGED restored
    /\ UNCHANGED <<fs, data, stamped, cur, written, good, left>>

\* The warning takes the place of the count.
WarnedNotCounted ==
    /\ pc = "flush"
    /\ pc' = Pass
    /\ Settle(cur)
    /\ \/ restored' = restored \cup {cur} /\ UNCHANGED skipped
       \/ TypeOf[cur] = "regular_file" /\ Report(cur, "metadata") /\ UNCHANGED restored
    /\ UNCHANGED <<tree, cur, output>>

\* Counted only now. A file whose own metadata could not be set is counted
\* and named in skipped_entries as well.
FlushAndCount ==
    /\ pc = "flush"
    /\ pc' = Pass
    /\ Settle(cur)
    /\ restored' = restored \cup {cur}
    /\ \/ UNCHANGED skipped
       \/ TypeOf[cur] = "regular_file" /\ Report(cur, "metadata")
    /\ UNCHANGED <<tree, cur, output>>
--------------------------------------------------------------------------------
(* Directory metadata and the return.                                       *)

MetadataEntry(e) ==
    /\ pc = "metadata"
    /\ e \in Deepest
    /\ IF fs[e] = "directory" THEN CheckAncestors(e, "stamp") ELSE Throw

\* By path, following links; a failure is named in skipped_entries beside
\* the count of the directory.
ApplyMetadata ==
    /\ pc = "stamp"
    /\ pc' = "metadata"
    /\ Settle(cur)
    /\ \/ /\ Reachable(cur) /\ fs[cur] = "directory"
          /\ stamped' = stamped \cup {cur}
          /\ UNCHANGED <<followed, skipped>>
       \/ /\ FollowLinks(Links(cur) \cup {q \in {cur} : fs[q] = "link"})
          /\ UNCHANGED <<stamped, skipped>>
       \/ /\ Report(cur, "metadata")
          /\ UNCHANGED <<stamped, followed>>
    /\ UNCHANGED <<fs, data, cur, output, restored>>

Return ==
    /\ pc = "metadata"
    /\ todo = {}
    /\ pc' = "returned"
    /\ UNCHANGED <<tree, others, request, stop, todo, cur, plan, output, result>>
--------------------------------------------------------------------------------
Restore ==
    \/ CheckCancelled \/ NormalizedDestination
    \/ LockAndRecover \/ ReadEntries \/ ValidateFiles \/ MakeRoot
    \/ \E e \in Entry : \/ BuildPlan(e) \/ DirectoryEntry(e) \/ FileEntry(e)
                        \/ LinkEntry(e) \/ MetadataEntry(e)
    \/ StartDirectories \/ StartFiles \/ StartLinks \/ StartMetadata
    \/ MakeDirectory
    \/ OpenTemporary \/ OpenFails \/ LinkPrivilegeUnavailable
    \/ WriteChunk \/ FinishFile \/ RecheckAncestors
    \/ Publish \/ DestinationAppeared \/ PublishFails \/ PublishElsewhere
    \/ FlushAndCount
    \/ ApplyMetadata \/ Return

Outside ==
    \E p \in Path : \/ OutsideRemove(p)
                    \/ \E kind \in Kind \ {"not_found"} : OutsideCreate(p, kind)

Next == Restore \/ Outside \/ Cancel \/ Fault \/ Crash

Spec == Init /\ [][Next]_vars
--------------------------------------------------------------------------------
(* Properties                                                               *)

\* Every variable has its type.
TypeOK ==
    /\ fs \in [Path -> Kind]
    /\ data \in [Path -> {"user", "whole", "torn"}]
    /\ outside \in 0 .. MaxOutside
    /\ touched \subseteq Path /\ fresh \subseteq Path
    /\ request \in Request
    /\ stop \in BOOLEAN
    /\ pc \in {"begin", "lock", "read", "validate", "make_root", "plan", "directories",
               "make_directory", "files", "links", "open", "chunks", "recheck", "publish",
               "flush", "metadata", "stamp", "returned", "threw", "crashed"}
    /\ todo \subseteq Entry /\ cur \in Entry
    /\ plan \in [Entry -> Action \cup {"none"}]
    /\ temp \in {"none", "inside", "outside"}
    /\ written \in Nat /\ good \in BOOLEAN /\ left \subseteq Entry
    /\ restored \subseteq Entry /\ skipped \subseteq Entry \X Reason
    /\ stamped \subseteq Path /\ followed \subseteq Path

\* Whatever the restore puts at a destination is the whole, verified entry:
\* not after a failure, a cancellation or a crash at any point, and not when
\* the rows name the wrong chunks, is part of a file left there.
WholeFilesOnly == \A p \in Path : data[p] # "torn"

\* What the user has in the destination, or puts there while the restore runs,
\* is changed by the restore only where it planned to replace a file or link,
\* and never under the policy "never"; a directory is never replaced.
UserDataKept ==
    [][outside' = outside =>
         \A p \in Path :
            /\ data[p] = "user" /\ Exists(p)
            /\ data'[p] # data[p] \/ fs'[p] # fs[p]
            => /\ p \in Entry /\ plan[p] = "replace"
               /\ request.policy # "never"
               /\ fs[p] # "directory"]_vars

\* No call that creates, renames or sets metadata follows a link that was there
\* when require_safe_ancestors last looked: only one made in between.
NoSeenLinkFollowed == followed = {}

\* What skipped_entries says: of which entries that they are not restored, and
\* of which that they are restored without their metadata.
Named(reason) == {e \in Entry : <<e, reason>> \in skipped}
NotRestored == Named("conflict") \cup Named("appeared") \cup Named("unavailable")
Warned == Named("metadata")

\* The entry is at its destination; others have made or removed something on
\* the path to it.
InPlace(e) == CASE TypeOf[e] = "directory"     -> fs[e] = "directory"
                [] TypeOf[e] = "regular_file"  -> fs[e] = "file" /\ data[e] = "whole"
                [] TypeOf[e] = "symbolic_link" -> fs[e] = "link" /\ data[e] = "whole"
PathTouched(e) == \E q \in Ancestors(e) \cup {e} : q \in touched

\* No entry is named for two reasons.
NamedOnce == \A e \in Entry : \A r, s \in Reason : e \in Named(r) \cap Named(s) => r = s

\* A result that is returned tells the truth of each selected entry. It is
\* counted as restored or named as not restored, never both; one that is named
\* for its metadata is counted as well; none is named twice. "Conflicts" are
\* what the plan skipped, and a destination that "appeared" is others' doing.
\* Each entry counted is at its destination unless others made or removed
\* something at it or above it.
ResultIsTrue ==
    pc = "returned" =>
        /\ restored \cup NotRestored = Selected
        /\ restored \cap NotRestored = {}
        /\ Warned \subseteq restored
        /\ NamedOnce
        /\ Named("conflict") = {e \in Selected : plan[e] = "skip"}
        /\ \A e \in Named("appeared") : PathTouched(e)
        /\ \A e \in restored : PathTouched(e) \/ InPlace(e)

\* When restore() returns, every directory it restored has its saved metadata,
\* unless there is a warning or others have worked in it: no step of the
\* restore that changes a directory comes after its metadata was set.
WorkedIn == touched \cup {Parent(p) : p \in touched}
MetadataLast ==
    pc = "returned" =>
        restored \cap OfType("directory") \subseteq stamped \cup Warned \cup WorkedIn

\* Nothing is restored below a directory that the plan skipped, even if the
\* conflict has gone away since.
SkippedSubtreeUntouched ==
    \A d \in Named("conflict") \cap OfType("directory") : \A e \in restored : ~IsAncestor(d, e)

\* The destructors do not answer for a temporary they cannot remove, and yet
\* nobody is left to find one unawares: restore() does not end with a temporary
\* it has not tried to remove, and one that stays is that of an entry the result
\* names as "appeared", or of the entry that an exception ended.
LeftoversNamed ==
    /\ pc \in {"returned", "threw"} => temp = "none"
    /\ left \subseteq Named("appeared") \cup {e \in {cur} : pc = "threw"}

\* Why the safety properties hold: a temporary is at hand between its creation
\* and its publication or removal only; what is about to be published has been verified; no
\* replacement is planned under the policy "never"; and at a call that changes
\* the tree every link on its path is younger than the check before it.
TemporaryInv == temp # "none" => pc \in {"chunks", "recheck", "publish", "crashed"}
VerifiedInv ==
    /\ pc = "chunks" => TypeOf[cur] = "regular_file" /\ written <= Chunks[cur]
    /\ pc \in {"recheck", "publish"} /\ TypeOf[cur] = "regular_file" =>
          good /\ written = Chunks[cur]
PolicyInv == request.policy = "never" => \A e \in Entry : plan[e] # "replace"
LinksInv ==
    /\ pc \in {"make_directory", "open", "publish", "stamp"} => Links(cur) \subseteq fresh
    /\ pc = "stamp" /\ fs[cur] = "link" => cur \in fresh
IndInv ==
    /\ TypeOK
    /\ TemporaryInv
    /\ VerifiedInv
    /\ PolicyInv
    /\ LinksInv
    /\ WholeFilesOnly
    /\ NoSeenLinkFollowed

\* Why the result is true. A pass takes entries of one type in turn, so at any
\* moment the entries accounted for are those of the passes before and those
\* of this one that are not left to do.
PassOf(e) == CASE TypeOf[e] = "directory" -> 1 [] TypeOf[e] = "regular_file" -> 2
               [] TypeOf[e] = "symbolic_link" -> 3
PassAt(place, e) ==
    CASE place \in {"directories", "make_directory"} -> 1
      [] place = "files" -> 2
      [] place = "links" -> 3
      [] place \in {"open", "chunks", "recheck", "publish", "flush"} -> PassOf(e)
      [] place \in {"metadata", "stamp", "returned"} -> 4
      [] place \in {"begin", "lock", "read", "validate", "make_root", "plan",
                    "threw", "crashed"} -> 0
PassNow == PassAt(pc, cur)
Accounted == {e \in Selected : \/ PassOf(e) < PassNow
                               \/ PassOf(e) = PassNow /\ e \notin todo}
AtEntry == {"make_directory", "open", "chunks", "recheck", "publish", "flush"}

\* The plan grows from the top down and skips what is below a skipped directory.
PlanInv ==
    /\ pc \in {"begin", "lock", "read", "validate", "make_root"} => Planned = {}
    /\ pc \in {"validate", "make_root"} => todo = Selected
    /\ pc = "plan" => /\ todo \subseteq Selected
                      /\ Planned = Selected \ todo
                      /\ \A e \in Planned, d \in todo : Len(e) <= Len(d)
    /\ PassNow > 0 => Planned = Selected
    /\ \A e \in Entry : plan[e] = "merge_directory" => TypeOf[e] = "directory"
    /\ \A d \in OfType("directory"), e \in Planned :
          plan[d] = "skip" /\ IsAncestor(d, e) => plan[e] = "skip"

\* The result follows the plan, entry by entry.
AccountInv ==
    /\ pc \in {"begin", "lock", "read", "validate", "make_root", "plan"} =>
          restored = {} /\ skipped = {}
    /\ PassNow > 0 => /\ restored \cup NotRestored = Accounted
                      /\ restored \cap NotRestored = {}
                      /\ Warned \subseteq restored
    /\ PassNow \in 1..3 => Warned \cap OfType("directory") = {}
    /\ PassNow = 4 => Warned \cap todo = {}
    /\ NamedOnce
    /\ PassNow \in {2, 3} => \A e \in todo : PassOf(e) = PassNow
    /\ PassNow \in 1..3 => todo \subseteq Selected
    /\ PassNow = 4 => todo \subseteq restored \cap OfType("directory")
    /\ pc \in AtEntry => cur \in todo /\ plan[cur] \notin {"none", "skip"}
    /\ pc = "make_directory" => TypeOf[cur] = "directory"
    /\ pc \in AtEntry \ {"make_directory"} => TypeOf[cur] # "directory"
    /\ pc = "stamp" => cur \in todo
    /\ \A e \in restored : plan[e] \notin {"none", "skip"}
    /\ \A e \in Named("conflict") : plan[e] = "skip"
    /\ \A e \in Named("appeared") \cup Named("unavailable") :
          plan[e] # "skip" /\ TypeOf[e] # "directory"

\* What was put in place stays there, and a call leads elsewhere only over a
\* link that others have made.
IsTree == \A p \in Path : \A q \in Ancestors(p) : Exists(p) => fs[q] = "directory"
PlaceInv ==
    /\ IsTree
    /\ fresh \subseteq touched
    /\ pc \in {"lock", "read", "validate", "make_root"} =>
          fs[<<>>] \in {"not_found", "directory"} \/ <<>> \in touched
    /\ pc = "plan" => fs[<<>>] = "directory" \/ <<>> \in touched
    /\ \A e \in Planned : plan[e] = "merge_directory" => fs[e] = "directory" \/ e \in touched
    /\ pc = "stamp" => fs[cur] = "directory" \/ cur \in touched
    /\ pc = "flush" => PathTouched(cur) \/ InPlace(cur)
    /\ \A e \in restored : PathTouched(e) \/ InPlace(e)

\* What the plan found absent is there only if others or this restore made it.
AbsentInv ==
    /\ pc \notin {"threw", "crashed"} =>
          \A e \in Planned : plan[e] = "create" /\ Exists(e) =>
             e \in touched \/ e \in restored \/ (pc = "flush" /\ e = cur)
    /\ \A e \in Named("appeared") : PathTouched(e)

\* Once a directory has its metadata the restore leaves it alone.
StampInv ==
    /\ PassNow = 4 => (restored \cap OfType("directory")) \ todo
                         \subseteq stamped \cup Warned \cup WorkedIn
    /\ pc = "returned" => todo = {}

ResultInv == PlanInv /\ AccountInv /\ PlaceInv /\ AbsentInv /\ StampInv
================================================================================
