-------------------------- MODULE RestoreEngine_proofs --------------------------
(***************************************************************************)
(* Proofs about RestoreEngine, for every snapshot, destination, request    *)
(* and amount of interference.                                             *)
(***************************************************************************)
EXTENDS RestoreEngine, TLAPS

\* What select_entries returns are entries of the snapshot.
LEMMA SelectedAreEntries ==
    ASSUME NEW r \in SUBSET Entry
    PROVE  SelectEntries(r) \subseteq Entry
  BY RootAssumption DEF SelectEntries, BelowRequested

\* The pass an entry belongs to is a place in restore().
LEMMA PassType ==
    ASSUME TypeOK
    PROVE  Pass \in {"directories", "files", "links"}
  <1>1. TypeOf[cur] \in EntryType
    BY EntryAssumption DEF TypeOK
  <1> QED
    BY <1>1 DEF Pass, EntryType

\* What the plan decides for an entry is an action or an exception.
LEMMA DecisionType ==
    ASSUME TypeOK, NEW e \in Entry, NEW action \in Decisions(e)
    PROVE  action \in Action \cup {"throw"}
  <1>1. request.policy \in Policy
    BY DEF TypeOK, Request
  <1>2. Replacement(e) \in {"throw", "replace"}
    BY DEF Replacement
  <1>3. ConflictAction(e) \subseteq Action \cup {"throw"}
    BY <1>1, <1>2 DEF ConflictAction, Policy, Action
  <1> QED
    BY <1>3 DEF Decisions, Action

\* No replacement is decided under the policy "never".
LEMMA NeverReplaces ==
    ASSUME TypeOK, NEW e \in Entry, request.policy = "never"
    PROVE  "replace" \notin Decisions(e)
  <1>1. "replace" \notin ConflictAction(e)
    BY DEF ConflictAction
  <1> QED
    BY <1>1 DEF Decisions

\* The initial states satisfy the invariant.
LEMMA InitInv == Init => IndInv
  <1> SUFFICES ASSUME Init PROVE IndInv
    OBVIOUS
  <1>1. TypeOK
    <2>1. fs \in [Path -> Kind] /\ data \in [Path -> {"user", "whole", "torn"}]
      BY DEF Init
    <2>2. request \in Request
      BY RequestAssumption DEF Init
    <2>3. plan \in [Entry -> Action \cup {"none"}]
      BY DEF Init
    <2>4. outside \in 0 .. MaxOutside
      BY OutsideAssumption DEF Init
    <2> QED
      BY <2>1, <2>2, <2>3, <2>4, RootAssumption DEF Init, TypeOK
  <1>2. /\ TemporaryInv /\ VerifiedInv /\ PolicyInv /\ LinksInv
        /\ WholeFilesOnly /\ NoSeenLinkFollowed
    BY DEF Init, TemporaryInv, VerifiedInv, PolicyInv, LinksInv, WholeFilesOnly, NoSeenLinkFollowed
  <1> QED
    BY <1>1, <1>2 DEF IndInv

\* An exception keeps the invariant: the destructors remove the temporary, or
\* leave it behind.
LEMMA ThrowInv ==
    ASSUME IndInv, Throw
    PROVE  IndInv'
  <1>1. TypeOK'
    BY DEF IndInv, TypeOK, Throw, RemoveTemporary, Disturb, others, result
  <1>2. TemporaryInv' /\ VerifiedInv' /\ LinksInv'
    BY DEF Throw, RemoveTemporary, TemporaryInv, VerifiedInv, LinksInv
  <1>3. PolicyInv' /\ WholeFilesOnly' /\ NoSeenLinkFollowed'
    BY DEF IndInv, Throw, PolicyInv, WholeFilesOnly, NoSeenLinkFollowed
  <1> QED
    BY <1>1, <1>2, <1>3 DEF IndInv

\* What safe ancestors are: no link on the path.
LEMMA SafeHasNoLinks ==
    ASSUME NEW p, SafeAncestors(p)
    PROVE  Links(p) = {}
  BY DEF SafeAncestors, Links

\* require_safe_ancestors keeps the invariant, given what the next place in
\* restore() needs.
LEMMA CheckInv ==
    ASSUME IndInv, NEW e \in Entry, NEW next, CheckAncestors(e, next),
           next \in {"make_directory", "open", "publish", "stamp"},
           next = "publish" => pc = "recheck" /\ e = cur,
           next # "publish" => temp = "none",
           next = "stamp" => fs[e] = "directory"
    PROVE  IndInv'
  <1>1. CASE ~SafeAncestors(e)
    BY <1>1, ThrowInv DEF CheckAncestors
  <1>2. CASE SafeAncestors(e)
    <2> USE DEF CheckAncestors, tree, output, result
    <2>1. TypeOK'
      BY <1>2 DEF IndInv, TypeOK
    <2>2. TemporaryInv' /\ VerifiedInv'
      BY <1>2 DEF IndInv, TemporaryInv, VerifiedInv
    <2>3. LinksInv'
      BY <1>2, SafeHasNoLinks DEF LinksInv, Links
    <2>4. PolicyInv' /\ WholeFilesOnly' /\ NoSeenLinkFollowed'
      BY <1>2 DEF IndInv, PolicyInv, WholeFilesOnly, NoSeenLinkFollowed
    <2> QED
      BY <2>1, <2>2, <2>3, <2>4 DEF IndInv
  <1> QED
    BY <1>1, <1>2

\* A step that leaves the tree alone and goes to a place where nothing is
\* checked, verified or temporary keeps the invariant.
LEMMA QuietInv ==
    ASSUME IndInv, TypeOK', UNCHANGED <<fs, data, followed, request, plan>>,
           temp' = "none",
           pc' \in {"lock", "read", "validate", "make_root", "plan", "directories", "files",
                    "links", "flush", "metadata", "returned"}
    PROVE  IndInv'
  <1>1. TemporaryInv' /\ VerifiedInv' /\ LinksInv'
    BY DEF TemporaryInv, VerifiedInv, LinksInv
  <1>2. PolicyInv' /\ WholeFilesOnly' /\ NoSeenLinkFollowed'
    BY DEF IndInv, PolicyInv, WholeFilesOnly, NoSeenLinkFollowed
  <1> QED
    BY <1>1, <1>2 DEF IndInv

\* Others' work keeps the invariant: a link they make is fresh.
LEMMA OutsideInv ==
    ASSUME IndInv, Outside
    PROVE  IndInv'
  <1> USE DEF output, result
  <1>1. ASSUME NEW p \in Path, OutsideRemove(p)
        PROVE  IndInv'
    <2> USE <1>1 DEF OutsideRemove
    <2>1. TypeOK'
      BY TreeAssumption, OutsideAssumption DEF IndInv, TypeOK, Kind
    <2>2. TemporaryInv' /\ VerifiedInv' /\ PolicyInv' /\ WholeFilesOnly' /\ NoSeenLinkFollowed'
      BY DEF IndInv, TypeOK, TemporaryInv, VerifiedInv, PolicyInv, WholeFilesOnly,
             NoSeenLinkFollowed
    <2>3. LinksInv'
      BY DEF IndInv, TypeOK, LinksInv, Links, Ancestors
    <2> QED
      BY <2>1, <2>2, <2>3 DEF IndInv
  <1>2. ASSUME NEW p \in Path, NEW kind \in Kind \ {"not_found"}, OutsideCreate(p, kind)
        PROVE  IndInv'
    <2> USE <1>2 DEF OutsideCreate
    <2>1. TypeOK'
      BY TreeAssumption, OutsideAssumption DEF IndInv, TypeOK
    <2>2. TemporaryInv' /\ VerifiedInv' /\ PolicyInv' /\ WholeFilesOnly' /\ NoSeenLinkFollowed'
      BY DEF IndInv, TypeOK, TemporaryInv, VerifiedInv, PolicyInv, WholeFilesOnly,
             NoSeenLinkFollowed
    <2>3. LinksInv'
      <3>1. \A q \in Path : fs'[q] = "link" => fs[q] = "link" \/ q \in fresh'
        BY DEF IndInv, TypeOK
      <3>2. fresh \subseteq fresh' /\ cur \in Path
        BY EntryAssumption DEF IndInv, TypeOK
      <3> QED
        BY <3>1, <3>2 DEF IndInv, LinksInv, Links, Ancestors
    <2> QED
      BY <2>1, <2>2, <2>3 DEF IndInv
  <1> QED
    BY <1>1, <1>2 DEF Outside

\* What comes before the passes keeps the invariant.
LEMMA PlanningInv ==
    ASSUME IndInv,
           \/ NormalizedDestination
           \/ LockAndRecover \/ ReadEntries \/ ValidateFiles \/ MakeRoot
           \/ \E e \in Entry : BuildPlan(e)
           \/ StartDirectories \/ StartFiles \/ StartLinks \/ StartMetadata
    PROVE  IndInv'
  <1> USE DEF tree, others, output, result
  <1>0. temp = "none" \/ pc \in {"chunks", "recheck", "publish", "crashed"}
    BY DEF IndInv, TemporaryInv
  <1>1. CASE NormalizedDestination
    <2>1. CASE fs[<<>>] \in {"not_found", "directory"}
      <3>1. TypeOK'
        BY <1>1, <2>1 DEF IndInv, TypeOK, NormalizedDestination
      <3> QED
        BY <1>0, <1>1, <2>1, <3>1, QuietInv DEF NormalizedDestination
    <2> QED
      BY <1>1, <2>1, ThrowInv DEF NormalizedDestination
  <1>2. CASE LockAndRecover \/ ReadEntries \/ ValidateFiles
    <2> USE <1>2 DEF LockAndRecover, ReadEntries, ValidateFiles, Advance
    <2>1. request.paths \in SUBSET Entry
      BY DEF IndInv, TypeOK, Request
    <2>2. TypeOK'
      BY <2>1, SelectedAreEntries DEF IndInv, TypeOK, Selected
    <2> QED
      BY <1>0, <2>2, QuietInv
  <1>3. CASE MakeRoot
    <2>1. CASE Throw
      BY <2>1, ThrowInv
    <2>2. CASE ~Throw
      <3> USE <1>3, <2>2 DEF MakeRoot, Exists
      <3>1. <<>> \in Path
        BY RootAssumption, EntryAssumption
      <3>2. TypeOK'
        BY <3>1 DEF IndInv, TypeOK, Kind
      <3>3. TemporaryInv' /\ VerifiedInv' /\ LinksInv' /\ PolicyInv'
        BY <1>0 DEF IndInv, TemporaryInv, VerifiedInv, LinksInv, PolicyInv
      <3>4. WholeFilesOnly' /\ NoSeenLinkFollowed'
        BY <3>1 DEF IndInv, TypeOK, WholeFilesOnly, NoSeenLinkFollowed
      <3> QED
        BY <3>2, <3>3, <3>4 DEF IndInv
    <2> QED
      BY <2>1, <2>2
  <1>4. ASSUME NEW e \in Entry, BuildPlan(e)
        PROVE  IndInv'
    <2>1. CASE Throw
      BY <2>1, ThrowInv
    <2>2. CASE ~Throw
      <3>1. PICK action \in Decisions(e) :
              /\ action # "throw"
              /\ plan' = [plan EXCEPT ![e] = action]
              /\ todo' = todo \ {e}
              /\ UNCHANGED <<tree, others, request, stop, pc, cur, output, result>>
        BY <1>4, <2>2 DEF BuildPlan
      <3>2. TypeOK
        BY DEF IndInv
      <3>3. action \in Action
        BY <3>1, <3>2, DecisionType
      <3>4. TypeOK'
        BY <3>1, <3>2, <3>3 DEF TypeOK
      <3>5. PolicyInv'
        BY <3>1, <3>2, NeverReplaces DEF IndInv, PolicyInv, TypeOK
      <3>6. TemporaryInv' /\ VerifiedInv' /\ LinksInv' /\ WholeFilesOnly' /\ NoSeenLinkFollowed'
        BY <3>1 DEF IndInv, TemporaryInv, VerifiedInv, LinksInv, Links, WholeFilesOnly,
                    NoSeenLinkFollowed
      <3> QED
        BY <3>4, <3>5, <3>6 DEF IndInv
    <2> QED
      BY <2>1, <2>2
  <1>5. ASSUME NEW from, NEW to, NEW entries \in SUBSET Entry, NextPass(from, to, entries),
               from \in {"plan", "directories", "files", "links"},
               to \in {"directories", "files", "links", "metadata"}
        PROVE  IndInv'
    <2>1. TypeOK'
      BY <1>5 DEF IndInv, TypeOK, NextPass
    <2> QED
      BY <1>0, <1>5, <2>1, QuietInv DEF NextPass
  <1>6. CASE StartDirectories
    BY <1>5, <1>6 DEF StartDirectories, Planned
  <1>7. CASE StartFiles
    BY <1>5, <1>7 DEF StartFiles, Planned
  <1>8. CASE StartLinks
    BY <1>5, <1>8 DEF StartLinks, Planned
  <1>9. CASE StartMetadata
    BY <1>5, <1>9 DEF StartMetadata, Planned
  <1> QED
    BY <1>1, <1>2, <1>3, <1>4, <1>6, <1>7, <1>8, <1>9

\* The pass over directories keeps the invariant.
LEMMA DirectoriesInv ==
    ASSUME IndInv, \/ \E e \in Entry : DirectoryEntry(e)
                   \/ MakeDirectory
    PROVE  IndInv'
  <1> USE DEF tree, others, output, result
  <1>0. temp = "none" \/ pc \in {"chunks", "recheck", "publish", "crashed"}
    BY DEF IndInv, TemporaryInv
  <1>1. ASSUME NEW e \in Entry, DirectoryEntry(e)
        PROVE  IndInv'
    <2>1. CASE CheckAncestors(e, "make_directory")
      BY <1>0, <1>1, <2>1, CheckInv DEF DirectoryEntry
    <2>2. CASE ~CheckAncestors(e, "make_directory")
      <3>1. TypeOK'
        BY <1>1, <2>2 DEF IndInv, TypeOK, DirectoryEntry, Skip, Settle, Report, Reason
      <3> QED
        BY <1>0, <1>1, <2>2, <3>1, QuietInv DEF DirectoryEntry, Skip, Settle
    <2> QED
      BY <2>1, <2>2
  <1>2. CASE MakeDirectory
    <2>1. CASE Throw
      BY <2>1, ThrowInv
    <2>2. CASE /\ Reachable(cur) /\ ~Exists(cur)
               /\ fs' = [fs EXCEPT ![cur] = "directory"]
               /\ data' = [data EXCEPT ![cur] = "whole"]
               /\ Disturb(Parent(cur))
               /\ UNCHANGED followed
               /\ Settle(cur)
               /\ restored' = restored \cup {cur}
               /\ pc' = Pass
               /\ UNCHANGED <<cur, output, skipped>>
      <3>1. cur \in Path /\ Pass \in {"directories", "files", "links"}
        BY PassType, EntryAssumption DEF IndInv, TypeOK
      <3>2. TypeOK'
        BY <2>2, <3>1 DEF IndInv, TypeOK, Kind, Settle, Disturb
      <3>3. TemporaryInv' /\ VerifiedInv' /\ LinksInv'
        BY <1>0, <1>2, <2>2, <3>1 DEF MakeDirectory, TemporaryInv, VerifiedInv, LinksInv
      <3>4. PolicyInv' /\ WholeFilesOnly' /\ NoSeenLinkFollowed'
        BY <2>2, <3>1 DEF IndInv, TypeOK, Settle, PolicyInv, WholeFilesOnly, NoSeenLinkFollowed
      <3> QED
        BY <3>2, <3>3, <3>4 DEF IndInv
    <2>3. CASE /\ FollowLinks(Links(cur))
               /\ Settle(cur)
               /\ restored' = restored \cup {cur}
               /\ pc' = Pass
               /\ UNCHANGED <<fs, data, stamped, cur, output, skipped>>
      <3>1. Pass \in {"directories", "files", "links"}
        BY PassType DEF IndInv
      <3>2. UNCHANGED followed
        BY <1>2, <2>3 DEF IndInv, LinksInv, MakeDirectory, FollowLinks, NoSeenLinkFollowed
      <3>3. TypeOK'
        BY <2>3, <3>1, <3>2 DEF IndInv, TypeOK, Settle
      <3> QED
        BY <1>0, <1>2, <2>3, <3>1, <3>2, <3>3, QuietInv DEF MakeDirectory, Settle
    <2> QED
      BY <1>2, <2>1, <2>2, <2>3 DEF MakeDirectory
  <1> QED
    BY <1>1, <1>2

\* Preparing a temporary file or link keeps the invariant.
LEMMA TemporariesInv ==
    ASSUME IndInv,
           \/ \E e \in Entry : FileEntry(e) \/ LinkEntry(e)
           \/ OpenTemporary \/ OpenFails \/ LinkPrivilegeUnavailable
           \/ WriteChunk \/ FinishFile \/ RecheckAncestors
    PROVE  IndInv'
  <1> USE DEF tree, others, output, result
  <1>0. temp = "none" \/ pc \in {"chunks", "recheck", "publish", "crashed"}
    BY DEF IndInv, TemporaryInv
  <1>1. ASSUME NEW e \in Entry, FileEntry(e) \/ LinkEntry(e)
        PROVE  IndInv'
    <2>1. CASE plan[e] = "skip"
      <3>1. TypeOK'
        BY <1>1, <2>1 DEF IndInv, TypeOK, FileEntry, LinkEntry, Skip, Settle, Report, Reason
      <3> QED
        BY <1>0, <1>1, <2>1, <3>1, QuietInv DEF FileEntry, LinkEntry, Skip, Settle
    <2>2. CASE plan[e] # "skip"
      BY <1>0, <1>1, <2>2, CheckInv DEF FileEntry, LinkEntry
    <2> QED
      BY <2>1, <2>2
  <1>2. CASE OpenTemporary
    <2>1. UNCHANGED followed
      BY <1>2 DEF OpenTemporary, IndInv, LinksInv, FollowLinks, NoSeenLinkFollowed
    <2>2. /\ TypeOf[cur] \in EntryType
          /\ Chunks[cur] \in Nat
      BY EntryAssumption DEF IndInv, TypeOK
    <2>3. TypeOK'
      BY <1>2, <2>1 DEF OpenTemporary, IndInv, TypeOK, Disturb
    <2>4. TemporaryInv' /\ VerifiedInv' /\ LinksInv'
      BY <1>2, <2>2 DEF OpenTemporary, TemporaryInv, VerifiedInv, LinksInv
    <2>5. PolicyInv' /\ WholeFilesOnly' /\ NoSeenLinkFollowed'
      BY <1>2, <2>1 DEF OpenTemporary, IndInv, PolicyInv, WholeFilesOnly, NoSeenLinkFollowed
    <2> QED
      BY <2>3, <2>4, <2>5 DEF IndInv
  <1>3. CASE OpenFails
    BY <1>3, ThrowInv DEF OpenFails
  <1>4. CASE LinkPrivilegeUnavailable
    <2>1. Pass \in {"directories", "files", "links"}
      BY PassType DEF IndInv
    <2>2. TypeOK'
      BY <1>4, <2>1 DEF LinkPrivilegeUnavailable, IndInv, TypeOK, Settle, Report, Reason
    <2> QED
      BY <1>0, <1>4, <2>1, <2>2, QuietInv DEF LinkPrivilegeUnavailable, Settle
  <1>5. CASE WriteChunk
    <2>1. CASE Throw
      BY <2>1, ThrowInv
    <2>2. CASE ~Throw
      <3> USE <1>5, <2>2 DEF WriteChunk
      <3>1. TypeOK'
        BY DEF IndInv, TypeOK
      <3>2. Chunks[cur] \in Nat
        BY EntryAssumption DEF IndInv, TypeOK
      <3>3. TemporaryInv' /\ VerifiedInv' /\ LinksInv'
        BY <3>2 DEF IndInv, TypeOK, TemporaryInv, VerifiedInv, LinksInv
      <3>4. PolicyInv' /\ WholeFilesOnly' /\ NoSeenLinkFollowed'
        BY DEF IndInv, PolicyInv, WholeFilesOnly, NoSeenLinkFollowed
      <3> QED
        BY <3>1, <3>3, <3>4 DEF IndInv
    <2> QED
      BY <2>1, <2>2
  <1>6. CASE FinishFile
    <2>1. CASE ~FileHashMatches
      BY <1>6, <2>1, ThrowInv DEF FinishFile
    <2>2. CASE FileHashMatches
      <3> USE <1>6, <2>2 DEF FinishFile, FileHashMatches
      <3>1. TypeOK'
        BY DEF IndInv, TypeOK
      <3>2. TemporaryInv' /\ VerifiedInv' /\ LinksInv'
        BY DEF IndInv, TemporaryInv, VerifiedInv, LinksInv
      <3>3. PolicyInv' /\ WholeFilesOnly' /\ NoSeenLinkFollowed'
        BY DEF IndInv, PolicyInv, WholeFilesOnly, NoSeenLinkFollowed
      <3> QED
        BY <3>1, <3>2, <3>3 DEF IndInv
    <2> QED
      BY <2>1, <2>2
  <1>7. CASE RecheckAncestors
    <2>1. cur \in Entry
      BY DEF IndInv, TypeOK
    <2> QED
      BY <1>7, <2>1, CheckInv DEF RecheckAncestors
  <1> QED
    BY <1>1, <1>2, <1>3, <1>4, <1>5, <1>6, <1>7

\* Publication keeps the invariant: what is renamed has been verified.
LEMMA PublicationInv ==
    ASSUME IndInv,
           \/ Publish \/ DestinationAppeared \/ PublishFails \/ PublishElsewhere
           \/ FlushAndCount
    PROVE  IndInv'
  <1> USE DEF tree, others, output, result
  <1>0. /\ temp = "none" \/ pc \in {"chunks", "recheck", "publish", "crashed"}
        /\ Pass \in {"directories", "files", "links"}
        /\ cur \in Path /\ Parent(cur) \in Path
    BY PassType, EntryAssumption, TreeAssumption DEF IndInv, TypeOK, TemporaryInv
  <1>1. CASE Publish
    <2> USE <1>1 DEF Publish, Disturb
    <2>1. Contents = "whole" /\ KindOf(cur) \in Kind
      BY DEF IndInv, VerifiedInv, Contents, KindOf, Kind
    <2>2. TypeOK'
      BY <1>0, <2>1 DEF IndInv, TypeOK
    <2>3. TemporaryInv' /\ VerifiedInv' /\ LinksInv'
      BY DEF TemporaryInv, VerifiedInv, LinksInv
    <2>4. PolicyInv' /\ WholeFilesOnly' /\ NoSeenLinkFollowed'
      BY <1>0, <2>1 DEF IndInv, TypeOK, PolicyInv, WholeFilesOnly, NoSeenLinkFollowed
    <2> QED
      BY <2>2, <2>3, <2>4 DEF IndInv
  <1>2. CASE DestinationAppeared
    <2>1. TypeOK'
      BY <1>0, <1>2 DEF DestinationAppeared, IndInv, TypeOK, Settle, RemoveTemporary, Disturb,
                        Report, Reason
    <2> QED
      BY <1>0, <1>2, <2>1, QuietInv DEF DestinationAppeared, Settle, RemoveTemporary
  <1>3. CASE PublishFails
    BY <1>3, ThrowInv DEF PublishFails
  <1>4. CASE PublishElsewhere
    <2>1. UNCHANGED followed
      BY <1>4 DEF PublishElsewhere, IndInv, LinksInv, FollowLinks, NoSeenLinkFollowed
    <2>2. TypeOK'
      BY <1>0, <1>4, <2>1 DEF PublishElsewhere, IndInv, TypeOK, Settle, Report, Reason
    <2> QED
      BY <1>0, <1>4, <2>1, <2>2, QuietInv DEF PublishElsewhere, Settle
  <1>5. CASE FlushAndCount
    <2>1. TypeOK'
      BY <1>0, <1>5 DEF FlushAndCount, IndInv, TypeOK, Settle, Report, Reason
    <2> QED
      BY <1>0, <1>5, <2>1, QuietInv DEF FlushAndCount, Settle
  <1> QED
    BY <1>1, <1>2, <1>3, <1>4, <1>5

\* Directory metadata and the return keep the invariant.
LEMMA MetadataInv ==
    ASSUME IndInv, \/ \E e \in Entry : MetadataEntry(e)
                   \/ ApplyMetadata \/ Return
    PROVE  IndInv'
  <1> USE DEF tree, others, output, result
  <1>0. temp = "none" \/ pc \in {"chunks", "recheck", "publish", "crashed"}
    BY DEF IndInv, TemporaryInv
  <1>1. ASSUME NEW e \in Entry, MetadataEntry(e)
        PROVE  IndInv'
    BY <1>0, <1>1, CheckInv, ThrowInv DEF MetadataEntry
  <1>2. CASE ApplyMetadata
    <2>1. UNCHANGED followed
      BY <1>2 DEF ApplyMetadata, IndInv, LinksInv, FollowLinks, NoSeenLinkFollowed
    <2>2. TypeOK'
      BY <1>2, <2>1, EntryAssumption DEF ApplyMetadata, IndInv, TypeOK, Settle, Report, Reason
    <2> QED
      BY <1>0, <1>2, <2>1, <2>2, QuietInv DEF ApplyMetadata, Settle
  <1>3. CASE Return
    <2>1. TypeOK'
      BY <1>3 DEF Return, IndInv, TypeOK
    <2> QED
      BY <1>0, <1>3, <2>1, QuietInv DEF Return
  <1> QED
    BY <1>1, <1>2, <1>3

\* The stop token and the death of the process keep the invariant.
LEMMA CancelCrashInv ==
    ASSUME IndInv, Cancel \/ Crash
    PROVE  IndInv'
  <1> USE DEF tree, others, output, result, Cancel, Crash
  <1>1. TypeOK'
    BY DEF IndInv, TypeOK
  <1>2. TemporaryInv' /\ VerifiedInv' /\ LinksInv'
    BY DEF IndInv, TemporaryInv, VerifiedInv, LinksInv, Links
  <1>3. PolicyInv' /\ WholeFilesOnly' /\ NoSeenLinkFollowed'
    BY DEF IndInv, PolicyInv, WholeFilesOnly, NoSeenLinkFollowed
  <1> QED
    BY <1>1, <1>2, <1>3 DEF IndInv

\* Every step keeps the invariant.
LEMMA NextInv == IndInv /\ [Next]_vars => IndInv'
  <1> SUFFICES ASSUME IndInv, [Next]_vars PROVE IndInv'
    OBVIOUS
  <1>1. CASE Restore
    BY <1>1, ThrowInv, PlanningInv, DirectoriesInv, TemporariesInv, PublicationInv, MetadataInv
       DEF Restore, CheckCancelled
  <1>2. CASE Outside
    BY <1>2, OutsideInv
  <1>3. CASE Cancel \/ Crash
    BY <1>3, CancelCrashInv
  <1>4. CASE Fault
    BY <1>4, ThrowInv DEF Fault
  <1>5. CASE UNCHANGED vars
    <2> USE <1>5 DEF vars, tree, others, output, result
    <2>1. TypeOK'
      BY DEF IndInv, TypeOK
    <2>2. TemporaryInv' /\ VerifiedInv' /\ LinksInv'
      BY DEF IndInv, TemporaryInv, VerifiedInv, LinksInv, Links
    <2>3. PolicyInv' /\ WholeFilesOnly' /\ NoSeenLinkFollowed'
      BY DEF IndInv, PolicyInv, WholeFilesOnly, NoSeenLinkFollowed
    <2> QED
      BY <2>1, <2>2, <2>3 DEF IndInv
  <1> QED
    BY <1>1, <1>2, <1>3, <1>4, <1>5 DEF Next

\* The inductive invariant holds in every reachable state.
THEOREM InvariantHolds == Spec => []IndInv
  BY InitInv, NextInv, PTL DEF Spec

\* No part of a file is ever at a destination: whatever fails, is cancelled or
\* crashes, restore() publishes verified files only.
THEOREM OnlyWholeFiles == Spec => []WholeFilesOnly
  <1>1. IndInv => WholeFilesOnly
    BY DEF IndInv
  <1> QED
    BY <1>1, InvariantHolds, PTL

\* No call goes over a link that require_safe_ancestors has had a chance to see.
THEOREM LinksRefused == Spec => []NoSeenLinkFollowed
  <1>1. IndInv => NoSeenLinkFollowed
    BY DEF IndInv
  <1> QED
    BY <1>1, InvariantHolds, PTL

\* Only three steps of the restore itself change what is in the tree.
LEMMA WhoWrites ==
    ASSUME Restore \/ Cancel \/ Fault \/ Crash
    PROVE  UNCHANGED <<fs, data>> \/ MakeRoot \/ MakeDirectory \/ Publish
  <1> USE DEF tree
  <1>1. Throw => UNCHANGED <<fs, data>>
    BY DEF Throw
  <1>2. ASSUME NEW e \in Entry, \/ BuildPlan(e) \/ DirectoryEntry(e) \/ FileEntry(e)
                                \/ LinkEntry(e) \/ MetadataEntry(e)
        PROVE  UNCHANGED <<fs, data>>
    <2>1. BuildPlan(e) => UNCHANGED <<fs, data>>
      BY <1>1 DEF BuildPlan
    <2>2. Skip(e) => UNCHANGED <<fs, data>>
      BY DEF Skip
    <2>3. DirectoryEntry(e) => UNCHANGED <<fs, data>>
      BY <1>1, <2>2 DEF DirectoryEntry, CheckAncestors, Settle
    <2>4. FileEntry(e) \/ LinkEntry(e) => UNCHANGED <<fs, data>>
      BY <1>1, <2>2 DEF FileEntry, LinkEntry, CheckAncestors
    <2>5. MetadataEntry(e) => UNCHANGED <<fs, data>>
      BY <1>1 DEF MetadataEntry, CheckAncestors
    <2> QED
      BY <1>2, <2>1, <2>3, <2>4, <2>5
  <1>3. ASSUME \/ CheckCancelled \/ NormalizedDestination
               \/ LockAndRecover \/ ReadEntries \/ ValidateFiles
               \/ StartDirectories \/ StartFiles \/ StartLinks \/ StartMetadata
        PROVE  UNCHANGED <<fs, data>>
    BY <1>1, <1>3 DEF CheckCancelled, NormalizedDestination, LockAndRecover, ReadEntries,
                      ValidateFiles, Advance, StartDirectories, StartFiles, StartLinks,
                      StartMetadata, NextPass
  <1>4. ASSUME \/ OpenTemporary \/ OpenFails \/ LinkPrivilegeUnavailable
               \/ WriteChunk \/ FinishFile
        PROVE  UNCHANGED <<fs, data>>
    BY <1>1, <1>4 DEF OpenTemporary, OpenFails, LinkPrivilegeUnavailable, WriteChunk, FinishFile
  <1>5. ASSUME \/ DestinationAppeared \/ PublishFails \/ PublishElsewhere
               \/ FlushAndCount \/ ApplyMetadata \/ Return
        PROVE  UNCHANGED <<fs, data>>
    BY <1>1, <1>5 DEF DestinationAppeared, PublishFails, PublishElsewhere, FlushAndCount,
                      ApplyMetadata, Return
  <1>6. RecheckAncestors => UNCHANGED <<fs, data>>
    BY <1>1 DEF RecheckAncestors, CheckAncestors
  <1>7. Cancel \/ Fault \/ Crash => UNCHANGED <<fs, data>>
    BY <1>1 DEF Cancel, Fault, Crash
  <1> QED
    BY <1>2, <1>3, <1>4, <1>5, <1>6, <1>7 DEF Restore

\* A step of the restore changes something of the user's only by a planned
\* replacement.
LEMMA WritesKeepUserData ==
    ASSUME IndInv, [Next]_vars, outside' = outside, NEW p \in Path,
           data[p] = "user", Exists(p), data'[p] # data[p] \/ fs'[p] # fs[p]
    PROVE  /\ p \in Entry /\ plan[p] = "replace"
           /\ request.policy # "never"
           /\ fs[p] # "directory"
  <1>1. ~Outside
    BY OutsideAssumption DEF IndInv, TypeOK, Outside, OutsideCreate, OutsideRemove
  <1>2. ~UNCHANGED <<fs, data>>
    OBVIOUS
  <1>3. ~UNCHANGED vars
    BY <1>2 DEF vars, tree
  <1>4. Restore \/ Cancel \/ Fault \/ Crash
    BY <1>1, <1>3 DEF Next
  <1>5. MakeRoot \/ MakeDirectory \/ Publish
    BY <1>2, <1>4, WhoWrites
  <1>6. ~MakeRoot
    BY <1>2 DEF MakeRoot, Throw, IndInv, TypeOK, Exists
  <1>7. ~MakeDirectory
    BY <1>2 DEF MakeDirectory, Throw, IndInv, TypeOK, Exists
  <1>8. Publish /\ p = cur /\ MayRename
    BY <1>5, <1>6, <1>7 DEF Publish, IndInv, TypeOK
  <1>9. p \in Entry /\ plan[p] = "replace" /\ fs[p] # "directory"
    BY <1>8 DEF MayRename, Exists, IndInv, TypeOK
  <1>10. request.policy # "never"
    BY <1>9 DEF IndInv, PolicyInv
  <1> QED
    BY <1>9, <1>10

\* What the user has in the destination survives a restore, and so does what
\* appears there while it runs, except where a replacement was planned.
THEOREM UserDataSurvives == Spec => UserDataKept
  <1>1. IndInv /\ [Next]_vars =>
          [outside' = outside =>
             \A p \in Path :
                /\ data[p] = "user" /\ Exists(p)
                /\ data'[p] # data[p] \/ fs'[p] # fs[p]
                => /\ p \in Entry /\ plan[p] = "replace"
                   /\ request.policy # "never"
                   /\ fs[p] # "directory"]_vars
    BY WritesKeepUserData
  <1> QED
    BY <1>1, InvariantHolds, PTL DEF Spec, UserDataKept

--------------------------------------------------------------------------------
(* The result of a restore: the truth of every selected entry, its directories' *)
(* metadata last.                                                              *)

\* skipped_entries after a step that does not add to it, and after one that does.
LEMMA NamedKept ==
    ASSUME UNCHANGED skipped
    PROVE  /\ \A r : Named(r)' = Named(r)
           /\ NotRestored' = NotRestored /\ Warned' = Warned
           /\ NamedOnce' = NamedOnce
  BY DEF Named, NotRestored, Warned, NamedOnce

LEMMA NamedReport ==
    ASSUME NEW e \in Entry, NEW r \in Reason, Report(e, r)
    PROVE  /\ Named(r)' = Named(r) \cup {e}
           /\ \A x \in Reason \ {r} : Named(x)' = Named(x)
  BY DEF Named, Report

\* An entry the result counts, with or without a warning, and one it names as
\* not restored.
Counted(e) ==
    /\ restored' = restored \cup {e}
    /\ \/ UNCHANGED skipped
       \/ TypeOf[e] = "regular_file" /\ Report(e, "metadata")
Refused(e, r) ==
    /\ r \in Reason \ {"metadata"}
    /\ Report(e, r)
    /\ UNCHANGED restored

LEMMA CountedNames ==
    ASSUME NEW e \in Entry, Counted(e)
    PROVE  /\ \A r \in Reason \ {"metadata"} : Named(r)' = Named(r)
           /\ NotRestored' = NotRestored
           /\ Warned' \in {Warned, Warned \cup {e}}
           /\ Warned' # Warned => TypeOf[e] = "regular_file"
  <1>1. CASE UNCHANGED skipped
    BY <1>1, NamedKept
  <1>2. CASE TypeOf[e] = "regular_file" /\ Report(e, "metadata")
    BY <1>2, NamedReport DEF Reason, NotRestored, Warned
  <1> QED
    BY <1>1, <1>2 DEF Counted

LEMMA RefusedNames ==
    ASSUME NEW e \in Entry, NEW r, Refused(e, r)
    PROVE  /\ Named(r)' = Named(r) \cup {e}
           /\ \A x \in Reason \ {r} : Named(x)' = Named(x)
           /\ NotRestored' = NotRestored \cup {e}
           /\ Warned' = Warned
  <1>1. r \in {"conflict", "appeared", "unavailable"} /\ r \in Reason /\ Report(e, r)
    BY DEF Refused, Reason
  <1>2. /\ Named(r)' = Named(r) \cup {e}
        /\ \A x \in Reason \ {r} : Named(x)' = Named(x)
    BY <1>1, NamedReport
  <1> QED
    BY <1>1, <1>2 DEF Reason, NotRestored, Warned

\* An entry that is not named yet may be named.
LEMMA NamedOnceKept ==
    ASSUME NamedOnce, NEW e \in Entry, NEW r \in Reason, Report(e, r),
           e \notin NotRestored \cup Warned
    PROVE  NamedOnce'
  <1>1. \A x \in Reason : e \notin Named(x)
    BY DEF Reason, NotRestored, Warned
  <1>2. /\ Named(r)' = Named(r) \cup {e}
        /\ \A x \in Reason \ {r} : Named(x)' = Named(x)
    BY NamedReport
  <1> QED
    BY <1>1, <1>2 DEF NamedOnce

\* The pass each type of entry, and each place in restore(), belongs to.
LEMMA PassValues ==
    ASSUME NEW e \in Entry
    PROVE  /\ TypeOf[e] \in EntryType
           /\ PassOf(e) \in 1..3
           /\ PassOf(e) = 1 <=> TypeOf[e] = "directory"
           /\ PassOf(e) = 2 <=> TypeOf[e] = "regular_file"
           /\ PassOf(e) = 3 <=> TypeOf[e] = "symbolic_link"
  <1>1. TypeOf[e] \in EntryType
    BY EntryAssumption
  <1> QED
    BY <1>1 DEF EntryType, PassOf

LEMMA PlaceValues ==
    ASSUME NEW e \in Entry, NEW place
    PROVE  /\ place \in {"directories", "make_directory"} => PassAt(place, e) = 1
           /\ place = "files" => PassAt(place, e) = 2
           /\ place = "links" => PassAt(place, e) = 3
           /\ place \in {"open", "chunks", "recheck", "publish", "flush"} =>
                 PassAt(place, e) = PassOf(e)
           /\ place \in {"metadata", "stamp", "returned"} => PassAt(place, e) = 4
           /\ place \in {"begin", "lock", "read", "validate", "make_root", "plan",
                         "threw", "crashed"} => PassAt(place, e) = 0
  BY DEF PassAt

\* The place an entry's pass is at belongs to that pass.
LEMMA PassOfPass ==
    ASSUME TypeOK, NEW e \in Entry
    PROVE  /\ PassAt(Pass, e) = PassOf(cur)
           /\ Pass \in {"directories", "files", "links"}
           /\ TypeOf[cur] = "directory" => Pass = "directories"
           /\ TypeOf[cur] # "directory" => Pass \in {"files", "links"}
  <1>1. cur \in Entry
    BY DEF TypeOK
  <1> QED
    BY <1>1, PassValues, PlaceValues DEF Pass, EntryType

\* A step between the passes, or out of them, leaves the plan as it is.
LEMMA PlanKept ==
    ASSUME PlanInv, UNCHANGED <<plan, request>>,
           pc' \notin {"begin", "lock", "read", "validate", "make_root", "plan"},
           PassNow' > 0 => PassNow > 0
    PROVE  PlanInv'
  BY DEF PlanInv, Planned, Selected

\* A step that leaves the tree alone leaves what is in place there.
LEMMA PlaceKept ==
    ASSUME PlaceInv, UNCHANGED <<fs, data, touched, plan>>, fresh' \subseteq fresh,
           \A e \in restored' : e \in restored \/ PathTouched(e) \/ InPlace(e),
           pc' \in {"lock", "read", "validate", "make_root"} =>
              pc \in {"lock", "read", "validate", "make_root"},
           pc' = "plan" => pc = "plan",
           pc' = "stamp" => fs[cur'] = "directory" \/ cur' \in touched,
           pc' = "flush" => PathTouched(cur') \/ InPlace(cur')
    PROVE  PlaceInv'
  <1>1. /\ \A e : PathTouched(e)' = PathTouched(e)
        /\ \A e : InPlace(e)' = InPlace(e)
    BY DEF PathTouched, InPlace
  <1>2. IsTree' /\ fresh' \subseteq touched'
    BY DEF PlaceInv, IsTree, Exists
  <1> QED
    BY <1>1, <1>2 DEF PlaceInv, Planned

\* A step that leaves the tree alone makes nothing that the plan found absent.
LEMMA AbsentKept ==
    ASSUME AbsentInv, UNCHANGED <<fs, plan, touched>>, restored \subseteq restored',
           pc \in {"threw", "crashed"} => pc' \in {"threw", "crashed"},
           pc = "flush" => \/ cur \in restored'
                           \/ pc' = "flush" /\ cur' = cur
                           \/ pc' \in {"threw", "crashed"},
           \A e \in Named("appeared")' : e \in Named("appeared") \/ PathTouched(e)
    PROVE  AbsentInv'
  <1>1. /\ \A e : PathTouched(e)' = PathTouched(e)
        /\ \A e : Exists(e)' = Exists(e)
        /\ Planned' = Planned
    BY DEF PathTouched, Exists, Planned
  <1> QED
    BY <1>1 DEF AbsentInv

\* Outside the metadata pass nothing is asked of the directories' metadata.
LEMMA NoStamps ==
    ASSUME PassNow' # 4
    PROVE  StampInv'
  <1>1. pc' # "returned"
    BY DEF PassNow, PassAt
  <1> QED
    BY <1>1 DEF StampInv

\* A step within a pass that deals with no entry.
LEMMA AccountKept ==
    ASSUME AccountInv, PassNow' = PassNow,
           UNCHANGED <<todo, plan, request, restored, skipped>>,
           pc' \notin {"begin", "lock", "read", "validate", "make_root", "plan"},
           pc' \in AtEntry => cur' \in todo /\ plan[cur'] \notin {"none", "skip"},
           pc' = "make_directory" => TypeOf[cur'] = "directory",
           pc' \in AtEntry \ {"make_directory"} => TypeOf[cur'] # "directory",
           pc' = "stamp" => cur' \in todo
    PROVE  AccountInv'
  <1>1. Accounted' = Accounted
    BY DEF Accounted, Selected
  <1>2. Selected' = Selected
    BY DEF Selected
  <1> QED
    BY <1>1, <1>2, NamedKept DEF AccountInv

\* An entry of the pass is dealt with: it is counted, or named as not restored.
LEMMA AccountSettled ==
    ASSUME IndInv, AccountInv, PassNow \in 1..3, PassNow' = PassNow,
           NEW e \in todo, PassOf(e) = PassNow, Settle(e), NEW r,
           pc' \in {"directories", "files", "links"},
           \/ Counted(e) /\ plan[e] \notin {"none", "skip"}
           \/ /\ Refused(e, r)
              /\ r = "conflict" <=> plan[e] = "skip"
              /\ r # "conflict" => TypeOf[e] # "directory"
    PROVE  AccountInv'
  <1> USE DEF Settle
  <1>1. e \in Selected /\ Selected' = Selected /\ e \in Entry
    BY DEF AccountInv, Selected, IndInv, TypeOK
  <1>2. Accounted' = Accounted \cup {e} /\ e \notin Accounted
    BY <1>1 DEF Accounted
  <1>3. e \notin restored /\ e \notin NotRestored /\ e \notin Warned
    BY <1>2 DEF AccountInv
  <1>4. /\ restored' \cup NotRestored' = Accounted'
        /\ restored' \cap NotRestored' = {}
        /\ Warned' \subseteq restored'
        /\ Warned' \cap OfType("directory") = {}
    <2>1. CASE Counted(e)
      BY <1>1, <1>2, <1>3, <2>1, CountedNames DEF AccountInv, Counted, OfType
    <2>2. CASE Refused(e, r)
      BY <1>1, <1>2, <1>3, <2>2, RefusedNames DEF AccountInv, Refused
    <2> QED
      BY <2>1, <2>2
  <1>5. NamedOnce'
    <2>1. CASE UNCHANGED skipped
      BY <2>1, NamedKept DEF AccountInv
    <2>2. CASE Report(e, "metadata")
      BY <1>1, <1>3, <2>2, NamedOnceKept DEF AccountInv, Reason
    <2>3. CASE Refused(e, r)
      BY <1>1, <1>3, <2>3, NamedOnceKept DEF AccountInv, Refused
    <2> QED
      BY <2>1, <2>2, <2>3 DEF Counted
  <1>6. /\ PassNow' \in {2, 3} => \A x \in todo' : PassOf(x) = PassNow'
        /\ todo' \subseteq Selected' /\ PassNow' # 4
    BY <1>1 DEF AccountInv
  <1>7. pc' \notin AtEntry /\ pc' # "stamp" /\ pc' # "make_directory"
    BY DEF AtEntry
  <1>8. /\ \A x \in restored' : plan'[x] \notin {"none", "skip"}
        /\ \A x \in Named("conflict")' : plan'[x] = "skip"
        /\ \A x \in Named("appeared")' \cup Named("unavailable")' :
              plan'[x] # "skip" /\ TypeOf[x] # "directory"
    <2>1. CASE Counted(e) /\ plan[e] \notin {"none", "skip"}
      BY <1>1, <2>1, CountedNames DEF AccountInv, Counted, Reason
    <2>2. CASE /\ Refused(e, r)
               /\ r = "conflict" <=> plan[e] = "skip"
               /\ r # "conflict" => TypeOf[e] # "directory"
      <3>1. r \in {"conflict", "appeared", "unavailable"} /\ restored' = restored
        BY <2>2 DEF Refused, Reason
      <3>2. /\ Named(r)' = Named(r) \cup {e}
            /\ \A x \in Reason \ {r} : Named(x)' = Named(x)
        BY <1>1, <2>2, RefusedNames
      <3> QED
        BY <2>2, <3>1, <3>2 DEF AccountInv, Reason
    <2> QED
      BY <2>1, <2>2
  <1> QED
    BY <1>4, <1>5, <1>6, <1>7, <1>8 DEF AccountInv

\* An exception, or the death of the process.
LEMMA EndedResult ==
    ASSUME IndInv, IndInv', ResultInv, pc' \in {"threw", "crashed"},
           UNCHANGED <<fs, data, others, request, plan, result>>
    PROVE  ResultInv'
  <1> USE DEF others, result
  <1>1. PassNow' = 0
    BY PlaceValues DEF IndInv, TypeOK, PassNow
  <1>2. PlanInv'
    BY <1>1, PlanKept DEF ResultInv
  <1>3. AccountInv'
    BY <1>1, NamedKept DEF ResultInv, AccountInv, AtEntry
  <1>4. PlaceInv'
    BY PlaceKept DEF ResultInv
  <1>5. StampInv'
    BY <1>1, NoStamps
  <1>6. AbsentInv'
    BY NamedKept, AbsentKept DEF ResultInv
  <1> QED
    BY <1>2, <1>3, <1>4, <1>5, <1>6 DEF ResultInv

LEMMA ThrowResult ==
    ASSUME IndInv, IndInv', ResultInv, Throw
    PROVE  ResultInv'
  BY EndedResult DEF Throw

\* Others' work: what they change is touched.
LEMMA OutsideResult ==
    ASSUME IndInv, IndInv', ResultInv, Outside
    PROVE  ResultInv'
  <1> USE DEF output, result
  <1>1. PICK p \in Path :
          /\ \E kind \in Kind :
                /\ fs' = [fs EXCEPT ![p] = kind]
                /\ kind # "not_found" => Reachable(p) /\ ~Exists(p)
                /\ kind = "not_found" => \A q \in Path : IsAncestor(p, q) => ~Exists(q)
                /\ fresh' \subseteq fresh \cup {p}
          /\ data' = [data EXCEPT ![p] = "user"]
          /\ touched' = touched \cup {p}
          /\ stamped' = stamped \ {p, Parent(p)}
          /\ UNCHANGED <<followed, request, stop, pc, todo, cur, plan, result>>
    <2>1. "not_found" \in Kind
      BY DEF Kind
    <2> QED
      BY <2>1 DEF Outside, OutsideRemove, OutsideCreate
  <1>2. PICK kind \in Kind :
          /\ fs' = [fs EXCEPT ![p] = kind]
          /\ kind # "not_found" => Reachable(p) /\ ~Exists(p)
          /\ kind = "not_found" => \A q \in Path : IsAncestor(p, q) => ~Exists(q)
          /\ fresh' \subseteq fresh \cup {p}
    BY <1>1
  <1>3. PlanInv' /\ AccountInv'
    BY <1>1, NamedKept
       DEF ResultInv, PlanInv, AccountInv, Planned, Selected, Accounted, PassNow
  <1>4. StampInv'
    <2>1. WorkedIn \cup {p, Parent(p)} \subseteq WorkedIn'
      BY <1>1 DEF WorkedIn
    <2>2. PassNow' = PassNow /\ Warned' = Warned
      BY <1>1, NamedKept DEF PassNow
    <2> QED
      BY <1>1, <2>1, <2>2 DEF ResultInv, StampInv
  <1>5. PlaceInv'
    <2>1. \A q \in Path : q # p => fs'[q] = fs[q] /\ data'[q] = data[q]
      BY <1>1, <1>2 DEF IndInv, TypeOK
    <2>2. p \in touched' /\ touched \subseteq touched'
      BY <1>1
    <2>3. fs'[p] = kind
      BY <1>2 DEF IndInv, TypeOK
    <2>4. IsTree'
      <3> SUFFICES ASSUME NEW q \in Path, NEW a \in Ancestors(q), fs'[q] # "not_found"
                   PROVE  fs'[a] = "directory"
        BY DEF IsTree, Exists
      <3>1. a \in Path /\ IsAncestor(a, q)
        BY DEF Ancestors
      <3>2. CASE q = p
        <4>1. Reachable(p) /\ ~Exists(p)
          BY <3>2, <2>3, <1>2
        <4>2. a # p
          BY <3>1, <3>2, TreeAssumption DEF IsAncestor
        <4> QED
          BY <3>1, <3>2, <4>1, <4>2, <2>1 DEF Reachable
      <3>3. CASE q # p /\ a = p
        BY <3>1, <3>3, <2>1, <1>2 DEF ResultInv, PlaceInv, IsTree, Exists
      <3>4. CASE q # p /\ a # p
        BY <3>1, <3>4, <2>1 DEF ResultInv, PlaceInv, IsTree, Exists
      <3> QED
        BY <3>2, <3>3, <3>4
    <2>5. fresh' \subseteq touched'
      BY <1>2, <2>2 DEF ResultInv, PlaceInv
    <2>6. <<>> \in Path /\ cur \in Path /\ Entry \subseteq Path /\ restored \subseteq Entry
      BY RootAssumption, EntryAssumption DEF IndInv, TypeOK
    <2>7. /\ pc' \in {"lock", "read", "validate", "make_root"} =>
                fs'[<<>>] \in {"not_found", "directory"} \/ <<>> \in touched'
          /\ pc' = "plan" => fs'[<<>>] = "directory" \/ <<>> \in touched'
      BY <1>1, <2>1, <2>2, <2>6 DEF ResultInv, PlaceInv
    <2>8. \A e \in Planned' : plan'[e] = "merge_directory" => fs'[e] = "directory" \/ e \in touched'
      BY <1>1, <2>1, <2>2, <2>6 DEF ResultInv, PlaceInv, Planned
    <2>9. pc' = "stamp" => fs'[cur'] = "directory" \/ cur' \in touched'
      BY <1>1, <2>1, <2>2, <2>6 DEF ResultInv, PlaceInv
    <2>10. ASSUME NEW e \in Entry, PathTouched(e) \/ InPlace(e)
           PROVE  PathTouched(e)' \/ InPlace(e)'
      <3>1. CASE PathTouched(e) \/ e = p
        BY <3>1, <2>2 DEF PathTouched
      <3>2. CASE InPlace(e) /\ e # p
        BY <3>2, <2>1, <2>6 DEF InPlace
      <3> QED
        BY <2>10, <3>1, <3>2
    <2>11. /\ pc' = "flush" => (PathTouched(cur) \/ InPlace(cur))'
           /\ \A e \in restored' : PathTouched(e)' \/ InPlace(e)'
      <3>1. cur \in Entry /\ cur' = cur /\ restored' = restored /\ pc' = pc
        BY <1>1 DEF IndInv, TypeOK
      <3>2. pc = "flush" => PathTouched(cur) \/ InPlace(cur)
        BY DEF ResultInv, PlaceInv
      <3>3. \A e \in restored : PathTouched(e) \/ InPlace(e)
        BY DEF ResultInv, PlaceInv
      <3>4. ASSUME pc' = "flush" PROVE (PathTouched(cur) \/ InPlace(cur))'
        <4>1. PathTouched(cur) \/ InPlace(cur)
          BY <3>1, <3>2, <3>4
        <4>2. CASE PathTouched(cur) \/ cur = p
          BY <4>2, <3>1, <2>2 DEF PathTouched
        <4>3. CASE InPlace(cur) /\ cur # p
          BY <4>3, <3>1, <2>1, <2>6 DEF InPlace
        <4> QED
          BY <4>1, <4>2, <4>3
      <3> QED
        BY <3>1, <3>3, <3>4, <2>6, <2>10
    <2> QED
      BY <2>4, <2>5, <2>7, <2>8, <2>9, <2>11 DEF PlaceInv
  <1>6. AbsentInv'
    <2>1. \A q \in Path : q # p => Exists(q)' = Exists(q)
      BY <1>1, <1>2 DEF IndInv, TypeOK, Exists
    <2>2. Planned' = Planned /\ Planned \subseteq Path /\ Named("appeared")' = Named("appeared")
      BY <1>1, NamedKept, EntryAssumption DEF Planned
    <2>3. \A e : PathTouched(e) => PathTouched(e)'
      BY <1>1 DEF PathTouched
    <2> QED
      BY <1>1, <2>1, <2>2, <2>3 DEF ResultInv, AbsentInv
  <1> QED
    BY <1>3, <1>4, <1>5, <1>6 DEF ResultInv

\* The steps before the plan.
LEMMA BeforePlanResult ==
    ASSUME IndInv, IndInv', ResultInv,
           \/ NormalizedDestination
           \/ LockAndRecover \/ ReadEntries \/ ValidateFiles \/ MakeRoot
    PROVE  ResultInv'
  <1> USE DEF tree, others, output, result
  <1>1. CASE Throw
    BY <1>1, ThrowResult
  <1>2. CASE ~Throw
    <2>1. /\ \/ pc = "begin" /\ pc' = "lock"
             \/ pc = "lock" /\ pc' = "read"
             \/ pc = "read" /\ pc' = "validate" /\ todo' = Selected
             \/ pc = "validate" /\ pc' = "make_root" /\ todo' = todo
             \/ pc = "make_root" /\ pc' = "plan" /\ todo' = todo
          /\ UNCHANGED <<others, request, cur, plan, result>>
      BY <1>2 DEF NormalizedDestination, LockAndRecover, ReadEntries, ValidateFiles, MakeRoot,
                  Advance
    <2>2. PassNow' = 0 /\ PassNow = 0
      BY <2>1, PlaceValues DEF IndInv, TypeOK, PassNow
    <2>3. PlanInv'
      <3>1. Planned' = Planned /\ Planned = {} /\ Selected' = Selected
        BY <2>1 DEF ResultInv, PlanInv, Planned, Selected
      <3> QED
        BY <2>1, <2>2, <3>1 DEF ResultInv, PlanInv
    <2>4. AccountInv'
      BY <2>1, <2>2, NamedKept DEF ResultInv, AccountInv, AtEntry
    <2>5. StampInv'
      BY <2>2, NoStamps
    <2>6. PlaceInv'
      <3>1. restored' = {} /\ Planned' = {} /\ fresh' \subseteq touched'
        BY <2>1, <2>3, <2>4 DEF PlanInv, AccountInv, ResultInv, PlaceInv, Planned
      <3>2. CASE MakeRoot
        <4>1. <<>> \in Path
          BY RootAssumption, EntryAssumption
        <4>2. fs[<<>>] \in {"not_found", "directory"} \/ <<>> \in touched
          BY <3>2 DEF MakeRoot, ResultInv, PlaceInv
        <4>3. pc' = "plan" /\ (fs'[<<>>] = "directory" \/ <<>> \in touched')
          BY <1>2, <2>1, <3>2, <4>1, <4>2 DEF MakeRoot, IndInv, TypeOK, Exists
        <4>4. \A q \in Path : q # <<>> => fs'[q] = fs[q]
          BY <1>2, <3>2 DEF MakeRoot, IndInv, TypeOK
        <4>5. fs[<<>>] # "not_found" => UNCHANGED fs
          BY <1>2, <3>2 DEF MakeRoot, Exists
        <4>6. fs[<<>>] = "not_found" => fs'[<<>>] = "directory"
          BY <1>2, <3>2, <4>1 DEF MakeRoot, IndInv, TypeOK, Exists
        <4>7. IsTree'
          <5> SUFFICES ASSUME NEW q \in Path, NEW a \in Ancestors(q), fs'[q] # "not_found"
                       PROVE  fs'[a] = "directory"
            BY DEF IsTree, Exists
          <5>1. a \in Path /\ q # <<>>
            BY TreeAssumption DEF Ancestors, IsAncestor
          <5>2. fs[a] = "directory"
            BY <5>1, <4>4 DEF ResultInv, PlaceInv, IsTree, Exists
          <5> QED
            BY <5>1, <5>2, <4>4, <4>5, <4>6
        <4> QED
          BY <3>1, <4>3, <4>7 DEF PlaceInv
      <3>3. CASE ~MakeRoot
        <4>1. UNCHANGED fs
          BY <1>2, <3>3 DEF NormalizedDestination, LockAndRecover, ReadEntries, ValidateFiles,
                            Advance
        <4>2. pc = "begin" => fs[<<>>] \in {"not_found", "directory"}
          BY <1>2, <3>3 DEF NormalizedDestination, LockAndRecover, ReadEntries, ValidateFiles,
                            Advance
        <4>3. pc' # "plan"
          BY <1>2, <3>3 DEF NormalizedDestination, LockAndRecover, ReadEntries, ValidateFiles,
                            Advance
        <4>4. IsTree'
          BY <4>1 DEF ResultInv, PlaceInv, IsTree, Exists
        <4>5. pc' \in {"lock", "read", "validate", "make_root"} =>
                 fs'[<<>>] \in {"not_found", "directory"} \/ <<>> \in touched'
          BY <2>1, <4>1, <4>2 DEF ResultInv, PlaceInv
        <4> QED
          BY <2>1, <3>1, <4>3, <4>4, <4>5 DEF PlaceInv
      <3> QED
        BY <3>2, <3>3
    <2>7. AbsentInv'
      <3>1. Planned' = {} /\ Named("appeared")' = {}
        BY <2>1, <2>3, <2>4 DEF PlanInv, AccountInv, ResultInv, Planned, Named
      <3> QED
        BY <3>1 DEF AbsentInv
    <2> QED
      BY <2>3, <2>4, <2>5, <2>6, <2>7 DEF ResultInv
  <1> QED
    BY <1>1, <1>2

\* An entry is planned after everything above it.
LEMMA BuildPlanResult ==
    ASSUME IndInv, IndInv', ResultInv, NEW e \in Entry, BuildPlan(e)
    PROVE  ResultInv'
  <1> USE DEF tree, others, output, result
  <1>1. CASE Throw
    BY <1>1, ThrowResult
  <1>2. CASE ~Throw
    <2>1. PICK action \in Decisions(e) :
            /\ action # "throw"
            /\ plan' = [plan EXCEPT ![e] = action]
            /\ todo' = todo \ {e}
            /\ UNCHANGED <<tree, others, request, stop, pc, cur, output, result>>
      BY <1>2 DEF BuildPlan
    <2>2. action \in Action /\ action # "none"
      BY <2>1, DecisionType DEF IndInv, Action
    <2>3. pc = "plan" /\ pc' = "plan" /\ e \in todo /\ \A d \in todo : Len(e) <= Len(d)
      BY <2>1 DEF BuildPlan, Shallowest
    <2>4. PassNow' = 0 /\ PassNow = 0
      BY <2>3, PlaceValues DEF IndInv, TypeOK, PassNow
    <2>5. Planned' = Planned \cup {e} /\ e \notin Planned
      BY <2>1, <2>2, <2>3 DEF IndInv, TypeOK, Planned, ResultInv, PlanInv
    <2>6. /\ plan'[e] = action
          /\ \A x \in Entry : x # e => plan'[x] = plan[x]
      BY <2>1 DEF IndInv, TypeOK
    <2>7. /\ action = "merge_directory" =>
                TypeOf[e] = "directory" /\ (fs[e] = "directory" \/ e = <<>>)
          /\ BelowSkipped(e) /\ e # <<>> => action = "skip"
          /\ action = "create" => ~Exists(e)
      <3>1. request.policy \in Policy
        BY DEF IndInv, TypeOK, Request
      <3>2. "merge_directory" \in ConflictAction(e) =>
               TypeOf[e] = "directory" /\ fs[e] = "directory"
        BY <3>1 DEF ConflictAction, Replacement, Policy
      <3>3. "create" \notin ConflictAction(e)
        BY <3>1 DEF ConflictAction, Replacement, Policy
      <3> QED
        BY <3>2, <3>3, RootAssumption DEF Decisions
    <2>8. PlanInv'
      <3>1. Selected' = Selected
        BY <2>1 DEF Selected
      <3>2. todo' \subseteq Selected' /\ Planned' = Selected' \ todo'
        BY <2>1, <2>3, <2>5, <3>1 DEF ResultInv, PlanInv
      <3>3. \A x \in Planned', d \in todo' : Len(x) <= Len(d)
        BY <2>1, <2>3, <2>5 DEF ResultInv, PlanInv
      <3>4. \A x \in Entry : plan'[x] = "merge_directory" => TypeOf[x] = "directory"
        BY <2>6, <2>7 DEF ResultInv, PlanInv
      <3>5. ASSUME NEW d \in OfType("directory"), NEW x \in Planned',
                   plan'[d] = "skip", IsAncestor(d, x)
            PROVE  plan'[x] = "skip"
        <4>1. d \in Entry /\ x \in Entry /\ Len(d) < Len(x) /\ Len(d) \in Nat /\ Len(x) \in Nat
          BY <3>5, EntryAssumption, TreeAssumption DEF OfType, Planned, IsAncestor
        <4>2. CASE x = e
          <5>1. d # e /\ plan[d] = "skip" /\ x # <<>>
            BY <4>1, <4>2, <2>6, <3>5
          <5> QED
            BY <4>2, <5>1, <3>5, <2>6, <2>7 DEF BelowSkipped
        <4>3. CASE x # e
          <5>1. x \in Planned /\ Len(x) <= Len(e)
            BY <4>3, <2>3, <2>5, <3>5 DEF ResultInv, PlanInv
          <5>2. d # e
            BY <4>1, <5>1
          <5> QED
            BY <4>1, <4>3, <5>1, <5>2, <2>6, <3>5 DEF ResultInv, PlanInv
        <4> QED
          BY <4>2, <4>3
      <3> QED
        BY <2>3, <2>4, <3>2, <3>3, <3>4, <3>5 DEF PlanInv
    <2>9. AccountInv'
      <3>1. restored' = {} /\ skipped' = {}
        BY <2>1, <2>3 DEF ResultInv, AccountInv
      <3>2. NamedOnce' /\ \A x : Named(x)' = {}
        BY <3>1 DEF NamedOnce, Named
      <3> QED
        BY <2>3, <2>4, <3>1, <3>2 DEF AccountInv, AtEntry
    <2>10. PlaceInv'
      <3>1. restored' = {}
        BY <2>3, <2>9 DEF AccountInv
      <3>2. \A x \in Planned' : plan'[x] = "merge_directory" => fs'[x] = "directory" \/ x \in touched'
        <4>1. fs[<<>>] = "directory" \/ <<>> \in touched
          BY <2>3 DEF ResultInv, PlaceInv
        <4> QED
          BY <4>1, <2>1, <2>5, <2>6, <2>7 DEF ResultInv, PlaceInv, Planned
      <3>3. IsTree' /\ fresh' \subseteq touched'
        BY <2>1 DEF ResultInv, PlaceInv, IsTree, Exists
      <3> QED
        BY <2>1, <2>3, <3>1, <3>2, <3>3 DEF ResultInv, PlaceInv
    <2>11. StampInv'
      BY <2>4, NoStamps
    <2>12. AbsentInv'
      <3>1. /\ \A x : Exists(x)' = Exists(x)
            /\ UNCHANGED <<touched, restored>>
            /\ Named("appeared")' = {}
        BY <2>1, <2>3, <2>9 DEF Exists, AccountInv, Named
      <3>2. Planned \subseteq Entry
        BY DEF Planned
      <3> QED
        BY <2>3, <2>5, <2>6, <2>7, <3>1, <3>2 DEF ResultInv, AbsentInv
    <2> QED
      BY <2>8, <2>9, <2>10, <2>11, <2>12 DEF ResultInv
  <1> QED
    BY <1>1, <1>2

\* At the end of a pass every entry of its type is accounted for.
LEMMA NextPassResult ==
    ASSUME IndInv, IndInv', ResultInv,
           StartDirectories \/ StartFiles \/ StartLinks \/ StartMetadata
    PROVE  ResultInv'
  <1> USE DEF tree, others, output, result, NextPass
  <1>1. /\ \/ pc = "plan" /\ pc' = "directories" /\ todo' = Planned
           \/ pc = "directories" /\ pc' = "files" /\ todo' = Planned \cap OfType("regular_file")
           \/ pc = "files" /\ pc' = "links" /\ todo' = Planned \cap OfType("symbolic_link")
           \/ /\ pc = "links" /\ pc' = "metadata"
              /\ todo' = {e \in Planned \cap OfType("directory") : plan[e] # "skip"}
        /\ todo = {}
        /\ UNCHANGED <<tree, others, request, stop, cur, plan, output, result>>
    BY DEF StartDirectories, StartFiles, StartLinks, StartMetadata
  <1>2. /\ pc = "plan" => PassNow = 0 /\ PassNow' = 1
        /\ pc = "directories" => PassNow = 1 /\ PassNow' = 2
        /\ pc = "files" => PassNow = 2 /\ PassNow' = 3
        /\ pc = "links" => PassNow = 3 /\ PassNow' = 4
    BY <1>1, PlaceValues DEF IndInv, TypeOK, PassNow
  <1>3. Planned = Selected /\ Planned' = Planned /\ Selected' = Selected /\ Selected \subseteq Entry
    BY <1>1, <1>2 DEF ResultInv, PlanInv, Planned, Selected
  <1>4. PlanInv'
    BY <1>1, <1>2, <1>3 DEF ResultInv, PlanInv
  <1>5. AccountInv'
    <2>0. NotRestored' = NotRestored /\ Warned' = Warned /\ NamedOnce' = NamedOnce
      BY <1>1, NamedKept
    <2>1. restored' \cup NotRestored' = Accounted'
      <3>1. \A e \in Selected : PassOf(e) \in 1..3
        BY <1>3, PassValues
      <3>2. pc = "plan" => Accounted' = {} /\ restored = {} /\ NotRestored = {}
        BY <1>1, <1>2, <1>3, <3>1 DEF Accounted, ResultInv, AccountInv, NotRestored, Named
      <3>3. pc # "plan" => restored \cup NotRestored = Accounted
        BY <1>1, <1>2 DEF ResultInv, AccountInv
      <3>4. /\ pc = "directories" => todo' = {e \in Selected : PassOf(e) = 2}
            /\ pc = "files" => todo' = {e \in Selected : PassOf(e) = 3}
        BY <1>1, <1>3, PassValues DEF OfType
      <3>5. pc # "plan" => Accounted' = Accounted
        BY <1>1, <1>2, <1>3, <3>1, <3>4 DEF Accounted
      <3> QED
        BY <1>1, <2>0, <3>2, <3>3, <3>5
    <2>2. restored' \cap NotRestored' = {} /\ Warned' \subseteq restored'
      <3>1. pc = "plan" => restored = {} /\ NotRestored = {} /\ Warned = {}
        BY DEF ResultInv, AccountInv, NotRestored, Warned, Named
      <3>2. pc # "plan" => restored \cap NotRestored = {} /\ Warned \subseteq restored
        BY <1>1, <1>2 DEF ResultInv, AccountInv
      <3> QED
        BY <1>1, <2>0, <3>1, <3>2
    <2>8. /\ PassNow' \in 1..3 => Warned' \cap OfType("directory") = {}
          /\ PassNow' = 4 => Warned' \cap todo' = {}
          /\ NamedOnce'
      <3>1. pc = "plan" => Warned = {}
        BY DEF ResultInv, AccountInv, Warned, Named
      <3>2. pc # "plan" => Warned \cap OfType("directory") = {}
        BY <1>1, <1>2 DEF ResultInv, AccountInv
      <3>3. PassNow' = 4 => todo' \subseteq OfType("directory")
        BY <1>1, <1>2
      <3>4. NamedOnce
        BY DEF ResultInv, AccountInv
      <3> QED
        BY <1>1, <2>0, <3>1, <3>2, <3>3, <3>4
    <2>3. PassNow' \in {2, 3} => \A e \in todo' : PassOf(e) = PassNow'
      BY <1>1, <1>2, <1>3, PassValues DEF OfType
    <2>4. PassNow' \in 1..3 => todo' \subseteq Selected'
      BY <1>1, <1>2, <1>3
    <2>5. PassNow' = 4 => todo' \subseteq restored' \cap OfType("directory")
      <3> SUFFICES ASSUME PassNow' = 4, NEW e \in todo'
                   PROVE  e \in restored' /\ e \in OfType("directory")
        OBVIOUS
      <3>1. pc = "links" /\ e \in Planned /\ e \in OfType("directory") /\ plan[e] # "skip"
        BY <1>1, <1>2
      <3>2. e \in Accounted
        BY <1>2, <1>3, <3>1, PassValues DEF Accounted, OfType
      <3>3. e \notin NotRestored
        BY <3>1 DEF ResultInv, AccountInv, NotRestored, OfType
      <3> QED
        BY <1>1, <1>2, <3>1, <3>2, <3>3 DEF ResultInv, AccountInv
    <2>6. pc' \notin AtEntry /\ pc' # "stamp" /\ pc' # "make_directory"
      BY <1>1 DEF AtEntry
    <2>7. /\ \A e \in restored' : plan'[e] \notin {"none", "skip"}
          /\ \A e \in Named("conflict")' : plan'[e] = "skip"
          /\ \A e \in Named("appeared")' \cup Named("unavailable")' :
                plan'[e] # "skip" /\ TypeOf[e] # "directory"
      BY <1>1, NamedKept DEF ResultInv, AccountInv
    <2> QED
      BY <1>1, <2>1, <2>2, <2>3, <2>4, <2>5, <2>6, <2>7, <2>8 DEF AccountInv
  <1>6. PlaceInv'
    BY <1>1, PlaceKept DEF ResultInv
  <1>7. StampInv'
    <2>1. restored \subseteq Planned
      BY DEF IndInv, TypeOK, ResultInv, AccountInv, Planned
    <2>2. \A e \in restored : plan[e] # "skip"
      BY DEF ResultInv, AccountInv
    <2> QED
      BY <1>1, <1>2, <2>1, <2>2 DEF StampInv
  <1>8. AbsentInv'
    BY <1>1, NamedKept, AbsentKept DEF ResultInv
  <1> QED
    BY <1>4, <1>5, <1>6, <1>7, <1>8 DEF ResultInv

\* require_safe_ancestors takes up the entry, or throws.
LEMMA CheckResult ==
    ASSUME IndInv, IndInv', ResultInv, NEW e \in Entry, NEW next,
           CheckAncestors(e, next),
           \/ /\ next = "make_directory" /\ pc = "directories"
              /\ TypeOf[e] = "directory" /\ e \in todo /\ plan[e] \notin {"none", "skip"}
           \/ /\ next = "open" /\ pc \in {"files", "links"}
              /\ e \in todo /\ plan[e] \notin {"none", "skip"}
           \/ /\ next = "publish" /\ pc = "recheck" /\ e = cur
           \/ /\ next = "stamp" /\ pc = "metadata" /\ e \in todo /\ fs[e] = "directory"
    PROVE  ResultInv'
  <1> USE DEF tree, others, output, result
  <1>1. CASE ~SafeAncestors(e)
    BY <1>1, ThrowResult DEF CheckAncestors
  <1>2. CASE SafeAncestors(e)
    <2>1. /\ pc' = next /\ cur' = e /\ fresh' = {}
          /\ UNCHANGED <<fs, data, stamped, touched, request, todo, plan, result>>
      BY <1>2 DEF CheckAncestors
    <2>2. cur \in Entry /\ cur' \in Entry
      BY DEF IndInv, TypeOK
    <2>3. pc \in {"files", "links"} => PassOf(e) = PassNow /\ TypeOf[e] # "directory"
      <3>1. /\ pc = "files" => PassNow = 2
            /\ pc = "links" => PassNow = 3
        BY <2>2, PlaceValues DEF PassNow
      <3>2. pc \in {"files", "links"} => PassOf(e) = PassNow
        BY <3>1 DEF ResultInv, AccountInv
      <3> QED
        BY <3>1, <3>2, PassValues
    <2>4. PassNow' = PassNow /\ PassNow' > 0
      BY <2>1, <2>2, <2>3, PassValues, PlaceValues DEF PassNow
    <2>5. PlanInv'
      BY <2>1, <2>4, PlanKept DEF ResultInv
    <2>6. AccountInv'
      <3>1. pc = "recheck" => /\ cur \in todo /\ plan[cur] \notin {"none", "skip"}
                              /\ TypeOf[cur] # "directory"
        BY DEF ResultInv, AccountInv, AtEntry
      <3>2. /\ next = "stamp" => next \notin AtEntry
            /\ next = "make_directory" => next \notin AtEntry \ {"make_directory"}
        BY DEF AtEntry
      <3> QED
        BY <2>1, <2>3, <2>4, <3>1, <3>2, AccountKept DEF ResultInv
    <2>7. PlaceInv'
      BY <2>1, PlaceKept DEF ResultInv
    <2>8. StampInv'
      <3>1. Warned' = Warned /\ WorkedIn' = WorkedIn
        BY <2>1, NamedKept DEF WorkedIn
      <3> QED
        BY <2>1, <2>4, <3>1 DEF ResultInv, StampInv
    <2>9. AbsentInv'
      BY <2>1, NamedKept, AbsentKept DEF ResultInv
    <2> QED
      BY <2>5, <2>6, <2>7, <2>8, <2>9 DEF ResultInv
  <1> QED
    BY <1>1, <1>2

\* An entry of the pass is dealt with and nothing changes in the tree.
LEMMA SettledResult ==
    ASSUME IndInv, IndInv', ResultInv, NEW e \in todo, Settle(e), NEW r,
           PassNow \in 1..3, PassOf(e) = PassNow, PassNow' = PassNow,
           pc' \in {"directories", "files", "links"}, UNCHANGED <<fs, data>>,
           pc = "flush" => e = cur /\ Counted(e),
           \/ /\ Counted(e)
              /\ plan[e] \notin {"none", "skip"}
              /\ PathTouched(e) \/ InPlace(e)
           \/ /\ Refused(e, r)
              /\ r = "conflict" <=> plan[e] = "skip"
              /\ r # "conflict" => TypeOf[e] # "directory"
              /\ r = "appeared" => PathTouched(e)
    PROVE  ResultInv'
  <1> USE DEF Settle
  <1>0. e \in Entry /\ restored \subseteq restored' /\ restored' \subseteq restored \cup {e}
    BY DEF IndInv, TypeOK, Counted, Refused
  <1>1. PlanInv'
    BY PlanKept DEF ResultInv
  <1>2. AccountInv'
    BY AccountSettled DEF ResultInv
  <1>3. PlaceInv'
    BY PlaceKept DEF ResultInv, Counted, Refused
  <1>4. StampInv'
    BY NoStamps
  <1>5. AbsentInv'
    <2>1. \A x \in Named("appeared")' : x \in Named("appeared") \/ PathTouched(x)
      <3>1. CASE Counted(e)
        BY <1>0, <3>1, CountedNames DEF Reason
      <3>2. CASE Refused(e, r) /\ (r = "appeared" => PathTouched(e))
        BY <1>0, <3>2, RefusedNames DEF Reason
      <3> QED
        BY <3>1, <3>2
    <2>2. pc \notin {"threw", "crashed"}
      BY PlaceValues DEF PassNow, IndInv, TypeOK
    <2>3. pc = "flush" => cur \in restored'
      BY DEF Counted
    <2> QED
      BY <1>0, <2>1, <2>2, <2>3, AbsentKept DEF ResultInv
  <1> QED
    BY <1>1, <1>2, <1>3, <1>4, <1>5 DEF ResultInv

\* A call that leads over a link seen to be fresh: others have been there.
LEMMA FollowedIsTouched ==
    ASSUME IndInv, ResultInv, pc \in {"make_directory", "open", "publish", "stamp"},
           FollowLinks(Links(cur))
    PROVE  PathTouched(cur)
  BY DEF IndInv, LinksInv, ResultInv, PlaceInv, FollowLinks, Links, PathTouched

\* The pass over directories.
LEMMA DirectoryEntryResult ==
    ASSUME IndInv, IndInv', ResultInv, NEW e \in Entry, DirectoryEntry(e)
    PROVE  ResultInv'
  <1> USE DEF tree, others, output, result
  <1>1. cur \in Entry /\ cur' \in Entry /\ e \in todo
    BY DEF IndInv, TypeOK, DirectoryEntry, Shallowest
  <1>2. PassNow = 1
    BY <1>1, PlaceValues DEF PassNow, DirectoryEntry
  <1>3. CASE TypeOf[e] = "directory" /\ plan[e] = "create" /\ CheckAncestors(e, "make_directory")
    BY <1>1, <1>3, CheckResult DEF DirectoryEntry
  <1>4. CASE /\ TypeOf[e] # "directory"
             /\ Settle(e)
             /\ UNCHANGED <<tree, pc, cur, output, result>>
    <2>1. PassNow' = 1 /\ pc' = "directories"
      BY <1>2, <1>4 DEF PassNow, DirectoryEntry
    <2>2. PlanInv'
      BY <1>2, <1>4, <2>1, PlanKept DEF ResultInv, Settle
    <2>3. AccountInv'
      <3>1. PassOf(e) # 1
        BY <1>4, PassValues
      <3>2. Accounted' = Accounted /\ Selected' = Selected
        BY <1>2, <1>4, <2>1, <3>1 DEF Accounted, Selected, Settle
      <3> QED
        BY <1>2, <1>4, <2>1, <3>2, NamedKept DEF ResultInv, AccountInv, AtEntry, Settle
    <2>4. PlaceInv'
      BY <1>4, <2>1, PlaceKept DEF ResultInv, Settle
    <2>5. StampInv'
      BY <2>1, NoStamps
    <2>6. AbsentInv'
      BY <1>4, NamedKept, AbsentKept DEF ResultInv, Settle, DirectoryEntry
    <2> QED
      BY <2>2, <2>3, <2>4, <2>5, <2>6 DEF ResultInv
  <1>5. CASE TypeOf[e] = "directory" /\ plan[e] = "skip" /\ Skip(e)
    <2>1. PassNow' = 1 /\ pc' = "directories" /\ PassOf(e) = 1
      BY <1>2, <1>5, PassValues DEF PassNow, DirectoryEntry, Skip
    <2>2. Settle(e) /\ Refused(e, "conflict") /\ UNCHANGED <<fs, data, pc>> /\ pc # "flush"
      BY <1>5, <2>1 DEF Skip, Refused, Reason
    <2> QED
      BY <1>1, <1>2, <1>5, <2>1, <2>2, SettledResult
  <1>6. CASE /\ TypeOf[e] = "directory" /\ plan[e] = "merge_directory"
             /\ Settle(e)
             /\ restored' = restored \cup {e}
             /\ UNCHANGED <<tree, pc, cur, output, skipped>>
    <2>1. PassNow' = 1 /\ pc' = "directories" /\ PassOf(e) = 1
      BY <1>2, <1>6, PassValues DEF PassNow, DirectoryEntry
    <2>2. PathTouched(e) \/ InPlace(e)
      BY <1>6 DEF ResultInv, PlaceInv, Planned, PathTouched, InPlace
    <2>3. Counted(e) /\ UNCHANGED <<fs, data, pc>> /\ pc # "flush"
      BY <1>6, <2>1 DEF Counted
    <2> QED
      BY <1>1, <1>2, <1>6, <2>1, <2>2, <2>3, SettledResult
  <1> QED
    BY <1>3, <1>4, <1>5, <1>6 DEF DirectoryEntry

LEMMA MakeDirectoryResult ==
    ASSUME IndInv, IndInv', ResultInv, MakeDirectory
    PROVE  ResultInv'
  <1> USE DEF tree, others, output, result
  <1>1. /\ cur \in Entry /\ cur \in Path /\ cur' \in Entry /\ cur \in todo
        /\ TypeOf[cur] = "directory" /\ plan[cur] \notin {"none", "skip"}
    BY EntryAssumption DEF IndInv, TypeOK, MakeDirectory, ResultInv, AccountInv, AtEntry
  <1>2. PassNow = 1 /\ PassOf(cur) = 1 /\ Pass = "directories"
    BY <1>1, PlaceValues, PassValues, PassOfPass DEF PassNow, MakeDirectory, IndInv
  <1>3. CASE Throw
    BY <1>3, ThrowResult
  <1>4. CASE /\ FollowLinks(Links(cur))
             /\ Settle(cur)
             /\ restored' = restored \cup {cur}
             /\ pc' = Pass
             /\ UNCHANGED <<fs, data, stamped, cur, output, skipped>>
    <2>1. PassNow' = 1
      BY <1>1, <1>2, <1>4, PlaceValues DEF PassNow
    <2>2. PathTouched(cur)
      BY <1>4, FollowedIsTouched DEF MakeDirectory
    <2>3. Counted(cur) /\ pc # "flush"
      BY <1>4 DEF Counted, MakeDirectory
    <2> QED
      BY <1>1, <1>2, <1>4, <2>1, <2>2, <2>3, SettledResult
  <1>5. CASE /\ Reachable(cur) /\ ~Exists(cur)
             /\ fs' = [fs EXCEPT ![cur] = "directory"]
             /\ data' = [data EXCEPT ![cur] = "whole"]
             /\ Disturb(Parent(cur))
             /\ UNCHANGED followed
             /\ Settle(cur)
             /\ restored' = restored \cup {cur}
             /\ pc' = Pass
             /\ UNCHANGED <<cur, output, skipped>>
    <2>1. PassNow' = 1 /\ pc' = "directories"
      BY <1>1, <1>2, <1>5, PlaceValues DEF PassNow
    <2>2. PlanInv'
      BY <1>2, <1>5, <2>1, PlanKept DEF ResultInv, Settle
    <2>3. AccountInv'
      <3>1. Counted(cur)
        BY <1>5 DEF Counted
      <3> QED
        BY <1>1, <1>2, <1>5, <2>1, <3>1, AccountSettled DEF ResultInv
    <2>4. PlaceInv'
      <3>1. /\ fs'[cur] = "directory"
            /\ \A q \in Path : q # cur => fs'[q] = fs[q] /\ data'[q] = data[q]
        BY <1>1, <1>5 DEF IndInv, TypeOK
      <3>2. IsTree'
        <4> SUFFICES ASSUME NEW q \in Path, NEW a \in Ancestors(q), fs'[q] # "not_found"
                     PROVE  fs'[a] = "directory"
          BY DEF IsTree, Exists
        <4>1. a \in Path
          BY DEF Ancestors
        <4>2. CASE q = cur
          BY <4>1, <4>2, <3>1, <1>5 DEF Reachable
        <4>3. CASE q # cur
          BY <4>1, <4>3, <3>1 DEF ResultInv, PlaceInv, IsTree, Exists
        <4> QED
          BY <4>2, <4>3
      <3>3. touched' = touched /\ fresh' = fresh /\ plan' = plan
        BY <1>5 DEF Settle
      <3>4. Entry \subseteq Path /\ restored \subseteq Entry /\ Planned' = Planned /\ Planned \subseteq Entry
        BY <3>3, EntryAssumption DEF IndInv, TypeOK, Planned
      <3>5. \A e \in Planned' : plan'[e] = "merge_directory" => fs'[e] = "directory" \/ e \in touched'
        BY <3>1, <3>3, <3>4 DEF ResultInv, PlaceInv
      <3>6. \A e \in restored' : PathTouched(e)' \/ InPlace(e)'
        <4>1. ASSUME NEW e \in restored, e # cur
              PROVE  PathTouched(e)' \/ InPlace(e)'
          <5>1. PathTouched(e) \/ InPlace(e)
            BY DEF ResultInv, PlaceInv
          <5>2. PathTouched(e) => PathTouched(e)'
            BY <3>3 DEF PathTouched
          <5>3. InPlace(e) => InPlace(e)'
            BY <4>1, <3>1, <3>4 DEF InPlace
          <5> QED
            BY <5>1, <5>2, <5>3
        <4>2. ASSUME NEW e \in restored', e = cur
              PROVE  InPlace(e)'
          BY <4>2, <1>1, <3>1 DEF InPlace
        <4> QED
          BY <1>5, <4>1, <4>2
      <3> QED
        BY <2>1, <3>2, <3>3, <3>5, <3>6 DEF ResultInv, PlaceInv
    <2>5. StampInv'
      BY <2>1, NoStamps
    <2>6. AbsentInv'
      <3>1. /\ \A q \in Path : q # cur => Exists(q)' = Exists(q)
            /\ Planned' = Planned /\ Planned \subseteq Path
            /\ \A e : PathTouched(e)' = PathTouched(e)
        BY <1>5, EntryAssumption DEF IndInv, TypeOK, Exists, Planned, PathTouched, Settle
      <3>2. Named("appeared")' = Named("appeared")
        BY <1>5, NamedKept
      <3>3. pc \notin {"threw", "crashed", "flush"}
        BY DEF MakeDirectory
      <3> QED
        BY <1>5, <3>1, <3>2, <3>3 DEF ResultInv, AbsentInv, Settle
    <2> QED
      BY <2>2, <2>3, <2>4, <2>5, <2>6 DEF ResultInv
  <1> QED
    BY <1>3, <1>4, <1>5 DEF MakeDirectory

\* Files and links, up to publication.
LEMMA FileOrLinkEntryResult ==
    ASSUME IndInv, IndInv', ResultInv, NEW e \in Entry, FileEntry(e) \/ LinkEntry(e)
    PROVE  ResultInv'
  <1> USE DEF tree, others, output, result
  <1>1. cur \in Entry /\ cur' \in Entry /\ e \in todo /\ pc \in {"files", "links"}
    BY DEF IndInv, TypeOK, FileEntry, LinkEntry, Shallowest
  <1>2. PassNow \in {2, 3}
    BY <1>1, PlaceValues DEF PassNow
  <1>3. PassOf(e) = PassNow /\ PassOf(e) # 1
    BY <1>1, <1>2 DEF ResultInv, AccountInv
  <1>4. e \in Planned
    BY <1>1, <1>2 DEF ResultInv, AccountInv, PlanInv
  <1>5. CASE plan[e] = "skip"
    <2>1. Skip(e) /\ pc' = pc /\ cur' = cur
      BY <1>5 DEF FileEntry, LinkEntry, Skip
    <2>2. PassNow' = PassNow
      BY <2>1 DEF PassNow
    <2>3. Settle(e) /\ Refused(e, "conflict") /\ UNCHANGED <<fs, data>> /\ pc # "flush"
      BY <1>1, <2>1 DEF Skip, Refused, Reason
    <2> QED
      BY <1>1, <1>2, <1>3, <1>5, <2>1, <2>2, <2>3, SettledResult
  <1>6. CASE plan[e] # "skip"
    <2>1. CheckAncestors(e, "open") /\ plan[e] \notin {"none", "skip"}
      BY <1>4, <1>6 DEF FileEntry, LinkEntry, Planned
    <2> QED
      BY <1>1, <2>1, CheckResult
  <1> QED
    BY <1>5, <1>6

\* A step on the way to publication: only the temporary changes.
LEMMA TemporaryStepResult ==
    ASSUME IndInv, IndInv', ResultInv,
           pc \in {"open", "chunks", "recheck", "publish"},
           pc' \in {"chunks", "recheck", "publish", "flush"},
           UNCHANGED <<fs, data, others, request, todo, cur, plan, result>>,
           pc' = "flush" => PathTouched(cur)
    PROVE  ResultInv'
  <1> USE DEF others, result
  <1>1. cur \in Entry /\ PassOf(cur) \in 1..3
    BY PassValues DEF IndInv, TypeOK
  <1>2. PassNow' = PassNow /\ PassNow \in 1..3
    BY <1>1, PlaceValues DEF PassNow
  <1>3. PlanInv'
    BY <1>2, PlanKept DEF ResultInv
  <1>4. AccountInv'
    <2>1. cur \in todo /\ plan[cur] \notin {"none", "skip"} /\ TypeOf[cur] # "directory"
      BY DEF ResultInv, AccountInv, AtEntry
    <2> QED
      BY <1>2, <2>1, AccountKept DEF ResultInv
  <1>5. PlaceInv'
    BY PlaceKept DEF ResultInv
  <1>6. StampInv'
    BY <1>2, NoStamps
  <1>7. AbsentInv'
    BY NamedKept, AbsentKept DEF ResultInv
  <1> QED
    BY <1>3, <1>4, <1>5, <1>6, <1>7 DEF ResultInv

LEMMA TemporariesResult ==
    ASSUME IndInv, IndInv', ResultInv,
           OpenTemporary \/ OpenFails \/ WriteChunk \/ FinishFile \/ RecheckAncestors
    PROVE  ResultInv'
  <1> USE DEF tree, output
  <1>1. CASE Throw
    BY <1>1, ThrowResult
  <1>2. CASE OpenTemporary
    BY <1>2, TemporaryStepResult DEF OpenTemporary
  <1>3. CASE (WriteChunk \/ FinishFile) /\ ~Throw
    BY <1>3, TemporaryStepResult DEF WriteChunk, FinishFile
  <1>4. CASE RecheckAncestors
    <2>1. cur \in Entry
      BY DEF IndInv, TypeOK
    <2> QED
      BY <1>4, <2>1, CheckResult DEF RecheckAncestors
  <1> QED
    BY <1>1, <1>2, <1>3, <1>4 DEF OpenFails

\* An entry on its way to publication is counted, or named as not restored.
LEMMA LeaveEntryResult ==
    ASSUME IndInv, IndInv', ResultInv, pc \in {"open", "publish", "flush"}, NEW r,
           Settle(cur), pc' = Pass, UNCHANGED <<fs, data, cur>>,
           pc = "flush" => Counted(cur),
           \/ /\ Counted(cur)
              /\ PathTouched(cur) \/ InPlace(cur)
           \/ /\ Refused(cur, r)
              /\ r # "conflict"
              /\ r = "appeared" => PathTouched(cur)
    PROVE  ResultInv'
  <1>1. cur \in Entry /\ PassOf(cur) \in 1..3
    BY PassValues DEF IndInv, TypeOK
  <1>2. PassNow = PassOf(cur)
    BY <1>1, PlaceValues DEF PassNow
  <1>3. PassNow' = PassNow /\ pc' \in {"directories", "files", "links"}
    BY <1>1, <1>2, PassOfPass DEF PassNow, IndInv
  <1>4. cur \in todo /\ plan[cur] \notin {"none", "skip"} /\ TypeOf[cur] # "directory"
    BY DEF ResultInv, AccountInv, AtEntry
  <1> QED
    BY <1>1, <1>2, <1>3, <1>4, SettledResult

\* rename(2) puts the verified entry in its place.
LEMMA PublishResult ==
    ASSUME IndInv, IndInv', ResultInv, Publish
    PROVE  ResultInv'
  <1> USE DEF tree, others, output, result
  <1>1. /\ cur \in Entry /\ cur \in Path /\ cur' = cur
        /\ cur \in todo /\ TypeOf[cur] # "directory" /\ plan[cur] \notin {"none", "skip"}
        /\ TypeOf[cur] \in EntryType /\ PassOf(cur) \in 1..3
    BY PassValues, EntryAssumption DEF IndInv, TypeOK, Publish, ResultInv, AccountInv, AtEntry
  <1>2. PassNow = PassOf(cur) /\ PassNow' = PassNow /\ pc' = "flush"
    BY <1>1, PlaceValues DEF PassNow, Publish
  <1>3. PlanInv'
    BY <1>1, <1>2, PlanKept DEF ResultInv, Publish
  <1>4. AccountInv'
    BY <1>1, <1>2, AccountKept DEF ResultInv, Publish
  <1>5. PlaceInv'
    <2>1. /\ fs'[cur] = KindOf(cur) /\ data'[cur] = "whole"
          /\ \A q \in Path : q # cur => fs'[q] = fs[q] /\ data'[q] = data[q]
      <3>1. Contents = "whole"
        BY DEF Publish, IndInv, VerifiedInv, Contents
      <3> QED
        BY <1>1, <3>1 DEF Publish, IndInv, TypeOK
    <2>2. fs[cur] # "directory"
      BY DEF Publish, MayRename, Exists
    <2>3. IsTree'
      <3> SUFFICES ASSUME NEW q \in Path, NEW a \in Ancestors(q), fs'[q] # "not_found"
                   PROVE  fs'[a] = "directory"
        BY DEF IsTree, Exists
      <3>1. a \in Path /\ IsAncestor(a, q)
        BY DEF Ancestors
      <3>2. CASE q = cur
        <4>1. a # cur
          BY <3>1, <3>2, TreeAssumption DEF IsAncestor
        <4> QED
          BY <3>1, <3>2, <4>1, <2>1 DEF Reachable, Publish
      <3>3. CASE q # cur
        <4>1. fs[a] = "directory"
          BY <3>1, <3>3, <2>1 DEF ResultInv, PlaceInv, IsTree, Exists
        <4> QED
          BY <3>1, <4>1, <2>1, <2>2
      <3> QED
        BY <3>2, <3>3
    <2>4. touched' = touched /\ fresh' = fresh /\ plan' = plan /\ restored' = restored
      BY DEF Publish
    <2>5. Entry \subseteq Path /\ restored \subseteq Entry /\ Planned' = Planned /\ Planned \subseteq Entry
      BY <2>4, EntryAssumption DEF IndInv, TypeOK, Planned
    <2>6. cur \notin restored
      <3>1. cur \notin Accounted
        BY <1>1, <1>2 DEF Accounted
      <3> QED
        BY <1>1, <1>2, <3>1 DEF ResultInv, AccountInv
    <2>7. \A e \in Planned' : plan'[e] = "merge_directory" => fs'[e] = "directory" \/ e \in touched'
      <3>1. plan[cur] # "merge_directory"
        BY <1>1 DEF ResultInv, PlanInv
      <3> QED
        BY <2>1, <2>4, <2>5, <3>1 DEF ResultInv, PlaceInv
    <2>8. \A e \in restored' : PathTouched(e)' \/ InPlace(e)'
      <3> SUFFICES ASSUME NEW e \in restored PROVE PathTouched(e)' \/ InPlace(e)'
        BY <2>4
      <3>1. PathTouched(e) \/ InPlace(e)
        BY DEF ResultInv, PlaceInv
      <3>2. PathTouched(e) => PathTouched(e)'
        BY <2>4 DEF PathTouched
      <3>3. InPlace(e) => InPlace(e)'
        BY <2>1, <2>5, <2>6 DEF InPlace
      <3> QED
        BY <3>1, <3>2, <3>3
    <2>9. InPlace(cur)'
      <3>1. /\ TypeOf[cur] = "regular_file" => KindOf(cur) = "file"
            /\ TypeOf[cur] = "symbolic_link" => KindOf(cur) = "link"
        BY DEF KindOf
      <3> QED
        BY <1>1, <2>1, <3>1 DEF InPlace, EntryType
    <2> QED
      BY <1>2, <2>3, <2>4, <2>7, <2>8, <2>9 DEF ResultInv, PlaceInv
  <1>6. StampInv'
    BY <1>1, <1>2, NoStamps
  <1>7. AbsentInv'
    <2>1. /\ \A q \in Path : q # cur => Exists(q)' = Exists(q)
          /\ Planned' = Planned /\ Planned \subseteq Path
          /\ \A e : PathTouched(e)' = PathTouched(e)
      BY EntryAssumption DEF Publish, IndInv, TypeOK, Exists, Planned, PathTouched
    <2>2. Named("appeared")' = Named("appeared")
      BY NamedKept DEF Publish
    <2>3. pc \notin {"threw", "crashed", "flush"}
      BY DEF Publish
    <2>4. UNCHANGED <<plan, touched, restored>>
      BY DEF Publish
    <2> QED
      BY <1>1, <1>2, <2>1, <2>2, <2>3, <2>4 DEF ResultInv, AbsentInv
  <1> QED
    BY <1>3, <1>4, <1>5, <1>6, <1>7 DEF ResultInv

\* A destination that the plan found absent and that is there at publication is
\* others' work: the entry itself is not restored yet.
LEMMA AppearedIsTouched ==
    ASSUME IndInv, ResultInv, DestinationAppeared
    PROVE  PathTouched(cur)
  <1>1. /\ cur \in Entry /\ cur \in todo /\ TypeOf[cur] # "directory"
        /\ plan[cur] \notin {"none", "skip"} /\ PassOf(cur) \in 1..3
    BY PassValues DEF IndInv, TypeOK, DestinationAppeared, ResultInv, AccountInv, AtEntry
  <1>2. plan[cur] = "create" /\ cur \in Planned /\ Exists(cur)
    BY <1>1 DEF IndInv, TypeOK, Action, DestinationAppeared, ResultInv, PlanInv, Planned
  <1>3. cur \notin restored
    <2>1. PassNow = PassOf(cur)
      BY <1>1, PlaceValues DEF PassNow, DestinationAppeared
    <2>2. cur \notin Accounted
      BY <1>1, <2>1 DEF Accounted
    <2> QED
      BY <1>1, <2>1, <2>2 DEF ResultInv, AccountInv
  <1>4. pc = "publish"
    BY DEF DestinationAppeared
  <1> QED
    BY <1>2, <1>3, <1>4 DEF ResultInv, AbsentInv, PathTouched

LEMMA PublicationResult ==
    ASSUME IndInv, IndInv', ResultInv,
           \/ LinkPrivilegeUnavailable
           \/ DestinationAppeared \/ PublishFails \/ PublishElsewhere \/ FlushAndCount
    PROVE  ResultInv'
  <1> USE DEF tree, output
  <1>1. CASE LinkPrivilegeUnavailable
    <2>1. Refused(cur, "unavailable") /\ pc = "open"
      BY <1>1 DEF LinkPrivilegeUnavailable, Refused, Reason
    <2> QED
      BY <1>1, <2>1, LeaveEntryResult DEF LinkPrivilegeUnavailable
  <1>2. CASE DestinationAppeared
    <2>1. Refused(cur, "appeared") /\ pc = "publish"
      BY <1>2 DEF DestinationAppeared, Refused, Reason
    <2>2. PathTouched(cur)
      BY <1>2, AppearedIsTouched
    <2> QED
      BY <1>2, <2>1, <2>2, LeaveEntryResult DEF DestinationAppeared
  <1>3. CASE PublishFails
    BY <1>3, ThrowResult DEF PublishFails
  <1>4. CASE PublishElsewhere
    <2>1. PathTouched(cur)
      BY <1>4, FollowedIsTouched DEF PublishElsewhere
    <2>2. CASE pc' = "flush"
      <3>1. Pass # "flush"
        BY PassType DEF IndInv
      <3> QED
        BY <1>4, <2>1, <2>2, <3>1, TemporaryStepResult DEF PublishElsewhere
    <2>3. CASE pc' # "flush"
      <3>1. Refused(cur, "appeared") /\ pc = "publish"
        BY <1>4, <2>3 DEF PublishElsewhere, Refused, Reason
      <3> QED
        BY <1>4, <2>1, <2>3, <3>1, LeaveEntryResult DEF PublishElsewhere
    <2> QED
      BY <2>2, <2>3
  <1>5. CASE FlushAndCount
    <2>1. PathTouched(cur) \/ InPlace(cur)
      BY <1>5 DEF FlushAndCount, ResultInv, PlaceInv
    <2>2. Counted(cur)
      BY <1>5 DEF FlushAndCount, Counted
    <2> QED
      BY <1>5, <2>1, <2>2, LeaveEntryResult DEF FlushAndCount
  <1> QED
    BY <1>1, <1>2, <1>3, <1>4, <1>5

\* Directory metadata and the return.
LEMMA MetadataResult ==
    ASSUME IndInv, IndInv', ResultInv, \/ \E e \in Entry : MetadataEntry(e)
                                       \/ ApplyMetadata \/ Return
    PROVE  ResultInv'
  <1> USE DEF tree, others, output, result
  <1>1. cur \in Entry /\ cur' \in Entry
    BY DEF IndInv, TypeOK
  <1>2. ASSUME NEW e \in Entry, MetadataEntry(e)
        PROVE  ResultInv'
    <2>1. CASE fs[e] # "directory"
      BY <1>2, <2>1, ThrowResult DEF MetadataEntry
    <2>2. CASE fs[e] = "directory"
      BY <1>2, <2>2, CheckResult DEF MetadataEntry, Deepest
    <2> QED
      BY <2>1, <2>2
  <1>3. CASE ApplyMetadata
    <2>1. PassNow = 4 /\ PassNow' = 4 /\ pc' = "metadata" /\ pc = "stamp"
      BY <1>1, <1>3, PlaceValues DEF PassNow, ApplyMetadata
    <2>2. cur \in todo /\ cur \in restored /\ todo' = todo \ {cur}
      BY <1>3, <2>1 DEF ResultInv, AccountInv, ApplyMetadata, Settle
    <2>3. /\ UNCHANGED <<fs, data, touched, fresh, plan, request, restored>>
          /\ stamped \subseteq stamped'
          /\ UNCHANGED skipped \/ Report(cur, "metadata")
      BY <1>3 DEF ApplyMetadata, Settle
    <2>9. /\ \A r \in Reason \ {"metadata"} : Named(r)' = Named(r)
          /\ NotRestored' = NotRestored
          /\ Warned' \in {Warned, Warned \cup {cur}}
          /\ Report(cur, "metadata") => Warned' = Warned \cup {cur}
      <3>1. CASE Report(cur, "metadata")
        BY <1>1, <3>1, NamedReport DEF Reason, NotRestored, Warned
      <3>2. CASE UNCHANGED skipped /\ ~Report(cur, "metadata")
        BY <3>2, NamedKept
      <3> QED
        BY <2>3, <3>1, <3>2
    <2>10. NamedOnce'
      <3>1. cur \notin NotRestored \cup Warned /\ NamedOnce
        BY <2>1, <2>2 DEF ResultInv, AccountInv
      <3>2. CASE Report(cur, "metadata")
        BY <1>1, <3>1, <3>2, NamedOnceKept DEF Reason
      <3>3. CASE UNCHANGED skipped
        BY <3>1, <3>3, NamedKept
      <3> QED
        BY <2>3, <3>2, <3>3
    <2>4. PlanInv'
      BY <2>1, <2>3, PlanKept DEF ResultInv
    <2>5. AccountInv'
      <3>1. Accounted' = Accounted
        <4>1. \A e \in Selected : PassOf(e) < 4
          BY PassValues, SelectedAreEntries DEF Selected, IndInv, TypeOK, Request
        <4> QED
          BY <2>1, <2>3, <4>1 DEF Accounted, Selected
      <3> QED
        BY <2>1, <2>2, <2>3, <2>9, <2>10, <3>1 DEF ResultInv, AccountInv, AtEntry, Reason
    <2>6. PlaceInv'
      BY <2>1, <2>3, PlaceKept DEF ResultInv
    <2>11. AbsentInv'
      BY <2>1, <2>3, <2>9, AbsentKept DEF ResultInv, Reason
    <2>7. cur \in stamped' \cup Warned' \cup WorkedIn'
      <3>1. CASE stamped' = stamped \cup {cur} \/ Report(cur, "metadata")
        BY <2>9, <3>1
      <3>2. CASE FollowLinks(Links(cur) \cup {q \in {cur} : fs[q] = "link"})
        <4>1. cur \in Path
          BY <1>1, EntryAssumption
        <4>2. fs[cur] # "directory"
          <5>1. CASE Links(cur) # {}
            <6>1. PICK a \in Ancestors(cur) : fs[a] = "link"
              BY <5>1 DEF Links
            <6>2. ~Exists(cur)
              BY <4>1, <6>1 DEF ResultInv, PlaceInv, IsTree
            <6> QED
              BY <6>2 DEF Exists
          <5>2. CASE Links(cur) = {}
            BY <3>2, <5>2 DEF FollowLinks
          <5> QED
            BY <5>1, <5>2
        <4> QED
          BY <2>1, <2>3, <4>2 DEF ResultInv, PlaceInv, WorkedIn
      <3> QED
        BY <1>3, <3>1, <3>2 DEF ApplyMetadata
    <2>8. StampInv'
      <3>1. WorkedIn' = WorkedIn
        BY <2>3 DEF WorkedIn
      <3> QED
        BY <2>1, <2>2, <2>3, <2>7, <2>9, <3>1 DEF ResultInv, StampInv
    <2> QED
      BY <2>4, <2>5, <2>6, <2>8, <2>11 DEF ResultInv
  <1>4. CASE Return
    <2>1. PassNow = 4 /\ PassNow' = 4 /\ pc' = "returned"
      BY <1>1, <1>4, PlaceValues DEF PassNow, Return
    <2>2. PlanInv'
      BY <1>4, <2>1, PlanKept DEF ResultInv, Return
    <2>3. AccountInv'
      BY <1>4, <2>1, AccountKept DEF ResultInv, Return, AtEntry
    <2>4. PlaceInv'
      BY <1>4, <2>1, PlaceKept DEF ResultInv, Return
    <2>5. StampInv'
      <3>1. Warned' = Warned /\ WorkedIn' = WorkedIn
        BY <1>4, NamedKept DEF Return, WorkedIn
      <3> QED
        BY <1>4, <2>1, <3>1 DEF ResultInv, StampInv, Return
    <2>6. AbsentInv'
      BY <1>4, NamedKept, AbsentKept DEF ResultInv, Return
    <2> QED
      BY <2>2, <2>3, <2>4, <2>5, <2>6 DEF ResultInv
  <1> QED
    BY <1>2, <1>3, <1>4

LEMMA InitResult == Init => ResultInv
  <1> SUFFICES ASSUME Init PROVE ResultInv
    OBVIOUS
  <1>1. PassNow = 0
    BY RootAssumption, PlaceValues DEF Init, PassNow
  <1>2. Planned = {}
    BY DEF Init, Planned
  <1>3. PlanInv
    BY <1>1, <1>2 DEF Init, PlanInv
  <1>4. AccountInv
    <2>1. NamedOnce /\ \A r : Named(r) = {}
      BY DEF Init, NamedOnce, Named
    <2> QED
      BY <1>1, <2>1 DEF Init, AccountInv, AtEntry
  <1>5. PlaceInv
    BY <1>2 DEF Init, PlaceInv, IsTree, Exists
  <1>6. StampInv
    BY <1>1 DEF Init, StampInv
  <1>7. AbsentInv
    BY <1>2 DEF Init, AbsentInv, Named
  <1> QED
    BY <1>3, <1>4, <1>5, <1>6, <1>7 DEF ResultInv

LEMMA StutterResult ==
    ASSUME ResultInv, UNCHANGED <<tree, others, request, pc, todo, cur, plan, result>>
    PROVE  ResultInv'
  <1> USE DEF tree, others, result
  <1>1. PassNow' = PassNow /\ Planned' = Planned /\ Selected' = Selected /\ Accounted' = Accounted
    BY DEF PassNow, Planned, Selected, Accounted
  <1>2. PlanInv' /\ AccountInv'
    BY <1>1, NamedKept DEF ResultInv, PlanInv, AccountInv
  <1>3. PlaceInv'
    BY PlaceKept DEF ResultInv, PlaceInv
  <1>4. StampInv'
    <2>1. Warned' = Warned /\ WorkedIn' = WorkedIn
      BY NamedKept DEF WorkedIn
    <2> QED
      BY <1>1, <2>1 DEF ResultInv, StampInv
  <1>5. AbsentInv'
    BY NamedKept, AbsentKept DEF ResultInv
  <1> QED
    BY <1>2, <1>3, <1>4, <1>5 DEF ResultInv

LEMMA NextResult == IndInv /\ IndInv' /\ ResultInv /\ [Next]_vars => ResultInv'
  <1> SUFFICES ASSUME IndInv, IndInv', ResultInv, [Next]_vars PROVE ResultInv'
    OBVIOUS
  <1>1. CASE Restore
    <2>1. CASE CheckCancelled
      BY <2>1, ThrowResult DEF CheckCancelled
    <2>2. CASE \/ NormalizedDestination \/ LockAndRecover \/ ReadEntries \/ ValidateFiles
               \/ MakeRoot
      BY <2>2, BeforePlanResult
    <2>3. ASSUME NEW e \in Entry, \/ BuildPlan(e) \/ DirectoryEntry(e) \/ FileEntry(e)
                                  \/ LinkEntry(e) \/ MetadataEntry(e)
          PROVE  ResultInv'
      BY <2>3, BuildPlanResult, DirectoryEntryResult, FileOrLinkEntryResult, MetadataResult
    <2>4. CASE StartDirectories \/ StartFiles \/ StartLinks \/ StartMetadata
      BY <2>4, NextPassResult
    <2>5. CASE MakeDirectory
      BY <2>5, MakeDirectoryResult
    <2>6. CASE OpenTemporary \/ OpenFails \/ WriteChunk \/ FinishFile \/ RecheckAncestors
      BY <2>6, TemporariesResult
    <2>7. CASE Publish
      BY <2>7, PublishResult
    <2>8. CASE \/ LinkPrivilegeUnavailable
               \/ DestinationAppeared \/ PublishFails \/ PublishElsewhere \/ FlushAndCount
      BY <2>8, PublicationResult
    <2>9. CASE ApplyMetadata \/ Return
      BY <2>9, MetadataResult
    <2> QED
      BY <1>1, <2>1, <2>2, <2>3, <2>4, <2>5, <2>6, <2>7, <2>8, <2>9 DEF Restore
  <1>2. CASE Outside
    BY <1>2, OutsideResult
  <1>3. CASE Cancel
    BY <1>3, StutterResult DEF Cancel
  <1>4. CASE Fault
    BY <1>4, ThrowResult DEF Fault
  <1>5. CASE Crash
    BY <1>5, EndedResult DEF Crash, tree
  <1>6. CASE UNCHANGED vars
    BY <1>6, StutterResult DEF vars
  <1> QED
    BY <1>1, <1>2, <1>3, <1>4, <1>5, <1>6 DEF Next

\* The inductive invariant behind the result, in every reachable state.
THEOREM ResultInvariantHolds == Spec => []ResultInv
  BY InitResult, NextResult, InvariantHolds, PTL DEF Spec

\* A result that restore() returns counts each selected entry or names it as not
\* restored, names none for two reasons and names as a conflict what the plan
\* skipped; what it counts is there, unless others made or removed something on
\* the path to it, and what it says "appeared" is others' work.
THEOREM ResultTrue == Spec => []ResultIsTrue
  <1>1. IndInv /\ ResultInv => ResultIsTrue
    <2> SUFFICES ASSUME IndInv, ResultInv, pc = "returned"
                 PROVE  /\ restored \cup NotRestored = Selected
                        /\ restored \cap NotRestored = {}
                        /\ Warned \subseteq restored
                        /\ NamedOnce
                        /\ Named("conflict") = {e \in Selected : plan[e] = "skip"}
                        /\ \A e \in Named("appeared") : PathTouched(e)
                        /\ \A e \in restored : PathTouched(e) \/ InPlace(e)
      BY DEF ResultIsTrue
    <2>1. PassNow = 4
      BY PlaceValues DEF PassNow, IndInv, TypeOK
    <2>2. \A e \in Selected : PassOf(e) < 4
      BY PassValues, SelectedAreEntries DEF Selected, IndInv, TypeOK, Request
    <2>3. Accounted = Selected
      BY <2>1, <2>2 DEF Accounted
    <2>4. /\ restored \cup NotRestored = Selected
          /\ restored \cap NotRestored = {}
          /\ Warned \subseteq restored
          /\ NamedOnce
      BY <2>1, <2>3 DEF ResultInv, AccountInv
    <2>5. Named("conflict") = {e \in Selected : plan[e] = "skip"}
      <3>1. \A e \in Named("conflict") : e \in Selected /\ plan[e] = "skip"
        BY <2>4 DEF ResultInv, AccountInv, NotRestored
      <3>2. \A e \in Selected : plan[e] = "skip" => e \in Named("conflict")
        BY <2>4 DEF ResultInv, AccountInv, NotRestored
      <3> QED
        BY <3>1, <3>2
    <2> QED
      BY <2>4, <2>5 DEF ResultInv, PlaceInv, AbsentInv
  <1> QED
    BY <1>1, InvariantHolds, ResultInvariantHolds, PTL

\* Nothing is ever restored below a directory that was skipped.
THEOREM SkippedSubtreesKept == Spec => []SkippedSubtreeUntouched
  <1>1. IndInv /\ ResultInv => SkippedSubtreeUntouched
    <2> SUFFICES ASSUME IndInv, ResultInv, NEW d \in Named("conflict") \cap OfType("directory"),
                        NEW e \in restored, IsAncestor(d, e)
                 PROVE  FALSE
      BY DEF SkippedSubtreeUntouched
    <2>1. plan[d] = "skip" /\ plan[e] \notin {"none", "skip"} /\ e \in Entry
      BY DEF ResultInv, AccountInv, IndInv, TypeOK
    <2> QED
      BY <2>1 DEF ResultInv, PlanInv, Planned
  <1> QED
    BY <1>1, InvariantHolds, ResultInvariantHolds, PTL

\* The saved metadata of a directory is in force when restore() returns: no
\* later step of the restore itself disturbs it.
THEOREM MetadataIsLast == Spec => []MetadataLast
  <1>1. IndInv /\ ResultInv => MetadataLast
    <2>1. IndInv /\ pc = "returned" => PassNow = 4
      BY PlaceValues DEF PassNow, IndInv, TypeOK
    <2> QED
      BY <2>1 DEF MetadataLast, ResultInv, StampInv
  <1> QED
    BY <1>1, InvariantHolds, ResultInvariantHolds, PTL

\* A temporary stays when its removal fails, which the destructors ignore. It is
\* then that of an entry named as "appeared" or of the entry that an exception
\* ended: no later step forgets which.
LEMMA LeftoversKept ==
    ASSUME IndInv, LeftoversNamed, [Next]_vars
    PROVE  left' \subseteq Named("appeared")' \cup {e \in {cur'} : pc' = "threw"}
  <1> USE DEF tree, others, output, result
  <1>1. skipped \subseteq skipped' => Named("appeared") \subseteq Named("appeared")'
    BY DEF Named
  <1>2. CASE Throw
    <2>1. skipped' = skipped /\ pc' = "threw" /\ cur' = cur /\ left' \subseteq left \cup {cur}
      BY <1>2 DEF Throw, RemoveTemporary
    <2> QED
      BY <1>1, <2>1 DEF LeftoversNamed
  <1>3. CASE DestinationAppeared
    <2>1. /\ skipped' = skipped \cup {<<cur, "appeared">>}
          /\ left' \subseteq left \cup {cur} /\ cur \in Entry /\ pc # "threw"
      BY <1>3 DEF DestinationAppeared, RemoveTemporary, Report, IndInv, TypeOK
    <2>2. cur \in Named("appeared")'
      BY <2>1 DEF Named
    <2> QED
      BY <1>1, <2>1, <2>2 DEF LeftoversNamed
  <1>4. CASE ~Throw /\ ~DestinationAppeared
    <2>1. /\ left' \subseteq left
          /\ skipped \subseteq skipped'
          /\ pc = "threw" => pc' = "threw" /\ cur' = cur
      <3>1. CASE Restore
        <4>1. CASE \/ CheckCancelled \/ NormalizedDestination
                   \/ LockAndRecover \/ ReadEntries \/ ValidateFiles \/ MakeRoot
          BY <1>4, <4>1 DEF CheckCancelled, NormalizedDestination, LockAndRecover, ReadEntries,
                            ValidateFiles, MakeRoot, Advance
        <4>2. ASSUME NEW e \in Entry, \/ BuildPlan(e) \/ DirectoryEntry(e) \/ FileEntry(e)
                                      \/ LinkEntry(e) \/ MetadataEntry(e)
              PROVE  left' = left /\ skipped \subseteq skipped' /\ pc # "threw"
          BY <1>4, <4>2 DEF BuildPlan, DirectoryEntry, FileEntry, LinkEntry, MetadataEntry,
                            CheckAncestors, Skip, Report
        <4>3. CASE StartDirectories \/ StartFiles \/ StartLinks \/ StartMetadata
          BY <4>3 DEF StartDirectories, StartFiles, StartLinks, StartMetadata, NextPass
        <4>4. CASE \/ MakeDirectory \/ OpenTemporary \/ OpenFails \/ LinkPrivilegeUnavailable
                   \/ WriteChunk \/ FinishFile \/ RecheckAncestors
          BY <1>4, <4>4 DEF MakeDirectory, OpenTemporary, OpenFails, LinkPrivilegeUnavailable,
                            WriteChunk, FinishFile, RecheckAncestors, CheckAncestors, Report
        <4>5. CASE \/ Publish \/ PublishFails \/ PublishElsewhere
                   \/ FlushAndCount \/ ApplyMetadata \/ Return
          BY <1>4, <4>5 DEF Publish, PublishFails, PublishElsewhere, FlushAndCount,
                            ApplyMetadata, Return, Report
        <4> QED
          BY <1>4, <3>1, <4>1, <4>2, <4>3, <4>4, <4>5 DEF Restore
      <3>2. CASE Outside
        BY <3>2 DEF Outside, OutsideCreate, OutsideRemove
      <3>3. CASE Cancel \/ Fault \/ Crash \/ UNCHANGED vars
        BY <1>4, <3>3 DEF Cancel, Fault, Crash, Finished, vars
      <3> QED
        BY <3>1, <3>2, <3>3 DEF Next
    <2> QED
      BY <1>1, <2>1 DEF LeftoversNamed
  <1> QED
    BY <1>2, <1>3, <1>4

\* restore() ends with no temporary it has not tried to remove, and one that stays
\* because the removal failed is that of an entry it has given an account of.
THEOREM LeftoversAreNamed == Spec => []LeftoversNamed
  <1>1. Init => LeftoversNamed
    BY DEF Init, LeftoversNamed
  <1>2. IndInv /\ IndInv' /\ LeftoversNamed /\ [Next]_vars => LeftoversNamed'
    <2> SUFFICES ASSUME IndInv, IndInv', LeftoversNamed, [Next]_vars PROVE LeftoversNamed'
      OBVIOUS
    <2>1. (pc \in {"returned", "threw"} => temp = "none")'
      BY DEF IndInv, TemporaryInv
    <2> QED
      BY <2>1, LeftoversKept DEF LeftoversNamed
  <1> QED
    BY <1>1, <1>2, InvariantHolds, PTL DEF Spec
=============================================================================
