----------------------------- MODULE FileScanner -----------------------------
(***************************************************************************)
(* FileScanner::scan_streaming over a source tree that changes while it is *)
(* scanned. Every look at the filesystem is a step; a path is looked at up *)
(* to five times, by name, before its contents are listed.                 *)
(*                                                                         *)
(* The ignore rules are the sets of paths they match (see IgnoreRules).    *)
(* Sizes, times and link targets are left out.                             *)
(***************************************************************************)
EXTENDS Integers, Sequences, FiniteSets, SequencesExt

CONSTANTS
    Name, BadName,      \* file names; those that are not valid UTF-8
    Depth,              \* bound: names in a path
    Tree, Change,       \* the trees a scan begins with; what a path may turn into
    IgnoredAny, IgnoredDirectory, \* paths a rule matches; those only a directory rule matches
    MaxChanges          \* bound: paths that change during the scan

Path == BoundedSeq(Name, Depth)
Root == <<>>
Child(p, n) == Append(p, n)
Above(p) == {SubSeq(p, 1, n) : n \in 0..(Len(p) - 1)}   \* the directories p lies in
UpTo(p) == Above(p) \cup {p}

Types == {"absent", "regular", "directory", "symlink", "other"}
Facts == [type : Types,
          reparse : {"none", "symbolic_link", "junction", "volume_mount_point", "other"},
          hidden : BOOLEAN, cloud : BOOLEAN, foreign : BOOLEAN]
IsLink(facts) == facts.type = "symlink" \/ facts.reparse \in {"symbolic_link", "junction"}
Thing(type) == [type |-> type, reparse |-> "none", hidden |-> FALSE, cloud |-> FALSE,
                foreign |-> FALSE]
Absent == Thing("absent")

\* Whatever is there lies in directories, and below no link.
WellFormed(t) ==
    \A p \in Path : t[p].type # "absent" =>
        \A q \in Above(p) : t[q].type = "directory" /\ ~IsLink(t[q])

ASSUME NameAssumption == IsFiniteSet(Name) /\ BadName \subseteq Name
ASSUME DepthAssumption == Depth \in Nat /\ MaxChanges \in Nat
ASSUME TreeAssumption ==
    /\ Tree \subseteq {t \in [Path -> Facts] : WellFormed(t)}
    /\ Change \subseteq Facts
ASSUME IgnoredAssumption == IgnoredAny \subseteq Path /\ IgnoredDirectory \subseteq Path

VARIABLES
    tree,      \* path -> what lstat and the platform say of it
    options,   \* include_hidden and one_file_system
    stop,      \* a stop has been requested
    pc,        \* what the scan does next
    frames,    \* the calls of scan_directory: directory, names the iterator gave,
               \* names that changed since it was opened
    item,      \* the entry under way: path, status, platform facts, entry type
    entries,   \* given to on_entry
    warnings,  \* given to on_warning
    touched,   \* history: paths changed during the scan
    through    \* history: links whose targets were listed

vars == <<tree, options, stop, pc, frames, item, entries, warnings, touched, through>>

\* What a path leads to: a link above it leads out of the tree, to files.
At(p) == IF \E q \in Above(p) : IsLink(tree[q]) THEN Thing("regular") ELSE tree[p]

NoItem == [path |-> Root, status |-> "absent", facts |-> Absent, type |-> "none"]

Init ==
    /\ tree \in Tree
    /\ options \in [includeHidden : BOOLEAN, oneFileSystem : BOOLEAN]
    /\ stop = FALSE
    /\ pc = "inspectRoot"
    /\ frames = <<>>
    /\ item = NoItem
    /\ entries = {} /\ warnings = {}
    /\ touched = {} /\ through = {}

Goes(label) == pc' = label
Warn(p, code) == warnings' = warnings \cup {[path |-> p, code |-> code]}
ScanFrame == UNCHANGED <<tree, options, stop, touched>>

-----------------------------------------------------------------------------
(* scan_streaming: the root *)

\* The early throws: cancelled, not a directory, a reparse point, a placeholder.
InspectRoot ==
    /\ pc = "inspectRoot"
    /\ Goes(IF stop THEN "cancelled"
            ELSE IF tree[Root].type = "directory" /\ tree[Root].reparse = "none" /\ ~tree[Root].cloud
            THEN "loadRules" ELSE "failed")
    /\ UNCHANGED <<frames, item, entries, warnings, through>>
    /\ ScanFrame

\* IgnoreRules::load: only the default file may be missing.
RulesLoad(found, replacement) == found = "regular" \/ (found = "missing" /\ ~replacement)

LoadRules ==
    /\ pc = "loadRules"
    /\ \E found \in {"missing", "regular", "other"}, replacement \in BOOLEAN :
         Goes(IF RulesLoad(found, replacement) THEN "metadata" ELSE "failed")
    /\ item' = [NoItem EXCEPT !.status = "directory"]
    /\ UNCHANGED <<frames, entries, warnings, through>>
    /\ ScanFrame

-----------------------------------------------------------------------------
(* scan_directory *)

Top == Last(frames)
Names(p) == {n \in Name : Len(p) < Depth /\ At(Child(p, n)).type # "absent"}

\* check_cancelled and directory_iterator, which follows a link.
OpenDirectory ==
    /\ pc = "open"
    /\ LET p == item.path
       IN \/ stop /\ Goes("cancelled") /\ UNCHANGED <<frames, warnings, through>>
          \/ /\ ~stop
             /\ At(p).type = "directory" \/ IsLink(At(p))
             /\ frames' = Append(frames, [dir |-> p, returned |-> {}, changed |-> {}])
             /\ through' = IF IsLink(At(p)) THEN through \cup {p} ELSE through
             /\ Goes("next")
             /\ UNCHANGED warnings
          \/ /\ ~stop
             /\ Warn(p, "directory_enumeration_failed")
             /\ Goes(IF frames = <<>> THEN "done" ELSE "next")
             /\ UNCHANGED <<frames, through>>
    /\ UNCHANGED <<item, entries>>
    /\ ScanFrame

NamesLeft == (Names(Top.dir) \cup Top.changed) \ Top.returned

\* The iterator gives a name it has not given yet: one that is there, or was.
TakeName ==
    /\ pc = "next" /\ ~stop
    /\ \E n \in NamesLeft :
         /\ frames' = [frames EXCEPT ![Len(frames)].returned = @ \cup {n}]
         /\ item' = [NoItem EXCEPT !.path = Child(Top.dir, n)]
         /\ IF n \in BadName
              THEN Warn(Root, "unsupported_path_encoding") /\ Goes("next")
              ELSE Goes("status") /\ UNCHANGED warnings
    /\ UNCHANGED <<entries, through>>
    /\ ScanFrame

StopDirectory ==
    /\ pc = "next" /\ stop /\ NamesLeft # {}
    /\ Goes("cancelled")
    /\ UNCHANGED <<frames, item, entries, warnings, through>>
    /\ ScanFrame

\* Mutant: an iterator that fails looks like one that ended.
EndDirectorySilently ==
    /\ pc = "next"
    /\ NamesLeft \subseteq Top.changed \/ Top.returned # {}
    /\ frames' = Front(frames)
    /\ Goes(IF Len(frames) = 1 THEN "done" ELSE "next")
    /\ UNCHANGED <<item, entries, warnings, through>>
    /\ ScanFrame

\* The end of the directory: what it may not have given is what changed
\* meanwhile. Or the iterator fails.
EndDirectory ==
    /\ pc = "next"
    /\ \/ NamesLeft \subseteq Top.changed /\ UNCHANGED warnings
       \/ Top.returned # {} /\ Warn(Top.dir, "directory_enumeration_failed")
    /\ frames' = Front(frames)
    /\ Goes(IF Len(frames) = 1 THEN "done" ELSE "next")
    /\ UNCHANGED <<item, entries, through>>
    /\ ScanFrame

\* symlink_status
ReadStatus ==
    /\ pc = "status"
    /\ \/ /\ At(item.path).type # "absent"
          /\ item' = [item EXCEPT !.status = At(item.path).type]
          /\ Goes("platform")
          /\ UNCHANGED warnings
       \/ Warn(item.path, "filesystem_inspection_failed") /\ Goes("next") /\ UNCHANGED item
    /\ UNCHANGED <<frames, entries, through>>
    /\ ScanFrame

\* read_scanner_platform_metadata_no_follow
ReadPlatform ==
    /\ pc = "platform"
    /\ \/ /\ At(item.path).type # "absent"
          /\ item' = [item EXCEPT !.facts = At(item.path)]
          /\ Goes("decide")
          /\ UNCHANGED warnings
       \/ Warn(item.path, "metadata_unavailable") /\ Goes("next") /\ UNCHANGED item
    /\ UNCHANGED <<frames, entries, through>>
    /\ ScanFrame

\* scan_entry_kind
Kind(status, reparse) ==
    CASE reparse = "other" -> "unsupported_reparse_point"
      [] reparse \in {"symbolic_link", "junction", "volume_mount_point"} -> reparse
      [] OTHER -> IF status = "symlink" THEN "symbolic_link" ELSE "ordinary"

Ignored(p, directoryLike) == p \in IgnoredAny \/ (directoryLike /\ p \in IgnoredDirectory)

\* Mutant: links are decided on first.
DecideLinksFirst(kind, facts) ==
    IF kind \in {"symbolic_link", "junction"} THEN "link"
    ELSE IF ~options.includeHidden /\ facts.hidden THEN "skip"
    ELSE IF facts.cloud THEN "cloud_placeholder"
    ELSE IF kind \in {"volume_mount_point", "unsupported_reparse_point"} THEN kind
    ELSE IF options.oneFileSystem /\ facts.foreign THEN "filesystem_boundary"
    ELSE "capture"

\* decide_scan_entry: an action, or the code of the warning instead of it. The
\* first condition that holds decides.
Decide(kind, facts) ==
    IF ~options.includeHidden /\ facts.hidden THEN "skip"
    ELSE IF facts.cloud THEN "cloud_placeholder"
    ELSE IF kind \in {"volume_mount_point", "unsupported_reparse_point"} THEN kind
    ELSE IF options.oneFileSystem /\ facts.foreign THEN "filesystem_boundary"
    ELSE IF kind \in {"symbolic_link", "junction"} THEN "link"
    ELSE "capture"

\* The type scan_entry gives the entry, from the status.
EntryType(decision, status) == IF decision = "link" THEN "symlink" ELSE status

\* The ignore rules, the decision, and the first lines of scan_entry.
DecideEntry ==
    /\ pc = "decide"
    /\ LET kind == Kind(item.status, item.facts.reparse)
           directoryLike == item.status = "directory" \/ kind \in {"junction", "volume_mount_point"}
           decision == Decide(kind, item.facts)
           type == EntryType(decision, item.status)
       IN IF Ignored(item.path, directoryLike) \/ decision = "skip"
            THEN Goes("next") /\ UNCHANGED <<item, warnings>>
          ELSE IF decision \notin {"link", "capture"}
            THEN Warn(item.path, decision) /\ Goes("next") /\ UNCHANGED item
          ELSE IF type = "other"
            THEN Warn(item.path, "unsupported_file_type") /\ Goes("next") /\ UNCHANGED item
          ELSE item' = [item EXCEPT !.type = type] /\ Goes("metadata") /\ UNCHANGED warnings
    /\ UNCHANGED <<frames, entries, through>>
    /\ ScanFrame

\* scan_entry: metadata is read again. Without the root's there is no scan.
ReadMetadata ==
    /\ pc = "metadata"
    /\ \/ /\ At(item.path).type # "absent"
          /\ item' = IF item.path = Root THEN [item EXCEPT !.type = "directory"] ELSE item
          /\ Goes(IF item.type = "symlink" THEN "target" ELSE "emit")
          /\ UNCHANGED warnings
       \/ /\ Warn(item.path, "metadata_unavailable")
          /\ Goes(IF item.path = Root THEN "failed" ELSE "next")
          /\ UNCHANGED item
    /\ UNCHANGED <<frames, entries, through>>
    /\ ScanFrame

\* read_symlink, and its target as UTF-8
ReadTarget ==
    /\ pc = "target"
    /\ \/ IsLink(At(item.path)) /\ Goes("emit") /\ UNCHANGED warnings
       \/ /\ \E code \in {"symlink_target_unavailable", "unsupported_path_encoding"} :
               Warn(item.path, code)
          /\ Goes("next")
    /\ UNCHANGED <<frames, item, entries, through>>
    /\ ScanFrame

\* on_entry, which may throw; a directory is entered at once.
EmitEntry ==
    /\ pc = "emit"
    /\ \/ /\ entries' = entries \cup {[path |-> item.path, type |-> item.type]}
          /\ Goes(IF item.type = "directory" THEN "open" ELSE "next")
       \/ Goes("failed") /\ UNCHANGED entries
    /\ UNCHANGED <<frames, item, warnings, through>>
    /\ ScanFrame

-----------------------------------------------------------------------------
(* The user's tree, and the user *)

Ended == pc \in {"done", "failed", "cancelled"}

\* A path becomes something else. What was below it is gone.
ChangeTree ==
    /\ ~Ended /\ Cardinality(touched) < MaxChanges
    /\ \E p \in Path \ {Root}, facts \in Change :
         /\ tree[Front(p)].type = "directory" /\ ~IsLink(tree[Front(p)])
         /\ facts # tree[p]
         /\ tree' = [q \in Path |-> IF q = p THEN facts ELSE IF p \in Above(q) THEN Absent ELSE tree[q]]
         /\ touched' = touched \cup {p}
         /\ frames' = [n \in DOMAIN frames |->
                         IF frames[n].dir = Front(p)
                           THEN [frames[n] EXCEPT !.changed = @ \cup {Last(p)}] ELSE frames[n]]
    /\ UNCHANGED <<options, stop, pc, item, entries, warnings, through>>

RequestStop ==
    /\ ~Ended /\ ~stop
    /\ stop' = TRUE
    /\ UNCHANGED <<tree, options, pc, frames, item, entries, warnings, touched, through>>

ScanStep ==
    \/ InspectRoot \/ LoadRules
    \/ OpenDirectory \/ TakeName \/ StopDirectory \/ EndDirectory
    \/ ReadStatus \/ ReadPlatform \/ DecideEntry \/ ReadMetadata \/ ReadTarget \/ EmitEntry

Next == ScanStep \/ ChangeTree \/ RequestStop

Spec == Init /\ [][Next]_vars

-----------------------------------------------------------------------------
(* Properties *)

Frame == [dir : Path, returned : SUBSET Name, changed : SUBSET Name]
EntryTypes == {"regular", "directory", "symlink"}
Codes == {"directory_enumeration_failed", "unsupported_path_encoding", "unsupported_file_type",
          "filesystem_inspection_failed", "metadata_unavailable", "symlink_target_unavailable",
          "cloud_placeholder", "volume_mount_point", "unsupported_reparse_point",
          "filesystem_boundary"}

\* Every variable keeps its type.
TypeOK ==
    /\ tree \in [Path -> Facts]
    /\ options \in [includeHidden : BOOLEAN, oneFileSystem : BOOLEAN]
    /\ stop \in BOOLEAN
    /\ pc \in {"inspectRoot", "loadRules", "open", "next", "status", "platform", "decide",
               "metadata", "target", "emit", "done", "failed", "cancelled"}
    /\ frames \in Seq(Frame) /\ Len(frames) <= Depth + 1
    /\ item \in [path : Path, status : Types, facts : Facts, type : EntryTypes \cup {"none"}]
    /\ entries \subseteq [path : Path, type : EntryTypes]
    /\ warnings \subseteq [path : Path, code : Codes]
    /\ touched \subseteq Path /\ through \subseteq Path

Captured(p, type) == [path |-> p, type |-> type] \in entries
\* A warning that names the path: one about a name that is not UTF-8 has none.
Warned(p) == \E w \in warnings :
    w.path = p /\ ~(p = Root /\ w.code = "unsupported_path_encoding")

\* Nothing is reported, captured or warned about, unless every directory above
\* it has been captured as a directory before: nothing below an ignored, hidden,
\* skipped or unreadable directory, and a restore finds each parent
\* (scan_directory, on_entry before the recursion).
ParentsFirst ==
    \A p \in {e.path : e \in entries} \cup {w.path : w \in warnings} :
        \A q \in Above(p) : Captured(q, "directory")

Stable(p) == UpTo(p) \cap touched = {}
DirectoryLike(p) == tree[p].type = "directory" \/ tree[p].reparse \in {"junction", "volume_mount_point"}

\* A path the options or the rules leave out.
Excluded(p) ==
    \/ Ignored(p, DirectoryLike(p))
    \/ ~options.includeHidden /\ tree[p].hidden

\* Nothing that stayed as it is is captured against the options and the rules,
\* whatever happens around it: not what is ignored or hidden, on another
\* filesystem, a placeholder or a mount point, nor a link as what it leads to
\* (decide_scan_entry, the order of its conditions).
OptionsHonoured ==
    \A e \in entries : e.path # Root /\ Stable(e.path) =>
        /\ ~Excluded(e.path)
        /\ ~tree[e.path].cloud
        /\ tree[e.path].reparse \notin {"volume_mount_point", "other"}
        /\ ~(options.oneFileSystem /\ tree[e.path].foreign)
        /\ IsLink(tree[e.path]) <=> e.type = "symlink"

\* A path is accounted for if it is captured as what it is, or it or a directory
\* above it is excluded, or a warning says so.
TypeOf(facts) == IF IsLink(facts) THEN "symlink" ELSE facts.type
Accounted(p) ==
    \/ Captured(p, TypeOf(tree[p]))
    \/ \E q \in UpTo(p) : Warned(q) \/ (q # Root /\ (Excluded(q) \/ Last(q) \in BadName))

\* A scan that returns has lost nothing silently: what was there all along is
\* accounted for, although names beside it came and went (scan_directory).
NothingLost ==
    pc = "done" => \A p \in Path : Stable(p) /\ tree[p].type # "absent" => Accounted(p)

\* Links that stayed links are never listed, whatever else changes
\* (decide_scan_entry, symlink_status).
StableLinksNotTraversed == \A p \in through : ~Stable(p)

\* Whatever changes around it, the scan passes on only what it should: below
\* captured directories, according to the options and the rules, not through links
\* that stayed links.
ScanInv == TypeOK /\ ParentsFirst /\ OptionsHonoured /\ StableLinksNotTraversed

-----------------------------------------------------------------------------
(* Why they hold *)

TreeInv == WellFormed(tree)
RootInv ==
    \/ pc \in {"inspectRoot", "failed", "cancelled"}
    \/ tree[Root].type = "directory" /\ ~IsLink(tree[Root])

\* The directories under way lie in one another and are captured. Each was a name
\* that the one around it gave; what may have escaped an iterator was touched.
FrameInv(k) ==
    /\ Len(frames[k].dir) = k - 1
    /\ Captured(frames[k].dir, "directory")
    /\ \A n \in frames[k].returned : Child(frames[k].dir, n) \in Path
    /\ \A n \in frames[k].changed : Child(frames[k].dir, n) \in touched
    /\ k > 1 => /\ Front(frames[k].dir) = frames[k - 1].dir
                /\ Last(frames[k].dir) \in frames[k - 1].returned
StackInv ==
    /\ \A k \in DOMAIN frames : FrameInv(k)
    /\ pc \in {"inspectRoot", "loadRules", "done"} => frames = <<>>
    /\ pc \in {"next", "status", "platform", "decide", "target"} => frames # <<>>

\* The entry under way is the root, or a name the topmost directory gave.
UnderWay == pc \in {"status", "platform", "decide", "metadata", "target", "emit", "open"}
ItemInv ==
    /\ UnderWay /\ frames = <<>> =>
         item.path = Root /\ item.type = IF pc = "metadata" THEN "none" ELSE "directory"
    /\ UnderWay /\ frames # <<>> =>
         item.path # Root /\ Front(item.path) = Top.dir /\ Last(item.path) \in Top.returned
    /\ pc = "open" => Captured(item.path, "directory") /\ item.type = "directory"

\* What is passed on has been decided on, and is what the tree says if it stayed so.
Accepted ==
    LET kind == Kind(item.status, item.facts.reparse)
        directoryLike == item.status = "directory" \/ kind \in {"junction", "volume_mount_point"}
        decision == Decide(kind, item.facts)
    IN  /\ ~Ignored(item.path, directoryLike)
        /\ decision \in {"link", "capture"}
        /\ item.type = EntryType(decision, item.status)
        /\ item.type \in EntryTypes
DecisionInv ==
    item.path # Root =>
        /\ pc \in {"platform", "decide"} => item.status # "absent"
        /\ pc \in {"metadata", "target", "emit", "open"} => Accepted
TruthInv ==
    item.path # Root /\ Stable(item.path) =>
        /\ pc \in {"platform", "decide", "metadata", "target", "emit", "open"} =>
             item.status = tree[item.path].type
        /\ pc \in {"decide", "metadata", "target", "emit", "open"} =>
             item.facts = tree[item.path]

\* What was captured and stayed is what its entry says.
EntryInv ==
    \A e \in entries : /\ e.path = Root => e.type = "directory"
                       /\ e.path # Root /\ Stable(e.path) => e.type = TypeOf(tree[e.path])

\* A name that was given is under way, or all that is there at and below it is
\* accounted for.
InProgress(c) ==
    \/ UnderWay /\ c = item.path
    \/ \E k \in DOMAIN frames : c = frames[k].dir
Settled(c) ==
    \A p \in Path : c \in UpTo(p) /\ Stable(p) /\ tree[p].type # "absent" => Accounted(p)
LossInv ==
    pc \notin {"failed", "cancelled"} =>
        \A k \in DOMAIN frames : \A n \in frames[k].returned :
            InProgress(Child(frames[k].dir, n)) \/ Settled(Child(frames[k].dir, n))

IndInv ==
    /\ TreeInv /\ RootInv /\ StackInv /\ ItemInv /\ DecisionInv /\ TruthInv /\ EntryInv
    /\ LossInv /\ ScanInv /\ NothingLost

=============================================================================
