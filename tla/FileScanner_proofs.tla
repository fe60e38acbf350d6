------------------------- MODULE FileScanner_proofs -------------------------
(***************************************************************************)
(* Proofs about FileScanner, for any names, depth and trees, any rules and *)
(* any number of changes during the scan.                                  *)
(***************************************************************************)
EXTENDS FileScanner, SequenceTheorems, TLAPS

-----------------------------------------------------------------------------
(* Paths *)

\* A path is a sequence of names, no longer than the bound.
LEMMA PathIs == ASSUME NEW p PROVE p \in Path <=> p \in Seq(Name) /\ Len(p) <= Depth
<1>1. p \in Path <=> \E m \in 0..Depth : p \in [1..m -> Name]
  BY DEF Path, BoundedSeq, SeqOf
<1>2. ASSUME NEW m \in 0..Depth, p \in [1..m -> Name] PROVE p \in Seq(Name) /\ Len(p) <= Depth
  <2>1. m \in Nat /\ m <= Depth
    BY DepthAssumption
  <2>2. p \in Seq(Name) /\ Len(p) = m
    BY <1>2, <2>1
  <2>3. QED
    BY <2>1, <2>2
<1>3. ASSUME p \in Seq(Name), Len(p) <= Depth PROVE \E m \in 0..Depth : p \in [1..m -> Name]
  <2>1. Len(p) \in 0..Depth
    BY <1>3, DepthAssumption
  <2>2. p \in [1..Len(p) -> Name]
    BY <1>3
  <2>3. QED
    BY <2>1, <2>2
<1>4. QED
  BY <1>1, <1>2, <1>3

\* The beginning of a sequence.
LEMMA Prefix ==
    ASSUME NEW S, NEW p \in Seq(S), NEW m \in 0..Len(p)
    PROVE  /\ SubSeq(p, 1, m) \in Seq(S) /\ Len(SubSeq(p, 1, m)) = m
           /\ \A i \in 1..m : SubSeq(p, 1, m)[i] = p[i]
  OBVIOUS

LEMMA PrefixOfPrefix ==
    ASSUME NEW S, NEW p \in Seq(S), NEW k \in 0..Len(p), NEW m \in 0..k
    PROVE  SubSeq(SubSeq(p, 1, k), 1, m) = SubSeq(p, 1, m)
<1> DEFINE r == SubSeq(p, 1, k)
           s == SubSeq(r, 1, m)
           t == SubSeq(p, 1, m)
<1>1. m \in 0..Len(p)
  OBVIOUS
<1>2. r \in Seq(S) /\ Len(r) = k /\ \A i \in 1..k : r[i] = p[i]
  BY Prefix
<1> HIDE DEF r
<1>3. s \in Seq(S) /\ Len(s) = m /\ \A i \in 1..m : s[i] = r[i]
  BY <1>2, Prefix
<1>4. t \in Seq(S) /\ Len(t) = m /\ \A i \in 1..m : t[i] = p[i]
  BY <1>1, Prefix
<1> HIDE DEF s, t
<1>5. \A i \in 1..m : s[i] = t[i]
  BY <1>2, <1>3, <1>4
<1>6. s = t
  BY <1>3, <1>4, <1>5, SeqEqual
<1>7. QED
  BY <1>6 DEF s, t, r

\* A child of a path, and the parent it has.
LEMMA ChildOf ==
    ASSUME NEW p \in Path, NEW n \in Name, Len(p) < Depth
    PROVE  /\ Child(p, n) \in Path /\ Child(p, n) # Root /\ Len(Child(p, n)) = Len(p) + 1
           /\ Front(Child(p, n)) = p /\ Last(Child(p, n)) = n
<1> DEFINE c == Append(p, n)
<1>1. p \in Seq(Name) /\ Len(p) \in Nat
  BY PathIs
<1>2. c \in Seq(Name) /\ Len(c) = Len(p) + 1 /\ c[Len(p) + 1] = n
      /\ \A i \in 1..Len(p) : c[i] = p[i]
  BY <1>1
<1> HIDE DEF c
<1>3. c \in Path
  BY <1>1, <1>2, PathIs, DepthAssumption
<1>4. Len(c) - 1 = Len(p) /\ Len(p) \in 0..Len(c) /\ Len(c) # 0
  BY <1>1, <1>2
<1>5. /\ SubSeq(c, 1, Len(p)) \in Seq(Name) /\ Len(SubSeq(c, 1, Len(p))) = Len(p)
      /\ \A i \in 1..Len(p) : SubSeq(c, 1, Len(p))[i] = c[i]
  BY <1>2, <1>4, Prefix
<1>6. SubSeq(c, 1, Len(p)) = p
  BY <1>1, <1>2, <1>5, SeqEqual
<1>7. c # <<>>
  BY <1>2, <1>4
<1>8. Child(p, n) = c
  BY DEF Child, c
<1>9. QED
  BY <1>2, <1>3, <1>4, <1>6, <1>7, <1>8 DEF Front, Last, Root

LEMMA ParentOf ==
    ASSUME NEW p \in Path, p # Root
    PROVE  /\ Front(p) \in Path /\ Last(p) \in Name /\ Child(Front(p), Last(p)) = p
           /\ Len(Front(p)) = Len(p) - 1 /\ Len(p) \in Nat \ {0} /\ Len(p) <= Depth
           /\ Len(Front(p)) < Depth
<1>1. p \in Seq(Name) /\ Len(p) \in Nat \ {0} /\ Len(p) <= Depth
  BY PathIs DEF Root
<1>2. Len(p) - 1 \in 0..Len(p) /\ Len(p) \in 1..Len(p) /\ Depth \in Nat
  BY <1>1, DepthAssumption
<1> DEFINE f == SubSeq(p, 1, Len(p) - 1)
<1>3. f \in Seq(Name) /\ Len(f) = Len(p) - 1 /\ \A i \in 1..Len(p) - 1 : f[i] = p[i]
  BY <1>1, <1>2, Prefix
<1> HIDE DEF f
<1>4. f \in Path /\ Len(f) < Depth
  BY <1>1, <1>2, <1>3, PathIs
<1>5. p[Len(p)] \in Name
  BY <1>1, <1>2, ElementOfSeq
<1> DEFINE c == Append(f, p[Len(p)])
<1>6. /\ c \in Seq(Name) /\ Len(c) = Len(p) /\ c[Len(p)] = p[Len(p)]
      /\ \A i \in 1..Len(p) - 1 : c[i] = f[i]
  <2>1. Len(f) + 1 = Len(p)
    BY <1>1, <1>3
  <2>2. /\ c \in Seq(Name) /\ Len(c) = Len(f) + 1 /\ c[Len(f) + 1] = p[Len(p)]
        /\ \A i \in 1..Len(f) : c[i] = f[i]
    BY <1>3, <1>5
  <2>3. QED
    BY <2>1, <2>2, <1>3
<1> HIDE DEF c
<1>7. \A i \in 1..Len(c) : c[i] = p[i]
  BY <1>1, <1>3, <1>6
<1>8. c = p
  BY <1>1, <1>6, <1>7, SeqEqual
<1>9. Front(p) = f /\ Last(p) = p[Len(p)]
  BY DEF Front, Last, f
<1>10. QED
  BY <1>1, <1>3, <1>4, <1>5, <1>8, <1>9 DEF Child, c

\* The paths above one.
LEMMA AbovePath ==
    ASSUME NEW p \in Path, NEW q \in Above(p)
    PROVE  /\ q \in Path /\ q # p /\ Len(q) < Len(p) /\ Above(q) \subseteq Above(p)
           /\ p # Root
<1>1. p \in Seq(Name) /\ Len(p) \in Nat /\ Len(p) <= Depth /\ Depth \in Nat
  BY PathIs, DepthAssumption
<1>2. PICK k \in 0..(Len(p) - 1) : q = SubSeq(p, 1, k)
  BY DEF Above
<1>3. k \in 0..Len(p) /\ k < Len(p) /\ k \in Nat
  BY <1>1
<1>4. q \in Seq(Name) /\ Len(q) = k
  BY <1>1, <1>2, <1>3, Prefix
<1>5. q \in Path
  BY <1>1, <1>3, <1>4, PathIs
<1>6. ASSUME NEW r \in Above(q) PROVE r \in Above(p)
  <2>1. PICK m \in 0..(Len(q) - 1) : r = SubSeq(q, 1, m)
    BY DEF Above
  <2>2. m \in 0..k /\ m \in 0..(Len(p) - 1)
    BY <1>1, <1>3, <1>4
  <2>3. r = SubSeq(p, 1, m)
    BY <1>1, <1>2, <1>3, <2>1, <2>2, PrefixOfPrefix
  <2>4. QED
    BY <2>2, <2>3 DEF Above
<1>7. p # <<>>
  BY <1>1, <1>3
<1>8. q # p /\ Len(q) < Len(p)
  BY <1>3, <1>4
<1>9. QED
  BY <1>5, <1>6, <1>7, <1>8 DEF Root

LEMMA AboveParent ==
    ASSUME NEW p \in Path, p # Root
    PROVE  Above(p) = UpTo(Front(p))
<1> DEFINE f == SubSeq(p, 1, Len(p) - 1)
<1>1. p \in Seq(Name) /\ Len(p) \in Nat \ {0}
  BY PathIs DEF Root
<1>2. Len(p) - 1 \in 0..Len(p) /\ Len(p) - 1 \in 0..(Len(p) - 1)
  BY <1>1
<1>3. f \in Seq(Name) /\ Len(f) = Len(p) - 1
  BY <1>1, <1>2, Prefix
<1>4. \A m \in 0..(Len(p) - 1) : SubSeq(f, 1, m) = SubSeq(p, 1, m)
  BY <1>1, <1>2, PrefixOfPrefix
<1>5. Front(p) = f
  BY DEF Front
<1> HIDE DEF f
<1>6. Above(f) = {SubSeq(p, 1, m) : m \in 0..(Len(p) - 2)}
  <2>1. Len(f) - 1 = Len(p) - 2 /\ 0..(Len(p) - 2) \subseteq 0..(Len(p) - 1)
    BY <1>1, <1>3
  <2>2. QED
    BY <1>4, <2>1 DEF Above
<1>7. 0..(Len(p) - 1) = 0..(Len(p) - 2) \cup {Len(p) - 1}
  BY <1>1
<1>8. SubSeq(p, 1, Len(p) - 1) = f
  BY DEF f
<1>9. QED
  BY <1>5, <1>6, <1>7, <1>8 DEF Above, UpTo

LEMMA AboveRoot == Above(Root) = {} /\ Root \in Path
<1>1. Len(<<>>) = 0 /\ <<>> \in Seq(Name) /\ 0 <= Depth /\ 0..(0 - 1) = {}
  BY DepthAssumption
<1>2. QED
  BY <1>1, PathIs DEF Above, Root

LEMMA RootAbove ==
    ASSUME NEW p \in Path
    PROVE  Root \in UpTo(p) /\ (p # Root => Root \in Above(p))
<1>1. CASE p = Root
  BY <1>1 DEF UpTo
<1>2. CASE p # Root
  <2>1. p \in Seq(Name) /\ Len(p) \in Nat \ {0}
    BY <1>2, PathIs DEF Root
  <2>2. 0 \in 0..(Len(p) - 1) /\ SubSeq(p, 1, 0) = <<>>
    BY <2>1
  <2>3. QED
    BY <2>2 DEF Above, UpTo, Root
<1>3. QED
  BY <1>1, <1>2

\* The way down from a path to one below it begins with a child.
LEMMA WayDown ==
    ASSUME NEW p \in Path, NEW d \in Above(p)
    PROVE  \E n \in Name : Child(d, n) \in UpTo(p) /\ Child(d, n) \in Path /\ Len(d) < Depth
<1>1. p \in Seq(Name) /\ Len(p) \in Nat /\ Len(p) <= Depth /\ Depth \in Nat
  BY PathIs, DepthAssumption
<1>2. PICK k \in 0..(Len(p) - 1) : d = SubSeq(p, 1, k)
  BY DEF Above
<1>3. k \in 0..Len(p) /\ k + 1 \in 1..Len(p) /\ k + 1 \in 0..Len(p) /\ k \in Nat /\ k < Depth
  BY <1>1
<1>4. d \in Seq(Name) /\ Len(d) = k /\ \A i \in 1..k : d[i] = p[i]
  BY <1>1, <1>2, <1>3, Prefix
<1> DEFINE n == p[k + 1]
           c == Append(d, n)
           t == SubSeq(p, 1, k + 1)
<1>5. n \in Name
  BY <1>1, <1>3, ElementOfSeq
<1> HIDE DEF n
<1>6. c \in Seq(Name) /\ Len(c) = k + 1 /\ c[k + 1] = n /\ \A i \in 1..k : c[i] = d[i]
  BY <1>4, <1>5
<1>7. t \in Seq(Name) /\ Len(t) = k + 1 /\ \A i \in 1..k + 1 : t[i] = p[i]
  BY <1>1, <1>3, Prefix
<1> HIDE DEF c, t
<1>8. \A i \in 1..k + 1 : c[i] = t[i]
  BY <1>3, <1>4, <1>6, <1>7 DEF n
<1>9. c = t
  BY <1>6, <1>7, <1>8, SeqEqual
<1>10. t \in UpTo(p)
  <2>1. CASE k + 1 = Len(p)
    <3>1. SubSeq(p, 1, Len(p)) = p
      BY <1>1, SubSeqFull
    <3>2. QED
      BY <2>1, <3>1 DEF UpTo, t
  <2>2. CASE k + 1 # Len(p)
    <3>1. k + 1 \in 0..(Len(p) - 1)
      BY <1>1, <1>3, <2>2
    <3>2. QED
      BY <3>1 DEF UpTo, Above, t
  <2>3. QED
    BY <2>1, <2>2
<1>11. c \in Path
  BY <1>1, <1>3, <1>6, PathIs
<1>12. QED
  BY <1>3, <1>4, <1>5, <1>9, <1>10, <1>11 DEF Child, c

\* A path above one of two is above, or is, the other.
LEMMA UpToPath ==
    ASSUME NEW p \in Path, NEW q \in UpTo(p)
    PROVE  q \in Path /\ UpTo(q) \subseteq UpTo(p) /\ (q # p => q \in Above(p))
<1>1. CASE q = p
  BY <1>1
<1>2. CASE q \in Above(p)
  BY <1>2, AbovePath DEF UpTo
<1>3. QED
  BY <1>1, <1>2 DEF UpTo

-----------------------------------------------------------------------------
(* What is at a path *)

LEMMA FactsFields ==
    ASSUME NEW f \in Facts
    PROVE  /\ f.type \in Types
           /\ f.reparse \in {"none", "symbolic_link", "junction", "volume_mount_point", "other"}
  BY DEF Facts

LEMMA ThingsAreFacts == Absent \in Facts /\ Thing("regular") \in Facts
  BY DEF Absent, Thing, Facts, Types

LEMMA TreeFacts ==
    ASSUME TypeOK, NEW p \in Path
    PROVE  tree[p] \in Facts /\ At(p) \in Facts
<1>1. tree[p] \in Facts
  BY DEF TypeOK
<1>2. QED
  BY <1>1, ThingsAreFacts DEF At

\* A path that stayed as it is, below directories that stayed and were captured as
\* directories, is what the tree says: no link lies above it.
LEMMA StableAt ==
    ASSUME TypeOK, RootInv, pc \notin {"inspectRoot", "failed", "cancelled"}, EntryInv,
           NEW p \in Path, Stable(p), \A q \in Above(p) : Captured(q, "directory")
    PROVE  /\ At(p) = tree[p]
           /\ \A q \in Above(p) : ~IsLink(tree[q])
<1>1. ASSUME NEW q \in Above(p) PROVE ~IsLink(tree[q])
  <2>1. q \in Path /\ q \in UpTo(p)
    BY AbovePath DEF UpTo
  <2>2. CASE q = Root
    BY <2>2 DEF RootInv
  <2>3. CASE q # Root
    <3>1. Stable(q)
      <4>1. UpTo(q) \subseteq UpTo(p)
        BY <2>1, UpToPath
      <4>2. QED
        BY <4>1 DEF Stable
    <3>2. PICK e \in entries : e = [path |-> q, type |-> "directory"]
      BY DEF Captured
    <3>3. e.path = q /\ e.type = "directory"
      BY <3>2
    <3>4. "directory" = TypeOf(tree[q])
      BY <2>3, <3>1, <3>3 DEF EntryInv
    <3>5. QED
      BY <3>4 DEF TypeOf
  <2>4. QED
    BY <2>2, <2>3
<1>2. QED
  BY <1>1 DEF At

\* A directory captured as one, that stayed as it is, is one.
LEMMA CapturedDirectory ==
    ASSUME TypeOK, RootInv, pc \notin {"inspectRoot", "failed", "cancelled"}, EntryInv,
           NEW p \in Path, Stable(p), Captured(p, "directory")
    PROVE  ~IsLink(tree[p]) /\ TypeOf(tree[p]) = "directory"
<1>1. CASE p = Root
  BY <1>1 DEF RootInv, TypeOf
<1>2. CASE p # Root
  <2>1. PICK e \in entries : e = [path |-> p, type |-> "directory"]
    BY DEF Captured
  <2>2. e.path = p /\ e.type = "directory"
    BY <2>1
  <2>3. "directory" = TypeOf(tree[p])
    BY <1>2, <2>2 DEF EntryInv
  <2>4. QED
    BY <2>3 DEF TypeOf
<1>3. QED
  BY <1>1, <1>2

\* What decide_scan_entry lets pass is what the tree says, and allowed, if the
\* facts it was given are still true.
LEMMA AcceptedMeans ==
    ASSUME TypeOK, Accepted, NEW p \in Path, p = item.path,
           item.status = tree[p].type, item.facts = tree[p]
    PROVE  /\ item.type = TypeOf(tree[p])
           /\ ~Excluded(p) /\ ~tree[p].cloud
           /\ tree[p].reparse \notin {"volume_mount_point", "other"}
           /\ ~(options.oneFileSystem /\ tree[p].foreign)
           /\ IsLink(tree[p]) <=> item.type = "symlink"
<1> DEFINE f == tree[p]
           kind == Kind(f.type, f.reparse)
           directoryLike == f.type = "directory" \/ kind \in {"junction", "volume_mount_point"}
           decision == Decide(kind, f)
<1>1. f \in Facts
  BY TreeFacts
<1>2. /\ ~Ignored(p, directoryLike) /\ decision \in {"link", "capture"}
      /\ item.type = EntryType(decision, f.type)
  BY DEF Accepted
<1>3. f.reparse \in {"none", "symbolic_link", "junction", "volume_mount_point", "other"}
  BY <1>1, FactsFields
<1> HIDE DEF f
<1>4. /\ options.includeHidden \/ ~f.hidden
      /\ ~f.cloud
      /\ kind \notin {"volume_mount_point", "unsupported_reparse_point"}
      /\ ~(options.oneFileSystem /\ f.foreign)
      /\ decision = "link" <=> kind \in {"symbolic_link", "junction"}
  BY <1>2 DEF Decide
<1>5. f.reparse \notin {"volume_mount_point", "other"}
  BY <1>3, <1>4 DEF Kind
<1>6. kind \in {"symbolic_link", "junction"} <=> IsLink(f)
  BY <1>3, <1>5 DEF Kind, IsLink
<1>7. item.type = TypeOf(f) /\ (IsLink(f) <=> item.type = "symlink")
  BY <1>2, <1>4, <1>6 DEF EntryType, TypeOf, IsLink
<1>8. directoryLike <=> f.type = "directory" \/ f.reparse \in {"junction", "volume_mount_point"}
  BY <1>3 DEF Kind
<1>9. ~Excluded(p)
  BY <1>2, <1>4, <1>8 DEF Excluded, DirectoryLike, Ignored, f
<1>10. QED
  BY <1>4, <1>5, <1>7, <1>9 DEF f

-----------------------------------------------------------------------------
(* What the steps do to the tree, the stack and what has been passed on *)

\* The scan changes nothing of the tree, and takes back nothing.
LEMMA ScanGrows ==
    ASSUME ScanStep
    PROVE  /\ UNCHANGED <<tree, options, stop, touched>>
           /\ entries \subseteq entries' /\ warnings \subseteq warnings'
<1>1. CASE InspectRoot
  BY <1>1 DEF InspectRoot, ScanFrame
<1>2. CASE LoadRules
  BY <1>2 DEF LoadRules, ScanFrame
<1>3. CASE OpenDirectory
  BY <1>3 DEF OpenDirectory, ScanFrame, Warn
<1>4. CASE TakeName
  BY <1>4 DEF TakeName, ScanFrame, Warn
<1>5. CASE StopDirectory
  BY <1>5 DEF StopDirectory, ScanFrame
<1>6. CASE EndDirectory
  BY <1>6 DEF EndDirectory, ScanFrame, Warn
<1>7. CASE ReadStatus
  BY <1>7 DEF ReadStatus, ScanFrame, Warn
<1>8. CASE ReadPlatform
  BY <1>8 DEF ReadPlatform, ScanFrame, Warn
<1>9. CASE DecideEntry
  BY <1>9 DEF DecideEntry, ScanFrame, Warn
<1>10. CASE ReadMetadata
  BY <1>10 DEF ReadMetadata, ScanFrame, Warn
<1>11. CASE ReadTarget
  BY <1>11 DEF ReadTarget, ScanFrame, Warn
<1>12. CASE EmitEntry
  BY <1>12 DEF EmitEntry, ScanFrame
<1>13. QED
  BY <1>1, <1>2, <1>3, <1>4, <1>5, <1>6, <1>7, <1>8, <1>9, <1>10, <1>11, <1>12 DEF ScanStep

\* The stack without its last frame.
LEMMA FrontOf ==
    ASSUME NEW S, NEW s \in Seq(S), s # <<>>
    PROVE  /\ Front(s) \in Seq(S) /\ Len(Front(s)) = Len(s) - 1
           /\ \A i \in 1..Len(s) - 1 : Front(s)[i] = s[i]
           /\ Len(s) \in 1..Len(s) /\ Last(s) = s[Len(s)] /\ Last(s) \in S
<1>1. Len(s) \in Nat \ {0} /\ Len(s) - 1 \in 0..Len(s) /\ Len(s) \in 1..Len(s)
  OBVIOUS
<1>2. QED
  BY <1>1, Prefix, ElementOfSeq DEF Front, Last

LEMMA FrameFields ==
    ASSUME TypeOK, NEW k \in 1..Len(frames)
    PROVE  /\ frames[k] \in Frame
           /\ frames[k].dir \in Path /\ frames[k].returned \subseteq Name
           /\ frames[k].changed \subseteq Name
<1>1. frames[k] \in Frame
  BY ElementOfSeq DEF TypeOK
<1>2. QED
  BY <1>1 DEF Frame

LEMMA Topmost ==
    ASSUME TypeOK, frames # <<>>
    PROVE  /\ Len(frames) \in 1..Len(frames) /\ Len(frames) \in Nat \ {0}
           /\ Top = frames[Len(frames)] /\ Top.dir \in Path
           /\ Top.returned \subseteq Name /\ Top.changed \subseteq Name
<1>1. frames \in Seq(Frame) /\ Len(frames) \in Nat \ {0}
  BY DEF TypeOK
<1>2. Len(frames) \in 1..Len(frames) /\ Top = frames[Len(frames)]
  BY <1>1, FrontOf DEF Top
<1>3. QED
  BY <1>1, <1>2, FrameFields

\* A directory is entered.
LEMMA Pushed ==
    ASSUME TypeOK, NEW p \in Path,
           frames' = Append(frames, [dir |-> p, returned |-> {}, changed |-> {}])
    PROVE  /\ frames' \in Seq(Frame) /\ Len(frames') = Len(frames) + 1 /\ Len(frames) \in Nat
           /\ \A k \in 1..Len(frames) : frames'[k] = frames[k]
           /\ frames'[Len(frames) + 1] = [dir |-> p, returned |-> {}, changed |-> {}]
           /\ frames' # <<>>
<1> DEFINE f == [dir |-> p, returned |-> {}, changed |-> {}]
<1>1. frames \in Seq(Frame) /\ Len(frames) \in Nat /\ f \in Frame
  BY DEF TypeOK, Frame
<1> HIDE DEF f
<1>2. /\ Append(frames, f) \in Seq(Frame) /\ Len(Append(frames, f)) = Len(frames) + 1
      /\ \A k \in 1..Len(frames) : Append(frames, f)[k] = frames[k]
      /\ Append(frames, f)[Len(frames) + 1] = f
  BY <1>1
<1>3. Append(frames, f) # <<>>
  BY <1>1, <1>2
<1>4. QED
  BY <1>1, <1>2, <1>3 DEF f

\* A name is given.
LEMMA Given ==
    ASSUME TypeOK, frames # <<>>, NEW n \in Name,
           frames' = [frames EXCEPT ![Len(frames)].returned = @ \cup {n}]
    PROVE  /\ frames' \in Seq(Frame) /\ Len(frames') = Len(frames) /\ frames' # <<>>
           /\ \A k \in 1..Len(frames) :
                /\ frames'[k].dir = frames[k].dir /\ frames'[k].changed = frames[k].changed
                /\ frames'[k].returned = IF k = Len(frames) THEN frames[k].returned \cup {n}
                                         ELSE frames[k].returned
<1> DEFINE t == Len(frames)
<1>1. frames \in Seq(Frame) /\ t \in Nat \ {0} /\ t \in 1..t
  BY Topmost DEF TypeOK
<1>2. frames \in [1..t -> Frame] /\ DOMAIN frames = 1..t
  BY <1>1
<1>3. frames[t] \in Frame /\ [frames[t] EXCEPT !.returned = @ \cup {n}] \in Frame
  BY <1>1, <1>2 DEF Frame
<1>4. frames' \in [1..t -> Frame]
  BY <1>2, <1>3
<1>5. frames' \in Seq(Frame) /\ Len(frames') = t
  BY <1>1, <1>4
<1>6. ASSUME NEW k \in 1..t
      PROVE  /\ frames'[k].dir = frames[k].dir /\ frames'[k].changed = frames[k].changed
             /\ frames'[k].returned = IF k = t THEN frames[k].returned \cup {n}
                                      ELSE frames[k].returned
  <2>1. CASE k = t
    <3>1. frames'[k] = [frames[k] EXCEPT !.returned = @ \cup {n}]
      BY <1>2, <2>1
    <3>2. QED
      BY <1>3, <2>1, <3>1 DEF Frame
  <2>2. CASE k # t
    BY <1>2, <2>2
  <2>3. QED
    BY <2>1, <2>2
<1>7. frames' # <<>>
  BY <1>1, <1>5
<1>8. QED
  BY <1>5, <1>6, <1>7

\* A directory is left.
LEMMA Popped ==
    ASSUME TypeOK, frames # <<>>, frames' = Front(frames)
    PROVE  /\ frames' \in Seq(Frame) /\ Len(frames') = Len(frames) - 1
           /\ \A k \in 1..Len(frames') : k \in 1..Len(frames) /\ frames'[k] = frames[k]
           /\ Len(frames) = 1 => frames' = <<>>
           /\ Len(frames) # 1 => frames' # <<>>
<1>1. frames \in Seq(Frame) /\ Len(frames) \in Nat \ {0}
  BY Topmost DEF TypeOK
<1>2. /\ frames' \in Seq(Frame) /\ Len(frames') = Len(frames) - 1
      /\ \A i \in 1..Len(frames) - 1 : frames'[i] = frames[i]
  BY <1>1, FrontOf
<1>3. QED
  BY <1>1, <1>2

\* Something in a directory changes: its frame learns of it.
LEMMA Disturbed ==
    ASSUME TypeOK, ChangeTree
    PROVE  /\ frames' \in Seq(Frame) /\ Len(frames') = Len(frames)
           /\ (frames' = <<>>) = (frames = <<>>)
           /\ \A k \in 1..Len(frames) :
                /\ frames'[k].dir = frames[k].dir /\ frames'[k].returned = frames[k].returned
                /\ \A n \in frames'[k].changed :
                     n \in frames[k].changed \/ Child(frames[k].dir, n) \in touched'
<1> DEFINE t == Len(frames)
<1>1. frames \in Seq(Frame) /\ t \in Nat /\ DOMAIN frames = 1..t
  BY DEF TypeOK
<1>2. PICK p \in Path \ {Root} :
        /\ touched' = touched \cup {p}
        /\ frames' = [n \in DOMAIN frames |->
                        IF frames[n].dir = Front(p)
                          THEN [frames[n] EXCEPT !.changed = @ \cup {Last(p)}] ELSE frames[n]]
  BY DEF ChangeTree
<1>3. Last(p) \in Name /\ Child(Front(p), Last(p)) = p
  BY ParentOf
<1>4. ASSUME NEW k \in 1..t
      PROVE  /\ frames'[k] \in Frame
             /\ frames'[k].dir = frames[k].dir /\ frames'[k].returned = frames[k].returned
             /\ \A n \in frames'[k].changed :
                  n \in frames[k].changed \/ Child(frames[k].dir, n) \in touched'
  <2>1. frames[k] \in Frame
    BY FrameFields
  <2>2. CASE frames[k].dir = Front(p)
    <3>1. frames'[k] = [frames[k] EXCEPT !.changed = @ \cup {Last(p)}]
      BY <1>1, <1>2, <2>2
    <3>2. /\ frames'[k] \in Frame
          /\ frames'[k].dir = frames[k].dir /\ frames'[k].returned = frames[k].returned
          /\ frames'[k].changed = frames[k].changed \cup {Last(p)}
      BY <1>3, <2>1, <3>1 DEF Frame
    <3>3. QED
      BY <1>2, <1>3, <2>2, <3>2
  <2>3. CASE frames[k].dir # Front(p)
    <3>1. frames'[k] = frames[k]
      BY <1>1, <1>2, <2>3
    <3>2. QED
      BY <2>1, <3>1
  <2>4. QED
    BY <2>2, <2>3
<1>5. frames' \in [1..t -> Frame]
  <2>1. DOMAIN frames' = 1..t /\ frames' = [k \in 1..t |-> frames'[k]]
    BY <1>1, <1>2
  <2>2. QED
    BY <1>4, <2>1
<1>6. frames' \in Seq(Frame) /\ Len(frames') = t
  BY <1>1, <1>5
<1>7. (frames' = <<>>) = (frames = <<>>)
  BY <1>1, <1>6
<1>8. QED
  BY <1>4, <1>6, <1>7

\* What stayed as it is after a change stayed before, and the change is elsewhere.
LEMMA StableKept ==
    ASSUME TypeOK, ChangeTree, NEW p \in Path, Stable(p)'
    PROVE  Stable(p) /\ \A q \in UpTo(p) : tree'[q] = tree[q]
<1>1. PICK c \in Path \ {Root}, facts \in Change :
        /\ tree' = [q \in Path |-> IF q = c THEN facts ELSE IF c \in Above(q) THEN Absent ELSE tree[q]]
        /\ touched' = touched \cup {c}
  BY DEF ChangeTree
<1>2. c \notin UpTo(p) /\ UpTo(p) \cap touched = {}
  BY <1>1 DEF Stable
<1>3. ASSUME NEW q \in UpTo(p) PROVE tree'[q] = tree[q]
  <2>1. q \in Path /\ UpTo(q) \subseteq UpTo(p)
    BY UpToPath
  <2>2. q # c /\ c \notin Above(q)
    BY <1>2, <2>1 DEF UpTo
  <2>3. QED
    BY <1>1, <2>1, <2>2
<1>4. QED
  BY <1>2, <1>3 DEF Stable

\* What is accounted for stays so.
LEMMA AccountedKept ==
    ASSUME TypeOK, NEW p \in Path, Accounted(p), \A q \in UpTo(p) : tree'[q] = tree[q],
           options' = options, entries \subseteq entries', warnings \subseteq warnings'
    PROVE  Accounted(p)'
<1>1. p \in UpTo(p)
  BY DEF UpTo
<1>2. CASE Captured(p, TypeOf(tree[p]))
  BY <1>1, <1>2 DEF Captured, Accounted
<1>3. ASSUME NEW q \in UpTo(p), Warned(q) \/ (q # Root /\ (Excluded(q) \/ Last(q) \in BadName))
      PROVE  Accounted(p)'
  <2>1. tree'[q] = tree[q]
    OBVIOUS
  <2>2. Warned(q) => Warned(q)'
    BY DEF Warned
  <2>3. Excluded(q) => Excluded(q)'
    BY <2>1 DEF Excluded, DirectoryLike, Ignored
  <2>4. QED
    BY <1>3, <2>2, <2>3 DEF Accounted
<1>4. QED
  BY <1>2, <1>3 DEF Accounted

-----------------------------------------------------------------------------
(* The entry under way *)

LEMMA ItemFields ==
    ASSUME TypeOK
    PROVE  /\ item.path \in Path /\ item.status \in Types /\ item.facts \in Facts
           /\ item.type \in EntryTypes \cup {"none"}
  BY DEF TypeOK

\* It lies in directories that have been captured, the topmost one last.
LEMMA ItemPlace ==
    ASSUME IndInv, UnderWay
    PROVE  /\ item.path \in Path /\ Len(item.path) = Len(frames)
           /\ item.path = Root <=> frames = <<>>
           /\ \A q \in Above(item.path) : Captured(q, "directory")
<1>1. TypeOK /\ StackInv /\ ItemInv /\ ParentsFirst
  BY DEF IndInv, ScanInv
<1>2. item.path \in Path
  BY <1>1, ItemFields
<1>3. CASE frames = <<>>
  <2>1. item.path = Root
    BY <1>1, <1>3 DEF ItemInv
  <2>2. Len(frames) = 0 /\ Len(Root) = 0
    BY <1>3 DEF Root
  <2>3. QED
    BY <1>2, <1>3, <2>1, <2>2, AboveRoot
<1>4. CASE frames # <<>>
  <2> DEFINE t == Len(frames)
  <2>1. item.path # Root /\ Front(item.path) = Top.dir
    BY <1>1, <1>4 DEF ItemInv
  <2>2. t \in 1..t /\ t \in Nat \ {0} /\ Top = frames[t] /\ Top.dir \in Path
    BY <1>1, <1>4, Topmost
  <2>3. DOMAIN frames = 1..t
    BY <1>1 DEF TypeOK
  <2>4. Len(Top.dir) = t - 1 /\ Captured(Top.dir, "directory")
    BY <1>1, <2>2, <2>3 DEF StackInv, FrameInv
  <2>5. Len(item.path) = t
    <3>1. Len(Front(item.path)) = Len(item.path) - 1 /\ Len(item.path) \in Nat
      BY <1>2, <2>1, ParentOf
    <3>2. QED
      BY <2>1, <2>2, <2>4, <3>1
  <2>6. Above(item.path) = Above(Top.dir) \cup {Top.dir}
    BY <1>2, <2>1, AboveParent DEF UpTo
  <2>7. Top.dir \in {e.path : e \in entries}
    BY <2>4 DEF Captured
  <2>8. \A q \in Above(Top.dir) : Captured(q, "directory")
    BY <1>1, <2>7 DEF ParentsFirst
  <2>9. QED
    BY <1>2, <1>4, <2>1, <2>4, <2>5, <2>6, <2>8
<1>5. QED
  BY <1>3, <1>4

-----------------------------------------------------------------------------
(* Types *)

LEMMA WarnTyped ==
    ASSUME TypeOK, NEW p \in Path, NEW code \in Codes, Warn(p, code)
    PROVE  warnings' \subseteq [path : Path, code : Codes]
  BY DEF TypeOK, Warn

\* The decision is an action or a code.
LEMMA DecideTyped ==
    ASSUME NEW kind, NEW facts
    PROVE  Decide(kind, facts) \in {"skip", "link", "capture"} \cup Codes
  BY DEF Decide, Codes

LEMMA DecideEntryTyped ==
    ASSUME IndInv, DecideEntry
    PROVE  /\ item' \in [path : Path, status : Types, facts : Facts, type : EntryTypes \cup {"none"}]
           /\ warnings' \subseteq [path : Path, code : Codes]
           /\ pc' \in {"next", "metadata"}
           /\ pc' = "metadata" => Accepted'
           /\ UNCHANGED <<item.path, item.status, item.facts>>
<1> DEFINE kind == Kind(item.status, item.facts.reparse)
           directoryLike == item.status = "directory" \/ kind \in {"junction", "volume_mount_point"}
           decision == Decide(kind, item.facts)
           type == EntryType(decision, item.status)
<1>1. TypeOK /\ DecisionInv /\ ItemInv /\ StackInv /\ pc = "decide"
  BY DEF IndInv, ScanInv, DecideEntry
<1>2. decision \in {"skip", "link", "capture"} \cup Codes /\ item.path \in Path
      /\ "unsupported_file_type" \in Codes
  BY <1>1, DecideTyped, ItemFields DEF Codes
<1>3. item.status \in Types \ {"absent"}
  <2>1. item.path # Root
    BY <1>1 DEF ItemInv, StackInv, UnderWay
  <2>2. QED
    BY <1>1, <2>1, ItemFields DEF DecisionInv
<1>4. options' = options
  BY DEF DecideEntry, ScanFrame
<1>5. CASE Ignored(item.path, directoryLike) \/ decision = "skip"
  <2>1. pc' = "next" /\ item' = item /\ warnings' = warnings
    BY <1>5 DEF DecideEntry, Goes
  <2>2. QED
    BY <1>1, <2>1 DEF TypeOK
<1>6. CASE ~(Ignored(item.path, directoryLike) \/ decision = "skip") /\ decision \notin {"link", "capture"}
  <2>1. pc' = "next" /\ item' = item /\ Warn(item.path, decision)
    BY <1>6 DEF DecideEntry, Goes
  <2>2. decision \in Codes
    BY <1>2, <1>6
  <2> HIDE DEF decision
  <2>3. warnings' \subseteq [path : Path, code : Codes]
    BY <1>1, <1>2, <2>1, <2>2, WarnTyped
  <2>4. QED
    BY <1>1, <2>1, <2>3 DEF TypeOK
<1>7. CASE ~(Ignored(item.path, directoryLike) \/ decision = "skip") /\ decision \in {"link", "capture"}
           /\ type = "other"
  <2>1. pc' = "next" /\ item' = item /\ Warn(item.path, "unsupported_file_type")
    BY <1>7 DEF DecideEntry, Goes
  <2>2. warnings' \subseteq [path : Path, code : Codes]
    BY <1>1, <1>2, <2>1, WarnTyped
  <2>3. QED
    BY <1>1, <2>1, <2>2 DEF TypeOK
<1>8. CASE ~(Ignored(item.path, directoryLike) \/ decision = "skip") /\ decision \in {"link", "capture"}
           /\ type # "other"
  <2>1. pc' = "metadata" /\ item' = [item EXCEPT !.type = type] /\ warnings' = warnings
    BY <1>8 DEF DecideEntry, Goes
  <2>2. type \in EntryTypes
    BY <1>3, <1>8 DEF EntryType, Types, EntryTypes
  <2> HIDE DEF type, decision, kind
  <2>3. /\ item' \in [path : Path, status : Types, facts : Facts, type : EntryTypes \cup {"none"}]
        /\ item'.path = item.path /\ item'.status = item.status /\ item'.facts = item.facts
        /\ item'.type = type
    BY <1>1, <2>1, <2>2 DEF TypeOK
  <2>4. Accepted'
    <3>1. kind = Kind(item.status, item.facts.reparse)'
      BY <2>3 DEF kind
    <3>2. decision = Decide(Kind(item.status, item.facts.reparse), item.facts)'
      BY <1>4, <2>3, <3>1 DEF Decide, decision
    <3>3. type = EntryType(decision, item'.status)
      BY <2>3 DEF type
    <3>4. ~Ignored(item'.path, item'.status = "directory" \/ kind \in {"junction", "volume_mount_point"})
      BY <1>8, <2>3
    <3>5. QED
      BY <1>8, <2>2, <2>3, <3>1, <3>3, <3>4, <3>2 DEF Accepted
  <2>5. QED
    BY <1>1, <2>1, <2>3, <2>4 DEF TypeOK
<1>9. QED
  BY <1>5, <1>6, <1>7, <1>8

\* What an iterator may still give is a path.
LEMMA NameLeft ==
    ASSUME TypeOK, StackInv, frames # <<>>, NEW n \in NamesLeft
    PROVE  n \in Name /\ Child(Top.dir, n) \in Path
<1> DEFINE t == Len(frames)
<1>1. /\ t \in DOMAIN frames /\ Top = frames[t] /\ Top.dir \in Path /\ Top.changed \subseteq Name
  BY Topmost DEF TypeOK
<1>2. CASE n \in Names(Top.dir)
  <2>1. n \in Name /\ Len(Top.dir) < Depth
    BY <1>2 DEF Names
  <2>2. QED
    BY <1>1, <2>1, ChildOf
<1>3. CASE n \in Top.changed
  <2>1. Child(Top.dir, n) \in touched
    BY <1>1, <1>3 DEF StackInv, FrameInv
  <2>2. QED
    BY <1>1, <1>3, <2>1 DEF TypeOK
<1>4. QED
  BY <1>2, <1>3 DEF NamesLeft

LEMMA TypeOKScan ==
    ASSUME IndInv, ScanStep
    PROVE  TypeOK'
<1> USE DEF Goes
<1> DEFINE Item == [path : Path, status : Types, facts : Facts, type : EntryTypes \cup {"none"}]
           Warning == [path : Path, code : Codes]
           Labels == {"inspectRoot", "loadRules", "open", "next", "status", "platform", "decide",
                      "metadata", "target", "emit", "done", "failed", "cancelled"}
<1>1. TypeOK /\ StackInv /\ ItemInv /\ DecisionInv
  BY DEF IndInv, ScanInv
<1>2. UNCHANGED <<tree, options, stop, touched>>
  BY ScanGrows
<1>3. /\ item \in Item /\ warnings \subseteq Warning /\ pc \in Labels /\ frames \in Seq(Frame)
      /\ Len(frames) <= Depth + 1 /\ entries \subseteq [path : Path, type : EntryTypes]
      /\ through \subseteq Path /\ item.path \in Path
  BY <1>1, ItemFields DEF TypeOK
<1>4. /\ "directory_enumeration_failed" \in Codes /\ "unsupported_path_encoding" \in Codes
      /\ "filesystem_inspection_failed" \in Codes /\ "metadata_unavailable" \in Codes
      /\ "symlink_target_unavailable" \in Codes
  BY DEF Codes
<1>5. SUFFICES /\ item' \in Item /\ warnings' \subseteq Warning /\ pc' \in Labels
               /\ frames' \in Seq(Frame) /\ Len(frames') <= Depth + 1
               /\ entries' \subseteq [path : Path, type : EntryTypes] /\ through' \subseteq Path
  BY <1>1, <1>2 DEF TypeOK
<1> HIDE DEF Item, Warning, Labels
<1>6. {"inspectRoot", "loadRules", "open", "next", "status", "platform", "decide",
       "metadata", "target", "emit", "done", "failed", "cancelled"} \subseteq Labels
  BY DEF Labels
<1>7. NoItem \in Item /\ [NoItem EXCEPT !.status = "directory"] \in Item
  BY ThingsAreFacts, AboveRoot DEF NoItem, Item, Types
<1>8. ASSUME NEW p \in Path PROVE [NoItem EXCEPT !.path = p] \in Item
  BY <1>8, ThingsAreFacts DEF NoItem, Item, Types
<1>9. ASSUME NEW p \in Path, NEW code \in Codes, Warn(p, code) PROVE warnings' \subseteq Warning
  BY <1>1, <1>9, WarnTyped DEF Warning
<1>11. CASE InspectRoot
  BY <1>3, <1>6, <1>11 DEF InspectRoot
<1>12. CASE LoadRules
  BY <1>3, <1>6, <1>7, <1>12 DEF LoadRules
<1>13. CASE OpenDirectory
  <2>1. item' = item /\ entries' = entries /\ pc = "open"
    BY <1>13 DEF OpenDirectory
  <2>2. pc' \in Labels
    BY <1>6, <1>13 DEF OpenDirectory
  <2>3. warnings' \subseteq Warning
    <3>1. warnings' = warnings \/ Warn(item.path, "directory_enumeration_failed")
      BY <1>13 DEF OpenDirectory
    <3>2. QED
      BY <1>3, <1>4, <1>9, <3>1
  <2>4. through' \subseteq Path
    BY <1>3, <1>13 DEF OpenDirectory
  <2>5. frames' \in Seq(Frame) /\ Len(frames') <= Depth + 1
    <3>1. frames' = frames \/ frames' = Append(frames, [dir |-> item.path, returned |-> {}, changed |-> {}])
      BY <1>13 DEF OpenDirectory
    <3>2. Len(item.path) = Len(frames) /\ Len(item.path) <= Depth
      BY <1>3, <2>1, ItemPlace, PathIs DEF UnderWay
    <3>3. QED
      BY <1>1, <1>3, <3>1, <3>2, Pushed, DepthAssumption
  <2>6. QED
    BY <1>3, <2>1, <2>2, <2>3, <2>4, <2>5
<1>14. CASE TakeName
  <2>1. frames # <<>> /\ entries' = entries /\ through' = through
    BY <1>1, <1>14 DEF TakeName, StackInv
  <2>2. PICK n \in NamesLeft :
          /\ frames' = [frames EXCEPT ![Len(frames)].returned = @ \cup {n}]
          /\ item' = [NoItem EXCEPT !.path = Child(Top.dir, n)]
          /\ \/ Warn(Root, "unsupported_path_encoding") /\ pc' = "next"
             \/ pc' = "status" /\ warnings' = warnings
    BY <1>14 DEF TakeName
  <2>3. n \in Name /\ Child(Top.dir, n) \in Path
    BY <1>1, <2>1, NameLeft
  <2>4. frames' \in Seq(Frame) /\ Len(frames') = Len(frames)
    BY <1>1, <2>1, <2>2, <2>3, Given
  <2>5. item' \in Item
    BY <1>8, <2>2, <2>3
  <2>6. warnings' \subseteq Warning
    BY <1>3, <1>4, <1>9, <2>2, AboveRoot
  <2>7. QED
    BY <1>3, <1>6, <2>1, <2>2, <2>4, <2>5, <2>6
<1>15. CASE StopDirectory
  BY <1>3, <1>6, <1>15 DEF StopDirectory
<1>16. CASE EndDirectory
  <2>1. /\ frames # <<>> /\ entries' = entries /\ through' = through /\ item' = item
        /\ frames' = Front(frames) /\ pc' \in {"done", "next"}
        /\ warnings' = warnings \/ Warn(Top.dir, "directory_enumeration_failed")
    BY <1>1, <1>16 DEF EndDirectory, StackInv
  <2>2. Top.dir \in Path /\ Len(frames) \in Nat
    BY <1>1, <2>1, Topmost
  <2>3. frames' \in Seq(Frame) /\ Len(frames') = Len(frames) - 1
    BY <1>1, <2>1, Popped
  <2>4. warnings' \subseteq Warning
    BY <1>3, <1>4, <1>9, <2>1, <2>2
  <2>5. QED
    BY <1>3, <1>6, <2>1, <2>2, <2>3, <2>4, DepthAssumption
<1>17. CASE ReadStatus
  <2>1. At(item.path).type \in Types
    BY <1>1, <1>3, TreeFacts, FactsFields
  <2>2. /\ item' = item \/ item' = [item EXCEPT !.status = At(item.path).type]
        /\ warnings' = warnings \/ Warn(item.path, "filesystem_inspection_failed")
        /\ pc' \in {"platform", "next"} /\ UNCHANGED <<frames, entries, through>>
    BY <1>17 DEF ReadStatus
  <2>3. item' \in Item
    BY <1>3, <2>1, <2>2 DEF Item
  <2>4. QED
    BY <1>3, <1>4, <1>6, <1>9, <2>2, <2>3
<1>18. CASE ReadPlatform
  <2>1. At(item.path) \in Facts
    BY <1>1, <1>3, TreeFacts
  <2>2. /\ item' = item \/ item' = [item EXCEPT !.facts = At(item.path)]
        /\ warnings' = warnings \/ Warn(item.path, "metadata_unavailable")
        /\ pc' \in {"decide", "next"} /\ UNCHANGED <<frames, entries, through>>
    BY <1>18 DEF ReadPlatform
  <2>3. item' \in Item
    BY <1>3, <2>1, <2>2 DEF Item
  <2>4. QED
    BY <1>3, <1>4, <1>6, <1>9, <2>2, <2>3
<1>19. CASE DecideEntry
  <2>1. item' \in Item /\ warnings' \subseteq Warning /\ pc' \in {"next", "metadata"}
    BY <1>19, DecideEntryTyped DEF Item, Warning
  <2>2. UNCHANGED <<frames, entries, through>>
    BY <1>19 DEF DecideEntry
  <2>3. QED
    BY <1>3, <1>6, <2>1, <2>2
<1>20. CASE ReadMetadata
  <2>1. /\ item' = item \/ item' = [item EXCEPT !.type = "directory"]
        /\ warnings' = warnings \/ Warn(item.path, "metadata_unavailable")
        /\ pc' \in {"target", "emit", "failed", "next"} /\ UNCHANGED <<frames, entries, through>>
    BY <1>20 DEF ReadMetadata
  <2>2. item' \in Item
    BY <1>3, <2>1 DEF Item, EntryTypes
  <2>3. QED
    BY <1>3, <1>4, <1>6, <1>9, <2>1, <2>2
<1>21. CASE ReadTarget
  <2>1. /\ \/ warnings' = warnings
           \/ Warn(item.path, "symlink_target_unavailable")
           \/ Warn(item.path, "unsupported_path_encoding")
        /\ pc' \in {"emit", "next"} /\ UNCHANGED <<frames, item, entries, through>>
    BY <1>21 DEF ReadTarget
  <2>2. QED
    BY <1>3, <1>4, <1>6, <1>9, <2>1
<1>22. CASE EmitEntry
  <2>1. /\ entries' = entries \/ entries' = entries \cup {[path |-> item.path, type |-> item.type]}
        /\ pc' \in {"open", "next", "failed"} /\ UNCHANGED <<frames, item, warnings, through>>
        /\ pc = "emit"
    BY <1>22 DEF EmitEntry
  <2>2. item.type \in EntryTypes
    <3>1. CASE frames = <<>>
      BY <1>1, <2>1, <3>1 DEF ItemInv, UnderWay, EntryTypes
    <3>2. CASE frames # <<>>
      BY <1>1, <2>1, <3>2 DEF ItemInv, UnderWay, DecisionInv, Accepted
    <3>3. QED
      BY <3>1, <3>2
  <2>3. QED
    BY <1>3, <1>6, <2>1, <2>2
<1>23. QED
  BY <1>11, <1>12, <1>13, <1>14, <1>15, <1>16, <1>17, <1>18, <1>19, <1>20, <1>21, <1>22 DEF ScanStep

LEMMA TypeOKChange ==
    ASSUME TypeOK, ChangeTree
    PROVE  TypeOK'
<1>1. UNCHANGED <<options, stop, pc, item, entries, warnings, through>>
  BY DEF ChangeTree
<1>2. frames' \in Seq(Frame) /\ Len(frames') = Len(frames)
  BY Disturbed
<1>3. PICK p \in Path \ {Root}, facts \in Change :
        /\ tree' = [q \in Path |-> IF q = p THEN facts ELSE IF p \in Above(q) THEN Absent ELSE tree[q]]
        /\ touched' = touched \cup {p}
  BY DEF ChangeTree
<1>4. facts \in Facts
  BY TreeAssumption
<1>5. tree' \in [Path -> Facts]
  <2>1. \A q \in Path : tree[q] \in Facts
    BY TreeFacts
  <2>2. QED
    BY <1>3, <1>4, <2>1, ThingsAreFacts
<1>6. touched' \subseteq Path
  BY <1>3 DEF TypeOK
<1>7. QED
  BY <1>1, <1>2, <1>5, <1>6 DEF TypeOK

-----------------------------------------------------------------------------
(* The tree and its root *)

LEMMA TreeChange ==
    ASSUME TypeOK, TreeInv, RootInv, ChangeTree
    PROVE  TreeInv' /\ RootInv'
<1>1. PICK c \in Path \ {Root}, facts \in Change :
        /\ tree[Front(c)].type = "directory" /\ ~IsLink(tree[Front(c)])
        /\ tree' = [q \in Path |-> IF q = c THEN facts ELSE IF c \in Above(q) THEN Absent ELSE tree[q]]
  BY DEF ChangeTree
<1>2. Front(c) \in Path /\ Above(c) = UpTo(Front(c))
  BY ParentOf, AboveParent
<1>3. \A q \in Above(c) : tree[q].type = "directory" /\ ~IsLink(tree[q])
  BY <1>1, <1>2 DEF TreeInv, WellFormed, UpTo
<1>4. ASSUME NEW p \in Path, tree'[p].type # "absent", NEW q \in Above(p)
      PROVE  tree'[q].type = "directory" /\ ~IsLink(tree'[q])
  <2>1. q \in Path /\ Above(q) \subseteq Above(p)
    BY AbovePath
  <2>2. c \notin Above(p)
    <3>1. SUFFICES ASSUME c \in Above(p) PROVE FALSE
      OBVIOUS
    <3>2. p # c
      BY <3>1, AbovePath
    <3>3. tree'[p] = Absent
      BY <1>1, <3>1, <3>2
    <3>4. QED
      BY <1>4, <3>3 DEF Absent, Thing
  <2>3. q # c /\ c \notin Above(q)
    BY <1>4, <2>1, <2>2
  <2>4. tree'[q] = tree[q]
    BY <1>1, <2>1, <2>3
  <2>5. CASE p = c
    BY <1>3, <1>4, <2>4, <2>5
  <2>6. CASE p # c
    <3>1. tree'[p] = tree[p]
      BY <1>1, <2>2, <2>6
    <3>2. tree[q].type = "directory" /\ ~IsLink(tree[q])
      BY <1>4, <3>1 DEF TreeInv, WellFormed
    <3>3. QED
      BY <2>4, <3>2
  <2>7. QED
    BY <2>5, <2>6
<1>5. TreeInv'
  BY <1>4 DEF TreeInv, WellFormed
<1>6. tree'[Root] = tree[Root]
  BY <1>1, AboveRoot
<1>7. RootInv'
  BY <1>6 DEF RootInv, ChangeTree
<1>8. QED
  BY <1>5, <1>7

LEMMA TreeScan ==
    ASSUME IndInv, ScanStep
    PROVE  TreeInv' /\ RootInv'
<1> USE DEF Goes
<1>1. TreeInv /\ RootInv /\ StackInv
  BY DEF IndInv
<1>2. tree' = tree
  BY ScanGrows
<1>3. TreeInv'
  BY <1>1, <1>2 DEF TreeInv, WellFormed
<1>4. CASE InspectRoot
  <2>1. pc' \in {"cancelled", "loadRules", "failed"}
    BY <1>4 DEF InspectRoot
  <2>2. pc' = "loadRules" => tree[Root].type = "directory" /\ tree[Root].reparse = "none"
    BY <1>4 DEF InspectRoot
  <2>3. QED
    BY <1>2, <1>3, <2>1, <2>2 DEF RootInv, IsLink
<1>5. CASE ~InspectRoot
  <2>1. pc \notin {"inspectRoot", "failed", "cancelled"}
    BY <1>5 DEF ScanStep, LoadRules, OpenDirectory, TakeName, StopDirectory, EndDirectory, ReadStatus,
                ReadPlatform, DecideEntry, ReadMetadata, ReadTarget, EmitEntry
  <2>2. QED
    BY <1>1, <1>2, <1>3, <2>1 DEF RootInv
<1>6. QED
  BY <1>3, <1>4, <1>5

-----------------------------------------------------------------------------
(* The stack of directories *)

LEMMA CapturedKept ==
    ASSUME NEW p, NEW type, Captured(p, type), entries \subseteq entries'
    PROVE  Captured(p, type)'
  BY DEF Captured

LEMMA FramesSame ==
    ASSUME StackInv, frames' = frames, touched' = touched, entries \subseteq entries'
    PROVE  \A k \in DOMAIN frames' : FrameInv(k)'
<1>1. SUFFICES ASSUME NEW k \in DOMAIN frames PROVE FrameInv(k)'
  OBVIOUS
<1>2. FrameInv(k)
  BY DEF StackInv
<1>3. Captured(frames[k].dir, "directory")'
  BY <1>2, CapturedKept DEF FrameInv
<1>4. QED
  BY <1>2, <1>3 DEF FrameInv

LEMMA StackOpen ==
    ASSUME IndInv, OpenDirectory
    PROVE  StackInv'
<1> USE DEF Goes
<1>1. TypeOK /\ StackInv /\ ItemInv /\ pc = "open"
  BY DEF IndInv, ScanInv, OpenDirectory
<1>2. touched' = touched /\ entries' = entries
  BY DEF OpenDirectory, ScanFrame
<1>3. CASE frames' = frames
  <2>1. \A k \in DOMAIN frames' : FrameInv(k)'
    BY <1>1, <1>2, <1>3, FramesSame
  <2>2. pc' \in {"cancelled", "next", "done"} /\ (pc' = "done" => frames = <<>>)
    BY DEF OpenDirectory
  <2>3. pc' = "next" => frames # <<>>
    <3>1. frames # Append(frames, [dir |-> item.path, returned |-> {}, changed |-> {}])
      BY <1>1, <1>3, Pushed, ItemFields
    <3>2. QED
      BY <1>3, <3>1 DEF OpenDirectory
  <2>4. QED
    BY <1>3, <2>1, <2>2, <2>3 DEF StackInv
<1>4. CASE frames' # frames
  <2> DEFINE f == [dir |-> item.path, returned |-> {}, changed |-> {}]
             t == Len(frames)
  <2>1. frames' = Append(frames, f) /\ pc' = "next"
    BY <1>4 DEF OpenDirectory
  <2>2. item.path \in Path /\ Len(item.path) = t /\ (item.path = Root <=> frames = <<>>)
    BY <1>1, ItemPlace DEF UnderWay
  <2>3. /\ frames' \in Seq(Frame) /\ Len(frames') = t + 1 /\ t \in Nat
        /\ \A k \in 1..t : frames'[k] = frames[k]
        /\ frames'[t + 1] = f /\ frames' # <<>>
    BY <1>1, <2>1, <2>2, Pushed
  <2>4. DOMAIN frames' = 1..t + 1 /\ DOMAIN frames = 1..t
    BY <1>1, <2>3 DEF TypeOK
  <2>5. ASSUME NEW k \in 1..t PROVE FrameInv(k)'
    <3>1. FrameInv(k)
      BY <1>1, <2>4 DEF StackInv
    <3>2. frames'[k] = frames[k]
      BY <2>3
    <3>3. k > 1 => frames'[k - 1] = frames[k - 1]
      BY <2>3
    <3>4. Captured(frames[k].dir, "directory")'
      BY <1>2, <3>1, <3>2 DEF FrameInv, Captured
    <3>5. QED
      BY <1>2, <3>1, <3>2, <3>3, <3>4 DEF FrameInv
  <2>6. ASSUME NEW k, k = t + 1 PROVE FrameInv(k)'
    <3>1. f.dir = item.path /\ f.returned = {} /\ f.changed = {}
      OBVIOUS
    <3>2. [path |-> item.path, type |-> "directory"] \in entries'
      BY <1>1, <1>2 DEF ItemInv, Captured
    <3>3. ASSUME t + 1 > 1
          PROVE  Front(item.path) = frames'[t].dir /\ Last(item.path) \in frames'[t].returned
      <4>1. frames # <<>>
        BY <3>3
      <4>2. Top = frames[t] /\ t \in 1..t
        BY <1>1, <4>1, Topmost
      <4>3. QED
        BY <1>1, <2>3, <4>1, <4>2 DEF ItemInv, UnderWay
    <3>4. t + 1 - 1 = t
      BY <2>3
    <3> HIDE DEF f
    <3>5. QED
      BY <2>2, <2>3, <2>6, <3>1, <3>2, <3>3, <3>4 DEF FrameInv, Captured
  <2>7. \A k \in DOMAIN frames' : FrameInv(k)'
    <3>1. \A k \in 1..t + 1 : k \in 1..t \/ k = t + 1
      BY <2>3
    <3>2. QED
      BY <2>4, <2>5, <2>6, <3>1
  <2>8. QED
    BY <2>1, <2>3, <2>7 DEF StackInv
<1>5. QED
  BY <1>3, <1>4

LEMMA StackTake ==
    ASSUME IndInv, TakeName
    PROVE  StackInv'
<1> USE DEF Goes
<1>1. TypeOK /\ StackInv /\ pc = "next" /\ frames # <<>>
  BY DEF IndInv, ScanInv, TakeName, StackInv
<1>2. touched' = touched /\ entries' = entries /\ pc' \in {"next", "status"}
  BY DEF TakeName, ScanFrame
<1> DEFINE t == Len(frames)
<1>3. PICK n \in NamesLeft : frames' = [frames EXCEPT ![Len(frames)].returned = @ \cup {n}]
  BY DEF TakeName
<1>4. n \in Name /\ Child(Top.dir, n) \in Path
  BY <1>1, NameLeft
<1>5. /\ frames' \in Seq(Frame) /\ Len(frames') = t /\ frames' # <<>>
      /\ \A k \in 1..t :
           /\ frames'[k].dir = frames[k].dir /\ frames'[k].changed = frames[k].changed
           /\ frames'[k].returned = IF k = t THEN frames[k].returned \cup {n}
                                    ELSE frames[k].returned
  BY <1>1, <1>3, <1>4, Given
<1>6. DOMAIN frames' = 1..t /\ DOMAIN frames = 1..t /\ Top = frames[t]
  BY <1>1, <1>5, Topmost DEF TypeOK
<1>7. ASSUME NEW k \in 1..t PROVE FrameInv(k)'
  <2>1. FrameInv(k)
    BY <1>1, <1>6 DEF StackInv
  <2>2. Captured(frames[k].dir, "directory")'
    BY <1>2, <1>5, <2>1 DEF FrameInv, Captured
  <2>3. \A m \in frames'[k].returned : Child(frames[k].dir, m) \in Path
    BY <1>4, <1>5, <1>6, <2>1 DEF FrameInv
  <2>4. ASSUME k > 1
        PROVE  /\ Front(frames'[k].dir) = frames'[k - 1].dir
               /\ Last(frames'[k].dir) \in frames'[k - 1].returned
    <3>1. k - 1 \in 1..t
      BY <1>1, <2>4 DEF TypeOK
    <3>2. frames'[k - 1].dir = frames[k - 1].dir /\ frames[k - 1].returned \subseteq frames'[k - 1].returned
      BY <1>5, <3>1
    <3>3. QED
      BY <1>5, <2>1, <2>4, <3>2 DEF FrameInv
  <2>5. QED
    BY <1>2, <1>5, <2>1, <2>2, <2>3, <2>4 DEF FrameInv
<1>8. QED
  BY <1>2, <1>5, <1>6, <1>7 DEF StackInv

LEMMA StackEnd ==
    ASSUME IndInv, EndDirectory
    PROVE  StackInv'
<1> USE DEF Goes
<1>1. TypeOK /\ StackInv /\ pc = "next" /\ frames # <<>>
  BY DEF IndInv, ScanInv, EndDirectory, StackInv
<1>2. /\ touched' = touched /\ entries' = entries /\ frames' = Front(frames)
      /\ pc' = IF Len(frames) = 1 THEN "done" ELSE "next"
  BY DEF EndDirectory, ScanFrame
<1>3. /\ frames' \in Seq(Frame) /\ Len(frames') = Len(frames) - 1
      /\ \A k \in 1..Len(frames') : k \in 1..Len(frames) /\ frames'[k] = frames[k]
      /\ Len(frames) = 1 => frames' = <<>>
      /\ Len(frames) # 1 => frames' # <<>>
  BY <1>1, <1>2, Popped
<1>4. DOMAIN frames' = 1..Len(frames') /\ DOMAIN frames = 1..Len(frames) /\ Len(frames') \in Nat
  BY <1>1, <1>3 DEF TypeOK
<1>5. ASSUME NEW k \in 1..Len(frames') PROVE FrameInv(k)'
  <2>1. FrameInv(k) /\ frames'[k] = frames[k]
    BY <1>1, <1>3, <1>4 DEF StackInv
  <2>2. Captured(frames[k].dir, "directory")'
    BY <1>2, <2>1 DEF FrameInv, Captured
  <2>3. k > 1 => frames'[k - 1] = frames[k - 1]
    BY <1>3, <1>4
  <2>4. QED
    BY <1>2, <2>1, <2>2, <2>3 DEF FrameInv
<1>6. QED
  BY <1>2, <1>3, <1>4, <1>5 DEF StackInv

LEMMA StackScan ==
    ASSUME IndInv, ScanStep
    PROVE  StackInv'
<1> USE DEF Goes
<1>1. TypeOK /\ StackInv /\ ItemInv
  BY DEF IndInv, ScanInv
<1>2. touched' = touched /\ entries \subseteq entries'
  BY ScanGrows
<1>3. frames' = frames => \A k \in DOMAIN frames' : FrameInv(k)'
  BY <1>1, <1>2, FramesSame
<1>4. CASE InspectRoot
  BY <1>1, <1>3, <1>4 DEF InspectRoot, StackInv
<1>5. CASE LoadRules
  BY <1>1, <1>3, <1>5 DEF LoadRules, StackInv
<1>6. CASE OpenDirectory
  BY <1>6, StackOpen
<1>7. CASE TakeName
  BY <1>7, StackTake
<1>8. CASE StopDirectory
  BY <1>1, <1>3, <1>8 DEF StopDirectory, StackInv
<1>9. CASE EndDirectory
  BY <1>9, StackEnd
<1>10. CASE ReadStatus
  BY <1>1, <1>3, <1>10 DEF ReadStatus, StackInv
<1>11. CASE ReadPlatform
  BY <1>1, <1>3, <1>11 DEF ReadPlatform, StackInv
<1>12. CASE DecideEntry
  <2>1. pc' \in {"next", "metadata"} /\ frames' = frames /\ pc = "decide"
    BY <1>12, DecideEntryTyped DEF DecideEntry
  <2>2. QED
    BY <1>1, <1>3, <2>1 DEF StackInv
<1>13. CASE ReadMetadata
  <2>1. /\ frames' = frames /\ pc' \in {"target", "emit", "failed", "next"}
        /\ pc' = "target" => item.type = "symlink"
        /\ pc' = "next" => item.path # Root
        /\ pc = "metadata"
    BY <1>13 DEF ReadMetadata
  <2>2. item.type = "symlink" \/ item.path # Root => frames # <<>>
    BY <1>1, <2>1 DEF ItemInv, UnderWay
  <2>3. QED
    BY <1>3, <2>1, <2>2 DEF StackInv
<1>14. CASE ReadTarget
  BY <1>1, <1>3, <1>14 DEF ReadTarget, StackInv
<1>15. CASE EmitEntry
  <2>1. /\ frames' = frames /\ pc' \in {"open", "failed", "next"} /\ pc = "emit"
        /\ pc' = "next" => item.type # "directory"
    BY <1>15 DEF EmitEntry
  <2>2. item.type # "directory" => frames # <<>>
    BY <1>1, <2>1 DEF ItemInv, UnderWay
  <2>3. QED
    BY <1>3, <2>1, <2>2 DEF StackInv
<1>16. QED
  BY <1>4, <1>5, <1>6, <1>7, <1>8, <1>9, <1>10, <1>11, <1>12, <1>13, <1>14, <1>15 DEF ScanStep

LEMMA StackChange ==
    ASSUME TypeOK, StackInv, ChangeTree
    PROVE  StackInv'
<1>1. UNCHANGED <<pc, entries>> /\ touched \subseteq touched'
  BY DEF ChangeTree
<1>2. /\ frames' \in Seq(Frame) /\ Len(frames') = Len(frames)
      /\ (frames' = <<>>) = (frames = <<>>)
      /\ \A k \in 1..Len(frames) :
           /\ frames'[k].dir = frames[k].dir /\ frames'[k].returned = frames[k].returned
           /\ \A n \in frames'[k].changed :
                n \in frames[k].changed \/ Child(frames[k].dir, n) \in touched'
  BY Disturbed
<1>3. DOMAIN frames' = 1..Len(frames) /\ DOMAIN frames = 1..Len(frames) /\ Len(frames) \in Nat
  BY <1>2 DEF TypeOK
<1>4. ASSUME NEW k \in 1..Len(frames) PROVE FrameInv(k)'
  <2>1. FrameInv(k)
    BY <1>3 DEF StackInv
  <2>2. Captured(frames[k].dir, "directory")'
    BY <1>1, <1>2, <2>1 DEF FrameInv, Captured
  <2>3. \A n \in frames'[k].changed : Child(frames[k].dir, n) \in touched'
    BY <1>1, <1>2, <2>1 DEF FrameInv
  <2>4. k > 1 => /\ frames'[k - 1].dir = frames[k - 1].dir
                 /\ frames'[k - 1].returned = frames[k - 1].returned
    BY <1>2, <1>3
  <2>5. QED
    BY <1>2, <2>1, <2>2, <2>3, <2>4 DEF FrameInv
<1>5. QED
  BY <1>1, <1>2, <1>3, <1>4 DEF StackInv

-----------------------------------------------------------------------------
(* The entry under way, step by step *)

\* A step that goes on with the entry under way, in the same directories.
LEMMA ItemGoesOn ==
    ASSUME ItemInv, UnderWay, frames' = frames, item'.path = item.path,
           pc' # "metadata", pc' # "open",
           frames = <<>> => item'.type = "directory"
    PROVE  ItemInv'
<1>1. Top' = Top
  BY DEF Top, Last
<1>2. QED
  BY <1>1 DEF ItemInv, UnderWay

LEMMA ItemScan ==
    ASSUME IndInv, ScanStep
    PROVE  ItemInv'
<1> USE DEF Goes
<1>1. TypeOK /\ StackInv /\ ItemInv
  BY DEF IndInv, ScanInv
<1>2. item \in [path : Path, status : Types, facts : Facts, type : EntryTypes \cup {"none"}]
  BY <1>1 DEF TypeOK
<1>3. pc' \notin {"status", "platform", "decide", "metadata", "target", "emit", "open"} => ItemInv'
  BY DEF ItemInv, UnderWay
<1>4. CASE InspectRoot
  <2>1. pc' \in {"cancelled", "loadRules", "failed"}
    BY <1>4 DEF InspectRoot
  <2>2. QED
    BY <1>3, <2>1
<1>5. CASE LoadRules
  <2>1. /\ frames = <<>> /\ frames' = frames /\ pc' \in {"metadata", "failed"}
        /\ item' = [NoItem EXCEPT !.status = "directory"]
    BY <1>1, <1>5 DEF LoadRules, StackInv
  <2>2. item'.path = Root /\ item'.type = "none"
    BY <2>1 DEF NoItem
  <2>3. QED
    BY <2>1, <2>2 DEF ItemInv, UnderWay
<1>6. CASE OpenDirectory
  <2>1. pc' \in {"cancelled", "next", "done"}
    BY <1>6 DEF OpenDirectory
  <2>2. QED
    BY <1>3, <2>1
<1>7. CASE TakeName
  <2>1. pc = "next" /\ frames # <<>> /\ pc' \in {"status", "next"}
    BY <1>1, <1>7 DEF TakeName, StackInv
  <2>2. PICK n \in NamesLeft :
          /\ frames' = [frames EXCEPT ![Len(frames)].returned = @ \cup {n}]
          /\ item' = [NoItem EXCEPT !.path = Child(Top.dir, n)]
    BY <1>7 DEF TakeName
  <2> DEFINE t == Len(frames)
  <2>3. n \in Name /\ Child(Top.dir, n) \in Path
    BY <1>1, <2>1, NameLeft
  <2>4. /\ frames' \in Seq(Frame) /\ Len(frames') = t /\ frames' # <<>>
        /\ \A k \in 1..t :
             /\ frames'[k].dir = frames[k].dir /\ frames'[k].changed = frames[k].changed
             /\ frames'[k].returned = IF k = t THEN frames[k].returned \cup {n}
                                      ELSE frames[k].returned
    BY <1>1, <2>1, <2>2, <2>3, Given
  <2>5. t \in 1..t /\ Top = frames[t] /\ Top.dir \in Path
    BY <1>1, <2>1, Topmost
  <2>6. Top' = frames'[t]
    BY <2>4, FrontOf DEF Top
  <2>7. Top'.dir = Top.dir /\ n \in Top'.returned
    BY <2>4, <2>5, <2>6
  <2>8. Len(Top.dir) < Depth
    <3>1. Child(Top.dir, n) \in Seq(Name) /\ Len(Child(Top.dir, n)) <= Depth /\ Top.dir \in Seq(Name)
      BY <2>3, <2>5, PathIs
    <3>2. Len(Append(Top.dir, n)) = Len(Top.dir) + 1 /\ Len(Top.dir) \in Nat
      BY <2>3, <3>1
    <3>3. QED
      BY <3>1, <3>2, DepthAssumption DEF Child
  <2>9. /\ Child(Top.dir, n) # Root
        /\ Front(Child(Top.dir, n)) = Top.dir /\ Last(Child(Top.dir, n)) = n
    BY <2>3, <2>5, <2>8, ChildOf
  <2>10. item'.path = Child(Top.dir, n)
    BY <2>2 DEF NoItem
  <2>11. QED
    BY <2>1, <2>4, <2>7, <2>9, <2>10 DEF ItemInv, UnderWay
<1>8. CASE StopDirectory
  <2>1. pc' = "cancelled"
    BY <1>8 DEF StopDirectory
  <2>2. QED
    BY <1>3, <2>1
<1>9. CASE EndDirectory
  <2>1. pc' \in {"next", "done"}
    BY <1>9 DEF EndDirectory
  <2>2. QED
    BY <1>3, <2>1
<1>10. CASE ReadStatus
  <2>1. /\ UnderWay /\ frames # <<>> /\ frames' = frames /\ pc' \in {"platform", "next"}
        /\ item' = item \/ item' = [item EXCEPT !.status = At(item.path).type]
    BY <1>1, <1>10 DEF ReadStatus, UnderWay, StackInv
  <2>2. item'.path = item.path
    BY <1>2, <2>1
  <2>3. QED
    BY <1>1, <2>1, <2>2, ItemGoesOn
<1>11. CASE ReadPlatform
  <2>1. /\ UnderWay /\ frames # <<>> /\ frames' = frames /\ pc' \in {"decide", "next"}
        /\ item' = item \/ item' = [item EXCEPT !.facts = At(item.path)]
    BY <1>1, <1>11 DEF ReadPlatform, UnderWay, StackInv
  <2>2. item'.path = item.path
    BY <1>2, <2>1
  <2>3. QED
    BY <1>1, <2>1, <2>2, ItemGoesOn
<1>12. CASE DecideEntry
  <2>1. /\ UnderWay /\ frames # <<>> /\ frames' = frames
    BY <1>1, <1>12 DEF DecideEntry, UnderWay, StackInv
  <2>2. item'.path = item.path /\ pc' \in {"next", "metadata"}
    BY <1>12, DecideEntryTyped
  <2>3. Top' = Top
    BY <2>1 DEF Top, Last
  <2>4. QED
    BY <1>1, <2>1, <2>2, <2>3 DEF ItemInv, UnderWay
<1>13. CASE ReadMetadata
  <2>1. /\ UnderWay /\ frames' = frames /\ pc = "metadata"
        /\ pc' \in {"target", "emit", "failed", "next"}
    BY <1>13 DEF ReadMetadata, UnderWay
  <2>2. CASE pc' \in {"failed", "next"}
    BY <1>3, <2>2
  <2>3. CASE pc' \in {"target", "emit"}
    <3>1. item' = IF item.path = Root THEN [item EXCEPT !.type = "directory"] ELSE item
      BY <1>13, <2>3 DEF ReadMetadata
    <3>2. item'.path = item.path /\ (item.path = Root => item'.type = "directory")
      BY <1>2, <3>1
    <3>3. frames = <<>> => item.path = Root
      BY <1>1, <2>1 DEF ItemInv
    <3>4. QED
      BY <1>1, <2>1, <2>3, <3>2, <3>3, ItemGoesOn
  <2>4. QED
    BY <2>1, <2>2, <2>3
<1>14. CASE ReadTarget
  <2>1. UnderWay /\ frames # <<>> /\ frames' = frames /\ item' = item /\ pc' \in {"emit", "next"}
    BY <1>1, <1>14 DEF ReadTarget, UnderWay, StackInv
  <2>2. QED
    BY <1>1, <2>1, ItemGoesOn
<1>15. CASE EmitEntry
  <2>1. /\ UnderWay /\ frames' = frames /\ item' = item /\ pc = "emit"
        /\ pc' \in {"open", "next", "failed"}
        /\ pc' = "open" => /\ item.type = "directory"
                           /\ [path |-> item.path, type |-> item.type] \in entries'
    BY <1>15 DEF EmitEntry, UnderWay
  <2>2. Top' = Top
    BY <2>1 DEF Top, Last
  <2>3. pc' = "open" => Captured(item.path, "directory")' /\ item'.type = "directory"
    BY <2>1 DEF Captured
  <2>4. QED
    BY <1>1, <2>1, <2>2, <2>3 DEF ItemInv, UnderWay
<1>16. QED
  BY <1>4, <1>5, <1>6, <1>7, <1>8, <1>9, <1>10, <1>11, <1>12, <1>13, <1>14, <1>15 DEF ScanStep

LEMMA ItemChange ==
    ASSUME TypeOK, ItemInv, ChangeTree
    PROVE  ItemInv'
<1>1. UNCHANGED <<pc, item, entries>>
  BY DEF ChangeTree
<1>2. /\ frames' \in Seq(Frame) /\ Len(frames') = Len(frames)
      /\ (frames' = <<>>) = (frames = <<>>)
      /\ \A k \in 1..Len(frames) :
           frames'[k].dir = frames[k].dir /\ frames'[k].returned = frames[k].returned
  BY Disturbed
<1>3. frames # <<>> => Top'.dir = Top.dir /\ Top'.returned = Top.returned
  <2>1. SUFFICES ASSUME frames # <<>> PROVE Top'.dir = Top.dir /\ Top'.returned = Top.returned
    OBVIOUS
  <2>2. Len(frames) \in 1..Len(frames) /\ Top = frames[Len(frames)]
    BY <2>1, Topmost
  <2>3. Top' = frames'[Len(frames)]
    BY <1>2, <2>1, FrontOf DEF Top
  <2>4. QED
    BY <1>2, <2>2, <2>3
<1>4. QED
  BY <1>1, <1>2, <1>3 DEF ItemInv, UnderWay, Captured

-----------------------------------------------------------------------------
(* What has been decided, and what is known *)

\* The decision stands while the entry does.
LEMMA AcceptedKept ==
    ASSUME Accepted, item' = item, options' = options
    PROVE  Accepted'
  BY DEF Accepted, Decide

LEMMA DecisionScan ==
    ASSUME IndInv, ScanStep
    PROVE  DecisionInv'
<1> USE DEF Goes
<1>1. TypeOK /\ DecisionInv /\ StackInv /\ ItemInv
  BY DEF IndInv, ScanInv
<1>2. item \in [path : Path, status : Types, facts : Facts, type : EntryTypes \cup {"none"}]
  BY <1>1 DEF TypeOK
<1>3. options' = options
  BY ScanGrows
<1>4. pc' \notin {"platform", "decide", "metadata", "target", "emit", "open"} => DecisionInv'
  BY DEF DecisionInv
<1>5. CASE InspectRoot
  BY <1>4, <1>5 DEF InspectRoot
<1>6. CASE LoadRules
  BY <1>6 DEF LoadRules, NoItem, DecisionInv
<1>7. CASE OpenDirectory
  BY <1>4, <1>7 DEF OpenDirectory
<1>8. CASE TakeName
  BY <1>4, <1>8 DEF TakeName
<1>9. CASE StopDirectory
  BY <1>4, <1>9 DEF StopDirectory
<1>10. CASE EndDirectory
  BY <1>4, <1>10 DEF EndDirectory
<1>11. CASE ReadStatus
  <2>1. CASE pc' = "platform"
    <3>1. item' = [item EXCEPT !.status = At(item.path).type] /\ At(item.path).type # "absent"
      BY <1>11, <2>1 DEF ReadStatus
    <3>2. item'.status # "absent"
      BY <1>2, <3>1
    <3>3. QED
      BY <2>1, <3>2 DEF DecisionInv
  <2>2. CASE pc' = "next"
    BY <1>4, <2>2
  <2>3. QED
    BY <1>11, <2>1, <2>2 DEF ReadStatus
<1>12. CASE ReadPlatform
  <2>1. CASE pc' = "decide"
    <3>1. item' = [item EXCEPT !.facts = At(item.path)] /\ pc = "platform"
      BY <1>12, <2>1 DEF ReadPlatform
    <3>2. item'.status = item.status /\ item'.path = item.path
      BY <1>2, <3>1
    <3>3. QED
      BY <1>1, <2>1, <3>1, <3>2 DEF DecisionInv
  <2>2. CASE pc' = "next"
    BY <1>4, <2>2
  <2>3. QED
    BY <1>12, <2>1, <2>2 DEF ReadPlatform
<1>13. CASE DecideEntry
  <2>1. pc' \in {"next", "metadata"} /\ (pc' = "metadata" => Accepted')
    BY <1>13, DecideEntryTyped
  <2>2. QED
    BY <2>1 DEF DecisionInv
<1>14. CASE ReadMetadata
  <2>1. /\ pc = "metadata" /\ pc' \in {"target", "emit", "failed", "next"}
        /\ pc' \in {"target", "emit"} => item' = IF item.path = Root THEN [item EXCEPT !.type = "directory"]
                                                 ELSE item
    BY <1>14 DEF ReadMetadata
  <2>2. CASE pc' \in {"target", "emit"} /\ item.path # Root
    <3>1. item' = item /\ Accepted
      BY <1>1, <2>1, <2>2 DEF DecisionInv
    <3>2. Accepted'
      BY <1>3, <3>1, AcceptedKept
    <3>3. QED
      BY <2>2, <3>2 DEF DecisionInv
  <2>3. CASE pc' \in {"target", "emit"} /\ item.path = Root
    <3>1. item'.path = Root
      BY <1>2, <2>1, <2>3
    <3>2. QED
      BY <3>1 DEF DecisionInv
  <2>4. QED
    BY <1>4, <2>1, <2>2, <2>3
<1>15. CASE ReadTarget
  <2>1. pc = "target" /\ pc' \in {"emit", "next"} /\ item' = item
    BY <1>15 DEF ReadTarget
  <2>2. Accepted => Accepted'
    BY <1>3, <2>1, AcceptedKept
  <2>3. QED
    BY <1>1, <2>1, <2>2 DEF DecisionInv
<1>16. CASE EmitEntry
  <2>1. pc = "emit" /\ pc' \in {"open", "next", "failed"} /\ item' = item
    BY <1>16 DEF EmitEntry
  <2>2. Accepted => Accepted'
    BY <1>3, <2>1, AcceptedKept
  <2>3. QED
    BY <1>1, <2>1, <2>2 DEF DecisionInv
<1>17. QED
  BY <1>5, <1>6, <1>7, <1>8, <1>9, <1>10, <1>11, <1>12, <1>13, <1>14, <1>15, <1>16 DEF ScanStep

LEMMA TruthScan ==
    ASSUME IndInv, ScanStep
    PROVE  TruthInv'
<1> USE DEF Goes
<1>1. TypeOK /\ TruthInv /\ RootInv /\ EntryInv
  BY DEF IndInv, ScanInv
<1>2. item \in [path : Path, status : Types, facts : Facts, type : EntryTypes \cup {"none"}]
  BY <1>1 DEF TypeOK
<1>3. tree' = tree /\ touched' = touched
  BY ScanGrows
<1>4. pc' \notin {"platform", "decide", "metadata", "target", "emit", "open"} => TruthInv'
  BY DEF TruthInv
<1>5. CASE InspectRoot
  BY <1>4, <1>5 DEF InspectRoot
<1>6. CASE LoadRules
  BY <1>6 DEF LoadRules, NoItem, TruthInv
<1>7. CASE OpenDirectory
  BY <1>4, <1>7 DEF OpenDirectory
<1>8. CASE TakeName
  BY <1>4, <1>8 DEF TakeName
<1>9. CASE StopDirectory
  BY <1>4, <1>9 DEF StopDirectory
<1>10. CASE EndDirectory
  BY <1>4, <1>10 DEF EndDirectory
<1>11. CASE ReadStatus
  <2>1. CASE pc' = "platform"
    <3>1. /\ item' = [item EXCEPT !.status = At(item.path).type] /\ pc = "status"
      BY <1>11, <2>1 DEF ReadStatus
    <3>2. item'.status = At(item.path).type /\ item'.path = item.path
      BY <1>2, <3>1
    <3>3. item.path \in Path /\ \A q \in Above(item.path) : Captured(q, "directory")
      BY <3>1, ItemPlace DEF UnderWay
    <3>4. Stable(item.path) => At(item.path) = tree[item.path]
      BY <1>1, <3>1, <3>3, StableAt
    <3>5. Stable(item.path)' = Stable(item.path)
      BY <1>3, <3>2 DEF Stable
    <3>6. QED
      BY <1>3, <2>1, <3>2, <3>4, <3>5 DEF TruthInv
  <2>2. CASE pc' = "next"
    BY <1>4, <2>2
  <2>3. QED
    BY <1>11, <2>1, <2>2 DEF ReadStatus
<1>12. CASE ReadPlatform
  <2>1. CASE pc' = "decide"
    <3>1. item' = [item EXCEPT !.facts = At(item.path)] /\ pc = "platform"
      BY <1>12, <2>1 DEF ReadPlatform
    <3>2. item'.status = item.status /\ item'.path = item.path /\ item'.facts = At(item.path)
      BY <1>2, <3>1
    <3>3. item.path \in Path /\ \A q \in Above(item.path) : Captured(q, "directory")
      BY <3>1, ItemPlace DEF UnderWay
    <3>4. Stable(item.path) => At(item.path) = tree[item.path]
      BY <1>1, <3>1, <3>3, StableAt
    <3>5. Stable(item.path)' = Stable(item.path)
      BY <1>3, <3>2 DEF Stable
    <3>6. QED
      BY <1>1, <1>3, <2>1, <3>1, <3>2, <3>4, <3>5 DEF TruthInv
  <2>2. CASE pc' = "next"
    BY <1>4, <2>2
  <2>3. QED
    BY <1>12, <2>1, <2>2 DEF ReadPlatform
<1>13. CASE DecideEntry
  <2>1. /\ pc' \in {"next", "metadata"} /\ pc = "decide"
        /\ item'.path = item.path /\ item'.status = item.status /\ item'.facts = item.facts
    BY <1>13, DecideEntryTyped DEF DecideEntry
  <2>2. Stable(item.path)' = Stable(item.path)
    BY <1>3, <2>1 DEF Stable
  <2>3. QED
    BY <1>1, <1>3, <2>1, <2>2 DEF TruthInv
<1>14. CASE ReadMetadata
  <2>1. /\ pc = "metadata" /\ pc' \in {"target", "emit", "failed", "next"}
        /\ item' = item \/ item' = [item EXCEPT !.type = "directory"]
    BY <1>14 DEF ReadMetadata
  <2>2. item'.path = item.path /\ item'.status = item.status /\ item'.facts = item.facts
    BY <1>2, <2>1
  <2>3. Stable(item.path)' = Stable(item.path)
    BY <1>3, <2>2 DEF Stable
  <2>4. QED
    BY <1>1, <1>3, <2>1, <2>2, <2>3 DEF TruthInv
<1>15. CASE ReadTarget
  <2>1. pc = "target" /\ pc' \in {"emit", "next"} /\ item' = item
    BY <1>15 DEF ReadTarget
  <2>2. Stable(item.path)' = Stable(item.path)
    BY <1>3, <2>1 DEF Stable
  <2>3. QED
    BY <1>1, <1>3, <2>1, <2>2 DEF TruthInv
<1>16. CASE EmitEntry
  <2>1. pc = "emit" /\ pc' \in {"open", "next", "failed"} /\ item' = item
    BY <1>16 DEF EmitEntry
  <2>2. Stable(item.path)' = Stable(item.path)
    BY <1>3, <2>1 DEF Stable
  <2>3. QED
    BY <1>1, <1>3, <2>1, <2>2 DEF TruthInv
<1>17. QED
  BY <1>5, <1>6, <1>7, <1>8, <1>9, <1>10, <1>11, <1>12, <1>13, <1>14, <1>15, <1>16 DEF ScanStep

LEMMA KnownChange ==
    ASSUME TypeOK, DecisionInv, TruthInv, ChangeTree
    PROVE  DecisionInv' /\ TruthInv'
<1>1. UNCHANGED <<pc, item, options>> /\ item.path \in Path
  BY ItemFields DEF ChangeTree
<1>2. Accepted => Accepted'
  BY <1>1, AcceptedKept
<1>3. DecisionInv'
  BY <1>1, <1>2 DEF DecisionInv
<1>4. Stable(item.path)' => Stable(item.path) /\ tree'[item.path] = tree[item.path]
  <2>1. SUFFICES ASSUME NEW p \in Path, p = item.path, Stable(p)'
                 PROVE  Stable(p) /\ tree'[p] = tree[p]
    BY <1>1
  <2>2. QED
    BY <2>1, StableKept DEF UpTo
<1>5. TruthInv'
  BY <1>1, <1>4 DEF TruthInv
<1>6. QED
  BY <1>3, <1>5

-----------------------------------------------------------------------------
(* What has been passed on *)

\* Only on_entry adds an entry: the one under way.
LEMMA OnlyEmitAdds ==
    ASSUME ScanStep, entries' # entries
    PROVE  /\ pc = "emit" /\ entries' = entries \cup {[path |-> item.path, type |-> item.type]}
           /\ UNCHANGED <<warnings, item>>
<1>1. EmitEntry
  BY DEF ScanStep, InspectRoot, LoadRules, OpenDirectory, TakeName, StopDirectory, EndDirectory,
         ReadStatus, ReadPlatform, DecideEntry, ReadMetadata, ReadTarget
<1>2. QED
  BY <1>1 DEF EmitEntry

\* The entry under way is what the tree says, and allowed, if it stayed so.
LEMMA ItemTrue ==
    ASSUME IndInv, pc \in {"metadata", "target", "emit", "open"}, item.path # Root, Stable(item.path)
    PROVE  /\ item.type = TypeOf(tree[item.path])
           /\ ~Excluded(item.path) /\ ~tree[item.path].cloud
           /\ tree[item.path].reparse \notin {"volume_mount_point", "other"}
           /\ ~(options.oneFileSystem /\ tree[item.path].foreign)
           /\ IsLink(tree[item.path]) <=> item.type = "symlink"
<1>1. TypeOK /\ DecisionInv /\ TruthInv
  BY DEF IndInv, ScanInv
<1>2. Accepted /\ item.status = tree[item.path].type /\ item.facts = tree[item.path]
  BY <1>1 DEF DecisionInv, TruthInv
<1>3. item.path \in Path
  BY <1>1, ItemFields
<1>4. QED
  BY <1>1, <1>2, <1>3, AcceptedMeans

LEMMA EntryScan ==
    ASSUME IndInv, ScanStep
    PROVE  EntryInv' /\ OptionsHonoured'
<1>1. TypeOK /\ EntryInv /\ OptionsHonoured /\ ItemInv
  BY DEF IndInv, ScanInv
<1>2. tree' = tree /\ touched' = touched /\ options' = options
  BY ScanGrows
<1>3. ASSUME NEW e \in entries'
      PROVE  /\ e.path = Root => e.type = "directory"
             /\ e.path # Root /\ Stable(e.path) =>
                  /\ e.type = TypeOf(tree[e.path])
                  /\ ~Excluded(e.path) /\ ~tree[e.path].cloud
                  /\ tree[e.path].reparse \notin {"volume_mount_point", "other"}
                  /\ ~(options.oneFileSystem /\ tree[e.path].foreign)
                  /\ IsLink(tree[e.path]) <=> e.type = "symlink"
  <2>1. CASE e \in entries
    BY <1>1, <2>1 DEF EntryInv, OptionsHonoured
  <2>2. CASE e \notin entries
    <3>1. pc = "emit" /\ e = [path |-> item.path, type |-> item.type]
      BY <1>3, <2>2, OnlyEmitAdds
    <3>2. e.path = item.path /\ e.type = item.type
      BY <3>1
    <3>3. item.path = Root => item.type = "directory"
      BY <1>1, <3>1 DEF ItemInv, UnderWay
    <3>4. QED
      BY <3>1, <3>2, <3>3, ItemTrue
  <2>3. QED
    BY <2>1, <2>2
<1>4. \A p \in {e.path : e \in entries'} : Stable(p)' = Stable(p) /\ Excluded(p)' = Excluded(p)
  BY <1>2 DEF Stable, Excluded, DirectoryLike
<1>5. EntryInv'
  BY <1>2, <1>3, <1>4 DEF EntryInv
<1>6. OptionsHonoured'
  BY <1>2, <1>3, <1>4 DEF OptionsHonoured
<1>7. QED
  BY <1>5, <1>6

LEMMA EntryChange ==
    ASSUME TypeOK, EntryInv, OptionsHonoured, StableLinksNotTraversed, ChangeTree
    PROVE  EntryInv' /\ OptionsHonoured' /\ StableLinksNotTraversed'
<1>1. UNCHANGED <<entries, options, through>>
  BY DEF ChangeTree
<1>2. ASSUME NEW p \in Path, Stable(p)'
      PROVE  Stable(p) /\ tree'[p] = tree[p] /\ Excluded(p)' = Excluded(p)
  <2>1. Stable(p) /\ tree'[p] = tree[p]
    BY <1>2, StableKept DEF UpTo
  <2>2. QED
    BY <1>1, <2>1 DEF Excluded, DirectoryLike
<1>3. \A e \in entries : e.path \in Path
  BY DEF TypeOK
<1>4. EntryInv'
  BY <1>1, <1>2, <1>3 DEF EntryInv
<1>5. OptionsHonoured'
  <2>1. SUFFICES ASSUME NEW e \in entries, e.path # Root, Stable(e.path)'
                 PROVE  /\ ~Excluded(e.path)'
                        /\ ~tree'[e.path].cloud
                        /\ tree'[e.path].reparse \notin {"volume_mount_point", "other"}
                        /\ ~(options'.oneFileSystem /\ tree'[e.path].foreign)
                        /\ IsLink(tree'[e.path]) <=> e.type = "symlink"
    BY <1>1 DEF OptionsHonoured
  <2>2. Stable(e.path) /\ tree'[e.path] = tree[e.path] /\ Excluded(e.path)' = Excluded(e.path)
    BY <1>2, <1>3, <2>1
  <2>3. QED
    BY <1>1, <2>1, <2>2 DEF OptionsHonoured
<1>6. StableLinksNotTraversed'
  <2>1. \A p \in through : p \in Path
    BY DEF TypeOK
  <2>2. QED
    BY <1>1, <1>2, <2>1 DEF StableLinksNotTraversed
<1>7. QED
  BY <1>4, <1>5, <1>6

\* Only directory_iterator lists what a link leads to.
LEMMA LinksScan ==
    ASSUME IndInv, ScanStep
    PROVE  StableLinksNotTraversed'
<1>1. TypeOK /\ EntryInv /\ RootInv /\ ItemInv /\ StableLinksNotTraversed
  BY DEF IndInv, ScanInv
<1>2. touched' = touched
  BY ScanGrows
<1>3. CASE through' = through
  BY <1>1, <1>2, <1>3 DEF StableLinksNotTraversed, Stable
<1>4. CASE through' # through
  <2>1. OpenDirectory
    BY <1>4 DEF ScanStep, InspectRoot, LoadRules, TakeName, StopDirectory, EndDirectory,
                ReadStatus, ReadPlatform, DecideEntry, ReadMetadata, ReadTarget, EmitEntry
  <2>2. pc = "open" /\ through' = through \cup {item.path} /\ IsLink(At(item.path))
    BY <1>4, <2>1 DEF OpenDirectory
  <2>3. item.path \in Path /\ \A q \in Above(item.path) : Captured(q, "directory")
    BY <2>2, ItemPlace DEF UnderWay
  <2>4. ASSUME Stable(item.path) PROVE FALSE
    <3>1. At(item.path) = tree[item.path]
      BY <1>1, <2>2, <2>3, <2>4, StableAt
    <3>2. ~IsLink(tree[item.path])
      BY <1>1, <2>2, <2>3, <2>4, CapturedDirectory DEF ItemInv
    <3>3. QED
      BY <2>2, <3>1, <3>2
  <2>5. \A p \in through' : ~Stable(p)
    BY <1>1, <2>2, <2>4 DEF StableLinksNotTraversed
  <2>6. QED
    BY <1>2, <2>5 DEF StableLinksNotTraversed, Stable
<1>5. QED
  BY <1>3, <1>4

\* A warning is about the entry under way, the directory being listed or the root.
LEMMA WarningPlace ==
    ASSUME IndInv, ScanStep, NEW w \in warnings', w \notin warnings
    PROVE  \/ w.path = Root
           \/ UnderWay /\ w.path = item.path
           \/ frames # <<>> /\ w.path = Top.dir
<1> USE DEF Warn
<1>1. StackInv
  BY DEF IndInv
<1>2. CASE OpenDirectory
  BY <1>2 DEF OpenDirectory, UnderWay
<1>3. CASE TakeName
  BY <1>3 DEF TakeName
<1>4. CASE EndDirectory
  BY <1>1, <1>4 DEF EndDirectory, StackInv
<1>5. CASE ReadStatus
  BY <1>5 DEF ReadStatus, UnderWay
<1>6. CASE ReadPlatform
  BY <1>6 DEF ReadPlatform, UnderWay
<1>7. CASE DecideEntry
  BY <1>7 DEF DecideEntry, UnderWay
<1>8. CASE ReadMetadata
  BY <1>8 DEF ReadMetadata, UnderWay
<1>9. CASE ReadTarget
  BY <1>9 DEF ReadTarget, UnderWay
<1>10. QED
  BY <1>2, <1>3, <1>4, <1>5, <1>6, <1>7, <1>8, <1>9
  DEF ScanStep, InspectRoot, LoadRules, StopDirectory, EmitEntry

LEMMA ParentsScan ==
    ASSUME IndInv, ScanStep
    PROVE  ParentsFirst'
<1>1. TypeOK /\ StackInv /\ ParentsFirst
  BY DEF IndInv, ScanInv
<1>2. entries \subseteq entries'
  BY ScanGrows
<1>3. UnderWay => \A q \in Above(item.path) : Captured(q, "directory")
  BY ItemPlace
<1>4. frames # <<>> => \A q \in Above(Top.dir) : Captured(q, "directory")
  <2>1. SUFFICES ASSUME frames # <<>> PROVE \A q \in Above(Top.dir) : Captured(q, "directory")
    OBVIOUS
  <2>2. Len(frames) \in DOMAIN frames /\ Top = frames[Len(frames)]
    BY <1>1, <2>1, Topmost DEF TypeOK
  <2>3. Captured(Top.dir, "directory")
    BY <1>1, <2>2 DEF StackInv, FrameInv
  <2>4. Top.dir \in {e.path : e \in entries}
    BY <2>3 DEF Captured
  <2>5. QED
    BY <1>1, <2>4 DEF ParentsFirst
<1>5. ASSUME NEW e \in entries' PROVE \A q \in Above(e.path) : Captured(q, "directory")
  <2>1. CASE e \in entries
    BY <1>1, <2>1 DEF ParentsFirst
  <2>2. CASE e \notin entries
    <3>1. pc = "emit" /\ e = [path |-> item.path, type |-> item.type]
      BY <1>5, <2>2, OnlyEmitAdds
    <3>2. QED
      BY <1>3, <3>1 DEF UnderWay
  <2>3. QED
    BY <2>1, <2>2
<1>6. ASSUME NEW w \in warnings' PROVE \A q \in Above(w.path) : Captured(q, "directory")
  <2>1. CASE w \in warnings
    BY <1>1, <2>1 DEF ParentsFirst
  <2>2. CASE w \notin warnings
    BY <1>3, <1>4, <1>6, <2>2, WarningPlace, AboveRoot
  <2>3. QED
    BY <2>1, <2>2
<1>7. ASSUME NEW q, Captured(q, "directory") PROVE Captured(q, "directory")'
  BY <1>2, <1>7, CapturedKept
<1>8. QED
  BY <1>5, <1>6, <1>7 DEF ParentsFirst

-----------------------------------------------------------------------------
(* Nothing is lost *)

LEMMA ChildNotRoot ==
    ASSUME NEW p \in Path, NEW n \in Name
    PROVE  Child(p, n) # Root
<1>1. p \in Seq(Name)
  BY PathIs
<1>2. Len(Append(p, n)) = Len(p) + 1 /\ Len(p) \in Nat
  BY <1>1
<1>3. QED
  BY <1>2, Len(<<>>) = 0 DEF Child, Root

LEMMA StableBelow ==
    ASSUME NEW p \in Path, NEW c \in UpTo(p), Stable(p)
    PROVE  Stable(c)
<1>1. UpTo(c) \subseteq UpTo(p)
  BY UpToPath
<1>2. QED
  BY <1>1 DEF Stable

\* A warning names its path.
LEMMA WarnNames ==
    ASSUME NEW c, c # Root, NEW code, Warn(c, code)
    PROVE  Warned(c)'
<1> DEFINE w == [path |-> c, code |-> code]
<1>1. w \in warnings' /\ w.path = c
  BY DEF Warn
<1> HIDE DEF w
<1>2. QED
  BY <1>1 DEF Warned

\* All at and below a path is accounted for if a warning names it, or the options,
\* the rules or its name leave it out.
LEMMA WarnedSettles ==
    ASSUME NEW c, Warned(c)'
    PROVE  Settled(c)'
  BY DEF Settled, Accounted

LEMMA ExcludedSettles ==
    ASSUME NEW c, c # Root, Stable(c) => Excluded(c) \/ Last(c) \in BadName
    PROVE  Settled(c)
  BY StableBelow DEF Settled, Accounted

\* What is settled stays so.
LEMMA SettledKept ==
    ASSUME TypeOK, ScanStep, NEW c, Settled(c)
    PROVE  Settled(c)'
<1>1. /\ tree' = tree /\ touched' = touched /\ options' = options
      /\ entries \subseteq entries' /\ warnings \subseteq warnings'
  BY ScanGrows
<1>2. ASSUME NEW p \in Path, c \in UpTo(p), Stable(p)', tree'[p].type # "absent"
      PROVE  Accounted(p)'
  <2>1. Accounted(p)
    BY <1>1, <1>2 DEF Settled, Stable
  <2>2. QED
    BY <1>1, <2>1, AccountedKept
<1>3. QED
  BY <1>2 DEF Settled

LEMMA SettledUndisturbed ==
    ASSUME TypeOK, ChangeTree, NEW c, Settled(c)
    PROVE  Settled(c)'
<1>1. options' = options /\ entries \subseteq entries' /\ warnings \subseteq warnings'
  BY DEF ChangeTree
<1>2. ASSUME NEW p \in Path, c \in UpTo(p), Stable(p)', tree'[p].type # "absent"
      PROVE  Accounted(p)'
  <2>1. Stable(p) /\ \A q \in UpTo(p) : tree'[q] = tree[q]
    BY <1>2, StableKept
  <2>2. tree'[p] = tree[p]
    BY <2>1 DEF UpTo
  <2>3. Accounted(p)
    BY <1>2, <2>1, <2>2 DEF Settled
  <2>4. QED
    BY <1>1, <2>1, <2>3, AccountedKept
<1>3. QED
  BY <1>2 DEF Settled

\* A name that was given is a path in its directory.
LEMMA ReturnedPath ==
    ASSUME TypeOK, StackInv, NEW k \in DOMAIN frames, NEW n \in frames[k].returned
    PROVE  /\ Child(frames[k].dir, n) \in Path \ {Root}
           /\ k \in 1..Len(frames)
<1>1. DOMAIN frames = 1..Len(frames)
  BY DEF TypeOK
<1>2. frames[k].dir \in Path /\ n \in Name
  BY <1>1, FrameFields
<1>3. Child(frames[k].dir, n) \in Path
  BY DEF StackInv, FrameInv
<1>4. QED
  BY <1>1, <1>2, <1>3, ChildNotRoot

\* Nothing is lost by a step on the entry under way that goes on with it or
\* settles it.
LEMMA LossEntry ==
    ASSUME IndInv, ScanStep, frames' = frames, pc \notin {"failed", "cancelled"},
           \A c \in Path \ {Root} :
               UnderWay /\ c = item.path => (UnderWay' /\ c = item'.path) \/ Settled(c)'
    PROVE  LossInv'
<1>1. TypeOK /\ StackInv /\ LossInv
  BY DEF IndInv, ScanInv
<1>2. SUFFICES ASSUME NEW k \in DOMAIN frames, NEW n \in frames[k].returned,
                      NEW c, c = Child(frames[k].dir, n)
               PROVE  InProgress(c)' \/ Settled(c)'
  BY DEF LossInv
<1>3. c \in Path \ {Root}
  BY <1>1, <1>2, ReturnedPath
<1>4. InProgress(c) \/ Settled(c)
  BY <1>1, <1>2 DEF LossInv
<1>5. CASE Settled(c)
  BY <1>1, <1>5, SettledKept
<1>6. CASE UnderWay /\ c = item.path
  BY <1>3, <1>6 DEF InProgress
<1>7. CASE \E j \in DOMAIN frames : c = frames[j].dir
  BY <1>7 DEF InProgress
<1>8. QED
  BY <1>4, <1>5, <1>6, <1>7 DEF InProgress

\* An entry that is passed on, and no directory, is settled: nothing lies below it.
LEMMA EmitSettles ==
    ASSUME IndInv, EmitEntry, pc' = "next", NEW c \in Path \ {Root}, c = item.path
    PROVE  Settled(c)'
<1>1. TypeOK /\ TreeInv
  BY DEF IndInv, ScanInv
<1>2. /\ pc = "emit" /\ entries' = entries \cup {[path |-> item.path, type |-> item.type]}
      /\ item.type # "directory" /\ tree' = tree /\ touched' = touched
  BY DEF EmitEntry, Goes, ScanFrame
<1>3. ASSUME NEW p \in Path, c \in UpTo(p), Stable(p)', tree'[p].type # "absent"
      PROVE  Accounted(p)'
  <2>1. Stable(p)
    BY <1>2, <1>3 DEF Stable
  <2>2. item.type = TypeOf(tree[c])
    BY <1>2, <1>3, <2>1, StableBelow, ItemTrue
  <2>3. p = c
    <3>1. SUFFICES ASSUME p # c PROVE FALSE
      OBVIOUS
    <3>2. c \in Above(p)
      BY <1>3, <3>1, UpToPath
    <3>3. tree[c].type = "directory" /\ ~IsLink(tree[c])
      BY <1>1, <1>2, <1>3, <3>2 DEF TreeInv, WellFormed
    <3>4. QED
      BY <1>2, <2>2, <3>3 DEF TypeOf
  <2>4. Captured(p, TypeOf(tree[p]))'
    BY <1>2, <2>2, <2>3 DEF Captured
  <2>5. QED
    BY <2>4 DEF Accounted
<1>4. QED
  BY <1>3 DEF Settled

\* An entry the options or the rules leave out is settled.
LEMMA DecideSettles ==
    ASSUME IndInv, DecideEntry, pc' = "next", NEW c \in Path \ {Root}, c = item.path
    PROVE  Settled(c)'
<1> DEFINE kind == Kind(item.status, item.facts.reparse)
           directoryLike == item.status = "directory" \/ kind \in {"junction", "volume_mount_point"}
           decision == Decide(kind, item.facts)
<1>1. TypeOK /\ TruthInv /\ pc = "decide" /\ ScanStep
  BY DEF IndInv, ScanInv, DecideEntry, ScanStep
<1>2. CASE Ignored(item.path, directoryLike) \/ decision = "skip"
  <2>1. ASSUME Stable(c) PROVE Excluded(c)
    <3> DEFINE f == tree[c]
    <3>1. item.status = f.type /\ item.facts = f
      BY <1>1, <2>1 DEF TruthInv
    <3>2. f.reparse \in {"none", "symbolic_link", "junction", "volume_mount_point", "other"}
      BY <1>1, TreeFacts, FactsFields
    <3> HIDE DEF f
    <3>3. directoryLike <=> f.type = "directory" \/ f.reparse \in {"junction", "volume_mount_point"}
      BY <3>1, <3>2 DEF Kind
    <3>4. decision = "skip" => ~options.includeHidden /\ f.hidden
      <4>1. kind # "skip"
        BY <3>1, <3>2 DEF Kind
      <4>2. QED
        BY <3>1, <4>1 DEF Decide
    <3>5. QED
      BY <1>2, <3>3, <3>4 DEF Excluded, DirectoryLike, Ignored, f
  <2>2. Settled(c)
    BY <2>1, ExcludedSettles
  <2>3. QED
    BY <1>1, <2>2, SettledKept
<1>3. CASE ~(Ignored(item.path, directoryLike) \/ decision = "skip")
  <2>1. PICK code : Warn(c, code)
    BY <1>3 DEF DecideEntry, Goes
  <2>2. Warned(c)'
    BY <2>1, WarnNames
  <2>3. QED
    BY <2>2, WarnedSettles
<1>4. QED
  BY <1>2, <1>3

\* A directory is entered: it is under way from then on.
LEMMA LossOpen ==
    ASSUME IndInv, OpenDirectory
    PROVE  LossInv'
<1> USE DEF Goes
<1>1. TypeOK /\ StackInv /\ LossInv /\ pc = "open" /\ ScanStep
  BY DEF IndInv, ScanInv, OpenDirectory, ScanStep
<1>2. CASE pc' = "cancelled"
  BY <1>2 DEF LossInv
<1>3. CASE Warn(item.path, "directory_enumeration_failed") /\ frames' = frames
  <2>1. ASSUME NEW c \in Path \ {Root}, c = item.path PROVE Settled(c)'
    BY <1>3, <2>1, WarnNames, WarnedSettles
  <2>2. QED
    BY <1>1, <1>3, <2>1, LossEntry
<1>4. CASE frames' = Append(frames, [dir |-> item.path, returned |-> {}, changed |-> {}])
  <2> DEFINE t == Len(frames)
             f == [dir |-> item.path, returned |-> {}, changed |-> {}]
  <2>1. /\ Len(frames') = t + 1 /\ t \in Nat /\ frames' \in Seq(Frame)
        /\ \A k \in 1..t : frames'[k] = frames[k]
        /\ frames'[t + 1] = f
    BY <1>1, <1>4, Pushed, ItemFields
  <2>2. DOMAIN frames' = 1..t + 1 /\ DOMAIN frames = 1..t
    BY <1>1, <2>1 DEF TypeOK
  <2>3. f.returned = {} /\ f.dir = item.path
    OBVIOUS
  <2> HIDE DEF f
  <2>4. SUFFICES ASSUME NEW k \in 1..t + 1, NEW n \in frames'[k].returned,
                        NEW c, c = Child(frames'[k].dir, n)
                 PROVE  InProgress(c)' \/ Settled(c)'
    BY <2>2 DEF LossInv
  <2>5. k \in 1..t /\ frames'[k] = frames[k]
    BY <2>1, <2>3, <2>4
  <2>6. InProgress(c) \/ Settled(c)
    BY <1>1, <2>2, <2>4, <2>5 DEF LossInv
  <2>7. CASE Settled(c)
    BY <1>1, <2>7, SettledKept
  <2>8. CASE UnderWay /\ c = item.path
    <3>1. t + 1 \in DOMAIN frames' /\ c = frames'[t + 1].dir
      BY <2>1, <2>2, <2>3, <2>8
    <3>2. QED
      BY <3>1 DEF InProgress
  <2>9. ASSUME NEW j \in DOMAIN frames, c = frames[j].dir PROVE InProgress(c)'
    <3>1. j \in DOMAIN frames' /\ c = frames'[j].dir
      BY <2>1, <2>2, <2>9
    <3>2. QED
      BY <3>1 DEF InProgress
  <2>10. QED
    BY <2>6, <2>7, <2>8, <2>9 DEF InProgress
<1>5. QED
  BY <1>2, <1>3, <1>4 DEF OpenDirectory

\* A name is given: it is under way, or its name leaves it out.
LEMMA LossTake ==
    ASSUME IndInv, TakeName
    PROVE  LossInv'
<1> USE DEF Goes
<1>1. TypeOK /\ StackInv /\ LossInv /\ pc = "next" /\ frames # <<>> /\ ScanStep
  BY DEF IndInv, ScanInv, TakeName, StackInv, ScanStep
<1> DEFINE t == Len(frames)
<1>2. PICK n \in NamesLeft :
        /\ frames' = [frames EXCEPT ![Len(frames)].returned = @ \cup {n}]
        /\ item' = [NoItem EXCEPT !.path = Child(Top.dir, n)]
        /\ n \in BadName \/ pc' = "status"
  BY DEF TakeName
<1>3. n \in Name /\ Child(Top.dir, n) \in Path
  BY <1>1, NameLeft
<1>4. /\ frames' \in Seq(Frame) /\ Len(frames') = t
      /\ \A k \in 1..t :
           /\ frames'[k].dir = frames[k].dir
           /\ frames'[k].returned = IF k = t THEN frames[k].returned \cup {n}
                                    ELSE frames[k].returned
  BY <1>1, <1>2, <1>3, Given
<1>5. DOMAIN frames' = 1..t /\ DOMAIN frames = 1..t /\ Top = frames[t] /\ Top.dir \in Path
  BY <1>1, <1>4, Topmost DEF TypeOK
<1>6. item'.path = Child(Top.dir, n)
  BY <1>2 DEF NoItem
<1>7. SUFFICES ASSUME NEW k \in 1..t, NEW m \in frames'[k].returned,
                      NEW c, c = Child(frames'[k].dir, m)
               PROVE  InProgress(c)' \/ Settled(c)'
  BY <1>5 DEF LossInv
<1>8. CASE m \in frames[k].returned
  <2>1. InProgress(c) \/ Settled(c)
    BY <1>1, <1>4, <1>5, <1>7, <1>8 DEF LossInv
  <2>2. ASSUME NEW j \in DOMAIN frames, c = frames[j].dir PROVE InProgress(c)'
    <3>1. j \in DOMAIN frames' /\ c = frames'[j].dir
      BY <1>4, <1>5, <2>2
    <3>2. QED
      BY <3>1 DEF InProgress
  <2>3. ~UnderWay
    BY <1>1 DEF UnderWay
  <2>4. Settled(c) => Settled(c)'
    BY <1>1, SettledKept
  <2>5. QED
    BY <2>1, <2>2, <2>3, <2>4 DEF InProgress
<1>9. CASE m \notin frames[k].returned
  <2>1. c = Child(Top.dir, n)
    BY <1>4, <1>5, <1>7, <1>9
  <2>2. CASE pc' = "status"
    BY <1>6, <2>1, <2>2 DEF InProgress, UnderWay
  <2>3. CASE n \in BadName
    <3>1. c # Root
      BY <1>3, <1>5, <2>1, ChildNotRoot
    <3>2. Last(c) = n
      <4>1. Top.dir \in Seq(Name)
        BY <1>5, PathIs
      <4>2. Len(Append(Top.dir, n)) = Len(Top.dir) + 1 /\ Append(Top.dir, n)[Len(Top.dir) + 1] = n
        BY <1>3, <4>1
      <4>3. QED
        BY <2>1, <4>2 DEF Last, Child
    <3>3. Settled(c)
      BY <2>3, <3>1, <3>2, ExcludedSettles
    <3>4. QED
      BY <1>1, <3>3, SettledKept
  <2>4. QED
    BY <1>2, <2>2, <2>3
<1>10. QED
  BY <1>8, <1>9

\* A directory is left: all that is in it is accounted for. What its iterator may
\* not have given was touched, and what it gave is settled.
LEMMA DirectoryDone ==
    ASSUME IndInv, EndDirectory, NEW d, d = Top.dir
    PROVE  Settled(d)' /\ d \in Path /\ Len(d) = Len(frames) - 1
<1> USE DEF Goes
<1>1. /\ TypeOK /\ StackInv /\ LossInv /\ RootInv /\ EntryInv /\ TreeInv /\ ParentsFirst
      /\ pc = "next" /\ frames # <<>> /\ ScanStep
  BY DEF IndInv, ScanInv, EndDirectory, StackInv, ScanStep
<1> DEFINE t == Len(frames)
<1>2. t \in 1..t /\ t \in DOMAIN frames /\ DOMAIN frames = 1..t /\ t \in Nat
      /\ Top = frames[t] /\ d \in Path
  BY <1>1, Topmost DEF TypeOK
<1>3. /\ Len(d) = t - 1 /\ Captured(d, "directory")
      /\ \A n \in Top.changed : Child(d, n) \in touched
  BY <1>1, <1>2 DEF StackInv, FrameInv
<1>4. CASE Warn(d, "directory_enumeration_failed")
  <2> DEFINE w == [path |-> d, code |-> "directory_enumeration_failed"]
  <2>1. w \in warnings' /\ w.path = d /\ w.code # "unsupported_path_encoding"
    BY <1>4 DEF Warn
  <2> HIDE DEF w
  <2>2. Warned(d)'
    BY <2>1 DEF Warned
  <2>3. QED
    BY <1>2, <1>3, <2>2, WarnedSettles
<1>5. CASE NamesLeft \subseteq Top.changed
  <2>1. \A q \in UpTo(d) : Captured(q, "directory")
    <3>1. d \in {e.path : e \in entries}
      BY <1>3 DEF Captured
    <3>2. QED
      BY <1>1, <1>3, <3>1 DEF ParentsFirst, UpTo
  <2>2. ASSUME NEW p \in Path, d \in UpTo(p), Stable(p), tree[p].type # "absent"
        PROVE  Accounted(p)
    <3>1. CASE p = d
      <4>1. TypeOf(tree[d]) = "directory"
        BY <1>1, <1>2, <1>3, <2>2, <3>1, CapturedDirectory
      <4>2. QED
        BY <1>3, <3>1, <4>1 DEF Accounted
    <3>2. CASE p # d
      <4>1. d \in Above(p)
        BY <2>2, <3>2, UpToPath
      <4>2. PICK n \in Name : Child(d, n) \in UpTo(p) /\ Child(d, n) \in Path /\ Len(d) < Depth
        BY <4>1, WayDown
      <4> DEFINE c == Child(d, n)
      <4>3. c \in Path /\ c # Root /\ Front(c) = d /\ Len(c) = Len(d) + 1
        BY <1>2, <4>2, ChildOf
      <4> HIDE DEF c
      <4>4. Stable(c) /\ c \in UpTo(p)
        BY <2>2, <4>2, StableBelow DEF c
      <4>5. tree[c].type # "absent"
        <5>1. CASE c = p
          BY <2>2, <5>1
        <5>2. CASE c # p
          <6>1. c \in Above(p)
            BY <4>4, <5>2, UpToPath
          <6>2. QED
            BY <1>1, <2>2, <6>1 DEF TreeInv, WellFormed
        <5>3. QED
          BY <5>1, <5>2
      <4>6. At(c) = tree[c]
        <5>1. Above(c) = UpTo(d)
          BY <4>3, AboveParent
        <5>2. QED
          BY <1>1, <2>1, <4>3, <4>4, <5>1, StableAt
      <4>7. n \in Names(Top.dir)
        BY <4>2, <4>5, <4>6 DEF Names, c
      <4>8. c \notin touched
        BY <4>4 DEF Stable, UpTo
      <4>9. n \in Top.returned
        BY <1>3, <1>5, <4>7, <4>8 DEF NamesLeft, c
      <4>10. InProgress(c) \/ Settled(c)
        BY <1>1, <1>2, <4>9 DEF LossInv, c
      <4>11. ~InProgress(c)
        <5>1. ASSUME NEW j \in DOMAIN frames, c = frames[j].dir PROVE FALSE
          <6>1. Len(c) = j - 1 /\ j \in 1..t
            BY <1>1, <1>2, <5>1 DEF StackInv, FrameInv
          <6> DEFINE l == Len(d)
                     m == Len(c)
          <6>2. l = t - 1 /\ m = l + 1
            BY <1>3, <4>3
          <6> HIDE DEF l, m
          <6>3. m = t
            BY <1>2, <6>2
          <6>4. j - 1 = t /\ j <= t /\ j \in Int
            BY <1>2, <6>1, <6>3 DEF m
          <6>5. QED
            BY <1>2, <6>4
        <5>2. QED
          BY <1>1, <5>1 DEF InProgress, UnderWay
      <4>12. QED
        BY <2>2, <4>4, <4>10, <4>11 DEF Settled
    <3>3. QED
      BY <3>1, <3>2
  <2>3. Settled(d)
    BY <2>2 DEF Settled
  <2>4. QED
    BY <1>1, <1>2, <1>3, <2>3, SettledKept
<1>6. QED
  BY <1>4, <1>5 DEF EndDirectory

LEMMA LossEnd ==
    ASSUME IndInv, EndDirectory
    PROVE  LossInv'
<1>1. TypeOK /\ StackInv /\ LossInv /\ pc = "next" /\ frames # <<>> /\ ScanStep
  BY DEF IndInv, ScanInv, EndDirectory, StackInv, ScanStep
<1>2. frames' = Front(frames)
  BY DEF EndDirectory
<1>3. /\ frames' \in Seq(Frame) /\ Len(frames') = Len(frames) - 1
      /\ \A k \in 1..Len(frames') : k \in 1..Len(frames) /\ frames'[k] = frames[k]
  BY <1>1, <1>2, Popped
<1>4. /\ DOMAIN frames' = 1..Len(frames') /\ DOMAIN frames = 1..Len(frames)
      /\ Len(frames) \in Nat /\ Top = frames[Len(frames)]
  BY <1>1, <1>3, Topmost DEF TypeOK
<1>5. SUFFICES ASSUME NEW k \in DOMAIN frames', NEW n \in frames'[k].returned,
                      NEW c, c = Child(frames'[k].dir, n)
               PROVE  InProgress(c)' \/ Settled(c)'
  BY DEF LossInv
<1>6. k \in DOMAIN frames /\ frames'[k] = frames[k]
  BY <1>3, <1>4
<1>7. InProgress(c) \/ Settled(c)
  BY <1>1, <1>5, <1>6 DEF LossInv
<1>8. ~UnderWay
  BY <1>1 DEF UnderWay
<1>9. ASSUME NEW j \in DOMAIN frames, c = frames[j].dir PROVE InProgress(c)' \/ Settled(c)'
  <2>1. CASE j = Len(frames)
    BY <1>4, <1>9, <2>1, DirectoryDone
  <2>2. CASE j # Len(frames)
    <3>1. j \in DOMAIN frames' /\ c = frames'[j].dir
      BY <1>3, <1>4, <1>9, <2>2
    <3>2. QED
      BY <3>1 DEF InProgress
  <2>3. QED
    BY <2>1, <2>2
<1>10. Settled(c) => Settled(c)'
  BY <1>1, SettledKept
<1>11. QED
  BY <1>7, <1>8, <1>9, <1>10 DEF InProgress

LEMMA LossScan ==
    ASSUME IndInv, ScanStep
    PROVE  LossInv'
<1> USE DEF Goes
<1>1. TypeOK /\ StackInv /\ ItemInv
  BY DEF IndInv, ScanInv
<1>2. item \in [path : Path, status : Types, facts : Facts, type : EntryTypes \cup {"none"}]
  BY <1>1 DEF TypeOK
<1>3. ASSUME NEW c \in Path \ {Root}, NEW code, Warn(c, code) PROVE Settled(c)'
  BY <1>3, WarnNames, WarnedSettles
<1>4. CASE InspectRoot
  <2>1. frames = <<>> /\ frames' = <<>>
    BY <1>1, <1>4 DEF InspectRoot, StackInv
  <2>2. QED
    BY <2>1 DEF LossInv
<1>5. CASE LoadRules
  <2>1. frames = <<>> /\ frames' = <<>>
    BY <1>1, <1>5 DEF LoadRules, StackInv
  <2>2. QED
    BY <2>1 DEF LossInv
<1>6. CASE OpenDirectory
  BY <1>6, LossOpen
<1>7. CASE TakeName
  BY <1>7, LossTake
<1>8. CASE StopDirectory
  BY <1>8 DEF StopDirectory, LossInv
<1>9. CASE EndDirectory
  BY <1>9, LossEnd
<1>10. CASE ReadStatus
  <2>1. /\ frames' = frames /\ pc = "status"
        /\ \/ pc' = "platform" /\ item' = [item EXCEPT !.status = At(item.path).type]
           \/ Warn(item.path, "filesystem_inspection_failed")
    BY <1>10 DEF ReadStatus
  <2>2. CASE pc' = "platform" /\ item' = [item EXCEPT !.status = At(item.path).type]
    <3>1. item'.path = item.path /\ UnderWay'
      BY <1>2, <2>2 DEF UnderWay
    <3>2. QED
      BY <2>1, <3>1, LossEntry
  <2>3. CASE Warn(item.path, "filesystem_inspection_failed")
    BY <1>3, <2>1, <2>3, LossEntry
  <2>4. QED
    BY <2>1, <2>2, <2>3
<1>11. CASE ReadPlatform
  <2>1. /\ frames' = frames /\ pc = "platform"
        /\ \/ pc' = "decide" /\ item' = [item EXCEPT !.facts = At(item.path)]
           \/ Warn(item.path, "metadata_unavailable")
    BY <1>11 DEF ReadPlatform
  <2>2. CASE pc' = "decide" /\ item' = [item EXCEPT !.facts = At(item.path)]
    <3>1. item'.path = item.path /\ UnderWay'
      BY <1>2, <2>2 DEF UnderWay
    <3>2. QED
      BY <2>1, <3>1, LossEntry
  <2>3. CASE Warn(item.path, "metadata_unavailable")
    BY <1>3, <2>1, <2>3, LossEntry
  <2>4. QED
    BY <2>1, <2>2, <2>3
<1>12. CASE DecideEntry
  <2>1. frames' = frames /\ pc = "decide" /\ item'.path = item.path /\ pc' \in {"next", "metadata"}
    BY <1>12, DecideEntryTyped DEF DecideEntry
  <2>2. CASE pc' = "metadata"
    <3>1. UnderWay'
      BY <2>2 DEF UnderWay
    <3>2. QED
      BY <2>1, <3>1, LossEntry
  <2>3. CASE pc' = "next"
    <3>1. \A c \in Path \ {Root} : c = item.path => Settled(c)'
      BY <1>12, <2>3, DecideSettles
    <3>2. QED
      BY <2>1, <3>1, LossEntry
  <2>4. QED
    BY <2>1, <2>2, <2>3
<1>13. CASE ReadMetadata
  <2>1. /\ frames' = frames /\ pc = "metadata"
        /\ \/ /\ pc' \in {"target", "emit"}
              /\ item' = item \/ item' = [item EXCEPT !.type = "directory"]
           \/ Warn(item.path, "metadata_unavailable")
    BY <1>13 DEF ReadMetadata
  <2>2. CASE /\ pc' \in {"target", "emit"}
             /\ item' = item \/ item' = [item EXCEPT !.type = "directory"]
    <3>1. item'.path = item.path /\ UnderWay'
      BY <1>2, <2>2 DEF UnderWay
    <3>2. QED
      BY <2>1, <3>1, LossEntry
  <2>3. CASE Warn(item.path, "metadata_unavailable")
    BY <1>3, <2>1, <2>3, LossEntry
  <2>4. QED
    BY <2>1, <2>2, <2>3
<1>14. CASE ReadTarget
  <2>1. frames' = frames /\ pc = "target" /\ item' = item /\ pc' \in {"emit", "next"}
    BY <1>14 DEF ReadTarget
  <2>2. CASE pc' = "emit"
    <3>1. UnderWay'
      BY <2>2 DEF UnderWay
    <3>2. QED
      BY <2>1, <3>1, LossEntry
  <2>3. CASE pc' = "next"
    <3>1. PICK code : Warn(item.path, code)
      BY <1>14, <2>3 DEF ReadTarget
    <3>2. QED
      BY <1>3, <2>1, <3>1, LossEntry
  <2>4. QED
    BY <2>1, <2>2, <2>3
<1>15. CASE EmitEntry
  <2>1. frames' = frames /\ pc = "emit" /\ item' = item /\ pc' \in {"open", "next", "failed"}
    BY <1>15 DEF EmitEntry
  <2>2. CASE pc' = "open"
    <3>1. UnderWay'
      BY <2>2 DEF UnderWay
    <3>2. QED
      BY <2>1, <3>1, LossEntry
  <2>3. CASE pc' = "next"
    <3>1. \A c \in Path \ {Root} : c = item.path => Settled(c)'
      BY <1>15, <2>3, EmitSettles
    <3>2. QED
      BY <2>1, <3>1, LossEntry
  <2>4. CASE pc' = "failed"
    BY <2>4 DEF LossInv
  <2>5. QED
    BY <2>1, <2>2, <2>3, <2>4
<1>16. QED
  BY <1>4, <1>5, <1>6, <1>7, <1>8, <1>9, <1>10, <1>11, <1>12, <1>13, <1>14, <1>15 DEF ScanStep

LEMMA LossChange ==
    ASSUME IndInv, ChangeTree
    PROVE  LossInv'
<1>1. TypeOK /\ LossInv
  BY DEF IndInv, ScanInv
<1>2. UNCHANGED <<pc, item>>
  BY DEF ChangeTree
<1>3. /\ frames' \in Seq(Frame) /\ Len(frames') = Len(frames)
      /\ \A k \in 1..Len(frames) :
           frames'[k].dir = frames[k].dir /\ frames'[k].returned = frames[k].returned
  BY <1>1, Disturbed
<1>4. DOMAIN frames' = 1..Len(frames) /\ DOMAIN frames = 1..Len(frames)
  BY <1>1, <1>3 DEF TypeOK
<1>5. SUFFICES ASSUME pc \notin {"failed", "cancelled"},
                      NEW k \in DOMAIN frames, NEW n \in frames[k].returned,
                      NEW c, c = Child(frames[k].dir, n)
               PROVE  InProgress(c)' \/ Settled(c)'
  BY <1>2, <1>3, <1>4 DEF LossInv
<1>6. InProgress(c) \/ Settled(c)
  BY <1>1, <1>5 DEF LossInv
<1>7. InProgress(c) => InProgress(c)'
  BY <1>2, <1>3, <1>4 DEF InProgress, UnderWay
<1>8. Settled(c) => Settled(c)'
  BY <1>1, SettledUndisturbed
<1>9. QED
  BY <1>6, <1>7, <1>8

\* The scan returns from the root's directory, or warns that it could not be opened.
LEMMA LostScan ==
    ASSUME IndInv, ScanStep
    PROVE  NothingLost'
<1> USE DEF Goes
<1>1. TypeOK /\ StackInv /\ ItemInv
  BY DEF IndInv, ScanInv
<1>2. SUFFICES ASSUME pc' = "done" PROVE Settled(Root)'
  <2>1. \A p \in Path : Root \in UpTo(p)
    BY RootAbove
  <2>2. QED
    BY <1>2, <2>1 DEF NothingLost, Settled
<1>3. OpenDirectory \/ EndDirectory
  BY <1>2, DecideEntryTyped
  DEF ScanStep, InspectRoot, LoadRules, TakeName, StopDirectory, ReadStatus, ReadPlatform,
      ReadMetadata, ReadTarget, EmitEntry
<1>4. CASE OpenDirectory
  <2>1. Warn(item.path, "directory_enumeration_failed") /\ frames = <<>> /\ pc = "open"
    BY <1>2, <1>4 DEF OpenDirectory
  <2>2. item.path = Root
    BY <1>1, <2>1 DEF ItemInv, UnderWay
  <2> DEFINE w == [path |-> Root, code |-> "directory_enumeration_failed"]
  <2>3. w \in warnings' /\ w.path = Root /\ w.code # "unsupported_path_encoding"
    BY <2>1, <2>2 DEF Warn
  <2> HIDE DEF w
  <2>4. Warned(Root)'
    BY <2>3 DEF Warned
  <2>5. QED
    BY <2>4, WarnedSettles
<1>5. CASE EndDirectory
  <2>1. Len(frames) = 1
    BY <1>2, <1>5 DEF EndDirectory
  <2>2. ASSUME NEW d, d = Top.dir PROVE Settled(Root)'
    <3>1. Settled(d)' /\ d \in Path /\ Len(d) = 0
      BY <1>5, <2>1, <2>2, DirectoryDone
    <3>2. d = Root
      BY <3>1, PathIs DEF Root
    <3>3. QED
      BY <3>1, <3>2
  <2>3. QED
    BY <2>2
<1>6. QED
  BY <1>3, <1>4, <1>5

-----------------------------------------------------------------------------
(* The theorems *)

LEMMA InitInv == Init => IndInv
<1>1. SUFFICES ASSUME Init PROVE IndInv
  OBVIOUS
<1>2. tree \in [Path -> Facts] /\ WellFormed(tree)
  BY <1>1, TreeAssumption DEF Init
<1>3. TypeOK
  <2>1. item \in [path : Path, status : Types, facts : Facts, type : EntryTypes \cup {"none"}]
    BY <1>1, ThingsAreFacts, AboveRoot DEF Init, NoItem, Types
  <2>2. frames \in Seq(Frame) /\ Len(frames) <= Depth + 1
    BY <1>1, DepthAssumption DEF Init
  <2>3. QED
    BY <1>1, <1>2, <2>1, <2>2 DEF Init, TypeOK
<1>4. TreeInv /\ RootInv
  BY <1>1, <1>2 DEF Init, TreeInv, RootInv
<1>5. StackInv /\ LossInv
  BY <1>1 DEF Init, StackInv, LossInv
<1>6. ItemInv /\ DecisionInv /\ TruthInv
  BY <1>1 DEF Init, ItemInv, UnderWay, DecisionInv, TruthInv
<1>7. EntryInv /\ ParentsFirst /\ OptionsHonoured /\ StableLinksNotTraversed /\ NothingLost
  BY <1>1 DEF Init, EntryInv, ParentsFirst, OptionsHonoured, StableLinksNotTraversed, NothingLost
<1>8. QED
  BY <1>3, <1>4, <1>5, <1>6, <1>7 DEF IndInv, ScanInv

LEMMA InvScan ==
    ASSUME IndInv, ScanStep
    PROVE  IndInv'
  BY TypeOKScan, TreeScan, StackScan, ItemScan, DecisionScan, TruthScan, EntryScan, LossScan,
     ParentsScan, LinksScan, LostScan
  DEF IndInv, ScanInv

LEMMA InvChange ==
    ASSUME IndInv, ChangeTree
    PROVE  IndInv'
<1>1. /\ TypeOK /\ TreeInv /\ RootInv /\ StackInv /\ ItemInv /\ DecisionInv /\ TruthInv /\ EntryInv
      /\ ParentsFirst /\ OptionsHonoured /\ StableLinksNotTraversed
  BY DEF IndInv, ScanInv
<1>2. TypeOK' /\ TreeInv' /\ RootInv' /\ StackInv' /\ ItemInv' /\ DecisionInv' /\ TruthInv'
  BY <1>1, TypeOKChange, TreeChange, StackChange, ItemChange, KnownChange
<1>3. EntryInv' /\ OptionsHonoured' /\ StableLinksNotTraversed' /\ LossInv'
  BY <1>1, EntryChange, LossChange
<1>4. ParentsFirst'
  BY <1>1 DEF ParentsFirst, Captured, ChangeTree
<1>5. NothingLost'
  BY DEF NothingLost, ChangeTree, Ended
<1>6. QED
  BY <1>2, <1>3, <1>4, <1>5 DEF IndInv, ScanInv

\* A request to stop changes nothing the invariant is about.
LEMMA InvStop ==
    ASSUME IndInv, stop' \in BOOLEAN,
           UNCHANGED <<tree, options, pc, frames, item, entries, warnings, touched, through>>
    PROVE  IndInv'
<1> USE DEF Captured, UnderWay, Stable
<1>1. TypeOK'
  BY DEF IndInv, ScanInv, TypeOK
<1>2. TreeInv' /\ RootInv'
  BY DEF IndInv, TreeInv, WellFormed, RootInv
<1>3. StackInv'
  BY DEF IndInv, StackInv, FrameInv
<1>4. ItemInv'
  BY DEF IndInv, ItemInv, Top, Last
<1>5. DecisionInv'
  BY DEF IndInv, DecisionInv, Accepted, Decide
<1>6. TruthInv' /\ EntryInv'
  BY DEF IndInv, TruthInv, EntryInv
<1>7. \A p : Excluded(p)' = Excluded(p)
  BY DEF Excluded, DirectoryLike
<1>8. ParentsFirst' /\ OptionsHonoured' /\ StableLinksNotTraversed'
  BY <1>7 DEF IndInv, ScanInv, ParentsFirst, OptionsHonoured, StableLinksNotTraversed
<1>9. \A p : Accounted(p)' = Accounted(p)
  BY <1>7 DEF Accounted, Warned
<1>10. \A c : Settled(c)' = Settled(c) /\ InProgress(c)' = InProgress(c)
  BY <1>9 DEF Settled, InProgress
<1>11. LossInv'
  BY <1>10 DEF IndInv, LossInv
<1>12. NothingLost'
  BY <1>9 DEF IndInv, NothingLost
<1>13. QED
  BY <1>1, <1>2, <1>3, <1>4, <1>5, <1>6, <1>8, <1>11, <1>12 DEF IndInv, ScanInv

LEMMA InvStep == IndInv /\ [Next]_vars => IndInv'
<1>1. SUFFICES ASSUME IndInv, [Next]_vars PROVE IndInv'
  OBVIOUS
<1>2. CASE ScanStep
  BY <1>1, <1>2, InvScan
<1>3. CASE ChangeTree
  BY <1>1, <1>3, InvChange
<1>4. CASE RequestStop
  BY <1>1, <1>4, InvStop DEF RequestStop
<1>5. CASE UNCHANGED vars
  <2>1. stop' \in BOOLEAN
    BY <1>1, <1>5 DEF IndInv, ScanInv, TypeOK, vars
  <2>2. QED
    BY <1>1, <1>5, <2>1, InvStop DEF vars
<1>6. QED
  BY <1>1, <1>2, <1>3, <1>4, <1>5 DEF Next

\* The invariant holds in every state of a scan (scan_streaming, scan_directory,
\* scan_entry, decide_scan_entry).
THEOREM Invariance == Spec => []IndInv
  BY InitInv, InvStep, PTL DEF Spec

\* Whatever changes while it scans, the scan passes on only what it should: below
\* captured directories, according to the options and the rules, and not through
\* links that stayed links (scan_directory, decide_scan_entry).
THEOREM ScanTheorem == Spec => []ScanInv
<1>1. IndInv => ScanInv
  BY DEF IndInv
<1>2. QED
  BY <1>1, Invariance, PTL

\* A scan that returns has lost nothing silently that was there all along, however
\* many names came and went beside it (scan_directory).
THEOREM NothingLostTheorem == Spec => []NothingLost
<1>1. IndInv => NothingLost
  BY DEF IndInv
<1>2. QED
  BY <1>1, Invariance, PTL
=============================================================================
