----------------------- MODULE RepositoryCreation_proofs -----------------------
(***************************************************************************)
(* Proofs about RepositoryCreation, for any number of creators, openers    *)
(* and faults.                                                             *)
(***************************************************************************)
EXTENDS RepositoryCreation, TLAPS

-----------------------------------------------------------------------------
(* The ledger *)

\* The records by their numbers.
LEMMA Records ==
    /\ Len(Ledger) = 11
    /\ Ledger[1] = "root" /\ Ledger[2] = "objects" /\ Ledger[3] = "temporary"
    /\ Ledger[4] = "temporary/objects" /\ Ledger[5] = "temporary/restores" /\ Ledger[6] = "logs"
    /\ Ledger[7] = "lock" /\ Ledger[8] = "db" /\ Ledger[9] = "wal" /\ Ledger[10] = "shm"
    /\ Ledger[11] = "journal"
    /\ Len(Reserved) = 8 /\ Len(Layout) = 7
  BY DEF Ledger, Reserved, Layout

LEMMA Indices == \A k \in 1..11 : k \in {1, 2, 3, 4, 5, 6, 7, 8, 9, 10, 11}
  OBVIOUS

LEMMA LedgerSet ==
    ToSet(Ledger) = {"root", "objects", "temporary", "temporary/objects", "temporary/restores",
                     "logs", "lock", "db", "wal", "shm", "journal"}
<1>1. DOMAIN Ledger = 1..11
  BY DEF Ledger
<1>2. QED
  BY <1>1, Records, Indices DEF ToSet

LEMMA PartsSet == Parts = ToSet(Ledger) \ {"root"}
<1>1. DOMAIN Tail(Ledger) = 1..10 /\ \A k \in 1..10 : Tail(Ledger)[k] = Ledger[k + 1]
  BY DEF Ledger
<1>2. ToSet(Tail(Ledger)) = {Ledger[k + 1] : k \in 1..10}
  BY <1>1 DEF ToSet
<1>3. \A k \in 1..10 : k \in {1, 2, 3, 4, 5, 6, 7, 8, 9, 10}
  OBVIOUS
<1>4. {Ledger[k + 1] : k \in 1..10} = {"objects", "temporary", "temporary/objects",
        "temporary/restores", "logs", "lock", "db", "wal", "shm", "journal"}
  BY <1>3, Records
<1>5. QED
  BY <1>2, <1>4, LedgerSet DEF Parts

\* Every path has its number.
LEMMA Numbers ==
    /\ \A k \in 1..11 : /\ Ledger[k] \in ToSet(Ledger)
                        /\ Ledger[k] = "root" <=> k = 1
                        /\ Ledger[k] = "objects" <=> k = 2
                        /\ Ledger[k] = "temporary" <=> k = 3
                        /\ Ledger[k] = "temporary/objects" <=> k = 4
                        /\ Ledger[k] = "temporary/restores" <=> k = 5
                        /\ Ledger[k] = "lock" <=> k = 7
                        /\ Ledger[k] = "db" <=> k = 8
                        /\ Ledger[k] = "journal" <=> k = 11
    /\ \A j, k \in 1..11 : Ledger[j] = Ledger[k] => j = k
    /\ \A p \in ToSet(Ledger) : \E k \in 1..11 : p = Ledger[k]
<1>1. \A k \in 1..11 :  /\ Ledger[k] \in ToSet(Ledger)
                        /\ Ledger[k] = "root" <=> k = 1
                        /\ Ledger[k] = "objects" <=> k = 2
                        /\ Ledger[k] = "temporary" <=> k = 3
                        /\ Ledger[k] = "temporary/objects" <=> k = 4
                        /\ Ledger[k] = "temporary/restores" <=> k = 5
                        /\ Ledger[k] = "lock" <=> k = 7
                        /\ Ledger[k] = "db" <=> k = 8
                        /\ Ledger[k] = "journal" <=> k = 11
  BY Records, Indices, LedgerSet
<1>2. \A j, k \in 1..11 : Ledger[j] = Ledger[k] => j = k
  BY Records, Indices
<1>3. \A p \in ToSet(Ledger) : \E k \in 1..11 : p = Ledger[k]
  BY Records, LedgerSet
<1>4. QED
  BY <1>1, <1>2, <1>3

\* The paths and their directories.
LEMMA Paths ==
    /\ Path = ToSet(Ledger) \cup {"keep"}
    /\ Path = {"root", "keep"} \cup Parts
    /\ Contents("root") = {"objects", "temporary", "logs", "lock", "db", "wal", "shm", "journal", "keep"}
    /\ Contents("temporary") = {"temporary/objects", "temporary/restores"}
    /\ \A p \in Path \ {"root", "temporary"} : Contents(p) = {}
    /\ \A p \in Path : Directory(p) \in {"root", "temporary"}
    /\ {"wal", "shm"} \cup ToSet(Layout) = Parts \ {"journal"}
<1>1. DOMAIN Layout = 1..7 /\ \A k \in 1..7 : k \in {1, 2, 3, 4, 5, 6, 7}
  BY DEF Layout
<1>2. ToSet(Layout) = {"objects", "temporary", "temporary/objects", "temporary/restores", "logs",
                       "lock", "db"}
  BY <1>1 DEF ToSet, Layout
<1>3. QED
  BY <1>2, LedgerSet, PartsSet DEF Path, Contents, Directory

\* A bounded set of numbers has a greatest one.
LEMMA Greatest ==
    ASSUME NEW S, S \subseteq 0..11, 0 \in S
    PROVE  Max(S) \in S /\ \A k \in S : k <= Max(S)
<1>1. \A k \in S : k \in {0, 1, 2, 3, 4, 5, 6, 7, 8, 9, 10, 11}
  OBVIOUS
<1>2. \E m \in S : \A k \in S : m >= k
  <2>1. CASE 11 \in S
    BY <1>1, <2>1
  <2>2. CASE 11 \notin S /\ 10 \in S
    BY <1>1, <2>2
  <2>3. CASE 11 \notin S /\ 10 \notin S /\ 9 \in S
    BY <1>1, <2>3
  <2>4. CASE S \cap {9, 10, 11} = {} /\ 8 \in S
    BY <1>1, <2>4
  <2>5. CASE S \cap {8, 9, 10, 11} = {} /\ 7 \in S
    BY <1>1, <2>5
  <2>6. CASE S \cap {7, 8, 9, 10, 11} = {} /\ 6 \in S
    BY <1>1, <2>6
  <2>7. CASE S \cap {6, 7, 8, 9, 10, 11} = {} /\ 5 \in S
    BY <1>1, <2>7
  <2>8. CASE S \cap {5, 6, 7, 8, 9, 10, 11} = {} /\ 4 \in S
    BY <1>1, <2>8
  <2>9. CASE S \cap {4, 5, 6, 7, 8, 9, 10, 11} = {} /\ 3 \in S
    BY <1>1, <2>9
  <2>10. CASE S \cap {3, 4, 5, 6, 7, 8, 9, 10, 11} = {} /\ 2 \in S
    BY <1>1, <2>10
  <2>11. CASE S \cap {2, 3, 4, 5, 6, 7, 8, 9, 10, 11} = {} /\ 1 \in S
    BY <1>1, <2>11
  <2>12. CASE S \cap {1, 2, 3, 4, 5, 6, 7, 8, 9, 10, 11} = {}
    BY <1>1, <2>12
  <2>13. QED
    BY <2>1, <2>2, <2>3, <2>4, <2>5, <2>6, <2>7, <2>8, <2>9, <2>10, <2>11, <2>12
<1>3. Max(S) \in S /\ \A k \in S : Max(S) >= k
  BY <1>2 DEF Max
<1>4. QED
  BY <1>3

\* What cleanup comes to next, and that it leaves out only what it protects.
LEMMA NextRecordFound ==
    ASSUME NEW r, NEW below \in 1..12
    PROVE  LET k == NextRecord(r, below)
               due(j) == Ledger[j] \in r.made /\ ~(r.locked /\ Ledger[j] \in Protected)
           IN /\ k \in 0..(below - 1)
              /\ k # 0 => k \in 1..11 /\ due(k)
              /\ \A j \in (k + 1)..(below - 1) : ~due(j)
<1> DEFINE due(j) == Ledger[j] \in r.made /\ ~(r.locked /\ Ledger[j] \in Protected)
           S == {0} \cup {j \in 1..(below - 1) : due(j)}
           k == NextRecord(r, below)
<1>1. k = Max(S)
  BY DEF NextRecord
<1>2. S \subseteq 0..11 /\ 0 \in S
  OBVIOUS
<1> HIDE DEF S, k
<1>3. k \in S /\ \A j \in S : j <= k
  BY <1>1, <1>2, Greatest
<1>4. k \in 0..(below - 1) /\ (k # 0 => k \in 1..11 /\ due(k))
  BY <1>3 DEF S
<1>5. \A j \in (k + 1)..(below - 1) : ~due(j)
  BY <1>3, <1>4 DEF S
<1>6. QED
  BY <1>4, <1>5 DEF k

-----------------------------------------------------------------------------
(* Who owns what *)

LEMMA Names ==
    /\ Nobody \notin Creator /\ Nobody \notin Opener /\ User \notin Creator /\ User \notin Opener
    /\ Nobody # User /\ \A c \in Creator, o \in Opener : c # o
  BY ProcessAssumption

\* A creator's own record changes.
LEMMA OneCreator ==
    ASSUME IndInv, NEW c \in Creator, NEW r, creator' = [creator EXCEPT ![c] = r]
    PROVE  creator'[c] = r /\ \A d \in Creator \ {c} : creator'[d] = creator[d]
  BY DEF IndInv, TypeOK

\* What is listed in nobody's ledger any more, or not yet, may change.
LEMMA Owned ==
    ASSUME IndInv, NEW c \in Creator, NEW p \in creator[c].made, p # "journal"
    PROVE  /\ fs[p] = c /\ Exists(p)
           /\ \A d \in Creator \ {c} : p \notin creator[d].made
  BY Names DEF IndInv, OwnerInv, Exists

\* Whoever has all parts has the whole repository, under its root.
LEMMA PartsAreWhole ==
    ASSUME IndInv, NEW c \in Creator, Parts \subseteq creator[c].made
    PROVE  Whole(c) /\ Exists("root") /\ fs["db"] = c /\ fs["lock"] = c /\ fs["objects"] = c
           /\ \A p \in Parts \ {"journal"} : Exists(p)
<1>1. \A p \in Parts \ {"journal"} : fs[p] = c /\ Exists(p)
  BY Owned
<1>2. {"objects", "db", "lock"} \subseteq Parts \ {"journal"}
  BY PartsSet, LedgerSet
<1>3. Exists("root")
  BY <1>1, <1>2, Paths DEF IndInv, OwnerInv, Directory
<1>4. Whole(c)
  BY <1>1, Paths DEF Whole
<1>5. QED
  BY <1>1, <1>2, <1>3, <1>4

\* With nothing failed and nobody else in the way, whoever has a part is ahead.
LEMMA PartsAreAhead ==
    ASSUME IndInv, Undisturbed, NEW p \in Parts, Exists(p)
    PROVE  /\ fs[p] \in Creator /\ fs["objects"] = fs[p] /\ "objects" \in creator[fs[p]].made
           /\ Ahead(fs[p]) /\ Exists("objects") /\ Exists("root")
<1> DEFINE d == fs[p]
<1>1. d \in Creator /\ p \in creator[d].made /\ p # "root" /\ p \in Path
  BY Paths, PartsSet DEF IndInv, OwnerInv, Undisturbed, Exists
<1>2. ~Lost(d)
  BY <1>1 DEF IndInv, HopeInv
<1>3. LedgerOK(creator[d]) /\ creator[d].pc \in Label
  BY <1>1 DEF IndInv, LedgerInv, TypeOK, CreatorState
<1>4. "objects" \in creator[d].made
  <2>1. CASE creator[d].pc \in {"create", "acquire"}
    <3>1. p \in MadeBelow(creator[d].i) /\ creator[d].i \in 1..11
      BY <1>1, <1>3, <2>1, Records DEF LedgerOK
    <3>2. 2 \in 2..(creator[d].i - 1)
      BY <3>1 DEF MadeBelow
    <3>3. "objects" \in MadeBelow(creator[d].i)
      BY <3>2, Records DEF MadeBelow
    <3>4. QED
      BY <1>3, <2>1, <3>3 DEF LedgerOK
  <2>2. CASE creator[d].pc \in {"migrate", "insert"} \cup WithRow
    BY <1>3, <2>2, PartsSet, LedgerSet DEF LedgerOK
  <2>3. CASE creator[d].pc \in Before \cup {"validate", "chmod"}
    BY <1>1, <1>3, <2>3 DEF LedgerOK
  <2>4. QED
    BY <1>2, <1>3, <2>1, <2>2, <2>3 DEF Label, Ended, Lost, LostAt, Before, WithRow
<1>5. fs["objects"] = d /\ Exists("objects")
  BY <1>1, <1>4, Owned
<1>6. Exists("root")
  BY <1>5, Paths, LedgerSet DEF IndInv, OwnerInv, Directory
<1>7. QED
  BY <1>1, <1>2, <1>4, <1>5, <1>6 DEF Ahead

-----------------------------------------------------------------------------
(* Steps that change a creator's own record only *)

\* What such a step has to keep for the creators' hope.
LEMMA LocalHope ==
    ASSUME IndInv, NEW c \in Creator, NEW r, creator' = [creator EXCEPT ![c] = r],
           UNCHANGED <<fs, row>>, faults' = 0 => faults = 0,
           r.made = creator[c].made, LookedOK(r), Lost(c) => r.pc \in LostAt,
           Undisturbed /\ faults' = 0 => RootOK(r),
           Undisturbed /\ faults' = 0 /\ ~Lost(c) /\ r.pc \in LostAt =>
               /\ r.made \subseteq {"root"} /\ c \notin row
               /\ r.made # {} => Exists("objects")
               /\ \E d \in Creator \ {c} : Ahead(d)
    PROVE  HopeInv'
<1>1. creator'[c] = r /\ \A d \in Creator \ {c} : creator'[d] = creator[d]
  BY OneCreator
<1>2. \A p \in Path : Exists(p)' = Exists(p)
  BY DEF Exists
<1>3. Undisturbed' => Undisturbed /\ faults' = 0
  BY DEF Undisturbed
<1>4. ASSUME NEW d \in Creator
      PROVE  LookedOK(creator[d])' /\ (Undisturbed' => RootOK(creator[d])')
  <2>1. LookedOK(creator[d])'
    BY <1>1 DEF IndInv, HopeInv, LookedOK
  <2>2. Undisturbed' => RootOK(creator[d])'
    BY <1>1, <1>3 DEF IndInv, HopeInv, RootOK, Exists
  <2>3. QED
    BY <2>1, <2>2
<1>5. ASSUME NEW d \in Creator, Undisturbed', Lost(d)'
      PROVE  /\ creator'[d].made \subseteq {"root"} /\ d \notin row'
             /\ creator'[d].made # {} => Exists("objects")'
             /\ \E e \in Creator : Ahead(e)'
  <2>1. Undisturbed /\ faults' = 0
    BY <1>3, <1>5
  <2>2. Exists("objects")' = Exists("objects")
    BY DEF Exists
  <2>3. CASE ~Lost(c) /\ r.pc \in LostAt
    <3>1. PICK e \in Creator \ {c} : Ahead(e)
      BY <2>1, <2>3
    <3>2. Ahead(e)'
      BY <1>1, <3>1 DEF Ahead, Lost
    <3>3. CASE d = c
      BY <1>1, <2>1, <2>2, <2>3, <3>2, <3>3
    <3>4. CASE d # c
      BY <1>1, <1>5, <2>1, <2>2, <3>2, <3>4 DEF IndInv, HopeInv, Lost
    <3>5. QED
      BY <3>3, <3>4
  <2>4. CASE ~(~Lost(c) /\ r.pc \in LostAt)
    <3>1. Lost(d)
      BY <1>1, <1>5, <2>4 DEF Lost
    <3>2. PICK e \in Creator : Ahead(e)
      BY <2>1, <3>1 DEF IndInv, HopeInv
    <3>3. Ahead(e)'
      BY <1>1, <2>4, <3>2 DEF Ahead, Lost
    <3>4. creator'[d].made = creator[d].made
      BY <1>1
    <3>5. QED
      BY <2>1, <2>2, <3>1, <3>3, <3>4 DEF IndInv, HopeInv
  <2>5. QED
    BY <2>3, <2>4
<1>6. QED
  BY <1>4, <1>5 DEF HopeInv

\* The others' records stay as they are.
LEMMA RecordsKept ==
    ASSUME IndInv, NEW c \in Creator, NEW r, creator'[c] = r,
           \A d \in Creator \ {c} : creator'[d] = creator[d], LedgerOK(r), CleanedOK(r)
    PROVE  LedgerInv' /\ CleanedInv'
<1>1. LedgerInv'
  BY DEF IndInv, LedgerInv, LedgerOK
<1>2. CleanedInv'
  BY DEF IndInv, CleanedInv, CleanedOK
<1>3. QED
  BY <1>1, <1>2

\* The rest is about the record itself, and the locks.
LEMMA RecordInv ==
    ASSUME IndInv, NEW c \in Creator, NEW r \in CreatorState,
           creator' = [creator EXCEPT ![c] = r],
           UNCHANGED <<fs, row, opener>>, mode' \in {"shared", "private"},
           flock' \in [Creator \cup Opener -> Creator \cup Opener \cup {Nobody}],
           faults' \in 0..MaxFaults, r.made = creator[c].made,
           LedgerOK(r), CleanedOK(r), RowOK(c, r), LockInv', HopeInv'
    PROVE  IndInv'
<1>1. creator'[c] = r /\ \A d \in Creator \ {c} : creator'[d] = creator[d]
  BY OneCreator
<1>2. \A d \in Creator : creator'[d].made = creator[d].made
  BY <1>1
<1>3. TypeOK'
  BY DEF IndInv, TypeOK
<1>4. OwnerInv'
  BY <1>2 DEF IndInv, OwnerInv, Exists
<1>5. LedgerInv'
  BY <1>1 DEF IndInv, LedgerInv, LedgerOK
<1>6. RowInv'
  BY <1>1 DEF IndInv, RowInv, RowOK
<1>7. CleanedInv'
  BY <1>1 DEF IndInv, CleanedInv, CleanedOK
<1>8. QED
  BY <1>3, <1>4, <1>5, <1>6, <1>7 DEF IndInv

LEMMA LocalInv ==
    ASSUME IndInv, NEW c \in Creator, NEW r \in CreatorState,
           creator' = [creator EXCEPT ![c] = r],
           UNCHANGED <<fs, flock, row, opener>>, mode' \in {"shared", "private"},
           faults' \in 0..MaxFaults,
           r.made = creator[c].made, r.locked = creator[c].locked,
           LedgerOK(r), CleanedOK(r), RowOK(c, r), HopeInv'
    PROVE  IndInv'
<1>1. \A d \in Creator : creator'[d].made = creator[d].made /\ creator'[d].locked = creator[d].locked
  BY OneCreator
<1>2. LockInv'
  BY <1>1 DEF IndInv, LockInv
<1>3. flock' \in [Creator \cup Opener -> Creator \cup Opener \cup {Nobody}]
  BY DEF IndInv, TypeOK
<1>4. QED
  BY <1>2, <1>3, RecordInv

\* What is known of a creator.
LEMMA Known ==
    ASSUME IndInv, NEW c \in Creator
    PROVE  /\ creator[c] \in CreatorState /\ LedgerOK(creator[c]) /\ CleanedOK(creator[c])
           /\ RowOK(c, creator[c]) /\ LookedOK(creator[c])
           /\ Undisturbed => RootOK(creator[c])
           /\ mode \in {"shared", "private"} /\ faults \in 0..MaxFaults
  BY DEF IndInv, TypeOK, LedgerInv, CleanedInv, RowInv, HopeInv

LEMMA Moved ==
    ASSUME NEW r \in CreatorState, NEW l \in Label, NEW i \in 0..12
    PROVE  [r EXCEPT !.pc = l] \in CreatorState /\ [r EXCEPT !.pc = l, !.i = i] \in CreatorState
<1>1. 0..(Len(Ledger) + 1) = 0..12
  BY Records
<1>2. QED
  BY <1>1 DEF CreatorState

\* The checks before anything is made; a refusal means that another creator has
\* made something.
LEMMA LookAtRootInv ==
    ASSUME IndInv, NEW c \in Creator, LookAtRoot(c)
    PROVE  IndInv'
<1> DEFINE r == [creator[c] EXCEPT !.existed = Exists("root"),
                                   !.pc = IF Exists("root") THEN "inspect" ELSE "reserved"]
<1> USE DEF LookAtRoot, At, OnlyCreators
<1>1. /\ creator' = [creator EXCEPT ![c] = r] /\ creator[c].pc = "look"
      /\ creator[c] \in CreatorState
  BY Known DEF CreatorState
<1>2. r \in CreatorState
  BY <1>1 DEF CreatorState, Label, Exists
<1>3. r.made = creator[c].made /\ r.locked = creator[c].locked /\ r.i = creator[c].i
      /\ r.stuck = creator[c].stuck /\ r.existed = Exists("root")
      /\ r.original = creator[c].original /\ r.changed = creator[c].changed
      /\ r.pc = IF Exists("root") THEN "inspect" ELSE "reserved"
  BY <1>1 DEF CreatorState
<1> HIDE DEF r
<1>4. LedgerOK(r) /\ CleanedOK(r) /\ RowOK(c, r)
  BY <1>1, <1>3, Known, Records DEF LedgerOK, CleanedOK, RowOK, Before, WithRow, Ended
<1>5. LookedOK(r) /\ RootOK(r)
  BY <1>3, Known, Names DEF LookedOK, RootOK, Exists, Ended
<1>6. HopeInv'
  BY <1>1, <1>3, <1>5, LocalHope DEF LostAt, Lost
<1>7. QED
  BY <1>1, <1>2, <1>3, <1>4, <1>6, Known, LocalInv

LEMMA InspectRootInv ==
    ASSUME IndInv, NEW c \in Creator, InspectRoot(c)
    PROVE  IndInv'
<1> DEFINE r == [creator[c] EXCEPT !.original = mode,
                                   !.pc = IF Exists("root") THEN "empty" ELSE "refused"]
<1> USE DEF InspectRoot, At, OnlyCreators
<1>1. /\ creator' = [creator EXCEPT ![c] = r] /\ creator[c].pc = "inspect"
      /\ creator[c] \in CreatorState
  BY Known DEF CreatorState
<1>2. r \in CreatorState
  BY <1>1, Known DEF CreatorState, Label, Ended
<1>3. r.made = creator[c].made /\ r.locked = creator[c].locked /\ r.i = creator[c].i
      /\ r.stuck = creator[c].stuck /\ r.existed = creator[c].existed
      /\ r.original = mode /\ r.changed = creator[c].changed
      /\ r.pc = IF Exists("root") THEN "empty" ELSE "refused"
  BY <1>1 DEF CreatorState
<1> HIDE DEF r
<1>4. LedgerOK(r) /\ CleanedOK(r) /\ RowOK(c, r)
  BY <1>1, <1>3, Known DEF LedgerOK, CleanedOK, RowOK, Before, WithRow, Ended
<1>5. LookedOK(r)
  BY <1>1, <1>3, Known DEF LookedOK, Ended
<1>6. Undisturbed => Exists("root")
  BY <1>1, Known DEF LookedOK, RootOK, Ended
<1>7. HopeInv'
  BY <1>1, <1>3, <1>5, <1>6, LocalHope DEF LostAt, Lost, RootOK
<1>8. QED
  BY <1>1, <1>2, <1>3, <1>4, <1>7, Known, LocalInv

LEMMA CheckEmptyInv ==
    ASSUME IndInv, NEW c \in Creator, CheckEmpty(c)
    PROVE  IndInv'
<1> DEFINE passed == /\ Exists("root")
                     /\ creator[c].allow \/ \A p \in Contents("root") : ~Exists(p)
           r == [creator[c] EXCEPT !.pc = IF passed THEN "reserved" ELSE "refused"]
<1> USE DEF CheckEmpty, At, OnlyCreators, Goes
<1>1. /\ creator' = [creator EXCEPT ![c] = r] /\ creator[c].pc = "empty"
      /\ creator[c] \in CreatorState
  BY Known DEF CreatorState
<1>2. r \in CreatorState
  BY <1>1, Known DEF CreatorState, Label, Ended
<1>3. r.made = creator[c].made /\ r.locked = creator[c].locked /\ r.i = creator[c].i
      /\ r.stuck = creator[c].stuck /\ r.existed = creator[c].existed
      /\ r.original = creator[c].original /\ r.changed = creator[c].changed
      /\ r.pc = IF passed THEN "reserved" ELSE "refused"
  BY <1>1 DEF CreatorState
<1> HIDE DEF r
<1>4. LedgerOK(r) /\ CleanedOK(r) /\ RowOK(c, r)
  BY <1>1, <1>3, Known, Records DEF LedgerOK, CleanedOK, RowOK, Before, WithRow, Ended
<1>5. LookedOK(r) /\ (Undisturbed => RootOK(r)) /\ (Undisturbed => Exists("root"))
  BY <1>1, <1>3, Known DEF LookedOK, RootOK, Ended
<1>6. creator[c].made = {} /\ c \notin row
  BY <1>1, Known DEF LedgerOK, RowOK, Before, WithRow
<1>7. Undisturbed /\ ~passed => \E d \in Creator \ {c} : Ahead(d)
  <2> SUFFICES ASSUME Undisturbed, ~passed PROVE \E d \in Creator \ {c} : Ahead(d)
    OBVIOUS
  <2>1. PICK p \in Contents("root") : Exists(p)
    BY <1>5
  <2>2. p \in Parts
    <3>1. p \in Path /\ p # "root" /\ fs["keep"] \notin Creator
      BY <1>6, LedgerSet, Paths DEF IndInv, OwnerInv, LedgerInv, LedgerOK, Contents
    <3>2. p # "keep"
      BY <2>1, <3>1, Paths, Names DEF Undisturbed, Exists
    <3>3. QED
      BY <3>1, <3>2, Paths
  <2>3. fs[p] \in Creator /\ Ahead(fs[p]) /\ "objects" \in creator[fs[p]].made
    BY <2>1, <2>2, PartsAreAhead
  <2>4. QED
    BY <1>6, <2>3
<1>8. HopeInv'
  BY <1>1, <1>3, <1>5, <1>6, <1>7, LocalHope DEF LostAt, Lost
<1>9. QED
  BY <1>1, <1>2, <1>3, <1>4, <1>8, Known, LocalInv

LEMMA CheckReservedInv ==
    ASSUME IndInv, NEW c \in Creator, CheckReserved(c)
    PROVE  IndInv'
<1> DEFINE p == Reserved[creator[c].i]
           last == creator[c].i = 8
           r == IF Exists(p) THEN [creator[c] EXCEPT !.pc = "refused"]
                ELSE IF last THEN [creator[c] EXCEPT !.pc = "missing"]
                ELSE [creator[c] EXCEPT !.pc = "reserved", !.i = creator[c].i + 1]
<1> USE DEF CheckReserved, At, OnlyCreators, Goes, GoesAt
<1>1. /\ creator' = [creator EXCEPT ![c] = r] /\ creator[c].pc = "reserved"
      /\ creator[c] \in CreatorState
  BY Known, Records DEF CreatorState
<1>2. creator[c].i \in 1..8 /\ creator[c].made = {} /\ ~creator[c].locked /\ c \notin row
  BY <1>1, Known, Records DEF LedgerOK, RowOK, Before, WithRow
<1>3. r \in CreatorState
  <2>1. {"refused", "missing", "reserved"} \subseteq Label /\ creator[c].i + 1 \in 0..12
    BY <1>2 DEF Label, Ended
  <2>2. QED
    BY <1>1, <1>2, <2>1, Moved
<1>4. /\ r.made = {} /\ ~r.locked /\ r.locked = creator[c].locked
      /\ r.existed = creator[c].existed
      /\ r.original = creator[c].original /\ r.changed = creator[c].changed
      /\ r.pc \in {"refused", "missing", "reserved"}
      /\ r.pc = "reserved" => r.i \in 1..8
      /\ r.pc = "refused" => Exists(p)
  BY <1>1, <1>2 DEF CreatorState
<1> HIDE DEF r
<1>5. LedgerOK(r) /\ CleanedOK(r) /\ RowOK(c, r)
  BY <1>2, <1>4, Records DEF LedgerOK, CleanedOK, RowOK, Before, WithRow, Ended
<1>6. LookedOK(r) /\ (Undisturbed => RootOK(r))
  BY <1>1, <1>4, Known DEF LookedOK, RootOK, Ended
<1>7. p \in Parts
  BY <1>2, PartsSet, LedgerSet DEF Reserved
<1>8. Undisturbed /\ Exists(p) => \E d \in Creator \ {c} : Ahead(d)
  BY <1>2, <1>7, PartsAreAhead
<1>9. HopeInv'
  BY <1>1, <1>2, <1>4, <1>6, <1>8, LocalHope DEF LostAt, Lost
<1>10. QED
  BY <1>1, <1>2, <1>3, <1>4, <1>5, <1>9, Known, LocalInv

LEMMA FindMissingInv ==
    ASSUME IndInv, NEW c \in Creator, FindMissing(c)
    PROVE  IndInv'
<1> DEFINE r == IF creator[c].existed \/ Exists("root") THEN [creator[c] EXCEPT !.pc = "validate"]
                ELSE [creator[c] EXCEPT !.pc = "create", !.i = 1]
<1> USE DEF FindMissing, At, OnlyCreators, Goes, GoesAt
<1>1. /\ creator' = [creator EXCEPT ![c] = r] /\ creator[c].pc = "missing"
      /\ creator[c] \in CreatorState
  BY Known DEF CreatorState
<1>2. creator[c].made = {} /\ ~creator[c].locked /\ c \notin row
  BY <1>1, Known DEF LedgerOK, RowOK, Before, WithRow
<1>3. r \in CreatorState
  <2>1. "create" \in Label /\ "validate" \in Label /\ 1 \in 0..12
    BY DEF Label
  <2>2. /\ [creator[c] EXCEPT !.pc = "validate"] \in CreatorState
        /\ [creator[c] EXCEPT !.pc = "create", !.i = 1] \in CreatorState
    BY <1>1, <2>1, Moved
  <2>3. QED
    BY <2>2
<1>4. /\ r.made = {} /\ ~r.locked /\ r.locked = creator[c].locked
      /\ r.existed = creator[c].existed
      /\ r.original = creator[c].original /\ r.changed = creator[c].changed
      /\ \/ r.pc = "validate" /\ (r.existed \/ Exists("root"))
         \/ r.pc = "create" /\ r.i = 1 /\ ~Exists("root")
  BY <1>1, <1>2 DEF CreatorState
<1> HIDE DEF r
<1>5. LedgerOK(r) /\ CleanedOK(r) /\ RowOK(c, r)
  <2>1. MadeBelow(1) = {}
    BY DEF MadeBelow
  <2>2. QED
    BY <1>2, <1>4, <2>1, Records DEF LedgerOK, CleanedOK, RowOK, Before, WithRow, Ended
<1>6. LookedOK(r) /\ (Undisturbed => RootOK(r))
  BY <1>1, <1>4, Known, Names DEF LookedOK, RootOK, Exists, Ended
<1>7. HopeInv'
  BY <1>1, <1>2, <1>4, <1>6, LocalHope DEF LostAt, Lost
<1>8. QED
  BY <1>1, <1>2, <1>3, <1>4, <1>5, <1>7, Known, LocalInv

-----------------------------------------------------------------------------
(* Giving up *)

Making == {"create", "validate", "chmod", "acquire", "migrate", "insert", "checkpoint", "check"}

\* Where cleanup begins.
LEMMA StartsCleanup ==
    ASSUME NEW r \in CreatorState, LedgerOK(r)
    PROVE  LET s == StartCleanup(r)
           IN /\ s \in CreatorState /\ s.pc \in {"clean", "unlock"}
              /\ s.made = r.made /\ s.locked = r.locked /\ s.existed = r.existed
              /\ s.original = r.original /\ s.changed = r.changed
              /\ s.stuck = r.stuck
              /\ LedgerOK(s) /\ CleanedOK(s)
<1> DEFINE k == NextRecord(r, 12)
           s == StartCleanup(r)
<1>1. /\ k \in 0..11
      /\ k # 0 => k \in 1..11 /\ Ledger[k] \in r.made /\ ~(r.locked /\ Ledger[k] \in Protected)
      /\ \A j \in (k + 1)..11 : Ledger[j] \in r.made => r.locked /\ Ledger[j] \in Protected
  BY NextRecordFound
<1>2. s = [r EXCEPT !.pc = IF k = 0 THEN "unlock" ELSE "clean", !.i = k]
  BY Records DEF StartCleanup
<1> HIDE DEF k, s
<1>3. s \in CreatorState
  <2>1. {"clean", "unlock"} \subseteq Label /\ k \in 0..12
    BY <1>1 DEF Label
  <2>2. QED
    BY <1>2, <2>1, Moved
<1>4. /\ s.pc = IF k = 0 THEN "unlock" ELSE "clean"
      /\ s.i = k /\ s.made = r.made /\ s.locked = r.locked /\ s.existed = r.existed
      /\ s.original = r.original /\ s.changed = r.changed
      /\ s.stuck = r.stuck
  BY <1>2 DEF CreatorState
<1>5. r.made \subseteq ToSet(Ledger)
  BY DEF LedgerOK
<1>6. LedgerOK(s)
  BY <1>1, <1>4, <1>5, Records DEF LedgerOK, Before, WithRow, Ended
<1>7. CleanedOK(s)
  <2>1. k = 0 => s.made \subseteq {"root", "lock"}
    <3> SUFFICES ASSUME k = 0, NEW p \in r.made PROVE p \in {"root", "lock"}
      BY <1>4
    <3>1. PICK j \in 1..11 : p = Ledger[j]
      BY <1>5, Numbers
    <3>2. QED
      BY <1>1, <3>1 DEF Protected
  <2>2. k # 0 => \A j \in (s.i + 1)..Len(Ledger) :
                     Ledger[j] \in s.made => s.locked /\ Ledger[j] \in Protected
    BY <1>1, <1>4, Records
  <2>3. QED
    BY <1>4, <2>1, <2>2 DEF CleanedOK
<1>8. QED
  BY <1>3, <1>4, <1>6, <1>7 DEF s

\* A creator gives up: after a fault, or because another one is ahead.
LEMMA CleansInv ==
    ASSUME IndInv, NEW c \in Creator, Cleans(c), creator[c].pc \in Making,
           UNCHANGED <<fs, flock, row, opener>>, mode' \in {"shared", "private"},
           faults' \in 0..MaxFaults, faults' = 0 => faults = 0,
           Undisturbed /\ faults' = 0 =>
               /\ creator[c].made \subseteq {"root"} /\ c \notin row
               /\ creator[c].made # {} => Exists("objects")
               /\ \E d \in Creator \ {c} : Ahead(d)
    PROVE  IndInv'
<1> DEFINE r == StartCleanup(creator[c])
<1>1. creator' = [creator EXCEPT ![c] = r]
  BY DEF Cleans
<1>2. /\ r \in CreatorState /\ r.pc \in {"clean", "unlock"}
      /\ r.made = creator[c].made /\ r.locked = creator[c].locked /\ r.existed = creator[c].existed
      /\ r.original = creator[c].original /\ r.changed = creator[c].changed
      /\ LedgerOK(r) /\ CleanedOK(r)
  BY Known, StartsCleanup
<1> HIDE DEF r
<1>3. RowOK(c, r)
  BY <1>2, Known DEF RowOK, Making, WithRow, LedgerOK
<1>4. LookedOK(r) /\ (Undisturbed => RootOK(r))
  BY <1>2, Known DEF LookedOK, RootOK, Ended, Making
<1>5. HopeInv'
  BY <1>1, <1>2, <1>4, LocalHope DEF Lost, LostAt, Making
<1>6. QED
  BY <1>1, <1>2, <1>3, <1>5, LocalInv

-----------------------------------------------------------------------------
(* create(): the steps that make nothing *)

\* A step to another label that neither gains nor loses anything.
LEMMA GoesInv ==
    ASSUME IndInv, NEW c \in Creator, NEW l \in Label, Goes(c, l),
           UNCHANGED <<fs, flock, row, opener>>, mode' \in {"shared", "private"},
           faults' \in 0..MaxFaults, faults' = 0 => faults = 0,
           \/ creator[c].pc = "validate" /\ l = "chmod" /\ Exists("root")
           \/ creator[c].pc = "checkpoint" /\ l = "check"
           \/ creator[c].pc = "check" /\ l = "published"
           \/ creator[c].pc = "final" /\ l \in {"returned", "unconfirmed"}
           \/ creator[c].pc = "restore" /\ l = "failed"
           \/ creator[c].pc \in Before /\ l = "refused" /\ faults' # 0
    PROVE  IndInv'
<1> DEFINE r == [creator[c] EXCEPT !.pc = l]
<1>1. creator' = [creator EXCEPT ![c] = r] /\ creator[c] \in CreatorState
  BY Known DEF Goes
<1>2. r \in CreatorState
  BY <1>1 DEF CreatorState
<1>3. /\ r.made = creator[c].made /\ r.locked = creator[c].locked /\ r.existed = creator[c].existed
      /\ r.original = creator[c].original /\ r.changed = creator[c].changed
      /\ r.stuck = creator[c].stuck /\ r.i = creator[c].i /\ r.pc = l
  BY <1>1 DEF CreatorState
<1> HIDE DEF r
<1>4. LedgerOK(r)
  BY <1>3, Known DEF LedgerOK, Before, WithRow, Ended
<1>5. CleanedOK(r)
  BY <1>3, Known DEF CleanedOK, Before
<1>6. RowOK(c, r)
  BY <1>3, Known DEF RowOK, Before, WithRow
<1>7. LookedOK(r) /\ (Undisturbed => RootOK(r))
  BY <1>3, Known DEF LookedOK, RootOK, Before, Ended
<1>8. HopeInv'
  BY <1>1, <1>3, <1>7, LocalHope DEF Lost, LostAt, Before
<1>9. QED
  BY <1>1, <1>2, <1>3, <1>4, <1>5, <1>6, <1>8, LocalInv

LEMMA ValidateRootInv ==
    ASSUME IndInv, NEW c \in Creator, ValidateRoot(c)
    PROVE  IndInv'
<1> USE DEF ValidateRoot, At, OnlyCreators
<1>1. CASE Exists("root")
  <2>1. "chmod" \in Label
    BY DEF Label
  <2>2. QED
    BY <1>1, <2>1, Known, GoesInv
<1>2. CASE ~Exists("root")
  <2>1. ~Undisturbed
    BY <1>2, Known DEF RootOK
  <2>2. QED
    BY <1>2, <2>1, Known, CleansInv DEF Making
<1>3. QED
  BY <1>1, <1>2

LEMMA RestrictRootInv ==
    ASSUME IndInv, NEW c \in Creator, RestrictRoot(c)
    PROVE  IndInv'
<1> USE DEF RestrictRoot, At
<1>1. CASE Exists("root")
  <2> DEFINE r == [creator[c] EXCEPT !.changed = creator[c].existed, !.pc = "create", !.i = 2]
  <2>1. creator' = [creator EXCEPT ![c] = r] /\ creator[c] \in CreatorState
    BY <1>1, Known
  <2>2. r \in CreatorState
    <3>1. 2 \in 0..(Len(Ledger) + 1) /\ "create" \in Label
      BY Records DEF Label
    <3>2. QED
      BY <2>1, <3>1 DEF CreatorState
  <2>3. /\ r.made = creator[c].made /\ r.locked = creator[c].locked /\ r.existed = creator[c].existed
        /\ r.original = creator[c].original /\ r.changed = creator[c].existed
        /\ r.i = 2 /\ r.pc = "create"
    BY <2>1 DEF CreatorState
  <2> HIDE DEF r
  <2>4. creator[c].made \subseteq {"root"} /\ ~creator[c].locked /\ c \notin row
    BY Known DEF LedgerOK, RowOK, WithRow
  <2>5. LedgerOK(r)
    <3>1. MadeBelow(2) = {}
      BY DEF MadeBelow
    <3>2. "root" \in ToSet(Ledger)
      BY LedgerSet
    <3>3. QED
      BY <2>3, <2>4, <3>1, <3>2, Records DEF LedgerOK, Before, WithRow, Ended
  <2>6. CleanedOK(r) /\ RowOK(c, r) /\ LookedOK(r) /\ RootOK(r)
    BY <1>1, <2>3, <2>4, Known DEF CleanedOK, RowOK, LookedOK, RootOK, WithRow, Ended
  <2>7. HopeInv'
    BY <2>1, <2>3, <2>6, LocalHope DEF Lost, LostAt
  <2>8. QED
    BY <1>1, <2>1, <2>2, <2>3, <2>5, <2>6, <2>7, Known, LocalInv
<1>2. CASE ~Exists("root")
  <2>1. ~Undisturbed
    BY <1>2, Known DEF RootOK
  <2>2. QED
    BY <1>2, <2>1, Known, CleansInv DEF Making
<1>3. QED
  BY <1>1, <1>2

LEMMA CheckpointInv ==
    ASSUME IndInv, NEW c \in Creator, Checkpoint(c)
    PROVE  IndInv'
<1>1. "check" \in Label
  BY DEF Label
<1>2. QED
  BY <1>1, Known, GoesInv DEF Checkpoint, At, OnlyCreators

\* The check under the lock finds what the creator itself has made.
LEMMA ValidateLockedInv ==
    ASSUME IndInv, NEW c \in Creator, ValidateLocked(c)
    PROVE  IndInv'
<1> USE DEF ValidateLocked, At, OnlyCreators
<1>1. Parts \subseteq creator[c].made /\ c \in row
  BY Known DEF LedgerOK, RowOK, WithRow
<1>2. Openable
  BY <1>1, PartsAreWhole, Paths DEF Openable
<1>3. "published" \in Label
  BY DEF Label
<1>4. QED
  BY <1>2, <1>3, Known, GoesInv

LEMMA CheckFinallyInv ==
    ASSUME IndInv, NEW c \in Creator, CheckFinally(c)
    PROVE  IndInv'
<1>1. PICK l \in {"returned", "unconfirmed"} : Goes(c, l)
  BY DEF CheckFinally
<1>2. l \in Label
  BY DEF Label, Ended
<1>3. QED
  BY <1>1, <1>2, Known, GoesInv DEF CheckFinally, At, OnlyCreators

LEMMA RestorePermissionsInv ==
    ASSUME IndInv, NEW c \in Creator, RestorePermissions(c)
    PROVE  IndInv'
<1>1. "failed" \in Label
  BY DEF Label, Ended
<1>2. creator[c].changed => creator[c].original \in {"shared", "private"}
  BY Known DEF LookedOK, CreatorState
<1>3. mode' \in {"shared", "private"}
  BY <1>2, Known DEF RestorePermissions
<1>4. QED
  BY <1>1, <1>3, Known, GoesInv DEF RestorePermissions, At

LEMMA ThrowInv ==
    ASSUME IndInv, NEW c \in Creator, Throw(c)
    PROVE  IndInv'
<1> USE DEF Throw, At
<1>1. faults' \in 0..MaxFaults /\ faults' # 0
  BY Known, FaultAssumption
<1>2. CASE creator[c].pc \in {"look", "inspect", "empty", "reserved", "missing"} /\ Goes(c, "refused")
  <2>1. "refused" \in Label /\ creator[c].pc \in Before
    BY <1>2 DEF Label, Ended, Before
  <2>2. QED
    BY <1>1, <1>2, <2>1, Known, GoesInv
<1>3. CASE creator[c].pc \in {"create", "validate", "chmod", "acquire", "migrate", "insert",
                              "checkpoint", "check"} /\ Cleans(c)
  BY <1>1, <1>3, Known, CleansInv DEF Making
<1>4. CASE creator[c].pc = "final" /\ Goes(c, "unconfirmed")
  <2>1. "unconfirmed" \in Label
    BY DEF Label, Ended
  <2>2. QED
    BY <1>1, <1>4, <2>1, Known, GoesInv
<1>5. QED
  BY <1>2, <1>3, <1>4

-----------------------------------------------------------------------------
(* create(): making the paths *)

\* A creator that makes paths has made all the earlier ones.
LEMMA AtCreate ==
    ASSUME IndInv, NEW c \in Creator, creator[c].pc = "create"
    PROVE  LET i == creator[c].i
           IN /\ i \in 1..11 /\ creator[c].made \ {"root"} = MadeBelow(i)
              /\ i = 1 => creator[c].made = {}
              /\ creator[c].locked <=> i > 7
              /\ c \notin row
              /\ Ledger[i] \notin creator[c].made
              /\ \A k \in 2..(i - 1) : Ledger[k] \in creator[c].made
<1> DEFINE i == creator[c].i
<1>1. i \in 1..11 /\ creator[c].made \ {"root"} = MadeBelow(i) /\ (i = 1 => creator[c].made = {})
      /\ (creator[c].locked <=> i > 7) /\ c \notin row
  BY Known, Records DEF LedgerOK, RowOK, WithRow
<1>2. \A k \in 2..(i - 1) : Ledger[k] \in creator[c].made
  BY <1>1 DEF MadeBelow
<1>3. Ledger[i] \notin MadeBelow(i)
  BY <1>1, Numbers DEF MadeBelow
<1>4. Ledger[i] \notin creator[c].made
  BY <1>1, <1>3, Numbers
<1>5. QED
  BY <1>1, <1>2, <1>4

\* One more path is made.
LEMMA MadeOneMore ==
    ASSUME NEW i \in 1..11
    PROVE  /\ MadeBelow(i + 1) = (MadeBelow(i) \cup {Ledger[i]}) \ {"root"}
           /\ i = 11 => MadeBelow(i + 1) = Parts
<1>1. MadeBelow(i + 1) = (MadeBelow(i) \cup {Ledger[i]}) \ {"root"}
  <2>1. 2..((i + 1) - 1) = (2..(i - 1) \cup {i}) \ {1}
    OBVIOUS
  <2>2. \A k \in 2..i : k \in 1..11
    OBVIOUS
  <2>3. QED
    BY <2>1, <2>2, Numbers DEF MadeBelow
<1>2. MadeBelow(12) = Parts
  <2>1. MadeBelow(12) \subseteq Parts
    BY Numbers, PartsSet DEF MadeBelow
  <2>2. Parts \subseteq MadeBelow(12)
    BY Numbers, PartsSet DEF MadeBelow
  <2>3. QED
    BY <2>1, <2>2
<1>3. QED
  BY <1>1, <1>2

\* A path that cannot be made, with nothing failed and nobody else in the way, is
\* another creator's: that one is ahead.
LEMMA CannotMake ==
    ASSUME IndInv, NEW c \in Creator, creator[c].pc = "create", ~CanMake(Ledger[creator[c].i]),
           Undisturbed
    PROVE  /\ creator[c].made \subseteq {"root"} /\ c \notin row
           /\ creator[c].made # {} => Exists("objects")
           /\ \E d \in Creator \ {c} : Ahead(d)
<1> DEFINE i == creator[c].i
           p == Ledger[i]
<1>1. /\ i \in 1..11 /\ creator[c].made \ {"root"} = MadeBelow(i) /\ c \notin row
      /\ i = 1 => creator[c].made = {}
      /\ p \notin creator[c].made
      /\ \A k \in 2..(i - 1) : Ledger[k] \in creator[c].made
  BY AtCreate
<1>2. Exists(p) \/ (p # "root" /\ ~Exists(Directory(p)))
  BY DEF CanMake
<1>3. "objects" \in Parts
  BY PartsSet, LedgerSet
<1>4. CASE i = 1
  <2> DEFINE d == fs["root"]
  <2>1. p = "root" /\ Exists("root") /\ d # User
    BY <1>2, <1>4, Records, Known DEF LookedOK
  <2>2. d \in Creator /\ "root" \in creator[d].made
    BY <2>1, Paths DEF IndInv, TypeOK, OwnerInv, Exists
  <2>3. CASE Lost(d)
    <3>1. Exists("objects")
      BY <2>2, <2>3 DEF IndInv, HopeInv
    <3>2. fs["objects"] \in Creator /\ Ahead(fs["objects"]) /\ "objects" \in creator[fs["objects"]].made
      BY <1>3, <3>1, PartsAreAhead
    <3>3. QED
      BY <1>1, <1>4, <3>2
  <2>4. CASE ~Lost(d)
    BY <1>1, <1>4, <2>2, <2>4 DEF Ahead
  <2>5. QED
    BY <2>3, <2>4
<1>5. CASE i # 1
  <2>1. Exists("root") /\ p # "root" /\ p \in Parts
    BY <1>1, <1>5, Known, Numbers, PartsSet DEF RootOK
  <2>2. Exists(p)
    <3>1. CASE p \in {"temporary/objects", "temporary/restores"}
      <4>1. 3 \in 2..(i - 1)
        BY <1>1, <3>1, Numbers
      <4>2. "temporary" \in creator[c].made
        BY <1>1, <4>1, Records
      <4>3. QED
        BY <1>2, <3>1, <4>2, Owned DEF Directory
    <3>2. CASE p \notin {"temporary/objects", "temporary/restores"}
      BY <1>2, <2>1, <3>2 DEF Directory
    <3>3. QED
      BY <3>1, <3>2
  <2>3. /\ fs[p] \in Creator /\ fs["objects"] = fs[p] /\ Exists("objects")
        /\ "objects" \in creator[fs[p]].made /\ Ahead(fs[p])
    BY <2>1, <2>2, PartsAreAhead
  <2>4. fs[p] # c
    BY <1>1, <2>1, <2>2, Paths DEF IndInv, OwnerInv
  <2>5. i = 2
    <3> SUFFICES ASSUME i # 2 PROVE FALSE
      OBVIOUS
    <3>1. 2 \in 2..(i - 1)
      BY <1>1, <1>5
    <3>2. "objects" \in creator[c].made
      BY <1>1, <3>1, Records
    <3>3. QED
      BY <2>3, <2>4, <3>2, Owned
  <2>6. MadeBelow(2) = {}
    BY DEF MadeBelow
  <2>7. QED
    BY <1>1, <2>3, <2>4, <2>5, <2>6
<1>6. QED
  BY <1>4, <1>5

\* A path is made that was nobody's.
LEMMA MadePathInv ==
    ASSUME IndInv, NEW c \in Creator, MakePath(c), CanMake(Ledger[creator[c].i])
    PROVE  IndInv'
<1> DEFINE i == creator[c].i
           p == Ledger[i]
           r == [creator[c] EXCEPT !.made = @ \cup {p}, !.i = @ + 1, !.pc = AfterMaking(p)]
<1>1. /\ creator' = [creator EXCEPT ![c] = r] /\ creator[c].pc = "create"
      /\ fs' = [fs EXCEPT ![p] = c] /\ UNCHANGED <<flock, row, opener, faults>>
      /\ mode' = IF p = "root" THEN "shared" ELSE mode
      /\ creator[c] \in CreatorState
  BY Known DEF MakePath, At
<1>2. /\ i \in 1..11 /\ creator[c].made \ {"root"} = MadeBelow(i) /\ c \notin row
      /\ i = 1 => creator[c].made = {}
      /\ creator[c].locked <=> i > 7
      /\ \A k \in 2..(i - 1) : Ledger[k] \in creator[c].made
  BY <1>1, AtCreate
<1>3. p \in ToSet(Ledger) /\ p \in Path
  BY <1>2, Numbers, Paths
<1>4. /\ r.made = creator[c].made \cup {p} /\ r.i = i + 1 /\ r.pc = AfterMaking(p)
      /\ r.locked = creator[c].locked /\ r.existed = creator[c].existed
      /\ r.original = creator[c].original /\ r.changed = creator[c].changed
      /\ r.stuck = creator[c].stuck
  BY <1>1 DEF CreatorState
<1>5. r.pc = IF i = 1 THEN "validate" ELSE IF i = 7 THEN "acquire"
             ELSE IF i = 11 THEN "migrate" ELSE "create"
  BY <1>2, <1>4, Numbers DEF AfterMaking
<1>6. r \in CreatorState
  <2>1. i + 1 \in 0..(Len(Ledger) + 1) /\ AfterMaking(p) \in Label
    BY <1>2, <1>4, <1>5, Records DEF Label
  <2>2. QED
    BY <1>1, <1>3, <2>1 DEF CreatorState
<1> HIDE DEF r
<1>7. creator'[c] = r /\ \A d \in Creator \ {c} : creator'[d] = creator[d]
  BY <1>1, OneCreator
<1>8. /\ fs' \in [Path -> Creator \cup Opener \cup {Nobody, User}]
      /\ fs'[p] = c /\ \A q \in Path \ {p} : fs'[q] = fs[q]
      /\ fs[p] = Nobody /\ (p = "root" \/ Exists(Directory(p)))
  BY <1>1, <1>3 DEF IndInv, TypeOK, CanMake, Exists
<1>9. \A q \in Path : Exists(q) => Exists(q)'
  BY <1>8, Names DEF Exists
<1>10. TypeOK'
  BY <1>1, <1>6, <1>8, Known DEF IndInv, TypeOK
<1>11. OwnerInv'
  <2>1. \A q \in Path \ {"root"} : Exists(q)' => Exists(Directory(q))'
    <3>1. \A q \in Path : Directory(q) \in Path
      BY Paths, LedgerSet
    <3>2. QED
      BY <1>8, <1>9, <3>1 DEF IndInv, OwnerInv, Exists
  <2>2. \A d \in Creator : \A q \in creator'[d].made \ {"journal"} : fs'[q] = d
    <3> SUFFICES ASSUME NEW d \in Creator, NEW q \in creator'[d].made \ {"journal"}
                 PROVE  fs'[q] = d
      OBVIOUS
    <3>1. q = p => d = c
      BY <1>7, <1>8, Names DEF IndInv, OwnerInv
    <3>2. q \in Path
      BY <1>10 DEF TypeOK, CreatorState
    <3>3. q # p => fs[q] = d
      BY <1>4, <1>7 DEF IndInv, OwnerInv
    <3>4. QED
      BY <1>8, <3>1, <3>2, <3>3
  <2>3. \A d \in Creator, q \in Path : fs'[q] = d => q \in creator'[d].made
    BY <1>4, <1>7, <1>8 DEF IndInv, OwnerInv
  <2>4. \A q \in Path \ {"root", "keep", "wal"} : fs'[q] # User
    BY <1>8, Names DEF IndInv, OwnerInv
  <2>5. fs'["root"] \notin Opener /\ fs'["journal"] \notin Opener
    <3>1. "root" \in Path /\ "journal" \in Path
      BY Paths, LedgerSet
    <3>2. QED
      BY <1>8, <3>1, Names DEF IndInv, OwnerInv
  <2>6. \A q \in Contents("temporary") : Exists(q)' => fs'[q] = fs'["temporary"]
    <3> SUFFICES ASSUME NEW q \in Contents("temporary"), Exists(q)' PROVE fs'[q] = fs'["temporary"]
      OBVIOUS
    <3>1. q \in Path /\ q # "temporary" /\ "temporary" \in Path /\ q # "root" /\ Directory(q) = "temporary"
      BY Paths, LedgerSet DEF Directory
    <3>2. CASE q = p
      <4>1. 3 \in 2..(i - 1)
        BY <1>2, <3>2, Numbers, Paths
      <4>2. "temporary" \in creator[c].made
        BY <1>2, <4>1, Records
      <4>3. fs["temporary"] = c
        BY <4>2, Owned
      <4>4. QED
        BY <1>8, <3>1, <3>2, <4>3
    <3>3. CASE q # p
      <4>1. Exists(q) /\ Exists("temporary")
        BY <1>8, <3>1, <3>3 DEF Exists, IndInv, OwnerInv
      <4>2. p # "temporary"
        BY <1>8, <4>1 DEF Exists
      <4>3. QED
        BY <1>8, <3>1, <3>3, <4>1, <4>2 DEF IndInv, OwnerInv
    <3>4. QED
      BY <3>2, <3>3
  <2>7. QED
    BY <2>1, <2>2, <2>3, <2>4, <2>5, <2>6 DEF OwnerInv
<1>12. LedgerInv'
  <2>1. LedgerOK(r)
    <3>1. creator[c].made \subseteq ToSet(Ledger)
      BY Known DEF LedgerOK
    <3>2. r.made \ {"root"} = MadeBelow(i + 1)
      BY <1>2, <1>4, MadeOneMore
    <3>3. CASE i = 1
      <4>1. r.made = {"root"} /\ r.pc = "validate"
        BY <1>2, <1>4, <1>5, <3>3, Records
      <4>2. QED
        BY <1>2, <1>3, <1>4, <3>1, <3>3, <4>1 DEF LedgerOK, Before, WithRow, Ended
    <3>4. CASE i = 11
      <4>1. Parts \subseteq r.made /\ r.pc = "migrate" /\ r.locked
        BY <1>2, <1>4, <1>5, <3>2, <3>4, MadeOneMore
      <4>2. QED
        BY <1>3, <1>4, <3>1, <4>1 DEF LedgerOK, Before, WithRow, Ended
    <3>5. CASE i \in 2..10
      <4>1. /\ r.pc \in {"create", "acquire"} /\ r.i \in 1..11 /\ r.i # 1
            /\ r.locked <=> r.i > 7 /\ r.pc # "acquire"
            /\ r.pc = "acquire" => r.i = 8
        BY <1>2, <1>4, <1>5, <3>5
      <4>2. QED
        BY <1>3, <1>4, <3>1, <3>2, <4>1, Records DEF LedgerOK, Before, WithRow, Ended
    <3>6. QED
      BY <1>2, <3>3, <3>4, <3>5
  <2>2. QED
    BY <1>7, <2>1 DEF IndInv, LedgerInv, LedgerOK
<1>13. LockInv'
  <2>1. \A d \in Creator : /\ creator'[d].locked = creator[d].locked
                           /\ creator[d].made \subseteq creator'[d].made
    BY <1>4, <1>7
  <2>2. QED
    BY <1>1, <2>1 DEF IndInv, LockInv
<1>14. RowInv'
  <2>1. RowOK(c, r)
    BY <1>2, <1>5 DEF RowOK, WithRow
  <2>2. QED
    BY <1>1, <1>7, <2>1 DEF IndInv, RowInv, RowOK
<1>15. CleanedInv'
  <2>1. CleanedOK(r)
    BY <1>5 DEF CleanedOK
  <2>2. QED
    BY <1>7, <2>1 DEF IndInv, CleanedInv, CleanedOK
<1>16. HopeInv'
  <2>1. Undisturbed' => Undisturbed
    BY <1>1, <1>8, Names DEF Undisturbed
  <2>2. fs'["root"] = User => fs["root"] = User
    BY <1>8, Paths, Names
  <2>3. \A d \in Creator : LookedOK(creator[d])'
    <3>1. LookedOK(creator[c])'
      BY <1>1, <1>2, <1>4, <1>5, <1>7, <2>2, Known DEF LookedOK, Ended
    <3>2. \A d \in Creator \ {c} : LookedOK(creator[d])'
      BY <1>7, <2>2 DEF IndInv, HopeInv, LookedOK
    <3>3. QED
      BY <3>1, <3>2
  <2>4. \A d \in Creator : Undisturbed' => RootOK(creator[d])'
    <3>1. Undisturbed' => Exists("root")' \/ ~creator[c].existed
      BY <1>9, <2>1, Paths, Known DEF RootOK
    <3>2. Undisturbed' => Exists("root")'
      <4>1. CASE i = 1
        BY <1>8, <4>1, Records, Names, Paths DEF Exists
      <4>2. CASE i # 1
        BY <1>1, <1>2, <1>9, <2>1, <4>2, Paths, Known DEF RootOK
      <4>3. QED
        BY <4>1, <4>2
    <3>3. QED
      BY <3>2 DEF RootOK
  <2>5. ASSUME NEW d \in Creator, Undisturbed', Lost(d)'
        PROVE  /\ creator'[d].made \subseteq {"root"} /\ d \notin row'
               /\ creator'[d].made # {} => Exists("objects")'
               /\ \E e \in Creator : Ahead(e)'
    <3>1. d # c /\ creator'[d] = creator[d] /\ Lost(d)
      BY <1>5, <1>7, <2>5 DEF Lost, LostAt
    <3>2. PICK e \in Creator : Ahead(e)
      BY <2>1, <2>5, <3>1 DEF IndInv, HopeInv
    <3>3. Ahead(e)'
      BY <1>4, <1>5, <1>7, <3>2 DEF Ahead, Lost, LostAt
    <3>4. "objects" \in Path
      BY Paths, LedgerSet
    <3>5. QED
      BY <1>1, <1>9, <2>1, <2>5, <3>1, <3>3, <3>4 DEF IndInv, HopeInv
  <2>6. QED
    BY <2>3, <2>4, <2>5 DEF HopeInv
<1>17. QED
  BY <1>10, <1>11, <1>12, <1>13, <1>14, <1>15, <1>16 DEF IndInv

LEMMA MakePathInv ==
    ASSUME IndInv, NEW c \in Creator, MakePath(c)
    PROVE  IndInv'
<1>1. CASE CanMake(Ledger[creator[c].i])
  BY <1>1, MadePathInv
<1>2. CASE ~CanMake(Ledger[creator[c].i])
  <2>1. creator[c].pc = "create" /\ Cleans(c) /\ UNCHANGED <<fs, mode, flock, row, opener, faults>>
    BY <1>2 DEF MakePath, At
  <2>2. QED
    BY <1>2, <2>1, CannotMake, CleansInv, Known DEF Making
<1>3. QED
  BY <1>1, <1>2

-----------------------------------------------------------------------------
(* The lock *)

\* A process that lets go of its lock.
LEMMA ReleaseInv ==
    ASSUME IndInv, NEW q \in Creator \cup Opener, Release(q)
    PROVE  /\ flock' \in [Creator \cup Opener -> Creator \cup Opener \cup {Nobody}]
           /\ \A n \in Creator \cup Opener : IF flock[n] = q THEN flock'[n] = Nobody ELSE flock'[n] = flock[n]
<1>1. flock \in [Creator \cup Opener -> Creator \cup Opener \cup {Nobody}]
  BY DEF IndInv, TypeOK
<1>2. QED
  BY <1>1 DEF Release

\* A creator that does, at the end of its creation, of its cleanup or of its life.
LEMMA CreatorReleases ==
    ASSUME IndInv, NEW c \in Creator, Release(c), NEW r, creator' = [creator EXCEPT ![c] = r],
           ~r.locked, UNCHANGED opener
    PROVE  LockInv'
<1>1. \A n \in Creator \cup Opener : IF flock[n] = c THEN flock'[n] = Nobody ELSE flock'[n] = flock[n]
  BY ReleaseInv
<1>2. creator'[c] = r /\ \A d \in Creator \ {c} : creator'[d] = creator[d]
  BY OneCreator
<1>3. \A d \in Creator : creator'[d].locked => d # c /\ flock'[d] = d /\ "lock" \in creator'[d].made
  BY <1>1, <1>2 DEF IndInv, LockInv
<1>4. \A n \in Creator \cup Opener, d \in Creator : flock'[n] = d => n = d /\ creator'[d].locked
  BY <1>1, <1>2, Names DEF IndInv, LockInv
<1>5. \A n \in Creator \cup Opener, o \in Opener : flock'[n] = o => opener'[o].pc = "writing"
  BY <1>1, Names DEF IndInv, LockInv
<1>6. \A o \in Opener, d \in Creator :
        opener'[o].pc = "writing" /\ opener'[o].db = d => ~creator'[d].locked
  BY <1>2 DEF IndInv, LockInv
<1>7. QED
  BY <1>3, <1>4, <1>5, <1>6 DEF LockInv

\* The creator's lock file is its own, and nobody else can have locked it unless a
\* repository stood here before.
LEMMA AcquireLockInv ==
    ASSUME IndInv, NEW c \in Creator, AcquireLock(c)
    PROVE  IndInv'
<1> DEFINE r == [creator[c] EXCEPT !.locked = TRUE, !.pc = "create"]
<1>1. /\ creator[c].pc = "acquire" /\ creator[c] \in CreatorState
      /\ UNCHANGED <<mode, row, opener, faults>>
  BY Known DEF AcquireLock, At
<1>2. /\ creator[c].i = 8 /\ creator[c].made \ {"root"} = MadeBelow(8) /\ ~creator[c].locked
      /\ c \notin row /\ creator[c].made \subseteq ToSet(Ledger)
  BY <1>1, Known DEF LedgerOK, RowOK, WithRow
<1>3. "lock" \in creator[c].made /\ "objects" \in creator[c].made
  BY <1>2, Records DEF MadeBelow
<1>4. fs["lock"] = c /\ fs["objects"] = c /\ Exists("lock") /\ LockInode(c) = c
  BY <1>3, Owned DEF LockInode
<1>5. Exists("root")
  BY <1>4, Paths, LedgerSet DEF IndInv, OwnerInv, Directory
<1>6. CASE CanLock(c)
  <2>1. creator' = [creator EXCEPT ![c] = r] /\ flock' = [flock EXCEPT ![c] = c] /\ fs' = fs
    <3>1. creator' = [creator EXCEPT ![c] = r] /\ TakeLock(c)
      BY <1>6 DEF AcquireLock
    <3>2. flock' = [flock EXCEPT ![c] = c] /\ fs' = [fs EXCEPT !["lock"] = fs["lock"]]
      BY <1>4, <3>1 DEF TakeLock
    <3>3. fs' = fs
      BY <3>2 DEF IndInv, TypeOK
    <3>4. QED
      BY <3>1, <3>2, <3>3
  <2>2. r \in CreatorState
    BY <1>1 DEF CreatorState, Label
  <2>3. /\ r.made = creator[c].made /\ r.locked /\ r.pc = "create" /\ r.i = 8
        /\ r.existed = creator[c].existed /\ r.original = creator[c].original
        /\ r.changed = creator[c].changed
    BY <1>1, <1>2 DEF CreatorState
  <2> HIDE DEF r
  <2>4. LedgerOK(r) /\ CleanedOK(r) /\ RowOK(c, r)
    BY <1>2, <2>3, Records DEF LedgerOK, CleanedOK, RowOK, Before, WithRow, Ended
  <2>5. LookedOK(r) /\ RootOK(r)
    BY <1>1, <1>5, <2>3, Known DEF LookedOK, RootOK, Ended
  <2>6. HopeInv'
    BY <1>1, <2>1, <2>3, <2>5, LocalHope DEF Lost, LostAt
  <2>7. creator'[c] = r /\ \A d \in Creator \ {c} : creator'[d] = creator[d]
    BY <2>1, OneCreator
  <2>8. /\ flock' \in [Creator \cup Opener -> Creator \cup Opener \cup {Nobody}]
        /\ flock'[c] = c /\ \A n \in (Creator \cup Opener) \ {c} : flock'[n] = flock[n]
    BY <2>1 DEF IndInv, TypeOK
  <2>9. LockInv'
    <3>1. \A d \in Creator : creator'[d].locked => flock'[d] = d /\ "lock" \in creator'[d].made
      BY <1>3, <2>3, <2>7, <2>8 DEF IndInv, LockInv
    <3>2. \A n \in Creator \cup Opener, d \in Creator : flock'[n] = d => n = d /\ creator'[d].locked
      BY <2>3, <2>7, <2>8 DEF IndInv, LockInv
    <3>3. \A n \in Creator \cup Opener, o \in Opener : flock'[n] = o => opener'[o].pc = "writing"
      BY <1>1, <2>8, Names DEF IndInv, LockInv
    <3>4. \A o \in Opener, d \in Creator :
            opener'[o].pc = "writing" /\ opener'[o].db = d => ~creator'[d].locked
      BY <1>1, <1>2, <2>7 DEF IndInv, LockInv, RowInv
    <3>5. QED
      BY <3>1, <3>2, <3>3, <3>4 DEF LockInv
  <2>10. QED
    BY <1>1, <2>1, <2>2, <2>3, <2>4, <2>6, <2>8, <2>9, Known, RecordInv
<1>7. CASE ~CanLock(c)
  <2>1. Cleans(c) /\ UNCHANGED <<fs, flock>>
    BY <1>7 DEF AcquireLock
  <2>2. ~Undisturbed
    <3> SUFFICES ASSUME Undisturbed PROVE FALSE
      OBVIOUS
    <3>1. flock[c] # Nobody
      BY <1>4, <1>5, <1>7, Names DEF CanLock
    <3>2. PICK o \in Opener : opener[o].pc = "writing"
      BY <1>2, <3>1 DEF IndInv, TypeOK, LockInv
    <3>3. opener[o].db \in row /\ opener[o].db \in Creator /\ opener[o].db # c
      BY <1>2, <3>2 DEF IndInv, RowInv, TypeOK
    <3>4. creator[opener[o].db].pc \in WithRow
      BY <3>3 DEF IndInv, RowInv, RowOK, HopeInv, Lost, LostAt
    <3>5. Parts \subseteq creator[opener[o].db].made
      BY <3>3, <3>4, Known DEF LedgerOK
    <3>6. QED
      BY <1>4, <3>3, <3>5, PartsAreWhole
  <2>3. QED
    BY <1>1, <2>1, <2>2, Known, CleansInv DEF Making
<1>8. QED
  BY <1>6, <1>7

LEMMA ReleasePublishedInv ==
    ASSUME IndInv, NEW c \in Creator, ReleasePublished(c)
    PROVE  IndInv'
<1> DEFINE r == [creator[c] EXCEPT !.locked = FALSE, !.pc = "final"]
<1>1. /\ creator' = [creator EXCEPT ![c] = r] /\ creator[c].pc = "published"
      /\ creator[c] \in CreatorState /\ Release(c) /\ UNCHANGED <<fs, mode, row, opener, faults>>
  BY Known DEF ReleasePublished, At
<1>2. r \in CreatorState
  BY <1>1 DEF CreatorState, Label
<1>3. /\ r.made = creator[c].made /\ ~r.locked /\ r.pc = "final"
      /\ r.existed = creator[c].existed /\ r.original = creator[c].original
      /\ r.changed = creator[c].changed
  BY <1>1 DEF CreatorState
<1> HIDE DEF r
<1>4. LedgerOK(r) /\ CleanedOK(r) /\ RowOK(c, r)
  BY <1>1, <1>3, Known DEF LedgerOK, CleanedOK, RowOK, Before, WithRow, Ended
<1>5. LookedOK(r) /\ (Undisturbed => RootOK(r))
  BY <1>1, <1>3, Known DEF LookedOK, RootOK, Ended
<1>6. HopeInv'
  BY <1>1, <1>3, <1>5, LocalHope DEF Lost, LostAt
<1>7. QED
  BY <1>1, <1>2, <1>3, <1>4, <1>6, ReleaseInv, CreatorReleases, Known, RecordInv

LEMMA CrashInv ==
    ASSUME IndInv, NEW c \in Creator, Crash(c)
    PROVE  IndInv'
<1> DEFINE r == [creator[c] EXCEPT !.pc = "crashed", !.locked = FALSE]
<1>1. /\ creator' = [creator EXCEPT ![c] = r] /\ creator[c] \in CreatorState
      /\ Release(c) /\ UNCHANGED <<fs, mode, row, opener>>
  BY Known DEF Crash
<1>2. faults' \in 0..MaxFaults /\ faults' # 0
  BY Known, FaultAssumption DEF Crash
<1>3. r \in CreatorState
  BY <1>1 DEF CreatorState, Label, Ended
<1>4. /\ r.made = creator[c].made /\ ~r.locked /\ r.pc = "crashed"
      /\ r.existed = creator[c].existed /\ r.original = creator[c].original
      /\ r.changed = creator[c].changed
  BY <1>1 DEF CreatorState
<1> HIDE DEF r
<1>5. LedgerOK(r) /\ CleanedOK(r) /\ RowOK(c, r)
  BY <1>4, Known DEF LedgerOK, CleanedOK, RowOK, Before, WithRow
<1>6. LookedOK(r)
  BY <1>4, Known DEF LookedOK, Ended
<1>7. HopeInv'
  BY <1>1, <1>2, <1>4, <1>6, LocalHope DEF LostAt
<1>8. QED
  BY <1>1, <1>2, <1>3, <1>4, <1>5, <1>7, ReleaseInv, CreatorReleases, Known, RecordInv

\* Without the lock, cleanup starts over for what it had protected.
LEMMA UnlockInv ==
    ASSUME IndInv, NEW c \in Creator, Unlock(c)
    PROVE  IndInv'
<1> DEFINE free == [creator[c] EXCEPT !.locked = FALSE]
           k == NextRecord(free, 12)
           r == [free EXCEPT !.pc = IF k = 0 THEN "restore" ELSE "cleanAgain", !.i = k]
<1>1. /\ creator' = [creator EXCEPT ![c] = r] /\ creator[c].pc = "unlock"
      /\ creator[c] \in CreatorState /\ Release(c) /\ UNCHANGED <<fs, mode, row, opener, faults>>
  BY Known, Records DEF Unlock, At
<1>2. /\ free.made = creator[c].made /\ ~free.locked /\ free \in CreatorState
      /\ free.stuck = creator[c].stuck
      /\ free.existed = creator[c].existed /\ free.original = creator[c].original
      /\ free.changed = creator[c].changed
  BY <1>1 DEF CreatorState
<1> HIDE DEF free
<1>3. /\ k \in 0..11
      /\ k # 0 => k \in 1..11 /\ Ledger[k] \in free.made
      /\ \A j \in (k + 1)..11 : Ledger[j] \notin free.made
  BY <1>2, NextRecordFound
<1> HIDE DEF k
<1>4. r \in CreatorState
  <2>1. {"restore", "cleanAgain"} \subseteq Label /\ k \in 0..12
    BY <1>3 DEF Label
  <2>2. QED
    BY <1>2, <2>1, Moved
<1>5. /\ r.made = creator[c].made /\ ~r.locked /\ r.i = k /\ r.stuck = creator[c].stuck
      /\ r.pc = IF k = 0 THEN "restore" ELSE "cleanAgain"
      /\ r.existed = creator[c].existed /\ r.original = creator[c].original
      /\ r.changed = creator[c].changed
  BY <1>2 DEF CreatorState
<1> HIDE DEF r
<1>6. creator[c].made \subseteq ToSet(Ledger)
  BY Known DEF LedgerOK
<1>7. k = 0 => creator[c].made = {}
  BY <1>2, <1>3, <1>6, Numbers
<1>8. LedgerOK(r) /\ RowOK(c, r)
  BY <1>1, <1>2, <1>3, <1>5, <1>6, Known, Records DEF LedgerOK, RowOK, Before, WithRow, Ended
<1>9. CleanedOK(r)
  BY <1>1, <1>2, <1>3, <1>5, <1>7, Known, Records DEF CleanedOK
<1>10. LookedOK(r) /\ (Undisturbed => RootOK(r))
  BY <1>1, <1>5, Known DEF LookedOK, RootOK, Ended
<1>11. HopeInv'
  BY <1>1, <1>5, <1>10, LocalHope DEF Lost, LostAt
<1>12. QED
  BY <1>1, <1>4, <1>5, <1>8, <1>9, <1>11, ReleaseInv, CreatorReleases, Known, RecordInv

-----------------------------------------------------------------------------
(* SQLite's files *)

\* What SQLite, or an opener, does to the filesystem: it deletes the journal and
\* makes files below the root where they are missing.
SqliteChanges ==
    /\ fs' \in [Path -> Creator \cup Opener \cup {Nobody, User}]
    /\ \A q \in Path :
         \/ fs'[q] = fs[q]
         \/ q = "journal" /\ fs'[q] = Nobody
         \/ q \in {"lock", "db", "wal", "shm"} /\ fs[q] = Nobody /\ fs'[q] \in Opener /\ Exists("root")

\* This disturbs nobody's ledger.
LEMMA SqliteInv ==
    ASSUME IndInv, SqliteChanges, \A d \in Creator : creator'[d].made = creator[d].made
    PROVE  /\ OwnerInv'
           /\ fs'["root"] = fs["root"] /\ fs'["objects"] = fs["objects"]
           /\ Undisturbed' /\ faults' = faults => Undisturbed
<1> USE DEF SqliteChanges
<1>1. /\ {"root", "objects", "temporary", "journal"} \subseteq Path
      /\ \A q \in Path : Directory(q) \in {"root", "temporary"}
      /\ Contents("temporary") = {"temporary/objects", "temporary/restores"}
      /\ Contents("temporary") \subseteq Path
  BY Paths, LedgerSet
<1>2. \A q \in Path \ {"journal", "lock", "db", "wal", "shm"} : fs'[q] = fs[q]
  OBVIOUS
<1>3. \A q \in Path \ {"root"} : Exists(q)' => Exists(Directory(q))'
  <2> SUFFICES ASSUME NEW q \in Path \ {"root"}, Exists(q)' PROVE Exists(Directory(q))'
    OBVIOUS
  <2>1. Exists(Directory(q))
    <3>1. CASE Exists(q)
      BY <3>1 DEF IndInv, OwnerInv
    <3>2. CASE ~Exists(q)
      BY <3>2 DEF Exists, Directory
    <3>3. QED
      BY <3>1, <3>2
  <2>2. fs'[Directory(q)] = fs[Directory(q)]
    BY <1>1, <1>2
  <2>3. QED
    BY <2>1, <2>2 DEF Exists
<1>4. \A d \in Creator : \A q \in creator'[d].made \ {"journal"} : fs'[q] = d
  <2> SUFFICES ASSUME NEW d \in Creator, NEW q \in creator[d].made \ {"journal"} PROVE fs'[q] = d
    OBVIOUS
  <2>1. fs[q] = d /\ q \in Path
    BY DEF IndInv, OwnerInv, TypeOK, CreatorState
  <2>2. QED
    BY <2>1, Names
<1>5. \A d \in Creator, q \in Path : fs'[q] = d => q \in creator'[d].made
  BY Names DEF IndInv, OwnerInv
<1>6. \A q \in Path \ {"root", "keep", "wal"} : fs'[q] # User
  BY Names DEF IndInv, OwnerInv
<1>7. fs'["root"] \notin Opener /\ fs'["journal"] \notin Opener
  BY <1>1, <1>2, Names DEF IndInv, OwnerInv
<1>8. \A q \in Contents("temporary") : Exists(q)' => fs'[q] = fs'["temporary"]
  BY <1>1, <1>2 DEF IndInv, OwnerInv, Exists
<1>9. ASSUME Undisturbed', faults' = faults PROVE Undisturbed
  <2>1. fs["journal"] \in Creator \cup {Nobody}
    BY <1>1 DEF IndInv, OwnerInv, TypeOK
  <2>2. \A q \in Path \ {"root"} : fs[q] \in Creator \cup {Nobody}
    BY <1>9, <2>1 DEF Undisturbed
  <2>3. QED
    BY <1>9, <2>2 DEF Undisturbed
<1>10. OwnerInv'
  BY <1>3, <1>4, <1>5, <1>6, <1>7, <1>8 DEF OwnerInv
<1>11. QED
  BY <1>1, <1>2, <1>9, <1>10

\* A creator that goes on, with SQLite's changes, keeps what the others hope for.
LEMMA SqliteHope ==
    ASSUME IndInv, SqliteChanges, faults' = faults,
           \A d \in Creator : /\ creator'[d].made = creator[d].made
                              /\ LookedOK(creator[d])' /\ (Undisturbed => RootOK(creator[d])')
                              /\ Lost(d)' <=> Lost(d)
                              /\ Lost(d) /\ d \in row' => d \in row
    PROVE  HopeInv'
<1>1. fs'["objects"] = fs["objects"] /\ (Undisturbed' => Undisturbed)
  BY SqliteInv
<1>2. ASSUME NEW d \in Creator, Undisturbed', Lost(d)'
      PROVE  /\ creator'[d].made \subseteq {"root"} /\ d \notin row'
             /\ creator'[d].made # {} => Exists("objects")'
             /\ \E e \in Creator : Ahead(e)'
  <2>1. /\ creator[d].made \subseteq {"root"} /\ d \notin row
        /\ creator[d].made # {} => Exists("objects")
        /\ \E e \in Creator : Ahead(e)
    BY <1>1, <1>2 DEF IndInv, HopeInv
  <2>2. \E e \in Creator : Ahead(e)'
    BY <2>1 DEF Ahead
  <2>3. QED
    BY <1>1, <1>2, <2>1, <2>2 DEF Exists
<1>3. QED
  BY <1>1, <1>2 DEF HopeInv

LEMMA MigrateInv ==
    ASSUME IndInv, NEW c \in Creator, Migrate(c)
    PROVE  IndInv'
<1> DEFINE r == [creator[c] EXCEPT !.pc = "insert"]
<1>1. /\ creator' = [creator EXCEPT ![c] = r] /\ creator[c].pc = "migrate"
      /\ creator[c] \in CreatorState /\ fs' = [fs EXCEPT !["journal"] = Nobody]
      /\ UNCHANGED <<mode, flock, row, opener, faults>>
  BY Known DEF Migrate, At, Goes
<1>2. r \in CreatorState
  BY <1>1 DEF CreatorState, Label
<1>3. /\ r.made = creator[c].made /\ r.locked = creator[c].locked /\ r.pc = "insert"
      /\ r.i = creator[c].i /\ r.existed = creator[c].existed
      /\ r.original = creator[c].original /\ r.changed = creator[c].changed
  BY <1>1 DEF CreatorState
<1> HIDE DEF r
<1>4. creator'[c] = r /\ \A d \in Creator \ {c} : creator'[d] = creator[d]
  BY <1>1, OneCreator
<1>5. \A d \in Creator : creator'[d].made = creator[d].made /\ creator'[d].locked = creator[d].locked
  BY <1>3, <1>4
<1>6. SqliteChanges
  BY <1>1 DEF SqliteChanges, IndInv, TypeOK
<1>7. OwnerInv' /\ fs'["root"] = fs["root"]
  BY <1>5, <1>6, SqliteInv
<1>8. LedgerOK(r) /\ CleanedOK(r) /\ RowOK(c, r)
  BY <1>1, <1>3, Known DEF LedgerOK, CleanedOK, RowOK, Before, WithRow, Ended
<1>9. TypeOK'
  BY <1>1, <1>2, <1>6 DEF IndInv, TypeOK, SqliteChanges
<1>10. LedgerInv' /\ CleanedInv'
  BY <1>4, <1>8, RecordsKept
<1>11. RowInv'
  BY <1>1, <1>4, <1>8 DEF IndInv, RowInv, RowOK
<1>12. LockInv'
  BY <1>1, <1>5 DEF IndInv, LockInv
<1>13. HopeInv'
  <2>1. ASSUME NEW d \in Creator
        PROVE  LookedOK(creator[d])' /\ (Undisturbed => RootOK(creator[d])')
    <3>1. CASE d = c
      BY <1>1, <1>3, <1>4, <1>7, <3>1, Known DEF LookedOK, RootOK, Exists, Ended
    <3>2. CASE d # c
      BY <1>4, <1>7, <3>2, Known DEF LookedOK, RootOK, Exists
    <3>3. QED
      BY <3>1, <3>2
  <2>2. \A d \in Creator : Lost(d)' <=> Lost(d)
    BY <1>1, <1>3, <1>4 DEF Lost, LostAt
  <2>3. QED
    BY <1>1, <1>5, <1>6, <2>1, <2>2, SqliteHope
<1>14. QED
  BY <1>7, <1>9, <1>10, <1>11, <1>12, <1>13 DEF IndInv

LEMMA InsertRowInv ==
    ASSUME IndInv, NEW c \in Creator, InsertRow(c)
    PROVE  IndInv'
<1> DEFINE r == [creator[c] EXCEPT !.pc = "checkpoint"]
<1>1. /\ creator' = [creator EXCEPT ![c] = r] /\ creator[c].pc = "insert"
      /\ creator[c] \in CreatorState /\ row' = row \cup {fs["db"]}
      /\ UNCHANGED <<fs, mode, flock, opener, faults>>
  BY Known DEF InsertRow, At, Goes
<1>2. row' = row \cup {c}
  <2>1. Parts \subseteq creator[c].made
    BY <1>1, Known DEF LedgerOK
  <2>2. QED
    BY <1>1, <2>1, PartsAreWhole
<1>3. r \in CreatorState
  BY <1>1 DEF CreatorState, Label
<1>4. /\ r.made = creator[c].made /\ r.locked = creator[c].locked /\ r.pc = "checkpoint"
      /\ r.i = creator[c].i /\ r.existed = creator[c].existed
      /\ r.original = creator[c].original /\ r.changed = creator[c].changed
  BY <1>1 DEF CreatorState
<1> HIDE DEF r
<1>5. creator'[c] = r /\ \A d \in Creator \ {c} : creator'[d] = creator[d]
  BY <1>1, OneCreator
<1>6. \A d \in Creator : creator'[d].made = creator[d].made /\ creator'[d].locked = creator[d].locked
  BY <1>4, <1>5
<1>7. SqliteChanges
  BY <1>1 DEF SqliteChanges, IndInv, TypeOK
<1>8. OwnerInv'
  BY <1>6, <1>7, SqliteInv
<1>9. LedgerOK(r) /\ CleanedOK(r)
  BY <1>1, <1>4, Known DEF LedgerOK, CleanedOK, Before, WithRow, Ended
<1>10. TypeOK'
  BY <1>1, <1>2, <1>3 DEF IndInv, TypeOK
<1>11. LedgerInv' /\ CleanedInv'
  BY <1>5, <1>9, RecordsKept
<1>12. RowInv'
  <2>1. \A d \in Creator : RowOK(d, creator[d])'
    BY <1>2, <1>4, <1>5 DEF IndInv, RowInv, RowOK, WithRow
  <2>2. QED
    BY <1>1, <1>2, <2>1 DEF IndInv, RowInv
<1>13. LockInv'
  BY <1>1, <1>6 DEF IndInv, LockInv
<1>14. HopeInv'
  <2>1. ASSUME NEW d \in Creator
        PROVE  LookedOK(creator[d])' /\ (Undisturbed => RootOK(creator[d])')
    <3>1. CASE d = c
      BY <1>1, <1>4, <1>5, <3>1, Known DEF LookedOK, RootOK, Exists, Ended
    <3>2. CASE d # c
      BY <1>1, <1>5, <3>2, Known DEF LookedOK, RootOK, Exists
    <3>3. QED
      BY <3>1, <3>2
  <2>2. \A d \in Creator : (Lost(d)' <=> Lost(d)) /\ (Lost(d) => d # c)
    BY <1>1, <1>4, <1>5 DEF Lost, LostAt
  <2>3. QED
    BY <1>1, <1>2, <1>6, <1>7, <2>1, <2>2, SqliteHope
<1>15. QED
  BY <1>8, <1>10, <1>11, <1>12, <1>13, <1>14 DEF IndInv

-----------------------------------------------------------------------------
(* The openers *)

\* A step of an opener leaves the creators' records, the rows and the faults alone.
LEMMA OpenersInv ==
    ASSUME IndInv, SqliteChanges, UNCHANGED <<mode, row, creator, faults>>,
           flock' \in [Creator \cup Opener -> Creator \cup Opener \cup {Nobody}],
           opener' \in [Opener -> OpenerState], LockInv',
           \A o \in Opener : opener'[o].pc \in {"open", "writing"} => opener'[o].db \in row
    PROVE  IndInv'
<1>1. OwnerInv' /\ fs'["root"] = fs["root"]
  BY SqliteInv
<1>2. TypeOK'
  BY DEF IndInv, TypeOK, SqliteChanges
<1>3. LedgerInv' /\ CleanedInv'
  BY DEF IndInv, LedgerInv, CleanedInv
<1>4. RowInv'
  BY DEF IndInv, RowInv, RowOK
<1>5. HopeInv'
  <2>1. \A d \in Creator : LookedOK(creator[d])' /\ (Undisturbed => RootOK(creator[d])')
    BY <1>1, Known DEF LookedOK, RootOK, Exists
  <2>2. \A d \in Creator : Lost(d)' <=> Lost(d)
    BY DEF Lost
  <2>3. QED
    BY <2>1, <2>2, SqliteHope
<1>6. QED
  BY <1>1, <1>2, <1>3, <1>4, <1>5 DEF IndInv

\* An opener's own record changes.
LEMMA OneOpener ==
    ASSUME IndInv, NEW o \in Opener, NEW s \in OpenerState, opener' = [opener EXCEPT ![o] = s]
    PROVE  /\ opener' \in [Opener -> OpenerState]
           /\ opener'[o] = s /\ \A x \in Opener \ {o} : opener'[x] = opener[x]
  BY DEF IndInv, TypeOK

\* A step before the lock is taken.
LEMMA OpenerGoesOn ==
    ASSUME IndInv, SqliteChanges, UNCHANGED <<mode, flock, row, creator, faults>>,
           NEW o \in Opener, NEW s \in OpenerState, opener' = [opener EXCEPT ![o] = s],
           opener[o].pc # "writing", s.pc # "writing", s.pc = "open" => s.db \in row
    PROVE  IndInv'
<1>1. /\ opener' \in [Opener -> OpenerState]
      /\ opener'[o] = s /\ \A x \in Opener \ {o} : opener'[x] = opener[x]
  BY OneOpener
<1>2. LockInv'
  BY <1>1 DEF IndInv, LockInv
<1>3. \A x \in Opener : opener'[x].pc \in {"open", "writing"} => opener'[x].db \in row
  BY <1>1 DEF IndInv, RowInv
<1>4. flock' \in [Creator \cup Opener -> Creator \cup Opener \cup {Nobody}]
  BY DEF IndInv, TypeOK
<1>5. QED
  BY <1>1, <1>2, <1>3, <1>4, OpenersInv

\* What an opener can be.
LEMMA OpenerTyped ==
    ASSUME IndInv, NEW o \in Opener
    PROVE  /\ opener[o] \in OpenerState
           /\ \A l \in {"start", "layout", "access", "database", "load", "open", "writing"} :
                [opener[o] EXCEPT !.pc = l] \in OpenerState /\ [opener[o] EXCEPT !.pc = l].pc = l
                /\ [opener[o] EXCEPT !.pc = l].db = opener[o].db
           /\ [opener[o] EXCEPT !.pc = "start", !.i = 1, !.db = Nobody] \in OpenerState
           /\ [opener[o] EXCEPT !.pc = "start", !.i = 1, !.db = Nobody].pc = "start"
<1>1. opener[o] \in OpenerState /\ 1 \in 1..Len(Layout)
  BY Records DEF IndInv, TypeOK
<1>2. QED
  BY <1>1 DEF OpenerState

\* An opener gives up, or goes to another label.
LEMMA OpenerMoves ==
    ASSUME IndInv, NEW o \in Opener
    PROVE  /\ Closes(o) => \E s \in OpenerState : s.pc = "start" /\ opener' = [opener EXCEPT ![o] = s]
           /\ \A l \in {"database", "open"} : OpenerGoes(o, l) =>
                \E s \in OpenerState : /\ s.pc = l /\ s.db = opener[o].db
                                       /\ opener' = [opener EXCEPT ![o] = s]
<1>1. ASSUME Closes(o)
      PROVE  \E s \in OpenerState : s.pc = "start" /\ opener' = [opener EXCEPT ![o] = s]
  <2> DEFINE s == [opener[o] EXCEPT !.pc = "start", !.i = 1, !.db = Nobody]
  <2>1. s \in OpenerState /\ s.pc = "start"
    BY OpenerTyped
  <2>2. opener' = [opener EXCEPT ![o] = s]
    BY <1>1 DEF Closes
  <2> HIDE DEF s
  <2>3. QED
    BY <2>1, <2>2
<1>2. ASSUME NEW l \in {"database", "open"}, OpenerGoes(o, l)
      PROVE  \E s \in OpenerState : /\ s.pc = l /\ s.db = opener[o].db
                                    /\ opener' = [opener EXCEPT ![o] = s]
  BY <1>2, OpenerTyped DEF OpenerGoes
<1>3. QED
  BY <1>1, <1>2

LEMMA NoChange ==
    ASSUME IndInv, UNCHANGED fs
    PROVE  SqliteChanges
  BY DEF IndInv, TypeOK, SqliteChanges

LEMMA OpenRootInv ==
    ASSUME IndInv, NEW o \in Opener, OpenRoot(o)
    PROVE  IndInv'
<1> DEFINE s == [opener[o] EXCEPT !.pc = "layout"]
<1>1. s \in OpenerState /\ s.pc = "layout"
  BY OpenerTyped
<1>2. opener' = [opener EXCEPT ![o] = s] /\ opener[o].pc = "start"
      /\ UNCHANGED <<fs, mode, flock, row, creator, faults>>
  BY DEF OpenRoot, OpenerAt, OpenerGoes, OnlyOpeners
<1> HIDE DEF s
<1>3. QED
  BY <1>1, <1>2, NoChange, OpenerGoesOn

LEMMA CheckLayoutInv ==
    ASSUME IndInv, NEW o \in Opener, CheckLayout(o)
    PROVE  IndInv'
<1> DEFINE n == opener[o].i
           s == IF ~Exists(Layout[n]) THEN [opener[o] EXCEPT !.pc = "start", !.i = 1, !.db = Nobody]
                ELSE [opener[o] EXCEPT !.i = IF n = 7 THEN 1 ELSE n + 1,
                                       !.pc = IF n = 7 THEN "access" ELSE "layout"]
<1>1. opener[o] \in OpenerState /\ n \in 1..7 /\ 1..Len(Layout) = 1..7
  BY OpenerTyped, Records DEF OpenerState
<1>2. s \in OpenerState /\ s.pc \in {"start", "layout", "access"}
  <2>1. CASE ~Exists(Layout[n])
    BY <2>1, OpenerTyped
  <2>2. CASE Exists(Layout[n])
    <3> DEFINE l == IF n = 7 THEN "access" ELSE "layout"
               j == IF n = 7 THEN 1 ELSE n + 1
    <3>1. j \in 1..Len(Layout) /\ l \in {"access", "layout"}
      BY <1>1
    <3>2. s = [opener[o] EXCEPT !.i = j, !.pc = l]
      BY <2>2
    <3> HIDE DEF s, l, j
    <3>3. QED
      BY <1>1, <3>1, <3>2 DEF OpenerState
  <2>3. QED
    BY <2>1, <2>2
<1>3. opener' = [opener EXCEPT ![o] = s] /\ opener[o].pc = "layout"
      /\ UNCHANGED <<fs, mode, flock, row, creator, faults>>
  BY Records DEF CheckLayout, OpenerAt, Closes, OnlyOpeners, IndInv, TypeOK
<1> HIDE DEF s
<1>4. QED
  BY <1>2, <1>3, NoChange, OpenerGoesOn

LEMMA ChooseAccessInv ==
    ASSUME IndInv, NEW o \in Opener, ChooseAccess(o)
    PROVE  IndInv'
<1>1. PICK s \in OpenerState : s.pc \in {"start", "database"} /\ opener' = [opener EXCEPT ![o] = s]
  BY OpenerMoves DEF ChooseAccess
<1>2. opener[o].pc = "access" /\ UNCHANGED <<fs, mode, flock, row, creator, faults>>
  BY DEF ChooseAccess, OpenerAt, OnlyOpeners
<1>3. QED
  BY <1>1, <1>2, NoChange, OpenerGoesOn

LEMMA OpenDatabaseInv ==
    ASSUME IndInv, NEW o \in Opener, OpenDatabase(o)
    PROVE  IndInv'
<1>1. opener[o].pc = "database" /\ UNCHANGED <<mode, flock, row, creator, faults>>
  BY DEF OpenDatabase, OpenerAt
<1>2. SqliteChanges
  <2>1. CASE UNCHANGED fs
    BY <2>1, NoChange
  <2>2. CASE ~UNCHANGED fs
    <3>1. /\ fs' = [p \in Path |-> IF p = "journal" THEN Nobody
                                   ELSE IF p \in {"db", "wal", "shm"} /\ ~Exists(p) THEN o ELSE fs[p]]
          /\ Exists("root")
      BY <2>2 DEF OpenDatabase
    <3>2. QED
      BY <3>1 DEF IndInv, TypeOK, SqliteChanges, Exists
  <2>3. QED
    BY <2>1, <2>2
<1>3. fs'["db"] \in Creator \cup Opener \cup {Nobody}
  BY <1>2, Paths, LedgerSet, Names DEF SqliteChanges, IndInv, OwnerInv, TypeOK
<1>4. PICK s \in OpenerState : s.pc \in {"start", "load"} /\ opener' = [opener EXCEPT ![o] = s]
  <2>1. CASE Closes(o)
    BY <2>1, OpenerMoves
  <2>2. CASE opener' = [opener EXCEPT ![o].pc = "load", ![o].db = fs'["db"]]
    <3>1. [opener[o] EXCEPT !.pc = "load", !.db = fs'["db"]] \in OpenerState
      BY <1>3, OpenerTyped DEF OpenerState
    <3>2. [opener[o] EXCEPT !.pc = "load", !.db = fs'["db"]].pc = "load"
      BY OpenerTyped DEF OpenerState
    <3>3. QED
      BY <2>2, <3>1, <3>2
  <2>3. QED
    BY <2>1, <2>2 DEF OpenDatabase
<1>5. QED
  BY <1>1, <1>2, <1>4, OpenerGoesOn

LEMMA LoadInfoInv ==
    ASSUME IndInv, NEW o \in Opener, LoadInfo(o)
    PROVE  IndInv'
<1>1. PICK s \in OpenerState : /\ opener' = [opener EXCEPT ![o] = s]
                               /\ s.pc = "start" \/ (s.pc = "open" /\ s.db \in row)
  BY OpenerMoves DEF LoadInfo
<1>2. opener[o].pc = "load" /\ UNCHANGED <<fs, mode, flock, row, creator, faults>>
  BY DEF LoadInfo, OpenerAt, OnlyOpeners
<1>3. QED
  BY <1>1, <1>2, NoChange, OpenerGoesOn

\* A writer gets the lock of the file that is there, or of one it makes; either
\* way the creator of what it opened does not have it.
LEMMA StartWritingInv ==
    ASSUME IndInv, NEW o \in Opener, StartWriting(o)
    PROVE  IndInv'
<1> DEFINE s == [opener[o] EXCEPT !.pc = "writing"]
           n == LockInode(o)
<1>1. /\ opener' = [opener EXCEPT ![o] = s] /\ opener[o].pc = "open"
      /\ CanLock(o) /\ TakeLock(o) /\ UNCHANGED <<mode, row, creator, faults>>
  BY DEF StartWriting, OpenerAt, OpenerGoes
<1>2. s \in OpenerState /\ s.pc = "writing" /\ s.db = opener[o].db /\ opener[o].db \in row
  BY <1>1, OpenerTyped DEF IndInv, RowInv
<1>3. "lock" \in Path
  BY Paths, LedgerSet
<1>4. n \in Creator \cup Opener /\ flock[n] = Nobody
  BY <1>1, <1>3 DEF IndInv, TypeOK, CanLock, LockInode, Exists
<1>5. SqliteChanges
  BY <1>1, <1>3 DEF IndInv, TypeOK, SqliteChanges, TakeLock, CanLock, LockInode, Exists
<1>6. /\ flock' \in [Creator \cup Opener -> Creator \cup Opener \cup {Nobody}]
      /\ flock'[n] = o /\ \A x \in (Creator \cup Opener) \ {n} : flock'[x] = flock[x]
  BY <1>1, <1>4 DEF IndInv, TypeOK, TakeLock
<1>7. \A d \in Creator : ~creator[d].locked
  <2> SUFFICES ASSUME NEW d \in Creator, creator[d].locked PROVE FALSE
    OBVIOUS
  <2>1. flock[d] = d /\ "lock" \in creator[d].made
    BY DEF IndInv, LockInv
  <2>2. n = d
    BY <2>1, Owned DEF LockInode
  <2>3. QED
    BY <1>4, <2>1, <2>2, Names
<1> HIDE DEF s, n
<1>8. /\ opener' \in [Opener -> OpenerState]
      /\ opener'[o] = s /\ \A x \in Opener \ {o} : opener'[x] = opener[x]
  BY <1>1, <1>2, OneOpener
<1>9. LockInv'
  <2>1. \A x \in Creator \cup Opener, d \in Creator : flock'[x] # d
    BY <1>6, <1>7, Names DEF IndInv, LockInv
  <2>2. \A x \in Creator \cup Opener, y \in Opener : flock'[x] = y => opener'[y].pc = "writing"
    BY <1>2, <1>6, <1>8 DEF IndInv, LockInv
  <2>3. QED
    BY <1>1, <1>7, <2>1, <2>2 DEF LockInv
<1>10. \A x \in Opener : opener'[x].pc \in {"open", "writing"} => opener'[x].db \in row
  BY <1>2, <1>8 DEF IndInv, RowInv
<1>11. QED
  BY <1>1, <1>5, <1>6, <1>8, <1>9, <1>10, OpenersInv

LEMMA CloseRepositoryInv ==
    ASSUME IndInv, NEW o \in Opener, CloseRepository(o)
    PROVE  IndInv'
<1> DEFINE s == [opener[o] EXCEPT !.pc = "start", !.i = 1, !.db = Nobody]
<1>1. opener' = [opener EXCEPT ![o] = s] /\ Release(o) /\ UNCHANGED <<fs, mode, row, creator, faults>>
  BY DEF CloseRepository, Closes
<1>2. s \in OpenerState /\ s.pc = "start"
  BY OpenerTyped
<1> HIDE DEF s
<1>3. /\ opener' \in [Opener -> OpenerState]
      /\ opener'[o] = s /\ \A x \in Opener \ {o} : opener'[x] = opener[x]
  BY <1>1, <1>2, OneOpener
<1>4. /\ flock' \in [Creator \cup Opener -> Creator \cup Opener \cup {Nobody}]
      /\ \A n \in Creator \cup Opener : IF flock[n] = o THEN flock'[n] = Nobody ELSE flock'[n] = flock[n]
  BY <1>1, ReleaseInv
<1>5. LockInv'
  <2>1. \A d \in Creator : creator'[d].locked => flock'[d] = d /\ "lock" \in creator'[d].made
    BY <1>1, <1>4, Names DEF IndInv, LockInv
  <2>2. \A n \in Creator \cup Opener, d \in Creator : flock'[n] = d => n = d /\ creator'[d].locked
    BY <1>1, <1>4, Names DEF IndInv, LockInv
  <2>3. \A n \in Creator \cup Opener, x \in Opener : flock'[n] = x => opener'[x].pc = "writing"
    BY <1>3, <1>4, Names DEF IndInv, LockInv
  <2>4. \A x \in Opener, d \in Creator :
          opener'[x].pc = "writing" /\ opener'[x].db = d => ~creator'[d].locked
    BY <1>1, <1>2, <1>3 DEF IndInv, LockInv
  <2>5. QED
    BY <2>1, <2>2, <2>3, <2>4 DEF LockInv
<1>6. \A x \in Opener : opener'[x].pc \in {"open", "writing"} => opener'[x].db \in row
  BY <1>2, <1>3 DEF IndInv, RowInv
<1>7. QED
  BY <1>1, <1>3, <1>4, <1>5, <1>6, NoChange, OpenersInv

-----------------------------------------------------------------------------
(* Cleanup *)

\* CleanRecord's last step: on to the next record.
Done(record) ==
    LET k == NextRecord(record, record.i)
    IN [record EXCEPT !.i = k,
                      !.pc = IF k # 0 THEN @ ELSE IF @ = "clean" THEN "unlock" ELSE "restore"]

\* Of what a phase has come past it leaves what it protects, and the root if others
\* have something in it.
LEMMA DoneInv ==
    ASSUME NEW r \in CreatorState, r.pc \in {"clean", "cleanAgain"}, r.i \in 1..11,
           r.made \subseteq ToSet(Ledger), r.pc = "cleanAgain" => ~r.locked,
           ~r.stuck => \A j \in r.i..11 : Ledger[j] \in r.made =>
                           j = 1 \/ (r.pc = "clean" /\ r.locked /\ Ledger[j] \in Protected),
           ~r.stuck /\ r.pc = "cleanAgain" => r.made \subseteq {"root", "lock"}
    PROVE  LET s == Done(r)
           IN /\ s \in CreatorState /\ s.pc \in {"clean", "unlock", "cleanAgain", "restore"}
              /\ s.made = r.made /\ s.locked = r.locked /\ s.existed = r.existed
              /\ s.original = r.original /\ s.changed = r.changed /\ s.stuck = r.stuck
              /\ s.pc = "clean" => r.pc = "clean"
              /\ LedgerOK(s) /\ CleanedOK(s)
<1> DEFINE k == NextRecord(r, r.i)
           l == IF k # 0 THEN r.pc ELSE IF r.pc = "clean" THEN "unlock" ELSE "restore"
           s == Done(r)
<1>1. r.i \in 1..12
  OBVIOUS
<1>2. /\ k \in 0..(r.i - 1)
      /\ k # 0 => k \in 1..11 /\ Ledger[k] \in r.made /\ ~(r.locked /\ Ledger[k] \in Protected)
      /\ \A j \in (k + 1)..(r.i - 1) : Ledger[j] \in r.made => r.locked /\ Ledger[j] \in Protected
  BY <1>1, NextRecordFound
<1>3. s = [r EXCEPT !.i = k, !.pc = l]
  BY DEF Done
<1>4. l = IF k # 0 THEN r.pc ELSE IF r.pc = "clean" THEN "unlock" ELSE "restore"
  OBVIOUS
<1> HIDE DEF k, l, s
<1>5. s \in CreatorState
  <2>1. l \in Label /\ k \in 0..(Len(Ledger) + 1)
    BY <1>2, <1>4, Records DEF Label
  <2>2. QED
    BY <1>3, <2>1 DEF CreatorState
<1>6. /\ s.pc = l /\ s.i = k /\ s.made = r.made /\ s.locked = r.locked /\ s.existed = r.existed
      /\ s.original = r.original /\ s.changed = r.changed /\ s.stuck = r.stuck
  BY <1>3 DEF CreatorState
<1>7. LedgerOK(s)
  BY <1>2, <1>4, <1>6, Records DEF LedgerOK, Before, WithRow, Ended
<1>8. CleanedOK(s)
  <2> SUFFICES ASSUME ~r.stuck PROVE CleanedOK(s)
    BY <1>6 DEF CleanedOK
  <2>1. \A j \in (k + 1)..11 : Ledger[j] \in r.made =>
            (j = 1 /\ r.i = 1) \/ (r.locked /\ Ledger[j] \in Protected)
    <3> SUFFICES ASSUME NEW j \in (k + 1)..11, Ledger[j] \in r.made
                 PROVE  (j = 1 /\ r.i = 1) \/ (r.locked /\ Ledger[j] \in Protected)
      OBVIOUS
    <3>1. k \in Int /\ r.i \in Int /\ (j \in (k + 1)..(r.i - 1) \/ j \in r.i..11)
      BY <1>2
    <3>2. QED
      BY <1>2, <3>1
  <2>2. CASE k # 0
    <3>1. s.pc = r.pc /\ r.i > 1
      BY <1>2, <1>4, <1>6, <2>2
    <3>2. \A j \in (s.i + 1)..Len(Ledger) : Ledger[j] \in s.made => s.locked /\ Ledger[j] \in Protected
      BY <1>6, <2>1, <3>1, Records
    <3>3. QED
      BY <1>6, <3>1, <3>2 DEF CleanedOK
  <2>3. CASE k = 0
    <3>1. s.pc = IF r.pc = "clean" THEN "unlock" ELSE "restore"
      BY <1>4, <1>6, <2>3
    <3>2. ASSUME NEW q \in r.made PROVE q = "root" \/ (r.locked /\ q \in Protected)
      <4>1. PICK j \in 1..11 : q = Ledger[j]
        BY <3>2, Numbers
      <4>2. QED
        BY <2>1, <2>3, <4>1, Records
    <3>3. QED
      BY <1>6, <3>1, <3>2 DEF CleanedOK, Protected
  <2>4. QED
    BY <2>2, <2>3
<1>9. QED
  BY <1>4, <1>5, <1>6, <1>7, <1>8 DEF s

\* What the cleanup comes to is in the ledger, so it is the creator's own; what is
\* above it in the ledger is gone or protected.
LEMMA AtClean ==
    ASSUME IndInv, NEW c \in Creator, creator[c].pc \in {"clean", "cleanAgain"}
    PROVE  LET r == creator[c]
           IN /\ r.i \in 1..11 /\ r.made \subseteq ToSet(Ledger) /\ Ledger[r.i] \in r.made
              /\ ~(r.locked /\ Ledger[r.i] \in Protected)
              /\ r.pc = "cleanAgain" => ~r.locked
              /\ Ledger[r.i] # "journal" => fs[Ledger[r.i]] = c
              /\ ~r.stuck => \A j \in (r.i + 1)..11 : Ledger[j] \in r.made =>
                                 r.pc = "clean" /\ r.locked /\ Ledger[j] \in Protected
              /\ ~r.stuck /\ r.pc = "cleanAgain" => r.made \subseteq {"root", "lock"}
<1> DEFINE r == creator[c]
<1>1. /\ r.i \in 1..11 /\ r.made \subseteq ToSet(Ledger) /\ Ledger[r.i] \in r.made
      /\ ~(r.locked /\ Ledger[r.i] \in Protected)
      /\ r.pc = "cleanAgain" => ~r.locked
  BY Known, Records DEF LedgerOK
<1>2. Ledger[r.i] # "journal" => fs[Ledger[r.i]] = c
  BY <1>1, Owned
<1>3. CleanedOK(r)
  BY Known
<1>4. ~r.stuck => \A j \in (r.i + 1)..11 : Ledger[j] \in r.made =>
                       r.pc = "clean" /\ r.locked /\ Ledger[j] \in Protected
  BY <1>3, Records DEF CleanedOK
<1>5. ~r.stuck /\ r.pc = "cleanAgain" => r.made \subseteq {"root", "lock"}
  BY <1>3 DEF CleanedOK
<1>6. QED
  BY <1>1, <1>2, <1>4, <1>5

\* A removal that fails. When no error made it fail, it was the root, and others
\* have something in it: the directory of temporary files holds only what its
\* creator made there.
LEMMA NotRemovedInv ==
    ASSUME IndInv, NEW c \in Creator, creator[c].pc \in {"clean", "cleanAgain"},
           NEW full \in BOOLEAN, full <=> \E q \in Contents(Ledger[creator[c].i]) : Exists(q),
           faults' \in 0..MaxFaults, faults' = 0 => faults = 0,
           creator' = [creator EXCEPT ![c] = Done([creator[c] EXCEPT !.stuck = @ \/ ~full])],
           UNCHANGED <<fs, mode, flock, row, opener>>
    PROVE  IndInv'
<1> DEFINE r0 == [creator[c] EXCEPT !.stuck = @ \/ ~full]
           i == creator[c].i
           p == Ledger[i]
           r == Done(r0)
<1>1. /\ creator[c] \in CreatorState /\ i \in 1..11 /\ p \in creator[c].made
      /\ creator[c].made \subseteq ToSet(Ledger)
      /\ creator[c].pc = "cleanAgain" => ~creator[c].locked
      /\ ~creator[c].stuck => \A j \in (i + 1)..11 : Ledger[j] \in creator[c].made =>
                         creator[c].pc = "clean" /\ creator[c].locked /\ Ledger[j] \in Protected
      /\ ~creator[c].stuck /\ creator[c].pc = "cleanAgain" => creator[c].made \subseteq {"root", "lock"}
  BY Known, AtClean
<1>2. /\ r0 \in CreatorState /\ r0.pc = creator[c].pc /\ r0.i = i /\ r0.made = creator[c].made
      /\ r0.locked = creator[c].locked /\ r0.stuck = (creator[c].stuck \/ ~full)
      /\ r0.existed = creator[c].existed /\ r0.original = creator[c].original
      /\ r0.changed = creator[c].changed
  BY <1>1 DEF CreatorState
<1> HIDE DEF r0
<1>3. ~r0.stuck => i = 1
  <2> SUFFICES ASSUME ~creator[c].stuck, full, i # 1 PROVE FALSE
    BY <1>2
  <2>1. PICK q \in Contents(p) : Exists(q)
    OBVIOUS
  <2>2. p \in Path /\ p # "root"
    BY <1>1, Numbers, Paths
  <2>3. p = "temporary" /\ q \in {"temporary/objects", "temporary/restores"}
    BY <2>1, <2>2, Paths
  <2>4. fs[q] = c /\ q \in creator[c].made
    <3>1. fs["temporary"] = c /\ q \in Path
      BY <1>1, <2>3, Owned, Paths, LedgerSet
    <3>2. fs[q] = c
      BY <2>1, <2>3, <3>1 DEF IndInv, OwnerInv
    <3>3. QED
      BY <3>1, <3>2 DEF IndInv, OwnerInv
  <2>5. PICK j \in {4, 5} : q = Ledger[j]
    BY <2>3, Records
  <2>6. i = 3 /\ j \in (i + 1)..11
    BY <1>1, <2>3, Numbers
  <2>7. QED
    BY <1>1, <2>3, <2>4, <2>5, <2>6 DEF Protected
<1>4. ~r0.stuck => \A j \in r0.i..11 : Ledger[j] \in r0.made =>
                       j = 1 \/ (r0.pc = "clean" /\ r0.locked /\ Ledger[j] \in Protected)
  <2> SUFFICES ASSUME ~r0.stuck, NEW j \in r0.i..11, Ledger[j] \in r0.made, j # 1
               PROVE  r0.pc = "clean" /\ r0.locked /\ Ledger[j] \in Protected
    OBVIOUS
  <2>1. j \in (i + 1)..11 /\ ~creator[c].stuck
    <3>1. i = 1 /\ r0.i = 1
      BY <1>2, <1>3
    <3>2. j \in (i + 1)..11
      BY <3>1
    <3>3. ~creator[c].stuck
      BY <1>2
    <3>4. QED
      BY <3>2, <3>3
  <2>2. QED
    BY <1>1, <1>2, <2>1
<1>5. /\ r \in CreatorState /\ r.pc \in {"clean", "unlock", "cleanAgain", "restore"}
      /\ r.made = r0.made /\ r.locked = r0.locked /\ r.existed = r0.existed
      /\ r.original = r0.original /\ r.changed = r0.changed
      /\ r.pc = "clean" => r0.pc = "clean"
      /\ LedgerOK(r) /\ CleanedOK(r)
  BY <1>1, <1>2, <1>4, DoneInv
<1>6. creator' = [creator EXCEPT ![c] = r]
  BY DEF r0
<1> HIDE DEF r
<1>7. RowOK(c, r)
  BY <1>2, <1>5, Known DEF RowOK, WithRow
<1>8. LookedOK(r) /\ (Undisturbed => RootOK(r))
  BY <1>2, <1>5, Known DEF LookedOK, RootOK, Ended
<1>9. HopeInv'
  BY <1>2, <1>5, <1>6, <1>8, LocalHope DEF Lost, LostAt
<1>10. QED
  BY <1>2, <1>5, <1>6, <1>7, <1>9, Known, LocalInv

\* A removal: of the creator's own, which nothing is in.
LEMMA RemovedInv ==
    ASSUME IndInv, NEW c \in Creator, creator[c].pc \in {"clean", "cleanAgain"},
           \A q \in Contents(Ledger[creator[c].i]) : ~Exists(q),
           fs' = [fs EXCEPT ![Ledger[creator[c].i]] = Nobody],
           creator' = [creator EXCEPT ![c] =
                          Done([creator[c] EXCEPT !.made = @ \ {Ledger[creator[c].i]}])],
           UNCHANGED <<mode, flock, row, opener, faults>>
    PROVE  IndInv'
<1> DEFINE i == creator[c].i
           p == Ledger[i]
           r0 == [creator[c] EXCEPT !.made = @ \ {p}]
           r == Done(r0)
<1>1. /\ creator[c] \in CreatorState /\ i \in 1..11 /\ p \in creator[c].made
      /\ creator[c].made \subseteq ToSet(Ledger)
      /\ ~(creator[c].locked /\ p \in Protected)
      /\ creator[c].pc = "cleanAgain" => ~creator[c].locked
      /\ p # "journal" => fs[p] = c
      /\ ~creator[c].stuck => \A j \in (i + 1)..11 : Ledger[j] \in creator[c].made =>
                         creator[c].pc = "clean" /\ creator[c].locked /\ Ledger[j] \in Protected
      /\ ~creator[c].stuck /\ creator[c].pc = "cleanAgain" => creator[c].made \subseteq {"root", "lock"}
  BY Known, AtClean
<1>2. /\ r0 \in CreatorState /\ r0.pc = creator[c].pc /\ r0.i = i
      /\ r0.made = creator[c].made \ {p}
      /\ r0.locked = creator[c].locked /\ r0.stuck = creator[c].stuck
      /\ r0.existed = creator[c].existed /\ r0.original = creator[c].original
      /\ r0.changed = creator[c].changed
  BY <1>1 DEF CreatorState
<1> HIDE DEF r0
<1>3. ~r0.stuck => \A j \in r0.i..11 : Ledger[j] \in r0.made =>
                       j = 1 \/ (r0.pc = "clean" /\ r0.locked /\ Ledger[j] \in Protected)
  <2> SUFFICES ASSUME ~r0.stuck, NEW j \in r0.i..11, Ledger[j] \in r0.made
               PROVE  r0.pc = "clean" /\ r0.locked /\ Ledger[j] \in Protected
    OBVIOUS
  <2>1. j # i /\ j \in i..11
    BY <1>2
  <2>2. j \in (i + 1)..11
    BY <1>1, <2>1
  <2>3. QED
    BY <1>1, <1>2, <2>2
<1>4. /\ r \in CreatorState /\ r.pc \in {"clean", "unlock", "cleanAgain", "restore"}
      /\ r.made = r0.made /\ r.locked = r0.locked /\ r.existed = r0.existed
      /\ r.original = r0.original /\ r.changed = r0.changed
      /\ r.pc = "clean" => r0.pc = "clean"
      /\ LedgerOK(r) /\ CleanedOK(r)
  BY <1>1, <1>2, <1>3, DoneInv
<1>5. creator' = [creator EXCEPT ![c] = r]
  BY DEF r0
<1> HIDE DEF r
<1>6. creator'[c] = r /\ \A d \in Creator \ {c} : creator'[d] = creator[d]
  BY <1>5, OneCreator
<1>7. p \in Path /\ {"root", "temporary", "journal", "objects"} \subseteq Path
  BY <1>1, Paths, LedgerSet
<1>8. /\ fs' \in [Path -> Creator \cup Opener \cup {Nobody, User}]
      /\ fs'[p] = Nobody /\ \A q \in Path \ {p} : fs'[q] = fs[q]
  BY <1>7 DEF IndInv, TypeOK
<1>9. TypeOK'
  BY <1>4, <1>5, <1>8 DEF IndInv, TypeOK
<1>10. OwnerInv'
  <2>1. \A q \in Path \ {"root"} : Exists(q)' => Exists(Directory(q))'
    <3> SUFFICES ASSUME NEW q \in Path \ {"root"}, Exists(q)' PROVE Exists(Directory(q))'
      OBVIOUS
    <3>1. Exists(q) /\ q # p
      BY <1>8 DEF Exists
    <3>2. Exists(Directory(q)) /\ Directory(q) \in Path
      BY <1>7, <3>1, Paths DEF IndInv, OwnerInv
    <3>3. Directory(q) # p
      BY <3>1 DEF Contents
    <3>4. QED
      BY <1>8, <3>2, <3>3 DEF Exists
  <2>2. \A d \in Creator : \A q \in creator'[d].made \ {"journal"} : fs'[q] = d
    <3> SUFFICES ASSUME NEW d \in Creator, NEW q \in creator'[d].made \ {"journal"}
                 PROVE  fs'[q] = d
      OBVIOUS
    <3>1. q \in creator[d].made /\ q \in Path /\ (d = c => q # p)
      BY <1>2, <1>4, <1>6 DEF IndInv, TypeOK, CreatorState
    <3>2. fs[q] = d
      BY <3>1 DEF IndInv, OwnerInv
    <3>3. q # p
      BY <1>1, <3>1, <3>2
    <3>4. QED
      BY <1>8, <3>1, <3>2, <3>3
  <2>3. \A d \in Creator, q \in Path : fs'[q] = d => q \in creator'[d].made
    <3> SUFFICES ASSUME NEW d \in Creator, NEW q \in Path, fs'[q] = d PROVE q \in creator'[d].made
      OBVIOUS
    <3>1. q # p /\ fs[q] = d
      BY <1>8, Names
    <3>2. q \in creator[d].made
      BY <3>1 DEF IndInv, OwnerInv
    <3>3. QED
      BY <1>2, <1>4, <1>6, <3>1, <3>2
  <2>4. \A q \in Path \ {"root", "keep", "wal"} : fs'[q] # User
    BY <1>8, Names DEF IndInv, OwnerInv
  <2>5. fs'["root"] \notin Opener /\ fs'["journal"] \notin Opener
    BY <1>7, <1>8, Names DEF IndInv, OwnerInv
  <2>6. \A q \in Contents("temporary") : Exists(q)' => fs'[q] = fs'["temporary"]
    <3> SUFFICES ASSUME NEW q \in Contents("temporary"), Exists(q)' PROVE fs'[q] = fs'["temporary"]
      OBVIOUS
    <3>1. q \in Path /\ q # p /\ Exists(q)
      BY <1>8 DEF Exists, Contents
    <3>2. p # "temporary"
      BY <3>1
    <3>3. QED
      BY <1>7, <1>8, <3>1, <3>2 DEF IndInv, OwnerInv
  <2>7. QED
    BY <2>1, <2>2, <2>3, <2>4, <2>5, <2>6 DEF OwnerInv
<1>11. LedgerInv' /\ CleanedInv'
  BY <1>4, <1>6, RecordsKept
<1>12. LockInv'
  <2>1. \A d \in Creator : creator'[d].locked = creator[d].locked
    BY <1>2, <1>4, <1>6
  <2>2. \A d \in Creator : creator'[d].locked /\ "lock" \in creator[d].made => "lock" \in creator'[d].made
    BY <1>1, <1>2, <1>4, <1>6 DEF Protected
  <2>3. QED
    BY <2>1, <2>2 DEF IndInv, LockInv
<1>13. RowInv'
  <2>1. RowOK(c, r)
    BY <1>2, <1>4, Known DEF RowOK, WithRow
  <2>2. QED
    BY <1>6, <2>1 DEF IndInv, RowInv, RowOK
<1>14. HopeInv'
  <2>1. fs'["root"] = User => fs["root"] = User
    BY <1>7, <1>8, Names
  <2>2. ASSUME NEW d \in Creator PROVE LookedOK(creator[d])'
    <3>1. CASE d = c
      BY <1>2, <1>4, <1>6, <2>1, <3>1, Known DEF LookedOK, Ended
    <3>2. CASE d # c
      BY <1>6, <2>1, <3>2, Known DEF LookedOK
    <3>3. QED
      BY <3>1, <3>2
  <2>3. ~Undisturbed'
    <3> SUFFICES ASSUME Undisturbed' PROVE FALSE
      OBVIOUS
    <3>1. fs[p] \in Creator \cup {Nobody}
      BY <1>1, <1>7 DEF IndInv, OwnerInv, TypeOK
    <3>2. Undisturbed
      BY <1>8, <3>1 DEF Undisturbed
    <3>3. creator[c].made \subseteq {"root"} /\ Exists("objects")
      BY <1>1, <3>2 DEF IndInv, HopeInv, Lost, LostAt
    <3>4. QED
      BY <1>1, <3>3, Paths
  <2>4. QED
    BY <2>2, <2>3 DEF HopeInv
<1>15. QED
  BY <1>9, <1>10, <1>11, <1>12, <1>13, <1>14 DEF IndInv

LEMMA CleanRecordInv ==
    ASSUME IndInv, NEW c \in Creator, CleanRecord(c)
    PROVE  IndInv'
<1> DEFINE p == Ledger[creator[c].i]
           full == \E q \in Contents(p) : Exists(q)
<1>1. creator[c].pc \in {"clean", "cleanAgain"} /\ UNCHANGED <<mode, flock, row, opener>>
  BY DEF CleanRecord, At
<1>2. CASE /\ ~full /\ fs' = [fs EXCEPT ![p] = Nobody] /\ UNCHANGED faults
           /\ creator' = [creator EXCEPT ![c] = Done([creator[c] EXCEPT !.made = @ \ {p}])]
  BY <1>1, <1>2, RemovedInv
<1>3. CASE /\ full \/ faults < MaxFaults
           /\ faults' = IF full THEN faults ELSE faults + 1
           /\ creator' = [creator EXCEPT ![c] = Done([creator[c] EXCEPT !.stuck = @ \/ ~full])]
           /\ UNCHANGED fs
  <2>1. faults' \in 0..MaxFaults /\ (faults' = 0 => faults = 0)
    BY <1>3, Known, FaultAssumption
  <2>2. full \in BOOLEAN
    OBVIOUS
  <2>3. QED
    BY <1>1, <1>3, <2>1, <2>2, NotRemovedInv
<1>4. QED
  BY <1>2, <1>3 DEF CleanRecord, Done

-----------------------------------------------------------------------------
(* The theorems *)

LEMMA InitInv == Init => IndInv
<1> SUFFICES ASSUME Init PROVE IndInv
  OBVIOUS
<1>1. PICK kept \in {{}, {"root"}, {"root", "keep"}, {"root", "wal"}} :
        fs = [p \in Path |-> IF p \in kept THEN User ELSE Nobody]
  BY DEF Init
<1>2. \A p \in Path : fs[p] = IF p \in kept THEN User ELSE Nobody
  BY <1>1
<1>3. /\ mode = "shared" /\ flock = [q \in Creator \cup Opener |-> Nobody] /\ row = {} /\ faults = 0
      /\ creator \in [Creator -> {[pc |-> "look", i |-> 1, allow |-> allow, existed |-> FALSE,
                                 original |-> "unknown", changed |-> FALSE, made |-> {},
                                 locked |-> FALSE, stuck |-> FALSE] : allow \in BOOLEAN}]
      /\ opener \in [Opener -> {[pc |-> "start", i |-> 1, mode |-> m, db |-> Nobody] : m \in OpenModes}]
  BY DEF Init
<1>4. ASSUME NEW c \in Creator
      PROVE  /\ creator[c] \in CreatorState /\ creator[c].pc = "look" /\ creator[c].i = 1
             /\ creator[c].made = {} /\ ~creator[c].locked /\ ~creator[c].stuck
             /\ ~creator[c].existed /\ ~creator[c].changed
  <2>1. PICK allow \in BOOLEAN :
          creator[c] = [pc |-> "look", i |-> 1, allow |-> allow, existed |-> FALSE,
                        original |-> "unknown", changed |-> FALSE, made |-> {},
                        locked |-> FALSE, stuck |-> FALSE]
    BY <1>3
  <2>2. 1 \in 0..(Len(Ledger) + 1) /\ "look" \in Label
    BY Records DEF Label
  <2>3. QED
    BY <2>1, <2>2 DEF CreatorState
<1>5. ASSUME NEW o \in Opener PROVE opener[o] \in OpenerState /\ opener[o].pc = "start"
  <2>1. PICK m \in OpenModes : opener[o] = [pc |-> "start", i |-> 1, mode |-> m, db |-> Nobody]
    BY <1>3
  <2>2. 1 \in 1..Len(Layout)
    BY Records
  <2>3. QED
    BY <2>1, <2>2 DEF OpenerState
<1>6. TypeOK
  <2>1. creator \in [Creator -> CreatorState] /\ opener \in [Opener -> OpenerState]
    BY <1>3, <1>4, <1>5
  <2>2. fs \in [Path -> Creator \cup Opener \cup {Nobody, User}]
    BY <1>1
  <2>3. QED
    BY <1>3, <2>1, <2>2, FaultAssumption DEF TypeOK
<1>7. OwnerInv
  <2>1. /\ {"root", "journal"} \subseteq Path /\ Contents("temporary") \subseteq Path
        /\ Contents("temporary") \cap kept = {}
    BY Paths, LedgerSet DEF Contents
  <2>2. \A p \in Path \ {"root"} : Exists(p) => Exists(Directory(p))
    BY <1>2, <2>1, Names DEF Exists, Directory
  <2>3. QED
    BY <1>2, <1>4, <2>1, <2>2, Names DEF OwnerInv, Exists
<1>8. LedgerInv /\ CleanedInv
  BY <1>4 DEF LedgerInv, LedgerOK, CleanedInv, CleanedOK, Before, WithRow, Ended
<1>9. LockInv
  BY <1>3, <1>4, <1>5, Names DEF LockInv
<1>10. RowInv
  BY <1>3, <1>4, <1>5 DEF RowInv, RowOK, WithRow
<1>11. HopeInv
  BY <1>4 DEF HopeInv, LookedOK, RootOK, Lost, LostAt
<1>12. QED
  BY <1>6, <1>7, <1>8, <1>9, <1>10, <1>11 DEF IndInv

LEMMA NextInv == IndInv /\ [Next]_vars => IndInv'
<1> SUFFICES ASSUME IndInv, [Next]_vars PROVE IndInv'
  OBVIOUS
<1>1. ASSUME NEW c \in Creator, CreatorStep(c) PROVE IndInv'
  BY <1>1, LookAtRootInv, InspectRootInv, CheckEmptyInv, CheckReservedInv, FindMissingInv,
     MakePathInv, ValidateRootInv, RestrictRootInv, AcquireLockInv, MigrateInv, InsertRowInv,
     CheckpointInv, ValidateLockedInv, ReleasePublishedInv, CheckFinallyInv, CleanRecordInv,
     UnlockInv, RestorePermissionsInv DEF CreatorStep
<1>2. ASSUME NEW c \in Creator, Throw(c) \/ Crash(c) PROVE IndInv'
  BY <1>2, ThrowInv, CrashInv
<1>3. ASSUME NEW o \in Opener, OpenerStep(o) PROVE IndInv'
  BY <1>3, OpenRootInv, CheckLayoutInv, ChooseAccessInv, OpenDatabaseInv, LoadInfoInv,
     StartWritingInv, CloseRepositoryInv DEF OpenerStep
<1>4. CASE UNCHANGED vars
  <2>1. UNCHANGED <<fs, mode, flock, row, creator, opener, faults>>
    BY <1>4 DEF vars
  <2>2. LockInv'
    BY <2>1 DEF IndInv, LockInv
  <2>3. /\ flock' \in [Creator \cup Opener -> Creator \cup Opener \cup {Nobody}]
        /\ opener' \in [Opener -> OpenerState]
        /\ \A o \in Opener : opener'[o].pc \in {"open", "writing"} => opener'[o].db \in row
    BY <2>1 DEF IndInv, TypeOK, RowInv
  <2>4. QED
    BY <2>1, <2>2, <2>3, NoChange, OpenersInv
<1>5. QED
  BY <1>1, <1>2, <1>3, <1>4 DEF Next

\* The invariant that carries all the others: who owns which path, how far each
\* creator is, who holds which lock, and that no creator gives up in vain.
THEOREM IndInvariant == Spec => []IndInv
  BY InitInv, NextInv, PTL DEF Spec

\* A creation is published only when all its parts are its own, and stays whole;
\* whatever can be opened has its row, and with it all its parts, or is being
\* removed after a failure.
LEMMA WholeFollows == IndInv => RepositoryWhole
<1> SUFFICES ASSUME IndInv PROVE RepositoryWhole
  OBVIOUS
<1>1. PublishedIntact
  <2> SUFFICES ASSUME NEW c \in Creator, Published(c)
               PROVE  Exists("root") /\ Whole(c) /\ c \in row
    BY DEF PublishedIntact
  <2>1. Parts \subseteq creator[c].made /\ c \in row
    BY Known DEF Published, LedgerOK, RowOK, WithRow
  <2>2. QED
    BY <2>1, PartsAreWhole
<1>2. OpenedIsWhole
  <2> SUFFICES ASSUME NEW o \in Opener, opener[o].pc \in {"open", "writing"}
               PROVE  LET c == opener[o].db IN c \in Creator /\ (Whole(c) \/ GivenUp(c))
    BY DEF OpenedIsWhole
  <2> DEFINE c == opener[o].db
  <2>1. c \in row /\ c \in Creator
    BY DEF IndInv, RowInv, TypeOK
  <2>2. CASE Parts \subseteq creator[c].made
    BY <2>1, <2>2, PartsAreWhole
  <2>3. CASE ~(Parts \subseteq creator[c].made)
    <3>1. creator[c].pc \notin WithRow
      BY <2>1, <2>3, Known DEF LedgerOK
    <3>2. GivenUp(c)
      BY <2>1, <2>3, <3>1, Known DEF RowOK, GivenUp
    <3>3. QED
      BY <2>1, <3>2
  <2>4. QED
    BY <2>2, <2>3
<1>3. QED
  BY <1>1, <1>2 DEF RepositoryWhole

\* A repository is whole when it is published and whenever it can be opened, for
\* any number of creators and openers and any faults (Repository::create and
\* Repository::open).
THEOREM WholeRepository == Spec => []RepositoryWhole
  BY IndInvariant, WholeFollows, PTL

LEMMA CreationFollows == IndInv => CreationInv
<1> SUFFICES ASSUME IndInv PROVE CreationInv
  OBVIOUS
<1>1. CleanupExclusive
  BY DEF CleanupExclusive, IndInv, LockInv, RowInv, RowOK
<1>2. SomeoneWins
  <2> SUFFICES ASSUME AllEnded, Undisturbed PROVE \E c \in Creator : Published(c)
    BY DEF SomeoneWins
  <2>1. PICK c \in Creator : TRUE
    BY ProcessAssumption
  <2>2. \E d \in Creator : ~Lost(d)
    BY <2>1 DEF IndInv, HopeInv, Ahead
  <2>3. QED
    BY <2>2 DEF AllEnded, Ended, Lost, LostAt, Published
<1>3. FailureRemovesRepository
  <2> SUFFICES ASSUME AllEnded, NEW p \in Parts, fs[p] \in Creator,
                      \A c \in Creator : ~Published(c) /\ creator[c].pc # "crashed" /\ ~creator[c].stuck
               PROVE  FALSE
    BY DEF FailureRemovesRepository
  <2> DEFINE c == fs[p]
  <2>1. creator[c].pc \in {"refused", "failed"} /\ ~creator[c].stuck
    BY DEF AllEnded, Ended, Published
  <2>2. p \in creator[c].made /\ p # "root"
    BY Paths, PartsSet DEF IndInv, OwnerInv
  <2>3. creator[c].made \subseteq {"root"}
    BY <2>1, Known DEF LedgerOK, CleanedOK, Before
  <2>4. QED
    BY <2>2, <2>3
<1>4. QED
  BY <1>1, <1>2, <1>3 DEF CreationInv, IndInv

\* Failed creations end clean: nobody writes to a repository that is being removed,
\* the removal is complete, and creators that are undisturbed never all lose
\* (Repository::create and its two-phase cleanup).
THEOREM CreationInvariant == Spec => []CreationInv
  BY IndInvariant, CreationFollows, PTL

\* What RemovesOnlyOwn says of a step.
OwnRemoved ==
    \A p \in Path \ {"journal"} :
        fs[p] # Nobody /\ fs'[p] = Nobody =>
            /\ fs[p] \in Creator
            /\ ~Published(fs[p])
            /\ p \in creator[fs[p]].made \ creator'[fs[p]].made

\* Only cleanup removes anything.
LEMMA CleanRecordRemoves ==
    ASSUME IndInv, NEW c \in Creator, CleanRecord(c)
    PROVE  OwnRemoved
<1> DEFINE i == creator[c].i
           q == Ledger[i]
           r0 == [creator[c] EXCEPT !.made = @ \ {q}]
<1>1. creator[c].pc \in {"clean", "cleanAgain"}
  BY DEF CleanRecord, At
<1>2. creator[c] \in CreatorState /\ q \in creator[c].made /\ (q # "journal" => fs[q] = c)
  BY <1>1, Known, AtClean
<1>3. CASE UNCHANGED fs
  BY <1>3 DEF OwnRemoved
<1>4. CASE fs' = [fs EXCEPT ![q] = Nobody] /\ creator' = [creator EXCEPT ![c] = Done(r0)]
  <2>1. creator'[c] = Done(r0)
    BY <1>4, OneCreator
  <2>2. Done(r0).made = creator[c].made \ {q}
    <3>1. r0 \in CreatorState /\ r0.made = creator[c].made \ {q}
      BY <1>2 DEF CreatorState
    <3> HIDE DEF r0
    <3>2. QED
      BY <3>1 DEF Done, CreatorState
  <2>3. \A p \in Path : fs[p] # Nobody /\ fs'[p] = Nobody => p = q
    BY <1>4 DEF IndInv, TypeOK
  <2>4. ~Published(c)
    BY <1>1 DEF Published
  <2>5. QED
    BY <1>2, <2>1, <2>2, <2>3, <2>4 DEF OwnRemoved
<1>5. QED
  BY <1>3, <1>4 DEF CleanRecord, Done

LEMMA StepRemoves ==
    ASSUME IndInv, Next
    PROVE  OwnRemoved
<1>1. ASSUME NEW c \in Creator, CreatorStep(c) \/ Throw(c) \/ Crash(c) PROVE OwnRemoved
  <2>1. CASE CleanRecord(c)
    BY <2>1, CleanRecordRemoves
  <2>2. CASE MakePath(c)
    <3>1. UNCHANGED fs \/ fs' = [fs EXCEPT ![Ledger[creator[c].i]] = c]
      BY <2>2 DEF MakePath
    <3>2. QED
      BY <3>1, Names DEF OwnRemoved, IndInv, TypeOK
  <2>3. CASE AcquireLock(c)
    <3>1. UNCHANGED fs \/ fs' = [fs EXCEPT !["lock"] = LockInode(c)]
      BY <2>3 DEF AcquireLock, TakeLock
    <3>2. LockInode(c) # Nobody
      BY Names DEF LockInode, Exists
    <3>3. QED
      BY <3>1, <3>2 DEF OwnRemoved, IndInv, TypeOK
  <2>4. CASE Migrate(c)
    BY <2>4 DEF Migrate, OwnRemoved, IndInv, TypeOK
  <2>5. CASE UNCHANGED fs
    BY <2>5 DEF OwnRemoved
  <2>6. QED
    BY <1>1, <2>1, <2>2, <2>3, <2>4, <2>5
    DEF CreatorStep, Throw, Crash, LookAtRoot, InspectRoot, CheckEmpty, CheckReserved, FindMissing,
        ValidateRoot, RestrictRoot, InsertRow, Checkpoint, ValidateLocked, ReleasePublished,
        CheckFinally, Unlock, RestorePermissions, OnlyCreators
<1>2. ASSUME NEW o \in Opener, OpenerStep(o) PROVE OwnRemoved
  <2>1. CASE OpenDatabase(o)
    <3>1. \A p \in Path \ {"journal"} : fs[p] # Nobody => fs'[p] = fs[p]
      BY <2>1 DEF OpenDatabase, Exists
    <3>2. QED
      BY <3>1 DEF OwnRemoved
  <2>2. CASE StartWriting(o)
    <3>1. fs' = [fs EXCEPT !["lock"] = LockInode(o)]
      BY <2>2 DEF StartWriting, TakeLock
    <3>2. LockInode(o) # Nobody
      BY Names DEF LockInode, Exists
    <3>3. QED
      BY <3>1, <3>2 DEF OwnRemoved, IndInv, TypeOK
  <2>3. CASE UNCHANGED fs
    BY <2>3 DEF OwnRemoved
  <2>4. QED
    BY <1>2, <2>1, <2>2, <2>3
    DEF OpenerStep, OpenRoot, CheckLayout, ChooseAccess, LoadInfo, CloseRepository, OnlyOpeners
<1>3. QED
  BY <1>1, <1>2 DEF Next

\* Cleanup, which removes by name, never removes what another process or the user
\* made, nor anything of a published repository (CreationLedger::cleanup).
THEOREM OnlyOwnRemoved == Spec => RemovesOnlyOwn
<1>1. IndInv /\ [Next]_vars => [OwnRemoved]_vars
  BY StepRemoves
<1>2. QED
  BY <1>1, IndInvariant, PTL DEF Spec, RemovesOnlyOwn, OwnRemoved
=============================================================================
