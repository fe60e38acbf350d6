------------------------- MODULE RepositoryCreation -------------------------
(***************************************************************************)
(* Repository::create, run by several processes on one path, with others   *)
(* that open the path meanwhile, I/O errors and process crashes.           *)
(*                                                                         *)
(* Nothing is locked before repository.lock exists, so what keeps creators *)
(* apart is that every path is made exclusively and that cleanup removes,  *)
(* by name, only what its ledger says it made. Repository::open takes no   *)
(* lock at all. Every call that touches the filesystem is a step.          *)
(*                                                                         *)
(* A path holds the process that made it, which also names its inode: a    *)
(* process makes a path at most once at a time. Missing ancestors of the   *)
(* root are made and removed as the root is, and are left out.             *)
(***************************************************************************)
EXTENDS Integers, Sequences, FiniteSets, FiniteSetsExt, SequencesExt

CONSTANTS
    Creator,       \* processes in Repository::create
    Opener,        \* processes in Repository::open, again and again
    OpenModes,     \* the modes they use
    MaxFaults,     \* bound: I/O errors and crashes in a behaviour
    Nobody, User   \* no such path; made by neither

ASSUME ProcessAssumption ==
    /\ Creator # {} /\ Creator \cap Opener = {}
    /\ Nobody # User /\ {Nobody, User} \cap (Creator \cup Opener) = {}
ASSUME ModesAssumption == OpenModes \subseteq {"read_only", "read_write"}
ASSUME FaultAssumption == MaxFaults \in Nat

\* The records of the ledger, in the order create() makes them.
Ledger == <<"root", "objects", "temporary", "temporary/objects", "temporary/restores", "logs",
            "lock", "db", "wal", "shm", "journal">>

\* reserved_paths, in the order they are looked at.
Reserved == <<"objects", "temporary", "logs", "lock", "db", "wal", "shm", "journal">>

\* What validate_layout requires, in its order.
Layout == <<"objects", "temporary", "temporary/objects", "temporary/restores", "logs", "lock", "db">>

Path == ToSet(Ledger) \cup {"keep"} \* keep: some content of the user
Parts == ToSet(Tail(Ledger))         \* of the repository, below its root

Directory(p) == IF p \in {"temporary/objects", "temporary/restores"} THEN "temporary" ELSE "root"
Contents(p) == {q \in Path \ {"root"} : Directory(q) = p}

\* Mutant: nothing is kept while the lock is held.
ProtectedNothing == {}

\* protected_while_locked
Protected == {"root", "lock"}

VARIABLES
    fs,       \* path -> the process that made what is there
    mode,     \* permissions of the root: shared (the umask's) or private (0700)
    flock,    \* inode of a lock file -> the process that holds it
    row,      \* databases, by their maker, whose repository_info row is committed
    creator,  \* the creators' local state; stuck is history: a removal had an I/O error
    opener,   \* the openers' local state
    faults    \* faults so far

vars == <<fs, mode, flock, row, creator, opener, faults>>

Exists(p) == fs[p] # Nobody
CanMake(p) == ~Exists(p) /\ (p = "root" \/ Exists(Directory(p)))

\* The user's directory is missing, empty, has content, or a file that collides.
Init ==
    /\ \E kept \in {{}, {"root"}, {"root", "keep"}, {"root", "wal"}} :
         fs = [p \in Path |-> IF p \in kept THEN User ELSE Nobody]
    /\ mode = "shared"
    /\ flock = [q \in Creator \cup Opener |-> Nobody]
    /\ row = {}
    /\ creator \in [Creator -> {[pc |-> "look", i |-> 1, allow |-> allow, existed |-> FALSE,
                                 original |-> "unknown", changed |-> FALSE, made |-> {},
                                 locked |-> FALSE, stuck |-> FALSE] : allow \in BOOLEAN}]
    /\ opener \in [Opener -> {[pc |-> "start", i |-> 1, mode |-> m, db |-> Nobody] : m \in OpenModes}]
    /\ faults = 0

-----------------------------------------------------------------------------
(* create(): the checks before anything is made. A throw here cleans nothing. *)

At(c, label) == creator[c].pc = label
Goes(c, label) == creator' = [creator EXCEPT ![c].pc = label]
GoesAt(c, label, i) == creator' = [creator EXCEPT ![c].pc = label, ![c].i = i]
OnlyCreators == UNCHANGED <<fs, mode, flock, row, opener, faults>>

\* root_existed
LookAtRoot(c) ==
    /\ At(c, "look")
    /\ creator' = [creator EXCEPT ![c].existed = Exists("root"),
                                  ![c].pc = IF Exists("root") THEN "inspect" ELSE "reserved"]
    /\ OnlyCreators

\* symlink_status and original_permissions
InspectRoot(c) ==
    /\ At(c, "inspect")
    /\ creator' = [creator EXCEPT ![c].original = mode,
                                  ![c].pc = IF Exists("root") THEN "empty" ELSE "refused"]
    /\ OnlyCreators

CheckEmpty(c) ==
    /\ At(c, "empty")
    /\ Goes(c, IF /\ Exists("root")
                  /\ creator[c].allow \/ \A p \in Contents("root") : ~Exists(p)
               THEN "reserved" ELSE "refused")
    /\ OnlyCreators

CheckReserved(c) ==
    /\ At(c, "reserved")
    /\ IF Exists(Reserved[creator[c].i])
         THEN Goes(c, "refused")
         ELSE IF creator[c].i = Len(Reserved)
         THEN Goes(c, "missing")
         ELSE GoesAt(c, "reserved", creator[c].i + 1)
    /\ OnlyCreators

\* missing_root_paths: the root is looked for again.
FindMissing(c) ==
    /\ At(c, "missing")
    /\ IF creator[c].existed \/ Exists("root") THEN Goes(c, "validate") ELSE GoesAt(c, "create", 1)
    /\ OnlyCreators

-----------------------------------------------------------------------------
(* create(): cleanup, the two phases of the ledger *)

\* The record cleanup comes to next, from the last one down; 0 if none is left.
NextRecord(record, below) ==
    Max({0} \cup {k \in 1..(below - 1) :
                    /\ Ledger[k] \in record.made
                    /\ ~(record.locked /\ Ledger[k] \in Protected)})

StartCleanup(record) ==
    LET k == NextRecord(record, Len(Ledger) + 1)
    IN [record EXCEPT !.pc = IF k = 0 THEN "unlock" ELSE "clean", !.i = k]

\* CreationLedger::cleanup: remove() by name, which fails on a directory with
\* something in it, and may fail otherwise; an absent path is no error.
CleanRecord(c) ==
    /\ At(c, "clean") \/ At(c, "cleanAgain")
    /\ LET p == Ledger[creator[c].i]
           done(record) ==
               LET k == NextRecord(record, record.i)
               IN [record EXCEPT !.i = k,
                                 !.pc = IF k # 0 THEN @ ELSE IF @ = "clean" THEN "unlock" ELSE "restore"]
           full == \E q \in Contents(p) : Exists(q)
           removed == [creator[c] EXCEPT !.made = @ \ {p}]
           kept == [creator[c] EXCEPT !.stuck = @ \/ ~full]
       IN \/ /\ ~full
             /\ fs' = [fs EXCEPT ![p] = Nobody]
             /\ creator' = [creator EXCEPT ![c] = done(removed)]
             /\ UNCHANGED faults
          \/ /\ full \/ faults < MaxFaults
             /\ faults' = IF full THEN faults ELSE faults + 1
             /\ creator' = [creator EXCEPT ![c] = done(kept)]
             /\ UNCHANGED fs
    /\ UNCHANGED <<mode, flock, row, opener>>

Release(q) == flock' = [inode \in DOMAIN flock |-> IF flock[inode] = q THEN Nobody ELSE flock[inode]]

\* writer_lock.reset(), then the second ledger.cleanup.
Unlock(c) ==
    /\ At(c, "unlock")
    /\ Release(c)
    /\ LET free == [creator[c] EXCEPT !.locked = FALSE]
           k == NextRecord(free, Len(Ledger) + 1)
       IN creator' = [creator EXCEPT ![c] =
                        [free EXCEPT !.pc = IF k = 0 THEN "restore" ELSE "cleanAgain", !.i = k]]
    /\ UNCHANGED <<fs, mode, row, opener, faults>>

\* original_permissions are put back; an error is ignored.
RestorePermissions(c) ==
    /\ At(c, "restore")
    /\ mode' = IF creator[c].changed /\ Exists("root") THEN creator[c].original ELSE mode
    /\ Goes(c, "failed")
    /\ UNCHANGED <<fs, flock, row, opener, faults>>

-----------------------------------------------------------------------------
(* create(): making the repository *)

Cleans(c) == creator' = [creator EXCEPT ![c] = StartCleanup(@)]

\* What follows the making of a path.
AfterMaking(p) == CASE p = "root" -> "validate" [] p = "lock" -> "acquire"
                    [] p = "journal" -> "migrate" [] OTHER -> "create"

\* Mutant: the ledger is marked although the path existed.
MakePathMarkedFirst(c) ==
    /\ At(c, "create")
    /\ LET p == Ledger[creator[c].i]
       IN IF CanMake(p)
            THEN /\ fs' = [fs EXCEPT ![p] = c]
                 /\ creator' = [creator EXCEPT ![c].made = @ \cup {p}, ![c].i = @ + 1,
                                               ![c].pc = AfterMaking(p)]
                 /\ mode' = IF p = "root" THEN "shared" ELSE mode
            ELSE /\ creator' = [creator EXCEPT ![c] = StartCleanup([@ EXCEPT !.made = @ \cup {p}])]
                 /\ UNCHANGED <<fs, mode>>
    /\ UNCHANGED <<flock, row, opener, faults>>

\* create_directory and create_empty_file: both refuse what exists.
MakePath(c) ==
    /\ At(c, "create")
    /\ LET p == Ledger[creator[c].i]
       IN IF CanMake(p)
            THEN /\ fs' = [fs EXCEPT ![p] = c]
                 /\ creator' = [creator EXCEPT ![c].made = @ \cup {p}, ![c].i = @ + 1,
                                               ![c].pc = AfterMaking(p)]
                 /\ mode' = IF p = "root" THEN "shared" ELSE mode
            ELSE Cleans(c) /\ UNCHANGED <<fs, mode>>
    /\ UNCHANGED <<flock, row, opener, faults>>

ValidateRoot(c) ==
    /\ At(c, "validate")
    /\ IF Exists("root") THEN Goes(c, "chmod") ELSE Cleans(c)
    /\ OnlyCreators

\* apply_restrictive_repository_permissions, and permissions_changed
RestrictRoot(c) ==
    /\ At(c, "chmod")
    /\ IF Exists("root")
         THEN /\ mode' = "private"
              /\ creator' = [creator EXCEPT ![c].changed = creator[c].existed,
                                            ![c].pc = "create", ![c].i = 2]
         ELSE Cleans(c) /\ UNCHANGED mode
    /\ UNCHANGED <<fs, flock, row, opener, faults>>

\* RepositoryLock::acquire_exclusive: O_CREAT without O_EXCL, then LOCK_NB.
LockInode(q) == IF Exists("lock") THEN fs["lock"] ELSE q
CanLock(q) == Exists("root") /\ LockInode(q) # User /\ flock[LockInode(q)] = Nobody
TakeLock(q) ==
    /\ flock' = [flock EXCEPT ![LockInode(q)] = q]
    /\ fs' = [fs EXCEPT !["lock"] = LockInode(q)]

AcquireLock(c) ==
    /\ At(c, "acquire")
    /\ IF CanLock(c)
         THEN TakeLock(c) /\ creator' = [creator EXCEPT ![c].locked = TRUE, ![c].pc = "create"]
         ELSE Cleans(c) /\ UNCHANGED <<flock, fs>>
    /\ UNCHANGED <<mode, row, opener, faults>>

\* Database and run_migrations. Turning the empty database to WAL mode goes
\* through SQLite's rollback journal, which it deletes.
Migrate(c) ==
    /\ At(c, "migrate")
    /\ fs' = [fs EXCEPT !["journal"] = Nobody]
    /\ Goes(c, "insert")
    /\ UNCHANGED <<mode, flock, row, opener, faults>>

InsertRow(c) ==
    /\ At(c, "insert")
    /\ row' = row \cup {fs["db"]}
    /\ Goes(c, "checkpoint")
    /\ UNCHANGED <<fs, mode, flock, opener, faults>>

\* The checkpoint, the cache flush and the flush of the directory.
Checkpoint(c) ==
    /\ At(c, "checkpoint")
    /\ Goes(c, "check")
    /\ OnlyCreators

\* Repository::open in read-only mode finds nothing to object to.
Openable ==
    /\ \A p \in {"root", "wal", "shm"} \cup ToSet(Layout) : Exists(p)
    /\ fs["db"] \in row

\* locked_validation, then published
ValidateLocked(c) ==
    /\ At(c, "check")
    /\ IF Openable THEN Goes(c, "published") ELSE Cleans(c)
    /\ OnlyCreators

ReleasePublished(c) ==
    /\ At(c, "published")
    /\ Release(c)
    /\ creator' = [creator EXCEPT ![c].locked = FALSE, ![c].pc = "final"]
    /\ UNCHANGED <<fs, mode, row, opener, faults>>

\* final_self_check: its failure is reported and nothing is removed.
CheckFinally(c) ==
    /\ At(c, "final")
    /\ Goes(c, IF Openable THEN "returned" ELSE "unconfirmed")
    /\ OnlyCreators

\* An error of any call of create() before the cleanup.
Throw(c) ==
    /\ faults < MaxFaults
    /\ faults' = faults + 1
    /\ \/ /\ creator[c].pc \in {"look", "inspect", "empty", "reserved", "missing"}
          /\ Goes(c, "refused")
       \/ /\ creator[c].pc \in {"create", "validate", "chmod", "acquire", "migrate", "insert",
                                "checkpoint", "check"}
          /\ Cleans(c)
       \/ At(c, "final") /\ Goes(c, "unconfirmed")
    /\ UNCHANGED <<fs, mode, flock, row, opener>>

Ended == {"refused", "returned", "unconfirmed", "failed", "crashed"}

\* The process dies; the kernel drops its lock.
Crash(c) ==
    /\ faults < MaxFaults
    /\ faults' = faults + 1
    /\ creator[c].pc \notin Ended
    /\ creator' = [creator EXCEPT ![c].pc = "crashed", ![c].locked = FALSE]
    /\ Release(c)
    /\ UNCHANGED <<fs, mode, row, opener>>

-----------------------------------------------------------------------------
(* Repository::open, and a writer that uses what it opened *)

OpenerAt(o, label) == opener[o].pc = label
OpenerGoes(o, label) == opener' = [opener EXCEPT ![o].pc = label]
Closes(o) == opener' = [opener EXCEPT ![o].pc = "start", ![o].i = 1, ![o].db = Nobody]
OnlyOpeners == UNCHANGED <<fs, mode, flock, row, creator, faults>>

OpenRoot(o) ==
    /\ OpenerAt(o, "start")
    /\ Exists("root")
    /\ OpenerGoes(o, "layout")
    /\ OnlyOpeners

CheckLayout(o) ==
    /\ OpenerAt(o, "layout")
    /\ IF ~Exists(Layout[opener[o].i])
         THEN Closes(o)
         ELSE opener' = [opener EXCEPT
                  ![o].i = IF @ = Len(Layout) THEN 1 ELSE @ + 1,
                  ![o].pc = IF opener[o].i = Len(Layout) THEN "access" ELSE "layout"]
    /\ OnlyOpeners

\* database_access_for_open, on storage that is not read-only
ChooseAccess(o) ==
    /\ OpenerAt(o, "access")
    /\ IF opener[o].mode = "read_write" \/ (Exists("wal") /\ Exists("shm"))
         THEN OpenerGoes(o, "database")
         ELSE Closes(o)
    /\ OnlyOpeners

\* Database: read-write makes the database and its sidecars where they are
\* missing, and the change to WAL mode deletes the journal; read-only makes nothing.
OpenDatabase(o) ==
    /\ OpenerAt(o, "database")
    /\ IF opener[o].mode = "read_write" /\ Exists("root")
         THEN fs' = [p \in Path |-> IF p = "journal" THEN Nobody
                                    ELSE IF p \in {"db", "wal", "shm"} /\ ~Exists(p) THEN o
                                    ELSE fs[p]]
         ELSE UNCHANGED fs
    /\ IF fs'["db"] = Nobody
         THEN Closes(o)
         ELSE opener' = [opener EXCEPT ![o].pc = "load", ![o].db = fs'["db"]]
    /\ UNCHANGED <<mode, flock, row, creator, faults>>

\* Mutant: a database without a row is a repository.
LoadInfoUnchecked(o) ==
    /\ OpenerAt(o, "load")
    /\ OpenerGoes(o, "open")
    /\ OnlyOpeners

\* load_repository_info, from the database that was opened, unlinked or not
LoadInfo(o) ==
    /\ OpenerAt(o, "load")
    /\ IF opener[o].db \in row THEN OpenerGoes(o, "open") ELSE Closes(o)
    /\ OnlyOpeners

\* An operation that writes takes the writer lock first.
StartWriting(o) ==
    /\ OpenerAt(o, "open")
    /\ opener[o].mode = "read_write"
    /\ CanLock(o)
    /\ TakeLock(o)
    /\ OpenerGoes(o, "writing")
    /\ UNCHANGED <<mode, row, creator, faults>>

CloseRepository(o) ==
    /\ OpenerAt(o, "open") \/ OpenerAt(o, "writing")
    /\ Release(o)
    /\ Closes(o)
    /\ UNCHANGED <<fs, mode, row, creator, faults>>

-----------------------------------------------------------------------------

CreatorStep(c) ==
    \/ LookAtRoot(c) \/ InspectRoot(c) \/ CheckEmpty(c) \/ CheckReserved(c) \/ FindMissing(c)
    \/ MakePath(c) \/ ValidateRoot(c) \/ RestrictRoot(c) \/ AcquireLock(c)
    \/ Migrate(c) \/ InsertRow(c) \/ Checkpoint(c) \/ ValidateLocked(c)
    \/ ReleasePublished(c) \/ CheckFinally(c)
    \/ CleanRecord(c) \/ Unlock(c) \/ RestorePermissions(c)

OpenerStep(o) ==
    \/ OpenRoot(o) \/ CheckLayout(o) \/ ChooseAccess(o) \/ OpenDatabase(o) \/ LoadInfo(o)
    \/ StartWriting(o) \/ CloseRepository(o)

Next ==
    \/ \E c \in Creator : CreatorStep(c) \/ Throw(c) \/ Crash(c)
    \/ \E o \in Opener : OpenerStep(o)

Spec == Init /\ [][Next]_vars

-----------------------------------------------------------------------------
(* Properties *)

Label == {"look", "inspect", "empty", "reserved", "missing", "create", "validate", "chmod",
          "acquire", "migrate", "insert", "checkpoint", "check", "published", "final",
          "clean", "unlock", "cleanAgain", "restore"} \cup Ended

CreatorState ==
    [pc : Label, i : 0..(Len(Ledger) + 1), allow : BOOLEAN, existed : BOOLEAN,
     original : {"unknown", "shared", "private"}, changed : BOOLEAN, made : SUBSET Path,
     locked : BOOLEAN, stuck : BOOLEAN]
OpenerState ==
    [pc : {"start", "layout", "access", "database", "load", "open", "writing"},
     i : 1..Len(Layout), mode : OpenModes, db : Creator \cup Opener \cup {Nobody}]

\* Every variable keeps its type.
TypeOK ==
    /\ fs \in [Path -> Creator \cup Opener \cup {Nobody, User}]
    /\ mode \in {"shared", "private"}
    /\ flock \in [Creator \cup Opener -> Creator \cup Opener \cup {Nobody}]
    /\ row \subseteq Creator
    /\ creator \in [Creator -> CreatorState]
    /\ opener \in [Opener -> OpenerState]
    /\ faults \in 0..MaxFaults

Whole(c) == \A p \in {"wal", "shm"} \cup ToSet(Layout) : fs[p] = c
Published(c) == creator[c].pc \in {"published", "final", "returned", "unconfirmed"}

\* A published repository is whole and its creator's from the first directory to
\* the sidecars, and stays so whatever other creators, their cleanups and openers
\* do on the same path: each lost the race for some path and removes only its own
\* (create_directory, create_empty_file, CreationLedger::cleanup).
PublishedIntact ==
    \A c \in Creator : Published(c) =>
        /\ Exists("root")
        /\ Whole(c)
        /\ c \in row

\* Cleanup removes by name, long after the ledger was written: what it removes is
\* nevertheless always what the same creator made, never the user's, another
\* creator's or an opener's. SQLite's own journal is the exception
\* (CreationLedger::cleanup).
RemovesOnlyOwn ==
    [][\A p \in Path \ {"journal"} :
         fs[p] # Nobody /\ fs'[p] = Nobody =>
             /\ fs[p] \in Creator
             /\ ~Published(fs[p])
             /\ p \in creator[fs[p]].made \ creator'[fs[p]].made]_vars

\* The creator has begun to remove what it made.
GivenUp(c) ==
    \/ creator[c].pc \in {"clean", "unlock", "cleanAgain", "restore", "failed"}
    \/ creator[c].pc = "crashed" /\ ~(Parts \subseteq creator[c].made)

\* A repository that can be opened is whole, even while it is being created and
\* after its creator crashed: the row comes last. The one exception is a creation
\* that failed after its row, which is being removed (create, open).
OpenedIsWhole ==
    \A o \in Opener : opener[o].pc \in {"open", "writing"} =>
        LET c == opener[o].db IN c \in Creator /\ (Whole(c) \/ GivenUp(c))

\* The database and the directories of a failed creation are removed under the
\* writer lock: a process that opened it before the failure cannot be writing
\* there meanwhile (the two phases of the cleanup).
CleanupExclusive ==
    \A o \in Opener, c \in Creator :
        opener[o].pc = "writing" /\ opener[o].db = c => creator[c].pc # "clean"

AllEnded == \A c \in Creator : creator[c].pc \in Ended

\* Creators that exclude each other never all lose: unless something failed, or
\* what the user or an opener made stood in the way, one of them has the
\* repository (create_directory on objects, cleanup).
Undisturbed == faults = 0 /\ \A p \in Path \ {"root"} : fs[p] \in Creator \cup {Nobody}
SomeoneWins == AllEnded /\ Undisturbed => \E c \in Creator : Published(c)

\* A failed creation removes the invalid repository: with no crash and no error in
\* the removal, creators that all failed leave nothing of theirs behind. What a
\* read-write open made meanwhile does stay (cleanup).
FailureRemovesRepository ==
    (AllEnded /\ \A c \in Creator : ~Published(c) /\ creator[c].pc # "crashed" /\ ~creator[c].stuck)
        => \A p \in Parts : fs[p] \notin Creator

\* However creators and openers meet on a path, a repository is whole when it is
\* published and whenever it can be opened.
RepositoryWhole == PublishedIntact /\ OpenedIsWhole

\* Failed creations end clean: undone under the lock, completely, and not by all
\* creators at once.
CreationInv == TypeOK /\ CleanupExclusive /\ SomeoneWins /\ FailureRemovesRepository

\* Why these hold. What a ledger lists is its creator's and the other way round,
\* and nothing exists without its directory.
OwnerInv ==
    /\ \A p \in Path \ {"root"} : Exists(p) => Exists(Directory(p))
    /\ \A c \in Creator : \A p \in creator[c].made \ {"journal"} : fs[p] = c
    /\ \A c \in Creator, p \in Path : fs[p] = c => p \in creator[c].made
    /\ \A p \in Path \ {"root", "keep", "wal"} : fs[p] # User
    /\ fs["root"] \notin Opener /\ fs["journal"] \notin Opener
    /\ \A p \in Contents("temporary") : Exists(p) => fs[p] = fs["temporary"]

\* How far a creator has come tells what its ledger lists and whether it has the
\* lock.
Before == {"look", "inspect", "empty", "reserved", "missing", "refused"}
WithRow == {"checkpoint", "check", "published", "final", "returned", "unconfirmed"}
MadeBelow(i) == {Ledger[k] : k \in 2..(i - 1)}
LedgerOK(r) ==
    /\ r.made \subseteq ToSet(Ledger)
    /\ r.pc \in Before => r.made = {} /\ ~r.locked
    /\ r.pc \in {"look", "inspect", "empty"} => r.i = 1
    /\ r.pc = "reserved" => r.i \in 1..Len(Reserved)
    /\ r.pc \in {"create", "acquire"} =>
         /\ r.i \in 1..Len(Ledger)
         /\ r.made \ {"root"} = MadeBelow(r.i)
         /\ r.i = 1 => r.made = {}
         /\ r.locked <=> r.i > 7 /\ r.pc # "acquire"
    /\ r.pc = "acquire" => r.i = 8
    /\ r.pc \in {"validate", "chmod"} => r.made \subseteq {"root"} /\ ~r.locked
    /\ r.pc \in {"migrate", "insert", "checkpoint", "check"} => r.locked
    /\ r.pc \in {"migrate", "insert"} \cup WithRow => Parts \subseteq r.made
    /\ r.pc \in {"final", "cleanAgain", "restore"} \cup Ended => ~r.locked
    /\ r.pc \in {"clean", "cleanAgain"} =>
         /\ r.i \in 1..Len(Ledger) /\ Ledger[r.i] \in r.made
         /\ ~(r.locked /\ Ledger[r.i] \in Protected)
LedgerInv == \A c \in Creator : LedgerOK(creator[c])

\* Who has locked what.
LockInv ==
    /\ \A c \in Creator : creator[c].locked => flock[c] = c /\ "lock" \in creator[c].made
    /\ \A q \in Creator \cup Opener, c \in Creator : flock[q] = c => q = c /\ creator[c].locked
    /\ \A q \in Creator \cup Opener, o \in Opener : flock[q] = o => opener[o].pc = "writing"
    /\ \A o \in Opener, c \in Creator :
         opener[o].pc = "writing" /\ opener[o].db = c => ~creator[c].locked

\* The row comes late, under the lock, and is what an open waits for.
RowOK(c, r) ==
    /\ r.pc \in WithRow => c \in row
    /\ c \in row => r.pc \in WithRow \cup {"clean", "unlock", "cleanAgain", "restore", "failed",
                                         "crashed"}
    /\ c \in row /\ r.pc = "clean" => r.locked
RowInv ==
    /\ \A c \in Creator : RowOK(c, creator[c])
    /\ \A o \in Opener : opener[o].pc \in {"open", "writing"} => opener[o].db \in row

\* Cleanup goes down the ledger and leaves nothing above it but what it protects.
CleanedOK(r) ==
    ~r.stuck =>
        /\ r.pc = "clean" => \A k \in (r.i + 1)..Len(Ledger) :
                               Ledger[k] \in r.made => r.locked /\ Ledger[k] \in Protected
        /\ r.pc \in {"unlock", "cleanAgain"} => r.made \subseteq {"root", "lock"}
        /\ r.pc = "cleanAgain" => \A k \in (r.i + 1)..Len(Ledger) : Ledger[k] \notin r.made
        /\ r.pc \in {"restore", "failed"} => r.made \subseteq {"root"}
CleanedInv == \A c \in Creator : CleanedOK(creator[c])

\* As long as nothing failed and nobody else is in the way, a creator gives up
\* only when another one is ahead of it, and that one never does.
LostAt == {"refused", "clean", "unlock", "cleanAgain", "restore", "failed", "crashed"}
Lost(c) == creator[c].pc \in LostAt
Ahead(c) == ~Lost(c) /\ {"root", "objects"} \cap creator[c].made # {}
LookedOK(r) ==
    /\ r.pc \in {"inspect", "empty"} => r.existed
    /\ r.changed \/ (r.existed /\ r.pc \notin {"inspect"} \cup Ended) => r.original # "unknown"
    /\ fs["root"] = User => /\ r.pc \in {"reserved", "missing"} => r.existed
                            /\ ~(r.pc = "create" /\ r.i = 1)
RootOK(r) ==
    r.existed \/ r.pc \in {"validate", "chmod"} \/ (r.pc = "create" /\ r.i > 1) => Exists("root")
HopeInv ==
    \A c \in Creator :
        /\ LookedOK(creator[c])
        /\ Undisturbed => RootOK(creator[c])
        /\ Undisturbed /\ Lost(c) =>
             /\ creator[c].made \subseteq {"root"}
             /\ c \notin row
             /\ creator[c].made # {} => Exists("objects")
             /\ \E d \in Creator : Ahead(d)

IndInv ==
    /\ TypeOK
    /\ OwnerInv /\ LedgerInv /\ LockInv /\ RowInv /\ CleanedInv /\ HopeInv

=============================================================================
