------------------------------- MODULE Backup -------------------------------
(***************************************************************************)
(* A backup taken while the system is in use: internal/backup (barrier.go, *)
(* Engine.Create, CreateFile) against the requests that store a file and   *)
(* its row (hr/document Upload and its like, storage.LocalProvider) under  *)
(* the shared write barrier of httpapi/scope.go.                           *)
(*                                                                         *)
(* Each writer uploads one document: first its file, then its row.  The    *)
(* barrier is a PostgreSQL advisory lock, granted in the order of the      *)
(* requests: while a backup waits for it, no writer that comes later gets  *)
(* it.  It belongs to a connection and goes when the connection closes.    *)
(***************************************************************************)
EXTENDS Naturals

CONSTANTS
    Writers,        \* requests that upload a document, and their documents
    MaxBackups,     \* bound: backups, each with a path of its own
    RequireComplete \* PublishOptions.RequireComplete

ASSUME MaxBackupsAssumption == MaxBackups \in Nat
ASSUME RequireCompleteAssumption == RequireComplete \in BOOLEAN

VARIABLES
    rows,       \* documents whose row is committed
    stored,      \* documents whose file is in the storage tree
    shared,     \* writers that hold the barrier
    barrier,    \* the backup's hold of it: "none", "waiting", "held"
    writer,     \* where each request is
    backup,     \* the backup: its place, what it pinned, linked and dumped
    taken,      \* backups begun
    published,  \* the archives under their final names
    pinned      \* the installation when the snapshot was taken

backupVars == <<rows, stored, shared, barrier, writer, backup, taken, published, pinned>>

Nothing == [rows |-> {}, stored |-> {}]
NoBackup == [pc |-> "idle", snapshot |-> {}, seen |-> {}, linked |-> {}, skipped |-> {},
             dumped |-> {}]
NoArchive == [exists |-> FALSE, rows |-> {}, stored |-> {}, skipped |-> {}, pinned |-> Nothing]

\* Every variable holds a value of its type, and the barrier is never shared and
\* held at once.
BackupTypeOK ==
    /\ rows \subseteq Writers /\ stored \subseteq Writers /\ shared \subseteq Writers
    /\ barrier \in {"none", "waiting", "held"}
    /\ writer \in [Writers -> {"new", "asking", "put", "insert", "undo", "respond", "done"}]
    /\ backup \in [pc: {"idle", "barrier", "snapshot", "walk", "dump", "verify"},
                   snapshot: SUBSET Writers, seen: SUBSET Writers, linked: SUBSET Writers,
                   skipped: SUBSET Writers, dumped: SUBSET Writers]
    /\ taken \in 0..MaxBackups
    /\ published \in [1..MaxBackups -> [exists: BOOLEAN, rows: SUBSET Writers,
                         stored: SUBSET Writers, skipped: SUBSET Writers,
                         pinned: [rows: SUBSET Writers, stored: SUBSET Writers]]]
    /\ pinned \in [rows: SUBSET Writers, stored: SUBSET Writers]
    /\ barrier = "held" => shared = {}

BackupInit ==
    /\ rows = {} /\ stored = {} /\ shared = {}
    /\ barrier = "none"
    /\ writer = [w \in Writers |-> "new"]
    /\ backup = NoBackup
    /\ taken = 0
    /\ published = [n \in 1..MaxBackups |-> NoArchive]
    /\ pinned = Nothing
-----------------------------------------------------------------------------
(* A request that writes *)

Goes(w, to) == writer' = [writer EXCEPT ![w] = to]

Request(w) ==
    /\ writer[w] = "new"
    /\ Goes(w, "asking")
    /\ UNCHANGED <<rows, stored, shared, barrier, backup, taken, published, pinned>>

\* scopeRequestConnection: AcquireWriteBarrier, shared.
AcquireWriteBarrier(w) ==
    /\ writer[w] = "asking" /\ barrier = "none"
    /\ shared' = shared \cup {w}
    /\ Goes(w, "put")
    /\ UNCHANGED <<rows, stored, barrier, backup, taken, published, pinned>>

\* LocalProvider.Put: the file is complete when its name appears.
Put(w) ==
    /\ writer[w] = "put"
    /\ \/ stored' = stored \cup {w} /\ Goes(w, "insert")
       \/ UNCHANGED stored /\ Goes(w, "respond")
    /\ UNCHANGED <<rows, shared, barrier, backup, taken, published, pinned>>

\* INSERT and COMMIT.  An error can come after the commit took effect.
Commit(w) ==
    /\ writer[w] = "insert"
    /\ \/ rows' = rows \cup {w} /\ Goes(w, "respond")
       \/ rows' = rows \cup {w} /\ Goes(w, "undo")
       \/ UNCHANGED rows /\ Goes(w, "undo")
    /\ UNCHANGED <<stored, shared, barrier, backup, taken, published, pinned>>

\* The error path deletes the file, if it can.
UndoUpload(w) ==
    /\ writer[w] = "undo"
    /\ stored' \in {stored, stored \ {w}}
    /\ Goes(w, "respond")
    /\ UNCHANGED <<rows, shared, barrier, backup, taken, published, pinned>>

ReleaseWriteBarrier(w) ==
    /\ writer[w] = "respond"
    /\ shared' = shared \ {w}
    /\ Goes(w, "done")
    /\ UNCHANGED <<rows, stored, barrier, backup, taken, published, pinned>>

\* The API process dies: its connections close, its transaction rolls back.
RequestDies(w) ==
    /\ writer[w] \notin {"new", "done"}
    /\ shared' = shared \ {w}
    /\ Goes(w, "done")
    /\ UNCHANGED <<rows, stored, barrier, backup, taken, published, pinned>>
-----------------------------------------------------------------------------
(* The backup *)

\* CreateFile: the name is free and the storage root is there.
BeginBackup ==
    /\ backup.pc = "idle" /\ taken < MaxBackups
    /\ taken' = taken + 1
    /\ barrier' = "waiting"
    /\ backup' = [backup EXCEPT !.pc = "barrier"]
    /\ UNCHANGED <<rows, stored, shared, writer, published, pinned>>

\* beginSourceSnapshot: the barrier first ...
TakeBarrier ==
    /\ backup.pc = "barrier" /\ shared = {}
    /\ barrier' = "held"
    /\ backup' = [backup EXCEPT !.pc = "snapshot"]
    /\ UNCHANGED <<rows, stored, shared, writer, taken, published, pinned>>

\* ... then the snapshot, inside it.
Snapshot ==
    /\ backup.pc = "snapshot"
    /\ backup' = [backup EXCEPT !.pc = "walk", !.snapshot = rows]
    /\ pinned' = [rows |-> rows, stored |-> stored]
    /\ UNCHANGED <<rows, stored, shared, barrier, writer, taken, published>>

\* snapshotStorage: a file is linked, or cannot be and is skipped.
Link(d) ==
    /\ backup.pc = "walk" /\ d \notin backup.seen
    /\ \/ d \in stored /\ backup' = [backup EXCEPT !.seen = @ \cup {d}, !.linked = @ \cup {d}]
       \/ d \in stored /\ backup' = [backup EXCEPT !.seen = @ \cup {d}, !.skipped = @ \cup {d}]
       \/ d \notin stored /\ backup' = [backup EXCEPT !.seen = @ \cup {d}]
    /\ UNCHANGED <<rows, stored, shared, barrier, writer, taken, published, pinned>>

ReleaseBarrier ==
    /\ backup.pc = "walk" /\ backup.seen = Writers
    /\ barrier' = "none"
    /\ backup' = [backup EXCEPT !.pc = "dump"]
    /\ UNCHANGED <<rows, stored, shared, writer, taken, published, pinned>>

\* Mutant: pg_dump opens a transaction of its own.
MutDump ==
    /\ backup.pc = "dump"
    /\ backup' = [backup EXCEPT !.pc = "verify", !.dumped = rows]
    /\ UNCHANGED <<rows, stored, shared, barrier, writer, taken, published, pinned>>

\* pg_dump --snapshot, and the archive to a temporary file.
Dump ==
    /\ backup.pc = "dump"
    /\ backup' = [backup EXCEPT !.pc = "verify", !.dumped = backup.snapshot]
    /\ UNCHANGED <<rows, stored, shared, barrier, writer, taken, published, pinned>>

\* Manifest.Complete
IsComplete(skipped) == skipped = {}

\* The archive is read back; RequireComplete refuses one with gaps.
MayPublish(skipped) == RequireComplete => IsComplete(skipped)

\* The temporary file gets its name.
Publish ==
    /\ backup.pc = "verify" /\ MayPublish(backup.skipped)
    /\ published' = [published EXCEPT ![taken] =
                        [exists |-> TRUE, rows |-> backup.dumped, stored |-> backup.linked,
                         skipped |-> backup.skipped, pinned |-> pinned]]
    /\ backup' = NoBackup
    /\ UNCHANGED <<rows, stored, shared, barrier, writer, taken, pinned>>

\* Mutant: an error returns without closing the barrier's connection.
MutAbort ==
    /\ backup.pc # "idle"
    /\ backup' = NoBackup
    /\ UNCHANGED <<rows, stored, shared, barrier, writer, taken, published, pinned>>

\* An error, the barrier's 30 seconds, a refusal to publish, or death: the
\* connections close and the temporary file is no archive.
Abort ==
    /\ backup.pc # "idle"
    /\ barrier' = "none"
    /\ backup' = NoBackup
    /\ UNCHANGED <<rows, stored, shared, writer, taken, published, pinned>>
-----------------------------------------------------------------------------
WriterStep(w) ==
    \/ AcquireWriteBarrier(w) \/ Put(w) \/ Commit(w) \/ UndoUpload(w) \/ ReleaseWriteBarrier(w)

BackupStep ==
    \/ TakeBarrier \/ Snapshot \/ (\E d \in Writers : Link(d)) \/ ReleaseBarrier \/ Dump \/ Publish
    \/ Abort

BackupNext ==
    \/ \E w \in Writers : Request(w) \/ WriterStep(w) \/ RequestDies(w)
    \/ BeginBackup \/ BackupStep

\* A request and a backup that can go on do: they are running goroutines, the
\* barrier's queue is fair, and the wait for it is bounded.
BackupFairness ==
    /\ \A w \in Writers : WF_backupVars(WriterStep(w))
    /\ WF_backupVars(BackupStep)

BackupSpec == BackupInit /\ [][BackupNext]_backupVars /\ BackupFairness
-----------------------------------------------------------------------------
Archives == {published[n] : n \in {m \in 1..MaxBackups : published[m].exists}}

\* An archive describes one instant: its rows and its files (with those it says
\* it skipped) are exactly what the installation held when the snapshot was
\* taken, whatever requests ran around it (Engine.Create).
OneInstant ==
    \A a \in Archives : a.rows = a.pinned.rows /\ a.stored \cup a.skipped = a.pinned.stored

\* In an archive that may be restored from, every row whose file was there finds
\* it; nothing is missing silently (RequireComplete, SkippedObjects).
NothingMissing ==
    \A a \in Archives : (a.rows \cap a.pinned.stored) \ a.stored \subseteq
                            (IF RequireComplete THEN {} ELSE a.skipped)

\* No request writes while the backup pins the tree: what is pinned is not the
\* middle of an upload that will still succeed.  An upload in the pinned state
\* without its row belongs to a request that failed or died.
PinnedBetweenRequests ==
    backup.pc = "walk" => \A w \in pinned.stored \ pinned.rows : writer[w] = "done"

\* A request that waits for the barrier gets it: a backup, finished, failed or
\* dead, does not stop the writers for good (releaseBarrier, Close).
WritersContinue ==
    \A w \in Writers : (writer[w] = "asking") ~> (writer[w] # "asking")

\* An archive that may be restored from is the installation at one instant, taken
\* between the requests, with nothing missing (Engine.Create, Publish).
ArchiveIsWhole == OneInstant /\ NothingMissing /\ PinnedBetweenRequests
=============================================================================
