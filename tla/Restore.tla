------------------------------- MODULE Restore -------------------------------
(***************************************************************************)
(* What a restore does to the live installation, internal/backup: the      *)
(* candidate database and its swap (candidate.go), the in-place path and   *)
(* the storage swap (engine.go), promotion and pruning of the databases a  *)
(* restore sets aside (retention.go).                                      *)
(*                                                                         *)
(* Operations run one at a time: they hold the lease of module Opctl.      *)
(* Operation n restores an archive of version n; version 0 is what was     *)
(* installed first.  A version has one file of each name in Names at the   *)
(* top level of the storage tree.  Pruning takes no lease.                 *)
(*                                                                         *)
(* Every SQL statement and every rename of a file can fail; the process    *)
(* can die between any two of them.  The context of the operation can also *)
(* end (Ctrl-C, the time limit) or its connection break while a statement  *)
(* runs: the statement may have been applied all the same, and every later *)
(* one that uses the context fails.                                        *)
(***************************************************************************)
EXTENDS Integers, FiniteSets

CONSTANTS
    Names,          \* top-level entries of the storage tree
    MaxRestores,         \* bound: operations
    Kinds,          \* operations that happen
    KeepDatabases   \* RetentionPolicy.KeepDatabases

ASSUME MaxRestoresAssumption == MaxRestores \in Nat
ASSUME KindsAssumption == Kinds \subseteq {"candidate", "in-place", "promote"}
ASSUME KeepAssumption == KeepDatabases \in Nat

VARIABLES
    op,         \* the current operation, or the last one
    kind,       \* what it is
    pc,         \* where it is
    from,       \* the database it puts in place
    verdict,    \* the kind of error it returns
    phase,      \* the phase in the journal
    ctx,        \* its context and connection: "live" or "done"
    db,         \* the databases: the version each holds
    sealed,     \* databases that refuse connections
    files,      \* the directories in the storage root: what each holds
    pruning,    \* the databases a prune has decided to drop
    before,     \* the live database and files when the operation began
    complete,   \* the version whose files were last all in place
    installed,  \* the version of the last database that was live at a start
    shut        \* the databases it was asked to open and refused

restoreVars == <<op, kind, pc, from, verdict, phase, ctx, db, sealed, files, pruning,
          before, complete, installed, shut>>
dbVars == <<db, sealed, ctx>>
ghosts == <<before, complete, installed, shut>>

\* The phases of the journal, as module Opctl has them.
Phases == {"VALIDATING", "PREPARED", "SAFETY_VERIFIED", "CANDIDATE_READY",
           "SWITCHING", "CHECKING", "COMMITTED",
           "FAILED_UNCHANGED", "ROLLED_BACK", "RECOVERY_REQUIRED"}

\* Phase.destructive: the live installation may already have been modified.
\* No caller writes ROLLING_BACK.
Destructive(p) == p \in {"SWITCHING", "CHECKING", "RECOVERY_REQUIRED"}

\* Phase.terminal and Phase.resolved: the installation may serve traffic.
Resolved(p) == p \in {"COMMITTED", "FAILED_UNCHANGED", "ROLLED_BACK"}

Ops == 1..MaxRestores
Versions == 0..MaxRestores
Absent == -1
Scratch == -2       \* a candidate that is not loaded yet

Live == <<"live", 0>>
Candidate(n) == <<"cand", n>>
Old(n) == <<"old", n>>
DbNames == {Live} \cup ({"cand", "old"} \X Ops)

Root == <<"root", 0>>
Stage(n) == <<"stage", n>>
Retired(n) == <<"retired", n>>
Dirs == {Root} \cup ({"stage", "retired"} \X Ops)
Content(version) == Names \X {version}

\* Every variable holds a value of its type.
RestoreTypeOK ==
    /\ op \in 0..MaxRestores
    /\ kind \in {"candidate", "in-place", "promote"}
    /\ pc \in {"idle", "stage", "create", "load", "prepared", "switch", "seal", "aside",
               "place", "undo", "reopen", "open", "inplace", "switched", "approle", "retire",
               "land", "unland", "putback", "sweep", "check", "commit", "unwind"}
    /\ from \in DbNames
    /\ verdict \in {"unchanged", "inconsistent"}
    /\ phase \in Phases
    /\ ctx \in {"live", "done"}
    /\ db \in [DbNames -> Versions \cup {Absent, Scratch}]
    /\ sealed \subseteq {n \in DbNames : db[n] # Absent}
    /\ files \in [Dirs -> SUBSET (Names \X Versions)]
    /\ pruning \subseteq {Old(n) : n \in Ops}
    /\ before \in [db: Versions \cup {Absent, Scratch}, files: SUBSET (Names \X Versions),
                   open: BOOLEAN]
    /\ complete \in Versions
    /\ installed \in Versions \cup {Scratch}
    /\ shut \subseteq {Live}

RestoreInit ==
    /\ op = 0
    /\ kind = "candidate"
    /\ pc = "idle"
    /\ from = Live
    /\ verdict = "unchanged"
    /\ phase = "COMMITTED"
    /\ ctx = "live"
    /\ db = [n \in DbNames |-> IF n = Live THEN 0 ELSE Absent]
    /\ sealed = {}
    /\ files = [d \in Dirs |-> IF d = Root THEN Content(0) ELSE {}]
    /\ pruning = {}
    /\ before = [db |-> 0, files |-> Content(0), open |-> TRUE]
    /\ complete = 0
    /\ installed = 0
    /\ shut = {}
-----------------------------------------------------------------------------
(* SQL statements and where they lead *)

\* ALTER DATABASE a RENAME TO b; the connection flag goes with the database.
Renamed(a, b) == [db EXCEPT ![b] = db[a], ![a] = Absent]

SealedAfter(a, b) == (sealed \ {a, b}) \cup (IF a \in sealed THEN {b} ELSE {})

Refused == [ok |-> FALSE, applied |-> FALSE, ctx |-> ctx]
Replies ==
    {Refused} \cup
    (IF ctx = "done" THEN {}
     ELSE {[ok |-> TRUE, applied |-> TRUE, ctx |-> "live"]} \cup
          {[ok |-> FALSE, applied |-> a, ctx |-> "done"] : a \in BOOLEAN})

\* Run a statement: on success go to ok, on an error to err.
Exec(replies, newDb, newSealed, ok, err) ==
    \E r \in replies :
        /\ db' = IF r.applied THEN newDb ELSE db
        /\ sealed' = IF r.applied THEN newSealed ELSE sealed
        /\ ctx' = r.ctx
        /\ pc' = IF r.ok THEN ok ELSE err

\* A journal entry: written, or the operation goes to err.
Journal(p, ok, err) ==
    \/ phase' = p /\ pc' = ok
    \/ UNCHANGED phase /\ pc' = err
-----------------------------------------------------------------------------
(* Preparation: nothing live is touched *)

\* Mutant: every directory the engine made is scratch.
MutCleanupInternalDirs(tree) == [d \in Dirs |-> IF d = Root THEN tree[d] ELSE {}]

\* cleanupInternalDirs: stages are scratch, retired directories are not.
CleanupInternalDirs(tree) == [d \in Dirs |-> IF d[1] = "stage" THEN {} ELSE tree[d]]

\* What the properties compare with: not in the code.
Remember ==
    /\ before' = [db |-> db[Live], files |-> files[Root], open |-> Live \notin sealed]
    /\ installed' = IF db[Live] = Absent THEN installed ELSE db[Live]
    /\ shut' = {}

\* A restore takes the lease, checks the archive and stages its files.
Start(k) ==
    /\ pc = "idle" /\ op < MaxRestores
    /\ Resolved(phase) \/ ~Destructive(phase)
    /\ k \in {"candidate", "in-place"}
    /\ op' = op + 1
    /\ kind' = k
    /\ phase' = "VALIDATING"
    /\ ctx' = "live"
    /\ from' = Candidate(op + 1)
    /\ Remember
    /\ verdict' = "unchanged"
    /\ \/ /\ files' = [CleanupInternalDirs(files) EXCEPT ![Stage(op + 1)] = Content(op + 1)]
          /\ pc' = IF k = "candidate" THEN "create" ELSE "prepared"
       \/ /\ files' = CleanupInternalDirs(files)
          /\ pc' = "unwind"
       \/ /\ UNCHANGED files
          /\ pc' = "unwind"
    /\ UNCHANGED <<db, sealed, pruning, complete>>

Create ==
    /\ pc = "create"
    /\ Exec(Replies, [db EXCEPT ![from] = Scratch], sealed, "load", "unwind")
    /\ UNCHANGED <<op, kind, from, verdict, phase, files, pruning, ghosts>>

\* restoreInto, in one transaction, and prepareCandidate.
Load ==
    /\ pc = "load"
    /\ Exec(Replies, [db EXCEPT ![from] = op], sealed, "prepared", "unwind")
    /\ UNCHANGED <<op, kind, from, verdict, phase, files, pruning, ghosts>>

JournalPrepared ==
    /\ pc = "prepared"
    /\ Journal("CANDIDATE_READY", "switch", "unwind")
    /\ UNCHANGED <<op, kind, from, verdict, files, pruning, dbVars, ghosts>>

\* The point of no return.
JournalSwitching ==
    /\ pc = "switch"
    /\ Journal("SWITCHING", IF kind = "in-place" THEN "inplace" ELSE "seal", "unwind")
    /\ UNCHANGED <<op, kind, from, verdict, files, pruning, dbVars, ghosts>>

\* system promote: a database set aside earlier goes back.
Promote(n) ==
    /\ pc = "idle" /\ op < MaxRestores
    /\ Resolved(phase) \/ ~Destructive(phase)
    /\ db[Old(n)] # Absent
    /\ op' = op + 1
    /\ kind' = "promote"
    /\ ctx' = "live"
    /\ from' = Old(n)
    /\ Remember
    /\ verdict' = "inconsistent"
    /\ \/ phase' = "SWITCHING" /\ pc' = "seal"
       \/ phase' = "FAILED_UNCHANGED" /\ pc' = "idle"
    /\ UNCHANGED <<db, sealed, files, pruning, complete>>
-----------------------------------------------------------------------------
(* The swap of the databases *)

LiveExists == db[Live] # Absent

\* swap asks whether there is a live database and seals it.
Seal ==
    /\ pc = "seal"
    /\ IF LiveExists
       THEN Exec(Replies, db, sealed \cup {Live}, "aside", "unwind")
       ELSE Exec(Replies, db, sealed, "place", "unwind")
    /\ UNCHANGED <<op, kind, from, verdict, phase, files, pruning, ghosts>>

\* The live database is renamed aside; if it cannot be, it is opened again.
RenameAside ==
    /\ pc = "aside"
    /\ Exec(Replies, Renamed(Live, Old(op)), SealedAfter(Live, Old(op)), "place", "reopen")
    /\ UNCHANGED <<op, kind, from, verdict, phase, files, pruning, ghosts>>

\* The candidate takes its name.  A database pruned in the meantime cannot.
RenameIntoPlace ==
    /\ pc = "place"
    /\ LET err == IF db[Old(op)] # Absent THEN "undo" ELSE "unwind"
       IN  Exec(IF db[from] = Absent THEN {Refused} ELSE Replies,
                Renamed(from, Live), SealedAfter(from, Live), "open", err)
    /\ UNCHANGED <<op, kind, from, verdict, phase, files, pruning, ghosts>>

\* Mutant: the error of a swap that could not be undone does not name the
\* database it left aside.
MutUndo ==
    /\ pc = "undo"
    /\ Exec(IF db[Live] # Absent \/ db[Old(op)] = Absent THEN {Refused} ELSE Replies,
            Renamed(Old(op), Live), SealedAfter(Old(op), Live), "reopen", "unwind")
    /\ UNCHANGED <<op, kind, from, verdict, phase, files, pruning, ghosts>>

\* The old database goes back.  Only when that fails does the error name it,
\* which is how restoreViaCandidate knows that the system is inconsistent.
Undo ==
    /\ pc = "undo"
    /\ Exec(IF db[Live] # Absent \/ db[Old(op)] = Absent THEN {Refused} ELSE Replies,
            Renamed(Old(op), Live), SealedAfter(Old(op), Live), "reopen", "unwind")
    /\ verdict' = IF pc' = "unwind" THEN "inconsistent" ELSE verdict
    /\ UNCHANGED <<op, kind, from, phase, files, pruning, ghosts>>

\* The live database is opened again, if that works: the error of a swap does
\* not say whether it did.
Reopen ==
    /\ pc = "reopen"
    /\ Exec(IF LiveExists THEN Replies ELSE {Refused}, db, sealed \ {Live}, "unwind", "unwind")
    /\ shut' = IF ctx' = "live" /\ Live \in sealed' THEN {Live} ELSE {}
    /\ UNCHANGED <<op, kind, from, verdict, phase, files, pruning, before, complete, installed>>

\* The database now in place is opened.  The error of a refusal is a plain one,
\* though the old database is aside by now.
Open ==
    /\ pc = "open"
    /\ Exec(Replies, db, sealed \ {Live}, IF kind = "promote" THEN "commit" ELSE "switched",
            "unwind")
    /\ shut' = IF ctx' = "live" /\ pc' = "unwind" THEN {Live} ELSE {}
    /\ UNCHANGED <<op, kind, from, verdict, phase, files, pruning, before, complete, installed>>

\* restoreInPlace: pg_restore into the live database, in one transaction.
RunRestore ==
    /\ pc = "inplace"
    /\ Exec(IF LiveExists /\ Live \notin sealed THEN Replies ELSE {Refused},
            [db EXCEPT ![Live] = op], sealed, "switched", "unwind")
    /\ UNCHANGED <<op, kind, from, verdict, phase, files, pruning, ghosts>>
-----------------------------------------------------------------------------
(* After the database: role, files, check *)

\* From here on every error wraps ErrSystemInconsistent.
JournalSwitched ==
    /\ pc = "switched"
    /\ Journal("CHECKING", IF kind = "in-place" THEN "approle" ELSE "retire", "unwind")
    /\ verdict' = "inconsistent"
    /\ UNCHANGED <<op, kind, from, files, pruning, dbVars, ghosts>>

RestoreAppRole ==
    /\ pc = "approle"
    /\ Exec(Replies, db, sealed, "retire", "unwind")
    /\ UNCHANGED <<op, kind, from, verdict, phase, files, pruning, ghosts>>

\* Rename an entry from one directory to another; it fails on a taken name.
Move(entry, a, b) ==
    /\ \A other \in files[b] : other[1] # entry[1]
    /\ files' = [files EXCEPT ![a] = @ \ {entry}, ![b] = @ \cup {entry}]

\* swapStorage, first loop: the live entries are moved aside, one by one.
RetireEntry ==
    /\ pc = "retire" /\ files[Root] # {}
    /\ \/ (\E e \in files[Root] : Move(e, Root, Retired(op))) /\ UNCHANGED pc
       \/ UNCHANGED files /\ pc' = "putback"
    /\ UNCHANGED <<op, kind, from, verdict, phase, pruning, dbVars, ghosts>>

Retire ==
    /\ pc = "retire" /\ files[Root] = {}
    /\ pc' = "land"
    /\ UNCHANGED <<op, kind, from, verdict, phase, files, pruning, dbVars, ghosts>>

\* Second loop: the staged entries are moved in.
LandEntry ==
    /\ pc = "land" /\ files[Stage(op)] # {}
    /\ \/ (\E e \in files[Stage(op)] : Move(e, Stage(op), Root)) /\ UNCHANGED pc
       \/ UNCHANGED files /\ pc' = "unland"
    /\ UNCHANGED <<op, kind, from, verdict, phase, pruning, dbVars, ghosts>>

Landed ==
    /\ pc = "land" /\ files[Stage(op)] = {}
    /\ complete' = op
    /\ pc' = "sweep"
    /\ UNCHANGED <<op, kind, from, verdict, phase, files, pruning, dbVars, before, installed, shut>>

\* A landing failed: what landed is removed, as far as that works.
Unland ==
    /\ pc = "unland"
    /\ \E kept \in SUBSET (files[Root] \cap Content(op)) :
          files' = [files EXCEPT ![Root] = (@ \ Content(op)) \cup kept]
    /\ pc' = "putback"
    /\ UNCHANGED <<op, kind, from, verdict, phase, pruning, dbVars, ghosts>>

\* rollback: each entry goes back where it can.
PutBack ==
    /\ pc = "putback"
    /\ \E back \in SUBSET {e \in files[Retired(op)] : \A o \in files[Root] : o[1] # e[1]} :
          files' = [files EXCEPT ![Root] = @ \cup back, ![Retired(op)] = @ \ back]
    /\ pc' = "unwind"
    /\ UNCHANGED <<op, kind, from, verdict, phase, pruning, dbVars, ghosts>>

\* The new tree is live and complete; the old one may go, and may not go wholly.
Sweep ==
    /\ pc = "sweep"
    /\ \E kept \in SUBSET files[Retired(op)] : files' = [files EXCEPT ![Retired(op)] = kept]
    /\ pc' = "check"
    /\ UNCHANGED <<op, kind, from, verdict, phase, pruning, dbVars, ghosts>>

\* verifyLive, as the application role.
VerifyLive ==
    /\ pc = "check"
    /\ Exec(IF LiveExists /\ Live \notin sealed THEN Replies ELSE {Refused},
            db, sealed, "commit", "unwind")
    /\ UNCHANGED <<op, kind, from, verdict, phase, files, pruning, ghosts>>

\* A promotion's own error of this write is ignored.
JournalCommitted ==
    /\ pc = "commit"
    /\ Journal("COMMITTED", "idle", IF kind = "promote" THEN "idle" ELSE "unwind")
    /\ UNCHANGED <<op, kind, from, verdict, files, pruning, dbVars, ghosts>>

\* What Fail records for the error.
Outcome == IF verdict = "inconsistent" THEN "RECOVERY_REQUIRED" ELSE "FAILED_UNCHANGED"

\* The deferred clean-up, the stage and a candidate that was not put in place,
\* and the caller's Fail and Release.
Unwind ==
    /\ pc = "unwind"
    /\ files' = [files EXCEPT ![Stage(op)] = {}]
    /\ \/ UNCHANGED <<db, sealed>>
       \/ kind = "candidate" /\ db' = [db EXCEPT ![from] = Absent] /\ sealed' = sealed \ {from}
    /\ phase' \in {phase, Outcome}
    /\ pc' = "idle"
    /\ UNCHANGED <<op, kind, from, verdict, ctx, pruning, ghosts>>
-----------------------------------------------------------------------------
(* Around an operation *)

\* The process dies: its lease goes, the databases and the files stay.
ProcessDies ==
    /\ pc # "idle"
    /\ pc' = "idle"
    /\ UNCHANGED <<op, kind, from, verdict, phase, files, pruning, dbVars, ghosts>>

\* system resolve, whatever the operator did or did not put right.
Resolve ==
    /\ pc = "idle" /\ ~Resolved(phase)
    /\ phase' = "ROLLED_BACK"
    /\ UNCHANGED <<op, kind, pc, from, verdict, files, pruning, dbVars, ghosts>>

Retained == {n \in Ops : db[Old(n)] # Absent}
Newer(n) == {m \in Retained : m > n}

\* The newest one is the rollback point: a count below 1 is raised to 1.
Keep == IF KeepDatabases < 1 THEN 1 ELSE KeepDatabases

\* PruneRetainedDatabases lists what the policy no longer keeps.  Anything but
\* the newest may be older than the protection window.
PruneLists ==
    /\ pruning = {}
    /\ \E n \in Retained :
          /\ Cardinality(Newer(n)) >= Keep
          /\ pruning' = {Old(n)}
    /\ UNCHANGED <<op, kind, pc, from, verdict, phase, files, dbVars, ghosts>>

\* ... and drops it, if it is still there.
PruneDrops ==
    /\ \E n \in pruning :
          /\ db' = [db EXCEPT ![n] = Absent]
          /\ sealed' = sealed \ {n}
    /\ pruning' = {}
    /\ UNCHANGED <<op, kind, pc, from, verdict, phase, files, ctx, ghosts>>
-----------------------------------------------------------------------------
RestoreNext ==
    \/ \E k \in Kinds \ {"promote"} : Start(k)
    \/ "promote" \in Kinds /\ \E n \in Ops : Promote(n)
    \/ Create \/ Load \/ JournalPrepared \/ JournalSwitching
    \/ Seal \/ RenameAside \/ RenameIntoPlace \/ Undo \/ Reopen \/ Open \/ RunRestore
    \/ JournalSwitched \/ RestoreAppRole
    \/ RetireEntry \/ Retire \/ LandEntry \/ Landed \/ Unland \/ PutBack \/ Sweep
    \/ VerifyLive \/ JournalCommitted \/ Unwind
    \/ ProcessDies \/ Resolve \/ PruneLists \/ PruneDrops

RestoreSpec == RestoreInit /\ [][RestoreNext]_restoreVars
-----------------------------------------------------------------------------
\* The files of the installation are never lost: until the files of a newer
\* version are all in place, each old one is in the storage root or in a
\* retired directory, through failed swaps, crashes, resolutions and the
\* clean-up of later operations (cleanupInternalDirs, swapStorage).
OldFilesKept ==
    \A name \in Names : \E d \in {Root} \cup {Retired(n) : n \in Ops} :
        <<name, complete>> \in files[d]

\* The database that was live when an operation began is never lost: it stays
\* live or set aside, through failed swaps, crashes and pruning, unless it was
\* loaded into (candidateSession.swap, PruneRetainedDatabases).
OldDatabaseKept ==
    \/ kind = "in-place" /\ db[Live] = op
    \/ \E n \in DbNames : db[n] = installed

\* A restore that reports success has replaced both halves: the live database
\* and every file are the archive's, and the database accepts connections.
CommittedIsWhole ==
    (phase = "COMMITTED" /\ kind # "promote" /\ op > 0) =>
        db[Live] = op /\ Live \notin sealed /\ files[Root] = Content(op)

\* A phase that lets the services start without anybody's decision says that the
\* operation failed or died before it touched anything (ErrSystemInconsistent,
\* Fail).
SaysUntouched == phase = "FAILED_UNCHANGED" \/ ~(Resolved(phase) \/ Destructive(phase))
IsUntouched == db[Live] = before.db /\ files[Root] = before.files

\* What the code leaves open: the server answers the last statement of a swap,
\* which opens the live database, with a refusal.  Nothing is lost, but the live
\* database is the new one, and may be closed.
LeftShut ==
    Live \in shut /\ files[Root] = before.files /\ before.db \in {db[Live], db[Old(op)]}

\* If every statement of the operation was answered, that phase is true: database
\* and files are the ones the operation found, whichever statements and renames
\* failed and wherever the process died, unless it was the opening that failed.
AnsweredIsUntouched == SaysUntouched /\ ctx = "live" => IsUntouched \/ LeftShut

\* ... and the database it found open is open (swap reopens it on its way out).
AnsweredStaysOpen == SaysUntouched /\ ctx = "live" /\ before.open => Live \notin sealed \ shut

\* The same without the proviso: "Errors that do NOT wrap this one are proof the
\* live system was never touched" (ErrSystemInconsistent, engine.go:178-179).
UnchangedIsUntouched == SaysUntouched => IsUntouched

\* What was there before an operation is never lost, files and database: whatever
\* fails, crashes or is cleaned up meanwhile (swapStorage, candidateSession.swap).
OldIsKept == OldFilesKept /\ OldDatabaseKept

\* The phase an operation is recorded with is true: COMMITTED says that both halves
\* were replaced, and a phase that lets the services start that neither was touched
\* (by an operation whose statements were answered, the opening of the live database
\* not with a refusal).
VerdictIsTrue == CommittedIsWhole /\ AnsweredIsUntouched /\ AnsweredStaysOpen
=============================================================================
