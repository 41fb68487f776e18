--------------------------- MODULE CommandsProofs ---------------------------
(***************************************************************************)
(* For every storage tree and every number of restores: what was there     *)
(* before one is never lost, and the phase it is recorded with is true as  *)
(* long as its statements were answered.                                   *)
(*                                                                         *)
(* For every set of workers and rows, every attempt limit and every number *)
(* of faults: the outbox never gives a row two verdicts, and the verdict   *)
(* is the outcome of the row's latest run.  For every set of keys,         *)
(* payloads and attempts: a command takes effect at most once under its    *)
(* key, and the replay contract keeps the promise of module ExactlyOnce.   *)
(***************************************************************************)
EXTENDS Restore, Outbox, Idempotency, FiniteSetTheorems, TLAPS

-----------------------------------------------------------------------------
(* Restores.  The database that was live is followed through the swap: it is *)
(* live until it is renamed aside, then it is the newest of the databases    *)
(* set aside, and pruning keeps that one.  The files are followed from the   *)
(* root to the retired directory of the operation and back; the retired      *)
(* directory is swept only when the new tree is complete.                    *)

\* Stretches of an operation.
Early == {"create", "load", "prepared", "switch"}
Swapping == {"seal", "aside", "place", "undo", "reopen", "open"}
Filing == {"retire", "land", "unland", "putback", "sweep", "check"}
Switched == {"switched", "approle", "retire", "land", "sweep", "check", "commit"}

\* Which operation can be where, and with which phase and verdict.
ControlOK ==
    /\ pc \in Early \cup Swapping \cup Filing \cup Switched \cup {"inplace", "unwind", "idle"}
    /\ pc # "idle" => op \in Ops
    /\ op > 0 /\ kind # "promote" => from = Candidate(op)
    /\ kind = "promote" => \E n \in Ops : n < op /\ from = Old(n)
    /\ pc \in {"create", "load"} => kind = "candidate"
    /\ pc \in Swapping => kind # "in-place"
    /\ pc \in {"inplace", "approle"} => kind = "in-place"
    /\ pc \in Early \cup Filing \cup {"switched"} => kind # "promote"
    /\ pc \in Early => phase \in {"VALIDATING", "CANDIDATE_READY"} /\ verdict = "unchanged"
    /\ pc \in Swapping \cup Filing \cup Switched \cup {"inplace"} =>
        phase \in {"SWITCHING", "CHECKING"}
    /\ pc = "unwind" => phase \in {"VALIDATING", "CANDIDATE_READY", "SWITCHING", "CHECKING"}
    /\ pc = "unwind" /\ verdict = "inconsistent" => phase \in {"SWITCHING", "CHECKING"}
    /\ pc \in Filing \cup {"approle", "commit"} \/ kind = "promote" => verdict = "inconsistent"

\* What each database can hold, and which ones can be pruned.
NamesOK ==
    /\ db[Live] \in Versions \cup {Absent} /\ db[Live] <= op
    /\ \A n \in Ops :
        /\ db[Old(n)] \in Versions \cup {Absent} /\ db[Old(n)] <= op
        /\ db[Candidate(n)] \in {Absent, Scratch, n}
        /\ n > op => db[Old(n)] = Absent /\ db[Candidate(n)] = Absent
        /\ Old(n) \in pruning => n < op
    /\ pc \in Early \cup {"seal", "aside", "inplace"} => db[Old(op)] = Absent

\* The database that was live when the operation began is followed through it.
SwapOK ==
    /\ before.db # Absent => before.db = installed
    /\ pc \in Early \cup {"seal", "aside", "inplace"} => db[Live] = before.db
    /\ pc \in {"aside", "undo"} => before.db # Absent
    /\ pc = "place" => db[Live] = Absent
    /\ pc \in {"place", "undo", "open"} => db[Old(op)] = before.db
    /\ pc = "undo" /\ ctx = "live" => db[Live] = Absent
    /\ pc = "reopen" /\ ctx = "live" => db[Live] = before.db /\ before.db # Absent
    /\ kind = "candidate" /\ pc \in {"prepared", "switch", "seal", "aside", "place"} =>
        db[from] = op
    /\ kind # "promote" /\ pc \in Switched \cup {"open"} => db[Live] = op

\* The last database that was live at a start is live, or the newest set aside.
KeptOK ==
    /\ installed \in Versions /\ installed <= op /\ (op > 0 => installed < op)
    /\ \/ kind = "in-place" /\ db[Live] = op
       \/ db[Live] = installed
       \/ \E n \in Ops :
            /\ db[Old(n)] = installed /\ Old(n) \notin pruning
            /\ \A m \in Ops : m > n => db[Old(m)] = Absent

\* The staged files are whole until they land, and land before anything is swept.
FilesOK ==
    /\ complete <= op
    /\ pc \in Early \cup Swapping \cup {"inplace", "switched", "approle", "retire", "land",
                                        "unland", "putback"} => complete < op
    /\ kind # "promote" /\ pc \in Early \cup {"seal", "aside", "place", "open", "inplace",
                                              "switched", "approle", "retire"} =>
        files[Stage(op)] = Content(op)
    /\ pc = "land" => files[Root] \cup files[Stage(op)] = Content(op)
    /\ pc = "sweep" => complete = op
    /\ kind # "promote" /\ pc \in {"sweep", "check", "commit"} => files[Root] = Content(op)
    /\ OldFilesKept

\* Until the swap nothing is touched, and its failures put everything back.
UntouchedOK ==
    /\ pc \in Early \cup Swapping \cup {"inplace"} => files[Root] = before.files
    /\ pc \in Early \cup {"seal", "inplace"} /\ before.open => Live \notin sealed
    /\ pc = "unwind" /\ verdict = "unchanged" /\ ctx = "live" =>
        (IsUntouched \/ LeftShut) /\ (before.open => Live \notin sealed \ shut)
    /\ pc = "commit" /\ kind # "promote" => Live \notin sealed
    /\ Live \in shut => op > 0

RestoreIInv ==
    /\ RestoreTypeOK /\ ControlOK /\ NamesOK /\ SwapOK /\ KeptOK /\ FilesOK
    /\ UntouchedOK /\ VerdictIsTrue
-----------------------------------------------------------------------------
USE MaxRestoresAssumption, KindsAssumption, KeepAssumption

\* The databases of an installation are told apart by their names.
LEMMA Databases ==
    /\ Live \in DbNames
    /\ \A n \in Ops : Old(n) \in DbNames /\ Candidate(n) \in DbNames
    /\ \A n \in Ops : Old(n) # Live /\ Candidate(n) # Live
    /\ \A m, n \in Ops : Old(n) # Candidate(m)
    /\ \A m, n \in Ops : (Old(m) = Old(n) => m = n) /\ (Candidate(m) = Candidate(n) => m = n)
    /\ \A x \in DbNames : x = Live \/ \E n \in Ops : x = Old(n) \/ x = Candidate(n)
BY DEF Live, Old, Candidate, DbNames

\* So are the directories of its storage root.
LEMMA Directories ==
    /\ Root \in Dirs
    /\ \A n \in Ops : Stage(n) \in Dirs /\ Retired(n) \in Dirs
    /\ \A n \in Ops : Stage(n) # Root /\ Retired(n) # Root
    /\ \A m, n \in Ops : Stage(m) # Retired(n)
    /\ \A m, n \in Ops : (Stage(m) = Stage(n) => m = n) /\ (Retired(m) = Retired(n) => m = n)
BY DEF Root, Stage, Retired, Dirs

\* Clearing the scratch directories leaves the root and the retired ones alone.
LEMMA CleanupKeeps ==
  ASSUME NEW tree \in [Dirs -> SUBSET (Names \X Versions)]
  PROVE  /\ CleanupInternalDirs(tree) \in [Dirs -> SUBSET (Names \X Versions)]
         /\ CleanupInternalDirs(tree)[Root] = tree[Root]
         /\ \A n \in Ops : CleanupInternalDirs(tree)[Retired(n)] = tree[Retired(n)]
BY DEF CleanupInternalDirs, Root, Retired, Dirs

\* What a statement can come to: it succeeds, it is refused, or it breaks the
\* connection, applied or not.
Succeeds(newDb, newSealed, ok) ==
    /\ ctx = "live" /\ ctx' = "live"
    /\ db' = newDb /\ sealed' = newSealed /\ pc' = ok
Refuses(err) == UNCHANGED dbVars /\ pc' = err
Breaks(newDb, newSealed, err) ==
    /\ ctx' = "done" /\ pc' = err
    /\ UNCHANGED <<db, sealed>> \/ (db' = newDb /\ sealed' = newSealed)

\* A statement that is run comes to one of these.
LEMMA Statement ==
  ASSUME NEW newDb, NEW newSealed, NEW ok, NEW err, ctx \in {"live", "done"}
  PROVE  /\ Exec(Replies, newDb, newSealed, ok, err) =>
              \/ Succeeds(newDb, newSealed, ok)
              \/ Refuses(err)
              \/ Breaks(newDb, newSealed, err)
         /\ Exec({Refused}, newDb, newSealed, ok, err) => Refuses(err)
<1> USE DEF Refused, Succeeds, Refuses, Breaks, dbVars
<1>1. ASSUME NEW r \in Replies
      PROVE  /\ r.ok => r.applied /\ r.ctx = "live" /\ ctx = "live"
             /\ ~r.ok /\ r.ctx = "live" => r = Refused
             /\ r.ctx = "live" \/ r.ctx = "done"
             /\ ctx = "done" => r = Refused
  BY <1>1 DEF Replies
<1>2. Exec(Replies, newDb, newSealed, ok, err) =>
          \/ Succeeds(newDb, newSealed, ok) \/ Refuses(err) \/ Breaks(newDb, newSealed, err)
  BY <1>1 DEF Exec
<1>3. Exec({Refused}, newDb, newSealed, ok, err) => Refuses(err)
  BY DEF Exec
<1> QED
  BY <1>2, <1>3
-----------------------------------------------------------------------------
\* At the start there is one database, one tree of files and no operation.
LEMMA RestoreInitIInv == RestoreInit => RestoreIInv
<1> SUFFICES ASSUME RestoreInit PROVE RestoreIInv
  OBVIOUS
<1> USE Databases, Directories DEF RestoreInit
<1>0. 0 \in Versions /\ 0 \notin Ops /\ db[Live] = 0 /\ files[Root] = Content(0)
  BY DEF Versions, Ops
<1>1. RestoreTypeOK
  <2>1. db \in [DbNames -> Versions \cup {Absent, Scratch}]
    BY <1>0
  <2>2. files \in [Dirs -> SUBSET (Names \X Versions)]
    BY <1>0 DEF Content
  <2> QED
    BY <1>0, <2>1, <2>2 DEF RestoreTypeOK, Phases, Content, Absent
<1>2. ControlOK
  BY DEF ControlOK, Early, Swapping, Filing, Switched
<1>3. NamesOK
  BY <1>0 DEF NamesOK, Early, Absent, Ops
<1>4. SwapOK /\ KeptOK
  BY <1>0 DEF SwapOK, KeptOK, Early, Switched
<1>5. FilesOK
  BY <1>0 DEF FilesOK, Early, Swapping, OldFilesKept, Content
<1>6. UntouchedOK /\ VerdictIsTrue
  BY DEF UntouchedOK, VerdictIsTrue, CommittedIsWhole, AnsweredIsUntouched, AnsweredStaysOpen,
     SaysUntouched, Resolved
<1> QED
  BY <1>1, <1>2, <1>3, <1>4, <1>5, <1>6 DEF RestoreIInv
-----------------------------------------------------------------------------
\* What the statements of an operation come to, each with the databases it
\* leaves.
Idles(at) == pc = at /\ UNCHANGED <<op, kind, from, phase, files, pruning, ghosts>>
Opens(at) ==
    pc = at /\ UNCHANGED <<op, kind, from, phase, files, pruning, before, complete, installed>>
Ends(newDb, newSealed, ok, err) ==
    Succeeds(newDb, newSealed, ok) \/ Refuses(err) \/ Breaks(newDb, newSealed, err)

\* Each statement of an operation comes to one of these.
LEMMA StatementSteps ==
  ASSUME ctx \in {"live", "done"}
  PROVE  /\ Create =>
              /\ Idles("create") /\ UNCHANGED verdict
              /\ Ends([db EXCEPT ![from] = Scratch], sealed, "load", "unwind")
         /\ Load =>
              /\ Idles("load") /\ UNCHANGED verdict
              /\ Ends([db EXCEPT ![from] = op], sealed, "prepared", "unwind")
         /\ Seal =>
              /\ Idles("seal") /\ UNCHANGED verdict
              /\ IF LiveExists THEN Ends(db, sealed \cup {Live}, "aside", "unwind")
                 ELSE Ends(db, sealed, "place", "unwind")
         /\ RenameAside =>
              /\ Idles("aside") /\ UNCHANGED verdict
              /\ Ends(Renamed(Live, Old(op)), SealedAfter(Live, Old(op)), "place", "reopen")
         /\ RenameIntoPlace =>
              /\ Idles("place") /\ UNCHANGED verdict
              /\ LET err == IF db[Old(op)] # Absent THEN "undo" ELSE "unwind"
                 IN  \/ Refuses(err)
                     \/ /\ db[from] # Absent
                        /\ Ends(Renamed(from, Live), SealedAfter(from, Live), "open", err)
         /\ Undo =>
              /\ Idles("undo")
              /\ verdict' = IF pc' = "unwind" THEN "inconsistent" ELSE verdict
              /\ \/ Refuses("unwind")
                 \/ /\ db[Live] = Absent /\ db[Old(op)] # Absent
                    /\ Ends(Renamed(Old(op), Live), SealedAfter(Old(op), Live), "reopen",
                                "unwind")
         /\ Reopen =>
              /\ Opens("reopen") /\ UNCHANGED verdict /\ shut' = (IF ctx' = "live" /\ Live \in sealed' THEN {Live} ELSE {})
              /\ \/ Refuses("unwind")
                 \/ LiveExists /\ Ends(db, sealed \ {Live}, "unwind", "unwind")
         /\ Open =>
              /\ Opens("open") /\ UNCHANGED verdict /\ shut' = (IF ctx' = "live" /\ pc' = "unwind" THEN {Live} ELSE {})
              /\ Ends(db, sealed \ {Live}, IF kind = "promote" THEN "commit" ELSE "switched", "unwind")
         /\ RunRestore =>
              /\ Idles("inplace") /\ UNCHANGED verdict
              /\ \/ Refuses("unwind")
                 \/ /\ LiveExists /\ Live \notin sealed
                    /\ Ends([db EXCEPT ![Live] = op], sealed, "switched", "unwind")
         /\ RestoreAppRole =>
              /\ Idles("approle") /\ UNCHANGED verdict
              /\ Ends(db, sealed, "retire", "unwind")
         /\ VerifyLive =>
              /\ Idles("check") /\ UNCHANGED verdict
              /\ \/ Refuses("unwind")
                 \/ /\ LiveExists /\ Live \notin sealed
                    /\ Ends(db, sealed, "commit", "unwind")
<1> USE Statement DEF Idles, Opens, Ends, ghosts
<1>1. Create =>
         /\ Idles("create") /\ UNCHANGED verdict
         /\ Ends([db EXCEPT ![from] = Scratch], sealed, "load", "unwind")
  BY DEF Create
<1>2. Load =>
         /\ Idles("load") /\ UNCHANGED verdict
         /\ Ends([db EXCEPT ![from] = op], sealed, "prepared", "unwind")
  BY DEF Load
<1>3. Seal =>
         /\ Idles("seal") /\ UNCHANGED verdict
         /\ IF LiveExists THEN Ends(db, sealed \cup {Live}, "aside", "unwind")
            ELSE Ends(db, sealed, "place", "unwind")
  BY DEF Seal
<1>4. RenameAside =>
         /\ Idles("aside") /\ UNCHANGED verdict
         /\ Ends(Renamed(Live, Old(op)), SealedAfter(Live, Old(op)), "place", "reopen")
  BY DEF RenameAside
<1>5. RenameIntoPlace =>
         /\ Idles("place") /\ UNCHANGED verdict
         /\ LET err == IF db[Old(op)] # Absent THEN "undo" ELSE "unwind"
            IN  \/ Refuses(err)
                \/ /\ db[from] # Absent
                   /\ Ends(Renamed(from, Live), SealedAfter(from, Live), "open", err)
  BY DEF RenameIntoPlace
<1>6. Undo =>
         /\ Idles("undo")
         /\ verdict' = IF pc' = "unwind" THEN "inconsistent" ELSE verdict
         /\ \/ Refuses("unwind")
            \/ /\ db[Live] = Absent /\ db[Old(op)] # Absent
               /\ Ends(Renamed(Old(op), Live), SealedAfter(Old(op), Live), "reopen",
                           "unwind")
  BY DEF Undo
<1>7. Reopen =>
         /\ Opens("reopen") /\ UNCHANGED verdict /\ shut' = (IF ctx' = "live" /\ Live \in sealed' THEN {Live} ELSE {})
         /\ \/ Refuses("unwind")
            \/ LiveExists /\ Ends(db, sealed \ {Live}, "unwind", "unwind")
  BY DEF Reopen
<1>8. Open =>
         /\ Opens("open") /\ UNCHANGED verdict /\ shut' = (IF ctx' = "live" /\ pc' = "unwind" THEN {Live} ELSE {})
         /\ Ends(db, sealed \ {Live}, IF kind = "promote" THEN "commit" ELSE "switched", "unwind")
  BY DEF Open
<1>9. RunRestore =>
         /\ Idles("inplace") /\ UNCHANGED verdict
         /\ \/ Refuses("unwind")
            \/ /\ LiveExists /\ Live \notin sealed
               /\ Ends([db EXCEPT ![Live] = op], sealed, "switched", "unwind")
  BY DEF RunRestore
<1>10. RestoreAppRole =>
         /\ Idles("approle") /\ UNCHANGED verdict
         /\ Ends(db, sealed, "retire", "unwind")
  BY DEF RestoreAppRole
<1>11. VerifyLive =>
         /\ Idles("check") /\ UNCHANGED verdict
         /\ \/ Refuses("unwind")
            \/ /\ LiveExists /\ Live \notin sealed
               /\ Ends(db, sealed, "commit", "unwind")
  BY DEF VerifyLive
<1> QED
  BY <1>1, <1>2, <1>3, <1>4, <1>5, <1>6, <1>7, <1>8, <1>9, <1>10, <1>11

-----------------------------------------------------------------------------
\* A renamed database keeps its contents and its seal, and leaves its name free.
LEMMA Renames ==
  ASSUME RestoreTypeOK, NEW a \in DbNames, NEW b \in DbNames, a # b
  PROVE  /\ Renamed(a, b) \in [DbNames -> Versions \cup {Absent, Scratch}]
         /\ Renamed(a, b)[a] = Absent /\ Renamed(a, b)[b] = db[a]
         /\ \A x \in DbNames \ {a, b} : Renamed(a, b)[x] = db[x]
         /\ \A x \in DbNames : x \in SealedAfter(a, b) <=>
                (x \notin {a, b} /\ x \in sealed) \/ (x = b /\ a \in sealed)
         /\ SealedAfter(a, b) \subseteq {n \in DbNames : Renamed(a, b)[n] # Absent}
<1>1. /\ Renamed(a, b) \in [DbNames -> Versions \cup {Absent, Scratch}]
      /\ Renamed(a, b)[a] = Absent /\ Renamed(a, b)[b] = db[a]
      /\ \A x \in DbNames \ {a, b} : Renamed(a, b)[x] = db[x]
  BY DEF RestoreTypeOK, Renamed
<1>2. \A x : x \in SealedAfter(a, b) <=>
                 (x \notin {a, b} /\ x \in sealed) \/ (x = b /\ a \in sealed)
  BY DEF SealedAfter
<1> QED
  BY <1>1, <1>2 DEF RestoreTypeOK

\* Every step keeps every variable in its type.
LEMMA NextTypes ==
  ASSUME RestoreIInv, RestoreNext
  PROVE  RestoreTypeOK'
<1>0. /\ RestoreTypeOK /\ NamesOK /\ ControlOK
  BY DEF RestoreIInv
<1>r. \A a, b \in DbNames : a # b =>
        /\ Renamed(a, b) \in [DbNames -> Versions \cup {Absent, Scratch}]
        /\ SealedAfter(a, b) \subseteq {n \in DbNames : Renamed(a, b)[n] # Absent}
  BY <1>0, Renames
<1> USE Databases, Directories, CleanupKeeps DEF RestoreTypeOK
<1>1. CASE \E k \in Kinds \ {"promote"} : Start(k)
  <2>1. PICK k \in Kinds \ {"promote"} : Start(k)
    BY <1>1
  <2>2. op + 1 \in Ops /\ Candidate(op + 1) \in DbNames /\ k \in {"candidate", "in-place"}
    BY <1>0, <2>1 DEF Start, Ops
  <2>3. db[Live] \in Versions \cup {Absent, Scratch} /\ files[Root] \in SUBSET (Names \X Versions)
    BY <1>0
  <2>4. before' \in [db: Versions \cup {Absent, Scratch}, files: SUBSET (Names \X Versions),
                    open: BOOLEAN]
    BY <2>1, <2>3 DEF Start, Remember
  <2>5. installed' \in Versions \cup {Scratch}
    BY <1>0, <2>1, <2>3 DEF Start, Remember
  <2>6. Content(op + 1) \in SUBSET (Names \X Versions)
    BY <2>2 DEF Content, Ops, Versions
  <2>7. files' \in [Dirs -> SUBSET (Names \X Versions)]
    <3> DEFINE tree == CleanupInternalDirs(files)
    <3>1. tree \in [Dirs -> SUBSET (Names \X Versions)]
      BY <1>0, CleanupKeeps
    <3> HIDE DEF tree
    <3>2. files' \in {[tree EXCEPT ![Stage(op + 1)] = Content(op + 1)], tree, files}
      BY <2>1 DEF Start, tree
    <3> QED
      BY <1>0, <2>6, <3>1, <3>2
  <2>8. /\ op' \in 0..MaxRestores /\ kind' = k /\ pc' \in {"create", "prepared", "unwind"}
        /\ from' \in DbNames /\ verdict' = "unchanged" /\ phase' = "VALIDATING" /\ ctx' = "live"
        /\ UNCHANGED <<db, sealed, pruning, complete>> /\ shut' = {}
    BY <2>1, <2>2 DEF Start, Remember, Ops
  <2> QED
    BY <1>0, <2>2, <2>4, <2>5, <2>7, <2>8 DEF Phases
<1>2. CASE "promote" \in Kinds /\ \E n \in Ops : Promote(n)
  BY <1>0, <1>2 DEF Promote, Remember, Phases
<1>3. CASE Create
  <2> DEFINE set == [db EXCEPT ![from] = Scratch]
  <2>1. from \in DbNames /\ Scratch \in Versions \cup {Scratch}
    BY <1>0, <1>3, StatementSteps DEF ControlOK
  <2>2. /\ set \in [DbNames -> Versions \cup {Absent, Scratch}]
        /\ sealed \subseteq {n \in DbNames : set[n] # Absent}
    BY <1>0, <2>1 DEF Versions, Absent, Scratch
  <2> HIDE DEF set
  <2>3. /\ Idles(pc) /\ UNCHANGED verdict
        /\ Ends(set, sealed, "load", "unwind") \/ Refuses("unwind")
    BY <1>0, <1>3, StatementSteps DEF set, Idles
  <2> QED
    BY <1>0, <2>2, <2>3 DEF Idles, Ends, Succeeds, Refuses, Breaks, dbVars, ghosts
<1>4. CASE Load
  <2> DEFINE set == [db EXCEPT ![from] = op]
  <2>1. from \in DbNames /\ op \in Versions \cup {Scratch}
    BY <1>0, <1>4, StatementSteps DEF ControlOK, Versions
  <2>2. /\ set \in [DbNames -> Versions \cup {Absent, Scratch}]
        /\ sealed \subseteq {n \in DbNames : set[n] # Absent}
    BY <1>0, <2>1 DEF Versions, Absent, Scratch
  <2> HIDE DEF set
  <2>3. /\ Idles(pc) /\ UNCHANGED verdict
        /\ Ends(set, sealed, "prepared", "unwind") \/ Refuses("unwind")
    BY <1>0, <1>4, StatementSteps DEF set, Idles
  <2> QED
    BY <1>0, <2>2, <2>3 DEF Idles, Ends, Succeeds, Refuses, Breaks, dbVars, ghosts
<1>5. CASE Seal
  <2>1. /\ Live \in DbNames
        /\ LiveExists => sealed \cup {Live} \subseteq {n \in DbNames : db[n] # Absent}
    BY <1>0 DEF LiveExists
  <2> QED
    BY <1>0, <1>5, <2>1, StatementSteps DEF Idles, Ends, Succeeds, Refuses, Breaks, dbVars,
       ghosts
<1>6. CASE RenameAside
  <2>1. Live \in DbNames /\ Old(op) \in DbNames /\ Live # Old(op)
    BY <1>0, <1>6, StatementSteps DEF ControlOK, Idles, Swapping, Ops
  <2>2. /\ Renamed(Live, Old(op)) \in [DbNames -> Versions \cup {Absent, Scratch}]
        /\ SealedAfter(Live, Old(op)) \subseteq {n \in DbNames : Renamed(Live, Old(op))[n] # Absent}
    BY <2>1, <1>r
  <2> QED
    BY <1>0, <1>6, <2>2, StatementSteps DEF Idles, Ends, Succeeds, Refuses, Breaks, dbVars,
       ghosts
<1>7. CASE RenameIntoPlace
  <2>1. from \in DbNames /\ Live \in DbNames /\ from # Live
    BY <1>0, <1>7, StatementSteps DEF ControlOK, Idles, Swapping, Ops
  <2>2. /\ Renamed(from, Live) \in [DbNames -> Versions \cup {Absent, Scratch}]
        /\ SealedAfter(from, Live) \subseteq {n \in DbNames : Renamed(from, Live)[n] # Absent}
    BY <2>1, <1>r
  <2> QED
    BY <1>0, <1>7, <2>2, StatementSteps DEF Idles, Ends, Succeeds, Refuses, Breaks, dbVars,
       ghosts
<1>8. CASE Undo
  <2>1. Old(op) \in DbNames /\ Live \in DbNames /\ Old(op) # Live
    BY <1>0, <1>8, StatementSteps DEF ControlOK, Idles, Swapping, Ops
  <2>2. /\ Renamed(Old(op), Live) \in [DbNames -> Versions \cup {Absent, Scratch}]
        /\ SealedAfter(Old(op), Live) \subseteq {n \in DbNames : Renamed(Old(op), Live)[n] # Absent}
    BY <2>1, <1>r
  <2> QED
    BY <1>0, <1>8, <2>2, StatementSteps DEF Idles, Ends, Succeeds, Refuses, Breaks, dbVars,
       ghosts
<1>9. CASE Reopen
  BY <1>0, <1>9, StatementSteps DEF Opens, Ends, Succeeds, Refuses, Breaks, dbVars, ghosts
<1>10. CASE Open
  BY <1>0, <1>10, StatementSteps DEF Opens, Ends, Succeeds, Refuses, Breaks, dbVars, ghosts
<1>11. CASE RunRestore
  <2> DEFINE set == [db EXCEPT ![Live] = op]
  <2>1. Live \in DbNames /\ op \in Versions \cup {Scratch}
    BY <1>0, <1>11, StatementSteps DEF ControlOK, Versions
  <2>2. /\ set \in [DbNames -> Versions \cup {Absent, Scratch}]
        /\ sealed \subseteq {n \in DbNames : set[n] # Absent}
    BY <1>0, <2>1 DEF Versions, Absent, Scratch
  <2> HIDE DEF set
  <2>3. /\ Idles(pc) /\ UNCHANGED verdict
        /\ Ends(set, sealed, "switched", "unwind") \/ Refuses("unwind")
    BY <1>0, <1>11, StatementSteps DEF set, Idles
  <2> QED
    BY <1>0, <2>2, <2>3 DEF Idles, Ends, Succeeds, Refuses, Breaks, dbVars, ghosts
<1>12. CASE RestoreAppRole
  BY <1>0, <1>12, StatementSteps DEF Idles, Ends, Succeeds, Refuses, Breaks, dbVars, ghosts
<1>13. CASE VerifyLive
  BY <1>0, <1>13, StatementSteps DEF Idles, Ends, Succeeds, Refuses, Breaks, dbVars, ghosts
<1>14. CASE JournalPrepared
  BY <1>0, <1>14 DEF JournalPrepared, Journal, Phases, dbVars, ghosts
<1>15. CASE JournalSwitching
  BY <1>0, <1>15 DEF JournalSwitching, Journal, Phases, dbVars, ghosts
<1>16. CASE JournalSwitched
  BY <1>0, <1>16 DEF JournalSwitched, Journal, Phases, dbVars, ghosts
<1>17. CASE JournalCommitted
  BY <1>0, <1>17 DEF JournalCommitted, Journal, Phases, dbVars, ghosts
<1>18. CASE RetireEntry
  BY <1>0, <1>18 DEF RetireEntry, Move, dbVars, ghosts
<1>19. CASE Retire
  BY <1>0, <1>19 DEF Retire, Phases, dbVars, ghosts
<1>20. CASE LandEntry
  <2>1. op \in Ops
    BY <1>0, <1>20 DEF LandEntry, ControlOK
  <2>2. files' \in [Dirs -> SUBSET (Names \X Versions)]
    <3>1. CASE UNCHANGED files
      BY <1>0, <3>1
    <3>2. CASE \E e \in files[Stage(op)] : Move(e, Stage(op), Root)
      <4>1. PICK e \in files[Stage(op)] :
                  files' = [files EXCEPT ![Stage(op)] = @ \ {e}, ![Root] = @ \cup {e}]
        BY <3>2 DEF Move
      <4>2. e \in Names \X Versions
        BY <1>0, <2>1, <4>1
      <4> QED
        BY <1>0, <4>1, <4>2
    <3> QED
      BY <1>20, <3>1, <3>2 DEF LandEntry
  <2> QED
    BY <1>0, <1>20, <2>2 DEF LandEntry, dbVars, ghosts
<1>21. CASE Landed
  <2>1. complete' \in Versions
    BY <1>0, <1>21 DEF Landed, ControlOK, Ops, Versions
  <2> QED
    BY <1>0, <1>21, <2>1 DEF Landed, dbVars
<1>22. CASE Unland
  BY <1>0, <1>22 DEF Unland, Phases, dbVars, ghosts
<1>23. CASE PutBack
  <2>1. PICK back \in SUBSET {e \in files[Retired(op)] : \A o \in files[Root] : o[1] # e[1]} :
              files' = [files EXCEPT ![Root] = @ \cup back, ![Retired(op)] = @ \ back]
    BY <1>23 DEF PutBack
  <2>2. back \subseteq Names \X Versions
    BY <1>0, <1>23, <2>1 DEF PutBack, ControlOK
  <2>3. files' \in [Dirs -> SUBSET (Names \X Versions)]
    BY <1>0, <2>1, <2>2
  <2> QED
    BY <1>0, <1>23, <2>3 DEF PutBack, dbVars, ghosts
<1>24. CASE Sweep
  <2>1. PICK kept \in SUBSET files[Retired(op)] : files' = [files EXCEPT ![Retired(op)] = kept]
    BY <1>24 DEF Sweep
  <2>2. files' \in [Dirs -> SUBSET (Names \X Versions)]
    BY <1>0, <1>24, <2>1 DEF Sweep, ControlOK
  <2> QED
    BY <1>0, <1>24, <2>2 DEF Sweep, dbVars, ghosts
<1>25. CASE Unwind
  <2>1. op \in Ops /\ from \in DbNames /\ verdict \in {"unchanged", "inconsistent"}
    BY <1>0, <1>25 DEF Unwind, ControlOK
  <2>2. files' \in [Dirs -> SUBSET (Names \X Versions)]
    BY <1>0, <1>25, <2>1 DEF Unwind
  <2>3. db' \in [DbNames -> Versions \cup {Absent, Scratch}] /\ sealed' \subseteq {n \in DbNames : db'[n] # Absent}
    BY <1>0, <1>25, <2>1 DEF Unwind
  <2>4. phase' \in Phases
    BY <1>0, <1>25, <2>1 DEF Unwind, Outcome, Phases
  <2> QED
    BY <1>0, <1>25, <2>2, <2>3, <2>4 DEF Unwind, ghosts
<1>26. CASE ProcessDies
  BY <1>0, <1>26 DEF ProcessDies, Phases, dbVars, ghosts
<1>27. CASE Resolve
  BY <1>0, <1>27 DEF Resolve, Phases, dbVars, ghosts
<1>28. CASE PruneLists
  <2>1. pruning' \subseteq {Old(n) : n \in Ops}
    BY <1>28 DEF PruneLists, Retained
  <2> QED
    BY <1>0, <1>28, <2>1 DEF PruneLists, dbVars, ghosts
<1>29. CASE PruneDrops
  BY <1>0, <1>29 DEF PruneDrops, Phases, dbVars, ghosts
<1> QED
  BY <1>1, <1>2, <1>3, <1>4, <1>5, <1>6, <1>7, <1>8, <1>9, <1>10, <1>11, <1>12, <1>13, <1>14,
     <1>15, <1>16, <1>17, <1>18, <1>19, <1>20, <1>21, <1>22, <1>23, <1>24, <1>25, <1>26, <1>27,
     <1>28, <1>29 DEF RestoreNext

-----------------------------------------------------------------------------
\* Every operation goes its own way, and its phase and verdict with it.
LEMMA NextControl ==
  ASSUME RestoreIInv, RestoreNext
  PROVE  ControlOK'
<1>0. /\ ControlOK /\ NamesOK /\ ctx \in {"live", "done"} /\ op \in 0..MaxRestores
      /\ kind \in {"candidate", "in-place", "promote"}
      /\ verdict \in {"unchanged", "inconsistent"}
  BY DEF RestoreIInv, RestoreTypeOK
<1> USE DEF Ops
<1>1. CASE \E k \in Kinds \ {"promote"} : Start(k)
  BY <1>0, <1>1 DEF Start, ControlOK, Early, Swapping, Filing, Switched
<1>2. CASE "promote" \in Kinds /\ \E n \in Ops : Promote(n)
  <2>1. PICK n \in Ops : Promote(n)
    BY <1>2
  <2>2. n < op + 1
    BY <1>0, <2>1 DEF Promote, NamesOK
  <2> QED
    BY <1>0, <2>1, <2>2 DEF Promote, ControlOK, Early, Swapping, Filing, Switched
<1>3. CASE Create
  BY <1>0, <1>3, StatementSteps DEF Idles, Ends, Succeeds, Refuses, Breaks, ControlOK, Early,
     Swapping, Filing, Switched
<1>4. CASE Load
  BY <1>0, <1>4, StatementSteps DEF Idles, Ends, Succeeds, Refuses, Breaks, ControlOK, Early,
     Swapping, Filing, Switched
<1>5. CASE Seal
  BY <1>0, <1>5, StatementSteps DEF Idles, Ends, Succeeds, Refuses, Breaks, ControlOK, Early,
     Swapping, Filing
<1>6. CASE RenameAside
  BY <1>0, <1>6, StatementSteps DEF Idles, Ends, Succeeds, Refuses, Breaks, ControlOK, Early,
     Swapping, Filing
<1>7. CASE RenameIntoPlace
  BY <1>0, <1>7, StatementSteps DEF Idles, Ends, Succeeds, Refuses, Breaks, ControlOK, Early,
     Swapping, Filing
<1>8. CASE Undo
  BY <1>0, <1>8, StatementSteps DEF Idles, Ends, Succeeds, Refuses, Breaks, ControlOK, Early,
     Swapping, Filing
<1>9. CASE Reopen
  BY <1>0, <1>9, StatementSteps DEF Opens, Ends, Succeeds, Refuses, Breaks, dbVars, ControlOK, Early, Swapping,
     Filing
<1>10. CASE Open
  BY <1>0, <1>10, StatementSteps DEF Opens, Ends, Succeeds, Refuses, Breaks, dbVars, ControlOK, Early, Filing, Switched
<1>11. CASE RunRestore
  BY <1>0, <1>11, StatementSteps DEF Idles, Ends, Succeeds, Refuses, Breaks, ControlOK, Early,
     Swapping, Filing, Switched
<1>12. CASE RestoreAppRole
  BY <1>0, <1>12, StatementSteps DEF Idles, Ends, Succeeds, Refuses, Breaks, ControlOK, Early,
     Swapping, Filing
<1>13. CASE VerifyLive
  BY <1>0, <1>13, StatementSteps DEF Idles, Ends, Succeeds, Refuses, Breaks, ControlOK, Early,
     Swapping, Filing, Switched
<1>14. CASE JournalPrepared
  BY <1>0, <1>14 DEF JournalPrepared, Journal, ControlOK, Early, Swapping, Filing, Switched
<1>15. CASE JournalSwitching
  BY <1>0, <1>15 DEF JournalSwitching, Journal, ControlOK, Early, Swapping, Filing, Switched
<1>16. CASE JournalSwitched
  BY <1>0, <1>16 DEF JournalSwitched, Journal, ControlOK, Early, Swapping, Switched
<1>17. CASE JournalCommitted
  BY <1>0, <1>17 DEF JournalCommitted, Journal, ControlOK, Early, Swapping, Filing, Switched
<1>18. CASE RetireEntry
  BY <1>0, <1>18 DEF RetireEntry, ControlOK, Early, Swapping, Filing
<1>19. CASE Retire
  BY <1>0, <1>19 DEF Retire, ControlOK, Early, Swapping, Filing
<1>20. CASE LandEntry
  BY <1>0, <1>20 DEF LandEntry, ControlOK, Early, Swapping, Filing
<1>21. CASE Landed
  BY <1>0, <1>21 DEF Landed, ControlOK, Early, Swapping, Filing
<1>22. CASE Unland
  BY <1>0, <1>22 DEF Unland, ControlOK, Early, Swapping, Filing
<1>23. CASE PutBack
  BY <1>0, <1>23 DEF PutBack, ControlOK, Early, Swapping, Filing
<1>24. CASE Sweep
  BY <1>0, <1>24 DEF Sweep, ControlOK, Early, Swapping, Filing
<1>25. CASE Unwind
  BY <1>0, <1>25 DEF Unwind, ControlOK, Early, Swapping, Filing, Switched
<1>26. CASE ProcessDies
  BY <1>0, <1>26 DEF ProcessDies, ControlOK, Early, Swapping, Filing, Switched
<1>27. CASE Resolve
  BY <1>0, <1>27 DEF Resolve, ControlOK, Early, Swapping, Filing, Switched
<1>28. CASE PruneLists
  BY <1>0, <1>28 DEF PruneLists, ControlOK
<1>29. CASE PruneDrops
  BY <1>0, <1>29 DEF PruneDrops, ControlOK
<1> QED
  BY <1>1, <1>2, <1>3, <1>4, <1>5, <1>6, <1>7, <1>8, <1>9, <1>10, <1>11, <1>12, <1>13, <1>14,
     <1>15, <1>16, <1>17, <1>18, <1>19, <1>20, <1>21, <1>22, <1>23, <1>24, <1>25, <1>26, <1>27,
     <1>28, <1>29 DEF RestoreNext

-----------------------------------------------------------------------------
\* Pruning never lists the newest database set aside.
LEMMA PrunedIsNotNewest ==
  ASSUME NEW n \in Ops, Cardinality(Newer(n)) >= Keep
  PROVE  \E m \in Ops : m > n /\ db[Old(m)] # Absent
BY FS_EmptySet DEF Keep, Newer, Retained

\* No database set aside is written over, and none of this operation is pruned.
LEMMA NextNames ==
  ASSUME RestoreIInv, RestoreNext
  PROVE  NamesOK'
<1>0. /\ RestoreTypeOK /\ NamesOK /\ ctx \in {"live", "done"} /\ op \in 0..MaxRestores
      /\ db \in [DbNames -> Versions \cup {Absent, Scratch}]
      /\ pc # "idle" => op \in Ops
      /\ pc \in {"create", "load"} => from = Candidate(op)
      /\ pc = "unwind" /\ kind = "candidate" => from = Candidate(op)
      /\ pc = "place" => (from = Candidate(op) /\ db[from] = op) \/ \E n \in Ops : n < op /\ from = Old(n)
  <2>1. RestoreTypeOK /\ SwapOK /\ ControlOK /\ NamesOK
    BY DEF RestoreIInv
  <2>2. /\ ctx \in {"live", "done"} /\ op \in 0..MaxRestores
        /\ db \in [DbNames -> Versions \cup {Absent, Scratch}]
    BY <2>1 DEF RestoreTypeOK
  <2>3. /\ pc # "idle" => op \in Ops
        /\ op \in Ops /\ kind # "promote" => from = Candidate(op)
        /\ kind = "promote" => \E n \in Ops : n < op /\ from = Old(n)
        /\ pc \in {"create", "load"} => kind = "candidate"
        /\ kind \in {"candidate", "in-place", "promote"} /\ (pc = "place" => kind # "in-place")
    BY <2>1 DEF RestoreTypeOK, ControlOK, Ops, Swapping
  <2>4. kind = "candidate" /\ pc = "place" => db[from] = op
    BY <2>1 DEF SwapOK
  <2> QED
    BY <2>1, <2>2, <2>3, <2>4
<1> USE Databases, Renames DEF Ops, Versions, Absent, Scratch
<1>1. CASE \E k \in Kinds \ {"promote"} : Start(k)
  BY <1>0, <1>1 DEF Start, NamesOK
<1>2. CASE "promote" \in Kinds /\ \E n \in Ops : Promote(n)
  BY <1>0, <1>2 DEF Promote, NamesOK
<1>3. CASE Create
  BY <1>0, <1>3, StatementSteps DEF Idles, Ends, Succeeds, Refuses, Breaks, dbVars, NamesOK,
     Early
<1>4. CASE Load
  BY <1>0, <1>4, StatementSteps DEF Idles, Ends, Succeeds, Refuses, Breaks, dbVars, NamesOK,
     Early
<1>5. CASE Seal
  BY <1>0, <1>5, StatementSteps DEF Idles, Ends, Succeeds, Refuses, Breaks, dbVars, NamesOK
<1>6. CASE RenameAside
  BY <1>0, <1>6, StatementSteps DEF Idles, Ends, Succeeds, Refuses, Breaks, dbVars, NamesOK,
     Early
<1>7. CASE RenameIntoPlace
  <2>1. pc = "place" /\ op \in Ops /\ Idles("place")
    BY <1>0, <1>7, StatementSteps DEF Idles
  <2>2. CASE UNCHANGED db
    <3>1. pc' \notin Early \cup {"seal", "aside", "inplace"}
      BY <1>0, <1>7, StatementSteps DEF Idles, Ends, Succeeds, Refuses, Breaks, Early
    <3> QED
      BY <1>0, <2>1, <2>2, <3>1 DEF Idles, NamesOK
  <2>3. CASE db[from] # Absent /\ db' = Renamed(from, Live)
    <3>1. pc' \notin Early \cup {"seal", "aside", "inplace"}
      BY <1>0, <1>7, StatementSteps DEF Idles, Ends, Succeeds, Refuses, Breaks, Early
    <3>2. from \in DbNames /\ from # Live /\ db[from] \in Versions /\ db[from] <= op
      BY <1>0, <2>1, <2>3 DEF NamesOK
    <3>3. /\ db'[Live] = db[from] /\ db'[from] = Absent
          /\ \A x \in DbNames \ {from, Live} : db'[x] = db[x]
      BY <1>0, <2>3, <3>2
    <3>4. op' = op /\ pruning' = pruning
      BY <2>1 DEF Idles
    <3>5. ASSUME NEW n \in Ops
          PROVE  /\ db'[Old(n)] \in Versions \cup {Absent} /\ db'[Old(n)] <= op
                 /\ db'[Candidate(n)] \in {Absent, Scratch, n}
                 /\ n > op => db'[Old(n)] = Absent /\ db'[Candidate(n)] = Absent
      <4>1. /\ db'[Old(n)] \in {db[Old(n)], Absent} /\ db'[Candidate(n)] \in {db[Candidate(n)], Absent}
        BY <3>3
      <4>2. /\ db[Old(n)] \in Versions \cup {Absent} /\ db[Old(n)] <= op
            /\ db[Candidate(n)] \in {Absent, Scratch, n}
            /\ n > op => db[Old(n)] = Absent /\ db[Candidate(n)] = Absent
        BY <1>0 DEF NamesOK
      <4> QED
        BY <1>0, <4>1, <4>2
    <3> QED
      BY <1>0, <3>1, <3>2, <3>3, <3>4, <3>5 DEF NamesOK
  <2>4. \/ \E err \in {"undo", "unwind"} : Refuses(err)
        \/ db[from] # Absent /\ \E err \in {"undo", "unwind"} :
              Ends(Renamed(from, Live), SealedAfter(from, Live), "open", err)
    <3>1. LET err == IF db[Old(op)] # Absent THEN "undo" ELSE "unwind"
          IN  \/ Refuses(err)
              \/ /\ db[from] # Absent
                 /\ Ends(Renamed(from, Live), SealedAfter(from, Live), "open", err)
      BY <1>0, <1>7, StatementSteps
    <3> QED
      BY <3>1
  <2> QED
    BY <2>2, <2>3, <2>4 DEF Ends, Succeeds, Refuses, Breaks, dbVars
<1>8. CASE Undo
  BY <1>0, <1>8, StatementSteps DEF Idles, Ends, Succeeds, Refuses, Breaks, dbVars, NamesOK,
     Early
<1>9. CASE Reopen
  BY <1>0, <1>9, StatementSteps DEF Opens, Ends, Succeeds, Refuses, Breaks, dbVars, NamesOK, Early
<1>10. CASE Open
  BY <1>0, <1>10, StatementSteps DEF Opens, Ends, Succeeds, Refuses, Breaks, dbVars, NamesOK, Early
<1>11. CASE RunRestore
  BY <1>0, <1>11, StatementSteps DEF Idles, Ends, Succeeds, Refuses, Breaks, dbVars, NamesOK
<1>12. CASE RestoreAppRole
  BY <1>0, <1>12, StatementSteps DEF Idles, Ends, Succeeds, Refuses, Breaks, dbVars, NamesOK,
     Early
<1>13. CASE VerifyLive
  BY <1>0, <1>13, StatementSteps DEF Idles, Ends, Succeeds, Refuses, Breaks, dbVars, NamesOK,
     Early
<1>14. CASE JournalPrepared
  BY <1>0, <1>14 DEF JournalPrepared, dbVars, NamesOK, Early
<1>15. CASE JournalSwitching
  BY <1>0, <1>15 DEF JournalSwitching, dbVars, NamesOK, Early
<1>16. CASE JournalSwitched
  BY <1>0, <1>16 DEF JournalSwitched, Journal, dbVars, NamesOK, Early
<1>17. CASE JournalCommitted
  BY <1>0, <1>17 DEF JournalCommitted, Journal, dbVars, NamesOK, Early
<1>18. CASE RetireEntry
  BY <1>0, <1>18 DEF RetireEntry, dbVars, NamesOK, Early
<1>19. CASE Retire
  BY <1>0, <1>19 DEF Retire, dbVars, NamesOK, Early
<1>20. CASE LandEntry
  BY <1>0, <1>20 DEF LandEntry, dbVars, NamesOK, Early
<1>21. CASE Landed
  BY <1>0, <1>21 DEF Landed, dbVars, NamesOK, Early
<1>22. CASE Unland
  BY <1>0, <1>22 DEF Unland, dbVars, NamesOK, Early
<1>23. CASE PutBack
  BY <1>0, <1>23 DEF PutBack, dbVars, NamesOK, Early
<1>24. CASE Sweep
  BY <1>0, <1>24 DEF Sweep, dbVars, NamesOK, Early
<1>25. CASE Unwind
  BY <1>0, <1>25 DEF Unwind, NamesOK, Early
<1>26. CASE ProcessDies
  BY <1>0, <1>26 DEF ProcessDies, dbVars, NamesOK, Early
<1>27. CASE Resolve
  BY <1>0, <1>27 DEF Resolve, dbVars, NamesOK
<1>28. CASE PruneLists
  <2>1. PICK n \in Retained : Cardinality(Newer(n)) >= Keep /\ pruning' = {Old(n)}
    BY <1>28 DEF PruneLists
  <2>2. n < op
    BY <1>0, <2>1, PrunedIsNotNewest DEF NamesOK, Retained
  <2> QED
    BY <1>0, <1>28, <2>1, <2>2 DEF PruneLists, NamesOK, dbVars, Retained
<1>29. CASE PruneDrops
  BY <1>0, <1>29 DEF PruneDrops, NamesOK
<1> QED
  BY <1>1, <1>2, <1>3, <1>4, <1>5, <1>6, <1>7, <1>8, <1>9, <1>10, <1>11, <1>12, <1>13, <1>14,
     <1>15, <1>16, <1>17, <1>18, <1>19, <1>20, <1>21, <1>22, <1>23, <1>24, <1>25, <1>26, <1>27,
     <1>28, <1>29 DEF RestoreNext

-----------------------------------------------------------------------------
\* The database that was live is where the swap has left it.
LEMMA NextSwap ==
  ASSUME RestoreIInv, RestoreNext
  PROVE  SwapOK'
<1>0. /\ RestoreTypeOK /\ NamesOK /\ SwapOK /\ KeptOK /\ ctx \in {"live", "done"}
      /\ op \in 0..MaxRestores /\ db \in [DbNames -> Versions \cup {Absent, Scratch}]
      /\ kind \in {"candidate", "in-place", "promote"}
      /\ pc # "idle" => op \in Ops
      /\ op \in Ops /\ kind # "promote" => from = Candidate(op)
      /\ kind = "promote" => \E n \in Ops : n < op /\ from = Old(n)
      /\ pc \in {"create", "load"} => kind = "candidate"
      /\ pc \in Swapping => kind # "in-place"
      /\ pc \in {"inplace", "approle"} => kind = "in-place"
  <2>1. RestoreTypeOK /\ ControlOK /\ NamesOK /\ SwapOK /\ KeptOK
    BY DEF RestoreIInv
  <2>2. /\ ctx \in {"live", "done"} /\ op \in 0..MaxRestores
        /\ db \in [DbNames -> Versions \cup {Absent, Scratch}]
        /\ kind \in {"candidate", "in-place", "promote"}
    BY <2>1 DEF RestoreTypeOK
  <2>3. /\ pc # "idle" => op \in Ops
        /\ op \in Ops /\ kind # "promote" => from = Candidate(op)
        /\ kind = "promote" => \E n \in Ops : n < op /\ from = Old(n)
        /\ pc \in {"create", "load"} => kind = "candidate"
        /\ pc \in Swapping => kind # "in-place"
        /\ pc \in {"inplace", "approle"} => kind = "in-place"
    BY <2>1 DEF ControlOK, Ops
  <2> QED
    BY <2>1, <2>2, <2>3
<1> USE Databases, Renames DEF Ops, Versions, Absent, Scratch
<1>1. CASE \E k \in Kinds \ {"promote"} : Start(k)
  BY <1>0, <1>1 DEF Start, Remember, SwapOK, Switched
<1>2. CASE "promote" \in Kinds /\ \E n \in Ops : Promote(n)
  BY <1>0, <1>2 DEF Promote, Remember, SwapOK
<1>3. CASE Create
  BY <1>0, <1>3, StatementSteps DEF Idles, Ends, Succeeds, Refuses, Breaks, ghosts, SwapOK,
     Early, Switched
<1>4. CASE Load
  BY <1>0, <1>4, StatementSteps DEF Idles, Ends, Succeeds, Refuses, Breaks, ghosts, SwapOK,
     Early, Switched
<1>5. CASE Seal
  BY <1>0, <1>5, StatementSteps DEF Idles, Ends, Succeeds, Refuses, Breaks, dbVars, ghosts,
     SwapOK, LiveExists, NamesOK, Switched
<1>6. CASE RenameAside
  BY <1>0, <1>6, StatementSteps DEF Idles, Ends, Succeeds, Refuses, Breaks, dbVars, ghosts,
     SwapOK, Early, Switched
<1>7. CASE RenameIntoPlace
  BY <1>0, <1>7, StatementSteps DEF Idles, Ends, Succeeds, Refuses, Breaks, dbVars, ghosts,
     SwapOK, Early, Swapping, Switched
<1>8. CASE Undo
  BY <1>0, <1>8, StatementSteps DEF Idles, Ends, Succeeds, Refuses, Breaks, ghosts, SwapOK,
     Early, Switched
<1>9. CASE Reopen
  BY <1>0, <1>9, StatementSteps DEF Opens, Ends, Succeeds, Refuses, Breaks, dbVars, ghosts, SwapOK, Early,
     Switched
<1>10. CASE Open
  BY <1>0, <1>10, StatementSteps DEF Opens, Ends, Succeeds, Refuses, Breaks, dbVars, ghosts, SwapOK, Early
<1>11. CASE RunRestore
  BY <1>0, <1>11, StatementSteps DEF Idles, Ends, Succeeds, Refuses, Breaks, ghosts, SwapOK,
     Early, Switched
<1>12. CASE RestoreAppRole
  BY <1>0, <1>12, StatementSteps DEF Idles, Ends, Succeeds, Refuses, Breaks, ghosts, SwapOK,
     Early, Switched
<1>13. CASE VerifyLive
  BY <1>0, <1>13, StatementSteps DEF Idles, Ends, Succeeds, Refuses, Breaks, ghosts, SwapOK,
     Early, Switched
<1>14. CASE JournalPrepared
  BY <1>0, <1>14 DEF JournalPrepared, Journal, dbVars, ghosts, SwapOK, Early, Switched
<1>15. CASE JournalSwitching
  BY <1>0, <1>15 DEF JournalSwitching, Journal, dbVars, ghosts, SwapOK, Early, Switched
<1>16. CASE JournalSwitched
  BY <1>0, <1>16 DEF JournalSwitched, Journal, dbVars, ghosts, SwapOK, Early, Switched
<1>17. CASE JournalCommitted
  BY <1>0, <1>17 DEF JournalCommitted, Journal, ghosts, SwapOK, Early, Switched
<1>18. CASE RetireEntry
  BY <1>0, <1>18 DEF RetireEntry, dbVars, ghosts, SwapOK, Early, Switched
<1>19. CASE Retire
  BY <1>0, <1>19 DEF Retire, dbVars, ghosts, SwapOK, Early, Switched
<1>20. CASE LandEntry
  BY <1>0, <1>20 DEF LandEntry, dbVars, ghosts, SwapOK, Early, Switched
<1>21. CASE Landed
  BY <1>0, <1>21 DEF Landed, dbVars, SwapOK, Early, Switched
<1>22. CASE Unland
  BY <1>0, <1>22 DEF Unland, ghosts, SwapOK, Early, Switched
<1>23. CASE PutBack
  BY <1>0, <1>23 DEF PutBack, ghosts, SwapOK, Early, Switched
<1>24. CASE Sweep
  BY <1>0, <1>24 DEF Sweep, dbVars, ghosts, SwapOK, Early, Switched
<1>25. CASE Unwind
  BY <1>0, <1>25 DEF Unwind, ghosts, SwapOK, Early, Switched
<1>26. CASE ProcessDies
  BY <1>0, <1>26 DEF ProcessDies, ghosts, SwapOK, Early, Switched
<1>27. CASE Resolve
  BY <1>0, <1>27 DEF Resolve, dbVars, ghosts, SwapOK
<1>28. CASE PruneLists
  BY <1>0, <1>28 DEF PruneLists, dbVars, ghosts, SwapOK
<1>29. CASE PruneDrops
  <2>1. PICK n \in Ops : n < op /\ db' = [db EXCEPT ![Old(n)] = Absent]
    <3>1. PICK x \in pruning : db' = [db EXCEPT ![x] = Absent]
      BY <1>29 DEF PruneDrops
    <3>2. PICK n \in Ops : x = Old(n)
      BY <1>0, <3>1 DEF RestoreTypeOK
    <3>3. n < op
      BY <1>0, <3>1, <3>2 DEF NamesOK
    <3> QED
      BY <3>1, <3>2, <3>3
  <2>2. /\ db'[Live] = db[Live] /\ (op \in Ops => db'[Old(op)] = db[Old(op)])
        /\ op \in Ops => db'[Candidate(op)] = db[Candidate(op)]
    BY <1>0, <2>1
  <2>3. UNCHANGED <<op, kind, pc, from, ctx, before, installed>>
    BY <1>29 DEF PruneDrops, ghosts
  <2>4. pc # "idle" /\ kind = "candidate" => from = Candidate(op)
    BY <1>0
  <2> QED
    BY <1>0, <2>2, <2>3, <2>4 DEF SwapOK, Early, Swapping, Switched
<1> QED
  BY <1>1, <1>2, <1>3, <1>4, <1>5, <1>6, <1>7, <1>8, <1>9, <1>10, <1>11, <1>12, <1>13, <1>14,
     <1>15, <1>16, <1>17, <1>18, <1>19, <1>20, <1>21, <1>22, <1>23, <1>24, <1>25, <1>26, <1>27,
     <1>28, <1>29 DEF RestoreNext

-----------------------------------------------------------------------------
\* The last database that was live at a start is live, or the newest set aside.
LEMMA NextKept ==
  ASSUME RestoreIInv, RestoreNext
  PROVE  KeptOK'
<1>0. /\ RestoreTypeOK /\ NamesOK /\ SwapOK /\ KeptOK /\ ctx \in {"live", "done"}
      /\ op \in 0..MaxRestores /\ db \in [DbNames -> Versions \cup {Absent, Scratch}]
      /\ kind \in {"candidate", "in-place", "promote"}
      /\ pc # "idle" => op \in Ops
      /\ op \in Ops /\ kind # "promote" => from = Candidate(op)
      /\ kind = "promote" => \E n \in Ops : n < op /\ from = Old(n)
      /\ pc \in {"create", "load"} => kind = "candidate"
      /\ pc \in Swapping => kind # "in-place"
      /\ pc \in {"inplace", "approle"} => kind = "in-place"
  <2>1. RestoreTypeOK /\ ControlOK /\ NamesOK /\ SwapOK /\ KeptOK
    BY DEF RestoreIInv
  <2>2. /\ ctx \in {"live", "done"} /\ op \in 0..MaxRestores
        /\ db \in [DbNames -> Versions \cup {Absent, Scratch}]
        /\ kind \in {"candidate", "in-place", "promote"}
    BY <2>1 DEF RestoreTypeOK
  <2>3. /\ pc # "idle" => op \in Ops
        /\ op \in Ops /\ kind # "promote" => from = Candidate(op)
        /\ kind = "promote" => \E n \in Ops : n < op /\ from = Old(n)
        /\ pc \in {"create", "load"} => kind = "candidate"
        /\ pc \in Swapping => kind # "in-place"
        /\ pc \in {"inplace", "approle"} => kind = "in-place"
    BY <2>1 DEF ControlOK, Ops
  <2> QED
    BY <2>1, <2>2, <2>3
<1> USE PrunedIsNotNewest, Databases, Renames DEF Ops, Versions, Absent, Scratch
<1>1. CASE \E k \in Kinds \ {"promote"} : Start(k)
  BY <1>0, <1>1 DEF Start, Remember, KeptOK, NamesOK
<1>2. CASE "promote" \in Kinds /\ \E n \in Ops : Promote(n)
  BY <1>0, <1>2 DEF Promote, Remember, KeptOK, NamesOK
<1>3. CASE Create
  BY <1>0, <1>3, StatementSteps DEF Idles, Ends, Succeeds, Refuses, Breaks, dbVars, ghosts,
     KeptOK
<1>4. CASE Load
  BY <1>0, <1>4, StatementSteps DEF Idles, Ends, Succeeds, Refuses, Breaks, dbVars, ghosts,
     KeptOK
<1>5. CASE Seal
  BY <1>0, <1>5, StatementSteps DEF Idles, Ends, Succeeds, Refuses, Breaks, dbVars, ghosts,
     KeptOK
<1>6. CASE RenameAside
  BY <1>0, <1>6, StatementSteps DEF Idles, Ends, Succeeds, Refuses, Breaks, dbVars, ghosts,
     KeptOK, NamesOK, SwapOK
<1>7. CASE RenameIntoPlace
  BY <1>0, <1>7, StatementSteps DEF Idles, Ends, Succeeds, Refuses, Breaks, dbVars, ghosts,
     KeptOK, SwapOK, Switched
<1>8. CASE Undo
  BY <1>0, <1>8, StatementSteps DEF Idles, Ends, Succeeds, Refuses, Breaks, dbVars, ghosts,
     KeptOK, NamesOK
<1>9. CASE Reopen
  BY <1>0, <1>9, StatementSteps DEF Opens, Ends, Succeeds, Refuses, Breaks, dbVars, ghosts, KeptOK
<1>10. CASE Open
  BY <1>0, <1>10, StatementSteps DEF Opens, Ends, Succeeds, Refuses, Breaks, dbVars, ghosts, KeptOK
<1>11. CASE RunRestore
  BY <1>0, <1>11, StatementSteps DEF Idles, Ends, Succeeds, Refuses, Breaks, dbVars, ghosts,
     KeptOK
<1>12. CASE RestoreAppRole
  BY <1>0, <1>12, StatementSteps DEF Idles, Ends, Succeeds, Refuses, Breaks, dbVars, ghosts,
     KeptOK
<1>13. CASE VerifyLive
  BY <1>0, <1>13, StatementSteps DEF Idles, Ends, Succeeds, Refuses, Breaks, dbVars, ghosts,
     KeptOK
<1>14. CASE JournalPrepared
  BY <1>0, <1>14 DEF JournalPrepared, dbVars, ghosts, KeptOK
<1>15. CASE JournalSwitching
  BY <1>0, <1>15 DEF JournalSwitching, dbVars, ghosts, KeptOK
<1>16. CASE JournalSwitched
  BY <1>0, <1>16 DEF JournalSwitched, dbVars, ghosts, KeptOK
<1>17. CASE JournalCommitted
  BY <1>0, <1>17 DEF JournalCommitted, dbVars, ghosts, KeptOK
<1>18. CASE RetireEntry
  BY <1>0, <1>18 DEF RetireEntry, dbVars, ghosts, KeptOK
<1>19. CASE Retire
  BY <1>0, <1>19 DEF Retire, dbVars, ghosts, KeptOK
<1>20. CASE LandEntry
  BY <1>0, <1>20 DEF LandEntry, dbVars, ghosts, KeptOK
<1>21. CASE Landed
  BY <1>0, <1>21 DEF Landed, dbVars, KeptOK
<1>22. CASE Unland
  BY <1>0, <1>22 DEF Unland, dbVars, ghosts, KeptOK
<1>23. CASE PutBack
  BY <1>0, <1>23 DEF PutBack, dbVars, ghosts, KeptOK
<1>24. CASE Sweep
  BY <1>0, <1>24 DEF Sweep, dbVars, ghosts, KeptOK
<1>25. CASE Unwind
  BY <1>0, <1>25 DEF Unwind, ghosts, KeptOK
<1>26. CASE ProcessDies
  BY <1>0, <1>26 DEF ProcessDies, dbVars, ghosts, KeptOK
<1>27. CASE Resolve
  BY <1>0, <1>27 DEF Resolve, dbVars, ghosts, KeptOK
<1>28. CASE PruneLists
  <2>1. PICK n \in Retained : Cardinality(Newer(n)) >= Keep /\ pruning' = {Old(n)}
    BY <1>28 DEF PruneLists
  <2>2. PICK m \in Ops : m > n /\ db[Old(m)] # Absent
    BY <2>1, PrunedIsNotNewest DEF Retained
  <2>3. UNCHANGED <<op, kind, installed, db>>
    BY <1>28 DEF PruneLists, dbVars, ghosts
  <2> QED
    BY <1>0, <2>1, <2>2, <2>3 DEF KeptOK, Retained
<1>29. CASE PruneDrops
  <2>1. PICK n \in Ops : Old(n) \in pruning /\ db' = [db EXCEPT ![Old(n)] = Absent]
    <3>1. PICK x \in pruning : db' = [db EXCEPT ![x] = Absent]
      BY <1>29 DEF PruneDrops
    <3>2. PICK n \in Ops : x = Old(n)
      BY <1>0, <3>1 DEF RestoreTypeOK
    <3> QED
      BY <3>1, <3>2
  <2>2. /\ db'[Live] = db[Live] /\ db'[Old(n)] = Absent
        /\ \A m \in Ops : m # n => db'[Old(m)] = db[Old(m)]
    BY <1>0, <2>1
  <2>3. pruning' = {} /\ UNCHANGED <<op, kind, installed>>
    BY <1>29 DEF PruneDrops, ghosts
  <2> QED
    BY <1>0, <2>1, <2>2, <2>3 DEF KeptOK
<1> QED
  BY <1>1, <1>2, <1>3, <1>4, <1>5, <1>6, <1>7, <1>8, <1>9, <1>10, <1>11, <1>12, <1>13, <1>14,
     <1>15, <1>16, <1>17, <1>18, <1>19, <1>20, <1>21, <1>22, <1>23, <1>24, <1>25, <1>26, <1>27,
     <1>28, <1>29 DEF RestoreNext

-----------------------------------------------------------------------------
\* The entries of different versions differ.
LEMMA Contents ==
  ASSUME NEW v
  PROVE  /\ \A name \in Names : <<name, v>> \in Content(v)
         /\ \A name \in Names : \A w : w # v => <<name, w>> \notin Content(v)
BY DEF Content

\* The files of the newest complete version are in the root or in a retired directory.
LEMMA NextFiles ==
  ASSUME RestoreIInv, RestoreNext
  PROVE  FilesOK'
<1>0. /\ FilesOK /\ op \in 0..MaxRestores /\ complete \in Versions
      /\ files \in [Dirs -> SUBSET (Names \X Versions)]
      /\ kind \in {"candidate", "in-place", "promote"}
      /\ pc # "idle" => op \in Ops
      /\ pc \in {"create", "load"} => kind = "candidate"
      /\ pc \in Swapping => kind # "in-place"
      /\ pc \in {"inplace", "approle"} => kind = "in-place"
      /\ pc \in Early \cup Filing \cup {"switched"} => kind # "promote"
      /\ ctx \in {"live", "done"}
  <2>1. RestoreTypeOK /\ ControlOK /\ FilesOK
    BY DEF RestoreIInv
  <2>2. /\ op \in 0..MaxRestores /\ complete \in Versions /\ ctx \in {"live", "done"}
        /\ files \in [Dirs -> SUBSET (Names \X Versions)]
        /\ kind \in {"candidate", "in-place", "promote"}
    BY <2>1 DEF RestoreTypeOK
  <2>3. /\ pc # "idle" => op \in Ops
        /\ pc \in {"create", "load"} => kind = "candidate"
        /\ pc \in Swapping => kind # "in-place"
        /\ pc \in {"inplace", "approle"} => kind = "in-place"
        /\ pc \in Early \cup Filing \cup {"switched"} => kind # "promote"
    BY <2>1 DEF ControlOK, Ops
  <2> QED
    BY <2>1, <2>2, <2>3
<1> USE Directories, Contents DEF Ops, Versions
<1>1. CASE \E k \in Kinds \ {"promote"} : Start(k)
  <2>1. PICK k \in Kinds \ {"promote"} : Start(k)
    BY <1>1
  <2> DEFINE tree == CleanupInternalDirs(files)
  <2>2. /\ tree \in [Dirs -> SUBSET (Names \X Versions)] /\ tree[Root] = files[Root]
        /\ \A n \in Ops : tree[Retired(n)] = files[Retired(n)]
    BY <1>0, CleanupKeeps
  <2>3. /\ op' = op + 1 /\ op' \in Ops /\ pc' \in {"create", "prepared", "unwind"}
        /\ UNCHANGED complete
        /\ \/ files' = [tree EXCEPT ![Stage(op + 1)] = Content(op + 1)]
           \/ files' \in {tree, files} /\ pc' = "unwind"
    BY <1>0, <2>1 DEF Start
  <2> HIDE DEF tree
  <2>4. /\ files'[Root] = files[Root] /\ \A n \in Ops : files'[Retired(n)] = files[Retired(n)]
        /\ pc' # "unwind" => files'[Stage(op')] = Content(op')
    BY <1>0, <2>2, <2>3
  <2> QED
    BY <1>0, <2>3, <2>4 DEF FilesOK, OldFilesKept, Early, Swapping
<1>2. CASE "promote" \in Kinds /\ \E n \in Ops : Promote(n)
  BY <1>0, <1>2 DEF Promote, FilesOK, OldFilesKept
<1>3. CASE Create
  BY <1>0, <1>3, StatementSteps DEF Idles, Ends, Succeeds, Refuses, Breaks, ghosts, FilesOK,
     OldFilesKept, Early
<1>4. CASE Load
  BY <1>0, <1>4, StatementSteps DEF Idles, Ends, Succeeds, Refuses, Breaks, ghosts, FilesOK,
     OldFilesKept, Early
<1>5. CASE Seal
  BY <1>0, <1>5, StatementSteps DEF Idles, Ends, Succeeds, Refuses, Breaks, ghosts, FilesOK,
     OldFilesKept, Swapping
<1>6. CASE RenameAside
  BY <1>0, <1>6, StatementSteps DEF Idles, Ends, Succeeds, Refuses, Breaks, ghosts, FilesOK,
     OldFilesKept, Swapping
<1>7. CASE RenameIntoPlace
  BY <1>0, <1>7, StatementSteps DEF Idles, Ends, Succeeds, Refuses, Breaks, ghosts, FilesOK,
     OldFilesKept, Swapping
<1>8. CASE Undo
  BY <1>0, <1>8, StatementSteps DEF Idles, Ends, Succeeds, Refuses, Breaks, ghosts, FilesOK,
     OldFilesKept, Early, Swapping
<1>9. CASE Reopen
  BY <1>0, <1>9, StatementSteps DEF Opens, Ends, Succeeds, Refuses, Breaks, dbVars, ghosts, FilesOK,
     OldFilesKept, Early, Swapping
<1>10. CASE Open
  BY <1>0, <1>10, StatementSteps DEF Opens, Ends, Succeeds, Refuses, Breaks, dbVars, ghosts, FilesOK, OldFilesKept,
     Swapping
<1>11. CASE RunRestore
  BY <1>0, <1>11, StatementSteps DEF Idles, Ends, Succeeds, Refuses, Breaks, ghosts, FilesOK,
     OldFilesKept
<1>12. CASE RestoreAppRole
  BY <1>0, <1>12, StatementSteps DEF Idles, Ends, Succeeds, Refuses, Breaks, ghosts, FilesOK,
     OldFilesKept
<1>13. CASE VerifyLive
  BY <1>0, <1>13, StatementSteps DEF Idles, Ends, Succeeds, Refuses, Breaks, ghosts, FilesOK,
     OldFilesKept, Early, Swapping
<1>14. CASE JournalPrepared
  BY <1>0, <1>14 DEF JournalPrepared, Journal, ghosts, FilesOK, OldFilesKept, Early
<1>15. CASE JournalSwitching
  BY <1>0, <1>15 DEF JournalSwitching, Journal, ghosts, FilesOK, OldFilesKept, Early
<1>16. CASE JournalSwitched
  BY <1>0, <1>16 DEF JournalSwitched, Journal, ghosts, FilesOK, OldFilesKept
<1>17. CASE JournalCommitted
  BY <1>0, <1>17 DEF JournalCommitted, Journal, ghosts, FilesOK, OldFilesKept, Early, Swapping
<1>18. CASE RetireEntry
  BY <1>0, <1>18 DEF RetireEntry, Move, ghosts, FilesOK, OldFilesKept
<1>19. CASE Retire
  BY <1>0, <1>19 DEF Retire, ghosts, FilesOK, OldFilesKept, Filing
<1>20. CASE LandEntry
  BY <1>0, <1>20 DEF LandEntry, Move, ghosts, FilesOK, OldFilesKept, Early
<1>21. CASE Landed
  <2>1. files[Root] = Content(op)
    BY <1>0, <1>21 DEF Landed, FilesOK
  <2>2. UNCHANGED <<op, kind, files>> /\ complete' = op /\ pc' = "sweep"
    BY <1>21 DEF Landed
  <2>3. OldFilesKept'
    BY <2>1, <2>2 DEF OldFilesKept
  <2> QED
    BY <1>0, <2>1, <2>2, <2>3 DEF FilesOK, Early, Swapping
<1>22. CASE Unland
  <2>1. PICK kept \in SUBSET (files[Root] \cap Content(op)) :
              files' = [files EXCEPT ![Root] = (@ \ Content(op)) \cup kept]
    BY <1>22 DEF Unland
  <2>2. op \in Ops /\ complete < op /\ pc' = "putback" /\ UNCHANGED <<op, kind, complete>>
    BY <1>0, <1>22 DEF Unland, FilesOK, ghosts
  <2>3. /\ \A n \in Ops : files'[Retired(n)] = files[Retired(n)]
        /\ files[Root] \ Content(op) \subseteq files'[Root]
    BY <1>0, <2>1
  <2>4. OldFilesKept'
    BY <1>0, <2>2, <2>3 DEF OldFilesKept, FilesOK
  <2> QED
    BY <1>0, <2>2, <2>4 DEF FilesOK, Early, Swapping
<1>23. CASE PutBack
  BY <1>0, <1>23 DEF PutBack, ghosts, FilesOK, OldFilesKept, Early
<1>24. CASE Sweep
  <2>1. PICK kept \in SUBSET files[Retired(op)] : files' = [files EXCEPT ![Retired(op)] = kept]
    BY <1>24 DEF Sweep
  <2>2. op \in Ops /\ kind # "promote" /\ complete = op /\ files[Root] = Content(op)
    BY <1>0, <1>24 DEF Sweep, FilesOK, Filing
  <2>3. pc' = "check" /\ UNCHANGED <<op, kind, complete>> /\ files'[Root] = Content(op)
    BY <1>0, <1>24, <2>1, <2>2 DEF Sweep, ghosts
  <2>4. OldFilesKept'
    BY <2>2, <2>3 DEF OldFilesKept
  <2> QED
    BY <2>2, <2>3, <2>4 DEF FilesOK, Early, Swapping
<1>25. CASE Unwind
  BY <1>0, <1>25 DEF Unwind, ghosts, FilesOK, OldFilesKept, Early, Swapping
<1>26. CASE ProcessDies
  BY <1>0, <1>26 DEF ProcessDies, ghosts, FilesOK, OldFilesKept, Early, Swapping
<1>27. CASE Resolve
  BY <1>0, <1>27 DEF Resolve, ghosts, FilesOK, OldFilesKept
<1>28. CASE PruneLists
  BY <1>0, <1>28 DEF PruneLists, ghosts, FilesOK, OldFilesKept
<1>29. CASE PruneDrops
  BY <1>0, <1>29 DEF PruneDrops, ghosts, FilesOK, OldFilesKept
<1> QED
  BY <1>1, <1>2, <1>3, <1>4, <1>5, <1>6, <1>7, <1>8, <1>9, <1>10, <1>11, <1>12, <1>13, <1>14,
     <1>15, <1>16, <1>17, <1>18, <1>19, <1>20, <1>21, <1>22, <1>23, <1>24, <1>25, <1>26, <1>27,
     <1>28, <1>29 DEF RestoreNext

-----------------------------------------------------------------------------
\* An operation remembers what it finds.
LEMMA Remembered ==
  ASSUME Remember
  PROVE  /\ before'.db = db[Live] /\ before'.files = files[Root]
         /\ before'.open <=> Live \notin sealed
<1> DEFINE o == Live \notin sealed
<1>1. o \in BOOLEAN
  OBVIOUS
<1>2. before' = [db |-> db[Live], files |-> files[Root], open |-> o]
  BY DEF Remember
<1>3. before'.open = o
  <2> HIDE DEF o
  <2> QED
    BY ONLY <1>1, <1>2
<1> QED
  BY <1>2, <1>3

\* An operation that fails before its files puts back what it has touched.
LEMMA NextUntouched ==
  ASSUME RestoreIInv, RestoreNext
  PROVE  UntouchedOK'
<1>0. /\ UntouchedOK /\ SwapOK /\ ControlOK /\ NamesOK
      /\ op \in 0..MaxRestores /\ ctx \in {"live", "done"}
      /\ db \in [DbNames -> Versions \cup {Absent, Scratch}]
      /\ sealed \subseteq {n \in DbNames : db[n] # Absent}
      /\ pruning \subseteq {Old(n) : n \in Ops}
      /\ files \in [Dirs -> SUBSET (Names \X Versions)]
      /\ kind \in {"candidate", "in-place", "promote"}
      /\ verdict \in {"unchanged", "inconsistent"} /\ phase \in Phases
  BY DEF RestoreIInv, RestoreTypeOK
<1> USE Directories, Databases, Renames, CleanupKeeps DEF Ops
<1>1. CASE \E k \in Kinds \ {"promote"} : Start(k)
  <2>1. /\ before'.db = db[Live] /\ before'.files = files[Root]
        /\ before'.open <=> Live \notin sealed
    BY <1>1, Remembered DEF Start
  <2>2. /\ pc' \in {"create", "prepared", "unwind"} /\ UNCHANGED <<db, sealed>>
        /\ files'[Root] = files[Root]
    BY <1>0, <1>1 DEF Start
  <2>3. shut' = {}
    BY <1>1 DEF Start, Remember
  <2> QED
    BY <2>1, <2>2, <2>3 DEF UntouchedOK, IsUntouched, LeftShut, Early, Swapping
<1>2. CASE "promote" \in Kinds /\ \E n \in Ops : Promote(n)
  <2>1. /\ before'.db = db[Live] /\ before'.files = files[Root]
        /\ before'.open <=> Live \notin sealed
    BY <1>2, Remembered DEF Promote
  <2>2. pc' \in {"seal", "idle"} /\ UNCHANGED <<db, sealed, files>>
    BY <1>0, <1>2 DEF Promote
  <2>3. shut' = {}
    BY <1>2 DEF Promote, Remember
  <2> QED
    BY <2>1, <2>2, <2>3 DEF UntouchedOK, IsUntouched, LeftShut, Early, Swapping
<1>3. CASE Create
  BY <1>0, <1>3, StatementSteps DEF Idles, Ends, Succeeds, Refuses, Breaks, dbVars, ghosts,
     UntouchedOK, IsUntouched, LeftShut, SwapOK, Early
<1>4. CASE Load
  BY <1>0, <1>4, StatementSteps DEF Idles, Ends, Succeeds, Refuses, Breaks, dbVars, ghosts,
     UntouchedOK, IsUntouched, LeftShut, SwapOK, Early
<1>5. CASE Seal
  BY <1>0, <1>5, StatementSteps DEF Idles, Ends, Succeeds, Refuses, Breaks, dbVars, ghosts,
     UntouchedOK, IsUntouched, LeftShut, SwapOK, Early, Swapping
<1>6. CASE RenameAside
  BY <1>0, <1>6, StatementSteps DEF Idles, Ends, Succeeds, Refuses, Breaks, ghosts,
     UntouchedOK, Early, Swapping
<1>7. CASE RenameIntoPlace
  BY <1>0, <1>7, StatementSteps DEF Idles, Ends, Succeeds, Refuses, Breaks, dbVars, ghosts,
     UntouchedOK, IsUntouched, LeftShut, SwapOK, Early, Swapping
<1>8. CASE Undo
  BY <1>0, <1>8, StatementSteps DEF Idles, Ends, Succeeds, Refuses, Breaks, ghosts,
     UntouchedOK, Early, Swapping
<1>9. CASE Reopen
  BY <1>0, <1>9, StatementSteps DEF Opens, Ends, Succeeds, Refuses, Breaks, dbVars, ghosts, UntouchedOK,
     IsUntouched, LeftShut, SwapOK, ControlOK, LiveExists, Early, Swapping
<1>10. CASE Open
  BY <1>0, <1>10, StatementSteps DEF Opens, Ends, Succeeds, Refuses, Breaks, dbVars, UntouchedOK,
     IsUntouched, LeftShut, SwapOK, ControlOK, Early, Swapping
<1>11. CASE RunRestore
  BY <1>0, <1>11, StatementSteps DEF Idles, Ends, Succeeds, Refuses, Breaks, dbVars, ghosts,
     UntouchedOK, IsUntouched, LeftShut, SwapOK
<1>12. CASE RestoreAppRole
  BY <1>0, <1>12, StatementSteps DEF Idles, Ends, Succeeds, Refuses, Breaks, UntouchedOK,
     ControlOK, Early, Swapping
<1>13. CASE VerifyLive
  BY <1>0, <1>13, StatementSteps DEF Idles, Ends, Succeeds, Refuses, Breaks, UntouchedOK,
     ControlOK, Early, Swapping, Filing
<1>14. CASE JournalPrepared
  BY <1>0, <1>14 DEF JournalPrepared, Journal, dbVars, ghosts, UntouchedOK, IsUntouched, LeftShut, SwapOK,
     Early
<1>15. CASE JournalSwitching
  BY <1>0, <1>15 DEF JournalSwitching, Journal, dbVars, ghosts, UntouchedOK, IsUntouched, LeftShut, SwapOK,
     Early
<1>16. CASE JournalSwitched
  BY <1>0, <1>16 DEF JournalSwitched, ghosts, Journal, UntouchedOK, Early, Swapping
<1>17. CASE JournalCommitted
  BY <1>0, <1>17 DEF JournalCommitted, ghosts, Journal, UntouchedOK, ControlOK, Early, Swapping
<1>18. CASE RetireEntry
  BY <1>0, <1>18 DEF RetireEntry, ghosts, UntouchedOK, Early, Swapping
<1>19. CASE Retire
  BY <1>0, <1>19 DEF Retire, ghosts, UntouchedOK, Early, Swapping
<1>20. CASE LandEntry
  BY <1>0, <1>20 DEF LandEntry, ghosts, UntouchedOK, Early, Swapping
<1>21. CASE Landed
  BY <1>0, <1>21 DEF Landed, ghosts, UntouchedOK, Early, Swapping
<1>22. CASE Unland
  BY <1>0, <1>22 DEF Unland, ghosts, UntouchedOK, Early, Swapping
<1>23. CASE PutBack
  BY <1>0, <1>23 DEF PutBack, ghosts, UntouchedOK, ControlOK, Early, Swapping, Filing
<1>24. CASE Sweep
  BY <1>0, <1>24 DEF Sweep, ghosts, UntouchedOK, Early, Swapping
<1>25. CASE Unwind
  BY <1>0, <1>25 DEF Unwind, ghosts, UntouchedOK, Early, Swapping
<1>26. CASE ProcessDies
  BY <1>0, <1>26 DEF ProcessDies, ghosts, UntouchedOK, Early, Swapping
<1>27. CASE Resolve
  BY <1>0, <1>27 DEF Resolve, dbVars, ghosts, UntouchedOK
<1>28. CASE PruneLists
  BY <1>0, <1>28 DEF PruneLists, dbVars, ghosts, UntouchedOK, IsUntouched, LeftShut
<1>29. CASE PruneDrops
  <2>1. PICK n \in pruning : db' = [db EXCEPT ![n] = Absent] /\ sealed' = sealed \ {n}
    BY <1>29 DEF PruneDrops
  <2>2. PICK k \in Ops : n = Old(k) /\ k < op
    BY <1>0, <2>1 DEF NamesOK
  <2>3. db'[Live] = db[Live] /\ (op \in Ops => db'[Old(op)] = db[Old(op)])
    BY <1>0, <2>1, <2>2
  <2> QED
    BY <1>0, <1>29, <2>1, <2>2, <2>3 DEF PruneDrops, ghosts, UntouchedOK, IsUntouched, LeftShut
<1> QED
  BY <1>1, <1>2, <1>3, <1>4, <1>5, <1>6, <1>7, <1>8, <1>9, <1>10, <1>11, <1>12, <1>13, <1>14,
     <1>15, <1>16, <1>17, <1>18, <1>19, <1>20, <1>21, <1>22, <1>23, <1>24, <1>25, <1>26, <1>27,
     <1>28, <1>29 DEF RestoreNext

\* The phase an operation is recorded with is true.
LEMMA NextVerdict ==
  ASSUME RestoreIInv, RestoreNext
  PROVE  VerdictIsTrue'
<1>0. /\ UntouchedOK /\ FilesOK /\ VerdictIsTrue /\ SwapOK /\ ControlOK /\ NamesOK
      /\ op \in 0..MaxRestores /\ ctx \in {"live", "done"}
      /\ db \in [DbNames -> Versions \cup {Absent, Scratch}]
      /\ sealed \subseteq {n \in DbNames : db[n] # Absent}
      /\ pruning \subseteq {Old(n) : n \in Ops}
      /\ files \in [Dirs -> SUBSET (Names \X Versions)]
      /\ kind \in {"candidate", "in-place", "promote"}
      /\ verdict \in {"unchanged", "inconsistent"} /\ phase \in Phases
  BY DEF RestoreIInv, RestoreTypeOK
<1> USE Directories, Databases, Renames, CleanupKeeps DEF Ops
<1>1. CASE \E k \in Kinds \ {"promote"} : Start(k)
  <2>1. /\ before'.db = db[Live] /\ before'.files = files[Root]
        /\ before'.open <=> Live \notin sealed
    BY <1>1, Remembered DEF Start
  <2>2. phase' = "VALIDATING" /\ UNCHANGED <<db, sealed>> /\ files'[Root] = files[Root]
    BY <1>0, <1>1 DEF Start
  <2> QED
    BY <2>1, <2>2 DEF VerdictIsTrue, CommittedIsWhole, AnsweredIsUntouched, AnsweredStaysOpen,
       IsUntouched, LeftShut
<1>2. CASE "promote" \in Kinds /\ \E n \in Ops : Promote(n)
  <2>1. /\ before'.db = db[Live] /\ before'.files = files[Root]
        /\ before'.open <=> Live \notin sealed
    BY <1>2, Remembered DEF Promote
  <2>2. phase' # "COMMITTED" /\ UNCHANGED <<db, sealed, files>>
    BY <1>2 DEF Promote
  <2> QED
    BY <2>1, <2>2 DEF VerdictIsTrue, CommittedIsWhole, AnsweredIsUntouched, AnsweredStaysOpen,
       IsUntouched, LeftShut
<1>3. CASE Create
  BY <1>0, <1>3, StatementSteps DEF Idles, Ends, Succeeds, Refuses, Breaks, dbVars, ghosts,
     VerdictIsTrue, CommittedIsWhole, AnsweredIsUntouched, AnsweredStaysOpen, SaysUntouched,
     IsUntouched, LeftShut, ControlOK
<1>4. CASE Load
  BY <1>0, <1>4, StatementSteps DEF Idles, Ends, Succeeds, Refuses, Breaks, dbVars, ghosts,
     VerdictIsTrue, CommittedIsWhole, AnsweredIsUntouched, AnsweredStaysOpen, SaysUntouched,
     IsUntouched, LeftShut, ControlOK
<1>5. CASE Seal
  BY <1>0, <1>5, StatementSteps DEF Idles, VerdictIsTrue, CommittedIsWhole, AnsweredIsUntouched,
     AnsweredStaysOpen, SaysUntouched, Destructive, ControlOK, Early
<1>6. CASE RenameAside
  BY <1>0, <1>6, StatementSteps DEF Idles, VerdictIsTrue, CommittedIsWhole, AnsweredIsUntouched,
     AnsweredStaysOpen, SaysUntouched, Destructive, ControlOK, Early
<1>7. CASE RenameIntoPlace
  BY <1>0, <1>7, StatementSteps DEF Idles, VerdictIsTrue, CommittedIsWhole, AnsweredIsUntouched,
     AnsweredStaysOpen, SaysUntouched, Destructive, ControlOK, Early
<1>8. CASE Undo
  BY <1>0, <1>8, StatementSteps DEF Idles, VerdictIsTrue, CommittedIsWhole, AnsweredIsUntouched,
     AnsweredStaysOpen, SaysUntouched, Resolved, Destructive, ControlOK, Swapping
<1>9. CASE Reopen
  BY <1>0, <1>9, StatementSteps DEF Opens, VerdictIsTrue, CommittedIsWhole, AnsweredIsUntouched,
     AnsweredStaysOpen, SaysUntouched, Resolved, Destructive, ControlOK, Swapping
<1>10. CASE Open
  BY <1>0, <1>10, StatementSteps DEF Opens, VerdictIsTrue, CommittedIsWhole, AnsweredIsUntouched,
     AnsweredStaysOpen, SaysUntouched, Resolved, Destructive, ControlOK, Swapping
<1>11. CASE RunRestore
  BY <1>0, <1>11, StatementSteps DEF Idles, VerdictIsTrue, CommittedIsWhole, AnsweredIsUntouched,
     AnsweredStaysOpen, SaysUntouched, Destructive, ControlOK
<1>12. CASE RestoreAppRole
  BY <1>0, <1>12, StatementSteps DEF Idles, Ends, Succeeds, Refuses, Breaks, dbVars, ghosts,
     VerdictIsTrue, CommittedIsWhole, AnsweredIsUntouched, AnsweredStaysOpen, SaysUntouched,
     IsUntouched, LeftShut
<1>13. CASE VerifyLive
  BY <1>0, <1>13, StatementSteps DEF Idles, Ends, Succeeds, Refuses, Breaks, dbVars, ghosts,
     VerdictIsTrue, CommittedIsWhole, AnsweredIsUntouched, AnsweredStaysOpen, SaysUntouched,
     IsUntouched, LeftShut
<1>14. CASE JournalPrepared
  BY <1>0, <1>14 DEF JournalPrepared, Journal, dbVars, ghosts, VerdictIsTrue, CommittedIsWhole,
     AnsweredIsUntouched, AnsweredStaysOpen, IsUntouched, LeftShut, UntouchedOK, SwapOK, Early
<1>15. CASE JournalSwitching
  BY <1>0, <1>15 DEF JournalSwitching, Journal, dbVars, ghosts, VerdictIsTrue, CommittedIsWhole,
     AnsweredIsUntouched, AnsweredStaysOpen, SaysUntouched, IsUntouched, LeftShut, Destructive
<1>16. CASE JournalSwitched
  BY <1>0, <1>16 DEF JournalSwitched, Journal, dbVars, ghosts, VerdictIsTrue, CommittedIsWhole,
     AnsweredIsUntouched, AnsweredStaysOpen, SaysUntouched, IsUntouched, LeftShut, Destructive
<1>17. CASE JournalCommitted
  BY <1>0, <1>17 DEF JournalCommitted, Journal, dbVars, ghosts, VerdictIsTrue, CommittedIsWhole,
     AnsweredIsUntouched, AnsweredStaysOpen, SaysUntouched, IsUntouched, LeftShut, Resolved, UntouchedOK,
     FilesOK, SwapOK, ControlOK, Swapping, Filing
<1>18. CASE RetireEntry
  BY <1>0, <1>18 DEF RetireEntry, VerdictIsTrue, CommittedIsWhole, AnsweredIsUntouched,
     AnsweredStaysOpen, SaysUntouched, Destructive, ControlOK, Early
<1>19. CASE Retire
  BY <1>0, <1>19 DEF Retire, dbVars, ghosts, VerdictIsTrue, CommittedIsWhole, AnsweredIsUntouched,
     AnsweredStaysOpen, SaysUntouched, IsUntouched, LeftShut
<1>20. CASE LandEntry
  BY <1>0, <1>20 DEF LandEntry, VerdictIsTrue, CommittedIsWhole, AnsweredIsUntouched,
     AnsweredStaysOpen, SaysUntouched, Destructive, ControlOK, Early
<1>21. CASE Landed
  BY <1>0, <1>21 DEF Landed, dbVars, VerdictIsTrue, CommittedIsWhole, AnsweredIsUntouched,
     AnsweredStaysOpen, SaysUntouched, IsUntouched, LeftShut
<1>22. CASE Unland
  BY <1>0, <1>22 DEF Unland, VerdictIsTrue, CommittedIsWhole, AnsweredIsUntouched,
     AnsweredStaysOpen, SaysUntouched, Destructive, ControlOK, Early
<1>23. CASE PutBack
  BY <1>0, <1>23 DEF PutBack, VerdictIsTrue, CommittedIsWhole, AnsweredIsUntouched,
     AnsweredStaysOpen, SaysUntouched, Destructive, ControlOK, Early
<1>24. CASE Sweep
  BY <1>0, <1>24 DEF Sweep, dbVars, ghosts, VerdictIsTrue, CommittedIsWhole, AnsweredIsUntouched,
     AnsweredStaysOpen, SaysUntouched, IsUntouched, LeftShut, ControlOK
<1>25. CASE Unwind
  BY <1>0, <1>25 DEF Unwind, Outcome, ghosts, VerdictIsTrue, CommittedIsWhole, AnsweredIsUntouched,
     AnsweredStaysOpen, SaysUntouched, IsUntouched, LeftShut, Destructive, UntouchedOK, ControlOK
<1>26. CASE ProcessDies
  BY <1>0, <1>26 DEF ProcessDies, dbVars, ghosts, VerdictIsTrue, CommittedIsWhole,
     AnsweredIsUntouched, AnsweredStaysOpen, SaysUntouched, IsUntouched, LeftShut
<1>27. CASE Resolve
  BY <1>0, <1>27 DEF Resolve, VerdictIsTrue, CommittedIsWhole, AnsweredIsUntouched,
     AnsweredStaysOpen, SaysUntouched, Resolved
<1>28. CASE PruneLists
  BY <1>0, <1>28 DEF PruneLists, dbVars, ghosts, VerdictIsTrue, CommittedIsWhole,
     AnsweredIsUntouched, AnsweredStaysOpen, SaysUntouched, IsUntouched, LeftShut
<1>29. CASE PruneDrops
  <2>1. PICK n \in pruning : db' = [db EXCEPT ![n] = Absent] /\ sealed' = sealed \ {n}
    BY <1>29 DEF PruneDrops
  <2>2. PICK k \in Ops : n = Old(k) /\ k < op
    BY <1>0, <2>1 DEF NamesOK
  <2>3. db'[Live] = db[Live] /\ (op \in Ops => db'[Old(op)] = db[Old(op)])
    BY <1>0, <2>1, <2>2
  <2> QED
    BY <1>0, <1>29, <2>1, <2>2, <2>3 DEF PruneDrops, ghosts, VerdictIsTrue, CommittedIsWhole,
       AnsweredIsUntouched, AnsweredStaysOpen, SaysUntouched, IsUntouched, LeftShut, UntouchedOK
<1> QED
  BY <1>1, <1>2, <1>3, <1>4, <1>5, <1>6, <1>7, <1>8, <1>9, <1>10, <1>11, <1>12, <1>13, <1>14,
     <1>15, <1>16, <1>17, <1>18, <1>19, <1>20, <1>21, <1>22, <1>23, <1>24, <1>25, <1>26, <1>27,
     <1>28, <1>29 DEF RestoreNext
-----------------------------------------------------------------------------
\* The inductive invariant is preserved by every step and every stutter.
LEMMA RestoreNextIInv == RestoreIInv /\ [RestoreNext]_restoreVars => RestoreIInv'
<1> SUFFICES ASSUME RestoreIInv, [RestoreNext]_restoreVars PROVE RestoreIInv'
  OBVIOUS
<1>1. CASE RestoreNext
  BY <1>1, NextTypes, NextControl, NextNames, NextSwap, NextKept, NextFiles, NextUntouched,
     NextVerdict DEF RestoreIInv
<1>2. CASE UNCHANGED restoreVars
  BY <1>2 DEF restoreVars, RestoreIInv, RestoreTypeOK, ControlOK, NamesOK, SwapOK, KeptOK, FilesOK,
     UntouchedOK, VerdictIsTrue, OldFilesKept, CommittedIsWhole, AnsweredIsUntouched,
     AnsweredStaysOpen, SaysUntouched, IsUntouched, LeftShut
<1> QED
  BY <1>1, <1>2

\* It holds throughout.
LEMMA RestoreHolds == RestoreSpec => []RestoreIInv
<1>1. RestoreInit => RestoreIInv
  BY RestoreInitIInv
<1>2. RestoreIInv /\ [RestoreNext]_restoreVars => RestoreIInv'
  BY RestoreNextIInv
<1> QED
  BY <1>1, <1>2, PTL DEF RestoreSpec

\* Every variable of a restore keeps its type, and only a database that exists
\* refuses connections.
THEOREM RestoreTypeCorrect == RestoreSpec => []RestoreTypeOK
<1>1. RestoreIInv => RestoreTypeOK
  BY DEF RestoreIInv
<1> QED
  BY <1>1, RestoreHolds, PTL

\* What was there before an operation is never lost, whichever statement or
\* rename fails, wherever the process dies and whatever is pruned or cleaned up
\* meanwhile (swapStorage, candidateSession.swap, PruneRetainedDatabases).
THEOREM NothingIsLost == RestoreSpec => []OldIsKept
<1>1. RestoreIInv => OldIsKept
  <2> SUFFICES ASSUME RestoreIInv PROVE OldIsKept
    OBVIOUS
  <2>1. KeptOK /\ FilesOK
    BY DEF RestoreIInv
  <2> QED
    BY <2>1, Databases DEF KeptOK, FilesOK, OldIsKept, OldDatabaseKept
<1> QED
  BY <1>1, RestoreHolds, PTL

\* A recorded phase is true: a committed restore has replaced database and files
\* and can be served, and one recorded as failed and answered throughout has left
\* both as it found them, open if they were (Operation.Fail, swap, swapStorage).
THEOREM VerdictsAreTrue == RestoreSpec => []VerdictIsTrue
<1>1. RestoreIInv => VerdictIsTrue
  BY DEF RestoreIInv
<1> QED
  BY <1>1, RestoreHolds, PTL

HIDE MaxRestoresAssumption
HIDE KindsAssumption
HIDE KeepAssumption

-----------------------------------------------------------------------------
(* The outbox.  The two invariants are not inductive.  What carries them is  *)
(* how the stamps in the workers' memory relate to each other and to the     *)
(* rows: a stamp is issued once, so two workers never hold the same one, and *)
(* the worker that holds the stamp a row carries knows the row's own attempt *)
(* count.                                                                    *)

Busy(w) == worker[w].pc \in {"claimed", "returned"}

\* A worker in a cycle has a row, and a claiming worker's row is still open.
CycleOK ==
    \A w \in Workers :
        /\ worker[w].pc # "idle" => worker[w].event \in Events
        /\ worker[w].pc = "claiming" => row[worker[w].event].status = "pending"
        /\ worker[w].pc = "returned" => worker[w].outcome \in Outcomes

\* A stamp is handed out once.
StampsOK ==
    /\ \A w \in Workers : Busy(w) => worker[w].token \in 1..clock
    /\ \A v, w \in Workers :
         Busy(v) /\ Busy(w) /\ worker[v].token = worker[w].token => v = w

\* The owner of a row's stamp is its latest run.
OwnerOK ==
    \A w \in Workers : Busy(w) /\ worker[w].token = row[worker[w].event].lockedAt
        => /\ row[worker[w].event].status = "pending"
           /\ worker[w].attempts = row[worker[w].event].attempts

\* A returned worker's outcome is on record.
OutcomeOK ==
    \A w \in Workers : worker[w].pc = "returned" =>
        /\ worker[w].outcome = "ok" => <<worker[w].event, worker[w].attempts>> \in accepted
        /\ worker[w].outcome = "permanent" => <<worker[w].event, worker[w].attempts>> \in refused

IInv == TypeOK /\ CycleOK /\ StampsOK /\ OwnerOK /\ OutcomeOK /\ VerdictOfLatestRun

USE EventsAssumption, MaxAttemptsAssumption, MaxFaultsAssumption

\* The empty outbox satisfies the inductive invariant.
LEMMA InitIInv == Init => IInv
BY DEF Init, IInv, TypeOK, RowType, WorkerType, Outcomes, Idle, Unlocked, NoEvent, Classes,
       CycleOK, StampsOK, OwnerOK, OutcomeOK, VerdictOfLatestRun, Busy

\* What a verdict's statement may touch keeps its type.
LEMMA ClearStampTypeOK ==
  ASSUME TypeOK, CycleOK, NEW w \in Workers, worker[w].pc = "returned",
         NEW status \in {"pending", "processed", "dead"}, ClearStamp(w, status)
  PROVE  /\ worker[w].event \in Events
         /\ row' \in [Events -> RowType]
         /\ \A e \in Events : row'[e].lockedAt \in 0..clock
         /\ expired' \subseteq Events
         /\ worker' \in [Workers -> WorkerType]
         /\ UNCHANGED <<clock, accepted, refused, faults>>
<1> USE DEF TypeOK, RowType, WorkerType, Outcomes, Idle, Unlocked, NoEvent, Classes
<1>1. worker[w].event \in Events
  BY DEF CycleOK
<1>2. row' \in [Events -> RowType] /\ \A e \in Events : row'[e].lockedAt \in 0..clock
  BY <1>1 DEF ClearStamp
<1> QED
  BY <1>1, <1>2 DEF ClearStamp

\* Every step keeps every variable in its type.
LEMMA NextTypeOK == TypeOK /\ CycleOK /\ [Next]_vars => TypeOK'
<1> SUFFICES ASSUME TypeOK, CycleOK, [Next]_vars PROVE TypeOK'
  OBVIOUS
<1> USE DEF TypeOK, RowType, WorkerType, Outcomes, Idle, Unlocked, NoEvent, Classes
<1>1. ASSUME NEW e \in Events, NEW class \in Classes, Publish(e, class) PROVE TypeOK'
  <2>1. row' \in [Events -> RowType] /\ \A f \in Events : row'[f].lockedAt = row[f].lockedAt
    <3> DEFINE new == [row[e] EXCEPT !.status = "pending", !.class = class]
    <3>1. new \in RowType /\ new.lockedAt = row[e].lockedAt
      <4>1. row[e] \in RowType
        OBVIOUS
      <4> QED
        BY ONLY <4>1, class \in Classes DEF RowType
    <3>2. row' = [row EXCEPT ![e] = new]
      BY <1>1 DEF Publish
    <3> HIDE DEF new
    <3> QED
      BY <3>1, <3>2
  <2> QED
    BY <1>1, <2>1 DEF Publish
<1>2. ASSUME NEW e \in Events, DelayPasses(e) PROVE TypeOK'
  BY <1>2 DEF DelayPasses
<1>3. ASSUME NEW e \in Events, AbandonedLockExpires(e) PROVE TypeOK'
  BY <1>3 DEF AbandonedLockExpires
<1>4. ASSUME NEW e \in Events, LiveLockExpires(e) PROVE TypeOK'
  BY <1>4 DEF LiveLockExpires
<1>5. ASSUME NEW w \in Workers, NEW e \in Events, Select(w, e) PROVE TypeOK'
  BY <1>5 DEF Select
<1>6. ASSUME NEW w \in Workers, Stamp(w) PROVE TypeOK'
  <2>1. worker[w].event \in Events
    BY <1>6 DEF Stamp, CycleOK
  <2>2. clock' = clock + 1 /\ clock + 1 \in Nat /\ clock \in 0..clock + 1
    BY <1>6 DEF Stamp
  <2>3. row' \in [Events -> RowType] /\ \A e \in Events : row'[e].lockedAt \in 0..clock'
    BY <1>6, <2>1, <2>2 DEF Stamp
  <2>4. worker' \in [Workers -> WorkerType]
    BY <1>6, <2>1, <2>2 DEF Stamp
  <2> QED
    BY <1>6, <2>2, <2>3, <2>4, ZenonT(60) DEF Stamp
<1>7. ASSUME NEW w \in Workers, NEW outcome \in Outcomes, Handle(w, outcome) PROVE TypeOK'
  <2>1. worker[w].event \in Events /\ worker[w].attempts \in Nat
    BY <1>7 DEF Handle, CycleOK
  <2>2. accepted' \subseteq Events \X Nat /\ refused' \subseteq Events \X Nat
    <3>1. {<<worker[w].event, worker[w].attempts>>} \subseteq Events \X Nat
      BY <2>1
    <3> QED
      BY ONLY <1>7, <3>1, TypeOK DEF Handle, TypeOK
  <2>3. worker' \in [Workers -> WorkerType]
    <3> DEFINE new == [worker[w] EXCEPT !.pc = "returned", !.outcome = outcome]
    <3>1. new \in WorkerType
      OBVIOUS
    <3>2. worker' = [worker EXCEPT ![w] = new]
      BY <1>7 DEF Handle
    <3> HIDE DEF new
    <3> QED
      BY <3>1, <3>2
  <2> QED
    BY <1>7, <2>2, <2>3 DEF Handle
<1>8. ASSUME NEW w \in Workers, Ack(w) PROVE TypeOK'
  BY <1>8, ClearStampTypeOK DEF Ack, CycleOK
<1>9. ASSUME NEW w \in Workers, DeadLetter(w) PROVE TypeOK'
  BY <1>9, ClearStampTypeOK DEF DeadLetter, CycleOK
<1>10. ASSUME NEW w \in Workers, Retry(w) PROVE TypeOK'
  BY <1>10, ClearStampTypeOK DEF Retry, CycleOK
<1>11. ASSUME NEW w \in Workers, Crash(w) PROVE TypeOK'
  BY <1>11 DEF Crash
<1>12. CASE Poll \/ UNCHANGED vars
  BY <1>12 DEF Poll, vars
<1> QED
  BY <1>1, <1>2, <1>3, <1>4, <1>5, <1>6, <1>7, <1>8, <1>9, <1>10, <1>11, <1>12 DEF Next, Cycle

Parts == CycleOK /\ StampsOK /\ OwnerOK /\ OutcomeOK /\ VerdictOfLatestRun

\* A verdict: only the owner's statement changes the row, and the worker goes
\* idle either way.
LEMMA ClearStampParts ==
  ASSUME IInv, TypeOK', NEW w \in Workers, worker[w].pc = "returned",
         NEW status \in {"pending", "processed", "dead"}, ClearStamp(w, status),
         status = "processed" => worker[w].outcome = "ok",
         status = "dead" => worker[w].outcome = "permanent" \/ worker[w].attempts >= MaxAttempts
  PROVE  Parts'
<1> DEFINE e == worker[w].event
<1>0. e \in Events /\ IInv /\ row \in [Events -> RowType] /\ worker \in [Workers -> WorkerType]
  BY DEF IInv, TypeOK, CycleOK
<1>1. worker'[w] = Idle /\ \A v \in Workers \ {w} : worker'[v] = worker[v]
  BY <1>0 DEF ClearStamp
<1>2. /\ \A f \in Events \ {e} : row'[f] = row[f]
      /\ row'[e].attempts = row[e].attempts
      /\ StillOwns(w) => row'[e].status = status /\ row'[e].lockedAt = Unlocked
      /\ ~StillOwns(w) => row'[e] = row[e]
  BY <1>0 DEF ClearStamp, RowType
<1>3. UNCHANGED <<clock, accepted, refused>> /\ ~RowLocked(e)
  BY DEF ClearStamp
<1>4. Idle.pc = "idle"
  BY DEF Idle
<1>5. \A v \in Workers : worker'[v].pc # "idle" => v # w /\ worker'[v] = worker[v]
  BY <1>1, <1>4
<1> HIDE DEF e
<1>6. CycleOK'
  <2>1. \A v \in Workers : worker[v].pc = "claiming" => worker[v].event \in Events \ {e}
    BY <1>3, <1>0 DEF RowLocked, IInv, CycleOK
  <2>2. ASSUME NEW v \in Workers, worker'[v].pc # "idle"
        PROVE  /\ worker'[v].event \in Events
               /\ worker'[v].pc = "claiming" => row'[worker'[v].event].status = "pending"
               /\ worker'[v].pc = "returned" => worker'[v].outcome \in Outcomes
    <3>1. worker'[v] = worker[v] /\ worker[v].event \in Events
      BY <1>0, <1>5, <2>2 DEF CycleOK, IInv
    <3>2. worker[v].pc = "claiming" => row'[worker[v].event] = row[worker[v].event]
      BY <1>2, <2>1
    <3> QED
      BY <1>0, <3>1, <3>2 DEF CycleOK, IInv
  <2> QED
    BY <2>2 DEF CycleOK
<1>7. StampsOK'
  BY <1>0, <1>3, <1>5 DEF StampsOK, IInv, Busy
<1>8. OwnerOK'
  <2> SUFFICES ASSUME NEW v \in Workers, Busy(v)', worker'[v].token = row'[worker'[v].event].lockedAt
               PROVE  /\ row'[worker'[v].event].status = "pending"
                      /\ worker'[v].attempts = row'[worker'[v].event].attempts
    BY DEF OwnerOK
  <2>1. v # w /\ worker'[v] = worker[v] /\ Busy(v) /\ worker[v].event \in Events
    BY <1>0, <1>5 DEF Busy, IInv, CycleOK
  <2>2. worker[v].token # Unlocked
    <3>1. clock \in Nat /\ worker[v].token \in 1..clock
      BY <2>1, <1>0 DEF IInv, StampsOK, TypeOK
    <3> QED
      BY <3>1 DEF Unlocked
  <2>3. row'[worker[v].event] = row[worker[v].event]
    BY <1>2, <2>1, <2>2
  <2> QED
    BY <1>0, <2>1, <2>3 DEF IInv, OwnerOK
<1>9. OutcomeOK'
  BY <1>0, <1>3, <1>5 DEF OutcomeOK, IInv
<1>10. VerdictOfLatestRun'
  <2>1. ASSUME StillOwns(w) PROVE worker[w].attempts = row[e].attempts
    BY <1>0, <2>1 DEF IInv, OwnerOK, StillOwns, Busy, e
  <2>2. ASSUME StillOwns(w)
        PROVE  /\ status = "processed" => <<e, row[e].attempts>> \in accepted
               /\ status = "dead" => <<e, row[e].attempts>> \in refused \/ row[e].attempts >= MaxAttempts
    BY <1>0, <2>1, <2>2 DEF IInv, OutcomeOK, e
  <2> QED
    BY <1>0, <1>2, <1>3, <2>2 DEF IInv, VerdictOfLatestRun
<1> QED
  BY <1>6, <1>7, <1>8, <1>9, <1>10 DEF Parts

\* Claiming, stamping and handling keep the parts; so does everything else.
LEMMA NextParts == IInv /\ TypeOK' /\ [Next]_vars => Parts'
<1> SUFFICES ASSUME IInv, TypeOK', [Next]_vars PROVE Parts'
  OBVIOUS
<1>0. /\ row \in [Events -> RowType] /\ worker \in [Workers -> WorkerType] /\ clock \in Nat
      /\ CycleOK /\ StampsOK /\ OwnerOK /\ OutcomeOK /\ VerdictOfLatestRun
      /\ \A e \in Events : row[e].lockedAt \in 0..clock
  BY DEF IInv, TypeOK
<1>1. ASSUME NEW e \in Events, NEW class \in Classes, Publish(e, class) PROVE Parts'
  <2>1. UNCHANGED <<worker, clock, accepted, refused>>
    BY <1>1 DEF Publish
  <2>2. /\ \A f \in Events \ {e} : row'[f] = row[f]
        /\ row[e].status = "absent" /\ row'[e].status = "pending"
        /\ row'[e].lockedAt = row[e].lockedAt /\ row'[e].attempts = row[e].attempts
    BY <1>0, <1>1 DEF Publish, RowType
  <2>3. CycleOK' /\ StampsOK' /\ OutcomeOK'
    BY <1>0, <2>1, <2>2 DEF CycleOK, StampsOK, OutcomeOK, Busy
  <2>4. OwnerOK'
    <3> SUFFICES ASSUME NEW v \in Workers, Busy(v),
                        worker[v].token = row'[worker[v].event].lockedAt
                 PROVE  /\ row'[worker[v].event].status = "pending"
                        /\ worker[v].attempts = row'[worker[v].event].attempts
      BY <2>1 DEF OwnerOK, Busy
    <3>1. worker[v].event \in Events
      BY <1>0 DEF CycleOK, Busy
    <3>2. row'[worker[v].event].lockedAt = row[worker[v].event].lockedAt
      BY <2>2, <3>1
    <3>3. /\ row[worker[v].event].status = "pending"
          /\ worker[v].attempts = row[worker[v].event].attempts
      BY <1>0, <3>2 DEF OwnerOK
    <3> QED
      BY <2>2, <3>1, <3>3
  <2>5. VerdictOfLatestRun'
    BY <1>0, <2>1, <2>2 DEF VerdictOfLatestRun
  <2> QED
    BY <2>3, <2>4, <2>5 DEF Parts
<1>2. ASSUME UNCHANGED <<row, worker, clock, accepted, refused>> PROVE Parts'
  BY <1>0, <1>2 DEF Parts, CycleOK, StampsOK, OwnerOK, OutcomeOK, VerdictOfLatestRun, Busy
<1>3. ASSUME NEW w \in Workers, NEW e \in Events, Select(w, e) PROVE Parts'
  <2>1. UNCHANGED <<row, clock, accepted, refused>> /\ row[e].status = "pending"
    BY <1>3 DEF Select, Claimable
  <2>2. /\ worker'[w].pc = "claiming" /\ worker'[w].event = e
        /\ \A v \in Workers \ {w} : worker'[v] = worker[v]
    BY <1>0, <1>3 DEF Select, Idle
  <2> QED
    BY <1>0, <2>1, <2>2
       DEF Parts, CycleOK, StampsOK, OwnerOK, OutcomeOK, VerdictOfLatestRun, Busy
<1>4. ASSUME NEW w \in Workers, Stamp(w) PROVE Parts'
  <2> DEFINE e == worker[w].event
  <2>1. e \in Events /\ worker[w].pc = "claiming" /\ row[e].status = "pending"
    BY <1>0, <1>4 DEF Stamp, CycleOK
  <2>2. UNCHANGED <<accepted, refused>> /\ clock' = clock + 1
    BY <1>4 DEF Stamp
  <2>3. /\ row'[e].status = "pending" /\ row'[e].lockedAt = clock + 1
        /\ row'[e].attempts = row[e].attempts + 1
        /\ \A f \in Events \ {e} : row'[f] = row[f]
    BY <1>0, <1>4, <2>1 DEF Stamp, RowType
  <2>4. /\ worker'[w].pc = "claimed" /\ worker'[w].event = e
        /\ worker'[w].token = clock + 1 /\ worker'[w].attempts = row[e].attempts + 1
        /\ \A v \in Workers \ {w} : worker'[v] = worker[v]
    BY <1>0, <1>4, <2>1 DEF Stamp, WorkerType
  <2> HIDE DEF e
  <2>5. \A v \in Workers : Busy(v) => worker[v].token \in Nat /\ worker[v].token < clock + 1
    BY <1>0 DEF StampsOK
  <2>6. CycleOK' /\ OutcomeOK'
    BY <1>0, <2>1, <2>2, <2>3, <2>4, ZenonT(60) DEF CycleOK, OutcomeOK
  <2>7. StampsOK'
    <3>1. \A v \in Workers : Busy(v)' => v = w \/ (Busy(v) /\ worker'[v] = worker[v])
      <4>1. ASSUME NEW v \in Workers, v # w PROVE worker'[v] = worker[v]
        BY <2>4, <4>1
      <4> QED
        BY <4>1 DEF Busy
    <3>2. \A v \in Workers : Busy(v)' => worker'[v].token \in 1..clock'
      <4>1. ASSUME NEW v \in Workers, Busy(v) PROVE worker[v].token \in 1..clock + 1
        BY <1>0, <2>5, <4>1 DEF StampsOK
      <4>2. clock + 1 \in 1..clock + 1
        BY <1>0
      <4> QED
        BY <2>2, <2>4, <3>1, <4>1, <4>2
    <3>3. ASSUME NEW u \in Workers, NEW v \in Workers, Busy(u)', Busy(v)',
                 worker'[u].token = worker'[v].token
          PROVE  u = v
      <4>1. \A x \in Workers : Busy(x) => worker[x].token # clock + 1
        BY <1>0, <2>5
      <4> QED
        BY <1>0, <2>4, <3>1, <3>3, <4>1 DEF StampsOK
    <3> QED
      BY <3>2, <3>3 DEF StampsOK
  <2>8. OwnerOK'
    <3> SUFFICES ASSUME NEW v \in Workers, Busy(v)', worker'[v].token = row'[worker'[v].event].lockedAt
                 PROVE  /\ row'[worker'[v].event].status = "pending"
                        /\ worker'[v].attempts = row'[worker'[v].event].attempts
      BY DEF OwnerOK
    <3>1. CASE v = w
      BY <2>3, <2>4, <3>1
    <3>2. CASE v # w
      <4>1. worker'[v] = worker[v] /\ Busy(v) /\ worker[v].event \in Events
        BY <1>0, <2>4, <3>2 DEF Busy, CycleOK
      <4>2. worker[v].event # e
        BY <2>3, <2>5, <4>1
      <4>3. row'[worker[v].event] = row[worker[v].event]
        BY <2>3, <4>1, <4>2
      <4> QED
        BY <1>0, <4>1, <4>3 DEF OwnerOK
    <3> QED
      BY <3>1, <3>2
  <2>9. VerdictOfLatestRun'
    BY <1>0, <2>1, <2>2, <2>3 DEF VerdictOfLatestRun
  <2> QED
    BY <2>6, <2>7, <2>8, <2>9 DEF Parts
<1>5. ASSUME NEW w \in Workers, NEW outcome \in Outcomes, Handle(w, outcome) PROVE Parts'
  <2> DEFINE thisRun == <<worker[w].event, worker[w].attempts>>
  <2>1. worker[w].pc = "claimed" /\ UNCHANGED <<row, clock>>
    BY <1>5 DEF Handle
  <2>2. /\ worker'[w].pc = "returned" /\ worker'[w].event = worker[w].event
        /\ worker'[w].token = worker[w].token /\ worker'[w].attempts = worker[w].attempts
        /\ worker'[w].outcome = outcome
        /\ \A v \in Workers \ {w} : worker'[v] = worker[v]
    BY <1>0, <1>5 DEF Handle, WorkerType
  <2>3. /\ accepted \subseteq accepted' /\ refused \subseteq refused'
        /\ outcome = "ok" => thisRun \in accepted'
        /\ outcome = "permanent" => thisRun \in refused'
    BY <1>5 DEF Handle
  <2>4. CycleOK' /\ StampsOK'
    BY <1>0, <2>1, <2>2 DEF CycleOK, StampsOK, Busy
  <2>5. OwnerOK'
    BY <1>0, <2>1, <2>2 DEF OwnerOK, Busy
  <2>6. OutcomeOK'
    BY <1>0, <2>1, <2>2, <2>3 DEF OutcomeOK
  <2>7. VerdictOfLatestRun'
    BY <1>0, <2>1, <2>3 DEF VerdictOfLatestRun
  <2> QED
    BY <2>4, <2>5, <2>6, <2>7 DEF Parts
<1>6. ASSUME NEW w \in Workers, Ack(w) PROVE Parts'
  BY <1>6, ClearStampParts DEF Ack
<1>7. ASSUME NEW w \in Workers, DeadLetter(w) PROVE Parts'
  BY <1>7, ClearStampParts DEF DeadLetter, Exhausted
<1>8. ASSUME NEW w \in Workers, Retry(w) PROVE Parts'
  BY <1>8, ClearStampParts DEF Retry
<1>9. ASSUME NEW w \in Workers, Crash(w) PROVE Parts'
  <2>1. UNCHANGED <<row, clock, accepted, refused>>
    BY <1>9 DEF Crash
  <2>2. worker'[w].pc = "idle" /\ \A v \in Workers \ {w} : worker'[v] = worker[v]
    BY <1>0, <1>9 DEF Crash, Idle
  <2> QED
    BY <1>0, <2>1, <2>2
       DEF Parts, CycleOK, StampsOK, OwnerOK, OutcomeOK, VerdictOfLatestRun, Busy
<1>10. CASE \E e \in Events : DelayPasses(e) \/ AbandonedLockExpires(e) \/ LiveLockExpires(e)
  BY <1>2, <1>10 DEF DelayPasses, AbandonedLockExpires, LiveLockExpires
<1>11. CASE Poll \/ UNCHANGED vars
  BY <1>2, <1>11 DEF Poll, vars
<1> QED
  BY <1>1, <1>3, <1>4, <1>5, <1>6, <1>7, <1>8, <1>9, <1>10, <1>11 DEF Next, Cycle

\* The inductive invariant holds in every reachable state.
LEMMA SpecIInv == Spec => []IInv
<1>1. IInv /\ [Next]_vars => IInv'
  BY NextTypeOK, NextParts DEF IInv, Parts
<1> QED
  BY InitIInv, <1>1, PTL DEF Spec

\* The worker's memory and the rows stay in their types, and no row carries a
\* stamp that was not handed out.
THEOREM OutboxTypeOK == Spec => []TypeOK
<1>1. IInv => TypeOK
  BY DEF IInv
<1> QED
  BY SpecIInv, <1>1, PTL

\* At most one worker can ever write the verdict of a row, whatever the number
\* of workers, crashes and overlong handlers.
THEOREM OutboxOneVerdict == Spec => []OneVerdict
<1>1. IInv => OneVerdict
  BY DEF IInv, StampsOK, OneVerdict, Holds, Busy
<1> QED
  BY SpecIInv, <1>1, PTL

\* The verdict on a row is the outcome of its latest run.
THEOREM OutboxVerdictOfLatestRun == Spec => []VerdictOfLatestRun
<1>1. IInv => VerdictOfLatestRun
  BY DEF IInv
<1> QED
  BY SpecIInv, <1>1, PTL

\* Only the verdict of the worker that holds a row's stamp clears it.
LEMMA StampClearedByOwner ==
  ASSUME IInv, [Next]_vars, NEW e \in Events, NEW w \in Workers, Holds(w, e),
         worker[w].token = row[e].lockedAt, row'[e].lockedAt = Unlocked
  PROVE  worker'[w] = Idle
<1>1. /\ row \in [Events -> RowType] /\ worker \in [Workers -> WorkerType] /\ clock \in Nat
      /\ worker[w].token \in 1..clock /\ worker[w].event = e
  BY DEF IInv, TypeOK, StampsOK, Holds, Busy
<1>2. row[e].lockedAt # Unlocked
  BY <1>1 DEF Unlocked
<1>3. ASSUME NEW v \in Workers, NEW status, ClearStamp(v, status), worker[v].pc = "returned"
      PROVE  v = w /\ worker'[w] = Idle
  <2>1. worker[v].event \in Events
    BY <1>3 DEF IInv, CycleOK
  <2>2. StillOwns(v) /\ worker[v].event = e
    BY <1>1, <1>2, <1>3, <2>1 DEF ClearStamp, RowType
  <2>3. v = w
    BY <1>3, <2>2 DEF StillOwns, IInv, StampsOK, Busy, Holds
  <2> QED
    BY <1>1, <1>3, <2>3 DEF ClearStamp
<1>4. CASE \E v \in Workers : Ack(v) \/ DeadLetter(v) \/ Retry(v)
  BY <1>3, <1>4 DEF Ack, DeadLetter, Retry
<1>5. ASSUME NEW v \in Workers, Stamp(v) PROVE row'[e].lockedAt # Unlocked
  <2>1. worker[v].event \in Events
    BY <1>5 DEF Stamp, IInv, CycleOK
  <2> QED
    BY <1>1, <1>2, <1>5, <2>1 DEF Stamp, RowType, Unlocked
<1>6. ASSUME NEW f \in Events, NEW class \in Classes, Publish(f, class)
      PROVE  row'[e].lockedAt # Unlocked
  BY <1>1, <1>2, <1>6 DEF Publish, RowType
<1>7. CASE UNCHANGED row
  BY <1>2, <1>7
<1> QED
  BY <1>4, <1>5, <1>6, <1>7 DEF Next, Cycle, Select, Handle, Crash, DelayPasses,
     AbandonedLockExpires, LiveLockExpires, Poll, vars

\* A worker that was overtaken never releases, postpones or settles the row its
\* successor is working on (the WHERE locked_at=$ of ack, deadLetter and the retry).
THEOREM OutboxOvertaken == Spec => OvertakenCannotRelease
<1>1. IInv /\ [Next]_vars =>
        [\A e \in Events, w \in Workers :
           /\ Holds(w, e) /\ worker[w].token = row[e].lockedAt
           /\ row'[e].lockedAt = Unlocked
           => worker'[w] = Idle]_vars
  BY StampClearedByOwner
<1> QED
  BY SpecIInv, <1>1, PTL DEF Spec, OvertakenCannotRelease

-----------------------------------------------------------------------------
(* The replay contract.  The argument follows the key's row.  Only the         *)
(* transaction that inserted the row gets as far as the business writes, it    *)
(* holds the row until it ends, and the row is committed with the effect: so a *)
(* key whose effect is committed has a row, and a key that is held has none.   *)

\* A committed row names a payload that took effect under the key, and every
\* effect left its row.
RecordOK ==
    \A k \in Keys, p \in Payloads : p \in record[k] <=> \E a \in Attempts : <<k, p, a>> \in effect

\* A held key has no committed row.
HolderOK == \A k \in Keys : holder[k] # Nobody => record[k] = {}

\* Whoever passed the INSERT holds the key or has seen the row that is there;
\* only a holder writes.
Inserted(a) ==
    /\ attempt[a].pc \in {"read", "write", "complete", "commit"} /\ attempt[a].inserted = "yes"
          => holder[attempt[a].key] = a
    /\ attempt[a].pc = "read" /\ attempt[a].inserted = "no" => record[attempt[a].key] # {}
    /\ attempt[a].pc \in {"write", "complete", "commit"} => attempt[a].inserted = "yes"
InsertedOK == \A a \in Attempts : Inserted(a)

\* Nobody is answered before the transaction is over.
AnswerOK == \A a \in Attempts : attempt[a].pc # "over" => answer[a] = "none"

ReplayInv == IdempotencyTypeOK /\ RecordOK /\ HolderOK /\ InsertedOK /\ AnswerOK /\ OneEffect

USE NobodyAssumption

\* What every step of an attempt has in common: it moves its own transaction and
\* answers nobody else.
Steps(a) ==
    /\ attempt' \in [Attempts -> AttemptType]
    /\ attempt[a].pc # "over"
    /\ attempt'[a].key = attempt[a].key /\ attempt'[a].payload = attempt[a].payload
    /\ \A b \in Attempts : b # a => attempt'[b] = attempt[b]
    /\ answer' \in [Attempts -> {"none", "done", "conflict", "error"}]
    /\ \A b \in Attempts : b # a => answer'[b] = answer[b]
    /\ attempt'[a].pc # "over" => UNCHANGED answer

Pcs == {"new", "snapshot", "insert", "read", "write", "complete", "commit", "over"}

\* A step that only moves the program counter of an attempt.
LEMMA GoesTo ==
  ASSUME IdempotencyTypeOK, NEW a \in Attempts, NEW next \in Pcs, Goes(a, next)
  PROVE  /\ attempt' \in [Attempts -> AttemptType]
         /\ attempt'[a].pc = next /\ attempt'[a].inserted = attempt[a].inserted
         /\ attempt'[a].key = attempt[a].key /\ attempt'[a].payload = attempt[a].payload
         /\ \A b \in Attempts : b # a => attempt'[b] = attempt[b]
<1> DEFINE new == [attempt[a] EXCEPT !.pc = next]
<1>1. attempt[a] \in AttemptType /\ attempt \in [Attempts -> AttemptType]
  BY DEF IdempotencyTypeOK
<1>2. /\ new \in AttemptType /\ new.pc = next /\ new.inserted = attempt[a].inserted
      /\ new.key = attempt[a].key /\ new.payload = attempt[a].payload
  BY ONLY <1>1, next \in Pcs DEF AttemptType, Pcs
<1>3. attempt' = [attempt EXCEPT ![a] = new]
  BY DEF Goes
<1> HIDE DEF new
<1> QED
  BY <1>1, <1>2, <1>3

\* The end of a transaction frees the key it held and no other.
LEMMA Frees ==
  ASSUME IdempotencyTypeOK, NEW a \in Attempts, holder' = Freed(a)
  PROVE  /\ holder' \in [Keys -> Attempts \cup {Nobody}]
         /\ \A k \in Keys : holder'[k] # a
         /\ \A k \in Keys : holder[k] # a => holder'[k] = holder[k]
BY DEF IdempotencyTypeOK, Freed

\* The steps before the end of a transaction, and those that end it.
LEMMA StepCases ==
  ASSUME IdempotencyTypeOK, InsertedOK, NEW a \in Attempts, Begin(a) \/ Progress(a) \/ Rollback(a)
  PROVE  /\ Steps(a)
         /\ \/ \* it goes on
               /\ attempt'[a].pc \in {"snapshot", "insert"} /\ UNCHANGED <<record, holder, effect, answer>>
               /\ attempt[a].pc \in {"new", "snapshot"}
            \/ \* it inserts the row
               /\ attempt[a].pc = "insert" /\ attempt'[a].pc = "read" /\ attempt'[a].inserted = "yes"
               /\ Stored(a) = {} /\ holder[Key(a)] = Nobody
               /\ holder' = [holder EXCEPT ![Key(a)] = a]
               /\ UNCHANGED <<record, effect, answer>>
            \/ \* it meets one
               /\ attempt[a].pc = "insert" /\ attempt'[a].pc = "read" /\ attempt'[a].inserted = "no"
               /\ Stored(a) # {}
               /\ UNCHANGED <<record, holder, effect, answer>>
            \/ \* it holds the row and goes on
               /\ attempt[a].pc \in {"read", "write", "complete"} /\ attempt[a].inserted = "yes"
               /\ attempt'[a].pc \in {"write", "complete", "commit"} /\ attempt'[a].inserted = "yes"
               /\ UNCHANGED <<record, holder, effect, answer>>
            \/ \* it is answered without an effect
               /\ attempt'[a].pc = "over" /\ UNCHANGED <<record, effect>>
               /\ \/ UNCHANGED holder /\ attempt[a].pc \in {"insert"}
                  \/ UNCHANGED holder /\ attempt[a].pc \in {"read"} /\ attempt[a].inserted = "no"
                  \/ holder' = Freed(a)
               /\ \/ Tell(a, "done") /\ Matches(a)
                  \/ Tell(a, "conflict") /\ ~Matches(a) /\ Stored(a) # {}
                  \/ Tell(a, "error")
                  \/ UNCHANGED answer
            \/ \* it commits
               Commit(a) /\ attempt'[a].pc = "over" /\ holder[Key(a)] = a
<1>0. /\ attempt[a] \in AttemptType /\ attempt \in [Attempts -> AttemptType]
      /\ answer \in [Attempts -> {"none", "done", "conflict", "error"}] /\ Inserted(a)
  BY DEF IdempotencyTypeOK, InsertedOK
<1>1. ASSUME NEW what \in {"done", "conflict", "error"}, Tell(a, what) \/ UNCHANGED answer
      PROVE  /\ answer' \in [Attempts -> {"none", "done", "conflict", "error"}]
             /\ \A b \in Attempts : b # a => answer'[b] = answer[b]
  BY <1>0, <1>1 DEF Tell
<1>2. CASE Begin(a)
  BY <1>0, <1>2, GoesTo DEF Begin, Steps, Pcs
<1>3. CASE TakeSnapshot(a)
  <2> DEFINE new == [attempt[a] EXCEPT !.pc = "insert",
                                       !.sees = IF Stored(a) = {} THEN "no row" ELSE "row"]
  <2>1. /\ new \in AttemptType /\ new.pc = "insert"
        /\ new.key = attempt[a].key /\ new.payload = attempt[a].payload
    BY <1>0 DEF AttemptType
  <2>2. attempt' = [attempt EXCEPT ![a] = new]
    BY <1>3 DEF TakeSnapshot
  <2> HIDE DEF new
  <2> QED
    BY <1>0, <1>3, <2>1, <2>2 DEF TakeSnapshot, Steps
<1>4. CASE Insert(a)
  <2>1. ASSUME NEW ins \in {"yes", "no"},
               attempt' = [attempt EXCEPT ![a].pc = "read", ![a].inserted = ins]
        PROVE  /\ attempt' \in [Attempts -> AttemptType]
               /\ attempt'[a].pc = "read" /\ attempt'[a].inserted = ins
               /\ attempt'[a].key = attempt[a].key /\ attempt'[a].payload = attempt[a].payload
               /\ \A b \in Attempts : b # a => attempt'[b] = attempt[b]
    <3> DEFINE new == [attempt[a] EXCEPT !.pc = "read", !.inserted = ins]
    <3>1. /\ new \in AttemptType /\ new.pc = "read" /\ new.inserted = ins
          /\ new.key = attempt[a].key /\ new.payload = attempt[a].payload
      BY <1>0 DEF AttemptType
    <3>2. attempt' = [attempt EXCEPT ![a] = new]
      BY <2>1
    <3> HIDE DEF new
    <3> QED
      BY <1>0, <3>1, <3>2
  <2> QED
    BY <1>0, <1>4, <2>1 DEF Insert, Steps
<1>5. CASE SerializationFailure(a)
  BY <1>0, <1>1, <1>5, GoesTo DEF SerializationFailure, Steps, Pcs
<1>6. CASE Read(a)
  BY <1>0, <1>1, <1>6, GoesTo DEF Read, Steps, Pcs, Inserted, Stored, Key
<1>7. CASE Write(a)
  BY <1>0, <1>7, GoesTo DEF Write, Steps, Pcs, Inserted
<1>8. CASE Commit(a)
  BY <1>0, <1>1, <1>8, GoesTo DEF Commit, Steps, Pcs, Inserted, Key
<1>9. CASE Rollback(a)
  BY <1>0, <1>1, <1>9, GoesTo DEF Rollback, Steps, Pcs
<1> QED
  BY <1>2, <1>3, <1>4, <1>5, <1>6, <1>7, <1>8, <1>9 DEF Progress

\* A request names its key and its payload, and its transaction has not begun.
LEMMA InitAttempts ==
  ASSUME IdempotencyInit
  PROVE  /\ attempt \in [Attempts -> AttemptType]
         /\ \A a \in Attempts : attempt[a].pc = "new"
BY DEF IdempotencyInit, AttemptType

\* Nothing is recorded, held or done at the start.
LEMMA InitReplayInv == IdempotencyInit => ReplayInv
<1> SUFFICES ASSUME IdempotencyInit PROVE ReplayInv
  OBVIOUS
<1>1. IdempotencyTypeOK
  <2>1. attempt \in [Attempts -> AttemptType]
    BY InitAttempts
  <2>2. \A k \in Keys, a \in Attempts : holder[k] # a
    BY DEF IdempotencyInit
  <2> QED
    BY <2>1, <2>2 DEF IdempotencyInit, IdempotencyTypeOK
<1>2. RecordOK /\ HolderOK /\ AnswerOK /\ OneEffect
  BY DEF IdempotencyInit, RecordOK, HolderOK, AnswerOK, OneEffect
<1>3. InsertedOK
  BY InitAttempts DEF InsertedOK, Inserted
<1> QED
  BY <1>1, <1>2, <1>3 DEF ReplayInv

\* Every step keeps the row, the key's holder and the effects together.
LEMMA NextReplayInv == ASSUME ReplayInv, [IdempotencyNext]_idempotencyVars PROVE ReplayInv'
<1>1. ASSUME NEW a \in Attempts, Begin(a) \/ Progress(a) \/ Rollback(a) PROVE ReplayInv'
  <2>0. /\ IdempotencyTypeOK /\ InsertedOK /\ RecordOK /\ HolderOK /\ AnswerOK /\ OneEffect
        /\ record \in [Keys -> SUBSET Payloads] /\ holder \in [Keys -> Attempts \cup {Nobody}]
        /\ attempt[a] \in AttemptType /\ attempt[a].key \in Keys /\ attempt[a].payload \in Payloads
        /\ effect \subseteq Keys \X Payloads \X Attempts /\ Inserted(a)
        /\ \A b \in Attempts : attempt[b].key \in Keys
        /\ \A k \in Keys, b \in Attempts : holder[k] = b =>
              attempt[b].key = k /\ attempt[b].pc \in {"read", "write", "complete", "commit"}
    BY DEF ReplayInv, IdempotencyTypeOK, AttemptType, InsertedOK
  <2>1. Steps(a)
    BY <1>1, <2>0, StepCases
  <2> USE DEF Key, Stored, Payload
  <2>2. AnswerOK'
    BY <2>0, <2>1 DEF Steps, AnswerOK
  <2>3. ASSUME UNCHANGED <<record, effect>> PROVE RecordOK' /\ OneEffect'
    BY <2>0, <2>3 DEF RecordOK, OneEffect
  <2>4. ASSUME UNCHANGED <<record, holder, effect>>, Inserted(a)',
               \A k \in Keys : holder[k] # a \/ attempt'[a].pc \in {"read", "write", "complete", "commit"}
        PROVE  ReplayInv'
    <3>1. IdempotencyTypeOK'
      BY <2>0, <2>1, <2>4 DEF Steps, IdempotencyTypeOK
    <3>2. HolderOK' /\ InsertedOK'
      BY <2>0, <2>1, <2>4 DEF Steps, HolderOK, InsertedOK, Inserted
    <3> QED
      BY <2>2, <2>3, <2>4, <3>1, <3>2 DEF ReplayInv
  <2>5. CASE /\ attempt'[a].pc \in {"snapshot", "insert"} /\ UNCHANGED <<record, holder, effect, answer>>
             /\ attempt[a].pc \in {"new", "snapshot"}
    BY <2>0, <2>4, <2>5 DEF Inserted
  <2>6. CASE /\ attempt[a].pc = "insert" /\ attempt'[a].pc = "read" /\ attempt'[a].inserted = "no"
             /\ Stored(a) # {}
             /\ UNCHANGED <<record, holder, effect, answer>>
    BY <2>0, <2>1, <2>4, <2>6 DEF Inserted, Steps
  <2>7. CASE /\ attempt[a].pc \in {"read", "write", "complete"} /\ attempt[a].inserted = "yes"
             /\ attempt'[a].pc \in {"write", "complete", "commit"} /\ attempt'[a].inserted = "yes"
             /\ UNCHANGED <<record, holder, effect, answer>>
    BY <2>0, <2>1, <2>4, <2>7 DEF Inserted, Steps
  <2>8. CASE /\ attempt[a].pc = "insert" /\ attempt'[a].pc = "read" /\ attempt'[a].inserted = "yes"
             /\ Stored(a) = {} /\ holder[Key(a)] = Nobody
             /\ holder' = [holder EXCEPT ![Key(a)] = a]
             /\ UNCHANGED <<record, effect, answer>>
    <3>1. /\ holder' \in [Keys -> Attempts \cup {Nobody}] /\ holder'[attempt[a].key] = a
          /\ \A k \in Keys : k # attempt[a].key => holder'[k] = holder[k]
      BY <2>0, <2>8
    <3>2. IdempotencyTypeOK'
      <4>1. \A k \in Keys, b \in Attempts : holder'[k] = b =>
              attempt'[b].key = k /\ attempt'[b].pc \in {"read", "write", "complete", "commit"}
        BY <2>0, <2>1, <2>8, <3>1 DEF Steps
      <4> QED
        BY <2>0, <2>1, <2>8, <3>1, <4>1 DEF Steps, IdempotencyTypeOK
    <3>3. HolderOK'
      BY <2>0, <2>8, <3>1 DEF HolderOK
    <3>4. Inserted(a)'
      BY <2>1, <2>8, <3>1 DEF Steps, Inserted
    <3>5. \A b \in Attempts : b # a => Inserted(b)'
      <4> SUFFICES ASSUME NEW b \in Attempts, b # a PROVE Inserted(b)'
        OBVIOUS
      <4>1. Inserted(b) /\ attempt'[b] = attempt[b] /\ holder[attempt[a].key] # b /\ attempt[b].key \in Keys
        BY <2>0, <2>1, <2>8 DEF Steps, InsertedOK
      <4> QED
        BY <2>8, <3>1, <4>1 DEF Inserted
    <3> QED
      BY <2>2, <2>3, <2>8, <3>2, <3>3, <3>4, <3>5 DEF ReplayInv, InsertedOK
  <2>9. ASSUME holder' = Freed(a), attempt'[a].pc = "over" PROVE InsertedOK' \/ ~UNCHANGED record
    <3> SUFFICES ASSUME NEW b \in Attempts, UNCHANGED record PROVE Inserted(b)'
      BY DEF InsertedOK
    <3>1. CASE b = a
      BY <2>9, <3>1 DEF Inserted
    <3>2. CASE b # a
      BY <2>0, <2>1, <2>9, <3>2, Frees DEF Steps, InsertedOK, Inserted
    <3> QED
      BY <3>1, <3>2
  <2>10. ASSUME holder' = Freed(a), attempt'[a].pc = "over", UNCHANGED <<record, effect>> PROVE ReplayInv'
    <3>1. /\ holder' \in [Keys -> Attempts \cup {Nobody}] /\ \A k \in Keys : holder'[k] # a
          /\ \A k \in Keys : holder[k] # a => holder'[k] = holder[k]
      BY <2>0, <2>10, Frees
    <3>2. \A k \in Keys : holder'[k] \in {Nobody, holder[k]}
      BY <2>10, <2>0 DEF Freed
    <3>3. IdempotencyTypeOK'
      <4>1. \A k \in Keys, b \in Attempts : holder'[k] = b =>
              attempt'[b].key = k /\ attempt'[b].pc \in {"read", "write", "complete", "commit"}
        BY <2>0, <2>1, <3>1, <3>2 DEF Steps
      <4> QED
        BY <2>0, <2>1, <2>10, <3>1, <4>1 DEF Steps, IdempotencyTypeOK
    <3>4. HolderOK'
      BY <2>0, <2>10, <3>2 DEF HolderOK
    <3> QED
      BY <2>2, <2>3, <2>9, <2>10, <3>3, <3>4 DEF ReplayInv
  <2>11. CASE /\ attempt'[a].pc = "over" /\ UNCHANGED <<record, effect>>
              /\ \/ UNCHANGED holder /\ attempt[a].pc \in {"insert"}
                 \/ UNCHANGED holder /\ attempt[a].pc \in {"read"} /\ attempt[a].inserted = "no"
                 \/ holder' = Freed(a)
    <3>1. CASE UNCHANGED holder /\ attempt[a].pc \in {"insert", "read"}
               /\ (attempt[a].pc = "read" => attempt[a].inserted = "no")
      <4>1. \A k \in Keys : holder[k] # a
        BY <2>0, <3>1 DEF Inserted, HolderOK
      <4> QED
        BY <2>4, <2>11, <3>1, <4>1 DEF Inserted
    <3> QED
      BY <2>10, <2>11, <3>1
  <2>12. CASE Commit(a) /\ attempt'[a].pc = "over" /\ holder[Key(a)] = a
    <3> DEFINE k0 == attempt[a].key
               p0 == attempt[a].payload
    <3>1. /\ holder' \in [Keys -> Attempts \cup {Nobody}] /\ \A k \in Keys : holder'[k] # a
          /\ \A k \in Keys : holder[k] # a => holder'[k] = holder[k]
          /\ \A k \in Keys : holder'[k] \in {Nobody, holder[k]}
      BY <2>0, <2>12, Frees DEF Commit, Freed
    <3>2. /\ record' \in [Keys -> SUBSET Payloads] /\ record[k0] = {} /\ record'[k0] = {p0}
          /\ \A k \in Keys : k # k0 => record'[k] = record[k]
          /\ effect' = effect \cup {<<k0, p0, a>>}
      BY <2>0, <2>12 DEF Commit, HolderOK
    <3>3. \A k \in Keys : holder'[k] # Nobody => k # k0 /\ holder[k] = holder'[k]
      BY <2>0, <2>12, <3>1
    <3>4. IdempotencyTypeOK'
      <4>1. \A k \in Keys, b \in Attempts : holder'[k] = b =>
              attempt'[b].key = k /\ attempt'[b].pc \in {"read", "write", "complete", "commit"}
        BY <2>0, <2>1, <3>1 DEF Steps
      <4>2. effect' \subseteq Keys \X Payloads \X Attempts
        BY <2>0, <3>2
      <4> QED
        BY <2>0, <2>1, <3>1, <3>2, <4>1, <4>2 DEF Steps, IdempotencyTypeOK
    <3>5. RecordOK'
      <4> SUFFICES ASSUME NEW k \in Keys, NEW p \in Payloads
                   PROVE  p \in record'[k] <=> \E b \in Attempts : <<k, p, b>> \in effect'
        BY DEF RecordOK
      <4>1. p \in record[k] <=> \E b \in Attempts : <<k, p, b>> \in effect
        BY <2>0 DEF RecordOK
      <4>2. CASE k = k0 /\ p = p0
        BY <3>2, <4>2
      <4>3. CASE ~(k = k0 /\ p = p0)
        <5>1. \A b \in Attempts : <<k, p, b>> \in effect' <=> <<k, p, b>> \in effect
          BY <3>2, <4>3
        <5>2. p \in record'[k] <=> p \in record[k]
          BY <2>0, <3>2, <4>3
        <5> QED
          BY <4>1, <5>1, <5>2
      <4> QED
        BY <4>2, <4>3
    <3>6. HolderOK'
      BY <2>0, <3>2, <3>3 DEF HolderOK
    <3>7. InsertedOK'
      <4> SUFFICES ASSUME NEW b \in Attempts PROVE Inserted(b)'
        BY DEF InsertedOK
      <4>1. CASE b = a
        BY <2>12, <4>1 DEF Inserted
      <4>2. CASE b # a
        <5>1. Inserted(b) /\ attempt'[b] = attempt[b] /\ attempt[b].key \in Keys
          BY <2>0, <2>1, <4>2 DEF Steps, InsertedOK
        <5>2. holder[attempt[b].key] = b => holder'[attempt[b].key] = b
          BY <3>1, <4>2, <5>1
        <5>3. record[attempt[b].key] # {} => record'[attempt[b].key] # {}
          BY <3>2, <5>1
        <5> QED
          BY <5>1, <5>2, <5>3 DEF Inserted
      <4> QED
        BY <4>1, <4>2
    <3>8. OneEffect'
      <4>1. \A e \in effect : e[1] # k0
        <5> SUFFICES ASSUME NEW e \in effect, e[1] = k0 PROVE FALSE
          OBVIOUS
        <5>1. PICK p \in Payloads, b \in Attempts : e = <<k0, p, b>>
          BY <2>0
        <5>2. p \in record[k0]
          BY <2>0, <5>1 DEF RecordOK
        <5> QED
          BY <3>2, <5>2
      <4> QED
        BY <2>0, <3>2, <4>1 DEF OneEffect
    <3> QED
      BY <2>2, <3>4, <3>5, <3>6, <3>7, <3>8 DEF ReplayInv
  <2> QED
    BY <1>1, <2>0, StepCases, <2>5, <2>6, <2>7, <2>8, <2>11, <2>12
<1>2. CASE UNCHANGED idempotencyVars
  BY <1>2 DEF idempotencyVars, ReplayInv, IdempotencyTypeOK, RecordOK, HolderOK, InsertedOK, Inserted,
     AnswerOK, OneEffect
<1> QED
  BY <1>1, <1>2 DEF IdempotencyNext

\* The inductive invariant holds throughout.
LEMMA SpecReplayInv == IdempotencySpec => []ReplayInv
<1>1. ReplayInv /\ [IdempotencyNext]_idempotencyVars => ReplayInv'
  BY NextReplayInv
<1> QED
  BY <1>1, InitReplayInv, PTL DEF IdempotencySpec

\* Every variable keeps its type, and a key is held by an open transaction that
\* asked for it (ReserveTx, tx.go).
THEOREM TypeCorrect == IdempotencySpec => []IdempotencyTypeOK
<1>1. ReplayInv => IdempotencyTypeOK
  BY DEF ReplayInv
<1> QED
  BY <1>1, SpecReplayInv, PTL

\* A command takes effect at most once under a key, however many deliveries
\* interleave, fail, wait for one another or are repeated (ReserveTx, CompleteTx).
THEOREM EffectsOnce == IdempotencySpec => []OneEffect
<1>1. ReplayInv => OneEffect
  BY DEF ReplayInv
<1> QED
  BY <1>1, SpecReplayInv, PTL

\* A step of an attempt is a step of the promise, or none at all.
LEMMA StepKeepsPromise ==
  ASSUME ReplayInv, [IdempotencyNext]_idempotencyVars
  PROVE  [Promise!Next]_<<Requests, effect, answer>>
<1>1. ASSUME NEW a \in Attempts, Begin(a) \/ Progress(a) \/ Rollback(a)
      PROVE  [Promise!Next]_<<Requests, effect, answer>>
  <2>0. /\ IdempotencyTypeOK /\ InsertedOK /\ RecordOK /\ HolderOK /\ AnswerOK
        /\ record \in [Keys -> SUBSET Payloads] /\ holder \in [Keys -> Attempts \cup {Nobody}]
        /\ attempt[a].key \in Keys /\ attempt[a].payload \in Payloads
    BY DEF ReplayInv, IdempotencyTypeOK, AttemptType
  <2>1. Steps(a)
    BY <1>1, <2>0, StepCases
  <2>2. UNCHANGED Requests
    BY <2>1 DEF Steps, Requests, Key, Payload
  <2>3. Requests[a] = <<attempt[a].key, attempt[a].payload>>
    BY DEF Requests, Key, Payload
  <2>4. answer[a] = "none"
    BY <2>0, <2>1 DEF AnswerOK, Steps
  <2> USE DEF Tell, Key, Payload, Stored, Matches
  <2>5. ASSUME Tell(a, "done") /\ Matches(a) /\ UNCHANGED effect PROVE Promise!Answer(a)
    BY <2>0, <2>3, <2>4, <2>5 DEF Promise!Answer, RecordOK
  <2>6. ASSUME Tell(a, "conflict") /\ ~Matches(a) /\ Stored(a) # {} PROVE Promise!Answer(a)
    <3>1. PICK p \in Payloads : p \in record[attempt[a].key]
      BY <2>0, <2>6
    <3>2. \E b \in Attempts : <<attempt[a].key, p, b>> \in effect
      BY <2>0, <3>1 DEF RecordOK
    <3>3. p \in Payloads \ {Requests[a][2]} /\ Promise!Applied(Requests[a][1], p)
      BY <2>3, <2>6, <3>1, <3>2 DEF Promise!Applied
    <3> QED
      BY <2>4, <2>6, <3>3 DEF Promise!Answer
  <2>7. ASSUME Tell(a, "error") PROVE Promise!Answer(a)
    BY <2>4, <2>7 DEF Promise!Answer
  <2>8. ASSUME Commit(a), holder[Key(a)] = a
        PROVE  /\ Promise!Apply(a)
               /\ Promise!Answer(a) \/ UNCHANGED answer
    <3>1. record[attempt[a].key] = {} /\ effect' = effect \cup {<<attempt[a].key, attempt[a].payload, a>>}
      BY <2>0, <2>8 DEF HolderOK, Commit
    <3>2. Promise!Apply(a)
      <4>1. \A p \in Payloads : ~Promise!Applied(Requests[a][1], p)
        <5> SUFFICES ASSUME NEW p \in Payloads, Promise!Applied(Requests[a][1], p) PROVE FALSE
          OBVIOUS
        <5>0. PICK b \in Attempts : <<attempt[a].key, p, b>> \in effect
          BY <2>3 DEF Promise!Applied
        <5>1. p \in record[attempt[a].key]
          BY <2>0, <5>0 DEF RecordOK
        <5> QED
          BY <3>1, <5>1
      <4> QED
        BY <2>3, <3>1, <4>1 DEF Promise!Apply
    <3>3. Tell(a, "done") => Promise!Answer(a)
      BY <2>3, <2>4, <3>1 DEF Promise!Answer
    <3> QED
      BY <2>7, <2>8, <3>2, <3>3 DEF Commit
  <2> QED
    BY <1>1, <2>0, StepCases, <2>2, <2>5, <2>6, <2>7, <2>8 DEF Promise!Next
<1>2. CASE UNCHANGED idempotencyVars
  BY <1>2 DEF idempotencyVars, Requests, Key, Payload
<1> QED
  BY <1>1, <1>2 DEF IdempotencyNext

\* The replay contract implements the promise: an effect comes once for a key,
\* and every answer is true when it is given.
THEOREM PromiseKept == IdempotencySpec => KeepsPromise
<1>1. IdempotencyInit => Promise!Init
  BY InitAttempts DEF IdempotencyInit, Promise!Init, Requests, Key, Payload, AttemptType
<1>2. ReplayInv /\ [IdempotencyNext]_idempotencyVars => [Promise!Next]_<<Requests, effect, answer>>
  BY StepKeepsPromise
<1> QED
  BY <1>1, <1>2, SpecReplayInv, PTL DEF IdempotencySpec, KeepsPromise, Promise!Spec
=============================================================================
