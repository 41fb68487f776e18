-------------------------------- MODULE Opctl --------------------------------
(***************************************************************************)
(* The operation controller, internal/platform/opctl, with its callers:    *)
(* API and CLI processes that run backups, restores and promotions under   *)
(* the kernel lock, the deploy script that claims the installation with a  *)
(* deadline instead, and the operator who resolves a stuck operation.      *)
(*                                                                         *)
(* The controller keeps one record, state.json, and one lock.  dirty is    *)
(* not in the code: it is the set of operations that have begun to change  *)
(* the live installation and neither finished nor undone it, which is what *)
(* the record has to tell a process that starts after a crash.             *)
(*                                                                         *)
(* A record's id stands for its id and its token, both fresh.  Its claim   *)
(* is ExpiresAt: "none" when zero, "live" before and "lapsed" after it.    *)
(* The lock probe of Status and Resolve can make another caller see the    *)
(* lock busy; such a refusal changes nothing, and for the deploy script it *)
(* is the step DeployCommandFails.                                         *)
(***************************************************************************)
EXTENDS Naturals

CONSTANTS
    Procs,          \* API and CLI processes
    Keys,           \* Idempotency-Key headers clients send with a restore
    NoKey,          \* no header
    MaxOps,         \* bound: records ever opened
    OperatorMay     \* what the operator does beyond resolving a dead operation

Free == "free"

ASSUME ProcsAssumption == Free \notin Procs
ASSUME KeysAssumption == NoKey \notin Keys
ASSUME MaxOpsAssumption == MaxOps \in Nat
ASSUME OperatorAssumption == OperatorMay \subseteq {"race", "resolveLive", "hold"}

VARIABLES
    file,       \* state.json
    ops,        \* records opened so far: the source of fresh ids
    lock,       \* the process holding operation.lock, or Free
    lease,      \* each process's operation, in memory
    keys,       \* the idempotency directory: the operation a key names
    deploy,     \* the deploy script's progress
    resolver,   \* the record Resolve has read and not yet written back
    dirty,      \* operations that have changed the installation half way
    switched    \* <<key, id>> of keyed restores that reached the switch

opctlVars == <<file, ops, lock, lease, keys, deploy, resolver, dirty, switched>>

\* The phases an operation writes.
Phases == {"VALIDATING", "PREPARED", "SAFETY_VERIFIED", "CANDIDATE_READY",
           "SWITCHING", "CHECKING", "COMMITTED",
           "FAILED_UNCHANGED", "ROLLED_BACK", "RECOVERY_REQUIRED"}

\* Phase.destructive: the live installation may already have been modified.
\* No caller writes ROLLING_BACK.
Destructive(phase) == phase \in {"SWITCHING", "CHECKING", "RECOVERY_REQUIRED"}

\* Phase.terminal and Phase.resolved: the installation may serve traffic.
Resolved(phase) == phase \in {"COMMITTED", "FAILED_UNCHANGED", "ROLLED_BACK"}

NoId == 0
NoRecord == [id |-> NoId, phase |-> "COMMITTED", by |-> "lease", claim |-> "none"]
NoLease == [pc |-> "idle", id |-> NoId, phase |-> "COMMITTED", kind |-> "backup", key |-> NoKey]
NoDeploy == [pc |-> "idle", id |-> NoId]

Ids == 1..MaxOps
RecordType == [id: Ids \cup {NoId}, phase: Phases, by: {"lease", "external"},
               claim: {"none", "live", "lapsed"}]
LeaseType == [pc: {"idle", "opened", "prepare", "switching", "touched", "switched",
                   "complete", "unchanged", "inconsistent", "release"},
              id: Ids \cup {NoId}, phase: Phases,
              kind: {"backup", "restore", "promote"}, key: Keys \cup {NoKey}]
DeployType == [pc: {"idle", "begun", "gate", "migrating", "migrated", "deployed", "hold"},
               id: Ids \cup {NoId}]

\* Every variable holds a value of its type, and every id in use was handed out.
OpctlTypeOK ==
    /\ file \in RecordType
    /\ ops \in 0..MaxOps
    /\ lock \in Procs \cup {Free}
    /\ lease \in [Procs -> LeaseType]
    /\ keys \in [Keys -> Ids \cup {NoId}]
    /\ deploy \in DeployType
    /\ resolver \in RecordType
    /\ dirty \subseteq Ids
    /\ switched \subseteq Keys \X Ids
    /\ file.id <= ops /\ \A p \in Procs : lease[p].id <= ops

OpctlInit ==
    /\ file = NoRecord
    /\ ops = 0
    /\ lock = Free
    /\ lease = [p \in Procs |-> NoLease]
    /\ keys = [k \in Keys |-> NoId]
    /\ deploy = NoDeploy
    /\ resolver = NoRecord
    /\ dirty = {}
    /\ switched = {}
-----------------------------------------------------------------------------
\* Record.active
Active(record) == record.by = "external" /\ ~Resolved(record.phase) /\ record.claim = "live"

\* Status().Serviceable of the current record: a resolved one, or one that died
\* before it could touch anything.
Running == lock # Free \/ Active(file)
Serviceable ==
    \/ Resolved(file.phase)
    \/ ~Running /\ ~Destructive(file.phase)

\* Acquire and Begin refuse an operation that needs recovery or is still claimed.
MayOpen ==
    \/ Resolved(file.phase)
    \/ ~Destructive(file.phase) /\ ~Active(file)

\* The operator's discipline: nobody else starts while resolve is running.
NoResolveUnderWay == "race" \in OperatorMay \/ resolver = NoRecord
-----------------------------------------------------------------------------
(* In-process operations: Acquire, journal writes, Release *)

\* Acquire: under the lock, write off a dead preparation and open a new record.
Acquire(p, kind, key) ==
    /\ lease[p].pc = "idle" /\ lock = Free /\ ops < MaxOps /\ NoResolveUnderWay
    /\ MayOpen
    /\ lock' = p
    /\ ops' = ops + 1
    /\ file' = [id |-> ops + 1, phase |-> "VALIDATING", by |-> "lease", claim |-> "none"]
    /\ lease' = [lease EXCEPT ![p] = [pc |-> "opened", id |-> ops + 1, phase |-> "VALIDATING",
                                      kind |-> kind, key |-> key]]
    /\ UNCHANGED <<keys, deploy, resolver, dirty, switched>>

\* Acquire or Begin dies, or fails to write, after writing off the previous record.
WriteOff ==
    /\ lock = Free /\ NoResolveUnderWay
    /\ ~Resolved(file.phase) /\ MayOpen
    /\ file' = [file EXCEPT !.phase = "FAILED_UNCHANGED"]
    /\ UNCHANGED <<ops, lock, lease, keys, deploy, resolver, dirty, switched>>

\* The restore handler's LookupKey and RememberKey.
CheckKey(p) ==
    LET key == lease[p].key IN
    /\ lease[p].pc = "opened"
    /\ \/ /\ key = NoKey
          /\ lease' = [lease EXCEPT ![p].pc = "prepare"]
          /\ UNCHANGED keys
       \/ /\ key # NoKey /\ keys[key] # NoId
          /\ lease' = [lease EXCEPT ![p].pc = "release"]
          /\ UNCHANGED keys
       \/ /\ key # NoKey /\ keys[key] = NoId
          /\ keys' = [keys EXCEPT ![key] = lease[p].id]
          /\ \E pc \in {"prepare", "unchanged"} : lease' = [lease EXCEPT ![p].pc = pc]
    /\ UNCHANGED <<file, ops, lock, deploy, resolver, dirty, switched>>

\* Lease.check
Owns(p) == file.id = lease[p].id

\* Intent, Result and Fail: after check, append to the journal, update the
\* record in memory, replace state.json and flush its directory.  The write can
\* fail before anything changed, after memory changed, or after both did.
\* ok is where the caller goes next, err where it goes on an error.
Write(p, phase, ok, err) ==
    \/ /\ Owns(p)
       /\ \E pc \in {ok, err} : lease' = [lease EXCEPT ![p].pc = pc, ![p].phase = phase]
       /\ file' = [file EXCEPT !.phase = phase]
    \/ /\ Owns(p)
       /\ lease' = [lease EXCEPT ![p].pc = err, ![p].phase = phase]
       /\ UNCHANGED file
    \/ /\ lease' = [lease EXCEPT ![p].pc = err]
       /\ UNCHANGED file

\* The preparation advances (SAFETY_VERIFIED, Prepared) or fails.
Prepare(p) ==
    /\ lease[p].pc = "prepare" /\ lease[p].kind = "restore"
    /\ \/ \E phase \in {"SAFETY_VERIFIED", "CANDIDATE_READY"} :
            /\ lease[p].phase # "CANDIDATE_READY" /\ lease[p].phase # phase
            /\ Write(p, phase, "prepare", "unchanged")
       \/ /\ lease' = [lease EXCEPT ![p].pc = "unchanged"]
          /\ UNCHANGED file
    /\ UNCHANGED <<ops, lock, keys, deploy, resolver, dirty, switched>>

\* A backup only reads: it ends as COMMITTED or FAILED_UNCHANGED.
Backup(p) ==
    /\ lease[p].pc = "prepare" /\ lease[p].kind = "backup"
    /\ \/ Write(p, "COMMITTED", "release", "release")
       \/ /\ lease' = [lease EXCEPT ![p].pc = "unchanged"]
          /\ UNCHANGED file
    /\ UNCHANGED <<ops, lock, keys, deploy, resolver, dirty, switched>>

\* Mutant: the switch begins although its intent could not be recorded.
MutSwitchingUnrecorded(p) ==
    /\ lease[p].pc = "prepare" /\ lease[p].kind \in {"restore", "promote"}
    /\ Write(p, "SWITCHING", "switching", "switching")
    /\ switched' = IF lease[p].key = NoKey THEN switched
                   ELSE switched \cup {<<lease[p].key, lease[p].id>>}
    /\ UNCHANGED <<ops, lock, keys, deploy, resolver, dirty>>

\* Switching: the intent is on disk before the switch begins.  A restore that
\* cannot record it fails unchanged; a promotion just returns.
Switching(p) ==
    /\ lease[p].pc = "prepare"
    /\ \/ lease[p].kind = "restore" /\ Write(p, "SWITCHING", "switching", "unchanged")
       \/ lease[p].kind = "promote" /\ Write(p, "SWITCHING", "switching", "release")
    /\ switched' = IF lease[p].key # NoKey /\ lease'[p].pc = "switching"
                   THEN switched \cup {<<lease[p].key, lease[p].id>>} ELSE switched
    /\ UNCHANGED <<ops, lock, keys, deploy, resolver, dirty>>

\* Every failure of a promotion asks for recovery; a restore's does only when
\* the live database is not what it was.
AfterFailure(p) == IF lease[p].kind = "promote" THEN "inconsistent" ELSE "unchanged"

\* The switch fails before it changed anything.
SwitchRefused(p) ==
    /\ lease[p].pc = "switching"
    /\ lease' = [lease EXCEPT ![p].pc = AfterFailure(p)]
    /\ UNCHANGED <<file, ops, lock, keys, deploy, resolver, dirty, switched>>

\* The live database is renamed aside (or loaded into).
Touch(p) ==
    /\ lease[p].pc = "switching"
    /\ dirty' = dirty \cup {lease[p].id}
    /\ lease' = [lease EXCEPT ![p].pc = "touched"]
    /\ UNCHANGED <<file, ops, lock, keys, deploy, resolver, switched>>

\* The switch fails half way and is undone ...
SwitchUndone(p) ==
    /\ lease[p].pc = "touched"
    /\ dirty' = dirty \ {lease[p].id}
    /\ lease' = [lease EXCEPT ![p].pc = AfterFailure(p)]
    /\ UNCHANGED <<file, ops, lock, keys, deploy, resolver, switched>>

\* ... or cannot be, or a later step fails.
SwitchFails(p) ==
    /\ lease[p].pc \in {"touched", "switched"}
    /\ lease' = [lease EXCEPT ![p].pc = "inconsistent"]
    /\ UNCHANGED <<file, ops, lock, keys, deploy, resolver, dirty, switched>>

\* Switched, which only a restore records.
Switched(p) ==
    /\ lease[p].pc = "touched"
    /\ \/ lease[p].kind = "restore" /\ Write(p, "CHECKING", "switched", "inconsistent")
       \/ /\ lease[p].kind = "promote"
          /\ lease' = [lease EXCEPT ![p].pc = "switched"]
          /\ UNCHANGED file
    /\ UNCHANGED <<ops, lock, keys, deploy, resolver, dirty, switched>>

\* The last live change lands.
Complete(p) ==
    /\ lease[p].pc = "switched"
    /\ dirty' = dirty \ {lease[p].id}
    /\ lease' = [lease EXCEPT ![p].pc = "complete"]
    /\ UNCHANGED <<file, ops, lock, keys, deploy, resolver, switched>>

\* Committed.  A promotion ignores the error of the write.
Committed(p) ==
    /\ lease[p].pc = "complete"
    /\ \/ lease[p].kind = "restore" /\ Write(p, "COMMITTED", "release", "inconsistent")
       \/ lease[p].kind = "promote" /\ Write(p, "COMMITTED", "release", "release")
    /\ UNCHANGED <<ops, lock, keys, deploy, resolver, dirty, switched>>

\* Fail, with the phase the caller chose; its error is ignored.
Fail(p) ==
    /\ \/ lease[p].pc = "unchanged" /\ Write(p, "FAILED_UNCHANGED", "release", "release")
       \/ lease[p].pc = "inconsistent" /\ Write(p, "RECOVERY_REQUIRED", "release", "release")
    /\ UNCHANGED <<ops, lock, keys, deploy, resolver, dirty, switched>>

\* What Release records for an operation that did not settle itself.
ReleaseAs(phase) ==
    IF Resolved(phase) THEN phase
    ELSE IF Destructive(phase) THEN "RECOVERY_REQUIRED" ELSE "FAILED_UNCHANGED"

Release(p) ==
    /\ lease[p].pc = "release"
    /\ \/ UNCHANGED file
       \/ /\ ~Resolved(lease[p].phase) /\ Owns(p)
          /\ file' = [file EXCEPT !.phase = ReleaseAs(lease[p].phase)]
    /\ lock' = Free
    /\ lease' = [lease EXCEPT ![p] = NoLease]
    /\ UNCHANGED <<ops, keys, deploy, resolver, dirty, switched>>

\* Mutant: a PID file, which outlives its owner.
MutCrashKeepsLock(p) ==
    /\ lease[p].pc # "idle"
    /\ lease' = [lease EXCEPT ![p] = NoLease]
    /\ UNCHANGED <<file, ops, lock, keys, deploy, resolver, dirty, switched>>

\* The process dies; the kernel drops its lock.
Crash(p) ==
    /\ lease[p].pc # "idle"
    /\ lock' = Free
    /\ lease' = [lease EXCEPT ![p] = NoLease]
    /\ UNCHANGED <<file, ops, keys, deploy, resolver, dirty, switched>>
-----------------------------------------------------------------------------
(* The deploy script: Begin, Advance, Hold, each under the lock *)

Begin ==
    /\ deploy.pc = "idle" /\ lock = Free /\ ops < MaxOps /\ NoResolveUnderWay
    /\ MayOpen
    /\ ops' = ops + 1
    /\ file' = [id |-> ops + 1, phase |-> "PREPARED", by |-> "external", claim |-> "live"]
    /\ deploy' = [pc |-> "begun", id |-> ops + 1]
    /\ UNCHANGED <<lock, lease, keys, resolver, dirty, switched>>

\* Advance, when the record is still the deploy's own and open.
Advance(phase, pc) ==
    /\ lock = Free
    /\ file.id = deploy.id /\ file.by = "external" /\ ~Resolved(file.phase)
    /\ file' = [file EXCEPT !.phase = phase,
                            !.claim = IF Resolved(phase) THEN "none" ELSE "live"]
    /\ deploy' = [deploy EXCEPT !.pc = pc]

DeploySwitching ==
    /\ deploy.pc = "begun"
    /\ Advance("SWITCHING", "gate")
    /\ UNCHANGED <<ops, lock, lease, keys, resolver, dirty, switched>>

\* GateStartupFor: the migration container names the live operation it is part of.
DeployMigrates ==
    /\ deploy.pc = "gate"
    /\ \/ Serviceable
       \/ /\ file.id = deploy.id /\ file.by = "external"
          /\ file.phase # "RECOVERY_REQUIRED" /\ Active(file)
    /\ dirty' = dirty \cup {deploy.id}
    /\ deploy' = [deploy EXCEPT !.pc = "migrating"]
    /\ UNCHANGED <<file, ops, lock, lease, keys, resolver, switched>>

DeployMigrated ==
    /\ deploy.pc = "migrating"
    /\ dirty' = dirty \ {deploy.id}
    /\ deploy' = [deploy EXCEPT !.pc = "migrated"]
    /\ UNCHANGED <<file, ops, lock, lease, keys, resolver, switched>>

DeployCommitted ==
    /\ deploy.pc = "migrated"
    /\ Advance("COMMITTED", "deployed")
    /\ UNCHANGED <<ops, lock, lease, keys, resolver, dirty, switched>>

\* The services came up on the new images, or on the old ones again when there
\* was nothing to migrate (_rollback_deploy; Advance refuses its ROLLED_BACK).
DeployDone ==
    /\ deploy.pc = "deployed"
    /\ deploy' = NoDeploy
    /\ UNCHANGED <<file, ops, lock, lease, keys, resolver, dirty, switched>>

\* A command of the script fails, whatever it was: _hold_deploy.
DeployCommandFails ==
    /\ deploy.pc \in {"begun", "gate", "migrating", "migrated", "deployed"}
    /\ deploy' = [deploy EXCEPT !.pc = "hold"]
    /\ UNCHANGED <<file, ops, lock, lease, keys, resolver, dirty, switched>>

\* Hold: an open record becomes RECOVERY_REQUIRED, a closed one gets a successor.
Hold ==
    /\ lock = Free
    /\ IF Resolved(file.phase)
       THEN /\ ops < MaxOps
            /\ ops' = ops + 1
            /\ file' = [id |-> ops + 1, phase |-> "RECOVERY_REQUIRED", by |-> "external",
                        claim |-> "none"]
       ELSE /\ file' = [file EXCEPT !.phase = "RECOVERY_REQUIRED", !.by = "external",
                                    !.claim = "none"]
            /\ UNCHANGED ops

DeployHolds ==
    /\ deploy.pc = "hold" /\ NoResolveUnderWay
    /\ Hold
    /\ deploy' = NoDeploy
    /\ UNCHANGED <<lock, lease, keys, resolver, dirty, switched>>

\* The script is killed, or cannot write its hold and takes the stack down.
DeployDies ==
    /\ deploy.pc # "idle"
    /\ deploy' = NoDeploy
    /\ UNCHANGED <<file, ops, lock, lease, keys, resolver, dirty, switched>>

\* ExpiresAt passes.
ClaimLapses ==
    /\ file.claim = "live"
    /\ file' = [file EXCEPT !.claim = "lapsed"]
    /\ UNCHANGED <<ops, lock, lease, keys, deploy, resolver, dirty, switched>>
-----------------------------------------------------------------------------
(* The operator *)

\* The operator puts right what the stuck operation left; nothing in the code
\* does this.
Repair ==
    /\ lock = Free /\ Destructive(file.phase) /\ file.id \in dirty
    /\ deploy.id # file.id
    /\ dirty' = dirty \ {file.id}
    /\ UNCHANGED <<file, ops, lock, lease, keys, deploy, resolver, switched>>

\* Resolve's first half: the record is open and the lock probe succeeds.  The
\* operator has dealt with the operation, and (unless the constant says
\* otherwise) does not resolve a deploy that is still running.
ResolveReads ==
    /\ resolver = NoRecord
    /\ ~Resolved(file.phase) /\ lock = Free
    /\ "resolveLive" \in OperatorMay \/ (file.id \notin dirty /\ deploy.id # file.id)
    /\ resolver' = file
    /\ UNCHANGED <<file, ops, lock, lease, keys, deploy, dirty, switched>>

\* Resolve's second half: the record that was read goes back as ROLLED_BACK,
\* without the lock.
ResolveWrites ==
    /\ resolver # NoRecord
    /\ file' = [resolver EXCEPT !.phase = "ROLLED_BACK"]
    /\ resolver' = NoRecord
    /\ UNCHANGED <<ops, lock, lease, keys, deploy, dirty, switched>>

\* An operator runs `system hold` by hand.
OperatorHolds ==
    /\ "hold" \in OperatorMay
    /\ Hold
    /\ UNCHANGED <<lock, lease, keys, deploy, resolver, dirty, switched>>
-----------------------------------------------------------------------------
Operation(p) ==
    \/ CheckKey(p) \/ Prepare(p) \/ Backup(p) \/ Switching(p) \/ SwitchRefused(p)
    \/ Touch(p) \/ SwitchUndone(p) \/ SwitchFails(p) \/ Switched(p) \/ Complete(p)
    \/ Committed(p) \/ Fail(p) \/ Release(p)

DeployStep ==
    \/ DeploySwitching \/ DeployMigrates \/ DeployMigrated \/ DeployCommitted
    \/ DeployDone \/ DeployCommandFails \/ DeployHolds \/ DeployDies

OpctlNext ==
    \/ \E p \in Procs :
         \/ \E kind \in {"backup", "restore", "promote"}, key \in Keys \cup {NoKey} :
              (key # NoKey => kind = "restore") /\ Acquire(p, kind, key)
         \/ Operation(p)
         \/ Crash(p)
    \/ WriteOff
    \/ Begin \/ DeployStep \/ ClaimLapses
    \/ Repair \/ ResolveReads \/ ResolveWrites \/ OperatorHolds

\* A running process finishes its operation (every step has a timeout) or dies,
\* a running script likewise, a resolve command returns, and deadlines pass.
OpctlFairness ==
    /\ \A p \in Procs : WF_opctlVars(Operation(p))
    /\ WF_opctlVars(DeployStep)
    /\ WF_opctlVars(ResolveWrites)
    /\ WF_opctlVars(ClaimLapses)

OpctlSpec == OpctlInit /\ [][OpctlNext]_opctlVars /\ OpctlFairness
-----------------------------------------------------------------------------
\* A half-changed installation always carries a record that keeps it out of
\* service: whatever crashes, loses a write or expires, Status refuses traffic
\* and neither Acquire nor Begin starts on top of it (Status, opctl.go:201-238;
\* Acquire, lease.go:66-96; Begin, external.go:77-104).
HalfChangedIsRecorded ==
    \A id \in dirty : file.id = id /\ Destructive(file.phase)

\* The lock of the in-process operations and the deadline of the deploy script
\* exclude one another: at most one operation is past its point of no return.
Changing(p) == lease[p].pc \in {"switching", "touched", "switched", "complete"}
Migrating == deploy.pc \in {"migrating", "migrated"}
OneChanger ==
    /\ \A p, q \in Procs : Changing(p) /\ Changing(q) => p = q
    /\ \A p \in Procs : Changing(p) => ~Migrating

\* A deploy between its intent and its result keeps its own, open record: nobody
\* resolves an operation that is running ("süren bir işlem elle çözülemez",
\* opctl.go:276) and no other operation takes its place.
RunningIsNotResolved ==
    deploy.pc \in {"gate", "migrating", "migrated"}
        => file.id = deploy.id /\ ~Resolved(file.phase)

\* A client that repeats a restore with the same key never starts a second one,
\* even when the first died after the key was recorded (restore, system.go:165-199).
KeySwitchesOnce ==
    \A s, t \in switched : s[1] = t[1] => s = t

\* The installation is never wedged: again and again it can take a new operation,
\* or its record says that a person is needed.
NeverWedged == []<>((lock = Free /\ MayOpen) \/ Destructive(file.phase))

\* Operations are safe: one at a time changes the installation, once for each request,
\* nobody resolves it while it runs, and what it leaves half done is on record.
OperationsAreSafe ==
    HalfChangedIsRecorded /\ OneChanger /\ RunningIsNotResolved /\ KeySwitchesOnce
=============================================================================
