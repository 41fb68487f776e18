-------------------------- MODULE OperationsProofs --------------------------
(***************************************************************************)
(* For every set of processes and keys and every number of operations: no  *)
(* key starts two switches, and two processes never change the             *)
(* installation together, whatever the operator does; when the operator    *)
(* neither races a start against a resolve nor resolves a live operation,  *)
(* operations are safe altogether.                                         *)
(*                                                                         *)
(* For every set of writers and every number of backups: a published       *)
(* archive is the installation at one instant between the requests, and    *)
(* nothing is missing from one that must be complete.  For every number    *)
(* of parts and interruptions: two rebuilds never work on the showcase     *)
(* company together, and a row that reports a completed build names a      *)
(* company with all its parts.  For every number of guarded tables and     *)
(* every set of ports: the desktop's cluster, password and key file stay   *)
(* together through every stop, and its service answers for itself.        *)
(***************************************************************************)
EXTENDS Opctl, Backup, Demo, Desktop, FiniteSetTheorems, WellFoundedInduction, TLAPS

-----------------------------------------------------------------------------
(* Operations.  The properties speak of the record, the dirty operations and   *)
(* the steps past the point of no return.  What carries them is what ties a    *)
(* process to the lock and to its record, in memory and on disk: a process     *)
(* with an operation holds the lock, the record is its own while it does, and  *)
(* the phase it will write last is destructive as long as it left something    *)
(* half done; a deploy past its intent and a resolve half way through each     *)
(* find the lock free and the record where they left it.                       *)

\* The lock belongs to the process with an operation.
LockOK == \A p \in Procs : lease[p].pc # "idle" => lock = p

\* A key's directory entry names the operation that may switch under it.
KeysOK ==
    /\ \A p \in Procs : lease[p].pc = "prepare" /\ lease[p].key # NoKey
                          => keys[lease[p].key] = lease[p].id
    /\ \A s \in switched : keys[s[1]] = s[2]

\* A process with an operation owns the record, and its memory tells that the
\* installation is half changed.
Tells(p) ==
    /\ file.id = lease[p].id
    /\ dirty # {} => Destructive(file.phase) /\ Destructive(lease[p].phase)
    /\ lease[p].pc \in {"opened", "prepare", "switching", "complete", "unchanged"} => dirty = {}
    /\ Changing(p) => Destructive(file.phase) /\ Destructive(lease[p].phase)
LeaseOK == \A p \in Procs : lease[p].pc # "idle" => Tells(p)

\* A deploy between its intent and its result keeps its own, destructive record.
DeployOK ==
    deploy.pc \in {"gate", "migrating", "migrated"} =>
        /\ lock = Free /\ file.id = deploy.id /\ Destructive(file.phase)
        /\ deploy.pc = "migrated" => dirty = {}

\* Between a resolve's halves nothing runs and the record stays open and clean.
ResolverOK ==
    resolver # NoRecord =>
        /\ lock = Free /\ file.id = resolver.id /\ ~Resolved(file.phase)
        /\ dirty = {} /\ (deploy.pc # "idle" => file.id # deploy.id)

\* Whoever runs has an id.
IdsOK ==
    /\ resolver.id <= ops
    /\ \A p \in Procs : lease[p].pc # "idle" => lease[p].id # NoId
    /\ deploy.pc # "idle" => deploy.id # NoId

\* What holds whatever the operator does.
Base == OpctlTypeOK /\ IdsOK /\ LockOK /\ KeysOK

\* What holds under the operator's discipline.
Careful == OperatorMay \subseteq {"hold"}
IInv == Base /\ LeaseOK /\ DeployOK /\ ResolverOK /\ HalfChangedIsRecorded

USE ProcsAssumption, KeysAssumption, MaxOpsAssumption, OperatorAssumption

Pcs == {"idle", "opened", "prepare", "switching", "touched", "switched",
        "complete", "unchanged", "inconsistent", "release"}

\* What a step may do to a process's lease: the other leases stay, the operation
\* keeps its id, kind and key.
LeaseMoves(p, pc, phase) ==
    /\ lease' \in [Procs -> LeaseType]
    /\ lease'[p].pc = pc /\ lease'[p].phase = phase
    /\ lease'[p].id = lease[p].id /\ lease'[p].kind = lease[p].kind /\ lease'[p].key = lease[p].key
    /\ \A q \in Procs : q # p => lease'[q] = lease[q]

\* What a write may do to the record.
FileMoves(phase) ==
    /\ file' \in RecordType
    /\ file'.id = file.id /\ file'.phase = phase

\* A step that only moves the program counter of a lease.
LEMMA SetPc ==
  ASSUME OpctlTypeOK, NEW p \in Procs, NEW pc \in Pcs,
         lease' = [lease EXCEPT ![p].pc = pc]
  PROVE  LeaseMoves(p, pc, lease[p].phase)
<1> DEFINE new == [lease[p] EXCEPT !.pc = pc]
<1>1. lease[p] \in LeaseType /\ lease \in [Procs -> LeaseType]
  BY DEF OpctlTypeOK
<1>2. /\ new \in LeaseType /\ new.pc = pc /\ new.phase = lease[p].phase
      /\ new.id = lease[p].id /\ new.kind = lease[p].kind /\ new.key = lease[p].key
  BY ONLY <1>1, pc \in Pcs DEF LeaseType, Pcs
<1>3. lease' = [lease EXCEPT ![p] = new]
  OBVIOUS
<1> HIDE DEF new
<1> QED
  BY <1>1, <1>2, <1>3 DEF LeaseMoves

\* A step that also updates the phase in memory.
LEMMA SetPcPhase ==
  ASSUME OpctlTypeOK, NEW p \in Procs, NEW pc \in Pcs, NEW phase \in Phases,
         lease' = [lease EXCEPT ![p].pc = pc, ![p].phase = phase]
  PROVE  LeaseMoves(p, pc, phase)
<1> DEFINE new == [lease[p] EXCEPT !.pc = pc, !.phase = phase]
<1>1. lease[p] \in LeaseType /\ lease \in [Procs -> LeaseType]
  BY DEF OpctlTypeOK
<1>2. /\ new \in LeaseType /\ new.pc = pc /\ new.phase = phase
      /\ new.id = lease[p].id /\ new.kind = lease[p].kind /\ new.key = lease[p].key
  BY ONLY <1>1, pc \in Pcs, phase \in Phases DEF LeaseType, Pcs
<1>3. lease' = [lease EXCEPT ![p] = new]
  OBVIOUS
<1> HIDE DEF new
<1> QED
  BY <1>1, <1>2, <1>3, ZenonT(60) DEF LeaseMoves

\* A journal write ends in one of three ways.
LEMMA WriteCases ==
  ASSUME OpctlTypeOK, NEW p \in Procs, NEW ok \in Pcs, NEW err \in Pcs, NEW phase \in Phases,
         Write(p, phase, ok, err)
  PROVE  \/ LeaseMoves(p, ok, phase) /\ FileMoves(phase)
         \/ LeaseMoves(p, err, phase) /\ FileMoves(phase)
         \/ LeaseMoves(p, err, phase) /\ UNCHANGED file
         \/ LeaseMoves(p, err, lease[p].phase) /\ UNCHANGED file
<1>1. ASSUME file' = [file EXCEPT !.phase = phase] PROVE FileMoves(phase)
  BY <1>1 DEF OpctlTypeOK, RecordType, FileMoves
<1>2. CASE /\ Owns(p)
           /\ \E pc \in {ok, err} : lease' = [lease EXCEPT ![p].pc = pc, ![p].phase = phase]
           /\ file' = [file EXCEPT !.phase = phase]
  BY <1>1, <1>2, SetPcPhase
<1>3. CASE /\ Owns(p)
           /\ lease' = [lease EXCEPT ![p].pc = err, ![p].phase = phase]
           /\ UNCHANGED file
  BY <1>3, SetPcPhase
<1>4. CASE lease' = [lease EXCEPT ![p].pc = err] /\ UNCHANGED file
  BY <1>4, SetPc
<1> QED
  BY <1>2, <1>3, <1>4 DEF Write

\* What every step of an operation before its release has in common.
Runs(p) ==
    /\ lease[p].pc # "idle"
    /\ \E pc \in Pcs \ {"idle"}, phase \in Phases : LeaseMoves(p, pc, phase)
    /\ file' \in RecordType /\ file'.id = file.id
    /\ UNCHANGED <<ops, lock, deploy, resolver>>

\* The steps of an operation, the release apart, move its lease and its record.
LEMMA OperationRuns ==
  ASSUME OpctlTypeOK, NEW p \in Procs, Operation(p), ~Release(p)
  PROVE  Runs(p)
<1> USE DEF Pcs, Phases, Runs
<1>0. file \in RecordType /\ lease[p].phase \in Phases
  BY DEF OpctlTypeOK, LeaseType
<1>1. ASSUME NEW pc \in Pcs \ {"idle"}, lease[p].pc # "idle",
             lease' = [lease EXCEPT ![p].pc = pc], UNCHANGED <<file, ops, lock, deploy, resolver>>
      PROVE  Runs(p)
  <2>1. LeaseMoves(p, pc, lease[p].phase)
    BY <1>1, SetPc
  <2> QED
    BY <1>0, <1>1, <2>1
<1>2. ASSUME NEW ok \in Pcs \ {"idle"}, NEW err \in Pcs \ {"idle"}, NEW phase \in Phases,
             lease[p].pc # "idle", Write(p, phase, ok, err), UNCHANGED <<ops, lock, deploy, resolver>>
      PROVE  Runs(p)
  <2>1. \/ LeaseMoves(p, ok, phase) /\ FileMoves(phase)
        \/ LeaseMoves(p, err, phase) /\ FileMoves(phase)
        \/ LeaseMoves(p, err, phase) /\ UNCHANGED file
        \/ LeaseMoves(p, err, lease[p].phase) /\ UNCHANGED file
    BY ONLY <1>2, WriteCases, OpctlTypeOK, SMTT(60) DEF Pcs, Phases
  <2> QED
    BY <1>0, <1>2, <2>1 DEF FileMoves
<1>3. CASE CheckKey(p)
  BY <1>1, <1>3 DEF CheckKey
<1>4. CASE Prepare(p)
  BY <1>1, <1>2, <1>4 DEF Prepare
<1>5. CASE Backup(p)
  BY <1>1, <1>2, <1>5 DEF Backup
<1>6. CASE Switching(p)
  BY <1>2, <1>6 DEF Switching
<1>7. CASE SwitchRefused(p)
  BY <1>1, <1>7 DEF SwitchRefused, AfterFailure
<1>8. CASE Touch(p)
  BY <1>1, <1>8 DEF Touch
<1>9. CASE SwitchUndone(p)
  BY <1>1, <1>9 DEF SwitchUndone, AfterFailure
<1>10. CASE SwitchFails(p)
  BY <1>1, <1>10 DEF SwitchFails
<1>11. CASE Switched(p)
  BY <1>1, <1>2, <1>11 DEF Switched
<1>12. CASE Complete(p)
  BY <1>1, <1>12 DEF Complete
<1>13. CASE Committed(p)
  BY <1>2, <1>13 DEF Committed
<1>14. CASE Fail(p)
  BY <1>2, <1>14 DEF Fail
<1> QED
  BY <1>3, <1>4, <1>5, <1>6, <1>7, <1>8, <1>9, <1>10, <1>11, <1>12, <1>13, <1>14 DEF Operation

\* An operation that ends, or dies, leaves the lock and its lease.
Ends(p) ==
    /\ lease[p].pc # "idle"
    /\ lease' = [lease EXCEPT ![p] = NoLease]
    /\ lock' = Free
    /\ file' \in RecordType /\ file'.id = file.id
    /\ UNCHANGED <<ops, keys, deploy, resolver, dirty, switched>>

\* Releasing a lease ends its operation and frees the lock if it was its own.
LEMMA ReleaseEnds ==
  ASSUME OpctlTypeOK, NEW p \in Procs, Release(p) \/ Crash(p)
  PROVE  Ends(p)
BY DEF OpctlTypeOK, Release, Crash, Ends, RecordType, ReleaseAs, Phases, LeaseType

\* Acquire puts a fresh operation into the lease.
LEMMA AcquireMoves ==
  ASSUME OpctlTypeOK, NEW p \in Procs, NEW kind \in {"backup", "restore", "promote"},
         NEW key \in Keys \cup {NoKey}, Acquire(p, kind, key)
  PROVE  /\ lease' \in [Procs -> LeaseType] /\ file' \in RecordType
         /\ lease'[p].pc = "opened" /\ lease'[p].phase = "VALIDATING"
         /\ ops' = ops + 1 /\ ops' \in Ids /\ file'.id = ops' /\ lease'[p].id = ops'
         /\ \A q \in Procs : q # p => lease'[q] = lease[q]
<1> DEFINE new == [pc |-> "opened", id |-> ops + 1, phase |-> "VALIDATING",
                   kind |-> kind, key |-> key]
<1>1. lease \in [Procs -> LeaseType] /\ ops \in 0..MaxOps
  BY DEF OpctlTypeOK
<1>2. ops' = ops + 1 /\ ops' \in Ids
  BY <1>1 DEF Acquire, Ids
<1>3. new \in LeaseType
  BY <1>2 DEF LeaseType, Phases
<1>4. lease' = [lease EXCEPT ![p] = new]
  BY DEF Acquire
<1>5. file' \in RecordType /\ file'.id = ops'
  BY <1>2 DEF Acquire, RecordType, Phases
<1>6. new.pc = "opened" /\ new.phase = "VALIDATING" /\ new.id = ops'
  BY <1>2
<1> HIDE DEF new
<1> QED
  BY <1>1, <1>2, <1>3, <1>4, <1>5, <1>6

\* Advance and Hold keep the record's type.
LEMMA DeployRecord ==
  ASSUME OpctlTypeOK
  PROVE  /\ \A phase \in Phases : \A pc : Advance(phase, pc)
               => file' \in RecordType /\ file'.id = file.id /\ file'.phase = phase
         /\ Hold => /\ file' \in RecordType /\ ops' \in 0..MaxOps /\ ops <= ops'
                    /\ file'.id <= ops' /\ file'.phase = "RECOVERY_REQUIRED"
                    /\ ~Resolved(file.phase) => file'.id = file.id
<1> USE DEF OpctlTypeOK, RecordType, Ids, Phases
<1>1. ASSUME NEW phase \in Phases, NEW pc, Advance(phase, pc)
      PROVE  file' \in RecordType /\ file'.id = file.id /\ file'.phase = phase
  BY <1>1 DEF Advance
<1>2. ASSUME Hold
      PROVE  /\ file' \in RecordType /\ ops' \in 0..MaxOps /\ ops <= ops'
             /\ file'.id <= ops' /\ file'.phase = "RECOVERY_REQUIRED"
             /\ ~Resolved(file.phase) => file'.id = file.id
  <2>1. CASE Resolved(file.phase)
    BY <1>2, <2>1 DEF Hold
  <2>2. CASE ~Resolved(file.phase)
    <3>1. file' = [file EXCEPT !.phase = "RECOVERY_REQUIRED", !.by = "external", !.claim = "none"]
          /\ ops' = ops
      BY <1>2, <2>2 DEF Hold
    <3>2. file \in RecordType /\ ops \in 0..MaxOps /\ file.id <= ops /\ ops \in Nat
      OBVIOUS
    <3>3. file' \in RecordType /\ file'.id = file.id /\ file'.phase = "RECOVERY_REQUIRED"
      BY ONLY <3>1, <3>2 DEF RecordType, Phases
    <3> QED
      BY <3>1, <3>2, <3>3
  <2> QED
    BY <2>1, <2>2
<1> QED
  BY <1>1, <1>2

\* The first record, lock and leases satisfy everything.
LEMMA InitIInv == OpctlInit => IInv
<1> SUFFICES ASSUME OpctlInit PROVE IInv
  OBVIOUS
<1> USE DEF OpctlInit, NoRecord, NoLease, NoDeploy, NoId
<1>1. OpctlTypeOK
  BY DEF OpctlTypeOK, RecordType, LeaseType, DeployType, Phases, Ids
<1>2. IdsOK /\ LockOK /\ KeysOK
  BY DEF IdsOK, LockOK, KeysOK
<1>3. LeaseOK /\ DeployOK /\ ResolverOK /\ HalfChangedIsRecorded
  BY DEF LeaseOK, DeployOK, ResolverOK, HalfChangedIsRecorded
<1> QED
  BY <1>1, <1>2, <1>3 DEF IInv, Base

\* Every step keeps types, ids, the lock's owner and the keys, whatever the
\* operator does.
LEMMA NextBase == Base /\ [OpctlNext]_opctlVars => Base'
<1> SUFFICES ASSUME Base, [OpctlNext]_opctlVars PROVE Base'
  OBVIOUS
<1> USE DEF Base, IdsOK, LockOK, KeysOK
<1>0. /\ OpctlTypeOK /\ file \in RecordType /\ resolver \in RecordType /\ ops \in 0..MaxOps
      /\ file.id <= ops /\ lease \in [Procs -> LeaseType]
      /\ \A p \in Procs : lease[p] \in LeaseType
  BY DEF OpctlTypeOK
<1>1. ASSUME NEW p \in Procs, NEW kind \in {"backup", "restore", "promote"},
             NEW key \in Keys \cup {NoKey}, Acquire(p, kind, key)
      PROVE  Base'
  <2>0. /\ lease' \in [Procs -> LeaseType] /\ file' \in RecordType
        /\ ops' = ops + 1 /\ ops' \in Ids /\ file'.id = ops' /\ lease'[p].id = ops'
        /\ \A q \in Procs : q # p => lease'[q] = lease[q]
        /\ lock' = p /\ UNCHANGED <<keys, deploy, resolver, dirty, switched>>
    BY <1>1, <1>0, AcquireMoves DEF Acquire
  <2>1. OpctlTypeOK'
    BY <1>0, <2>0 DEF OpctlTypeOK, Ids, LeaseType, NoId
  <2>2. IdsOK'
    BY <1>1, <1>0, AcquireMoves DEF Acquire, Ids, NoId, RecordType
  <2>3. LockOK'
    BY <1>1, <1>0, AcquireMoves DEF Acquire
  <2>4. KeysOK'
    BY <1>1, <1>0, AcquireMoves DEF Acquire
  <2> QED
    BY <2>1, <2>2, <2>3, <2>4
<1>2. ASSUME NEW p \in Procs, Ends(p) PROVE Base'
  <2>1. NoLease \in LeaseType /\ NoLease.pc = "idle" /\ NoLease.id = 0
    BY DEF NoLease, LeaseType, Phases, NoId
  <2>2. lease' \in [Procs -> LeaseType] /\ lease'[p] = NoLease
        /\ \A q \in Procs : q # p => lease'[q] = lease[q]
    BY <1>0, <1>2, <2>1 DEF Ends
  <2>3. OpctlTypeOK'
    BY <1>2, <1>0, <2>1, <2>2 DEF Ends, OpctlTypeOK
  <2> QED
    BY <1>2, <1>0, <2>1, <2>2, <2>3 DEF Ends
<1>3. ASSUME NEW p \in Procs, Operation(p), ~Release(p) PROVE Base'
  <2>1. Runs(p)
    BY <1>0, <1>3, OperationRuns
  <2>2. PICK pc \in Pcs \ {"idle"}, phase \in Phases : LeaseMoves(p, pc, phase)
    BY <2>1 DEF Runs
  <2>3. /\ lease[p].pc # "idle" /\ lease[p].id \in Ids /\ lease[p].key \in Keys \cup {NoKey}
        /\ file' \in RecordType /\ file'.id = file.id
        /\ UNCHANGED <<ops, lock, deploy, resolver>>
    BY <1>0, <2>1 DEF Runs, LeaseType
  <2>4. IdsOK' /\ LockOK' /\ \A q \in Procs : lease'[q].id = lease[q].id
    BY <2>2, <2>3 DEF LeaseMoves
  <2>5. dirty' \subseteq Ids
    BY <1>0, <1>3, <2>3 DEF OpctlTypeOK, Operation, CheckKey, Prepare, Backup, Switching,
       SwitchRefused, Touch, SwitchUndone, SwitchFails, Switched, Complete, Committed, Fail
  <2>6. /\ \/ UNCHANGED keys
           \/ /\ lease[p].key # NoKey /\ keys[lease[p].key] = NoId
              /\ keys' = [keys EXCEPT ![lease[p].key] = lease[p].id]
        /\ \/ UNCHANGED switched
           \/ /\ lease[p].pc = "prepare" /\ lease[p].key # NoKey /\ UNCHANGED keys
              /\ switched' = switched \cup {<<lease[p].key, lease[p].id>>}
        /\ \/ lease'[p].pc # "prepare"
           \/ lease[p].key = NoKey
           \/ lease[p].pc = "prepare" /\ UNCHANGED keys
           \/ keys' = [keys EXCEPT ![lease[p].key] = lease[p].id]
    <3> HIDE DEF Base, IdsOK, LockOK, KeysOK
    <3>1. CASE CheckKey(p)
      <4>1. lease' = [lease EXCEPT ![p].pc = "release"] => lease'[p].pc # "prepare"
        BY <1>0, SetPc DEF LeaseMoves, Pcs
      <4> QED
        BY <3>1, <4>1 DEF CheckKey
    <3>2. CASE Switching(p)
      <4>1. lease'[p].pc # "prepare"
        <5>1. CASE Write(p, "SWITCHING", "switching", "unchanged")
          BY <1>0, <5>1, WriteCases DEF LeaseMoves, Pcs, Phases
        <5>2. CASE Write(p, "SWITCHING", "switching", "release")
          BY <1>0, <5>2, WriteCases DEF LeaseMoves, Pcs, Phases
        <5> QED
          BY <3>2, <5>1, <5>2 DEF Switching
      <4> QED
        BY <3>2, <4>1 DEF Switching
    <3>3. CASE UNCHANGED <<keys, switched>> /\ (lease[p].pc = "prepare" \/ lease'[p].pc # "prepare")
      BY <3>3
    <3>4. CASE Prepare(p) \/ Backup(p)
      BY <3>3, <3>4 DEF Prepare, Backup
    <3>5. CASE SwitchRefused(p) \/ Touch(p) \/ SwitchUndone(p) \/ SwitchFails(p) \/ Complete(p)
      <4>1. \A pcx \in Pcs : lease' = [lease EXCEPT ![p].pc = pcx] => lease'[p].pc = pcx
        BY <1>0, SetPc DEF LeaseMoves
      <4> QED
        BY <3>3, <3>5, <4>1
           DEF SwitchRefused, Touch, SwitchUndone, SwitchFails, Complete, AfterFailure, Pcs
    <3>6. CASE Switched(p)
      <4>1. \A pcx \in Pcs : lease' = [lease EXCEPT ![p].pc = pcx] => lease'[p].pc = pcx
        BY <1>0, SetPc DEF LeaseMoves
      <4>2. lease'[p].pc # "prepare"
        BY <1>0, <3>6, <4>1, WriteCases DEF Switched, LeaseMoves, Pcs, Phases
      <4> QED
        BY <3>3, <3>6, <4>2 DEF Switched
    <3>7. CASE Committed(p) \/ Fail(p)
      <4>1. lease'[p].pc # "prepare"
        BY <1>0, <3>7, WriteCases DEF Committed, Fail, LeaseMoves, Pcs, Phases
      <4> QED
        BY <3>3, <3>7, <4>1 DEF Committed, Fail
    <3> QED
      BY <1>3, <3>1, <3>2, <3>4, <3>5, <3>6, <3>7 DEF Operation
  <2>7. /\ keys \in [Keys -> Ids \cup {NoId}] /\ keys' \in [Keys -> Ids \cup {NoId}]
        /\ \A k \in Keys : keys[k] # NoId => keys'[k] = keys[k]
    <3>1. keys \in [Keys -> Ids \cup {NoId}]
      BY <1>0 DEF OpctlTypeOK
    <3> QED
      BY <2>3, <2>6, <3>1
  <2>8. switched \subseteq Keys \X Ids /\ switched' \subseteq Keys \X Ids
    BY <1>0, <2>3, <2>6 DEF OpctlTypeOK
  <2>9. OpctlTypeOK'
    BY <1>0, <2>2, <2>3, <2>4, <2>5, <2>7, <2>8 DEF OpctlTypeOK, LeaseMoves
  <2>10. \A q \in Procs : lease'[q].pc = "prepare" /\ lease'[q].key # NoKey
                            => keys'[lease'[q].key] = lease'[q].id
    <3>1. CASE lease'[p].pc = "prepare" /\ lease[p].key # NoKey
      <4>1. keys'[lease[p].key] = lease[p].id
        BY <2>3, <2>6, <2>7, <3>1
      <4> QED
        BY <1>0, <2>2, <2>3, <2>7, <4>1 DEF LeaseMoves, LeaseType, Ids, NoId
    <3> QED
      BY <1>0, <2>2, <2>3, <2>7, <3>1 DEF LeaseMoves, LeaseType, Ids, NoId
  <2>11. \A s \in switched' : keys'[s[1]] = s[2]
    <3>1. \A s \in switched : keys'[s[1]] = s[2]
      BY <2>7, <2>8 DEF Ids, NoId
    <3> QED
      BY <2>6, <3>1
  <2> QED
    BY <2>4, <2>9, <2>10, <2>11
<1>4. ASSUME UNCHANGED <<lock, lease, keys, switched>>,
             ops' \in 0..MaxOps, ops <= ops', file' \in RecordType, file'.id <= ops',
             resolver' \in RecordType, resolver'.id <= ops', dirty' \subseteq Ids,
             deploy' \in DeployType, deploy'.pc # "idle" => deploy'.id # NoId
      PROVE  Base'
  <2>1. OpctlTypeOK'
    BY <1>0, <1>4 DEF OpctlTypeOK, LeaseType, Ids, NoId
  <2> QED
    BY <1>0, <1>4, <2>1
<1>5. CASE WriteOff
  BY <1>0, <1>4, <1>5 DEF WriteOff, OpctlTypeOK, RecordType, Phases
<1>6. CASE Begin
  <2>1. ops + 1 \in Ids /\ ops' = ops + 1
    BY <1>0, <1>6 DEF Begin, Ids
  <2> QED
    BY <1>0, <1>4, <1>6, <2>1 DEF Begin, OpctlTypeOK, RecordType, DeployType, Phases, Ids, NoId
<1>7. CASE DeployStep
  <2>1. deploy' \in DeployType /\ (deploy'.pc # "idle" => deploy'.id # NoId)
    BY <1>0, <1>7 DEF DeployStep, DeploySwitching, DeployMigrates, DeployMigrated,
       DeployCommitted, DeployDone, DeployCommandFails, DeployHolds, DeployDies, Advance,
       OpctlTypeOK, DeployType, NoDeploy
  <2>2. UNCHANGED <<lock, lease, keys, switched, resolver>> /\ dirty' \subseteq Ids
    BY <1>0, <1>7 DEF DeployStep, DeploySwitching, DeployMigrates, DeployMigrated,
       DeployCommitted, DeployDone, DeployCommandFails, DeployHolds, DeployDies,
       OpctlTypeOK, DeployType
  <2>3. file' \in RecordType /\ ops' \in 0..MaxOps /\ ops <= ops' /\ file'.id <= ops'
    BY <1>0, <1>7, DeployRecord DEF DeployStep, DeploySwitching, DeployMigrates, DeployMigrated,
       DeployCommitted, DeployDone, DeployCommandFails, DeployHolds, DeployDies, Phases
  <2> QED
    BY <1>0, <1>4, <2>1, <2>2, <2>3 DEF Ids, RecordType, NoId
<1>8. CASE ClaimLapses
  BY <1>0, <1>4, <1>8 DEF ClaimLapses, OpctlTypeOK, RecordType
<1>9. CASE Repair
  BY <1>0, <1>4, <1>9 DEF Repair, OpctlTypeOK
<1>10. CASE ResolveReads
  BY <1>0, <1>4, <1>10 DEF ResolveReads, OpctlTypeOK
<1>11. CASE ResolveWrites
  BY <1>0, <1>4, <1>11 DEF ResolveWrites, OpctlTypeOK, RecordType, NoRecord, Phases, NoId
<1>12. CASE OperatorHolds
  BY <1>0, <1>4, <1>12, DeployRecord DEF OperatorHolds, OpctlTypeOK, RecordType, Ids, NoId
<1>13. CASE UNCHANGED opctlVars
  BY <1>0, <1>13 DEF opctlVars, OpctlTypeOK
<1>14. ASSUME NEW p \in Procs, Operation(p) \/ Crash(p) PROVE Base'
  BY <1>0, <1>2, <1>3, <1>14, ReleaseEnds
<1> QED
  BY <1>1, <1>14, <1>5, <1>6, <1>7, <1>8, <1>9, <1>10, <1>11, <1>12, <1>13 DEF OpctlNext

\* A step of an operation leaves its record and its memory telling the truth.
LEMMA OperationTells ==
  ASSUME OpctlTypeOK, NEW p \in Procs, Tells(p), Operation(p), ~Release(p), Runs(p),
         dirty \subseteq {file.id}
  PROVE  Tells(p)' /\ dirty' \subseteq {file.id}
<1> USE DEF Tells, Changing, Destructive
<1>0. /\ lease[p] \in LeaseType /\ lease[p].phase \in Phases
      /\ file'.id = file.id /\ lease'[p].id = lease[p].id
  BY DEF OpctlTypeOK, LeaseType, Runs, LeaseMoves
<1>1. ASSUME NEW pc \in Pcs, lease' = [lease EXCEPT ![p].pc = pc]
      PROVE  lease'[p].pc = pc /\ lease'[p].phase = lease[p].phase
  BY <1>1, SetPc DEF LeaseMoves
<1>2. ASSUME NEW ok \in Pcs, NEW err \in Pcs, NEW phase \in Phases, Write(p, phase, ok, err)
      PROVE  \/ lease'[p].pc \in {ok, err} /\ lease'[p].phase = phase /\ file'.phase = phase
             \/ lease'[p].pc = err /\ lease'[p].phase \in {phase, lease[p].phase} /\ UNCHANGED file
  BY ONLY OpctlTypeOK, <1>2, WriteCases DEF LeaseMoves, FileMoves
<1> USE DEF Pcs, Phases
<1>3. CASE CheckKey(p)
  BY <1>0, <1>1, <1>3 DEF CheckKey
<1>4. CASE Prepare(p)
  BY <1>0, <1>1, <1>2, <1>4, ZenonT(60) DEF Prepare
<1>5. CASE Backup(p)
  BY <1>0, <1>1, <1>2, <1>5 DEF Backup
<1>6. CASE Switching(p)
  BY <1>0, <1>2, <1>6, ZenonT(60) DEF Switching
<1>7. CASE SwitchRefused(p)
  BY <1>0, <1>1, <1>7 DEF SwitchRefused, AfterFailure
<1>8. CASE Touch(p)
  BY <1>0, <1>1, <1>8 DEF Touch
<1>9. CASE SwitchUndone(p)
  BY <1>0, <1>1, <1>9 DEF SwitchUndone, AfterFailure
<1>10. CASE SwitchFails(p)
  BY <1>0, <1>1, <1>10 DEF SwitchFails
<1>11. CASE Switched(p)
  BY <1>0, <1>1, <1>2, <1>11, ZenonT(60) DEF Switched
<1>12. CASE Complete(p)
  BY <1>0, <1>1, <1>12 DEF Complete
<1>13. CASE Committed(p)
  BY <1>0, <1>2, <1>13 DEF Committed
<1>14. CASE Fail(p)
  BY <1>0, <1>2, <1>14 DEF Fail
<1> QED
  BY <1>3, <1>4, <1>5, <1>6, <1>7, <1>8, <1>9, <1>10, <1>11, <1>12, <1>13, <1>14 DEF Operation

\* Under the operator's discipline every step keeps the record true to what the
\* processes, the deploy script and the resolve command are doing.
LEMMA NextIInv ==
  ASSUME Careful, IInv, [OpctlNext]_opctlVars
  PROVE  IInv'
<1>0. /\ Base /\ Base' /\ OpctlTypeOK /\ LockOK /\ LeaseOK /\ DeployOK /\ ResolverOK
      /\ dirty \subseteq {file.id} /\ (dirty # {} => Destructive(file.phase))
      /\ file \in RecordType /\ lease \in [Procs -> LeaseType] /\ resolver \in RecordType
  BY NextBase DEF IInv, Base, HalfChangedIsRecorded, OpctlTypeOK
<1>1. "race" \notin OperatorMay /\ "resolveLive" \notin OperatorMay
  BY DEF Careful
<1> DEFINE Settled == LeaseOK' /\ DeployOK' /\ ResolverOK' /\ HalfChangedIsRecorded'
<1> SUFFICES Settled
  BY <1>0 DEF IInv
<1> USE DEF Destructive, Resolved
<1>2. ASSUME NEW p \in Procs, lease[p].pc # "idle"
      PROVE  /\ lock = p /\ Tells(p) /\ resolver = NoRecord
             /\ deploy.pc \notin {"gate", "migrating", "migrated"}
             /\ \A q \in Procs : q # p => lease[q].pc = "idle"
  BY <1>0, <1>2, ProcsAssumption DEF LockOK, LeaseOK, DeployOK, ResolverOK
<1>3. ASSUME NEW p \in Procs, Operation(p), ~Release(p) PROVE Settled
  <2>1. Runs(p)
    BY <1>0, <1>3, OperationRuns
  <2>2. lease[p].pc # "idle" /\ UNCHANGED <<lock, deploy, resolver>>
    BY <2>1 DEF Runs
  <2>3. Tells(p)' /\ dirty' \subseteq {file.id} /\ file'.id = file.id
    BY <1>0, <1>2, <1>3, <2>1, <2>2, OperationTells DEF Runs
  <2>4. \A q \in Procs : q # p => lease'[q].pc = "idle"
    BY <1>2, <2>1, <2>2 DEF Runs, LeaseMoves
  <2>5. LeaseOK'
    BY <2>3, <2>4 DEF LeaseOK
  <2>6. DeployOK' /\ ResolverOK'
    BY <1>2, <2>2 DEF DeployOK, ResolverOK
  <2>7. HalfChangedIsRecorded'
    BY <2>3 DEF HalfChangedIsRecorded, Tells
  <2> QED
    BY <2>5, <2>6, <2>7
<1>4. ASSUME NEW p \in Procs, Release(p) \/ Crash(p) PROVE Settled
  <2>1. Ends(p)
    BY <1>0, <1>4, ReleaseEnds
  <2>2. \A q \in Procs : lease'[q].pc = "idle"
    BY <1>0, <1>2, <2>1 DEF Ends, NoLease
  <2>3. LeaseOK' /\ DeployOK' /\ ResolverOK'
    BY <1>2, <2>1, <2>2 DEF Ends, LeaseOK, DeployOK, ResolverOK
  <2>4. lease[p].pc = "release" => (dirty # {} => Destructive(lease[p].phase))
    BY <1>2 DEF Tells
  <2>5. dirty # {} => Destructive(file'.phase)
    <3>1. CASE Crash(p)
      BY <1>0, <3>1 DEF Crash
    <3>2. CASE Release(p)
      BY <1>0, <2>4, <3>2 DEF Release, ReleaseAs, RecordType
    <3> QED
      BY <1>4, <3>1, <3>2
  <2>6. HalfChangedIsRecorded'
    BY <1>0, <2>1, <2>5 DEF Ends, HalfChangedIsRecorded
  <2> QED
    BY <2>3, <2>6
<1>5. ASSUME MayOpen PROVE dirty = {} /\ deploy.pc \notin {"gate", "migrating", "migrated"}
  BY <1>0, <1>5 DEF MayOpen, DeployOK
<1>6. ASSUME NEW p \in Procs, NEW kind \in {"backup", "restore", "promote"},
             NEW key \in Keys \cup {NoKey}, Acquire(p, kind, key)
      PROVE  Settled
  <2>1. /\ lock = Free /\ resolver = NoRecord /\ dirty = {}
        /\ deploy.pc \notin {"gate", "migrating", "migrated"}
        /\ UNCHANGED <<deploy, resolver, dirty>>
    BY <1>1, <1>5, <1>6 DEF Acquire, NoResolveUnderWay
  <2>2. /\ \A q \in Procs : q # p => lease'[q].pc = "idle"
        /\ lease'[p].pc = "opened" /\ file'.id = lease'[p].id
    BY <1>0, <1>2, <1>6, <2>1, AcquireMoves, ProcsAssumption
  <2> QED
    BY <2>1, <2>2 DEF LeaseOK, Tells, Changing, DeployOK, ResolverOK, HalfChangedIsRecorded
<1>7. ASSUME lock = Free, UNCHANGED lease PROVE LeaseOK'
  BY <1>2, <1>7, ProcsAssumption DEF LeaseOK
<1>8. CASE WriteOff
  <2>1. /\ lock = Free /\ resolver = NoRecord /\ dirty = {}
        /\ deploy.pc \notin {"gate", "migrating", "migrated"}
        /\ UNCHANGED <<lease, deploy, resolver, dirty>>
    BY <1>1, <1>5, <1>8 DEF WriteOff, NoResolveUnderWay
  <2> QED
    BY <1>7, <2>1 DEF DeployOK, ResolverOK, HalfChangedIsRecorded
<1>9. CASE Begin
  <2>1. /\ lock = Free /\ resolver = NoRecord /\ dirty = {} /\ deploy'.pc = "begun"
        /\ UNCHANGED <<lease, resolver, dirty>>
    BY <1>1, <1>5, <1>9 DEF Begin, NoResolveUnderWay
  <2> QED
    BY <1>7, <2>1 DEF DeployOK, ResolverOK, HalfChangedIsRecorded
<1>10. ASSUME NEW phase \in Phases, NEW pc, Advance(phase, pc), deploy.pc # "idle"
       PROVE  /\ lock = Free /\ file'.id = file.id /\ file'.phase = phase
              /\ resolver = NoRecord /\ file.id = deploy.id
              /\ (~Destructive(file.phase) => dirty = {})
              /\ deploy' = [deploy EXCEPT !.pc = pc]
  BY <1>0, <1>10, DeployRecord DEF Advance, ResolverOK
<1>11. CASE DeploySwitching
  <2>1. /\ deploy.pc = "begun" /\ lock = Free /\ file'.id = file.id /\ file'.phase = "SWITCHING"
        /\ resolver = NoRecord /\ file.id = deploy.id /\ deploy' = [deploy EXCEPT !.pc = "gate"]
        /\ UNCHANGED <<lock, lease, resolver, dirty>>
    BY <1>10, <1>11 DEF DeploySwitching, Phases
  <2>2. deploy \in DeployType
    BY <1>0 DEF OpctlTypeOK
  <2> QED
    BY <1>0, <1>7, <2>1, <2>2 DEF DeployType, DeployOK, ResolverOK, HalfChangedIsRecorded
<1>12. CASE DeployMigrates
  <2>1. /\ deploy.pc = "gate" /\ lock = Free /\ file.id = deploy.id /\ Destructive(file.phase)
        /\ resolver = NoRecord
    BY <1>0, <1>12 DEF DeployMigrates, DeployOK, ResolverOK
  <2>2. /\ deploy'.pc = "migrating" /\ deploy'.id = deploy.id /\ dirty' = dirty \cup {deploy.id}
        /\ UNCHANGED <<file, lock, lease, resolver>>
    BY <1>0, <1>12 DEF DeployMigrates, OpctlTypeOK, DeployType
  <2> QED
    BY <1>0, <1>7, <2>1, <2>2 DEF DeployOK, ResolverOK, HalfChangedIsRecorded
<1>13. CASE DeployMigrated
  <2>1. /\ deploy.pc = "migrating" /\ lock = Free /\ file.id = deploy.id /\ Destructive(file.phase)
        /\ resolver = NoRecord
    BY <1>0, <1>13 DEF DeployMigrated, DeployOK, ResolverOK
  <2>2. /\ deploy'.pc = "migrated" /\ deploy'.id = deploy.id /\ dirty' = dirty \ {deploy.id}
        /\ UNCHANGED <<file, lock, lease, resolver>>
    BY <1>0, <1>13 DEF DeployMigrated, OpctlTypeOK, DeployType
  <2> QED
    BY <1>0, <1>7, <2>1, <2>2 DEF DeployOK, ResolverOK, HalfChangedIsRecorded
<1>14. CASE DeployCommitted
  <2>1. /\ deploy.pc = "migrated" /\ lock = Free /\ resolver = NoRecord
        /\ deploy' = [deploy EXCEPT !.pc = "deployed"] /\ UNCHANGED <<lock, lease, resolver, dirty>>
    BY <1>10, <1>14 DEF DeployCommitted, Phases
  <2>2. deploy \in DeployType /\ dirty = {}
    BY <1>0, <2>1 DEF OpctlTypeOK, DeployOK
  <2> QED
    BY <1>0, <1>7, <2>1, <2>2 DEF DeployType, DeployOK, ResolverOK, HalfChangedIsRecorded
<1>15. ASSUME UNCHANGED <<file, lock, lease, resolver, dirty>>,
              deploy'.pc \notin {"gate", "migrating", "migrated"},
              deploy'.pc # "idle" => deploy.pc # "idle" /\ deploy'.id = deploy.id
       PROVE  Settled
  BY <1>0, <1>15 DEF LeaseOK, Tells, Changing, DeployOK, ResolverOK, HalfChangedIsRecorded, IInv
<1>16. CASE DeployDone \/ DeployDies
  BY <1>15, <1>16 DEF DeployDone, DeployDies, NoDeploy
<1>17. CASE DeployCommandFails
  BY <1>0, <1>15, <1>17 DEF DeployCommandFails, OpctlTypeOK, DeployType
<1>18. ASSUME Hold
       PROVE  /\ lock = Free /\ file'.phase = "RECOVERY_REQUIRED"
              /\ \/ file'.id = file.id
                 \/ /\ dirty = {} /\ resolver = NoRecord
                    /\ deploy.pc \notin {"gate", "migrating", "migrated"}
  BY <1>0, <1>18, DeployRecord DEF Hold, DeployOK, ResolverOK
<1>19. CASE DeployHolds
  <2>1. deploy' = NoDeploy /\ resolver = NoRecord /\ UNCHANGED <<lock, lease, resolver, dirty>>
    BY <1>1, <1>19 DEF DeployHolds, NoResolveUnderWay
  <2> QED
    BY <1>0, <1>7, <1>18, <1>19, <2>1
       DEF DeployHolds, NoDeploy, DeployOK, ResolverOK, HalfChangedIsRecorded
<1>20. CASE OperatorHolds
  <2>1. UNCHANGED <<lock, lease, deploy, resolver, dirty>> /\ Hold
    BY <1>20 DEF OperatorHolds
  <2> QED
    BY <1>0, <1>7, <1>18, <2>1 DEF DeployOK, ResolverOK, HalfChangedIsRecorded
<1>21. CASE ClaimLapses
  <2>1. file'.id = file.id /\ file'.phase = file.phase
        /\ UNCHANGED <<lock, lease, deploy, resolver, dirty>>
    BY <1>0, <1>21 DEF ClaimLapses, RecordType
  <2> QED
    BY <1>0, <2>1 DEF LeaseOK, Tells, Changing, DeployOK, ResolverOK, HalfChangedIsRecorded
<1>22. CASE Repair
  <2>1. lock = Free /\ dirty' = {} /\ UNCHANGED <<file, lock, lease, deploy, resolver>>
    BY <1>0, <1>22 DEF Repair
  <2> QED
    BY <1>0, <1>7, <2>1 DEF DeployOK, ResolverOK, HalfChangedIsRecorded
<1>23. CASE ResolveReads
  <2>1. /\ lock = Free /\ ~Resolved(file.phase) /\ dirty = {} /\ deploy.id # file.id
        /\ resolver' = file /\ UNCHANGED <<file, lock, lease, deploy, dirty>>
    BY <1>0, <1>1, <1>23 DEF ResolveReads
  <2> QED
    BY <1>0, <1>7, <2>1 DEF DeployOK, ResolverOK, HalfChangedIsRecorded
<1>24. CASE ResolveWrites
  <2>1. /\ lock = Free /\ dirty = {} /\ deploy.pc \notin {"gate", "migrating", "migrated"}
        /\ resolver' = NoRecord /\ UNCHANGED <<lock, lease, deploy, dirty>>
    BY <1>0, <1>24 DEF ResolveWrites, ResolverOK, DeployOK
  <2> QED
    BY <1>7, <2>1 DEF DeployOK, ResolverOK, HalfChangedIsRecorded
<1>25. CASE UNCHANGED opctlVars
  BY <1>0, <1>25
     DEF opctlVars, LeaseOK, Tells, Changing, DeployOK, ResolverOK, HalfChangedIsRecorded
<1>26. ASSUME NEW p \in Procs, Operation(p) \/ Crash(p) PROVE Settled
  BY <1>3, <1>4, <1>26
<1>27. CASE DeployStep
  BY <1>11, <1>12, <1>13, <1>14, <1>16, <1>17, <1>19, <1>27 DEF DeployStep
<1> QED
  BY <1>6, <1>8, <1>9, <1>20, <1>21, <1>22, <1>23, <1>24, <1>25, <1>26, <1>27 DEF OpctlNext

\* In every run the types, the ids, the lock's owner and the keys are right.
LEMMA SpecBase == OpctlSpec => []Base
<1>1. OpctlInit => Base
  BY InitIInv DEF IInv
<1> QED
  BY <1>1, NextBase, PTL DEF OpctlSpec

\* In every run under the operator's discipline the invariant holds.
LEMMA SpecIInv == ASSUME Careful PROVE OpctlSpec => []IInv
<1>1. IInv /\ [OpctlNext]_opctlVars => IInv'
  BY NextIInv
<1> QED
  BY <1>1, InitIInv, PTL DEF OpctlSpec

\* The record, the lock, the leases and the ids stay in their types, whatever is
\* started, crashes, expires or is resolved (Record, opctl.go; Lease, lease.go).
THEOREM OpctlTypeCorrect == OpctlSpec => []OpctlTypeOK
<1>1. Base => OpctlTypeOK
  BY DEF Base
<1> QED
  BY <1>1, SpecBase, PTL

\* Whatever the operator does, a repeated Idempotency-Key never reaches a second
\* switch: RememberKey files the operation under the key before anything is
\* prepared, and no crash unfiles it (restore, system.go; RememberKey, opctl.go).
THEOREM KeysSwitchOnce == OpctlSpec => []KeySwitchesOnce
<1>1. Base => KeySwitchesOnce
  <2> SUFFICES ASSUME Base, NEW s \in switched, NEW t \in switched, s[1] = t[1]
               PROVE  s = t
    BY DEF KeySwitchesOnce
  <2>1. s \in Keys \X Ids /\ t \in Keys \X Ids /\ s[2] = t[2]
    BY DEF Base, OpctlTypeOK, KeysOK
  <2> QED
    BY <2>1
<1> QED
  BY <1>1, SpecBase, PTL

\* Two processes never have an operation at the same time, whatever the operator
\* does: the lock is taken before the record is opened and dies with its holder
\* (Acquire and Release, lease.go).
OneOperation == \A p, q \in Procs : lease[p].pc # "idle" /\ lease[q].pc # "idle" => p = q
\* It holds whoever starts, crashes or resolves.
THEOREM OneOperationAtATime == OpctlSpec => []OneOperation
<1>1. Base => OneOperation
  BY DEF Base, LockOK, OneOperation
<1> QED
  BY <1>1, SpecBase, PTL

\* When the operator does not race a start against a resolve and resolves no live
\* operation, whatever else happens: an installation changed half way keeps the
\* record that holds it out of service, one operation changes it at a time, a
\* running deploy keeps its record, and a key switches once.
THEOREM OperationsSafe == Careful => (OpctlSpec => []OperationsAreSafe)
<1> SUFFICES ASSUME Careful PROVE OpctlSpec => []OperationsAreSafe
  OBVIOUS
<1>1. IInv => OperationsAreSafe
  <2> SUFFICES ASSUME IInv PROVE OperationsAreSafe
    OBVIOUS
  <2>1. LockOK /\ LeaseOK /\ DeployOK /\ HalfChangedIsRecorded
    BY DEF IInv, Base
  <2>2. OneChanger
    BY <2>1, ProcsAssumption DEF LockOK, DeployOK, OneChanger, Changing, Migrating
  <2>3. RunningIsNotResolved
    BY <2>1 DEF DeployOK, RunningIsNotResolved, Destructive, Resolved
  <2>4. KeySwitchesOnce
    <3> SUFFICES ASSUME NEW s \in switched, NEW t \in switched, s[1] = t[1]
                 PROVE  s = t
      BY DEF KeySwitchesOnce
    <3>1. s \in Keys \X Ids /\ t \in Keys \X Ids /\ s[2] = t[2]
      BY DEF IInv, Base, OpctlTypeOK, KeysOK
    <3> QED
      BY <3>1
  <2> QED
    BY <2>1, <2>2, <2>3, <2>4 DEF OperationsAreSafe
<1> QED
  BY <1>1, SpecIInv, PTL

HIDE ProcsAssumption
HIDE KeysAssumption
HIDE MaxOpsAssumption
HIDE OperatorAssumption

-----------------------------------------------------------------------------
(* Backups.  The barrier carries the archive.  A request between its file and  *)
(* its answer is in the shared lock, a backup that pins holds the lock alone,  *)
(* so nothing is stored and no row is committed until the storage tree has     *)
(* been walked; from then on the backup only works on what it pinned.          *)

\* A request that has begun to write holds the barrier.
Writing(w) == writer[w] \in {"put", "insert", "undo", "respond"}
SharedOK == \A w \in Writers : Writing(w) => w \in shared

\* A file in the tree was put there by a request that came that far.
StoredOK == \A w \in stored : writer[w] \in {"insert", "undo", "respond", "done"}

\* The backup holds the barrier while it pins, and works on what it pinned.
PinnedOK ==
    /\ backup.pc \in {"snapshot", "walk"} => barrier = "held"
    /\ backup.pc \in {"idle", "barrier", "snapshot"} =>
        backup.linked = {} /\ backup.skipped = {} /\ backup.seen = {}
    /\ backup.pc = "walk" =>
        /\ pinned = [rows |-> rows, stored |-> stored]
        /\ backup.linked \cup backup.skipped = backup.seen \cap stored
    /\ backup.pc \in {"walk", "dump", "verify"} => backup.snapshot = pinned.rows
    /\ backup.pc \in {"dump", "verify"} => backup.linked \cup backup.skipped = pinned.stored
    /\ backup.pc = "verify" => backup.dumped = pinned.rows

\* An archive that must be complete skips nothing.
CompleteOK == \A n \in 1..MaxBackups : published[n].exists /\ RequireComplete => published[n].skipped = {}

ArchiveInv == BackupTypeOK /\ SharedOK /\ StoredOK /\ PinnedOK /\ CompleteOK /\ OneInstant

USE MaxBackupsAssumption, RequireCompleteAssumption

\* The three parts of ArchiveIsWhole follow.
LEMMA ArchiveParts == ArchiveInv => ArchiveIsWhole
<1> SUFFICES ASSUME ArchiveInv PROVE ArchiveIsWhole
  OBVIOUS
<1>1. NothingMissing
  <2> SUFFICES ASSUME NEW n \in 1..MaxBackups, published[n].exists
               PROVE  (published[n].rows \cap published[n].pinned.stored) \ published[n].stored
                        \subseteq (IF RequireComplete THEN {} ELSE published[n].skipped)
    BY DEF NothingMissing, Archives
  <2>1. published[n].stored \cup published[n].skipped = published[n].pinned.stored
    BY DEF ArchiveInv, OneInstant, Archives
  <2>2. RequireComplete => published[n].skipped = {}
    BY DEF ArchiveInv, CompleteOK
  <2> QED
    BY <2>1, <2>2
<1>2. PinnedBetweenRequests
  <2> SUFFICES ASSUME backup.pc = "walk", NEW w \in pinned.stored \ pinned.rows
               PROVE  writer[w] = "done"
    BY DEF PinnedBetweenRequests
  <2>1. w \in stored /\ w \in Writers /\ shared = {}
    BY DEF ArchiveInv, PinnedOK, BackupTypeOK
  <2> QED
    BY <2>1 DEF ArchiveInv, StoredOK, SharedOK, Writing
<1> QED
  BY <1>1, <1>2 DEF ArchiveInv, ArchiveIsWhole

\* Nothing is stored, pinned or published at the start.
LEMMA InitArchiveInv == BackupInit => ArchiveInv
<1> SUFFICES ASSUME BackupInit PROVE ArchiveInv
  OBVIOUS
<1> USE DEF BackupInit, NoBackup, NoArchive, Nothing
<1>1. BackupTypeOK
  BY DEF BackupTypeOK
<1>2. SharedOK /\ StoredOK /\ PinnedOK
  BY DEF SharedOK, Writing, StoredOK, PinnedOK
<1>3. CompleteOK /\ OneInstant
  BY DEF CompleteOK, OneInstant, Archives
<1> QED
  BY <1>1, <1>2, <1>3 DEF ArchiveInv

BackupRecord == [pc: {"idle", "barrier", "snapshot", "walk", "dump", "verify"},
                 snapshot: SUBSET Writers, seen: SUBSET Writers, linked: SUBSET Writers,
                 skipped: SUBSET Writers, dumped: SUBSET Writers]

\* A step of a request leaves the backup and its archives alone; while the
\* backup pins, it changes no file and no row.
LEMMA WriterArchiveInv ==
  ASSUME ArchiveInv, NEW w \in Writers, Request(w) \/ WriterStep(w) \/ RequestDies(w)
  PROVE  ArchiveInv'
<1> USE DEF Goes
<1>0. /\ rows \subseteq Writers /\ stored \subseteq Writers /\ shared \subseteq Writers
      /\ writer \in [Writers -> {"new", "asking", "put", "insert", "undo", "respond", "done"}]
      /\ SharedOK /\ StoredOK /\ PinnedOK /\ (barrier = "held" => shared = {})
  BY DEF ArchiveInv, BackupTypeOK
<1>1. UNCHANGED <<barrier, backup, taken, published, pinned>>
  BY DEF Request, WriterStep, AcquireWriteBarrier, Put, Commit, UndoUpload, ReleaseWriteBarrier,
     RequestDies
<1>2. /\ rows' \subseteq Writers /\ stored' \subseteq Writers /\ shared' \subseteq Writers
      /\ writer' \in [Writers -> {"new", "asking", "put", "insert", "undo", "respond", "done"}]
      /\ \A v \in Writers : v # w => writer'[v] = writer[v] /\ (v \in shared' <=> v \in shared)
                                     /\ (v \in stored' <=> v \in stored)
  BY <1>0 DEF Request, WriterStep, AcquireWriteBarrier, Put, Commit, UndoUpload,
     ReleaseWriteBarrier, RequestDies
<1>3. /\ Writing(w)' => w \in shared'
      /\ w \in stored' => writer'[w] \in {"insert", "undo", "respond", "done"}
      /\ barrier = "held" => shared' = {} /\ UNCHANGED <<rows, stored>>
  <2>1. CASE Request(w)
    BY <1>0, <2>1 DEF Request, Writing, StoredOK, SharedOK
  <2>2. CASE AcquireWriteBarrier(w)
    BY <1>0, <2>2 DEF AcquireWriteBarrier, Writing, StoredOK, SharedOK
  <2>3. CASE Put(w)
    BY <1>0, <2>3 DEF Put, Writing, StoredOK, SharedOK
  <2>4. CASE Commit(w)
    BY <1>0, <2>4 DEF Commit, Writing, StoredOK, SharedOK
  <2>5. CASE UndoUpload(w)
    BY <1>0, <2>5 DEF UndoUpload, Writing, StoredOK, SharedOK
  <2>6. CASE ReleaseWriteBarrier(w)
    BY <1>0, <2>6 DEF ReleaseWriteBarrier, Writing, StoredOK, SharedOK
  <2>7. CASE RequestDies(w)
    BY <1>0, <2>7 DEF RequestDies, Writing, StoredOK, SharedOK
  <2> QED
    BY <2>1, <2>2, <2>3, <2>4, <2>5, <2>6, <2>7 DEF WriterStep
<1>4. BackupTypeOK'
  BY <1>1, <1>2, <1>3 DEF ArchiveInv, BackupTypeOK
<1>5. SharedOK' /\ StoredOK'
  BY <1>0, <1>2, <1>3 DEF SharedOK, StoredOK, Writing
<1>6. PinnedOK'
  BY <1>0, <1>1, <1>3 DEF PinnedOK
<1>7. CompleteOK' /\ OneInstant'
  BY <1>1 DEF ArchiveInv, CompleteOK, OneInstant, Archives
<1> QED
  BY <1>4, <1>5, <1>6, <1>7 DEF ArchiveInv

\* A step of the backup changes no file, no row and no request.
LEMMA BackupArchiveInv ==
  ASSUME ArchiveInv, BeginBackup \/ BackupStep
  PROVE  ArchiveInv'
<1>0. /\ backup \in BackupRecord /\ PinnedOK /\ OneInstant /\ CompleteOK
      /\ rows \subseteq Writers /\ stored \subseteq Writers /\ shared \subseteq Writers
      /\ taken \in 0..MaxBackups /\ pinned \in [rows: SUBSET Writers, stored: SUBSET Writers]
      /\ (barrier = "held" => shared = {})
  BY DEF ArchiveInv, BackupTypeOK, BackupRecord
<1>1. UNCHANGED <<rows, stored, shared, writer>>
  BY DEF BeginBackup, BackupStep, TakeBarrier, Snapshot, Link, ReleaseBarrier, Dump, Publish, Abort
<1>2. SharedOK' /\ StoredOK'
  BY <1>1 DEF ArchiveInv, SharedOK, StoredOK, Writing
<1>3. ASSUME barrier' \in {"none", "waiting", "held"}, barrier' = "held" => shared = {},
             backup' \in BackupRecord, taken' \in 0..MaxBackups,
             pinned' \in [rows: SUBSET Writers, stored: SUBSET Writers],
             UNCHANGED published, PinnedOK'
      PROVE  ArchiveInv'
  <2>1. BackupTypeOK'
    BY <1>1, <1>3 DEF ArchiveInv, BackupTypeOK, BackupRecord
  <2>2. CompleteOK' /\ OneInstant'
    BY <1>0, <1>3 DEF CompleteOK, OneInstant, Archives
  <2> QED
    BY <1>2, <1>3, <2>1, <2>2 DEF ArchiveInv
<1>4. CASE BeginBackup
  BY <1>0, <1>1, <1>3, <1>4 DEF BeginBackup, BackupRecord, PinnedOK
<1>5. CASE TakeBarrier
  BY <1>0, <1>1, <1>3, <1>5 DEF TakeBarrier, BackupRecord, PinnedOK
<1>6. CASE Snapshot
  BY <1>0, <1>1, <1>3, <1>6 DEF Snapshot, BackupRecord, PinnedOK
<1>7. ASSUME NEW d \in Writers, Link(d) PROVE ArchiveInv'
  <2>1. /\ backup.pc = "walk" /\ backup'.pc = "walk" /\ backup' \in BackupRecord
        /\ backup'.snapshot = backup.snapshot /\ backup'.seen = backup.seen \cup {d}
        /\ backup'.linked \cup backup'.skipped =
              backup.linked \cup backup.skipped \cup ({d} \cap stored)
        /\ UNCHANGED <<barrier, taken, published, pinned>>
    <3> USE DEF BackupRecord
    <3>1. CASE d \in stored /\ backup' = [backup EXCEPT !.seen = @ \cup {d}, !.linked = @ \cup {d}]
      BY <1>0, <1>7, <3>1, ZenonT(60) DEF Link
    <3>2. CASE d \in stored /\ backup' = [backup EXCEPT !.seen = @ \cup {d}, !.skipped = @ \cup {d}]
      BY <1>0, <1>7, <3>2, ZenonT(60) DEF Link
    <3>3. CASE d \notin stored /\ backup' = [backup EXCEPT !.seen = @ \cup {d}]
      BY <1>0, <1>7, <3>3 DEF Link
    <3> QED
      BY <1>7, <3>1, <3>2, <3>3 DEF Link
  <2>2. PinnedOK'
    BY <1>0, <1>1, <2>1 DEF PinnedOK
  <2> QED
    BY <1>0, <1>3, <2>1, <2>2, ArchiveInv DEF ArchiveInv, BackupTypeOK
<1>8. CASE ReleaseBarrier
  BY <1>0, <1>1, <1>3, <1>8 DEF ReleaseBarrier, BackupRecord, PinnedOK
<1>9. CASE Dump
  <2>1. /\ backup.pc = "dump" /\ backup'.pc = "verify" /\ backup' \in BackupRecord
        /\ backup'.snapshot = backup.snapshot /\ backup'.dumped = backup.snapshot
        /\ backup'.linked = backup.linked /\ backup'.skipped = backup.skipped
        /\ UNCHANGED <<barrier, taken, published, pinned>>
    BY <1>0, <1>9 DEF Dump, BackupRecord
  <2>2. PinnedOK'
    BY <1>0, <1>1, <2>1 DEF PinnedOK
  <2> QED
    BY <1>0, <1>3, <2>1, <2>2, ArchiveInv DEF ArchiveInv, BackupTypeOK
<1>10. CASE Abort
  BY <1>0, <1>1, <1>3, <1>10 DEF Abort, NoBackup, BackupRecord, PinnedOK
<1>11. CASE Publish
  <2>1. PinnedOK'
    BY <1>11 DEF Publish, NoBackup, PinnedOK
  <2>2. \A n \in 1..MaxBackups : published'[n] =
          IF n = taken
          THEN [exists |-> TRUE, rows |-> backup.dumped, stored |-> backup.linked,
                skipped |-> backup.skipped, pinned |-> pinned]
          ELSE published[n]
    BY <1>11 DEF Publish, ArchiveInv, BackupTypeOK
  <2>3. BackupTypeOK'
    BY <1>0, <1>1, <1>11 DEF Publish, NoBackup, ArchiveInv, BackupTypeOK, BackupRecord
  <2>4. CompleteOK'
    BY <1>0, <1>11, <2>2 DEF Publish, MayPublish, IsComplete, CompleteOK
  <2>5. OneInstant'
    <3> SUFFICES ASSUME NEW n \in 1..MaxBackups, published'[n].exists
                 PROVE  /\ published'[n].rows = published'[n].pinned.rows
                        /\ published'[n].stored \cup published'[n].skipped
                             = published'[n].pinned.stored
      BY DEF OneInstant, Archives
    <3>1. CASE n = taken
      BY <1>0, <1>11, <2>2, <3>1 DEF Publish, PinnedOK
    <3>2. CASE n # taken
      BY <1>0, <2>2, <3>2 DEF OneInstant, Archives
    <3> QED
      BY <3>1, <3>2
  <2> QED
    BY <1>2, <2>1, <2>3, <2>4, <2>5 DEF ArchiveInv
<1> QED
  BY <1>4, <1>5, <1>6, <1>7, <1>8, <1>9, <1>10, <1>11 DEF BackupStep

\* The inductive invariant holds throughout.
LEMMA SpecArchiveInv == BackupSpec => []ArchiveInv
<1>1. ArchiveInv /\ [BackupNext]_backupVars => ArchiveInv'
  <2> SUFFICES ASSUME ArchiveInv, [BackupNext]_backupVars PROVE ArchiveInv'
    OBVIOUS
  <2>1. CASE BackupNext
    BY <2>1, WriterArchiveInv, BackupArchiveInv DEF BackupNext
  <2>2. CASE UNCHANGED backupVars
    BY <2>2 DEF backupVars, ArchiveInv, BackupTypeOK, SharedOK, Writing, StoredOK, PinnedOK, CompleteOK,
       OneInstant, Archives
  <2> QED
    BY <2>1, <2>2
<1> QED
  BY <1>1, InitArchiveInv, PTL DEF BackupSpec

\* The barrier is never shared and held at once.
THEOREM BackupTypeCorrect == BackupSpec => []BackupTypeOK
<1>1. ArchiveInv => BackupTypeOK
  BY DEF ArchiveInv
<1> QED
  BY <1>1, SpecArchiveInv, PTL

\* An archive that may be restored from is the installation at one instant,
\* taken between the requests, with nothing missing (Engine.Create, Publish).
THEOREM EveryArchiveIsWhole == BackupSpec => []ArchiveIsWhole
BY ArchiveParts, SpecArchiveInv, PTL

-----------------------------------------------------------------------------
(* The showcase company.  A rebuild past the lock holds it, so there is one;   *)
(* and unless a first build is under way beside it, nobody else purges,        *)
(* provisions or seeds.  A builder that seeds its part k therefore finds the   *)
(* parts before it in place, and one that purges has taken the word READY off  *)
(* the row.                                                                    *)

USE DemoAssumption

Places == {"idle", "down", "check", "lock", "mark", "purge", "provision", "seed", "ready"}
DemoRowType == [status: {"none", "READY", "RESETTING"}, due: {"null", "future", "past"},
            last: {"null", "recent", "old"}]
BuilderType == [job: {"none", "ensure", "reset"}, at: Places, part: 0..SeedParts]

DemoTypeOK ==
    /\ demoRow \in DemoRowType
    /\ demoCompany \in [exists: BOOLEAN, parts: SUBSET AllParts]
    /\ resetLock \in Builders \cup {"none"}
    /\ builder \in [Builders -> BuilderType]
    /\ crossed \in BOOLEAN
    /\ demoRow.status = "none" => demoRow.last = "null"

\* What a builder's place says about its job, its part and the lock.
PlaceOK(b) ==
    /\ builder[b].at \in {"idle", "down"} <=> builder[b].job = "none"
    /\ builder[b].at = "check" => builder[b].job = "ensure"
    /\ builder[b].at \in {"lock", "mark", "purge"} => builder[b].job = "reset"
    /\ builder[b].at \in {"check", "lock", "mark", "purge", "provision"} => builder[b].part = 1
    /\ builder[b].at \in {"seed", "ready"} => builder[b].part \in AllParts
    /\ Resetting(b) => resetLock = b

\* A first build past its look for the company.
Building(b) == builder[b].job = "ensure" /\ builder[b].at # "check"
CrossedOK == \A x, y \in Builders : Building(x) /\ Resetting(y) => crossed

\* What a builder has done so far, if nothing crossed it.
DoneOK(b) ==
    /\ builder[b].at = "purge" => demoRow.status = "RESETTING" \/ crossed
    /\ builder[b].at = "seed" =>
         \/ crossed
         \/ demoCompany.exists /\ \A n \in 1..(builder[b].part - 1) : n \in demoCompany.parts
    /\ builder[b].at = "ready" => DemoWhole \/ crossed

\* The second half of DemoIsWhole.
ReadyOK == demoRow.status = "READY" /\ demoRow.last # "null" => DemoWhole \/ crossed

DemoInv == DemoTypeOK /\ (\A b \in Builders : PlaceOK(b) /\ DoneOK(b)) /\ CrossedOK /\ ReadyOK

\* No two rebuilds overlap, and a row that reports a build names a whole company.
LEMMA DemoInvImplies == DemoInv => DemoIsWhole
<1> SUFFICES ASSUME DemoInv PROVE Cardinality({b \in Builders : Resetting(b)}) <= 1
  BY DEF DemoInv, ReadyOK, DemoIsWhole
<1> DEFINE S == {b \in Builders : Resetting(b)}
<1>1. \A x, y \in S : x = y
  BY DEF DemoInv, PlaceOK
<1>2. CASE S = {}
  BY <1>2, FS_EmptySet
<1>3. CASE S # {}
  <2>1. PICK x \in S : S = {x}
    BY <1>1, <1>3
  <2> QED
    BY <2>1, FS_Singleton
<1> QED
  BY <1>2, <1>3

\* At the start there is neither a row nor a company, and nobody builds.
LEMMA InitDemoInv == DemoInit => DemoInv
<1> SUFFICES ASSUME DemoInit PROVE DemoInv
  OBVIOUS
<1> USE DEF DemoInit, NoCompany, Idle, Down, Builders
<1>1. DemoTypeOK
  <2>1. Idle \in BuilderType /\ Down \in BuilderType
    BY DEF BuilderType, Places
  <2>2. builder \in [Builders -> BuilderType]
    BY <2>1
  <2>3. demoRow \in DemoRowType
    BY DEF DemoRowType
  <2> QED
    BY <2>2, <2>3 DEF DemoTypeOK
<1>2. ASSUME NEW b \in Builders PROVE PlaceOK(b) /\ DoneOK(b) /\ ~Resetting(b)
  BY <1>2 DEF PlaceOK, DoneOK, Resetting
<1>3. CrossedOK /\ ReadyOK
  BY <1>2 DEF CrossedOK, ReadyOK
<1> QED
  BY <1>1, <1>2, <1>3 DEF DemoInv

\* A builder's step leaves the other builders where they are.
Moves(b, step) ==
    /\ builder' = [builder EXCEPT ![b] = step]
    /\ step \in BuilderType

\* A step of a builder changes that builder alone.
LEMMA MovesTo ==
  ASSUME DemoInv, NEW b \in Builders, NEW step, Moves(b, step)
  PROVE  /\ builder' \in [Builders -> BuilderType] /\ builder'[b] = step
         /\ \A x \in Builders : x # b => builder'[x] = builder[x]
BY DEF DemoInv, DemoTypeOK, Moves

\* A builder that only goes to another place keeps its job and its part.
LEMMA GoesTo ==
  ASSUME DemoInv, NEW b \in Builders, NEW at \in Places, GoTo(b, at)
  PROVE  /\ \E step \in BuilderType : Moves(b, step) /\ step.at = at /\ step.job = builder[b].job
                                        /\ step.part = builder[b].part
         /\ crossed' \in BOOLEAN /\ (crossed => crossed')
         /\ \A x, y \in Builders : Building(x)' /\ Resetting(y)' => crossed'
<1> DEFINE step == [builder[b] EXCEPT !.at = at]
<1>1. builder[b] \in BuilderType /\ builder \in [Builders -> BuilderType] /\ crossed \in BOOLEAN
  BY DEF DemoInv, DemoTypeOK
<1>2. /\ step \in BuilderType /\ step.at = at /\ step.job = builder[b].job
      /\ step.part = builder[b].part
  BY ONLY <1>1, at \in Places DEF BuilderType
<1>3. builder' = [builder EXCEPT ![b] = step]
  BY DEF GoTo
<1>4. crossed' \in BOOLEAN /\ (crossed => crossed')
  BY <1>1 DEF GoTo
<1>5. \A x, y \in Builders : Building(x)' /\ Resetting(y)' => crossed'
  BY DEF GoTo, Building, Resetting
<1> HIDE DEF step
<1> QED
  BY <1>2, <1>3, <1>4, <1>5 DEF Moves

\* What is left to show of a builder's step.
LEMMA StepDemoInv ==
  ASSUME DemoInv, NEW b \in Builders, NEW step, Moves(b, step),
         demoRow' \in DemoRowType, demoRow'.status = "none" => demoRow'.last = "null",
         demoCompany' \in [exists: BOOLEAN, parts: SUBSET AllParts],
         resetLock' \in Builders \cup {"none"},
         \A x \in Builders : x # b /\ resetLock = x => resetLock' = x,
         crossed' \in BOOLEAN, PlaceOK(b)', \A x \in Builders : DoneOK(x)', CrossedOK', ReadyOK'
  PROVE  DemoInv'
<1>1. /\ builder' \in [Builders -> BuilderType] /\ builder'[b] = step
      /\ \A x \in Builders : x # b => builder'[x] = builder[x]
  BY MovesTo
<1>2. DemoTypeOK'
  BY <1>1 DEF DemoTypeOK
<1>3. ASSUME NEW x \in Builders PROVE PlaceOK(x)'
  <2>1. CASE x # b
    BY <1>1, <2>1 DEF DemoInv, PlaceOK, Resetting
  <2> QED
    BY <2>1
<1> QED
  BY <1>2, <1>3 DEF DemoInv

\* What the others have done stands when the company only grows and READY does
\* not come to the row.
LEMMA OthersDone ==
  ASSUME DemoInv, NEW b \in Builders, NEW step, Moves(b, step), crossed => crossed',
         demoCompany.exists => demoCompany'.exists /\ demoCompany.parts \subseteq demoCompany'.parts,
         demoCompany'.parts \subseteq AllParts,
         demoRow'.status = demoRow.status \/ demoRow'.status = "RESETTING"
  PROVE  /\ \A x \in Builders : x # b => DoneOK(x)'
         /\ demoRow'.last = demoRow.last => ReadyOK'
<1>1. \A x \in Builders : x # b => builder'[x] = builder[x]
  BY MovesTo
<1>2. DemoWhole => DemoWhole'
  BY DEF DemoWhole
<1>3. \A x \in Builders : DoneOK(x)
  BY DEF DemoInv
<1>4. ASSUME NEW x \in Builders, x # b PROVE DoneOK(x)'
  BY <1>1, <1>2, <1>3, <1>4 DEF DoneOK
<1>5. ASSUME demoRow'.last = demoRow.last PROVE ReadyOK'
  BY <1>2, <1>5 DEF DemoInv, ReadyOK
<1> QED
  BY <1>4, <1>5

\* A job that starts, ends or is interrupted crosses nothing.
LEMMA NotCrossed ==
  ASSUME DemoInv, NEW b \in Builders, NEW step, Moves(b, step), UNCHANGED crossed,
         step.job = "none" \/ step.at \in {"check", "lock"},
         step.at = "check" => step.job = "ensure", step.at = "lock" => step.job = "reset"
  PROVE  CrossedOK'
<1>1. /\ builder'[b] = step /\ \A x \in Builders : x # b => builder'[x] = builder[x]
  BY MovesTo
<1>2. ASSUME NEW x \in Builders, NEW y \in Builders, Building(x)', Resetting(y)' PROVE crossed'
  <2>1. x # b /\ y # b
    BY <1>1, <1>2 DEF Building, Resetting
  <2> QED
    BY <1>1, <1>2, <2>1 DEF DemoInv, CrossedOK, Building, Resetting
<1> QED
  BY <1>2 DEF CrossedOK

\* A job starts at its first step and touches nothing else.
LEMMA JobStarts ==
  ASSUME DemoInv, NEW b \in Builders, NEW job, NEW at, StartJob(b, job, at),
         <<job, at>> \in {<<"ensure", "check">>, <<"reset", "lock">>}
  PROVE  DemoInv'
<1> DEFINE step == [job |-> job, at |-> at, part |-> 1]
<1>1. step \in BuilderType /\ step.job = job /\ step.at = at /\ step.part = 1
  BY DEF BuilderType, Places
<1>2. Moves(b, step) /\ UNCHANGED <<demoRow, demoCompany, resetLock, crossed>>
  BY <1>1 DEF StartJob, Moves
<1>3. builder'[b] = step
  BY <1>2, MovesTo
<1> HIDE DEF step
<1>4. PlaceOK(b)' /\ DoneOK(b)'
  BY <1>1, <1>3 DEF PlaceOK, DoneOK, Resetting
<1>5. CrossedOK'
  BY <1>1, <1>2, NotCrossed
<1>6. (\A x \in Builders : x # b => DoneOK(x)') /\ ReadyOK'
  BY <1>2, OthersDone DEF DemoInv, DemoTypeOK
<1> QED
  BY <1>2, <1>4, <1>5, <1>6, StepDemoInv DEF DemoInv, DemoTypeOK

\* A job that ends, or is interrupted, gives the lock back.
LEMMA JobEnds ==
  ASSUME DemoInv, NEW b \in Builders, NEW step \in {Idle, Down},
         builder' = [builder EXCEPT ![b] = step],
         resetLock' = IF resetLock = b THEN "none" ELSE resetLock,
         UNCHANGED <<demoCompany, crossed>>,
         demoRow' \in DemoRowType, demoRow'.status = "none" => demoRow'.last = "null",
         \A x \in Builders : x # b => DoneOK(x)', ReadyOK'
  PROVE  DemoInv'
<1>1. step \in BuilderType /\ step.job = "none" /\ step.at \in {"idle", "down"}
  BY DEF BuilderType, Places, Idle, Down
<1>2. Moves(b, step)
  BY <1>1 DEF Moves
<1>3. builder'[b] = step
  BY <1>2, MovesTo
<1>4. PlaceOK(b)' /\ DoneOK(b)'
  BY <1>1, <1>3 DEF PlaceOK, DoneOK, Resetting
<1>5. CrossedOK'
  BY <1>1, <1>2, NotCrossed
<1> QED
  BY <1>2, <1>4, <1>5, StepDemoInv DEF DemoInv, DemoTypeOK

\* The same when the row stays.
LEMMA JobFails ==
  ASSUME DemoInv, NEW b \in Builders, NEW step \in {Idle, Down},
         builder' = [builder EXCEPT ![b] = step],
         resetLock' = IF resetLock = b THEN "none" ELSE resetLock,
         UNCHANGED <<demoRow, demoCompany, crossed>>
  PROVE  DemoInv'
<1>1. step \in BuilderType
  BY DEF BuilderType, Places, Idle, Down
<1>2. Moves(b, step)
  BY <1>1 DEF Moves
<1>3. (\A x \in Builders : x # b => DoneOK(x)') /\ ReadyOK'
  BY <1>2, OthersDone DEF DemoInv, DemoTypeOK
<1> QED
  BY <1>3, JobEnds DEF DemoInv, DemoTypeOK

\* Every step of a build keeps the invariant.
LEMMA BuilderDemoInv == ASSUME DemoInv, NEW b \in Builders, BuilderStep(b) PROVE DemoInv'
<1>0. /\ demoRow \in DemoRowType /\ demoCompany \in [exists: BOOLEAN, parts: SUBSET AllParts]
      /\ resetLock \in Builders \cup {"none"} /\ crossed \in BOOLEAN
      /\ builder[b] \in BuilderType /\ PlaceOK(b) /\ CrossedOK
      /\ demoRow.status = "none" => demoRow.last = "null"
      /\ \A x \in Builders : PlaceOK(x) /\ DoneOK(x)
  BY DEF DemoInv, DemoTypeOK
<1>1. ASSUME Finish(b), UNCHANGED <<demoRow, demoCompany>> PROVE DemoInv'
  BY <1>1, JobFails DEF Finish
<1>2. ASSUME NEW at \in Places, GoTo(b, at), at \notin {"purge", "seed", "ready"},
             demoRow' \in DemoRowType, demoRow'.status = "none" => demoRow'.last = "null",
             demoCompany' \in [exists: BOOLEAN, parts: SUBSET AllParts],
             resetLock' \in Builders \cup {"none"},
             \A x \in Builders : x # b /\ resetLock = x => resetLock' = x,
             PlaceOK(b)', \A x \in Builders : x # b => DoneOK(x)', ReadyOK'
      PROVE  DemoInv'
  <2>1. PICK step \in BuilderType : Moves(b, step) /\ step.at = at /\ step.job = builder[b].job
    BY <1>2, GoesTo
  <2>2. crossed' \in BOOLEAN /\ CrossedOK'
    BY <1>2, GoesTo DEF CrossedOK
  <2>3. DoneOK(b)'
    BY <1>2, <2>1, MovesTo DEF DoneOK
  <2> QED
    BY <1>2, <2>1, <2>2, <2>3, StepDemoInv
<1>3. CASE EnsureChecks(b)
  <2>1. CASE ~demoCompany.exists /\ GoTo(b, "provision") /\ UNCHANGED <<demoRow, resetLock, demoCompany>>
    <3>1. PICK step \in BuilderType : Moves(b, step) /\ step.at = "provision"
                                      /\ step.job = builder[b].job /\ step.part = builder[b].part
      BY <2>1, GoesTo DEF Places
    <3>2. (\A x \in Builders : x # b => DoneOK(x)') /\ ReadyOK'
      BY <1>0, <2>1, <3>1, GoesTo, OthersDone DEF Places
    <3>3. PlaceOK(b)'
      BY <1>0, <1>3, <3>1, MovesTo DEF EnsureChecks, PlaceOK, Resetting
    <3> QED
      BY <1>0, <1>2, <2>1, <3>2, <3>3 DEF Places
  <2>2. CASE demoCompany.exists /\ demoRow' = Scheduled /\ Finish(b) /\ UNCHANGED demoCompany
    <3>1. /\ demoRow' \in DemoRowType
          /\ demoRow'.last = demoRow.last
          /\ demoRow'.status = IF demoRow.status = "none" THEN "READY" ELSE demoRow.status
      BY <1>0, <2>2 DEF Scheduled, DemoRowType
    <3>2. ASSUME NEW x \in Builders, x # b PROVE DoneOK(x)'
      <4>1. builder'[x] = builder[x]
        BY <2>2, <3>2 DEF Finish, DemoInv, DemoTypeOK
      <4> QED
        BY <1>0, <2>2, <3>1, <4>1 DEF DoneOK, Finish, DemoWhole
    <3>3. ReadyOK'
      BY <1>0, <2>2, <3>1 DEF DemoInv, ReadyOK, Finish, DemoWhole
    <3>4. demoRow'.status = "none" => demoRow'.last = "null"
      BY <1>0, <3>1
    <3> QED
      BY <2>2, <3>1, <3>2, <3>3, <3>4, JobEnds DEF Finish
  <2> QED
    BY <1>3, <2>1, <2>2 DEF EnsureChecks
<1>4. CASE TakeResetLock(b)
  <2>1. CASE resetLock # "none" /\ Finish(b)
    BY <1>1, <1>4, <2>1 DEF TakeResetLock
  <2>2. CASE resetLock = "none" /\ resetLock' = b /\ GoTo(b, "mark")
    <3>0. UNCHANGED <<demoRow, demoCompany>>
      BY <1>4 DEF TakeResetLock
    <3>1. PICK step \in BuilderType : Moves(b, step) /\ step.at = "mark"
                                      /\ step.job = builder[b].job /\ step.part = builder[b].part
      BY <2>2, GoesTo DEF Places
    <3>2. (\A x \in Builders : x # b => DoneOK(x)') /\ ReadyOK'
      BY <1>0, <2>2, <3>0, <3>1, GoesTo, OthersDone DEF Places
    <3>3. PlaceOK(b)'
      BY <1>0, <1>4, <2>2, <3>1, MovesTo DEF TakeResetLock, PlaceOK
    <3>4. \A x \in Builders : resetLock # x
      BY <2>2 DEF Builders
    <3> QED
      BY <1>0, <1>2, <2>2, <3>0, <3>2, <3>3, <3>4 DEF Places
  <2> QED
    BY <1>4, <2>1, <2>2 DEF TakeResetLock
<1>5. CASE MarkResetting(b)
  <2>0. /\ builder[b].at = "mark" /\ demoRow' = MarkedResetting /\ GoTo(b, "purge")
        /\ UNCHANGED <<demoCompany, resetLock>>
    BY <1>5 DEF MarkResetting
  <2>1. PICK step \in BuilderType : Moves(b, step) /\ step.at = "purge"
                                    /\ step.job = builder[b].job /\ step.part = builder[b].part
    BY <2>0, GoesTo DEF Places
  <2>2. /\ demoRow' \in DemoRowType /\ demoRow'.status = "RESETTING" /\ demoRow'.last = demoRow.last
    BY <1>0, <2>0 DEF MarkedResetting, DemoRowType
  <2>3. (\A x \in Builders : x # b => DoneOK(x)') /\ ReadyOK'
    BY <1>0, <2>0, <2>1, <2>2, GoesTo, OthersDone DEF Places
  <2>4. PlaceOK(b)' /\ DoneOK(b)'
    BY <1>0, <2>0, <2>1, <2>2, MovesTo DEF PlaceOK, DoneOK, Resetting
  <2>5. crossed' \in BOOLEAN /\ CrossedOK'
    BY <2>0, GoesTo DEF CrossedOK, Places
  <2> QED
    BY <1>0, <2>0, <2>1, <2>2, <2>3, <2>4, <2>5, StepDemoInv
<1>6. CASE PurgeDemoCompany(b)
  <2>0. /\ builder[b].at = "purge" /\ demoCompany' = NoCompany /\ GoTo(b, "provision")
        /\ UNCHANGED <<demoRow, resetLock>>
    BY <1>6 DEF PurgeDemoCompany
  <2>1. PICK step \in BuilderType : Moves(b, step) /\ step.at = "provision"
                                    /\ step.job = builder[b].job /\ step.part = builder[b].part
    BY <2>0, GoesTo DEF Places
  <2>2. Resetting(b) /\ resetLock = b
    BY <1>0, <2>0 DEF PlaceOK, Resetting
  <2>3. crossed => crossed'
    BY <2>0, GoesTo DEF Places
  <2>4. ASSUME NEW x \in Builders, x # b PROVE DoneOK(x)'
    <3>1. builder'[x] = builder[x]
      BY <2>1, <2>4, MovesTo
    <3>2. ~Resetting(x)
      BY <1>0, <2>2, <2>4 DEF PlaceOK
    <3>3. builder[x].at \in {"seed", "ready"} => crossed
      BY <1>0, <2>2, <3>2 DEF CrossedOK, Building, Resetting, PlaceOK, BuilderType, DemoInv, DemoTypeOK
    <3>4. builder[x].at # "purge"
      BY <1>0, <3>2 DEF PlaceOK, Resetting
    <3> QED
      BY <2>3, <3>1, <3>3, <3>4 DEF DoneOK
  <2>5. ReadyOK'
    BY <1>0, <2>0, <2>3 DEF DoneOK, ReadyOK
  <2>6. PlaceOK(b)'
    BY <1>0, <2>0, <2>1, MovesTo DEF PlaceOK, Resetting
  <2>7. demoCompany' \in [exists: BOOLEAN, parts: SUBSET AllParts]
    BY <2>0 DEF NoCompany
  <2> QED
    BY <1>0, <1>2, <2>0, <2>4, <2>5, <2>6, <2>7 DEF Places
<1>7. CASE ProvisionDemoCompany(b)
  <2>1. CASE demoCompany.exists /\ Finish(b) /\ UNCHANGED demoCompany
    BY <1>1, <1>7, <2>1 DEF ProvisionDemoCompany
  <2>2. CASE ~demoCompany.exists /\ demoCompany' = [exists |-> TRUE, parts |-> {}] /\ GoTo(b, "seed")
             /\ UNCHANGED resetLock
    <3>0. builder[b].at = "provision" /\ UNCHANGED demoRow
      BY <1>7 DEF ProvisionDemoCompany
    <3>1. PICK step \in BuilderType : Moves(b, step) /\ step.at = "seed"
                                      /\ step.job = builder[b].job /\ step.part = builder[b].part
      BY <2>2, GoesTo DEF Places
    <3>2. crossed => crossed'
      BY <2>2, GoesTo DEF Places
    <3>3. ASSUME NEW x \in Builders, x # b PROVE DoneOK(x)'
      <4>1. builder'[x] = builder[x]
        BY <3>1, <3>3, MovesTo
      <4>2. builder[x].at \in {"seed", "ready"} => crossed
        BY <1>0, <2>2 DEF DoneOK, DemoWhole
      <4> QED
        BY <1>0, <3>0, <3>2, <4>1, <4>2 DEF DoneOK
    <3>4. ReadyOK'
      BY <2>2, <3>0, <3>2 DEF DemoInv, ReadyOK, DemoWhole
    <3>5. builder'[b] = step /\ step.part = 1
      BY <1>0, <3>0, <3>1, MovesTo DEF PlaceOK
    <3>6. PlaceOK(b)'
      BY <1>0, <2>2, <3>0, <3>1, <3>5 DEF PlaceOK, Resetting, AllParts
    <3>7. DoneOK(b)'
      BY <2>2, <3>1, <3>5 DEF DoneOK
    <3>8. demoCompany' \in [exists: BOOLEAN, parts: SUBSET AllParts]
      BY <2>2
    <3>9. crossed' \in BOOLEAN /\ CrossedOK'
      BY <2>2, GoesTo DEF CrossedOK, Places
    <3> QED
      BY <1>0, <2>2, <3>0, <3>1, <3>3, <3>4, <3>6, <3>7, <3>8, <3>9, StepDemoInv
  <2> QED
    BY <1>7, <2>1, <2>2 DEF ProvisionDemoCompany
<1>8. CASE Seed(b)
  <2> DEFINE part == builder[b].part
             at == IF part = SeedParts THEN "ready" ELSE "seed"
             next == IF part = SeedParts THEN part ELSE part + 1
             step == [builder[b] EXCEPT !.at = at, !.part = next]
  <2>0. builder[b].at = "seed" /\ UNCHANGED demoRow /\ part \in AllParts
    BY <1>0, <1>8 DEF Seed, PlaceOK
  <2>1. CASE Finish(b) /\ UNCHANGED demoCompany
    BY <1>1, <2>0, <2>1
  <2>2. CASE /\ demoCompany.exists
             /\ demoCompany' = [demoCompany EXCEPT !.parts = @ \cup {part}]
             /\ builder' = [builder EXCEPT ![b].at = at, ![b].part = next]
             /\ UNCHANGED <<resetLock, crossed>>
    <3>1. /\ step \in BuilderType /\ step.at = at /\ step.part = next /\ step.job = builder[b].job
          /\ next \in AllParts
      <4>1. next \in AllParts /\ at \in Places
        BY <2>0, DemoAssumption DEF AllParts, Places
      <4>2. next \in 0..SeedParts
        BY <4>1, DemoAssumption DEF AllParts
      <4>3. builder[b] \in BuilderType
        BY <1>0
      <4> HIDE DEF next, at
      <4> QED
        BY ONLY <4>1, <4>2, <4>3 DEF BuilderType, step
    <3>2. Moves(b, step)
      BY <2>2, <3>1 DEF Moves
    <3>3. /\ demoCompany' \in [exists: BOOLEAN, parts: SUBSET AllParts] /\ demoCompany'.exists
          /\ demoCompany'.parts = demoCompany.parts \cup {part}
      BY <1>0, <2>0, <2>2
    <3>4. builder'[b] = step /\ \A x \in Builders : x # b => builder'[x] = builder[x]
      BY <3>2, MovesTo
    <3> HIDE DEF step
    <3>5. (\A x \in Builders : x # b => DoneOK(x)') /\ ReadyOK'
      BY <2>0, <2>2, <3>2, <3>3, OthersDone
    <3>6. PlaceOK(b)'
      BY <1>0, <2>0, <2>2, <3>1, <3>4 DEF PlaceOK, Resetting
    <3>7. DoneOK(b)'
      <4>1. crossed \/ \A n \in 1..(part - 1) : n \in demoCompany.parts
        BY <1>0, <2>0 DEF DoneOK
      <4>2. crossed \/ \A n \in 1..part : n \in demoCompany'.parts
        BY <2>0, <3>3, <4>1 DEF AllParts
      <4>3. CASE part = SeedParts
        <5>1. crossed \/ demoCompany'.parts = AllParts
          BY <3>3, <4>2, <4>3 DEF AllParts
        <5> QED
          BY <2>2, <3>1, <3>3, <3>4, <4>3, <5>1 DEF DoneOK, DemoWhole
      <4>4. CASE part # SeedParts
        <5>1. next - 1 = part /\ at = "seed"
          BY <2>0, <4>4 DEF AllParts
        <5> QED
          BY <2>2, <3>1, <3>3, <3>4, <4>2, <5>1, ZenonT(60) DEF DoneOK
      <4> QED
        BY <4>3, <4>4
    <3>8. CrossedOK'
      <4>1. \A x \in Builders : (Building(x)' <=> Building(x)) /\ (Resetting(x)' <=> Resetting(x))
        BY <2>0, <3>1, <3>4 DEF Building, Resetting
      <4> QED
        BY <1>0, <2>2, <4>1 DEF CrossedOK
    <3> QED
      BY <1>0, <2>0, <2>2, <3>2, <3>3, <3>5, <3>6, <3>7, <3>8, StepDemoInv
  <2> QED
    BY <1>8, <2>1, <2>2 DEF Seed
<1>9. CASE MarkReady(b)
  <2>0. /\ builder[b].at = "ready" /\ demoRow' = MarkedReady /\ Finish(b) /\ UNCHANGED demoCompany
    BY <1>9 DEF MarkReady
  <2>1. demoRow' \in DemoRowType /\ demoRow'.status = "READY"
    BY <2>0 DEF MarkedReady, DemoRowType
  <2>2. DemoWhole \/ crossed
    BY <1>0, <2>0 DEF DoneOK
  <2>3. ASSUME NEW x \in Builders, x # b PROVE DoneOK(x)'
    <3>1. builder'[x] = builder[x] /\ UNCHANGED crossed
      BY <2>0, <2>3 DEF Finish, DemoInv, DemoTypeOK
    <3>2. builder[x].at = "purge" => crossed
      <4> SUFFICES ASSUME builder[x].at = "purge" PROVE crossed
        OBVIOUS
      <4>1. Resetting(x) /\ resetLock = x
        BY <1>0 DEF PlaceOK, Resetting
      <4>2. ~Resetting(b)
        BY <1>0, <2>3, <4>1 DEF PlaceOK
      <4>3. Building(b)
        BY <1>0, <2>0, <4>2 DEF Building, Resetting, PlaceOK, BuilderType
      <4> QED
        BY <1>0, <4>1, <4>3 DEF CrossedOK
    <3> QED
      BY <1>0, <2>0, <3>1, <3>2 DEF DoneOK, DemoWhole
  <2>4. ReadyOK'
    BY <2>0, <2>2 DEF ReadyOK, DemoWhole, Finish
  <2> QED
    BY <2>0, <2>1, <2>3, <2>4, JobEnds DEF Finish
<1> QED
  BY <1>3, <1>4, <1>5, <1>6, <1>7, <1>8, <1>9 DEF BuilderStep

\* So does every step of the system.
LEMMA NextDemoInv == ASSUME DemoInv, [DemoNext]_demoVars PROVE DemoInv'
<1>1. ASSUME NEW b \in Builders, Interrupt(b) PROVE DemoInv'
  <2>1. /\ builder' = [builder EXCEPT ![b] = IF b = "worker" THEN Down ELSE Idle]
        /\ resetLock' = IF resetLock = b THEN "none" ELSE resetLock
        /\ UNCHANGED <<demoRow, demoCompany, crossed>>
    BY <1>1 DEF Interrupt
  <2> QED
    BY <2>1, JobFails
<1>2. CASE WorkerStarts \/ Tick \/ RequestReset \/ RunDemo
  BY <1>2, JobStarts DEF WorkerStarts, Tick, RequestReset, RunDemo, Builders
<1>3. ASSUME UNCHANGED <<demoCompany, resetLock, builder, crossed>>, demoRow' \in DemoRowType,
             demoRow'.status = demoRow.status, demoRow'.last # "null" <=> demoRow.last # "null"
      PROVE  DemoInv'
  BY <1>3 DEF DemoInv, DemoTypeOK, PlaceOK, DoneOK, CrossedOK, Building, Resetting, ReadyOK, DemoWhole
<1>4. CASE DuePasses \/ CooldownPasses \/ UNCHANGED demoVars
  BY <1>3, <1>4 DEF DuePasses, CooldownPasses, demoVars, DemoInv, DemoTypeOK, DemoRowType
<1> QED
  BY <1>1, <1>2, <1>4, BuilderDemoInv DEF DemoNext

\* Two rebuilds never work on the company together, and a row that reports a
\* completed build names a whole company, unless a first build crossed a rebuild
\* (Reset under pg_try_advisory_lock, Ensure without it, markReady last).
THEOREM DemoStaysWhole == DemoSpec => []DemoIsWhole
<1>1. DemoInv /\ [DemoNext]_demoVars => DemoInv'
  BY NextDemoInv
<1> QED
  BY <1>1, InitDemoInv, DemoInvImplies, PTL DEF DemoSpec

HIDE DemoAssumption

-----------------------------------------------------------------------------
(* The desktop's stack.  A cluster is founded only where there is no whole one *)
(* and with a password already on file, a key is drawn only before anything is *)
(* encrypted with it, and the stack connects to the port of the postmaster it  *)
(* started or found: so a stop between any two steps leaves files that fit.    *)

USE DesktopAssumption

\* Stretches of the stack's start.
Founding == {"password", "writePassword", "initdb", "setAside", "publish"}
Connected == {"ready", "database"} \cup Guarded
DesktopSteps == {"down", "boot", "init", "port", "pgctl"} \cup Founding \cup Connected

Secrets == {"pw", "key"}
FileStates == [pw: Nat \cup {-1}, key: Nat \cup {-1}, drawn: Nat, loose: SUBSET Secrets, lost: SUBSET Secrets]

DesktopTypeOK ==
    /\ files \in FileStates
    /\ cluster \in [made: {"none", "empty", "partial", "whole"}, pw: Nat, key: Nat \cup {-1},
                    schema: SUBSET (Nat \ {0}), db: BOOLEAN]
    /\ archive \in [found: BOOLEAN, kept: BOOLEAN]
    /\ stack \in [at: DesktopSteps, port: Nat, api: BOOLEAN, worker: BOOLEAN]
    /\ pg \in [up: BOOLEAN, port: Nat]
    /\ scm \in [state: {"stopped", "running", "stopping"}, reg: {"absent", "present", "marked"}, pending: BOOLEAN]
    /\ binary \in Nat

\* A cluster is founded only where there is none, with a password that was written.
FoundingOK ==
    /\ stack.at \in Founding => cluster.made # "whole"
    /\ stack.at = "writePassword" => files.drawn > 0
    /\ stack.at \in {"setAside", "publish"} => files.pw > 0
    /\ stack.at = "publish" => cluster.made # "partial"

\* A key is drawn only when nothing was encrypted yet.
KeyOK == stack.at = "writeKey" => cluster.key = 0

\* The stack knows the port of the postmaster it starts or finds.
PortOK == stack.at \in Connected /\ pg.up => stack.port = pg.port

\* A stopped service has no process, and a worker runs in one that serves.
ServiceOK ==
    /\ scm.state = "stopped" => stack.at = "down"
    /\ stack.worker => stack.at = "serve"

DesktopInv == DesktopTypeOK /\ FoundingOK /\ KeyOK /\ PortOK /\ ServiceOK /\ DesktopIsWhole

USE DEF FileStates, Secrets

LEMMA DesktopInvInit == DesktopInit => DesktopInv
<1> SUFFICES ASSUME DesktopInit PROVE DesktopInv
  OBVIOUS
<1>1. cluster \in [made: {"none", "empty", "partial", "whole"}, pw: Nat, key: Nat \cup {-1},
                   schema: SUBSET (Nat \ {0}), db: BOOLEAN] /\ cluster.made # "whole" /\ cluster.key = 0
  <2>1. PICK made \in {"none", "empty", "partial"} :
          cluster = [made |-> made, pw |-> 0, key |-> 0, schema |-> {}, db |-> FALSE]
    <3>1. /\ cluster = [made |-> cluster.made, pw |-> cluster.pw, key |-> cluster.key, schema |-> cluster.schema,
                       db |-> cluster.db]
          /\ cluster.made \in {"none", "empty", "partial"} /\ cluster.pw = 0 /\ cluster.key = 0
          /\ cluster.schema = {} /\ cluster.db = FALSE
      BY DEF DesktopInit
    <3> QED
      BY <3>1
  <2> QED
    BY <2>1
<1>2. DesktopTypeOK
  BY <1>1 DEF DesktopInit, DesktopTypeOK, NoStack, NoPg, DesktopSteps, Founding, Connected, Guarded
<1>3. FoundingOK /\ KeyOK /\ PortOK /\ ServiceOK
  BY <1>1 DEF DesktopInit, FoundingOK, KeyOK, PortOK, ServiceOK, NoStack, NoPg, Founding
<1>4. DesktopIsWhole
  BY <1>1 DEF DesktopInit, DesktopIsWhole, Emptied, NoStack, NoPg
<1> QED
  BY <1>2, <1>3, <1>4 DEF DesktopInv

\* The process ends: nothing on disk changes, and the postmaster stays or stops.
LEMMA ProcessEnds ==
  ASSUME DesktopInv, UNCHANGED <<files, cluster, archive, binary>>, stack' = NoStack, pg' \in {NoPg, pg},
         NEW again, again \in BOOLEAN, scm' = Stopped(again)
  PROVE  DesktopInv'
<1>1. scm' \in [state: {"stopped", "running", "stopping"}, reg: {"absent", "present", "marked"}, pending: BOOLEAN]
  BY DEF Stopped, DesktopInv, DesktopTypeOK
<1>2. stack' \in [at: DesktopSteps, port: Nat, api: BOOLEAN, worker: BOOLEAN] /\ stack'.at = "down" /\ ~stack'.worker
  BY DEF NoStack, DesktopSteps
<1>3. pg' \in [up: BOOLEAN, port: Nat]
  <2>1. pg \in [up: BOOLEAN, port: Nat]
    BY DEF DesktopInv, DesktopTypeOK
  <2>2. NoPg \in [up: BOOLEAN, port: Nat]
    BY DEF NoPg
  <2> QED
    BY <2>1, <2>2
<1>4. DesktopTypeOK'
  BY <1>1, <1>2, <1>3 DEF DesktopInv, DesktopTypeOK
<1>5. FoundingOK' /\ KeyOK' /\ PortOK' /\ ServiceOK'
  BY <1>2 DEF FoundingOK, KeyOK, PortOK, ServiceOK, Founding, Connected, Guarded
<1>6. DesktopIsWhole'
  BY <1>2 DEF DesktopInv, DesktopIsWhole, Emptied, Guarded
<1> QED
  BY <1>4, <1>5, <1>6 DEF DesktopInv

LEMMA FailingEnds == ASSUME DesktopInv, StackFails PROVE DesktopInv'
BY ProcessEnds DEF StackFails

\* The stack goes on to a step that founds, draws and serves nothing yet.
LEMMA GoesOn ==
  ASSUME DesktopInv, UNCHANGED <<files, cluster, archive, pg, scm, binary>>,
         NEW step \in {"init", "port", "password", "initdb", "setAside", "key", "migrate", "serve", "database"},
         scm.state # "stopped", stack.at # "serve",
         Proceed(step),
         step \in {"password", "initdb", "setAside"} => cluster.made # "whole",
         step = "setAside" => files.pw > 0,
         step \in Connected => stack.at \in Connected
  PROVE  DesktopInv'
<1>1. stack \in [at: DesktopSteps, port: Nat, api: BOOLEAN, worker: BOOLEAN] /\ ~stack.worker
  BY DEF DesktopInv, DesktopTypeOK, ServiceOK
<1>2. /\ stack' \in [at: DesktopSteps, port: Nat, api: BOOLEAN, worker: BOOLEAN]
      /\ stack'.at = step /\ stack'.port = stack.port /\ ~stack'.worker
  BY <1>1 DEF Proceed, DesktopSteps, Founding, Connected, Guarded
<1>3. DesktopTypeOK'
  BY <1>2 DEF DesktopInv, DesktopTypeOK
<1>4. FoundingOK' /\ KeyOK' /\ ServiceOK'
  BY <1>2 DEF DesktopInv, FoundingOK, KeyOK, ServiceOK, Founding
<1>5. PortOK'
  BY <1>2 DEF DesktopInv, PortOK
<1>6. DesktopIsWhole'
  BY <1>2, <1>5 DEF DesktopInv, DesktopIsWhole, Emptied, PortOK, Connected
<1> QED
  BY <1>3, <1>4, <1>5, <1>6 DEF DesktopInv

\* A secret is drawn: its file is there, and empty.
LEMMA Drawn ==
  ASSUME NEW fs \in FileStates
  PROVE  /\ [fs EXCEPT !.pw = -1, !.drawn = @ + 1] \in FileStates
         /\ [fs EXCEPT !.pw = -1, !.drawn = @ + 1].drawn > 0
         /\ [fs EXCEPT !.pw = -1, !.drawn = @ + 1].key = fs.key
         /\ [fs EXCEPT !.pw = -1, !.drawn = @ + 1].lost = fs.lost
         /\ [fs EXCEPT !.key = -1, !.drawn = @ + 1] \in FileStates
         /\ [fs EXCEPT !.key = -1, !.drawn = @ + 1].pw = fs.pw
         /\ [fs EXCEPT !.key = -1, !.drawn = @ + 1].lost = fs.lost
<1> DEFINE n == fs.drawn + 1
<1>1. n \in Nat /\ n > 0
  OBVIOUS
<1>2. /\ [fs EXCEPT !.pw = -1, !.drawn = @ + 1] = [fs EXCEPT !.pw = -1, !.drawn = n]
      /\ [fs EXCEPT !.key = -1, !.drawn = @ + 1] = [fs EXCEPT !.key = -1, !.drawn = n]
  OBVIOUS
<1> HIDE DEF n
<1>3. -1 \in Nat \cup {-1}
  OBVIOUS
<1> QED
  BY <1>1, <1>2, <1>3

\* The cluster: found or founded, with the password it is given.
LEMMA FoundingInv ==
  ASSUME DesktopInv, CheckHTTPPortFree \/ EnsureInitialized \/ Password \/ WritePassword \/ Initdb \/ SetAside \/ PublishCluster
  PROVE  DesktopInv'
<1> USE DEF World
<1>0. /\ stack \in [at: DesktopSteps, port: Nat, api: BOOLEAN, worker: BOOLEAN]
      /\ files \in FileStates
      /\ stack.worker => stack.at = "serve"
      /\ DesktopTypeOK
  BY DEF DesktopInv, DesktopTypeOK, ServiceOK
<1>1. CASE CheckHTTPPortFree
  BY <1>1, FailingEnds, GoesOn DEF CheckHTTPPortFree, At, Connected, Guarded
<1>2. CASE EnsureInitialized
  BY <1>2, GoesOn DEF EnsureInitialized, At, Connected, Guarded
<1>3. CASE Password
  <2>1. cluster.made # "whole"
    BY <1>3 DEF Password, At, DesktopInv, FoundingOK, Founding
  <2>2. CASE files.pw # 0
    BY <1>3, <2>1, <2>2, GoesOn DEF Password, At, Connected, Guarded
  <2>3. CASE files.pw = 0
    <3>1. /\ stack' \in [at: DesktopSteps, port: Nat, api: BOOLEAN, worker: BOOLEAN]
          /\ stack'.at = "writePassword" /\ ~stack'.worker /\ scm'.state # "stopped"
          /\ files' \in FileStates
          /\ files'.drawn > 0 /\ files'.key = files.key /\ files'.lost = files.lost
          /\ UNCHANGED <<cluster, archive, pg, scm, binary>>
      <4>1. /\ stack' = [stack EXCEPT !.at = "writePassword"] /\ stack.at = "password" /\ scm.state = "running"
            /\ files' = [files EXCEPT !.pw = -1, !.drawn = @ + 1]
            /\ UNCHANGED <<cluster, archive, pg, scm, binary>>
        BY <1>3, <2>3 DEF Password, Proceed, At
      <4>2. "writePassword" \in DesktopSteps
        BY DEF DesktopSteps, Founding
      <4>3. files' \in FileStates /\ files'.drawn > 0 /\ files'.key = files.key /\ files'.lost = files.lost
        BY <1>0, <4>1, Drawn
      <4>4. stack' \in [at: DesktopSteps, port: Nat, api: BOOLEAN, worker: BOOLEAN]
            /\ stack'.at = "writePassword" /\ ~stack'.worker
        BY <1>0, <4>1, <4>2
      <4> QED
        BY <4>1, <4>3, <4>4
    <3>2. DesktopTypeOK'
      BY <1>0, <3>1 DEF DesktopTypeOK
    <3>3. FoundingOK' /\ KeyOK' /\ PortOK' /\ ServiceOK'
      BY <2>1, <3>1 DEF FoundingOK, KeyOK, PortOK, ServiceOK, Connected, Guarded
    <3>4. DesktopIsWhole'
      BY <2>1, <3>1 DEF DesktopInv, DesktopIsWhole, Emptied, Guarded
    <3> QED
      BY <3>2, <3>3, <3>4 DEF DesktopInv
  <2> QED
    BY <2>2, <2>3
<1>4. CASE WritePassword
  <2>1. cluster.made # "whole" /\ files.drawn > 0
    BY <1>4 DEF WritePassword, At, DesktopInv, FoundingOK, Founding
  <2>2. /\ stack' \in [at: DesktopSteps, port: Nat, api: BOOLEAN, worker: BOOLEAN]
        /\ stack'.at = "initdb" /\ ~stack'.worker /\ scm'.state # "stopped"
        /\ files' \in FileStates
        /\ files'.key = files.key /\ files'.lost = files.lost
        /\ UNCHANGED <<cluster, archive, pg, scm, binary>>
    BY <1>0, <1>4 DEF WritePassword, Proceed, At, DesktopSteps, Founding
  <2>3. DesktopTypeOK'
    BY <1>0, <2>2 DEF DesktopTypeOK
  <2>4. FoundingOK' /\ KeyOK' /\ PortOK' /\ ServiceOK'
    BY <2>1, <2>2 DEF FoundingOK, KeyOK, PortOK, ServiceOK, Connected, Guarded
  <2>5. DesktopIsWhole'
    BY <2>1, <2>2 DEF DesktopInv, DesktopIsWhole, Emptied, Guarded
  <2> QED
    BY <2>3, <2>4, <2>5 DEF DesktopInv
<1>5. CASE Initdb
  <2>1. cluster.made # "whole"
    BY <1>5 DEF Initdb, At, DesktopInv, FoundingOK, Founding
  <2> QED
    BY <1>5, <2>1, FailingEnds, GoesOn DEF Initdb, At, Connected, Guarded
<1>6. CASE SetAside
  <2>1. /\ stack' \in [at: DesktopSteps, port: Nat, api: BOOLEAN, worker: BOOLEAN]
        /\ stack'.at = "publish" /\ ~stack'.worker /\ scm'.state # "stopped"
        /\ UNCHANGED <<files, pg, scm, binary>>
    BY <1>0, <1>6 DEF SetAside, Proceed, At, DesktopSteps, Founding
  <2>2. /\ cluster' \in [made: {"none", "empty", "partial", "whole"}, pw: Nat, key: Nat \cup {-1},
                         schema: SUBSET (Nat \ {0}), db: BOOLEAN]
        /\ cluster'.made = "none" /\ cluster'.key = cluster.key
        /\ archive' \in [found: BOOLEAN, kept: BOOLEAN]
        /\ archive'.found = archive.found /\ archive'.kept = (archive.kept \/ cluster.made = "partial")
    BY <1>0, <1>6 DEF SetAside, DesktopTypeOK
  <2>3. files.pw > 0
    BY <1>6 DEF SetAside, At, DesktopInv, FoundingOK
  <2>4. DesktopTypeOK'
    BY <1>0, <2>1, <2>2 DEF DesktopTypeOK
  <2>5. FoundingOK' /\ KeyOK' /\ PortOK' /\ ServiceOK'
    BY <2>1, <2>2, <2>3 DEF FoundingOK, KeyOK, PortOK, ServiceOK, Connected, Guarded
  <2>6. DesktopIsWhole'
    BY <2>1, <2>2 DEF DesktopInv, DesktopIsWhole, Emptied, Guarded
  <2> QED
    BY <2>4, <2>5, <2>6 DEF DesktopInv
<1>7. CASE PublishCluster
  <2>1. /\ stack' \in [at: DesktopSteps, port: Nat, api: BOOLEAN, worker: BOOLEAN]
        /\ stack'.at = "port" /\ ~stack'.worker /\ scm'.state # "stopped"
        /\ UNCHANGED <<files, archive, pg, scm, binary>>
    BY <1>0, <1>7 DEF PublishCluster, Proceed, At, DesktopSteps, Founding
  <2>2. files.pw > 0 /\ cluster.made # "partial" /\ files.pw \in Nat
    BY <1>0, <1>7 DEF PublishCluster, At, DesktopInv, FoundingOK
  <2>3. /\ cluster' \in [made: {"none", "empty", "partial", "whole"}, pw: Nat, key: Nat \cup {-1},
                         schema: SUBSET (Nat \ {0}), db: BOOLEAN]
        /\ cluster'.made = "whole" /\ cluster'.pw = files.pw /\ cluster'.key = 0
    BY <1>7, <2>2 DEF PublishCluster
  <2>4. DesktopTypeOK'
    BY <1>0, <2>1, <2>3 DEF DesktopTypeOK
  <2>5. FoundingOK' /\ KeyOK' /\ PortOK' /\ ServiceOK'
    BY <2>1 DEF FoundingOK, KeyOK, PortOK, ServiceOK, Connected, Guarded, Founding
  <2>6. DesktopIsWhole'
    BY <2>1, <2>2, <2>3 DEF DesktopInv, DesktopIsWhole, Emptied, Guarded
  <2> QED
    BY <2>4, <2>5, <2>6 DEF DesktopInv
<1> QED
  BY <1>1, <1>2, <1>3, <1>4, <1>5, <1>6, <1>7

\* Some free port comes first.
LEMMA LeastPort ==
  ASSUME NEW S \in SUBSET Nat, S # {}
  PROVE  \E x \in S : \A y \in S : x <= y
<1>1. PICK x \in S : \A y \in S : ~(<<y, x>> \in OpToRel(<, Nat))
  BY NatLessThanWellFounded, WFMin
<1>2. \A y \in S : ~(y < x)
  BY <1>1 DEF OpToRel
<1> QED
  BY <1>2

\* The postmaster, the database and the key.
LEMMA ConnectingInv ==
  ASSUME DesktopInv, StartPostgres \/ PgCtlStart \/ WaitReady \/ EnsureDatabase \/ MasterKey \/ WriteKey
  PROVE  DesktopInv'
<1> USE DEF World
<1>0. /\ stack \in [at: DesktopSteps, port: Nat, api: BOOLEAN, worker: BOOLEAN]
      /\ files \in FileStates
      /\ pg \in [up: BOOLEAN, port: Nat]
      /\ stack.worker => stack.at = "serve"
      /\ DesktopTypeOK
  BY DEF DesktopInv, DesktopTypeOK, ServiceOK
<1>1. CASE StartPostgres
  <2>1. CASE StackFails
    BY <2>1, FailingEnds
  <2>2. CASE ~StackFails
    <3>0. ResolvedPort \in Nat /\ (pg.up => ResolvedPort = pg.port)
      <4>1. CASE pg.up
        BY <1>0, <4>1 DEF ResolvedPort
      <4>2. CASE ~pg.up /\ \E p \in Ports : ~Busy(p)
        <5>1. \E p \in Ports : ~Busy(p) /\ \A q \in Ports : ~Busy(q) => p <= q
          <6>1. PICK p \in {q \in Ports : ~Busy(q)} : \A q \in {q \in Ports : ~Busy(q)} : p <= q
            <7>1. {q \in Ports : ~Busy(q)} \in SUBSET Nat /\ {q \in Ports : ~Busy(q)} # {}
              BY <4>2 DEF Ports
            <7> QED
              BY <7>1, LeastPort
          <6> QED
            BY <6>1
        <5> QED
          BY <4>2, <5>1 DEF ResolvedPort, Ports
      <4>3. CASE ~pg.up /\ ~\E p \in Ports : ~Busy(p)
        BY <4>3 DEF ResolvedPort
      <4> QED
        BY <4>1, <4>2, <4>3
    <3>1. /\ stack' = [stack EXCEPT !.at = IF pg.up THEN "database" ELSE "pgctl", !.port = ResolvedPort]
          /\ stack.at = "port" /\ scm.state = "running"
          /\ UNCHANGED <<files, cluster, archive, pg, scm, binary>>
      BY <1>1, <2>2 DEF StartPostgres, At
    <3>2. "database" \in DesktopSteps /\ "pgctl" \in DesktopSteps
      BY DEF DesktopSteps, Connected
    <3>3. /\ stack' \in [at: DesktopSteps, port: Nat, api: BOOLEAN, worker: BOOLEAN]
          /\ stack'.at \in {"database", "pgctl"} /\ ~stack'.worker
          /\ stack'.port = ResolvedPort /\ scm'.state # "stopped"
      BY <1>0, <3>0, <3>1, <3>2
    <3>4. DesktopTypeOK'
      BY <1>0, <3>1, <3>3 DEF DesktopTypeOK
    <3>5. FoundingOK' /\ KeyOK' /\ PortOK' /\ ServiceOK'
      BY <3>0, <3>1, <3>3 DEF FoundingOK, KeyOK, PortOK, ServiceOK, Founding
    <3>6. DesktopIsWhole'
      BY <3>1, <3>3 DEF DesktopInv, DesktopIsWhole, Emptied, Guarded
    <3> QED
      BY <3>4, <3>5, <3>6 DEF DesktopInv
  <2> QED
    BY <2>1, <2>2
<1>2. CASE PgCtlStart
  <2>1. CASE StackFails
    BY <2>1, FailingEnds
  <2>2. CASE ~StackFails
    <3>1. /\ pg' = [up |-> TRUE, port |-> stack.port] /\ UNCHANGED <<files, cluster, archive, binary>>
          /\ \/ stack' = [stack EXCEPT !.at = "ready"] /\ UNCHANGED scm
             \/ stack' = NoStack /\ scm' = Stopped(TRUE)
          /\ stack.at = "pgctl" /\ scm.state = "running"
      BY <1>2, <2>2 DEF PgCtlStart, At, Proceed
    <3>2. /\ stack' \in [at: DesktopSteps, port: Nat, api: BOOLEAN, worker: BOOLEAN]
          /\ stack'.at \in {"ready", "down"} /\ ~stack'.worker
          /\ stack'.at = "ready" => scm'.state # "stopped" /\ stack'.port = stack.port
      <4>1. "ready" \in DesktopSteps /\ "down" \in DesktopSteps
        BY DEF DesktopSteps, Connected
      <4>2. CASE stack' = NoStack
        BY <4>1, <4>2 DEF NoStack
      <4>3. CASE stack' = [stack EXCEPT !.at = "ready"] /\ UNCHANGED scm
        BY <1>0, <3>1, <4>1, <4>3
      <4> QED
        BY <3>1, <4>2, <4>3
    <3>3. scm' \in [state: {"stopped", "running", "stopping"}, reg: {"absent", "present", "marked"},
                    pending: BOOLEAN]
      <4>1. scm \in [state: {"stopped", "running", "stopping"}, reg: {"absent", "present", "marked"},
                      pending: BOOLEAN]
        BY <1>0 DEF DesktopTypeOK
      <4>2. Stopped(TRUE) \in [state: {"stopped", "running", "stopping"}, reg: {"absent", "present", "marked"},
                               pending: BOOLEAN]
        BY <4>1 DEF Stopped
      <4> QED
        BY <3>1, <4>1, <4>2
    <3>4. DesktopTypeOK'
      BY <1>0, <3>1, <3>2, <3>3 DEF DesktopTypeOK
    <3>5. FoundingOK' /\ KeyOK' /\ PortOK' /\ ServiceOK'
      BY <3>1, <3>2 DEF FoundingOK, KeyOK, PortOK, ServiceOK, Founding, Connected, Guarded
    <3>6. DesktopIsWhole'
      BY <3>1, <3>2 DEF DesktopInv, DesktopIsWhole, Emptied, Guarded
    <3> QED
      BY <3>4, <3>5, <3>6 DEF DesktopInv
  <2> QED
    BY <2>1, <2>2
<1>3. CASE WaitReady
  BY <1>3, FailingEnds, GoesOn DEF WaitReady, At, Connected, Guarded
<1>4. CASE EnsureDatabase
  <2>1. CASE StackFails
    BY <2>1, FailingEnds
  <2>2. CASE ~StackFails
    <3>1. /\ stack' = [stack EXCEPT !.at = "key"] /\ cluster' = [cluster EXCEPT !.db = TRUE]
          /\ stack.at = "database" /\ scm.state = "running"
          /\ UNCHANGED <<files, archive, pg, scm, binary>>
      BY <1>4, <2>2 DEF EnsureDatabase, At, Proceed
    <3>2. /\ stack' \in [at: DesktopSteps, port: Nat, api: BOOLEAN, worker: BOOLEAN]
          /\ stack'.at = "key" /\ ~stack'.worker /\ stack'.port = stack.port
      <4>1. "key" \in DesktopSteps
        BY DEF DesktopSteps, Connected, Guarded
      <4> QED
        BY <1>0, <3>1, <4>1
    <3>3. /\ cluster' \in [made: {"none", "empty", "partial", "whole"}, pw: Nat, key: Nat \cup {-1},
                            schema: SUBSET (Nat \ {0}), db: BOOLEAN]
          /\ cluster'.made = cluster.made /\ cluster'.pw = cluster.pw /\ cluster'.key = cluster.key
      BY <1>0, <3>1 DEF DesktopTypeOK
    <3>4. DesktopTypeOK'
      BY <1>0, <3>1, <3>2, <3>3 DEF DesktopTypeOK
    <3>5. FoundingOK' /\ KeyOK' /\ PortOK' /\ ServiceOK'
      BY <3>1, <3>2 DEF DesktopInv, FoundingOK, KeyOK, PortOK, ServiceOK, Founding, Connected
    <3>6. DesktopIsWhole'
      BY <3>1, <3>2, <3>3, <3>5 DEF DesktopInv, DesktopIsWhole, Emptied, PortOK, Connected
    <3> QED
      BY <3>4, <3>5, <3>6 DEF DesktopInv
  <2> QED
    BY <2>1, <2>2
<1>5. CASE MasterKey
  <2>1. CASE files.key = 0
    <3>0. cluster.key = 0
      BY <2>1 DEF DesktopInv, DesktopIsWhole, Emptied
    <3>1. /\ stack' = [stack EXCEPT !.at = "writeKey"] /\ files' = [files EXCEPT !.key = -1, !.drawn = @ + 1]
          /\ stack.at = "key" /\ scm.state = "running"
          /\ UNCHANGED <<cluster, archive, pg, scm, binary>>
      BY <1>5, <2>1 DEF MasterKey, At, Proceed
    <3>2. /\ stack' \in [at: DesktopSteps, port: Nat, api: BOOLEAN, worker: BOOLEAN]
          /\ stack'.at = "writeKey" /\ ~stack'.worker /\ stack'.port = stack.port
      <4>1. "writeKey" \in DesktopSteps
        BY DEF DesktopSteps, Connected, Guarded
      <4> QED
        BY <1>0, <3>1, <4>1
    <3>3. files' \in FileStates /\ files'.pw = files.pw /\ files'.lost = files.lost
      BY <1>0, <3>1, Drawn
    <3>4. DesktopTypeOK'
      BY <1>0, <3>1, <3>2, <3>3 DEF DesktopTypeOK
    <3>5. FoundingOK' /\ KeyOK' /\ PortOK' /\ ServiceOK'
      BY <3>0, <3>1, <3>2 DEF DesktopInv, FoundingOK, KeyOK, PortOK, ServiceOK, Founding, Connected, Guarded
    <3>6. DesktopIsWhole'
      BY <3>0, <3>1, <3>2, <3>3, <3>5 DEF DesktopInv, DesktopIsWhole, Emptied, PortOK, Connected
    <3> QED
      BY <3>4, <3>5, <3>6 DEF DesktopInv
  <2>2. CASE files.key # 0
    BY <1>5, <2>2, FailingEnds, GoesOn DEF MasterKey, At, Connected, Guarded
  <2> QED
    BY <2>1, <2>2
<1>6. CASE WriteKey
  <2>1. /\ stack' = [stack EXCEPT !.at = "migrate"] /\ files' = [files EXCEPT !.key = files.drawn, !.loose = files.loose \cup {"key"}]
        /\ stack.at = "writeKey" /\ scm.state = "running"
        /\ UNCHANGED <<cluster, archive, pg, scm, binary>>
    BY <1>6 DEF WriteKey, At, Proceed
  <2>2. cluster.key = 0
    BY <2>1 DEF DesktopInv, KeyOK
  <2>3. /\ stack' \in [at: DesktopSteps, port: Nat, api: BOOLEAN, worker: BOOLEAN]
        /\ stack'.at = "migrate" /\ ~stack'.worker /\ stack'.port = stack.port
    <3>1. "migrate" \in DesktopSteps
      BY DEF DesktopSteps, Connected, Guarded
    <3> QED
      BY <1>0, <2>1, <3>1
  <2>4. files' \in FileStates /\ files'.pw = files.pw /\ files'.lost = files.lost
    BY <1>0, <2>1
  <2>5. DesktopTypeOK'
    BY <1>0, <2>1, <2>3, <2>4 DEF DesktopTypeOK
  <2>6. FoundingOK' /\ KeyOK' /\ PortOK' /\ ServiceOK'
    BY <2>1, <2>3 DEF DesktopInv, FoundingOK, KeyOK, PortOK, ServiceOK, Founding, Connected, Guarded
  <2>7. DesktopIsWhole'
    BY <2>1, <2>2, <2>3, <2>4, <2>6 DEF DesktopInv, DesktopIsWhole, Emptied, PortOK, Connected
  <2> QED
    BY <2>5, <2>6, <2>7 DEF DesktopInv
<1> QED
  BY <1>1, <1>2, <1>3, <1>4, <1>5, <1>6

\* Migrations, the server and the worker.
LEMMA ServingInv == ASSUME DesktopInv, Migrate \/ RunServer \/ RunWorker PROVE DesktopInv'
<1> USE DEF World
<1>0. /\ stack \in [at: DesktopSteps, port: Nat, api: BOOLEAN, worker: BOOLEAN]
      /\ files \in FileStates
      /\ stack.worker => stack.at = "serve"
      /\ DesktopTypeOK
  BY DEF DesktopInv, DesktopTypeOK, ServiceOK
<1>1. CASE StackFails
  BY <1>1, FailingEnds
<1>2. CASE Migrate /\ ~StackFails
  <2>1. /\ stack' = [stack EXCEPT !.at = "serve"] /\ cluster' = [cluster EXCEPT !.schema = @ \cup 1..binary]
        /\ stack.at = "migrate" /\ scm.state = "running"
        /\ UNCHANGED <<files, archive, pg, scm, binary>>
    BY <1>2 DEF Migrate, At, Proceed
  <2>2. /\ stack' \in [at: DesktopSteps, port: Nat, api: BOOLEAN, worker: BOOLEAN]
        /\ stack'.at = "serve" /\ ~stack'.worker /\ stack'.port = stack.port
    <3>1. "serve" \in DesktopSteps
      BY DEF DesktopSteps, Connected, Guarded
    <3> QED
      BY <1>0, <2>1, <3>1
  <2>3. 1..binary \subseteq Nat \ {0}
    BY <1>0 DEF DesktopTypeOK
  <2>4. /\ cluster' \in [made: {"none", "empty", "partial", "whole"}, pw: Nat, key: Nat \cup {-1},
                         schema: SUBSET (Nat \ {0}), db: BOOLEAN]
        /\ cluster'.made = cluster.made /\ cluster'.pw = cluster.pw /\ cluster'.key = cluster.key
    BY <1>0, <2>1, <2>3 DEF DesktopTypeOK
  <2>5. DesktopTypeOK'
    BY <1>0, <2>1, <2>2, <2>4 DEF DesktopTypeOK
  <2>6. FoundingOK' /\ KeyOK' /\ PortOK' /\ ServiceOK'
    BY <2>1, <2>2 DEF DesktopInv, FoundingOK, KeyOK, PortOK, ServiceOK, Founding, Connected, Guarded
  <2>7. DesktopIsWhole'
    BY <2>1, <2>2, <2>4, <2>6 DEF DesktopInv, DesktopIsWhole, Emptied, PortOK, Connected
  <2> QED
    BY <2>5, <2>6, <2>7 DEF DesktopInv
<1>3. CASE RunServer /\ ~StackFails
  <2>1. /\ stack' = [stack EXCEPT !.api = TRUE]
        /\ cluster' = IF cluster.key = 0 THEN [cluster EXCEPT !.key = files.key] ELSE cluster
        /\ stack.at = "serve" /\ UNCHANGED <<files, archive, pg, scm, binary>>
    BY <1>3 DEF RunServer, At
  <2>2. /\ stack' \in [at: DesktopSteps, port: Nat, api: BOOLEAN, worker: BOOLEAN]
        /\ stack'.at = stack.at /\ stack'.worker = stack.worker /\ stack'.port = stack.port
    BY <1>0, <2>1
  <2>3. files.key \in Nat \cup {-1}
    BY <1>0
  <2>4. /\ cluster' \in [made: {"none", "empty", "partial", "whole"}, pw: Nat, key: Nat \cup {-1},
                         schema: SUBSET (Nat \ {0}), db: BOOLEAN]
        /\ cluster'.made = cluster.made /\ cluster'.pw = cluster.pw /\ cluster'.schema = cluster.schema
        /\ cluster'.key = IF cluster.key = 0 THEN files.key ELSE cluster.key
    BY <1>0, <2>1, <2>3 DEF DesktopTypeOK
  <2>5. DesktopTypeOK'
    BY <1>0, <2>1, <2>2, <2>4 DEF DesktopTypeOK
  <2>6. FoundingOK' /\ KeyOK' /\ PortOK' /\ ServiceOK'
    BY <2>1, <2>2, <2>4 DEF DesktopInv, FoundingOK, KeyOK, PortOK, ServiceOK, Founding
  <2>7. DesktopIsWhole'
    BY <2>1, <2>2, <2>4 DEF DesktopInv, DesktopIsWhole, Emptied
  <2> QED
    BY <2>5, <2>6, <2>7 DEF DesktopInv
<1>4. CASE RunWorker /\ ~StackFails
  <2>1. /\ stack' = [stack EXCEPT !.worker = TRUE] /\ IsCurrent
        /\ stack.at = "serve" /\ UNCHANGED <<files, cluster, archive, pg, scm, binary>>
    BY <1>4 DEF RunWorker, At
  <2>2. /\ stack' \in [at: DesktopSteps, port: Nat, api: BOOLEAN, worker: BOOLEAN]
        /\ stack'.at = stack.at /\ stack'.port = stack.port
    BY <1>0, <2>1
  <2>3. cluster.schema = 1..binary
    <3>1. cluster.schema \subseteq Nat \ {0} /\ binary \in Nat
      BY <1>0 DEF DesktopTypeOK
    <3>2. 1..binary \subseteq cluster.schema /\ \A v \in cluster.schema : v <= binary
      BY <2>1 DEF IsCurrent
    <3>3. \A v \in cluster.schema : v \in 1..binary
      BY <3>1, <3>2
    <3> QED
      BY <3>2, <3>3
  <2>4. DesktopTypeOK'
    BY <1>0, <2>1, <2>2 DEF DesktopTypeOK
  <2>5. FoundingOK' /\ KeyOK' /\ PortOK' /\ ServiceOK'
    BY <2>1, <2>2 DEF DesktopInv, FoundingOK, KeyOK, PortOK, ServiceOK, Founding
  <2>6. DesktopIsWhole'
    BY <2>1, <2>2, <2>3 DEF DesktopInv, DesktopIsWhole, Emptied
  <2> QED
    BY <2>4, <2>5, <2>6 DEF DesktopInv
<1> QED
  BY <1>1, <1>2, <1>3, <1>4

\* A step that leaves process, disk and postmaster alone: the service keeps a process
\* that runs, and a release is replaced only under a stopped service.
LEMMA ServiceMoves ==
  ASSUME DesktopInv, UNCHANGED <<files, cluster, archive, stack, pg>>,
         scm' \in [state: {"stopped", "running", "stopping"}, reg: {"absent", "present", "marked"}, pending: BOOLEAN],
         binary' \in Nat, scm'.state = "stopped" => scm.state = "stopped",
         binary' = binary \/ scm.state = "stopped"
  PROVE  DesktopInv'
<1>1. DesktopTypeOK'
  BY DEF DesktopInv, DesktopTypeOK
<1>2. FoundingOK' /\ KeyOK' /\ PortOK' /\ ServiceOK'
  BY DEF DesktopInv, FoundingOK, KeyOK, PortOK, ServiceOK
<1>3. DesktopIsWhole'
  BY DEF DesktopInv, DesktopIsWhole, Emptied, ServiceOK
<1> QED
  BY <1>1, <1>2, <1>3 DEF DesktopInv

\* A process begins where none runs.
LEMMA ProcessBegins ==
  ASSUME DesktopInv, StartService, scm.state = "stopped", UNCHANGED <<files, cluster, archive, pg, binary>>
  PROVE  DesktopInv'
<1>1. /\ stack' \in [at: DesktopSteps, port: Nat, api: BOOLEAN, worker: BOOLEAN]
      /\ stack'.at = "boot" /\ ~stack'.worker
  BY DEF StartService, NoStack, DesktopSteps
<1>2. /\ scm' \in [state: {"stopped", "running", "stopping"}, reg: {"absent", "present", "marked"}, pending: BOOLEAN]
      /\ scm'.state = "running"
  BY DEF StartService, DesktopInv, DesktopTypeOK
<1>3. DesktopTypeOK'
  BY <1>1, <1>2 DEF DesktopInv, DesktopTypeOK
<1>4. FoundingOK' /\ KeyOK' /\ PortOK' /\ ServiceOK'
  BY <1>1, <1>2 DEF FoundingOK, KeyOK, PortOK, ServiceOK, Founding, Connected, Guarded
<1>5. DesktopIsWhole'
  BY <1>1 DEF DesktopInv, DesktopIsWhole, Emptied, Guarded
<1> QED
  BY <1>3, <1>4, <1>5 DEF DesktopInv

LEMMA ManagerInv ==
  ASSUME DesktopInv, ServiceManagerStarts \/ StackStops \/ ListenerCloses \/ GiveOrder
  PROVE  DesktopInv'
<1> USE DEF Disk
<1>0. /\ scm \in [state: {"stopped", "running", "stopping"}, reg: {"absent", "present", "marked"}, pending: BOOLEAN]
      /\ binary \in Nat
  BY DEF DesktopInv, DesktopTypeOK
<1>1. CASE ServiceManagerStarts
  BY <1>1, ProcessBegins DEF ServiceManagerStarts
<1>2. CASE StackStops
  <2>1. UNCHANGED <<files, cluster, archive, binary>> /\ stack' = NoStack /\ pg' \in {NoPg, pg} /\ scm' = Stopped(FALSE)
    BY <1>2 DEF StackStops
  <2> QED
    BY <2>1, ProcessEnds
<1>3. CASE ListenerCloses
  BY <1>0, <1>3, ServiceMoves DEF ListenerCloses
<1>4. CASE GiveOrder
  BY <1>0, <1>4, ServiceMoves DEF GiveOrder
<1> QED
  BY <1>1, <1>2, <1>3, <1>4

LEMMA OrderInv == ASSUME DesktopInv, OrderStep PROVE DesktopInv'
<1> USE DEF Disk, Rest
<1>0. /\ scm \in [state: {"stopped", "running", "stopping"}, reg: {"absent", "present", "marked"}, pending: BOOLEAN]
      /\ binary \in Nat
  BY DEF DesktopInv, DesktopTypeOK
<1>1. CASE Start
  <2>1. CASE StartService /\ scm.state = "stopped"
    BY <1>1, <2>1, ProcessBegins DEF Start
  <2>2. CASE ~(StartService /\ scm.state = "stopped")
    BY <1>0, <1>1, <2>2, ServiceMoves DEF Start
  <2> QED
    BY <2>1, <2>2
<1>2. CASE Stop
  <2>1. /\ UNCHANGED <<files, cluster, archive, stack, pg, binary>>
        /\ scm' = scm \/ scm' = [scm EXCEPT !.state = "stopping"]
    BY <1>2 DEF Stop
  <2> QED
    BY <1>0, <2>1, ServiceMoves
<1>3. CASE Ensure
  <2>1. /\ UNCHANGED <<files, cluster, archive, stack, pg, binary>>
        /\ scm' = [scm EXCEPT !.reg = IF scm.reg = "absent" THEN "present" ELSE scm.reg]
    BY <1>3 DEF Ensure
  <2> QED
    BY <1>0, <2>1, ServiceMoves
<1>4. CASE Install
  <2>1. /\ UNCHANGED <<files, cluster, archive, stack, pg, binary>>
        /\ scm' = scm \/ scm' = [scm EXCEPT !.reg = "present"]
    BY <1>4 DEF Install
  <2> QED
    BY <1>0, <2>1, ServiceMoves
<1>5. CASE Uninstall
  <2>1. /\ UNCHANGED <<files, cluster, archive, stack, pg, binary>>
        /\ scm' = [scm EXCEPT !.reg = IF scm.state = "stopped" THEN "absent" ELSE "marked",
                              !.pending = @ /\ scm.state # "stopped"]
    BY <1>5 DEF Uninstall
  <2>2. /\ scm' \in [state: {"stopped", "running", "stopping"}, reg: {"absent", "present", "marked"}, pending: BOOLEAN]
        /\ scm'.state = scm.state
    <3>1. (scm.pending /\ scm.state # "stopped") \in BOOLEAN
      BY <1>0
    <3> QED
      BY <1>0, <2>1, <3>1
  <2> QED
    BY <1>0, <2>1, <2>2, ServiceMoves
<1>6. CASE Gone
  BY <1>0, <1>6, ServiceMoves DEF Gone
<1>7. CASE Update
  <2>1. /\ UNCHANGED <<files, cluster, archive, stack, pg, scm>>
        /\ binary' = binary \/ (binary' \in 1..MaxBinary /\ scm.state = "stopped")
    BY <1>7 DEF Update
  <2>2. binary' \in Nat
    BY <1>0, <2>1, DesktopAssumption
  <2> QED
    BY <1>0, <2>1, <2>2, ServiceMoves
<1> QED
  BY <1>1, <1>2, <1>3, <1>4, <1>5, <1>6, <1>7 DEF OrderStep

\* Crashes and power cuts end the process; a postmaster may die; other programs take ports.
LEMMA FaultInv == ASSUME DesktopInv, Kill \/ PowerCut \/ PostmasterDies \/ ForeignProgram PROVE DesktopInv'
<1> USE DEF Disk
<1>0. /\ scm \in [state: {"stopped", "running", "stopping"}, reg: {"absent", "present", "marked"}, pending: BOOLEAN]
      /\ binary \in Nat
  BY DEF DesktopInv, DesktopTypeOK
<1>1. CASE Kill
  BY <1>1, ProcessEnds DEF Kill
<1>2. CASE PowerCut
  <2>1. PICK gone \in SUBSET files.loose :
          files' = [files EXCEPT !.pw = IF "pw" \in gone THEN -1 ELSE files.pw,
                                 !.key = IF "key" \in gone THEN -1 ELSE files.key,
                                 !.loose = {}, !.lost = files.lost \cup gone]
    BY <1>2 DEF PowerCut
  <2>2. /\ UNCHANGED <<cluster, archive, binary>> /\ stack' = NoStack /\ pg' = NoPg /\ scm' = Stopped(TRUE)
    BY <1>2 DEF PowerCut
  <2>3. files \in FileStates /\ gone \subseteq Secrets
    BY <2>1 DEF DesktopInv, DesktopTypeOK
  <2>4. /\ files' \in FileStates
        /\ files'.lost = files.lost \cup gone
        /\ files'.pw = files.pw \/ (files'.pw = -1 /\ "pw" \in gone)
        /\ files'.key = files.key \/ (files'.key = -1 /\ "key" \in gone)
    <3> DEFINE pw == IF "pw" \in gone THEN -1 ELSE files.pw
               key == IF "key" \in gone THEN -1 ELSE files.key
    <3>1. /\ pw \in Nat \cup {-1} /\ key \in Nat \cup {-1}
          /\ pw = files.pw \/ (pw = -1 /\ "pw" \in gone)
          /\ key = files.key \/ (key = -1 /\ "key" \in gone)
      BY <2>3
    <3>2. files' = [files EXCEPT !.pw = pw, !.key = key, !.loose = {}, !.lost = files.lost \cup gone]
      BY <2>1
    <3> HIDE DEF pw, key
    <3> QED
      BY <2>3, <3>1, <3>2
  <2>5. /\ scm' \in [state: {"stopped", "running", "stopping"}, reg: {"absent", "present", "marked"}, pending: BOOLEAN]
        /\ stack' \in [at: DesktopSteps, port: Nat, api: BOOLEAN, worker: BOOLEAN] /\ stack'.at = "down" /\ ~stack'.worker
        /\ pg' \in [up: BOOLEAN, port: Nat] /\ ~pg'.up
    BY <1>0, <2>2 DEF Stopped, NoStack, NoPg, DesktopSteps
  <2>6. DesktopTypeOK'
    BY <2>2, <2>4, <2>5 DEF DesktopInv, DesktopTypeOK
  <2>7. FoundingOK' /\ KeyOK' /\ PortOK' /\ ServiceOK'
    BY <2>5 DEF FoundingOK, KeyOK, PortOK, ServiceOK, Founding, Connected, Guarded
  <2>8. DesktopIsWhole'
    BY <2>2, <2>4, <2>5 DEF DesktopInv, DesktopIsWhole, Emptied, Guarded
  <2> QED
    BY <2>6, <2>7, <2>8 DEF DesktopInv
<1>3. CASE PostmasterDies
  <2>1. pg' = NoPg /\ UNCHANGED <<files, cluster, archive, stack, scm, binary>>
    BY <1>3 DEF PostmasterDies
  <2>2. pg' \in [up: BOOLEAN, port: Nat] /\ ~pg'.up
    BY <2>1 DEF NoPg
  <2>3. DesktopTypeOK'
    BY <2>1, <2>2 DEF DesktopInv, DesktopTypeOK
  <2>4. FoundingOK' /\ KeyOK' /\ PortOK' /\ ServiceOK'
    BY <2>1, <2>2 DEF DesktopInv, FoundingOK, KeyOK, PortOK, ServiceOK
  <2>5. DesktopIsWhole'
    BY <2>1, <2>2 DEF DesktopInv, DesktopIsWhole, Emptied
  <2> QED
    BY <2>3, <2>4, <2>5 DEF DesktopInv
<1>4. CASE ForeignProgram
  BY <1>0, <1>4, ServiceMoves DEF ForeignProgram
<1> QED
  BY <1>1, <1>2, <1>3, <1>4

LEMMA DesktopNextInv == ASSUME DesktopInv, [DesktopNext]_desktopVars PROVE DesktopInv'
<1>1. CASE UNCHANGED desktopVars
  BY <1>1, ServiceMoves DEF desktopVars, DesktopInv, DesktopTypeOK
<1>2. CASE DesktopNext
  BY <1>2, FoundingInv, ConnectingInv, ServingInv, ManagerInv, OrderInv, FaultInv DEF DesktopNext, StackStep
<1> QED
  BY <1>1, <1>2

\* Whatever is interrupted, restarted and updated: secrets, cluster and schema of a
\* desktop installation fit together, the stack talks to its own postmaster, and what
\* it replaced is kept (EnsureInitialized, password, masterKey, StartPostgres, RunWorker).
THEOREM DesktopStaysWhole == DesktopSpec => []DesktopIsWhole
<1>1. DesktopInv => DesktopIsWhole
  BY DEF DesktopInv
<1> QED
  BY <1>1, DesktopInvInit, DesktopNextInv, PTL DEF DesktopSpec
=============================================================================
