------------------------------- MODULE Outbox -------------------------------
(***************************************************************************)
(* The outbox worker, internal/platform/outbox/worker.go.                  *)
(*                                                                         *)
(* A business transaction leaves rows in outbox_events; any number of      *)
(* worker processes claim one row at a time, run its handler outside the   *)
(* claiming transaction and write the verdict (processed, dead-lettered or *)
(* retry) in a single statement that is conditional on the lock stamp the  *)
(* claim put on the row.  A row whose stamp is more than five minutes old  *)
(* may be claimed again, whether its worker died or is merely slow.        *)
(*                                                                         *)
(* locked_at is a reading of clock, which every claim advances             *)
(* (clock_timestamp() has microsecond resolution and two claims of one row *)
(* are at least a second apart); Unlocked stands for NULL.  The passage of *)
(* the five minutes and of the retry delay are steps of their own.         *)
(***************************************************************************)
EXTENDS Naturals

CONSTANTS
    Workers,        \* worker processes
    Events,         \* outbox rows, numbered in the order (occurred_at, event_id)
    MaxAttempts,    \* maxAttempts
    MaxFaults       \* bound: crashes, lost verdicts and handlers slower than the lock

ASSUME EventsAssumption == Events \subseteq Nat \ {0}
ASSUME MaxAttemptsAssumption == MaxAttempts \in Nat \ {0}
ASSUME MaxFaultsAssumption == MaxFaults \in Nat

VARIABLES
    row,        \* outbox_events: the columns the worker reads and writes
    expired,    \* stamped rows with locked_at < now() - 5 minutes
    delayed,    \* rows with available_at > now()
    clock,      \* stamps handed out so far
    worker,     \* what each worker process has in memory
    accepted,   \* runs <<row, attempt>> that a handler (or the audit no-op) accepted
    refused,    \* runs <<row, attempt>> refused with a permanent error
    faults      \* faults so far

vars == <<row, expired, delayed, clock, worker, accepted, refused, faults>>

Unlocked == 0
NoEvent == 0
Idle == [pc |-> "idle", event |-> NoEvent, token |-> Unlocked, attempts |-> 0,
         outcome |-> "none"]

\* What the worker knows of a row's type and schema version: a registered
\* handler, a plain audit event, or nothing.
Classes == {"handled", "audit", "unknown"}

RowType == [status: {"absent", "pending", "processed", "dead"},
            class: Classes, lockedAt: Nat, attempts: Nat]

Outcomes == {"ok", "retryable", "permanent"}

WorkerType == [pc: {"idle", "claiming", "claimed", "returned"},
               event: Events \cup {NoEvent}, token: Nat, attempts: Nat,
               outcome: Outcomes \cup {"none"}]

\* Every variable holds a value of its type.
TypeOK ==
    /\ row \in [Events -> RowType]
    /\ expired \subseteq Events
    /\ delayed \subseteq Events
    /\ clock \in Nat
    /\ \A e \in Events : row[e].lockedAt \in 0..clock
    /\ worker \in [Workers -> WorkerType]
    /\ accepted \subseteq Events \X Nat
    /\ refused \subseteq Events \X Nat
    /\ faults \in 0..MaxFaults

Init ==
    /\ row = [e \in Events |-> [status |-> "absent", class |-> "audit", lockedAt |-> Unlocked,
                                attempts |-> 0]]
    /\ expired = {}
    /\ delayed = {}
    /\ clock = Unlocked
    /\ worker = [w \in Workers |-> Idle]
    /\ accepted = {}
    /\ refused = {}
    /\ faults = 0
-----------------------------------------------------------------------------
\* A claiming transaction holds the row lock of its SELECT ... FOR UPDATE.
RowLocked(e) == \E w \in Workers : worker[w].pc = "claiming" /\ worker[w].event = e

\* Mutant: a stamped row is never claimed again.
MutClaimableUnlockedOnly(e) ==
    row[e].status = "pending" /\ e \notin delayed /\ row[e].lockedAt = Unlocked

Claimable(e) ==
    /\ row[e].status = "pending"
    /\ e \notin delayed
    /\ row[e].lockedAt = Unlocked \/ e \in expired

Holds(w, e) == worker[w].pc \in {"claimed", "returned"} /\ worker[w].event = e

\* A business transaction that queued e commits.
Publish(e, class) ==
    /\ row[e].status = "absent"
    /\ row' = [row EXCEPT ![e].status = "pending", ![e].class = class]
    /\ UNCHANGED <<expired, delayed, clock, worker, accepted, refused, faults>>

\* The claim's SELECT: the oldest claimable row nobody else is claiming.
Select(w, e) ==
    /\ worker[w].pc = "idle"
    /\ Claimable(e) /\ ~RowLocked(e)
    /\ \A older \in Events : older < e => ~Claimable(older) \/ RowLocked(older)
    /\ worker' = [worker EXCEPT ![w] = [Idle EXCEPT !.pc = "claiming", !.event = e]]
    /\ UNCHANGED <<row, expired, delayed, clock, accepted, refused, faults>>

\* Mutant: locked_at = COALESCE(locked_at, clock_timestamp()).
MutStampKeepsOld(w) ==
    /\ worker[w].pc = "claiming"
    /\ LET e == worker[w].event
           stamp == IF row[e].lockedAt = Unlocked THEN clock + 1 ELSE row[e].lockedAt IN
       /\ clock' = clock + 1
       /\ row' = [row EXCEPT ![e].lockedAt = stamp, ![e].attempts = @ + 1]
       /\ expired' = expired \ {e}
       /\ worker' = [worker EXCEPT ![w].pc = "claimed", ![w].token = stamp,
                                   ![w].attempts = row[e].attempts + 1]
    /\ UNCHANGED <<delayed, accepted, refused, faults>>

\* The claim's UPDATE and COMMIT: stamp the row and count the attempt.
Stamp(w) ==
    /\ worker[w].pc = "claiming"
    /\ LET e == worker[w].event IN
       /\ clock' = clock + 1
       /\ row' = [row EXCEPT ![e].lockedAt = clock + 1, ![e].attempts = @ + 1]
       /\ expired' = expired \ {e}
       /\ worker' = [worker EXCEPT ![w].pc = "claimed", ![w].token = clock + 1,
                                   ![w].attempts = row[e].attempts + 1]
    /\ UNCHANGED <<delayed, accepted, refused, faults>>

\* The handler returns; an audit event succeeds without one, and an unknown
\* type or schema version is refused without one.
Handle(w, outcome) ==
    /\ worker[w].pc = "claimed"
    /\ LET e == worker[w].event IN
       /\ row[e].class = "audit" => outcome = "ok"
       /\ row[e].class = "unknown" => outcome = "permanent"
       /\ worker' = [worker EXCEPT ![w].pc = "returned", ![w].outcome = outcome]
       /\ LET thisRun == {<<e, worker[w].attempts>>} IN
          /\ accepted' = accepted \cup (IF outcome = "ok" THEN thisRun ELSE {})
          /\ refused' = refused \cup (IF outcome = "permanent" THEN thisRun ELSE {})
    /\ UNCHANGED <<row, expired, delayed, clock, faults>>

\* Mutant: the verdict's WHERE clause forgets locked_at.
MutStillOwnsAnyStamp(w) == row[worker[w].event].status = "pending"

\* The WHERE clause every verdict shares.
StillOwns(w) ==
    LET e == worker[w].event IN
    /\ row[e].status = "pending"
    /\ row[e].lockedAt = worker[w].token

\* The verdict's UPDATE, in which the row also loses its stamp.  It waits for a
\* claiming transaction to release the row, and then finds the new stamp.
ClearStamp(w, status) ==
    LET e == worker[w].event IN
    /\ ~RowLocked(e)
    /\ row' = IF StillOwns(w)
              THEN [row EXCEPT ![e].status = status, ![e].lockedAt = Unlocked]
              ELSE row
    /\ expired' = IF StillOwns(w) THEN expired \ {e} ELSE expired
    /\ worker' = [worker EXCEPT ![w] = Idle]
    /\ UNCHANGED <<clock, accepted, refused, faults>>

Ack(w) ==
    /\ worker[w].pc = "returned" /\ worker[w].outcome = "ok"
    /\ ClearStamp(w, "processed")
    /\ UNCHANGED delayed

Exhausted(w) == worker[w].outcome = "permanent" \/ worker[w].attempts >= MaxAttempts

DeadLetter(w) ==
    /\ worker[w].pc = "returned" /\ worker[w].outcome # "ok"
    /\ Exhausted(w)
    /\ ClearStamp(w, "dead")
    /\ UNCHANGED delayed

Retry(w) ==
    /\ worker[w].pc = "returned" /\ worker[w].outcome # "ok"
    /\ ~Exhausted(w)
    /\ delayed' = delayed \cup (IF StillOwns(w) THEN {worker[w].event} ELSE {})
    /\ ClearStamp(w, "pending")

\* retryDelay has passed: available_at <= now().
DelayPasses(e) ==
    /\ e \in delayed
    /\ delayed' = delayed \ {e}
    /\ UNCHANGED <<row, expired, clock, worker, accepted, refused, faults>>

\* The worker dies or its statement fails, at any point of the cycle.  An open
\* claim rolls back; a stamped row stays stamped.
Crash(w) ==
    /\ faults < MaxFaults
    /\ worker[w].pc # "idle"
    /\ worker' = [worker EXCEPT ![w] = Idle]
    /\ faults' = faults + 1
    /\ UNCHANGED <<row, expired, delayed, clock, accepted, refused>>

\* locked_at < now() - 5 minutes, with the claiming worker gone ...
AbandonedLockExpires(e) ==
    /\ row[e].lockedAt # Unlocked /\ e \notin expired
    /\ \A w \in Workers : Holds(w, e) => worker[w].token # row[e].lockedAt
    /\ expired' = expired \cup {e}
    /\ UNCHANGED <<row, delayed, clock, worker, accepted, refused, faults>>

\* ... or still busy in its handler.
LiveLockExpires(e) ==
    /\ faults < MaxFaults
    /\ row[e].lockedAt # Unlocked /\ e \notin expired
    /\ \E w \in Workers : Holds(w, e) /\ worker[w].token = row[e].lockedAt
    /\ expired' = expired \cup {e}
    /\ faults' = faults + 1
    /\ UNCHANGED <<row, delayed, clock, worker, accepted, refused>>

Done == \A e \in Events : row[e].status \in {"processed", "dead"}

\* Workers poll an empty outbox for ever.
Poll ==
    /\ Done /\ \A w \in Workers : worker[w] = Idle
    /\ UNCHANGED vars

Cycle(w) ==
    \/ \E e \in Events : Select(w, e)
    \/ Stamp(w)
    \/ \E outcome \in Outcomes : Handle(w, outcome)
    \/ Ack(w) \/ DeadLetter(w) \/ Retry(w)

Next ==
    \/ \E e \in Events :
         \/ \E class \in Classes : Publish(e, class)
         \/ DelayPasses(e)
         \/ AbandonedLockExpires(e)
         \/ LiveLockExpires(e)
    \/ \E w \in Workers : Cycle(w) \/ Crash(w)
    \/ Poll

\* Workers keep running their loop and time passes.  Nothing is assumed of the
\* outcome a handler returns, nor of faults.
Fairness ==
    /\ \A w \in Workers : WF_vars(Cycle(w))
    /\ \A e \in Events : WF_vars(DelayPasses(e)) /\ WF_vars(AbandonedLockExpires(e))

Spec == Init /\ [][Next]_vars /\ Fairness
-----------------------------------------------------------------------------
\* At most one worker holds the stamp a row carries, so at most one of several
\* concurrent runs of a handler can write the row's verdict (claim, lines
\* 118-150, against the WHERE locked_at=$ of ack, deadLetter and the retry).
OneVerdict ==
    \A v, w \in Workers, e \in Events :
        /\ Holds(v, e) /\ Holds(w, e)
        /\ worker[v].token = row[e].lockedAt /\ worker[w].token = row[e].lockedAt
        => v = w

\* The verdict on a row is the outcome of its latest run: processed only if that
\* run was accepted, dead-lettered only if it was refused for good or was the
\* last attempt.  An overtaken run never decides, whatever order the runs of a
\* slow and a second worker finish in (runOne, lines 100-121).
VerdictOfLatestRun ==
    \A e \in Events :
        LET latest == <<e, row[e].attempts>> IN
        /\ row[e].status = "processed" => latest \in accepted
        /\ row[e].status = "dead" => latest \in refused \/ row[e].attempts >= MaxAttempts

\* A slow worker that was overtaken cannot free, postpone or settle the row its
\* successor is working on: while some worker holds the row's stamp, only that
\* worker's own step clears it.
OvertakenCannotRelease ==
    [][\A e \in Events, w \in Workers :
         /\ Holds(w, e) /\ worker[w].token = row[e].lockedAt
         /\ row'[e].lockedAt = Unlocked
         => worker'[w] = Idle]_vars

\* Every published event is settled, however its handlers behave, once crashes
\* and overlong handlers stop: again and again no event is left waiting.
EventuallySettled == []<>(\A e \in Events : row[e].status # "pending")
=============================================================================
