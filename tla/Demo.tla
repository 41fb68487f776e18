-------------------------------- MODULE Demo --------------------------------
(* The shared showcase company of a demo deployment: built when it is        *)
(* missing, purged and built again on a timer, by a visitor or by an         *)
(* operator.  Builders run in different processes and meet in one company,   *)
(* one demo_state row and one session-level advisory lock.                   *)
(*                                                                           *)
(* Abstracted: what the seeder writes is a set of parts, one per domain      *)
(* service call; times are "the due time has passed" and "the cooldown is    *)
(* over".  The reset interval and the cooldown are both positive, as the     *)
(* demo deployment configures them.                                          *)
EXTENDS Naturals, FiniteSets

CONSTANTS
    SeedParts,   \* how many steps the seeder takes
    MaxCuts      \* bound: how often a builder is interrupted

ASSUME DemoAssumption == SeedParts \in Nat \ {0} /\ MaxCuts \in Nat

\* The worker's scheduler, a visitor's request and the operator's command.
Builders == {"worker", "visitor", "operator"}

VARIABLES
    demoRow,     \* demo_state: status ("none": no row), due time, last reset
    demoCompany, \* the company: whether it exists and which parts it holds
    resetLock,   \* the builder whose session holds the advisory lock
    builder,     \* where each builder is: its job, its next step, its part
    crossed,     \* a first build and a rebuild were under way together
    cuts         \* interruptions so far

demoVars == <<demoRow, demoCompany, resetLock, builder, crossed, cuts>>

NoCompany == [exists |-> FALSE, parts |-> {}]
Idle == [job |-> "none", at |-> "idle", part |-> 0]
Down == [job |-> "none", at |-> "down", part |-> 0]
AllParts == 1..SeedParts

DemoInit ==
    /\ demoRow = [status |-> "none", due |-> "null", last |-> "null"]
    /\ demoCompany = NoCompany
    /\ resetLock = "none"
    /\ builder = [b \in Builders |-> IF b = "worker" THEN Down ELSE Idle]
    /\ crossed = FALSE
    /\ cuts = 0

-----------------------------------------------------------------------------
(* The shared row. *)

\* No row reads as READY.
StateStatus == IF demoRow.status = "none" THEN "READY" ELSE demoRow.status

DueForReset == StateStatus # "RESETTING" /\ demoRow.due # "future"

MarkedResetting == [demoRow EXCEPT !.status = "RESETTING"]

\* A bug: the completed reset moves the schedule and forgets the status.
MutMarkedReady == [demoRow EXCEPT !.due = "future", !.last = "recent"]

MarkedReady == [status |-> "READY", due |-> "future", last |-> "recent"]

\* A missing due time is filled in; a status or a due time already there stays.
Scheduled ==
    [demoRow EXCEPT !.status = IF @ = "none" THEN "READY" ELSE @,
                    !.due = IF @ = "null" THEN "future" ELSE @]

-----------------------------------------------------------------------------
(* Steps of a builder.  An error ends its job and gives the lock back.       *)

Resetting(b) == builder[b].job = "reset" /\ builder[b].at # "lock"

GoTo(b, at) ==
    /\ builder' = [builder EXCEPT ![b].at = at]
    /\ crossed' = (crossed \/ (/\ \E x \in Builders : builder'[x].job = "ensure" /\ builder'[x].at # "check"
                               /\ \E x \in Builders : builder'[x].job = "reset" /\ builder'[x].at # "lock"))

\* The job is over: the deferred unlock runs whatever its outcome.
Finish(b) ==
    /\ builder' = [builder EXCEPT ![b] = Idle]
    /\ resetLock' = IF resetLock = b THEN "none" ELSE resetLock
    /\ UNCHANGED crossed

StartJob(b, job, at) ==
    /\ builder' = [builder EXCEPT ![b] = [job |-> job, at |-> at, part |-> 1]]
    /\ UNCHANGED <<demoRow, demoCompany, resetLock, crossed, cuts>>

\* The worker process starts: Ensure before the ticker.
WorkerStarts == builder["worker"].at = "down" /\ StartJob("worker", "ensure", "check")

\* The ticker finds the due time passed.
Tick ==
    /\ builder["worker"].at = "idle" /\ DueForReset
    /\ StartJob("worker", "reset", "lock")

\* A visitor is refused during a rebuild and within the cooldown.
RequestReset ==
    /\ builder["visitor"].at = "idle"
    /\ StateStatus # "RESETTING" /\ demoRow.last # "recent"
    /\ StartJob("visitor", "reset", "lock")

\* `varyaone demo seed` and `varyaone demo reset`.
RunDemo ==
    /\ builder["operator"].at = "idle"
    /\ \/ StartJob("operator", "ensure", "check")
       \/ StartJob("operator", "reset", "lock")

\* Ensure: a company that is there only gets a schedule; it takes no lock.
EnsureChecks(b) ==
    /\ builder[b].at = "check"
    /\ \/ /\ demoCompany.exists
          /\ demoRow' = Scheduled
          /\ Finish(b)
       \/ /\ ~demoCompany.exists
          /\ GoTo(b, "provision")
          /\ UNCHANGED <<demoRow, resetLock>>
    /\ UNCHANGED <<demoCompany, cuts>>

\* A bug: the reset does not look whether the lock was granted.
MutTakeResetLock(b) ==
    /\ builder[b].at = "lock"
    /\ resetLock' = b
    /\ GoTo(b, "mark")
    /\ UNCHANGED <<demoRow, demoCompany, cuts>>

\* Reset: pg_try_advisory_lock, refused while another session holds it.
TakeResetLock(b) ==
    /\ builder[b].at = "lock"
    /\ \/ /\ resetLock = "none"
          /\ resetLock' = b
          /\ GoTo(b, "mark")
       \/ resetLock # "none" /\ Finish(b)
    /\ UNCHANGED <<demoRow, demoCompany, cuts>>

MarkResetting(b) ==
    /\ builder[b].at = "mark"
    /\ demoRow' = MarkedResetting
    /\ GoTo(b, "purge")
    /\ UNCHANGED <<demoCompany, resetLock, cuts>>

\* One transaction on the maintenance connection.
PurgeDemoCompany(b) ==
    /\ builder[b].at = "purge"
    /\ demoCompany' = NoCompany
    /\ GoTo(b, "provision")
    /\ UNCHANGED <<demoRow, resetLock, cuts>>

\* Refused when the company exists by now.
ProvisionDemoCompany(b) ==
    /\ builder[b].at = "provision"
    /\ \/ /\ ~demoCompany.exists
          /\ demoCompany' = [exists |-> TRUE, parts |-> {}]
          /\ GoTo(b, "seed")
          /\ UNCHANGED resetLock
       \/ demoCompany.exists /\ Finish(b) /\ UNCHANGED demoCompany
    /\ UNCHANGED <<demoRow, cuts>>

\* One service call after the other.  A call fails on a company that is gone,
\* and on a part that is already there it replays or fails.
Seed(b) ==
    /\ builder[b].at = "seed"
    /\ LET part == builder[b].part IN
        \/ /\ demoCompany.exists
           /\ demoCompany' = [demoCompany EXCEPT !.parts = @ \cup {part}]
           /\ builder' = [builder EXCEPT ![b].at = IF part = SeedParts THEN "ready" ELSE "seed",
                                         ![b].part = IF part = SeedParts THEN part ELSE part + 1]
           /\ UNCHANGED <<resetLock, crossed>>
        \/ /\ ~demoCompany.exists \/ part \in demoCompany.parts
           /\ Finish(b)
           /\ UNCHANGED demoCompany
    /\ UNCHANGED <<demoRow, cuts>>

MarkReady(b) ==
    /\ builder[b].at = "ready"
    /\ demoRow' = MarkedReady
    /\ Finish(b)
    /\ UNCHANGED <<demoCompany, cuts>>

BuilderStep(b) ==
    \/ EnsureChecks(b) \/ TakeResetLock(b) \/ MarkResetting(b) \/ PurgeDemoCompany(b)
    \/ ProvisionDemoCompany(b) \/ Seed(b) \/ MarkReady(b)

-----------------------------------------------------------------------------
(* What happens to the deployment. *)

\* A crash, a shutdown, a failing call or a visitor who closed the page ends
\* the job where it is; its session's lock goes with it.
Interrupt(b) ==
    /\ cuts < MaxCuts
    /\ builder[b].job # "none"
    /\ builder' = [builder EXCEPT ![b] = IF b = "worker" THEN Down ELSE Idle]
    /\ resetLock' = IF resetLock = b THEN "none" ELSE resetLock
    /\ cuts' = cuts + 1
    /\ UNCHANGED <<demoRow, demoCompany, crossed>>

DuePasses ==
    /\ demoRow.due = "future"
    /\ demoRow' = [demoRow EXCEPT !.due = "past"]
    /\ UNCHANGED <<demoCompany, resetLock, builder, crossed, cuts>>

CooldownPasses ==
    /\ demoRow.last = "recent"
    /\ demoRow' = [demoRow EXCEPT !.last = "old"]
    /\ UNCHANGED <<demoCompany, resetLock, builder, crossed, cuts>>

DemoNext ==
    \/ WorkerStarts \/ Tick \/ RequestReset \/ RunDemo
    \/ \E b \in Builders : BuilderStep(b) \/ Interrupt(b)
    \/ DuePasses \/ CooldownPasses

\* The service manager keeps the worker up, its ticker keeps firing, time goes
\* on and a job that runs goes on; nothing makes visitors or operators act.
DemoFairness ==
    /\ WF_demoVars(WorkerStarts) /\ WF_demoVars(Tick)
    /\ \A b \in Builders : WF_demoVars(BuilderStep(b))
    /\ WF_demoVars(DuePasses) /\ WF_demoVars(CooldownPasses)

DemoSpec == DemoInit /\ [][DemoNext]_demoVars /\ DemoFairness

-----------------------------------------------------------------------------
(* Properties. *)

DemoWhole == demoCompany.exists /\ demoCompany.parts = AllParts

\* Two rebuilds never work on the company together, and a row that reports a
\* completed build names a company with all its parts - unless a first build
\* crossed a rebuild, which Ensure, taking no lock, does not prevent: its
\* markReady then announces the company the rebuild has just purged.
DemoIsWhole ==
    /\ Cardinality({b \in Builders : Resetting(b)}) <= 1
    /\ (demoRow.status = "READY" /\ demoRow.last # "null") => (DemoWhole \/ crossed)

\* A rebuild was interrupted after it had marked the row: DueForReset and
\* RequestReset both refuse from then on, and only an operator can help.
DemoWedged ==
    /\ cuts > 0 /\ demoRow.status = "RESETTING"
    /\ \A b \in Builders : builder[b].job = "none"

\* Whatever builders and interruptions do, the demo is ready and whole again
\* and again - unless there is no worker, an operator keeps running commands for
\* ever, or the demo is in the one state that no builder leaves by itself.
DemoComesBack ==
    []<>(\/ demoRow.status = "READY" /\ DemoWhole
         \/ builder["worker"].at = "down" \/ builder["operator"].job # "none"
         \/ DemoWedged)
=============================================================================
