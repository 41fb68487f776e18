------------------------------ MODULE Desktop -------------------------------
(* The desktop installation: the `varyaone stack` process that brings up a   *)
(* bundled PostgreSQL cluster, the migrations, the API and the worker; the   *)
(* Windows service manager that starts it at boot and after a failure; and   *)
(* the control commands of the installer and the panel.                      *)
(*                                                                           *)
(* Abstracted: a secret is a number, 0 for no file and -1 for a file that is *)
(* empty (created and not yet written, or written and emptied by a power cut *)
(* before the system had flushed it; the file system is taken to keep the    *)
(* order in which names appear).  initdb and the postmaster sync what they   *)
(* write, so a power cut takes nothing from the cluster.  The schema is the set of applied         *)
(* migrations and a binary is the highest migration it carries; timeouts are *)
(* failures that may happen while faults last.  Paused services, the firewall*)
(* and the network mode are left out.                                        *)
EXTENDS Integers, Sequences

CONSTANTS
    MaxBinary,    \* bound: the newest release
    PgPorts,      \* how many ports resolvePort tries
    MaxTrouble,   \* bound: crashes, power cuts, failing tools, foreign programs
    MaxOrders     \* bound: control commands and updates

ASSUME DesktopAssumption ==
    /\ MaxBinary \in Nat \ {0} /\ PgPorts \in Nat \ {0}
    /\ MaxTrouble \in Nat /\ MaxOrders \in Nat

Ports == 1..PgPorts

VARIABLES
    files,        \* pg_password and master.key, the last secret drawn, which of the
                  \* two are written but not on disk yet, which a power cut took
    cluster,      \* the data directory: state, its password, key, schema, database
    archive,      \* a half-made data directory: found at first, kept aside by now
    stack,        \* the stack process: next step, chosen port, server, worker
    pg,           \* the postmaster: running, and on which port
    foreign,      \* ports held by other programs; 0 is the HTTP port
    listener,     \* the HTTP listener: "none", "ours", or "old" (being closed)
    scm,          \* the service manager: state, registration, start pending
    order,        \* steps a control command has still to do
    binary,       \* the installed release
    trouble, orders

desktopVars == <<files, cluster, archive, stack, pg, foreign, listener, scm,
                 order, binary, trouble, orders>>

NoStack == [at |-> "down", port |-> 0, api |-> FALSE, worker |-> FALSE]
NoPg == [up |-> FALSE, port |-> 0]

\* A fresh installation, or one whose older release left an empty or a
\* half-made data directory behind.
DesktopInit ==
    /\ files = [pw |-> 0, key |-> 0, drawn |-> 0, loose |-> {}, lost |-> {}]
    /\ cluster \in [made : {"none", "empty", "partial"}, pw : {0}, key : {0},
                    schema : {{}}, db : {FALSE}]
    /\ archive = [found |-> cluster.made = "partial", kept |-> FALSE]
    /\ stack = NoStack
    /\ pg = NoPg
    /\ foreign = {}
    /\ listener = "none"
    /\ scm = [state |-> "stopped", reg |-> "absent", pending |-> FALSE]
    /\ order = <<"install", "start">>
    /\ binary \in 1..MaxBinary
    /\ trouble = 0
    /\ orders = 0

-----------------------------------------------------------------------------
(* The end of the stack process. *)

\* Steps after pg.Start succeeded: the deferred pg.Stop is registered.
Guarded == {"key", "writeKey", "migrate", "serve"}

Closed == IF listener = "ours" THEN "old" ELSE listener

\* The service entered STOPPED; a registration marked for deletion goes.
Stopped(again) ==
    [state |-> "stopped",
     reg |-> IF scm.reg = "marked" THEN "absent" ELSE scm.reg,
     pending |-> again /\ scm.reg = "present"]

\* Run returned an error of its own: exit code 1, the service manager will
\* start the service again.  pg.Stop is best effort.
StackFails ==
    /\ stack' = NoStack
    /\ \/ stack.at \in Guarded /\ pg' = NoPg
       \/ UNCHANGED pg
    /\ listener' = Closed
    /\ scm' = Stopped(TRUE)
    /\ UNCHANGED <<files, cluster, archive, foreign, order, binary, orders>>

\* As a step that may go wrong: the tool failed or ran into its timeout.
Trouble == trouble < MaxTrouble /\ trouble' = trouble + 1

-----------------------------------------------------------------------------
(* Supervisor.Run, step by step. *)

At(step) == stack.at = step /\ scm.state = "running"
Proceed(step) == stack' = [stack EXCEPT !.at = step]
World == <<pg, foreign, listener, scm, order, binary, trouble, orders>>

\* checkHTTPPortFree outwaits the previous listener and gives up on another
\* program.
CheckHTTPPortFree ==
    /\ At("boot")
    /\ \/ /\ listener = "none" /\ 0 \notin foreign
          /\ Proceed("init")
          /\ UNCHANGED <<files, cluster, archive, World>>
       \/ 0 \in foreign /\ StackFails /\ UNCHANGED trouble

\* EnsureInitialized: PG_VERSION decides.
EnsureInitialized ==
    /\ At("init")
    /\ Proceed(IF cluster.made = "whole" THEN "port" ELSE "password")
    /\ UNCHANGED <<files, cluster, archive, World>>

\* password: a file that can be read is taken as it is; otherwise it is
\* created (and is empty) and then written.
Password ==
    /\ At("password")
    /\ \/ /\ files.pw = 0
          /\ files' = [files EXCEPT !.pw = -1, !.drawn = @ + 1]
          /\ Proceed("writePassword")
       \/ files.pw # 0 /\ Proceed("initdb") /\ UNCHANGED files
    /\ UNCHANGED <<cluster, archive, World>>

\* os.WriteFile leaves the bytes to the operating system: nothing syncs them.
WritePassword ==
    /\ At("writePassword")
    /\ files' = [files EXCEPT !.pw = files.drawn, !.loose = @ \cup {"pw"}]
    /\ Proceed("initdb")
    /\ UNCHANGED <<cluster, archive, World>>

\* initdb in a temporary directory, which every error path removes; it
\* refuses an empty password file.
Initdb ==
    /\ At("initdb")
    /\ \/ files.pw > 0 /\ Proceed("setAside") /\ UNCHANGED <<files, cluster, archive, World>>
       \/ files.pw < 0 /\ StackFails /\ UNCHANGED trouble
       \/ files.pw > 0 /\ Trouble /\ StackFails

\* What is at the target is removed when empty and kept for support otherwise.
SetAside ==
    /\ At("setAside")
    /\ cluster' = [cluster EXCEPT !.made = "none"]
    /\ archive' = [archive EXCEPT !.kept = @ \/ cluster.made = "partial"]
    /\ Proceed("publish")
    /\ UNCHANGED <<files, World>>

\* The rename publishes the cluster with the password initdb was given.
PublishCluster ==
    /\ At("publish")
    /\ cluster' = [made |-> "whole", pw |-> files.pw, key |-> 0, schema |-> {}, db |-> FALSE]
    /\ Proceed("port")
    /\ UNCHANGED <<files, archive, World>>

Busy(p) == p \in foreign \/ (pg.up /\ pg.port = p)

\* A bug: the preferred port is taken whoever holds it.
MutResolvedPort == 1

\* resolvePort: a running cluster keeps its port, else the first free one.
ResolvedPort ==
    IF pg.up THEN pg.port
    ELSE IF \E p \in Ports : ~Busy(p)
         THEN CHOOSE p \in Ports : ~Busy(p) /\ \A q \in Ports : ~Busy(q) => p <= q
         ELSE 0

StartPostgres ==
    /\ At("port")
    /\ \/ /\ ResolvedPort # 0
          /\ stack' = [stack EXCEPT !.at = IF pg.up THEN "database" ELSE "pgctl",
                                    !.port = ResolvedPort]
          /\ UNCHANGED <<files, cluster, archive, World>>
       \/ ResolvedPort = 0 /\ StackFails /\ UNCHANGED trouble

\* pg_ctl start: fails when the port was taken meanwhile; its timeout leaves a
\* postmaster behind that comes up later.
PgCtlStart ==
    /\ At("pgctl")
    /\ \/ /\ ~Busy(stack.port)
          /\ pg' = [up |-> TRUE, port |-> stack.port]
          /\ Proceed("ready")
          /\ UNCHANGED <<files, cluster, archive, foreign, listener, scm, order, binary, trouble, orders>>
       \/ Busy(stack.port) /\ StackFails /\ UNCHANGED trouble
       \/ /\ ~Busy(stack.port) /\ Trouble
          /\ pg' = [up |-> TRUE, port |-> stack.port]
          /\ stack' = NoStack /\ listener' = Closed /\ scm' = Stopped(TRUE)
          /\ UNCHANGED <<files, cluster, archive, foreign, order, binary, orders>>

\* waitReady dials the port; running() then asks whether the cluster is ours.
WaitReady ==
    /\ At("ready")
    /\ \/ pg.up /\ Proceed("database") /\ UNCHANGED <<files, cluster, archive, World>>
       \/ ~pg.up /\ StackFails /\ UNCHANGED trouble

\* ensureDatabase, with the password of the file.
EnsureDatabase ==
    /\ At("database")
    /\ \/ /\ pg.up /\ files.pw = cluster.pw
          /\ cluster' = [cluster EXCEPT !.db = TRUE]
          /\ Proceed("key")
          /\ UNCHANGED <<files, archive, World>>
       \/ ~(pg.up /\ files.pw = cluster.pw) /\ StackFails /\ UNCHANGED trouble

\* masterKey, read or drawn like the password; an empty one is refused by the
\* configuration loader.
MasterKey ==
    /\ At("key")
    /\ \/ /\ files.key = 0
          /\ files' = [files EXCEPT !.key = -1, !.drawn = @ + 1]
          /\ Proceed("writeKey")
          /\ UNCHANGED <<cluster, archive, World>>
       \/ files.key > 0 /\ Proceed("migrate") /\ UNCHANGED <<files, cluster, archive, World>>
       \/ files.key < 0 /\ StackFails /\ UNCHANGED trouble

WriteKey ==
    /\ At("writeKey")
    /\ files' = [files EXCEPT !.key = files.drawn, !.loose = @ \cup {"key"}]
    /\ Proceed("migrate")
    /\ UNCHANGED <<cluster, archive, World>>

\* Runner.Up: every migration that is missing, in one transaction.
Migrate ==
    /\ At("migrate")
    /\ \/ /\ pg.up
          /\ cluster' = [cluster EXCEPT !.schema = @ \cup 1..binary]
          /\ Proceed("serve")
          /\ UNCHANGED <<files, archive, World>>
       \/ ~pg.up /\ StackFails /\ UNCHANGED trouble
       \/ pg.up /\ Trouble /\ StackFails

\* A bug: a schema newer than the binary counts as current.
MutIsCurrent == 1..binary \subseteq cluster.schema

\* Status and IsCurrent: nothing pending and nothing above what the binary has.
IsCurrent ==
    /\ 1..binary \subseteq cluster.schema
    /\ \A v \in cluster.schema : v <= binary

\* RunServer listens without asking for the migrations; from then on its
\* services encrypt with the master key.
RunServer ==
    /\ At("serve") /\ ~stack.api
    /\ \/ /\ listener = "none" /\ 0 \notin foreign
          /\ stack' = [stack EXCEPT !.api = TRUE]
          /\ listener' = "ours"
          /\ cluster' = IF cluster.key = 0 THEN [cluster EXCEPT !.key = files.key] ELSE cluster
          /\ UNCHANGED <<files, archive, pg, foreign, scm, order, binary, trouble, orders>>
       \/ 0 \in foreign /\ StackFails /\ UNCHANGED trouble

\* RunWorker runs the readiness check first; its error ends the whole group.
RunWorker ==
    /\ At("serve") /\ ~stack.worker
    /\ \/ /\ pg.up /\ IsCurrent
          /\ stack' = [stack EXCEPT !.worker = TRUE]
          /\ UNCHANGED <<files, cluster, archive, World>>
       \/ ~(pg.up /\ IsCurrent) /\ StackFails /\ UNCHANGED trouble

StackStep ==
    \/ CheckHTTPPortFree \/ EnsureInitialized \/ Password \/ WritePassword \/ Initdb
    \/ SetAside \/ PublishCluster \/ StartPostgres \/ PgCtlStart \/ WaitReady
    \/ EnsureDatabase \/ MasterKey \/ WriteKey \/ Migrate \/ RunServer \/ RunWorker

-----------------------------------------------------------------------------
(* The service manager. *)

Disk == <<files, cluster, archive>>

StartService ==
    /\ scm' = [scm EXCEPT !.state = "running", !.pending = FALSE]
    /\ stack' = [NoStack EXCEPT !.at = "boot"]

\* At boot, or 15 seconds after a failure.
ServiceManagerStarts ==
    /\ scm.pending /\ scm.state = "stopped" /\ scm.reg = "present"
    /\ StartService
    /\ UNCHANGED <<Disk, pg, foreign, listener, order, binary, trouble, orders>>

\* The stop request reached the process: its context is cancelled, Run
\* returns and the process leaves without an error.
StackStops ==
    /\ scm.state = "stopping"
    /\ stack' = NoStack
    /\ \/ stack.at \in Guarded /\ pg' = NoPg
       \/ UNCHANGED pg
    /\ listener' = Closed
    /\ scm' = Stopped(FALSE)
    /\ UNCHANGED <<Disk, foreign, order, binary, trouble, orders>>

ListenerCloses ==
    /\ listener = "old"
    /\ listener' = "none"
    /\ UNCHANGED <<Disk, stack, pg, foreign, scm, order, binary, trouble, orders>>

-----------------------------------------------------------------------------
(* Control: commands are sequences of operations on the service manager; an  *)
(* error ends the command.                                                   *)

Commands ==
    { <<"start">>, <<"stop">>, <<"stop", "start">>, <<"ensure", "start">>,
      <<"stop", "uninstall", "gone", "install", "start">>, <<"stop", "update", "start">> }

GiveOrder ==
    /\ order = <<>> /\ orders < MaxOrders
    /\ order' \in Commands
    /\ orders' = orders + 1
    /\ UNCHANGED <<Disk, stack, pg, foreign, listener, scm, binary, trouble>>

Doing(op) == order # <<>> /\ Head(order) = op
Next1 == order' = Tail(order)
GiveUp == order' = <<>>
Rest == <<Disk, pg, foreign, listener, trouble, orders>>

\* startWindowsService.
Start ==
    /\ Doing("start")
    /\ \/ /\ scm.reg = "present" /\ scm.state = "stopped"
          /\ StartService /\ Next1
       \/ scm.state = "running" /\ Next1 /\ UNCHANGED <<scm, stack>>
       \/ scm.reg # "present" /\ GiveUp /\ UNCHANGED <<scm, stack>>
    /\ UNCHANGED <<Rest, binary>>

\* stopWindowsService: a service that is STOPPED is left alone, even when the
\* service manager is about to start it again.  The wait for STOPPED is bounded.
Stop ==
    /\ Doing("stop")
    /\ \/ scm.state = "stopped" /\ Next1 /\ UNCHANGED <<scm, trouble>>
       \/ /\ scm.state = "running"
          /\ scm' = [scm EXCEPT !.state = "stopping"]
          /\ UNCHANGED <<order, trouble>>
       \/ scm.state = "stopping" /\ Trouble /\ GiveUp /\ UNCHANGED scm
    /\ UNCHANGED <<Disk, pg, foreign, listener, orders, binary, stack>>

\* ensureServiceWith: install what is missing.
Ensure ==
    /\ Doing("ensure")
    /\ scm' = [scm EXCEPT !.reg = IF @ = "absent" THEN "present" ELSE @]
    /\ Next1
    /\ UNCHANGED <<Rest, binary, stack>>

\* Install refuses a registration that is there.
Install ==
    /\ Doing("install")
    /\ \/ scm.reg = "absent" /\ scm' = [scm EXCEPT !.reg = "present"] /\ Next1
       \/ scm.reg # "absent" /\ GiveUp /\ UNCHANGED scm
    /\ UNCHANGED <<Rest, binary, stack>>

\* DeleteService takes effect when the process is gone.
Uninstall ==
    /\ Doing("uninstall")
    /\ scm' = [scm EXCEPT !.reg = IF scm.state = "stopped" THEN "absent" ELSE "marked",
                          !.pending = @ /\ scm.state # "stopped"]
    /\ Next1
    /\ UNCHANGED <<Rest, binary, stack>>

\* repairServiceWith waits 15 seconds for the old registration to go.
Gone ==
    /\ Doing("gone")
    /\ \/ scm.reg = "absent" /\ Next1
       \/ scm.reg = "marked" /\ GiveUp
    /\ UNCHANGED <<Rest, binary, stack, scm>>

\* The updater replaces the program of a stopped service, by a newer or, on a
\* rollback, an older release.
Update ==
    /\ Doing("update")
    /\ \/ scm.state = "stopped" /\ binary' \in 1..MaxBinary /\ Next1
       \/ scm.state # "stopped" /\ GiveUp /\ UNCHANGED binary
    /\ UNCHANGED <<Rest, stack, scm>>

OrderStep == Start \/ Stop \/ Ensure \/ Install \/ Uninstall \/ Gone \/ Update

-----------------------------------------------------------------------------
(* Faults. *)

\* The stack process dies; the postmaster, a process of its own, does not.
Kill ==
    /\ Trouble
    /\ stack.at # "down"
    /\ stack' = NoStack
    /\ listener' = Closed
    /\ scm' = Stopped(TRUE)
    /\ UNCHANGED <<Disk, pg, foreign, order, binary, orders>>

\* The machine stops.  The operating system writes files back some time later:
\* a secret that nobody synced is on disk by now, or its file is left empty.
PowerCut ==
    /\ Trouble
    /\ \E gone \in SUBSET files.loose :
        files' = [files EXCEPT !.pw = IF "pw" \in gone THEN -1 ELSE @,
                               !.key = IF "key" \in gone THEN -1 ELSE @,
                               !.loose = {}, !.lost = @ \cup gone]
    /\ stack' = NoStack /\ pg' = NoPg /\ listener' = "none"
    /\ scm' = Stopped(TRUE)
    /\ order' = <<>>
    /\ UNCHANGED <<cluster, archive, foreign, binary, orders>>

PostmasterDies ==
    /\ Trouble
    /\ pg.up
    /\ pg' = NoPg
    /\ UNCHANGED <<Disk, stack, foreign, listener, scm, order, binary, orders>>

\* Another program takes a port nobody holds.
ForeignProgram ==
    /\ Trouble
    /\ \E p \in Ports \cup {0} :
        /\ ~Busy(p)
        /\ p = 0 => listener = "none"
        /\ foreign' = foreign \cup {p}
    /\ UNCHANGED <<Disk, stack, pg, listener, scm, order, binary, orders>>

DesktopNext ==
    \/ StackStep \/ ServiceManagerStarts \/ StackStops \/ ListenerCloses
    \/ GiveOrder \/ OrderStep
    \/ Kill \/ PowerCut \/ PostmasterDies \/ ForeignProgram

\* The process, the service manager and a command that was given go on.
DesktopFairness ==
    /\ WF_desktopVars(StackStep) /\ WF_desktopVars(ServiceManagerStarts)
    /\ WF_desktopVars(StackStops) /\ WF_desktopVars(ListenerCloses)
    /\ WF_desktopVars(OrderStep)

DesktopSpec == DesktopInit /\ [][DesktopNext]_desktopVars /\ DesktopFairness

-----------------------------------------------------------------------------
(* Properties. *)

\* What a power cut that came before the flush makes of a secret: nothing else
\* ever takes the place of the secret that belongs to cluster and data.
Emptied(secret) == IF secret \in files.lost THEN {-1} ELSE {}

\* Whatever crashes, restarts and updates came before: the password file opens
\* the published cluster, the key file is the one its data was encrypted with
\* (either may be empty, but only where a power cut came before its flush),
\* the stack talks to its own cluster, a half-made directory it replaced was
\* set aside, and a worker runs on exactly the schema its release knows.
DesktopIsWhole ==
    /\ cluster.made = "whole" => files.pw \in {cluster.pw} \cup Emptied("pw") /\ cluster.pw > 0
    /\ cluster.key # 0 => files.key \in {cluster.key} \cup Emptied("key")
    /\ (stack.at \in Guarded /\ pg.up) => stack.port = pg.port
    /\ (archive.found /\ cluster.made # "partial") => archive.kept
    /\ stack.worker => cluster.schema = 1..binary

Serving == stack.api /\ stack.worker /\ pg.up

\* What the code leaves to a person: a secret's file that a crash or a power cut left empty,
\* a release older than its schema, ports held by other programs, a service
\* that was stopped on purpose or lost its registration, and a postmaster that
\* died under a stack that serves, which no component of the stack notices.
NeedsHelp ==
    \/ files.pw < 0 /\ stack.at # "writePassword"
    \/ files.key < 0 /\ stack.at # "writeKey"
    \/ \E v \in cluster.schema : v > binary
    \/ 0 \in foreign \/ Ports \subseteq foreign
    \/ scm.reg # "present"
    \/ scm.state = "stopped" /\ ~scm.pending /\ order = <<>>
    \/ stack.api /\ stack.worker /\ ~pg.up

\* An installation that needs no person's help serves, again and again,
\* whatever was interrupted before.
DesktopComesUp == []<>(Serving \/ NeedsHelp)
=============================================================================
