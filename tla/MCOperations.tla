---------------------------- MODULE MCOperations ----------------------------
(* The operation of one installation: operation control, backups, the       *)
(* desktop stack and the demo company.  One of them is acted out and the     *)
(* others stand still.                                                       *)
EXTENDS Opctl, Backup, Desktop, Demo

VARIABLE scene

everything == <<scene, opctlVars, backupVars, desktopVars, demoVars>>

MCInit ==
    /\ scene \in {"control", "backup", "desktop", "demo"}
    /\ OpctlInit /\ BackupInit /\ DemoInit
    /\ DesktopInit
    /\ (scene # "desktop" => (cluster.made = "none" /\ binary = 1))

ControlNext ==
    scene = "control" /\ OpctlNext /\ UNCHANGED <<scene, backupVars, desktopVars, demoVars>>
ArchiveNext ==
    scene = "backup" /\ BackupNext /\ UNCHANGED <<scene, opctlVars, desktopVars, demoVars>>
StackNext ==
    scene = "desktop" /\ DesktopNext /\ UNCHANGED <<scene, opctlVars, backupVars, demoVars>>
ShowcaseNext ==
    scene = "demo" /\ DemoNext /\ UNCHANGED <<scene, opctlVars, backupVars, desktopVars>>

MCNext == ControlNext \/ ArchiveNext \/ StackNext \/ ShowcaseNext

\* The fairness of each part, in the scene that acts it out.  Nothing that is
\* fair in operation control or in a backup can happen before somebody begins
\* one; the desktop and the demo begin by themselves, and do so in their scene.
DesktopActs ==
    /\ WF_desktopVars(scene = "desktop" /\ StackStep)
    /\ WF_desktopVars(scene = "desktop" /\ ServiceManagerStarts)
    /\ WF_desktopVars(scene = "desktop" /\ StackStops)
    /\ WF_desktopVars(scene = "desktop" /\ ListenerCloses)
    /\ WF_desktopVars(scene = "desktop" /\ OrderStep)

DemoActs ==
    /\ WF_demoVars(scene = "demo" /\ WorkerStarts)
    /\ WF_demoVars(scene = "demo" /\ Tick)
    /\ \A b \in Builders : WF_demoVars(scene = "demo" /\ BuilderStep(b))
    /\ WF_demoVars(scene = "demo" /\ DuePasses)
    /\ WF_demoVars(scene = "demo" /\ CooldownPasses)

MCSpec ==
    /\ MCInit /\ [][MCNext]_everything
    /\ OpctlFairness /\ BackupFairness /\ DesktopActs /\ DemoActs
=============================================================================
