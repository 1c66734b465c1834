----------------------------- MODULE Lifecycle ------------------------------
(***************************************************************************)
(* What the coordinator's calls do to the system: the activation           *)
(* transaction of plugin/py_modules/mango_overlay_decky/lifecycle.py, the  *)
(* launcher that every service starts through (launcher.py), and the       *)
(* session's MangoApp.  An activation records what it is about to change,  *)
(* changes it in several steps and removes the record; the process may die *)
(* after any of them, and the next operation that takes the lifecycle lock *)
(* rolls back what it finds recorded.                                      *)
(*                                                                         *)
(* installed, which Coordinator knows, is here what the last activation    *)
(* that was completed left; install is what install.json says meanwhile.   *)
(***************************************************************************)
EXTENDS Coordinator

CONSTANTS
    System,         \* the system's own MangoApp
    Launching       \* the launcher runs and has not looked yet

Transactions == [prior : Revisions \cup {None}, linked : BOOLEAN]

ASSUME LifecycleAssumption ==
    /\ System # Launching
    /\ {System, Launching} \cap (Revisions \cup {None}) = {}
    /\ None \notin Transactions

VARIABLES
    install,        \* active_runtime in install.json
    linked,         \* whether the drop-in sends MangoApp through the launcher
    transaction,    \* transaction.json
    trial,          \* how far the activation under the lifecycle lock is
    renderer        \* what gamescope-mangoapp.service runs

lifecycleVars == <<install, linked, transaction, trial>>
systemVars == <<coordinatorVars, lifecycleVars, renderer>>

-----------------------------------------------------------------------------
(* launcher.py                                                             *)

(* The unit starts the launcher where the drop-in says so.                 *)
Started(link) == IF link THEN Launching ELSE System

(* Mutant: the installation is asked, whatever the coordinator decided.    *)
InstalledCore == install

(* active_runtime: the coordinator's pointer names the core; only where    *)
(* there is no coordinator's state the installation does.                  *)
ActiveRuntime == IF stored THEN active ELSE install

Launch ==
    /\ renderer = Launching
    /\ renderer' = IF ActiveRuntime # None THEN ActiveRuntime ELSE System
    /\ UNCHANGED <<coordinatorVars, lifecycleVars>>

(* run_managed_mangoapp goes on with the system's when the managed one     *)
(* exits.                                                                  *)
RendererExits ==
    /\ renderer \in Revisions
    /\ renderer' = System
    /\ UNCHANGED <<coordinatorVars, lifecycleVars>>

(* Another session starts MangoApp anew.                                   *)
StartSession ==
    /\ renderer' = Started(linked)
    /\ UNCHANGED <<coordinatorVars, lifecycleVars>>

-----------------------------------------------------------------------------
(* _activate_prepared_locked, after verify_candidate                       *)

Trying(stage) == trial = stage
Proceeds(stage) == trial' = stage
Switching == transaction.prior # call.revision

(* Mutant: what an interrupted activation left is not rolled back first.   *)
BeginOverInterrupted ==
    /\ Holding("activate")
    /\ Trying("none")
    /\ transaction' = [prior |-> install, linked |-> linked]
    /\ Proceeds("recorded")
    /\ UNCHANGED <<coordinatorVars, install, linked, renderer>>

Begin ==
    /\ Holding("activate")
    /\ Trying("none")
    /\ transaction = None
    /\ transaction' = [prior |-> install, linked |-> linked]
    /\ Proceeds("recorded")
    /\ UNCHANGED <<coordinatorVars, install, linked, renderer>>

InstallUnits ==
    /\ Trying("recorded")
    /\ linked' = TRUE
    /\ Proceeds("linked")
    /\ UNCHANGED <<coordinatorVars, install, transaction, renderer>>

WriteState ==
    /\ Trying("linked")
    /\ install' = call.revision
    /\ Proceeds("switched")
    /\ UNCHANGED <<coordinatorVars, linked, transaction, renderer>>

(* The launcher that starts reads the pointer when it gets there: before   *)
(* or after the coordinator moves it.                                      *)
RestartServices ==
    /\ Trying("switched")
    /\ renderer' = IF Switching THEN Started(linked) ELSE renderer
    /\ Proceeds("restarted")
    /\ UNCHANGED <<coordinatorVars, install, linked, transaction>>

Complete ==
    /\ Trying("restarted")
    /\ ActivationSucceeds
    /\ transaction' = None
    /\ Proceeds("none")
    /\ UNCHANGED <<install, linked, renderer>>

(* A step fails: everything is put back, the services restart again, and   *)
(* the record goes.                                                        *)
Undo ==
    /\ ~Trying("none")
    /\ ActivationFails
    /\ install' = transaction.prior
    /\ linked' = transaction.linked
    /\ renderer' = IF Switching THEN Started(linked') ELSE renderer
    /\ transaction' = None
    /\ Proceeds("none")

(* Putting it back fails half way, and the record stays.                   *)
UndoBreaks ==
    /\ ~Trying("none")
    /\ ActivationFails
    /\ install' = transaction.prior
    /\ linked' \in {linked, transaction.linked}
    /\ Proceeds("none")
    /\ UNCHANGED <<transaction, renderer>>

(* verify_candidate fails, or nothing can be recorded.                     *)
FailVerification ==
    /\ Trying("none")
    /\ ActivationFails
    /\ UNCHANGED <<lifecycleVars, renderer>>

(* _recover_incomplete_locked, which preparing, activating and refreshing  *)
(* start with; the record goes last.                                       *)
Recover ==
    /\ Trying("none")
    /\ transaction # None
    /\ install' = transaction.prior
    /\ linked' = transaction.linked
    /\ renderer' = Started(linked')
    /\ transaction' = None
    /\ UNCHANGED <<coordinatorVars, trial>>

(* It fails, or its process dies, half way.                                *)
RecoverBreaks ==
    /\ Trying("none")
    /\ transaction # None
    /\ install' = transaction.prior
    /\ linked' \in {linked, transaction.linked}
    /\ UNCHANGED <<coordinatorVars, transaction, trial, renderer>>

-----------------------------------------------------------------------------
(* restore_system_mangoapp, when the coordinator calls it.                 *)

BackToSystem ==
    /\ linked' = FALSE
    /\ renderer' = System
    /\ UNCHANGED <<install, transaction, trial>>

Restore == RestoreSucceeds /\ BackToSystem

EndRestore ==
    /\ RestoreEnds
    /\ \/ BackToSystem
       \/ UNCHANGED <<lifecycleVars, renderer>>

-----------------------------------------------------------------------------
LifecycleInit ==
    /\ Init
    /\ install = installed
    /\ linked = (installed # None)
    /\ transaction = None
    /\ trial = "none"
    /\ renderer = Started(linked)

(* What a call does until it gives the coordinator's lock back.            *)
InCall ==
    \/ Begin
    \/ InstallUnits
    \/ WriteState
    \/ RestartServices
    \/ Complete
    \/ Undo
    \/ UndoBreaks
    \/ FailVerification
    \/ Commit /\ UNCHANGED <<lifecycleVars, renderer>>
    \/ Restore
    \/ EndRestore

Recovery == Recover \/ RecoverBreaks

Session == Launch \/ RendererExits \/ StartSession

(* What the coordinator does without touching the system.                  *)
Elsewhere ==
    /\ \/ \E p \in Products : Registration(p) \/ Removal(p)
       \/ \E rs \in SUBSET Revisions : Retry(rs)
    /\ UNCHANGED <<lifecycleVars, renderer>>

Die ==
    /\ Crash
    /\ Proceeds("none")
    /\ UNCHANGED <<install, linked, transaction, renderer>>

LifecycleNext == InCall \/ Recovery \/ Session \/ Elsewhere \/ Die

LifecycleSpec == LifecycleInit /\ [][LifecycleNext]_systemVars

(* A call goes on, as in Coordinator, whatever becomes of the recoveries.  *)
FairLifecycleSpec == LifecycleSpec /\ WF_systemVars(InCall)

-----------------------------------------------------------------------------
Stages == {"none", "recorded", "linked", "switched", "restarted"}

LifecycleTypeOK ==
    /\ TypeOK
    /\ install \in Revisions \cup {None}
    /\ linked \in BOOLEAN
    /\ transaction \in Transactions \cup {None}
    /\ trial \in Stages
    /\ renderer \in Revisions \cup {System, Launching}

(* However many activations and recoveries are cut off in a row, what the  *)
(* last completed one installed is not lost: install.json names it, or the *)
(* record does (lifecycle.py, the transaction and                          *)
(* _recover_incomplete_locked).                                            *)
TrialsAreUndone ==
    IF transaction = None THEN install = installed ELSE transaction.prior = installed

(* No start of MangoApp, in a session, an activation, a rollback or a      *)
(* recovery, runs a core that failed to start before, although             *)
(* install.json may name it at that moment (launcher.py, active_runtime).  *)
QuarantinedNeverStarts ==
    [][renderer' # renderer => renderer' \notin failed]_systemVars

(* docs/lifecycle.md: "Decky 更新成功 | 切换到新版本 | 验证后热切换", an    *)
(* update that succeeds switches the running MangoApp to the new core.  It *)
(* does not: the services restart before the pointer moves.                *)
HotSwitch ==
    [][active # None /\ active' \notin {None, active}
       => renderer' \in {active', Launching}]_systemVars

=============================================================================
