-------------------------- MODULE HostMaintenance --------------------------
(***************************************************************************)
(* Operating-system maintenance of one node: `host updates apply` runs apt *)
(* in a transient unit, `host reboot` schedules a reboot guard, and the    *)
(* guard requests the reboot when its timer fires.  They meet only through *)
(* the maintenance lock, the list of active units and the package locks.   *)
(*                                                                         *)
(* A unit outlives the command that asked systemd for it, and so may the   *)
(* asking: the systemd-run of a killed command may still reach systemd.    *)
(***************************************************************************)
CONSTANTS
    Operator,   \* processes that run maintenance commands
    Update,     \* update units launched in one run
    Guard       \* reboot guards scheduled in one run

VARIABLES
    command,    \* of each operator: the step of its command, and its unit
    maintenance,\* holder of the maintenance lock, or NoHolder
    packages,   \* holder of the dpkg locks, or NoHolder
    update,     \* state of each update unit
    guard,      \* state of each reboot guard
    late        \* units and timers that started after their command was gone

maintenanceVars == <<command, maintenance, packages, update, guard, late>>

NoHolder == "none"
Foreign == "unattended-upgrades"

ASSUME MaintenanceAssumption ==
    /\ Operator \cap Update = {} /\ Operator \cap Guard = {} /\ Update \cap Guard = {}
    /\ {NoHolder, Foreign} \cap (Operator \cup Update \cup Guard) = {}

UpdateState == {"unused", "launching", "waiting", "installing", "marking", "ended"}
GuardState == {"unused", "launching", "timer", "polling", "unblocked", "locking", "locked",
               "requested", "ended"}
CommandStep == {"off", "apply", "no-reboot", "no-update", "prepared", "waiting",
                "reboot", "unblocked", "unlocked", "scheduling"}

Off == [step |-> "off", unit |-> NoHolder]

MaintenanceInit ==
    /\ command = [o \in Operator |-> Off]
    /\ maintenance = NoHolder
    /\ packages \in {NoHolder, Foreign}
    /\ update = [u \in Update |-> "unused"]
    /\ guard = [g \in Guard |-> "unused"]
    /\ late = {}

-----------------------------------------------------------------------------
(* What systemctl list-units shows.                                        *)

UpdateActive(u) == update[u] \in {"waiting", "installing", "marking"}
UpdateRunning == \E u \in Update : UpdateActive(u)

\* Mutant of RebootScheduled: only services are listed, no timers.
RebootFiring == \E g \in Guard : guard[g] \notin {"unused", "launching", "timer", "ended"}

\* A waiting timer is active, and so is the guard it started.
RebootScheduled == \E g \in Guard : guard[g] \notin {"unused", "launching", "ended"}

Step(o, s) == command' = [command EXCEPT ![o].step = s]

\* A command returns, or its process ends: the lock it holds is released.
Returns(o) ==
    /\ command' = [command EXCEPT ![o] = Off]
    /\ maintenance' = IF maintenance = o THEN NoHolder ELSE maintenance

-----------------------------------------------------------------------------
(* Apply                                                                   *)

\* Apply and Reboot begin by taking the maintenance lock, or refuse as busy.
maintenanceLock(o, s) ==
    /\ command[o] = Off /\ maintenance = NoHolder
    /\ maintenance' = o
    /\ Step(o, s)
    /\ UNCHANGED <<packages, update, guard, late>>

\* prepareApply: a scheduled reboot, or a probe that fails, refuses the update.
CheckReboots(o) ==
    /\ command[o].step = "apply"
    /\ \/ ~RebootScheduled /\ Step(o, "no-reboot") /\ UNCHANGED maintenance
       \/ Returns(o)
    /\ UNCHANGED <<packages, update, guard, late>>

\* So does another update.
CheckUpdates(o) ==
    /\ command[o].step = "no-reboot"
    /\ \/ ~UpdateRunning /\ Step(o, "no-update") /\ UNCHANGED maintenance
       \/ Returns(o)
    /\ UNCHANGED <<packages, update, guard, late>>

\* The audit, both simulations and the digest admit the plan, and the package
\* locks were free when last probed; or one of them refuses.
PrepareUpdate(o) ==
    /\ command[o].step = "no-update"
    /\ \/ packages = NoHolder /\ Step(o, "prepared") /\ UNCHANGED maintenance
       \/ Returns(o)
    /\ UNCHANGED <<packages, update, guard, late>>

\* runUpdateUnit starts systemd-run, which asks systemd for the unit.
LaunchUpdate(o, u) ==
    /\ command[o].step = "prepared" /\ update[u] = "unused"
    /\ update' = [update EXCEPT ![u] = "launching"]
    /\ command' = [command EXCEPT ![o] = [step |-> "waiting", unit |-> u]]
    /\ UNCHANGED <<maintenance, packages, guard, late>>

\* The unit is refused, or has ended: its command returns.
UpdateReturns(o) ==
    /\ command[o].step = "waiting"
    /\ update[command[o].unit] \in {"launching", "ended"}
    /\ update' = [update EXCEPT ![command[o].unit] = "ended"]
    /\ Returns(o)
    /\ UNCHANGED <<packages, guard, late>>

\* The bounded wait ends, the unit keeps running.
WaitExpires(o) ==
    /\ command[o].step = "waiting" /\ UpdateActive(command[o].unit)
    /\ Returns(o)
    /\ UNCHANGED <<packages, update, guard, late>>

\* The process of a command is killed.
CommandDies(o) ==
    /\ command[o] # Off
    /\ Returns(o)
    /\ UNCHANGED <<packages, update, guard, late>>

-----------------------------------------------------------------------------
(* The update unit: apt-get install, then apt-mark                         *)

\* A unit or timer is late when no command waits for it any more.
Landed(x) ==
    IF \E o \in Operator : command[o].unit = x THEN late ELSE late \cup {x}

UpdateStarts(u) ==
    /\ update[u] = "launching"
    /\ update' = [update EXCEPT ![u] = "waiting"]
    /\ late' = Landed(u)
    /\ UNCHANGED <<command, maintenance, packages, guard>>

UpdateInstalls(u) ==
    /\ update[u] = "waiting" /\ packages = NoHolder
    /\ update' = [update EXCEPT ![u] = "installing"]
    /\ packages' = u
    /\ UNCHANGED <<command, maintenance, guard, late>>

\* apt-get ends, also when its wait for the locks does; the automatic-install
\* marks are restored either way.
UpdateInstalled(u) ==
    /\ update[u] \in {"waiting", "installing"}
    /\ update' = [update EXCEPT ![u] = "marking"]
    /\ packages' = IF packages = u THEN NoHolder ELSE packages
    /\ UNCHANGED <<command, maintenance, guard, late>>

UpdateEnds(u) ==
    /\ update[u] = "marking"
    /\ update' = [update EXCEPT ![u] = "ended"]
    /\ UNCHANGED <<command, maintenance, packages, guard, late>>

-----------------------------------------------------------------------------
(* Reboot                                                                  *)

\* rebootBlocker: the control plane, a failing probe or an update refuses.
CheckBlocker(o) ==
    /\ command[o].step = "reboot"
    /\ \/ ~UpdateRunning /\ Step(o, "unblocked") /\ UNCHANGED maintenance
       \/ Returns(o)
    /\ UNCHANGED <<packages, update, guard, late>>

\* heldPackageLock.
CheckPackages(o) ==
    /\ command[o].step = "unblocked"
    /\ \/ packages = NoHolder /\ Step(o, "unlocked") /\ UNCHANGED maintenance
       \/ Returns(o)
    /\ UNCHANGED <<packages, update, guard, late>>

\* systemd-run asks systemd for the timer.
Schedule(o, g) ==
    /\ command[o].step = "unlocked" /\ guard[g] = "unused"
    /\ guard' = [guard EXCEPT ![g] = "launching"]
    /\ command' = [command EXCEPT ![o] = [step |-> "scheduling", unit |-> g]]
    /\ UNCHANGED <<maintenance, packages, update, late>>

\* The timer is installed, whatever systemd-run reports, or refused.
Scheduled(o) ==
    /\ command[o].step = "scheduling"
    /\ guard' = [guard EXCEPT ![command[o].unit] =
                    IF @ = "launching" THEN "ended" ELSE @]
    /\ Returns(o)
    /\ UNCHANGED <<packages, update, late>>

-----------------------------------------------------------------------------
(* RebootGuard                                                             *)

GuardTo(g, s) == guard' = [guard EXCEPT ![g] = s]

\* The locks of a guard that waits, ends or gives up.
GuardReleases(g) ==
    /\ maintenance' = IF maintenance = g THEN NoHolder ELSE maintenance
    /\ packages' = IF packages = g THEN NoHolder ELSE packages

\* A busy node is polled again, until the polls are used up.
GuardWaits(g) == GuardTo(g, "polling") \/ GuardTo(g, "ended")

TimerStarts(g) ==
    /\ guard[g] = "launching"
    /\ GuardTo(g, "timer")
    /\ late' = Landed(g)
    /\ UNCHANGED <<command, maintenance, packages, update>>

GuardFires(g) ==
    /\ guard[g] = "timer"
    /\ GuardTo(g, "polling")
    /\ UNCHANGED <<command, maintenance, packages, update, late>>

\* guardAdmit asks rebootBlocker again; anything but an update ends the guard.
GuardAdmit(g) ==
    /\ guard[g] = "polling"
    /\ \/ ~UpdateRunning /\ GuardTo(g, "unblocked")
       \/ UpdateRunning /\ GuardWaits(g)
       \/ GuardTo(g, "ended")
    /\ UNCHANGED <<command, maintenance, packages, update, late>>

GuardTakesMaintenance(g) ==
    /\ guard[g] = "unblocked"
    /\ IF maintenance = NoHolder
       THEN GuardTo(g, "locking") /\ maintenance' = g
       ELSE GuardWaits(g) /\ UNCHANGED maintenance
    /\ UNCHANGED <<command, packages, update, late>>

\* The dpkg locks; when they are held every lock taken is released.
GuardTakesPackages(g) ==
    /\ guard[g] = "locking"
    /\ IF packages = NoHolder
       THEN GuardTo(g, "locked") /\ packages' = g /\ UNCHANGED maintenance
       ELSE GuardWaits(g) /\ GuardReleases(g)
    /\ UNCHANGED <<command, update, late>>

\* requestReboot keeps the locks until the shutdown, or releases them when
\* systemctl refuses.
RequestReboot(g) ==
    /\ guard[g] = "locked"
    /\ \/ GuardTo(g, "requested") /\ UNCHANGED <<maintenance, packages>>
       \/ GuardTo(g, "ended") /\ GuardReleases(g)
    /\ UNCHANGED <<command, update, late>>

\* The guard's unit is stopped before it requested anything.
GuardDies(g) ==
    /\ guard[g] \notin {"unused", "launching", "requested", "ended"}
    /\ GuardTo(g, "ended") /\ GuardReleases(g)
    /\ UNCHANGED <<command, update, late>>

-----------------------------------------------------------------------------
(* The node                                                                *)

\* Another package run (external) starts and ends.
ForeignRun ==
    /\ packages \in {NoHolder, Foreign}
    /\ packages' = IF packages = Foreign THEN NoHolder ELSE Foreign
    /\ UNCHANGED <<command, maintenance, update, guard, late>>

\* The shutdown that was requested ends every process, unit and timer.
Shutdown ==
    /\ \E g \in Guard : guard[g] = "requested"
    /\ command' = [o \in Operator |-> Off]
    /\ maintenance' = NoHolder /\ packages' = NoHolder
    /\ update' = [u \in Update |-> IF update[u] = "unused" THEN "unused" ELSE "ended"]
    /\ guard' = [g \in Guard |-> IF guard[g] = "unused" THEN "unused" ELSE "ended"]
    /\ UNCHANGED late

CommandStepOf(o) ==
    \/ maintenanceLock(o, "apply") \/ CheckReboots(o) \/ CheckUpdates(o)
    \/ PrepareUpdate(o) \/ UpdateReturns(o) \/ WaitExpires(o) \/ CommandDies(o)
    \/ \E u \in Update : LaunchUpdate(o, u)
    \/ maintenanceLock(o, "reboot") \/ CheckBlocker(o) \/ CheckPackages(o)
    \/ \E g \in Guard : Schedule(o, g)
    \/ Scheduled(o)

UpdateStepOf(u) ==
    UpdateStarts(u) \/ UpdateInstalls(u) \/ UpdateInstalled(u) \/ UpdateEnds(u)

GuardStepOf(g) ==
    \/ TimerStarts(g) \/ GuardFires(g) \/ GuardAdmit(g)
    \/ GuardTakesMaintenance(g)
    \/ GuardTakesPackages(g) \/ RequestReboot(g) \/ GuardDies(g)

MaintenanceNext ==
    \/ \E o \in Operator : CommandStepOf(o)
    \/ \E u \in Update : UpdateStepOf(u)
    \/ \E g \in Guard : GuardStepOf(g)
    \/ ForeignRun \/ Shutdown

MaintenanceSpec == MaintenanceInit /\ [][MaintenanceNext]_maintenanceVars

-----------------------------------------------------------------------------

\* Type correctness of the commands, the locks, the units and the guards.
MaintenanceTypeOK ==
    /\ command \in [Operator -> [step : CommandStep, unit : Update \cup Guard \cup {NoHolder}]]
    /\ maintenance \in Operator \cup Guard \cup {NoHolder}
    /\ packages \in Update \cup Guard \cup {NoHolder, Foreign}
    /\ update \in [Update -> UpdateState]
    /\ guard \in [Guard -> GuardState]
    /\ late \subseteq Update \cup Guard

\* A requested reboot interrupts no package run and no update: the guard holds
\* the package locks and no update unit is active, whatever command was killed
\* or stopped waiting before; and no two update units are ever active.  Units
\* and timers that systemd started after their command was killed are outside:
\* no check could have listed them.
RebootInterruptsNothing ==
    /\ \A g \in Guard : guard[g] = "requested" =>
          /\ packages = g
          /\ g \notin late => \A u \in Update \ late : ~UpdateActive(u)
    /\ \A u, v \in Update \ late : UpdateActive(u) /\ UpdateActive(v) => u = v

=============================================================================
