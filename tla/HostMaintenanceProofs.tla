----------------------- MODULE HostMaintenanceProofs -----------------------
(***************************************************************************)
(* A reboot of the node interrupts no update and no package run, for every *)
(* number of operators, update units and reboot guards.                    *)
(***************************************************************************)
EXTENDS HostMaintenance, TLAPS

-----------------------------------------------------------------------------
(* The inductive invariant.                                                *)

\* A command under way holds the maintenance lock, and only the last step of
\* an update or of a reboot has a unit.
CommandHolds ==
    \A o \in Operator :
        /\ command[o].step # "off" => maintenance = o
        /\ command[o].unit \in Update <=> command[o].step = "waiting"
        /\ command[o].unit \in Guard <=> command[o].step = "scheduling"

\* A guard that requests the reboot holds the package locks.
GuardHolds ==
    \A g \in Guard : guard[g] \in {"locked", "requested"} => packages = g

Active(g) == guard[g] \notin {"unused", "launching", "ended"}

\* The update units that some command may still be waiting for.
Listed == {u \in Update \ late : UpdateActive(u)}

\* While its command holds the lock, an update is alone from the check on and a
\* reboot is scheduled with none under way.
CommandSees ==
    \A o \in Operator :
        /\ command[o].step \in {"no-update", "prepared", "unblocked", "unlocked",
                                "scheduling"} => Listed = {}
        /\ command[o].step = "waiting" => Listed \subseteq {command[o].unit}

\* From its timer on, a guard keeps every later command from an update.
GuardKeepsUpdatesOut ==
    \A g \in Guard \ late : Active(g) =>
        /\ \A o \in Operator : command[o].step \notin {"no-reboot", "no-update",
                                                       "prepared", "waiting"}
        /\ Listed = {}

\* Two listed units are one.
OneListed == \A u, v \in Listed : u = v

MaintenanceInv ==
    /\ MaintenanceTypeOK
    /\ CommandHolds
    /\ GuardHolds
    /\ CommandSees
    /\ GuardKeepsUpdatesOut
    /\ OneListed

-----------------------------------------------------------------------------
(* Every step keeps the invariant.                                         *)

(* Steps that launch, start and end no unit show the same units afterwards.  *)
LEMMA SameListed ==
  ASSUME late' = late, \A u \in Update : UpdateActive(u)' <=> UpdateActive(u)
  PROVE  Listed' = Listed
  BY DEF Listed

(* A command returns or dies: nothing is left that depended on it.           *)
LEMMA ReturnsKeeps ==
  ASSUME MaintenanceInv, NEW o \in Operator, Returns(o),
         UNCHANGED <<packages, late>>, guard' \in [Guard -> GuardState],
         update' \in [Update -> UpdateState],
         \A u \in Update : UpdateActive(u)' <=> UpdateActive(u),
         \A g \in Guard : /\ Active(g)' <=> Active(g)
                          /\ Active(g) => guard'[g] = guard[g]
  PROVE  MaintenanceInv'
  <1>1. /\ command \in [Operator -> [step : CommandStep,
                                     unit : Update \cup Guard \cup {NoHolder}]]
        /\ command' = [command EXCEPT ![o] = Off]
        /\ maintenance' = IF maintenance = o THEN NoHolder ELSE maintenance
    BY DEF Returns, MaintenanceInv, MaintenanceTypeOK
  <1>2. /\ command'[o] = Off
        /\ \A p \in Operator : p # o => command'[p] = command[p]
    BY <1>1
  <1>3. Listed' = Listed
    BY SameListed
  <1>4. NoHolder \notin Update /\ NoHolder \notin Guard
    BY MaintenanceAssumption
  <1>5. MaintenanceTypeOK'
    BY <1>1 DEF MaintenanceInv, MaintenanceTypeOK, Off, CommandStep
  <1>6. CommandHolds'
    BY <1>1, <1>2, <1>4 DEF MaintenanceInv, CommandHolds, Off
  <1>7. GuardHolds'
    BY DEF MaintenanceInv, GuardHolds, Active
  <1>8. CommandSees'
    BY <1>2, <1>3 DEF MaintenanceInv, CommandSees, Off
  <1>9. GuardKeepsUpdatesOut'
    BY <1>2, <1>3 DEF MaintenanceInv, GuardKeepsUpdatesOut, Off
  <1> QED
    BY <1>3, <1>5, <1>6, <1>7, <1>8, <1>9 DEF MaintenanceInv, OneListed

(* A command takes the lock or passes one of its checks.                     *)
LEMMA CheckKeeps ==
  ASSUME MaintenanceInv, NEW o \in Operator, NEW s \in CommandStep, Step(o, s),
         UNCHANGED <<packages, update, guard, late>>,
         s \notin {"off", "waiting", "scheduling"},
         command[o].step \notin {"waiting", "scheduling"},
         \/ command[o].step # "off" /\ maintenance' = maintenance
         \/ maintenance = NoHolder /\ maintenance' = o,
         \/ s \in {"apply", "reboot"}
         \/ s = "no-reboot" /\ ~RebootScheduled
         \/ s \in {"no-update", "unblocked"} /\ ~UpdateRunning
         \/ s \in {"prepared", "unlocked"} /\ Listed = {},
         s \in {"no-update", "prepared"} =>
             command[o].step \in {"no-reboot", "no-update", "prepared"}
  PROVE  MaintenanceInv'
  <1>1. /\ command \in [Operator -> [step : CommandStep,
                                     unit : Update \cup Guard \cup {NoHolder}]]
        /\ command' = [command EXCEPT ![o].step = s]
    BY DEF Step, MaintenanceInv, MaintenanceTypeOK
  <1>2. /\ command'[o].step = s /\ command'[o].unit = command[o].unit
        /\ \A p \in Operator : p # o => command'[p] = command[p]
    BY <1>1
  <1>3. Listed' = Listed
    BY SameListed DEF UpdateActive
  <1>4. NoHolder \notin Operator
    BY MaintenanceAssumption
  <1>5. MaintenanceTypeOK'
    BY <1>1 DEF MaintenanceInv, MaintenanceTypeOK
  <1>6. CommandHolds'
    BY <1>2, <1>4 DEF MaintenanceInv, CommandHolds
  <1>7. GuardHolds'
    BY DEF MaintenanceInv, GuardHolds
  <1>8. ~UpdateRunning => Listed = {}
    BY DEF UpdateRunning, Listed
  <1>9. CommandSees'
    BY <1>2, <1>3, <1>8 DEF MaintenanceInv, CommandSees
  <1>10. GuardKeepsUpdatesOut'
    <2> SUFFICES ASSUME NEW g \in Guard \ late, Active(g)
                 PROVE  /\ \A p \in Operator : command'[p].step \notin
                              {"no-reboot", "no-update", "prepared", "waiting"}
                        /\ Listed = {}
      BY <1>3 DEF GuardKeepsUpdatesOut, Active
    <2>1. /\ \A p \in Operator : command[p].step \notin
                {"no-reboot", "no-update", "prepared", "waiting"}
          /\ Listed = {}
      BY DEF MaintenanceInv, GuardKeepsUpdatesOut
    <2>2. s # "no-reboot"
      BY DEF Active, RebootScheduled
    <2> QED
      BY <1>2, <2>1, <2>2
  <1> QED
    BY <1>3, <1>5, <1>6, <1>7, <1>9, <1>10 DEF MaintenanceInv, OneListed

(* A command asks for the update unit or the guard it will wait for: neither *)
(* is active yet.                                                            *)
LEMMA LaunchKeeps ==
  ASSUME MaintenanceInv, NEW o \in Operator,
         (\E u \in Update : LaunchUpdate(o, u)) \/ (\E g \in Guard : Schedule(o, g))
  PROVE  MaintenanceInv'
  <1>1. PICK x \in Update \cup Guard, s \in {"waiting", "scheduling"} :
          /\ s = "waiting" => x \in Update /\ command[o].step = "prepared"
          /\ s = "scheduling" => x \in Guard /\ command[o].step = "unlocked"
          /\ command' = [command EXCEPT ![o] = [step |-> s, unit |-> x]]
          /\ UNCHANGED <<maintenance, packages, late>>
          /\ \A u \in Update : UpdateActive(u)' <=> UpdateActive(u)
          /\ \A g \in Guard : /\ Active(g)' <=> Active(g)
                              /\ Active(g) => guard'[g] = guard[g]
          /\ update' \in [Update -> UpdateState] /\ guard' \in [Guard -> GuardState]
    <2>1. ASSUME NEW u \in Update, LaunchUpdate(o, u)
          PROVE  /\ command[o].step = "prepared"
                 /\ command' = [command EXCEPT ![o] = [step |-> "waiting", unit |-> u]]
                 /\ UNCHANGED <<maintenance, packages, guard, late>>
                 /\ \A v \in Update : UpdateActive(v)' <=> UpdateActive(v)
                 /\ update' \in [Update -> UpdateState]
      BY <2>1 DEF LaunchUpdate, UpdateActive, UpdateState, MaintenanceInv,
                  MaintenanceTypeOK
    <2>2. ASSUME NEW g \in Guard, Schedule(o, g)
          PROVE  /\ command[o].step = "unlocked"
                 /\ command' = [command EXCEPT ![o] = [step |-> "scheduling", unit |-> g]]
                 /\ UNCHANGED <<maintenance, packages, update, late>>
                 /\ \A h \in Guard : /\ Active(h)' <=> Active(h)
                                     /\ Active(h) => guard'[h] = guard[h]
                 /\ guard' \in [Guard -> GuardState]
      BY <2>2 DEF Schedule, Active, GuardState, MaintenanceInv, MaintenanceTypeOK
    <2>3. CASE \E u \in Update : LaunchUpdate(o, u)
      BY <2>1, <2>3 DEF Active, MaintenanceInv, MaintenanceTypeOK
    <2>4. CASE \E g \in Guard : Schedule(o, g)
      BY <2>2, <2>4 DEF UpdateActive, MaintenanceInv, MaintenanceTypeOK
    <2> QED
      BY <2>3, <2>4
  <1>2. command'[o] = [step |-> s, unit |-> x]
        /\ \A p \in Operator : p # o => command'[p] = command[p]
    BY <1>1 DEF MaintenanceInv, MaintenanceTypeOK
  <1>3. Listed' = Listed
    BY <1>1, SameListed
  <1>4. maintenance = o /\ \A p \in Operator : p # o => command[p].step = "off"
    BY <1>1 DEF MaintenanceInv, CommandHolds
  <1>5. MaintenanceTypeOK'
    <2>1. [step |-> s, unit |-> x] \in [step : CommandStep,
                                        unit : Update \cup Guard \cup {NoHolder}]
      BY <1>1 DEF CommandStep
    <2> QED
      BY <1>1, <2>1 DEF MaintenanceInv, MaintenanceTypeOK
  <1>6. CommandHolds'
    <2>1. x \in Update <=> s = "waiting"
      BY <1>1, MaintenanceAssumption
    <2>2. x \in Guard <=> s = "scheduling"
      BY <1>1, MaintenanceAssumption
    <2> QED
      BY <1>1, <1>2, <1>4, <2>1, <2>2 DEF MaintenanceInv, CommandHolds
  <1>7. GuardHolds'
    BY <1>1 DEF MaintenanceInv, GuardHolds, Active
  <1>8. Listed = {}
    BY <1>1 DEF MaintenanceInv, CommandSees
  <1>9. CommandSees'
    BY <1>2, <1>3, <1>8 DEF MaintenanceInv, CommandSees
  <1>10. GuardKeepsUpdatesOut'
    BY <1>1, <1>2, <1>3, <1>8 DEF MaintenanceInv, GuardKeepsUpdatesOut
  <1> QED
    BY <1>3, <1>5, <1>6, <1>7, <1>9, <1>10 DEF MaintenanceInv, OneListed

(* Every step of a command keeps the invariant.                              *)
LEMMA CommandKeeps ==
  ASSUME MaintenanceInv, NEW o \in Operator, CommandStepOf(o)
  PROVE  MaintenanceInv'
  <1>0. command[o] # Off => maintenance = o
    <2>1. command[o].step = "off" => command[o] = Off
      BY MaintenanceAssumption
         DEF MaintenanceInv, MaintenanceTypeOK, CommandHolds, Off, NoHolder
    <2> QED
      BY <2>1 DEF MaintenanceInv, CommandHolds
  <1>1. ASSUME NEW s \in {"apply", "reboot"}, maintenanceLock(o, s)
        PROVE  MaintenanceInv'
    BY <1>1, CheckKeeps DEF maintenanceLock, Off, CommandStep
  <1>2. ASSUME Returns(o), UNCHANGED <<packages, update, guard, late>>
        PROVE  MaintenanceInv'
    BY <1>2, ReturnsKeeps DEF Active, UpdateActive, MaintenanceInv, MaintenanceTypeOK
  <1>3. CASE CheckReboots(o)
    <2>1. ASSUME ~RebootScheduled, Step(o, "no-reboot"), UNCHANGED maintenance
          PROVE  MaintenanceInv'
      BY <1>3, <2>1, CheckKeeps DEF CheckReboots, CommandStep
    <2> QED
      BY <1>2, <1>3, <2>1 DEF CheckReboots
  <1>4. CASE CheckUpdates(o)
    <2>1. ASSUME ~UpdateRunning, Step(o, "no-update"), UNCHANGED maintenance
          PROVE  MaintenanceInv'
      BY <1>4, <2>1, CheckKeeps DEF CheckUpdates, CommandStep
    <2> QED
      BY <1>2, <1>4, <2>1 DEF CheckUpdates
  <1>5. CASE PrepareUpdate(o)
    <2>1. ASSUME Step(o, "prepared"), UNCHANGED maintenance
          PROVE  MaintenanceInv'
      <3>1. Listed = {}
        BY <1>5 DEF PrepareUpdate, MaintenanceInv, CommandSees
      <3> QED
        BY <1>5, <2>1, <3>1, CheckKeeps DEF PrepareUpdate, CommandStep
    <2> QED
      BY <1>2, <1>5, <2>1 DEF PrepareUpdate
  <1>6. CASE CheckBlocker(o)
    <2>1. ASSUME ~UpdateRunning, Step(o, "unblocked"), UNCHANGED maintenance
          PROVE  MaintenanceInv'
      BY <1>6, <2>1, CheckKeeps DEF CheckBlocker, CommandStep
    <2> QED
      BY <1>2, <1>6, <2>1 DEF CheckBlocker
  <1>7. CASE CheckPackages(o)
    <2>1. ASSUME Step(o, "unlocked"), UNCHANGED maintenance
          PROVE  MaintenanceInv'
      <3>1. Listed = {}
        BY <1>7 DEF CheckPackages, MaintenanceInv, CommandSees
      <3> QED
        BY <1>7, <2>1, <3>1, CheckKeeps DEF CheckPackages, CommandStep
    <2> QED
      BY <1>2, <1>7, <2>1 DEF CheckPackages
  <1>8. CASE UpdateReturns(o)
    <2>1. command[o].unit \in Update
      BY <1>8 DEF UpdateReturns, MaintenanceInv, CommandHolds
    <2>2. /\ \A u \in Update : UpdateActive(u)' <=> UpdateActive(u)
          /\ update' \in [Update -> UpdateState]
      BY <1>8, <2>1 DEF UpdateReturns, UpdateActive, UpdateState, MaintenanceInv,
                        MaintenanceTypeOK
    <2> QED
      BY <1>8, <2>2, ReturnsKeeps DEF UpdateReturns, Active, MaintenanceInv,
                                      MaintenanceTypeOK
  <1>9. CASE Scheduled(o)
    <2>1. command[o].unit \in Guard
      BY <1>9 DEF Scheduled, MaintenanceInv, CommandHolds
    <2>2. /\ \A g \in Guard : /\ Active(g)' <=> Active(g)
                              /\ Active(g) => guard'[g] = guard[g]
          /\ guard' \in [Guard -> GuardState]
      BY <1>9, <2>1 DEF Scheduled, Active, GuardState, MaintenanceInv,
                        MaintenanceTypeOK
    <2> QED
      BY <1>9, <2>2, ReturnsKeeps DEF Scheduled, UpdateActive, MaintenanceInv,
                                      MaintenanceTypeOK
  <1>10. CASE WaitExpires(o) \/ CommandDies(o)
    BY <1>2, <1>10 DEF WaitExpires, CommandDies
  <1> QED
    BY <1>1, <1>3, <1>4, <1>5, <1>6, <1>7, <1>8, <1>9, <1>10, LaunchKeeps
       DEF CommandStepOf

(* A unit that starts while its command waits is alone; one that starts      *)
(* later is late.                                                            *)
LEMMA UpdateKeeps ==
  ASSUME MaintenanceInv, NEW u \in Update, UpdateStepOf(u)
  PROVE  MaintenanceInv'
  <1> USE DEF UpdateState
  <1>1. MaintenanceTypeOK'
    BY DEF UpdateStepOf, UpdateStarts, UpdateInstalls, UpdateInstalled, UpdateEnds,
           MaintenanceInv, MaintenanceTypeOK, Landed
  <1>2. /\ UNCHANGED <<command, maintenance, guard>>
        /\ \A v \in Update : v # u => update'[v] = update[v]
        /\ late \subseteq late'
        /\ late' # late => UpdateStarts(u)
    BY DEF UpdateStepOf, UpdateStarts, UpdateInstalls, UpdateInstalled, UpdateEnds,
           MaintenanceInv, MaintenanceTypeOK, Landed
  <1>3. CommandHolds'
    BY <1>2 DEF MaintenanceInv, CommandHolds
  <1>4. GuardHolds'
    <2>1. \A g \in Guard : packages = g => packages' = g
      BY MaintenanceAssumption
         DEF UpdateStepOf, UpdateStarts, UpdateInstalls, UpdateInstalled, UpdateEnds
    <2> QED
      BY <1>2, <2>1 DEF MaintenanceInv, GuardHolds
  <1>5. \/ Listed' \subseteq Listed
        \/ \E o \in Operator : command[o].unit = u /\ Listed' \subseteq Listed \cup {u}
    <2>1. CASE UpdateStarts(u)
      <3>1. CASE \E o \in Operator : command[o].unit = u
        BY <1>2, <2>1, <3>1 DEF Listed, UpdateActive
      <3>2. CASE ~\E o \in Operator : command[o].unit = u
        BY <1>2, <2>1, <3>2 DEF Listed, UpdateActive, UpdateStarts, Landed
      <3> QED
        BY <3>1, <3>2
    <2>2. CASE UpdateInstalls(u) \/ UpdateInstalled(u) \/ UpdateEnds(u)
      BY <1>2, <2>2 DEF Listed, UpdateActive, UpdateInstalls, UpdateInstalled,
                        UpdateEnds, MaintenanceInv, MaintenanceTypeOK
    <2> QED
      BY <2>1, <2>2 DEF UpdateStepOf
  <1>6. CASE Listed' \subseteq Listed
    <2>1. CommandSees' /\ OneListed'
      BY <1>2, <1>6 DEF MaintenanceInv, CommandSees, OneListed
    <2>2. GuardKeepsUpdatesOut'
      BY <1>2, <1>6 DEF MaintenanceInv, GuardKeepsUpdatesOut, Active
    <2> QED
      BY <1>1, <1>3, <1>4, <2>1, <2>2 DEF MaintenanceInv
  <1>7. ASSUME NEW o \in Operator, command[o].unit = u, Listed' \subseteq Listed \cup {u}
        PROVE  MaintenanceInv'
    <2>1. command[o].step = "waiting" /\ maintenance = o
      BY <1>7 DEF MaintenanceInv, CommandHolds
    <2>2. Listed' \subseteq {u}
      BY <1>7, <2>1 DEF MaintenanceInv, CommandSees
    <2>3. \A p \in Operator : p # o => command[p].step = "off"
      BY <2>1 DEF MaintenanceInv, CommandHolds
    <2>4. CommandSees' /\ OneListed'
      BY <1>2, <1>7, <2>1, <2>2, <2>3 DEF CommandSees, OneListed
    <2>5. GuardKeepsUpdatesOut'
      BY <1>2, <2>1 DEF MaintenanceInv, GuardKeepsUpdatesOut, Active
    <2> QED
      BY <1>1, <1>3, <1>4, <2>4, <2>5 DEF MaintenanceInv
  <1> QED
    BY <1>5, <1>6, <1>7

(* A timer that starts under its command finds no update; a guard that fires *)
(* later changes no update.                                                  *)
LEMMA GuardKeeps ==
  ASSUME MaintenanceInv, NEW g \in Guard, GuardStepOf(g)
  PROVE  MaintenanceInv'
  <1>1. /\ UNCHANGED <<command, update>>
        /\ \A h \in Guard : h # g => guard'[h] = guard[h]
        /\ late \subseteq late' /\ late' \subseteq late \cup {g}
        /\ guard' \in [Guard -> GuardState]
    BY DEF GuardStepOf, TimerStarts, GuardFires, GuardAdmit, GuardTakesMaintenance,
           GuardTakesPackages, RequestReboot, GuardDies, GuardWaits, GuardTo,
           GuardState, Landed, MaintenanceInv, MaintenanceTypeOK
  <1>2. /\ \A o \in Operator : maintenance = o => maintenance' = o
        /\ \A h \in Guard : h # g /\ packages = h => packages' = h
        /\ maintenance' \in {maintenance, NoHolder, g}
        /\ packages' \in {packages, NoHolder, g}
    BY MaintenanceAssumption
       DEF GuardStepOf, TimerStarts, GuardFires, GuardAdmit, GuardTakesMaintenance,
           GuardTakesPackages, RequestReboot, GuardDies, GuardReleases
  <1>3. MaintenanceTypeOK'
    BY <1>1, <1>2 DEF MaintenanceInv, MaintenanceTypeOK
  <1>4. CommandHolds'
    BY <1>1, <1>2 DEF MaintenanceInv, CommandHolds
  <1>5. GuardHolds'
    <2>1. guard'[g] \in {"locked", "requested"} => packages' = g
      BY DEF GuardStepOf, TimerStarts, GuardFires, GuardAdmit, GuardTakesMaintenance,
             GuardTakesPackages, RequestReboot, GuardDies, GuardWaits, GuardTo,
             MaintenanceInv, MaintenanceTypeOK, GuardHolds
    <2> QED
      BY <1>1, <1>2, <2>1 DEF MaintenanceInv, GuardHolds
  <1>6. Listed' = Listed
    <2>1. \A u \in Update : u \in late' <=> u \in late
      BY <1>1, MaintenanceAssumption
    <2> QED
      BY <1>1, <2>1 DEF Listed, UpdateActive
  <1>7. CommandSees' /\ OneListed'
    BY <1>1, <1>6 DEF MaintenanceInv, CommandSees, OneListed
  <1>8. ASSUME Active(g)', g \notin late'
        PROVE  /\ \A o \in Operator : command[o].step \notin {"no-reboot", "no-update",
                                                              "prepared", "waiting"}
               /\ Listed = {}
    <2>1. CASE TimerStarts(g)
      <3>1. PICK o \in Operator : command[o].unit = g
        BY <1>8, <2>1 DEF TimerStarts, Landed
      <3>2. command[o].step = "scheduling" /\ maintenance = o
        BY <3>1 DEF MaintenanceInv, CommandHolds
      <3>3. \A p \in Operator : p # o => command[p].step = "off"
        BY <3>2 DEF MaintenanceInv, CommandHolds
      <3> QED
        BY <3>2, <3>3 DEF MaintenanceInv, CommandSees
    <2>2. CASE ~TimerStarts(g)
      <3>1. Active(g)
        BY <1>8, <2>2 DEF GuardStepOf, GuardFires, GuardAdmit, GuardTakesMaintenance,
              GuardTakesPackages, RequestReboot, GuardDies, GuardWaits, GuardTo, Active
      <3> QED
        BY <1>1, <1>8, <3>1 DEF MaintenanceInv, GuardKeepsUpdatesOut
    <2> QED
      BY <2>1, <2>2
  <1>9. GuardKeepsUpdatesOut'
    BY <1>1, <1>6, <1>8 DEF MaintenanceInv, GuardKeepsUpdatesOut, Active
  <1> QED
    BY <1>3, <1>4, <1>5, <1>7, <1>9 DEF MaintenanceInv

(* Another package run takes only free locks; the shutdown ends everything.  *)
LEMMA NodeKeeps ==
  ASSUME MaintenanceInv, ForeignRun \/ Shutdown
  PROVE  MaintenanceInv'
  <1>1. CASE ForeignRun
    <2>1. /\ UNCHANGED <<command, maintenance, update, guard, late>>
          /\ packages' \in {NoHolder, Foreign}
          /\ \A g \in Guard : packages # g
      BY <1>1, MaintenanceAssumption DEF ForeignRun
    <2>2. Listed' = Listed
      BY <2>1, SameListed DEF UpdateActive
    <2> QED
      BY <2>1, <2>2 DEF MaintenanceInv, MaintenanceTypeOK, CommandHolds, GuardHolds,
         CommandSees, GuardKeepsUpdatesOut, OneListed, Active
  <1>2. CASE Shutdown
    <2>1. /\ \A o \in Operator : command'[o] = Off
          /\ \A u \in Update : update'[u] \in {"unused", "ended"}
          /\ \A g \in Guard : guard'[g] \in {"unused", "ended"}
      BY <1>2 DEF Shutdown
    <2>2. Listed' = {}
      BY <2>1 DEF Listed, UpdateActive
    <2>3. MaintenanceTypeOK'
      BY <1>2 DEF Shutdown, MaintenanceInv, MaintenanceTypeOK, UpdateState, GuardState,
                  Off, CommandStep
    <2>4. CommandHolds'
      BY <2>1, MaintenanceAssumption DEF CommandHolds, Off
    <2> QED
      BY <2>1, <2>2, <2>3, <2>4 DEF MaintenanceInv, GuardHolds, CommandSees,
         GuardKeepsUpdatesOut, OneListed, Active, Off
  <1> QED
    BY <1>1, <1>2

-----------------------------------------------------------------------------
(* The theorems.                                                           *)

(* A node on which nothing was started satisfies the invariant.              *)
LEMMA MaintenanceInvInit == MaintenanceInit => MaintenanceInv
  <1> SUFFICES ASSUME MaintenanceInit PROVE MaintenanceInv
    OBVIOUS
  <1>1. /\ \A o \in Operator : command[o] = Off
        /\ \A u \in Update : update[u] = "unused"
        /\ \A g \in Guard : guard[g] = "unused"
    BY DEF MaintenanceInit
  <1>2. Listed = {}
    BY <1>1 DEF Listed, UpdateActive
  <1>3. MaintenanceTypeOK
    BY DEF MaintenanceInit, MaintenanceTypeOK, UpdateState, GuardState, Off, CommandStep
  <1>4. CommandHolds
    <2>1. NoHolder \notin Update /\ NoHolder \notin Guard
      BY MaintenanceAssumption
    <2>2. Off.step = "off" /\ Off.unit = NoHolder
      BY DEF Off
    <2> QED
      BY <1>1, <2>1, <2>2 DEF CommandHolds
  <1> QED
    BY <1>1, <1>2, <1>3, <1>4 DEF MaintenanceInv, GuardHolds, CommandSees,
       GuardKeepsUpdatesOut, OneListed, Active, Off

(* Every step of commands, units, guards and the node keeps it.              *)
LEMMA MaintenanceInvNext ==
  MaintenanceInv /\ [MaintenanceNext]_maintenanceVars => MaintenanceInv'
  <1> SUFFICES ASSUME MaintenanceInv, [MaintenanceNext]_maintenanceVars
               PROVE  MaintenanceInv'
    OBVIOUS
  <1>1. CASE UNCHANGED maintenanceVars
    <2>1. Listed' = Listed
      BY <1>1, SameListed DEF maintenanceVars, UpdateActive
    <2> QED
      BY <1>1, <2>1 DEF maintenanceVars, MaintenanceInv, MaintenanceTypeOK,
         CommandHolds, GuardHolds, CommandSees, GuardKeepsUpdatesOut, OneListed, Active
  <1> QED
    BY <1>1, CommandKeeps, UpdateKeeps, GuardKeeps, NodeKeeps DEF MaintenanceNext

(* MaintenanceInv is an invariant: whoever checks for updates or reboots      *)
(* holds the maintenance lock over the check and over what follows from it.   *)
THEOREM MaintenanceInvariant == MaintenanceSpec => []MaintenanceInv
  BY MaintenanceInvInit, MaintenanceInvNext, PTL DEF MaintenanceSpec

(* Type correctness of the commands, the locks, the units and the guards.     *)
THEOREM MaintenanceTypeCorrect == MaintenanceSpec => []MaintenanceTypeOK
  <1>1. MaintenanceInv => MaintenanceTypeOK
    BY DEF MaintenanceInv
  <1> QED
    BY <1>1, MaintenanceInvariant, PTL

(* A reboot that RequestReboot asked for interrupts no package run and no     *)
(* update unit, and no two updates run at once, although commands are killed, *)
(* stop waiting and leave their units behind.                                 *)
THEOREM RebootIsSafe == MaintenanceSpec => []RebootInterruptsNothing
  <1>1. MaintenanceInv => RebootInterruptsNothing
    BY DEF MaintenanceInv, RebootInterruptsNothing, GuardHolds, GuardKeepsUpdatesOut,
           OneListed, Listed, Active
  <1> QED
    BY <1>1, MaintenanceInvariant, PTL

=============================================================================
