---------------------- MODULE UpgradeTransactionProofs ----------------------
(***************************************************************************)
(* The safety theorems of module UpgradeTransaction, for any number of     *)
(* failures.  DataInv shows that the prior runtime never opens data target *)
(* Apply may have changed: an effect needs its phase on record, and no     *)
(* signed history holds both Apply admissions, because a driver in its     *)
(* rollback proved the one absent and prior Apply is never left for a      *)
(* target phase.  ReleaseInv adds what each signed phase proves of the     *)
(* children before it, and so what the terminal record names.  Last, with  *)
(* RecoveryAdmitted, every step signs what SignedOperations allows.        *)
(***************************************************************************)
EXTENDS UpgradeTransaction, TLAPS

TargetApply == "target-apply-started"
PriorApply == "rollback-apply-started"

\* A live Session that is not stale is at the newest signed phase, and every
\* phase it, or a joined child, stands for was signed.
SessionCurrent ==
    /\ pc # "idle" /\ ~stale => mine = phase
    /\ pc # "idle" => mine \in recorded
    /\ child # "none" => child \in recorded
    /\ IF phase = "none" THEN recorded = {} ELSE phase \in recorded

\* Live data changes only under a recorded Apply admission.
EffectsRecorded ==
    /\ touched => TargetApply \in recorded
    /\ opened => PriorApply \in recorded

\* No history admits both Applies.
AppliesExclusive ==
    /\ pc \in {"rollback-start", "rollback"} => TargetApply \notin recorded
    /\ pc = "release" => recorded = {"prepared"}
    /\ pc \in {"forward", "rejoin"} => phase \notin PriorApplyPhase
    /\ PriorApply \in recorded => phase \in PriorApplyPhase
    /\ ~(TargetApply \in recorded /\ PriorApply \in recorded)

DataInv == SessionCurrent /\ EffectsRecorded /\ AppliesExclusive

-----------------------------------------------------------------------------

\* Prior Apply is left only along the rollback, which never admits target Apply.
LEMMA RollbackEdges ==
    ASSUME NEW e \in UpgradeRollback
    PROVE  /\ e[2] # TargetApply /\ e[2] # "none"
           /\ e[1] \in PriorApplyPhase => e[2] \in PriorApplyPhase
           /\ e[2] = PriorApply => e[1] = "rollback-generate-succeeded"
  BY DEF UpgradeRollback, TargetApply, PriorApply, PriorApplyPhase

\* The target's own path starts and ends outside the prior release's phases.
LEMMA ForwardEdges ==
    ASSUME NEW e \in UpgradeForward
    PROVE  e[1] \notin PriorApplyPhase /\ e[2] # PriorApply /\ e[2] # "none"
  BY DEF UpgradeForward, PriorApply, PriorApplyPhase

\* What every attempt to sign a record leaves behind, failed or not: the history
\* gains at most the signed phase, and a Session that goes on is current.
LEMMA SignOutcome ==
    ASSUME NEW next, NEW st, NEW then, Sign(next, st, then), next # "none",
           SessionCurrent, pc # "idle", pc # "rolling-back",
           then \in {"idle", pc, "target", "rollback", "complete"}
    PROVE  /\ \/ recorded' = recorded /\ phase' = phase
              \/ recorded' = recorded \cup {next} /\ phase' = next
           /\ SessionCurrent'
           /\ pc' \in {"idle", "rolling-back", then}
           /\ UNCHANGED world
  BY DEF Sign, Fail, Idle, Fault, SessionCurrent, journal, world

\* A record signed while the history can gain no second Apply keeps DataInv.
LEMMA SignKeepsDataInv ==
    ASSUME NEW next, NEW st, NEW then, Sign(next, st, then), next # "none",
           DataInv, pc # "idle", pc # "rolling-back",
           then \in {"idle", pc, "target", "rollback", "complete"},
           phase \in PriorApplyPhase => next \in PriorApplyPhase,
           next = TargetApply => PriorApply \notin recorded
                                   /\ then \notin {"rollback-start", "rollback"},
           next = PriorApply => TargetApply \notin recorded,
           then \in {"rollback-start", "rollback"} => TargetApply \notin recorded,
           then \notin {"release", "forward", "rejoin"}
    PROVE  DataInv'
  <1>1. SessionCurrent' /\ pc' \in {"idle", "rolling-back", then}
    BY SignOutcome DEF DataInv
  <1>2. UNCHANGED <<child, proof, touched, opened, verified, target>>
    BY SignOutcome DEF DataInv, world
  <1>3. \/ recorded' = recorded /\ phase' = phase
        \/ recorded' = recorded \cup {next} /\ phase' = next
    BY SignOutcome DEF DataInv
  <1>4. EffectsRecorded'
    BY <1>2, <1>3 DEF DataInv, EffectsRecorded
  <1>5. AppliesExclusive'
    BY <1>1, <1>3 DEF DataInv, AppliesExclusive, TargetApply, PriorApply,
                      PriorApplyPhase
  <1> QED BY <1>1, <1>4, <1>5 DEF DataInv

\* A step that signs nothing keeps DataInv when the driver stays where it is,
\* returns, or moves where the history lets it.
LEMMA QuietStep ==
    ASSUME DataInv, UNCHANGED journal, UNCHANGED <<touched, opened>>,
           SessionCurrent',
           pc' \in {"rollback-start", "rollback"} => TargetApply \notin recorded,
           pc' = "release" => recorded = {"prepared"},
           pc' \in {"forward", "rejoin"} => phase \notin PriorApplyPhase
    PROVE  DataInv'
  BY DEF DataInv, EffectsRecorded, AppliesExclusive, journal

-----------------------------------------------------------------------------

\* DataInv holds initially.
LEMMA DataInvInit == Init => DataInv
  BY DEF Init, DataInv, SessionCurrent, EffectsRecorded, AppliesExclusive,
         TargetApply, PriorApply, PriorApplyPhase

\* Begin, the crash of the driver and its calls that fail without a record.
LEMMA EnvironmentKeeps ==
    ASSUME DataInv, Begin \/ Crash \/ TargetCheckFails \/ RollbackCheckFails
    PROVE  DataInv'
  <1>1. CASE Begin
    BY <1>1 DEF Begin, Fault, DataInv, SessionCurrent, EffectsRecorded,
         AppliesExclusive, TargetApply, PriorApply, PriorApplyPhase, world
  <1>2. CASE Crash \/ TargetCheckFails \/ RollbackCheckFails
    <2>1. SessionCurrent' /\ UNCHANGED journal /\ UNCHANGED <<touched, opened>>
          /\ pc' \in {"idle", "rolling-back"}
      BY <1>2 DEF Crash, TargetCheckFails, RollbackCheckFails, Idle, Fail, Fault,
                  DataInv, SessionCurrent, journal, world
    <2> QED BY <2>1, QuietStep
  <1> QED BY <1>1, <1>2

\* The joined children.
LEMMA ChildKeeps ==
    ASSUME DataInv, StartChild \/ ChildActs \/ ChildEnds
    PROVE  DataInv'
  <1>1. CASE StartChild
    <2>1. SessionCurrent' /\ UNCHANGED journal /\ UNCHANGED <<touched, opened, pc>>
      BY <1>1 DEF StartChild, DataInv, SessionCurrent, journal, session
    <2> QED BY <2>1, QuietStep DEF DataInv, AppliesExclusive
  <1>2. CASE ChildActs
    BY <1>2 DEF ChildActs, DataInv, SessionCurrent, EffectsRecorded,
                AppliesExclusive, TargetApply, PriorApply, journal, session
  <1>3. CASE ChildEnds
    <2>1. SessionCurrent' /\ UNCHANGED journal /\ UNCHANGED <<touched, opened>>
          /\ pc' \in {pc, "idle", "rolling-back"}
      BY <1>3 DEF ChildEnds, ChildSucceeds, Waited, Idle, Fail, Fault, DataInv,
                  SessionCurrent, journal, session
    <2> QED BY <2>1, QuietStep DEF DataInv, AppliesExclusive
  <1> QED BY <1>1, <1>2, <1>3

\* The target's path, the proof and the terminal record.
LEMMA TargetKeeps ==
    ASSUME DataInv, TargetAdvances \/ WriteProof \/ Complete
    PROVE  DataInv'
  <1>1. CASE TargetAdvances
    <2>1. PICK e \in UpgradeForward :
             /\ e[1] = mine /\ ~stale
             /\ Sign(e[2], Active, "complete") \/ Sign(e[2], Active, pc)
      BY <1>1 DEF TargetAdvances, Transition, Sign
    <2>2. pc = "target" /\ mine = phase
      BY <1>1, <2>1 DEF TargetAdvances, DataInv, SessionCurrent
    <2>3. phase \notin PriorApplyPhase /\ PriorApply \notin recorded
      BY <2>1, <2>2, ForwardEdges DEF DataInv, AppliesExclusive
    <2>4. e[2] # PriorApply /\ e[2] # "none"
      BY ForwardEdges
    <2> QED BY <2>1, <2>2, <2>3, <2>4, SignKeepsDataInv
  <1>2. CASE WriteProof
    <2>1. SessionCurrent' /\ UNCHANGED journal /\ UNCHANGED <<touched, opened>>
          /\ pc' \in {"target", "idle", "rolling-back"}
      BY <1>2 DEF WriteProof, Idle, Fail, Fault, DataInv, SessionCurrent,
                  journal, session
    <2> QED BY <2>1, QuietStep
  <1>3. CASE Complete
    <2>1. /\ pc = "complete" /\ mine = phase
          /\ mine \in {"commit-succeeded", "rollback-succeeded"}
          /\ \E st \in Status : Sign(mine, st, "idle")
      BY <1>3 DEF Complete, Sign, Status, DataInv, SessionCurrent
    <2>2. mine # TargetApply /\ mine # PriorApply /\ mine # "none"
      BY <2>1 DEF TargetApply, PriorApply
    <2> QED BY <2>1, <2>2, SignKeepsDataInv
  <1> QED BY <1>1, <1>2, <1>3

\* The rollback: admitted only while target Apply is not on record.
LEMMA RollbackKeeps ==
    ASSUME DataInv, RollbackAdmission \/ StartRollback \/ RollbackAdvances
    PROVE  DataInv'
  <1>1. CASE RollbackAdmission
    <2>1. SessionCurrent' /\ UNCHANGED journal /\ UNCHANGED <<touched, opened>>
      BY <1>1 DEF RollbackAdmission, Idle, Goto, Fault, DataInv, SessionCurrent,
                  journal
    <2>2. /\ pc' \in {"rollback-start", "rollback"} => TargetApply \notin recorded
          /\ pc' \notin {"release", "forward", "rejoin"}
      BY <1>1 DEF RollbackAdmission, Idle, Goto, RequirePreApplyUpgradeRollback,
                  PreApplyPhase, TargetApply
    <2> QED BY <2>1, <2>2, QuietStep
  <1>2. CASE StartRollback
    <2>1. TargetApply \notin recorded /\ pc = "rollback-start"
      BY <1>2 DEF StartRollback, DataInv, AppliesExclusive
    <2>2. CASE mine = "rollback-started"
      <3>1. SessionCurrent' /\ UNCHANGED journal /\ UNCHANGED <<touched, opened>>
            /\ pc' = "rollback"
        BY <1>2, <2>2 DEF StartRollback, Goto, DataInv, SessionCurrent, journal, world
      <3> QED BY <2>1, <3>1, QuietStep
    <2>3. CASE mine # "rollback-started"
      <3>1. /\ Sign("rollback-started", Active, "rollback") /\ mine = phase
            /\ AllowedTransition(Upgrade, mine, "rollback-started")
        BY <1>2, <2>1, <2>3 DEF StartRollback, Sign, DataInv, SessionCurrent
      <3>2. phase \notin PriorApplyPhase
        BY <3>1 DEF AllowedTransition, Upgrade, RestoreActivation,
             UpgradeTransition, UpgradeForward, UpgradeRollback,
             UpgradeDataRollback, PriorApplyPhase, ForwardRecoveryPhase
      <3>3. "rollback-started" # TargetApply /\ "rollback-started" # PriorApply
        BY DEF TargetApply, PriorApply
      <3> QED BY <2>1, <3>1, <3>2, <3>3, SignKeepsDataInv
    <2> QED BY <2>2, <2>3
  <1>3. CASE RollbackAdvances
    <2>1. PICK e \in UpgradeRollback :
             /\ e[1] = mine /\ ~stale
             /\ Sign(e[2], Active, "complete") \/ Sign(e[2], Active, pc)
      BY <1>3 DEF RollbackAdvances, Transition, Sign
    <2>2. pc = "rollback" /\ mine = phase /\ TargetApply \notin recorded
      BY <1>3, <2>1 DEF RollbackAdvances, DataInv, SessionCurrent, AppliesExclusive
    <2>3. /\ e[2] # TargetApply /\ e[2] # "none"
          /\ phase \in PriorApplyPhase => e[2] \in PriorApplyPhase
      BY <2>1, <2>2, RollbackEdges
    <2> QED BY <2>1, <2>2, <2>3, SignKeepsDataInv
  <1> QED BY <1>1, <1>2, <1>3

\* Explicit recovery, plain and forward.
LEMMA RecoverKeeps ==
    ASSUME DataInv,
           \/ Recover \/ RecoverForward \/ CompletePreparedRelease
           \/ RemoveStaleProof \/ BeginForwardJoin
    PROVE  DataInv'
  <1>1. CASE Recover \/ RecoverForward
    BY <1>1 DEF Recover, RecoverForward, RecoverCommitted, RecoverPrepared,
         RecoverRollback, Open, DataInv, SessionCurrent, EffectsRecorded,
         AppliesExclusive, journal, world, ForwardRecoveryAdmitted,
         ForwardRecoveryPhase, PriorApplyPhase
  <1>2. CASE CompletePreparedRelease
    <2>1. pc = "release" /\ recorded = {"prepared"}
      BY <1>2 DEF CompletePreparedRelease, DataInv, AppliesExclusive
    <2>2. CASE Sign("prepared", Recovered, "idle")
      <3>1. phase \notin PriorApplyPhase /\ "prepared" \notin {TargetApply, PriorApply}
        BY <2>1 DEF DataInv, SessionCurrent, PriorApplyPhase, TargetApply, PriorApply
      <3> QED BY <2>1, <2>2, <3>1, SignKeepsDataInv
    <2>3. CASE ~Sign("prepared", Recovered, "idle")
      <3>1. SessionCurrent' /\ UNCHANGED journal /\ UNCHANGED <<touched, opened>>
            /\ pc' = "idle"
        BY <1>2, <2>3 DEF CompletePreparedRelease, Idle, Fault, DataInv,
                          SessionCurrent, journal, world
      <3> QED BY <3>1, QuietStep
    <2> QED BY <2>2, <2>3
  <1>3. CASE RemoveStaleProof
    <2>1. SessionCurrent' /\ UNCHANGED journal /\ UNCHANGED <<touched, opened>>
          /\ pc' \in {"idle", "rejoin"}
      BY <1>3 DEF RemoveStaleProof, Idle, Goto, Fault, DataInv, SessionCurrent,
                  journal
    <2>2. phase \notin PriorApplyPhase
      BY <1>3 DEF RemoveStaleProof, DataInv, AppliesExclusive
    <2> QED BY <2>1, <2>2, QuietStep
  <1>4. CASE BeginForwardJoin
    <2>1. pc = "rejoin" /\ phase \notin PriorApplyPhase /\ PriorApply \notin recorded
      BY <1>4 DEF BeginForwardJoin, DataInv, AppliesExclusive
    <2>2. CASE Sign(TargetApply, Active, "target")
      BY <2>1, <2>2, SignKeepsDataInv DEF TargetApply, PriorApply
    <2>3. CASE Sign("target-generate-started", Active, "target")
      BY <2>1, <2>3, SignKeepsDataInv DEF TargetApply, PriorApply
    <2>4. CASE Fault /\ Idle /\ UNCHANGED <<journal, mine, stale, world>>
      <3>1. SessionCurrent' /\ UNCHANGED <<touched, opened>> /\ pc' = "idle"
        BY <2>4 DEF Idle, DataInv, SessionCurrent, journal, world
      <3> QED BY <2>4, <3>1, QuietStep
    <2> QED BY <1>4, <2>2, <2>3, <2>4 DEF BeginForwardJoin, TargetApply
  <1> QED BY <1>1, <1>2, <1>3, <1>4

\* Every step of the upgrade keeps DataInv.
LEMMA DataInvStep == DataInv /\ [Next]_vars => DataInv'
  <1> SUFFICES ASSUME DataInv, [Next]_vars PROVE DataInv'
    OBVIOUS
  <1>1. CASE Begin \/ Crash \/ TargetCheckFails \/ RollbackCheckFails
    BY <1>1, EnvironmentKeeps
  <1>2. CASE StartChild \/ ChildActs \/ ChildEnds
    BY <1>2, ChildKeeps
  <1>3. CASE TargetAdvances \/ WriteProof \/ Complete
    BY <1>3, TargetKeeps
  <1>4. CASE RollbackAdmission \/ StartRollback \/ RollbackAdvances
    BY <1>4, RollbackKeeps
  <1>5. CASE \/ Recover \/ RecoverForward \/ CompletePreparedRelease
             \/ RemoveStaleProof \/ BeginForwardJoin
    BY <1>5, RecoverKeeps
  <1>6. CASE UNCHANGED vars
    BY <1>6 DEF vars, journal, session, world, DataInv, SessionCurrent,
                EffectsRecorded, AppliesExclusive
  <1> QED BY <1>1, <1>2, <1>3, <1>4, <1>5, <1>6 DEF Next, Driver, Child

\* In every behaviour of the upgrade, whatever fails and however often it is
\* recovered, rollbackPublicUpgrade never starts the prior runtime on data that
\* target Apply may have changed.
THEOREM PriorDataSafe == Spec => []PriorNeverOpensChangedData
  <1>1. DataInv => PriorNeverOpensChangedData
    BY DEF DataInv, EffectsRecorded, AppliesExclusive, PriorNeverOpensChangedData
  <1> QED BY DataInvInit, DataInvStep, <1>1, PTL DEF Spec

-----------------------------------------------------------------------------
(* What the terminal record names.                                         *)

\* A settled operation has no driver and no child; a child that runs is the one
\* the newest record admitted, and a driver beside it waits for it; a stale
\* Session is idle or about to be refused its rollback.
WaitsForChild ==
    /\ status # Active => pc = "idle" /\ child = "none"
    /\ child # "none" => phase = child
    /\ child # "none" /\ pc # "idle" =>
          pc \in {"target", "rollback"} /\ child = mine /\ ~ran /\ ~stale
    /\ pc \notin {"idle", "rolling-back"} \/ phase = "none" => ~stale

\* What the success of the child of phase p established.
Established(p) ==
    /\ p = "target-apply-started" => touched
    /\ p = "target-verify-started" => touched /\ verified = "target"
    /\ p = "rollback-apply-started" => opened
    /\ p = "rollback-verify-started" => opened /\ verified = "prior"

\* What the phases before p established.
ReachedBy(p) ==
    /\ p \in {"target-apply-succeeded", "target-verify-started"} => touched
    /\ p \in {"target-verify-succeeded", "commit-started", "commit-succeeded"} =>
          touched /\ verified = "target"
    /\ p \in {"rollback-apply-succeeded", "rollback-verify-started"} => opened
    /\ p \in {"rollback-verify-succeeded", "rollback-succeeded"} =>
          opened /\ verified = "prior"

\* The signed phase proves the work before it, and so does the proof file.
PhaseProves ==
    /\ ran => ~stale /\ child = "none" /\ Established(phase)
    /\ ReachedBy(phase)
    /\ proof => TargetApply \in recorded

\* The terminal record is signed at the end of the target's path, at the end of
\* the rollback, or before the first step.
TerminalPhase ==
    /\ status = Succeeded => phase = "commit-succeeded"
    /\ status = Recovered => phase = "rollback-succeeded" \/ recorded = {"prepared"}

ReleaseInv == DataInv /\ TypeOK /\ WaitsForChild /\ PhaseProves /\ TerminalPhase

\* The phases of the graphs are phases.
LEMMA EdgesInPhase ==
    /\ \A e \in UpgradeForward \cup UpgradeRollback : e[1] \in Phase /\ e[2] \in Phase
    /\ {"prepared", "rollback-started", "target-generate-started",
        "target-apply-started", "commit-succeeded", "rollback-succeeded"} \subseteq Phase
    /\ "none" \notin JoinPhase
  <1>1. \A e \in UpgradeForward \cup UpgradeRollback : e[1] \in Phase /\ e[2] \in Phase
    BY DEF Phase, UpgradeTransition
  <1>2. /\ <<"prepared", "target-generate-started">> \in UpgradeForward
        /\ <<"rollback-generate-started", "rollback-started">> \in UpgradeRollback
        /\ <<"target-generate-succeeded", "target-apply-started">> \in UpgradeForward
        /\ <<"commit-started", "commit-succeeded">> \in UpgradeForward
        /\ <<"rollback-verify-succeeded", "rollback-succeeded">> \in UpgradeRollback
    BY DEF UpgradeForward, UpgradeRollback
  <1>3. "prepared" \in Phase /\ "target-generate-started" \in Phase
    BY <1>1, <1>2
  <1>4. "rollback-started" \in Phase /\ "target-apply-started" \in Phase
    BY <1>1, <1>2
  <1>5. "commit-succeeded" \in Phase /\ "rollback-succeeded" \in Phase
    BY <1>1, <1>2
  <1> QED BY <1>1, <1>3, <1>4, <1>5 DEF JoinPhase

\* A record whose phase is reached, signed by a driver that waits for no child,
\* keeps ReleaseInv, whatever part of the signing fails.
LEMMA SignKeepsRelease ==
    ASSUME ReleaseInv, DataInv', NEW next \in Phase, NEW st \in Status, NEW then,
           Sign(next, st, then), next # "none",
           pc \notin {"idle", "rolling-back"}, child = "none",
           then \in {"idle", pc, "target", "rollback", "complete"},
           st # Active => then = "idle" /\ pc # "target",
           ReachedBy(next),
           st = Succeeded => next = "commit-succeeded",
           st = Recovered => next = "rollback-succeeded"
                               \/ (recorded = {"prepared"} /\ next = "prepared")
    PROVE  ReleaseInv'
  <1>1. mine \in recorded /\ phase # "none" /\ {"prepared", phase} \subseteq recorded
        /\ mine \in Phase /\ status = Active
    BY DEF ReleaseInv, DataInv, SessionCurrent, TypeOK, WaitsForChild
  <1>2. UNCHANGED <<child, proof, touched, opened, verified, target>>
    BY DEF Sign, world
  <1>3. /\ \/ UNCHANGED <<phase, status, recorded>>
           \/ phase' = next /\ status' = st /\ recorded' = recorded \cup {next}
        /\ \/ pc' = then /\ UNCHANGED <<stale, entry, faults>> /\ status' = st
           \/ /\ Fault /\ pc' \in {"idle", "rolling-back"} /\ stale' \in BOOLEAN
              /\ entry' \in {entry, "none"}
              /\ pc = "target" \/ pc' = "idle"
        /\ mine' \in {mine, next} /\ ran' = FALSE /\ ~stale
    BY DEF Sign, Fail, Idle, journal, ReleaseInv, TypeOK
  <1>4. TypeOK'
    <2>1. IF phase' = "none" THEN recorded' = {} ELSE {"prepared", phase'} \subseteq recorded'
      BY <1>1, <1>3
    <2>2. pc' \in {"idle", "target", "rolling-back", "rollback-start", "rollback",
                   "release", "forward", "rejoin", "complete"}
      BY <1>3 DEF ReleaseInv, TypeOK
    <2>3. faults' \in 0..MaxFaults
      BY <1>3, UpgradeAssumption DEF ReleaseInv, TypeOK, Fault
    <2>4. /\ phase' \in {"none"} \cup Phase /\ mine' \in {"none"} \cup Phase
          /\ status' \in Status /\ recorded' \subseteq Phase
          /\ stale' \in BOOLEAN /\ entry' \in {"none", "upgrade", "recover"}
          /\ ran' = FALSE
      BY <1>1, <1>3 DEF ReleaseInv, TypeOK
    <2> QED BY <2>1, <2>2, <2>3, <2>4, <1>2 DEF ReleaseInv, TypeOK
  <1>5. WaitsForChild'
    BY <1>1, <1>2, <1>3 DEF WaitsForChild, Active
  <1>6. PhaseProves'
    BY <1>2, <1>3 DEF ReleaseInv, PhaseProves, ReachedBy
  <1>7. TerminalPhase'
    BY <1>1, <1>3 DEF ReleaseInv, TerminalPhase, Active, Succeeded, Recovered
  <1> QED BY <1>4, <1>5, <1>6, <1>7 DEF ReleaseInv

\* A step that signs nothing and runs no child keeps ReleaseInv: the driver goes
\* on with its Session, or returns.
LEMMA QuietRelease ==
    ASSUME ReleaseInv, DataInv', pc # "idle",
           UNCHANGED <<journal, mine, stale, child, touched, opened, verified, target>>,
           \/ UNCHANGED <<pc, ran, entry>>
           \/ Idle
           \/ pc' = "rolling-back" /\ ran' = FALSE /\ UNCHANGED entry
           \/ UNCHANGED <<ran, entry>> /\ ~stale /\ ~ran
                /\ pc' \in {"rollback-start", "rollback", "rejoin"},
           pc' \in {pc, "idle"} \/ child = "none",
           proof' \in BOOLEAN, proof' => proof \/ TargetApply \in recorded,
           UNCHANGED faults \/ Fault
    PROVE  ReleaseInv'
  <1>0. status = Active
    BY DEF ReleaseInv, WaitsForChild
  <1>1. faults' \in 0..MaxFaults
    BY UpgradeAssumption DEF ReleaseInv, TypeOK, Fault
  <1>2. UNCHANGED <<phase, status, recorded>>
    BY DEF journal
  <1>3. TypeOK'
    <2>1. pc' \in {"idle", "target", "rolling-back", "rollback-start", "rollback",
                   "release", "forward", "rejoin", "complete"}
          /\ entry' \in {"none", "upgrade", "recover"}
      BY DEF ReleaseInv, TypeOK, Idle
    <2>0. ran \in BOOLEAN /\ (ran => pc \in {"target", "rollback"})
      BY DEF ReleaseInv, TypeOK
    <2>2. (UNCHANGED <<pc, ran>>) \/ ran' = FALSE
      <3>1. CASE ~ran /\ UNCHANGED ran
        BY <2>0, <3>1, Zenon
      <3> QED BY <3>1 DEF Idle
    <2>3. ran' \in BOOLEAN /\ (ran' => pc' \in {"target", "rollback"} /\ mine' \in JoinPhase)
      <3>1. CASE UNCHANGED <<pc, ran>>
        BY <3>1 DEF ReleaseInv, TypeOK
      <3>2. CASE ran' = FALSE
        BY <3>2
      <3> QED BY <2>2, <3>1, <3>2
    <2> QED BY <1>1, <1>2, <2>1, <2>3 DEF ReleaseInv, TypeOK
  <1>4. WaitsForChild'
    BY <1>0, <1>2 DEF ReleaseInv, WaitsForChild, Idle
  <1>5. PhaseProves'
    BY <1>2 DEF ReleaseInv, PhaseProves, Established, ReachedBy, Idle
  <1>6. TerminalPhase'
    BY <1>2 DEF ReleaseInv, TerminalPhase
  <1> QED BY <1>3, <1>4, <1>5, <1>6 DEF ReleaseInv

\* ReleaseInv holds initially.
LEMMA ReleaseInvInit == Init => ReleaseInv
  <1> SUFFICES ASSUME Init PROVE ReleaseInv
    OBVIOUS
  <1>1. DataInv
    BY DataInvInit
  <1>2. TypeOK
    <2>1. status \in Status
      BY DEF Init, Status
    <2>2. faults \in 0..MaxFaults
      BY UpgradeAssumption DEF Init
    <2> QED BY <2>1, <2>2 DEF Init, TypeOK
  <1>3. WaitsForChild /\ PhaseProves /\ TerminalPhase
    BY DEF Init, WaitsForChild, PhaseProves, ReachedBy, TerminalPhase, Active,
           Succeeded, Recovered
  <1> QED BY <1>1, <1>2, <1>3 DEF ReleaseInv

\* Begin, the crash of the driver and its calls that fail without a record.
LEMMA EnvironmentKeepsRelease ==
    ASSUME ReleaseInv, DataInv',
           Begin \/ Crash \/ TargetCheckFails \/ RollbackCheckFails
    PROVE  ReleaseInv'
  <1>1. CASE Begin
    <2>1. /\ phase = "none" /\ pc = "idle" /\ recorded = {} /\ child = "none"
          /\ ~stale /\ ~ran /\ status = Active /\ ~proof
      BY <1>1, EdgesInPhase DEF Begin, ReleaseInv, TypeOK, WaitsForChild, PhaseProves,
         TerminalPhase, Status, Succeeded, Recovered, Active
    <2>2. faults' \in 0..MaxFaults
      BY <1>1, UpgradeAssumption DEF Begin, ReleaseInv, TypeOK, Fault
    <2>3. UNCHANGED <<status, stale, ran, child, proof, touched, opened, verified, target>>
      BY <1>1 DEF Begin, world
    <2>4. /\ \/ phase' = "prepared" /\ recorded' = {"prepared"}
             \/ phase' = "none" /\ recorded' = {} /\ pc' = "idle"
          /\ mine' \in {mine, "prepared"} /\ pc' \in {"idle", "target"}
          /\ entry' \in {entry, "upgrade"}
      BY <1>1, <2>1 DEF Begin
    <2>5. TypeOK'
      BY <2>1, <2>2, <2>3, <2>4, EdgesInPhase DEF ReleaseInv, TypeOK
    <2>6. WaitsForChild' /\ TerminalPhase'
      BY <2>1, <2>3, <2>4 DEF WaitsForChild, TerminalPhase, Active, Succeeded, Recovered
    <2>7. PhaseProves'
      BY <2>1, <2>3, <2>4 DEF PhaseProves, ReachedBy
    <2> QED BY <2>5, <2>6, <2>7 DEF ReleaseInv
  <1>2. CASE Crash
    <2>1. pc # "idle" /\ UNCHANGED <<journal, mine, stale, child, touched, opened,
             verified, target, proof>> /\ Idle /\ Fault /\ pc' = "idle"
      BY <1>2 DEF Crash, world, Idle
    <2> QED BY <2>1, QuietRelease DEF ReleaseInv, TypeOK
  <1>3. CASE TargetCheckFails \/ RollbackCheckFails
    <2>1. /\ pc # "idle" /\ child = "none" /\ Fault
          /\ UNCHANGED <<journal, mine, stale, child, touched, opened, verified, target, proof>>
          /\ Idle \/ Fail
      BY <1>3 DEF TargetCheckFails, RollbackCheckFails, world
    <2>2. Idle \/ (pc' = "rolling-back" /\ ran' = FALSE /\ UNCHANGED entry)
      BY <2>1 DEF Fail
    <2> QED BY <2>1, <2>2, QuietRelease DEF ReleaseInv, TypeOK
  <1> QED BY <1>1, <1>2, <1>3

\* The joined children: the work of an Apply and of a Verify is what the next
\* phase stands for.
LEMMA ChildKeepsRelease ==
    ASSUME ReleaseInv, DataInv', StartChild \/ ChildActs \/ ChildEnds
    PROVE  ReleaseInv'
  <1>1. CASE StartChild
    <2>1. /\ pc \in {"target", "rollback"} /\ mine \in JoinPhase /\ ~stale /\ ~ran
          /\ child = "none" /\ child' = mine /\ mine = phase
      BY <1>1 DEF StartChild, ReleaseInv, DataInv, SessionCurrent
    <2>2. UNCHANGED <<phase, status, recorded, mine, stale, pc, entry, ran, proof,
                      touched, opened, target, faults>>
      BY <1>1 DEF StartChild, journal, session
    <2>3. verified' = IF mine \in {"target-apply-started", "rollback-apply-started"}
                      THEN "none" ELSE verified
      BY <1>1 DEF StartChild
    <2>4. TypeOK'
      BY <2>1, <2>2, <2>3 DEF ReleaseInv, TypeOK
    <2>5. WaitsForChild' /\ TerminalPhase'
      BY <2>1, <2>2 DEF ReleaseInv, WaitsForChild, TerminalPhase
    <2>6. PhaseProves'
      BY <2>1, <2>2, <2>3 DEF ReleaseInv, PhaseProves, ReachedBy
    <2> QED BY <2>4, <2>5, <2>6 DEF ReleaseInv
  <1>2. CASE ChildActs
    <2>1. UNCHANGED <<phase, status, recorded, mine, stale, pc, entry, ran, child,
                      proof, verified, target, faults>>
      BY <1>2 DEF ChildActs, journal, session
    <2>2. /\ touched' \in BOOLEAN /\ opened' \in BOOLEAN
          /\ (touched => touched') /\ (opened => opened')
      BY <1>2 DEF ChildActs, ReleaseInv, TypeOK
    <2>3. TypeOK'
      BY <2>1, <2>2 DEF ReleaseInv, TypeOK
    <2>4. WaitsForChild' /\ TerminalPhase'
      BY <2>1 DEF ReleaseInv, WaitsForChild, TerminalPhase
    <2>5. PhaseProves'
      BY <2>1, <2>2 DEF ReleaseInv, PhaseProves, Established, ReachedBy
    <2> QED BY <2>3, <2>4, <2>5 DEF ReleaseInv
  <1>3. CASE ChildEnds
    <2>1. /\ child # "none" /\ child' = "none" /\ phase = child /\ child \in JoinPhase
          /\ status = Active
          /\ UNCHANGED <<phase, status, recorded, proof, touched, opened, target, mine,
                         stale>>
      BY <1>3 DEF ChildEnds, journal, session, ReleaseInv, WaitsForChild, TypeOK
    <2>2. CASE Waited /\ ran' = TRUE /\ ChildSucceeds /\ UNCHANGED <<pc, entry, faults>>
      <3>1. TypeOK'
        <4>1. verified' \in {"none", "target", "prior"}
          BY <2>2 DEF ChildSucceeds, ReleaseInv, TypeOK
        <4>2. pc \in {"target", "rollback"} /\ mine \in JoinPhase
          BY <2>1, <2>2 DEF Waited
        <4> QED BY <2>1, <2>2, <4>1, <4>2 DEF ReleaseInv, TypeOK
      <3>2. WaitsForChild' /\ TerminalPhase'
        BY <2>1, <2>2 DEF Waited, ReleaseInv, WaitsForChild, TerminalPhase
      <3>3. PhaseProves'
        <4>1. ~stale'
          BY <2>1, <2>2 DEF Waited, ReleaseInv, WaitsForChild
        <4>2. Established(phase)'
          BY <2>1, <2>2 DEF ChildSucceeds, Established, ReleaseInv, PhaseProves,
             ReachedBy
        <4>3. ReachedBy(phase)'
          BY <2>1 DEF ReleaseInv, PhaseProves, ReachedBy, JoinPhase
        <4> QED BY <2>1, <4>1, <4>2, <4>3 DEF ReleaseInv, PhaseProves
      <3> QED BY <3>1, <3>2, <3>3 DEF ReleaseInv
    <2>3. CASE /\ UNCHANGED verified /\ (UNCHANGED faults \/ Fault)
               /\ \/ UNCHANGED <<pc, ran, entry>> /\ pc = "idle"
                  \/ ran' = FALSE /\ pc' = "idle" /\ entry' = "none"
                  \/ ran' = FALSE /\ pc' = "rolling-back" /\ UNCHANGED entry
      <3>1. faults' \in 0..MaxFaults
        BY <2>3, UpgradeAssumption DEF ReleaseInv, TypeOK, Fault
      <3>2. ran' = FALSE
        BY <2>3 DEF ReleaseInv, TypeOK
      <3>3. TypeOK'
        BY <2>1, <2>3, <3>1, <3>2 DEF ReleaseInv, TypeOK
      <3>4. WaitsForChild' /\ TerminalPhase'
        BY <2>1, <2>3 DEF ReleaseInv, WaitsForChild, TerminalPhase
      <3>5. PhaseProves'
        BY <2>1, <2>3, <3>2 DEF ReleaseInv, PhaseProves, ReachedBy
      <3> QED BY <3>3, <3>4, <3>5 DEF ReleaseInv
    <2>4. Waited \/ pc = "idle"
      BY <2>1 DEF Waited, ReleaseInv, WaitsForChild
    <2> QED BY <1>3, <2>2, <2>3, <2>4 DEF ChildEnds, Fail, Idle, session, Waited
  <1> QED BY <1>1, <1>2, <1>3

\* What the edges of the target's path and of the rollback establish: the phase
\* entered asks for no more than the phase left and its child give.
LEMMA EdgesReach ==
    ASSUME NEW e \in UpgradeForward \cup UpgradeRollback,
           e[1] = phase, ReachedBy(phase), phase \in JoinPhase => Established(phase)
    PROVE  ReachedBy(e[2])
  BY DEF UpgradeForward, UpgradeRollback, JoinPhase, ReachedBy, Established

\* The target's path, the proof and the terminal record.
LEMMA TargetKeepsRelease ==
    ASSUME ReleaseInv, DataInv', TargetAdvances \/ WriteProof \/ Complete
    PROVE  ReleaseInv'
  <1>1. CASE TargetAdvances
    <2>1. PICK e \in UpgradeForward :
             /\ e[1] = mine /\ ~stale
             /\ Sign(e[2], Active, "complete") \/ Sign(e[2], Active, pc)
      BY <1>1 DEF TargetAdvances, Transition, Sign
    <2>2. /\ pc = "target" /\ mine = phase /\ child = "none"
          /\ mine \in JoinPhase => ran
      BY <1>1, <2>1 DEF TargetAdvances, ReleaseInv, DataInv, SessionCurrent
    <2>3. ReachedBy(e[2])
      BY <2>1, <2>2, EdgesReach DEF ReleaseInv, PhaseProves
    <2>4. e[2] \in Phase /\ e[2] # "none"
      BY EdgesInPhase, ForwardEdges
    <2> QED BY <2>1, <2>2, <2>3, <2>4, SignKeepsRelease DEF Status, Active,
               Succeeded, Recovered
  <1>2. CASE WriteProof
    <2>1. /\ pc = "target" /\ mine = "commit-started" /\ mine = phase
          /\ child = "none" /\ proof' \in BOOLEAN
      BY <1>2 DEF WriteProof, ReleaseInv, DataInv, SessionCurrent, TypeOK,
         WaitsForChild, JoinPhase
    <2>2. TargetApply \in recorded
      BY <2>1 DEF ReleaseInv, PhaseProves, ReachedBy, DataInv, EffectsRecorded
    <2>3. /\ UNCHANGED <<journal, mine, stale, child, touched, opened, verified, target>>
          /\ \/ UNCHANGED <<pc, ran, entry>>
             \/ Idle
             \/ pc' = "rolling-back" /\ ran' = FALSE /\ UNCHANGED entry
          /\ UNCHANGED faults \/ Fault
      BY <1>2 DEF WriteProof, Fail, session
    <2> QED BY <2>1, <2>2, <2>3, QuietRelease
  <1>3. CASE Complete
    <2>1. /\ pc = "complete" /\ mine = phase /\ child = "none" /\ mine \in Phase
          /\ \/ mine = "commit-succeeded" /\ Sign(mine, Succeeded, "idle")
             \/ mine = "rollback-succeeded" /\ Sign(mine, Recovered, "idle")
      BY <1>3, EdgesInPhase DEF Complete, Sign, ReleaseInv, DataInv, SessionCurrent,
         WaitsForChild
    <2>2. ReachedBy(mine)
      BY <2>1 DEF ReleaseInv, PhaseProves
    <2>3. CASE mine = "commit-succeeded" /\ Sign(mine, Succeeded, "idle")
      BY <2>1, <2>2, <2>3, SignKeepsRelease DEF Status, Active, Succeeded, Recovered
    <2>4. CASE mine = "rollback-succeeded" /\ Sign(mine, Recovered, "idle")
      BY <2>1, <2>2, <2>4, SignKeepsRelease DEF Status, Active, Succeeded, Recovered
    <2> QED BY <2>1, <2>3, <2>4
  <1> QED BY <1>1, <1>2, <1>3

\* The rollback.
LEMMA RollbackKeepsRelease ==
    ASSUME ReleaseInv, DataInv',
           RollbackAdmission \/ StartRollback \/ RollbackAdvances
    PROVE  ReleaseInv'
  <1>1. CASE RollbackAdmission
    <2>1. /\ pc = "rolling-back" /\ child = "none" /\ ~ran
          /\ UNCHANGED <<journal, mine, stale, child, touched, opened, verified, target>>
          /\ Idle \/ (/\ RequirePreApplyUpgradeRollback /\ pc' = "rollback-start"
                      /\ UNCHANGED <<entry, ran>>)
          /\ UNCHANGED faults \/ Fault
      BY <1>1 DEF RollbackAdmission, Goto, ReleaseInv, WaitsForChild, TypeOK
    <2>2. proof' \in BOOLEAN /\ (proof' => proof)
      BY <1>1 DEF RollbackAdmission, ReleaseInv, TypeOK
    <2> QED BY <2>1, <2>2, QuietRelease DEF RequirePreApplyUpgradeRollback
  <1>2. CASE StartRollback
    <2>1. pc = "rollback-start" /\ child = "none" /\ ~stale /\ ~ran
          /\ (mine = phase) /\ "rollback-started" \in Phase
      BY <1>2, EdgesInPhase DEF StartRollback, ReleaseInv, WaitsForChild, TypeOK,
         DataInv, SessionCurrent
    <2>2. CASE mine = "rollback-started"
      <3>1. /\ UNCHANGED <<journal, mine, stale, child, touched, opened, verified, target>>
            /\ UNCHANGED <<ran, entry, proof, faults>> /\ pc' = "rollback"
        BY <1>2, <2>2 DEF StartRollback, Goto, world
      <3> QED BY <2>1, <3>1, QuietRelease DEF ReleaseInv, TypeOK
    <2>3. CASE mine # "rollback-started"
      <3>1. Sign("rollback-started", Active, "rollback")
        BY <1>2, <2>3 DEF StartRollback
      <3>2. ReachedBy("rollback-started")
        BY DEF ReachedBy
      <3> QED BY <2>1, <3>1, <3>2, SignKeepsRelease DEF Status, Active,
                 Succeeded, Recovered
    <2> QED BY <2>2, <2>3
  <1>3. CASE RollbackAdvances
    <2>1. PICK e \in UpgradeRollback :
             /\ e[1] = mine /\ ~stale
             /\ Sign(e[2], Active, "complete") \/ Sign(e[2], Active, pc)
      BY <1>3 DEF RollbackAdvances, Transition, Sign
    <2>2. /\ pc = "rollback" /\ mine = phase /\ child = "none"
          /\ mine \in JoinPhase => ran
      BY <1>3, <2>1 DEF RollbackAdvances, ReleaseInv, DataInv, SessionCurrent
    <2>3. ReachedBy(e[2])
      BY <2>1, <2>2, EdgesReach DEF ReleaseInv, PhaseProves
    <2>4. e[2] \in Phase /\ e[2] # "none"
      BY EdgesInPhase, RollbackEdges
    <2> QED BY <2>1, <2>2, <2>3, <2>4, SignKeepsRelease DEF Status, Active,
               Succeeded, Recovered
  <1> QED BY <1>1, <1>2, <1>3

\* Explicit recovery, plain and forward.
LEMMA RecoverKeepsRelease ==
    ASSUME ReleaseInv, DataInv',
           \/ Recover \/ RecoverForward \/ CompletePreparedRelease
           \/ RemoveStaleProof \/ BeginForwardJoin
    PROVE  ReleaseInv'
  <1>1. CASE Recover \/ RecoverForward
    <2>1. PICK then \in {"complete", "release", "rolling-back", "forward"} : Open(then)
      BY <1>1 DEF Recover, RecoverForward, RecoverCommitted, RecoverPrepared,
         RecoverRollback
    <2>2. /\ pc = "idle" /\ phase # "none" /\ status = Active /\ child = "none"
          /\ mine' = phase /\ stale' = FALSE /\ entry' = "recover" /\ pc' = then
          /\ UNCHANGED <<phase, status, recorded, ran, child, proof, touched, opened,
                         verified, target, faults>>
      BY <2>1 DEF Open, journal, world
    <2>3. ~ran /\ ran \in BOOLEAN
      BY <2>2 DEF ReleaseInv, TypeOK
    <2>4. TypeOK'
      BY <2>2, <2>3 DEF ReleaseInv, TypeOK
    <2>5. WaitsForChild' /\ TerminalPhase'
      BY <2>2 DEF ReleaseInv, WaitsForChild, TerminalPhase
    <2>6. PhaseProves'
      BY <2>2, <2>3 DEF ReleaseInv, PhaseProves, ReachedBy
    <2> QED BY <2>4, <2>5, <2>6 DEF ReleaseInv
  <1>2. CASE CompletePreparedRelease
    <2>1. /\ pc = "release" /\ recorded = {"prepared"} /\ child = "none"
          /\ "prepared" \in Phase
      BY <1>2, EdgesInPhase DEF CompletePreparedRelease, ReleaseInv, DataInv,
         AppliesExclusive, WaitsForChild
    <2>2. CASE Sign("prepared", Recovered, "idle")
      <3>1. ReachedBy("prepared")
        BY DEF ReachedBy
      <3> QED BY <2>1, <2>2, <3>1, SignKeepsRelease DEF Status, Active, Succeeded,
                 Recovered
    <2>3. CASE /\ Idle /\ UNCHANGED <<journal, mine, stale, world>>
               /\ UNCHANGED faults \/ Fault
      <3>1. UNCHANGED <<journal, mine, stale, child, touched, opened, verified, target, proof>>
        BY <2>3 DEF world
      <3> QED BY <2>1, <2>3, <3>1, QuietRelease DEF ReleaseInv, TypeOK
    <2> QED BY <1>2, <2>2, <2>3 DEF CompletePreparedRelease
  <1>3. CASE RemoveStaleProof
    <2>1. /\ pc = "forward" /\ child = "none" /\ ~ran /\ ~stale
          /\ UNCHANGED <<journal, mine, stale, child, touched, opened, verified, target>>
          /\ Idle \/ (pc' = "rejoin" /\ UNCHANGED <<entry, ran>>)
          /\ UNCHANGED faults \/ Fault
      BY <1>3 DEF RemoveStaleProof, Goto, ReleaseInv, WaitsForChild, TypeOK
    <2>2. proof' = proof \/ proof' = FALSE
      BY <1>3 DEF RemoveStaleProof
    <2>3. proof' \in BOOLEAN /\ (proof' => proof)
      <3>1. CASE proof' = proof
        BY <3>1 DEF ReleaseInv, TypeOK
      <3>2. CASE proof' = FALSE
        BY <3>2
      <3> QED BY <2>2, <3>1, <3>2
    <2> QED BY <2>1, <2>3, QuietRelease
  <1>4. CASE BeginForwardJoin
    <2>1. /\ pc = "rejoin" /\ child = "none"
          /\ "target-apply-started" \in Phase /\ "target-generate-started" \in Phase
          /\ ReachedBy("target-apply-started") /\ ReachedBy("target-generate-started")
      BY <1>4, EdgesInPhase DEF BeginForwardJoin, ReleaseInv, WaitsForChild, ReachedBy
    <2>2. CASE Sign("target-apply-started", Active, "target")
      BY <2>1, <2>2, SignKeepsRelease DEF Status, Active, Succeeded, Recovered
    <2>3. CASE Sign("target-generate-started", Active, "target")
      BY <2>1, <2>3, SignKeepsRelease DEF Status, Active, Succeeded, Recovered
    <2>4. CASE Fault /\ Idle /\ UNCHANGED <<journal, mine, stale, world>>
      <3>1. UNCHANGED <<journal, mine, stale, child, touched, opened, verified, target, proof>>
        BY <2>4 DEF world
      <3> QED BY <2>1, <2>4, <3>1, QuietRelease DEF ReleaseInv, TypeOK
    <2> QED BY <1>4, <2>2, <2>3, <2>4 DEF BeginForwardJoin
  <1> QED BY <1>1, <1>2, <1>3, <1>4

\* Every step of the upgrade keeps ReleaseInv.
LEMMA ReleaseInvStep == ReleaseInv /\ [Next]_vars => ReleaseInv'
  <1> SUFFICES ASSUME ReleaseInv, [Next]_vars PROVE ReleaseInv'
    OBVIOUS
  <1>0. DataInv'
    BY DataInvStep DEF ReleaseInv
  <1>1. CASE Begin \/ Crash \/ TargetCheckFails \/ RollbackCheckFails
    BY <1>0, <1>1, EnvironmentKeepsRelease
  <1>2. CASE StartChild \/ ChildActs \/ ChildEnds
    BY <1>0, <1>2, ChildKeepsRelease
  <1>3. CASE TargetAdvances \/ WriteProof \/ Complete
    BY <1>0, <1>3, TargetKeepsRelease
  <1>4. CASE RollbackAdmission \/ StartRollback \/ RollbackAdvances
    BY <1>0, <1>4, RollbackKeepsRelease
  <1>5. CASE \/ Recover \/ RecoverForward \/ CompletePreparedRelease
             \/ RemoveStaleProof \/ BeginForwardJoin
    BY <1>0, <1>5, RecoverKeepsRelease
  <1>6. CASE UNCHANGED vars
    <2>1. UNCHANGED <<phase, status, recorded, mine, stale, pc, entry, ran, child,
                      proof, touched, opened, verified, target, faults>>
      BY <1>6 DEF vars, journal, session, world
    <2>2. TypeOK'
      BY <2>1 DEF ReleaseInv, TypeOK
    <2>3. WaitsForChild' /\ TerminalPhase'
      BY <2>1 DEF ReleaseInv, WaitsForChild, TerminalPhase
    <2>4. PhaseProves'
      BY <2>1 DEF ReleaseInv, PhaseProves, ReachedBy, Established
    <2> QED BY <1>0, <2>2, <2>3, <2>4 DEF ReleaseInv
  <1> QED BY <1>1, <1>2, <1>3, <1>4, <1>5, <1>6 DEF Next, Driver, Child

\* ReleaseInv in every behaviour of the upgrade.
THEOREM ReleaseInvariant == Spec => []ReleaseInv
  BY ReleaseInvInit, ReleaseInvStep, PTL DEF Spec

\* Type correctness of the upgrade: among it, that every signed history starts at
\* prepared, and that a child's success is only held by a live Session waiting in
\* a join phase, whatever writes fail.
THEOREM UpgradeTypeCorrect == Spec => []TypeOK
  <1>1. ReleaseInv => TypeOK
    BY DEF ReleaseInv
  <1> QED BY ReleaseInvariant, <1>1, PTL

\* In every behaviour of the upgrade the terminal record names the release that
\* serves: succeeded means the target applied and verified after its last Apply
\* and the prior runtime never started, recovered the opposite or that nothing was
\* started, and no joined child runs any more.
THEOREM TerminalNamesRelease == Spec => []SettledNamesRelease
  <1> SUFFICES ASSUME ReleaseInv PROVE SettledNamesRelease
    BY ReleaseInvariant, PTL
  <1>1. status # Active => child = "none"
    BY DEF ReleaseInv, WaitsForChild
  <1>2. status = Succeeded => touched /\ ~opened /\ verified = "target"
    <2> SUFFICES ASSUME status = Succeeded
                 PROVE  touched /\ ~opened /\ verified = "target"
      OBVIOUS
    <2>1. touched /\ verified = "target"
      BY DEF ReleaseInv, TerminalPhase, PhaseProves, ReachedBy
    <2> QED BY <2>1 DEF ReleaseInv, DataInv, EffectsRecorded, AppliesExclusive
  <1>3. ASSUME status = Recovered
        PROVE  /\ ~touched /\ ~proof
               /\ (opened /\ verified = "prior") \/ recorded = {"prepared"}
    <2>1. CASE recorded = {"prepared"}
      BY <2>1 DEF ReleaseInv, DataInv, EffectsRecorded, PhaseProves, TargetApply
    <2>2. CASE phase = "rollback-succeeded"
      <3>1. opened /\ verified = "prior"
        BY <2>2 DEF ReleaseInv, PhaseProves, ReachedBy
      <3>2. TargetApply \notin recorded
        BY <3>1 DEF ReleaseInv, DataInv, EffectsRecorded, AppliesExclusive
      <3> QED BY <3>1, <3>2 DEF ReleaseInv, DataInv, EffectsRecorded, PhaseProves
    <2> QED BY <1>3, <2>1, <2>2 DEF ReleaseInv, TerminalPhase
  <1> QED BY <1>1, <1>2, <1>3 DEF SettledNamesRelease

-----------------------------------------------------------------------------
(* The driver implements SignedOperations.                                 *)

\* A rollback is entered on a history without target Apply, and forward recovery
\* on one with it.
RecoveryAdmitted ==
    /\ pc = "rollback-start" => recorded \subseteq PreApplyPhase
    /\ pc \in {"forward", "rejoin"} => ForwardRecoveryAdmitted

\* The abstract specification's phases, statuses and graph are the driver's.
LEMMA SameGraph ==
    /\ Signed!Upgrade = Upgrade /\ Signed!Active = Active
    /\ Signed!Succeeded = Succeeded /\ Signed!Recovered = Recovered
    /\ Signed!PreApplyPhase = PreApplyPhase
    /\ Signed!ForwardRecoveryPhase = ForwardRecoveryPhase
    /\ \A x, y : Signed!AllowedTransition(Upgrade, x, y) <=> <<x, y>> \in UpgradeTransition
  <1>1. Signed!UpgradeTransition = UpgradeTransition
    BY DEF Signed!UpgradeTransition, UpgradeTransition, Signed!UpgradeForward,
       UpgradeForward, Signed!UpgradeRollback, UpgradeRollback,
       Signed!UpgradeDataRollback, UpgradeDataRollback,
       Signed!ForwardRecoveryPhase, ForwardRecoveryPhase
  <1>2. Upgrade # Signed!RestoreActivation
    BY DEF Upgrade, Signed!RestoreActivation
  <1>3. \A x, y : Signed!AllowedTransition(Upgrade, x, y) <=> <<x, y>> \in UpgradeTransition
    BY <1>1, <1>2 DEF Signed!AllowedTransition
  <1> QED
    BY <1>3 DEF Signed!Upgrade, Upgrade, Signed!Active, Active, Signed!Succeeded,
       Succeeded, Signed!Recovered, Recovered, Signed!PreApplyPhase, PreApplyPhase,
       Signed!ForwardRecoveryPhase, ForwardRecoveryPhase

\* The record of the one operation, as the abstract specification sees it.
NewestRecord == [phase |-> phase, status |-> status, recorded |-> recorded, closes |-> "none"]

\* What the abstract specification asks of a step, in the driver's own variables.
Agreed ==
    \/ /\ phase = "none" /\ status = Active /\ recorded = {}
       /\ phase' = "prepared" /\ status' = Active /\ recorded' = {"prepared"}
    \/ /\ phase # "none" /\ status = Active /\ status' = Active
       /\ recorded' = recorded \cup {phase'}
       /\ \/ /\ <<phase, phase'>> \in UpgradeTransition
             /\ (/\ phase \in {"rollback-generate-started", "rollback-generate-succeeded"}
                 /\ phase' = "rollback-started") => recorded \subseteq PreApplyPhase
          \/ /\ phase \in ForwardRecoveryPhase
             /\ phase' \in {"target-apply-started", "target-generate-started"}
          \/ /\ phase \in {"target-generate-started", "target-generate-succeeded"}
             /\ ~(recorded \subseteq PreApplyPhase)
             /\ phase' = "target-generate-started"
    \/ /\ phase # "none" /\ status = Active /\ UNCHANGED <<phase, recorded>>
       /\ \/ status' = Succeeded /\ phase = "commit-succeeded"
          \/ status' = Recovered /\ phase = "rollback-succeeded"
          \/ status' = Recovered /\ phase = "prepared" /\ recorded = {"prepared"}

\* An agreed step is a step of the abstract specification, or changes nothing.
LEMMA AgreedIsSigned ==
    ASSUME Agreed \/ UNCHANGED <<phase, status, recorded>>
    PROVE  [Signed!SignedNext]_(Signed!signedVars)
  <1> DEFINE r == NewestRecord
             s == [phase |-> phase', status |-> status', recorded |-> recorded',
                   closes |-> "none"]
             h == [o \in {Upgrade} |-> r]
             g == [o \in {Upgrade} |-> s]
  <1>1. CASE r = s
    BY <1>1 DEF Signed!signedVars, NewestRecord
  <1>2. ASSUME r # s PROVE Agreed
    BY <1>2 DEF NewestRecord
  <1>3. /\ h[Upgrade] = r /\ g[Upgrade] = s
        /\ \A t : t = s => [h EXCEPT ![Upgrade] = t] = g
        /\ [o \in {Upgrade} |-> Upgrade][Upgrade] = Upgrade
    OBVIOUS
  <1>4. ASSUME Signed!Begin(Upgrade) \/ Signed!Advance(Upgrade, s.phase)
                 \/ Signed!Readmit(Upgrade, s.phase) \/ Signed!Settle(Upgrade, s.status),
               r # s
        PROVE  Signed!SignedNext
    BY <1>3, <1>4 DEF Signed!SignedNext, NewestRecord
  <1>5. ASSUME r # s, phase = "none", Agreed PROVE Signed!Begin(Upgrade)
    BY <1>3, <1>5, SameGraph
       DEF Signed!Begin, Signed!At, Signed!Signs, Signed!Unsigned, Signed!IsUpgrade,
           NewestRecord, Agreed
  <1>6. ASSUME r # s, phase # "none", Agreed, status' = Active
        PROVE  Signed!Advance(Upgrade, s.phase) \/ Signed!Readmit(Upgrade, s.phase)
    <2>1. Signed!IsActive(Upgrade) /\ Signed!IsUpgrade(Upgrade)
      BY <1>3, <1>6, SameGraph DEF Signed!IsActive, Signed!IsUpgrade, NewestRecord, Agreed
    <2>2. Signed!Signs(Upgrade, Signed!At(Upgrade, s.phase))
      BY <1>3, <1>6, SameGraph
         DEF Signed!At, Signed!Signs, Signed!IsUpgrade, NewestRecord, Agreed, Active,
             Succeeded, Recovered
    <2>3. Signed!PreApply(Upgrade) <=> recorded \subseteq PreApplyPhase
      BY <1>3, SameGraph DEF Signed!PreApply, NewestRecord
    <2> QED
      BY <1>3, <1>6, <2>1, <2>2, <2>3, SameGraph
         DEF Signed!Advance, Signed!Readmit, NewestRecord, Agreed, Active, Succeeded,
             Recovered
  <1>7. ASSUME r # s, phase # "none", Agreed, status' # Active
        PROVE  Signed!Settle(Upgrade, s.status)
    BY <1>3, <1>7, SameGraph
       DEF Signed!Settle, Signed!IsActive, Signed!IsUpgrade, Signed!Signs, NewestRecord,
           Agreed
  <1> QED
    BY <1>1, <1>2, <1>4, <1>5, <1>6, <1>7

\* A history is read where the driver stands, and only the driver adds to it.
LEMMA AdmittedStep ==
    ASSUME ReleaseInv, RecoveryAdmitted, [Next]_vars
    PROVE  RecoveryAdmitted'
  <1>1. ASSUME UNCHANGED journal,
               pc' \in {"rollback-start", "forward", "rejoin"} => pc' = pc
        PROVE  RecoveryAdmitted'
    BY <1>1 DEF RecoveryAdmitted, ForwardRecoveryAdmitted, journal
  <1>2. ASSUME pc' \notin {"rollback-start", "forward", "rejoin"}
        PROVE  RecoveryAdmitted'
    BY <1>2 DEF RecoveryAdmitted
  <1>3. ASSUME NEW next, NEW st, NEW then, Sign(next, st, then),
               then \in {"idle", "target", "rollback", "complete"}
        PROVE  RecoveryAdmitted'
    BY <1>2, <1>3 DEF Sign, Fail, Idle
  <1>4. CASE Begin \/ Crash \/ TargetCheckFails \/ RollbackCheckFails
    <2>1. pc' \in {"idle", "target", "rolling-back"}
      BY <1>4 DEF Begin, Crash, TargetCheckFails, RollbackCheckFails, Idle, Fail
    <2> QED BY <1>2, <2>1
  <1>5. CASE StartChild \/ ChildActs \/ ChildEnds
    <2>1. UNCHANGED journal /\ pc' \in {pc, "idle", "rolling-back"}
      BY <1>5 DEF StartChild, ChildActs, ChildEnds, Idle, Fail, session
    <2> QED BY <1>1, <2>1
  <1>6. CASE TargetAdvances \/ WriteProof \/ Complete \/ RollbackAdvances
    <2>1. CASE WriteProof
      BY <1>1, <2>1 DEF WriteProof, Idle, Fail, session
    <2> QED BY <1>3, <1>6, <2>1 DEF TargetAdvances, RollbackAdvances, Complete, Transition
  <1>7. CASE RollbackAdmission
    BY <1>1, <1>7 DEF RollbackAdmission, Idle, Goto, RequirePreApplyUpgradeRollback,
       journal, RecoveryAdmitted
  <1>8. CASE StartRollback
    BY <1>2, <1>3, <1>8 DEF StartRollback, Goto
  <1>9. CASE Recover \/ RecoverForward
    BY <1>2, <1>9 DEF Recover, RecoverForward, RecoverCommitted, RecoverPrepared,
       RecoverRollback, Open, RecoveryAdmitted, ForwardRecoveryAdmitted, journal
  <1>10. CASE CompletePreparedRelease \/ BeginForwardJoin
    BY <1>2, <1>3, <1>10 DEF CompletePreparedRelease, BeginForwardJoin, Idle
  <1>11. CASE RemoveStaleProof
    BY <1>11 DEF RemoveStaleProof, Idle, Goto, journal, RecoveryAdmitted,
       ForwardRecoveryAdmitted
  <1>12. CASE UNCHANGED vars
    BY <1>1, <1>12 DEF vars, session
  <1> QED
    BY <1>4, <1>5, <1>6, <1>7, <1>8, <1>9, <1>10, <1>11, <1>12 DEF Next, Driver, Child

\* Every step of the driver is agreed, or leaves the newest record as it is.
LEMMA DriverAgrees ==
    ASSUME ReleaseInv, RecoveryAdmitted, [Next]_vars
    PROVE  Agreed \/ UNCHANGED <<phase, status, recorded>>
  <1>1. ASSUME NEW next, NEW st, NEW then, Sign(next, st, then)
        PROVE  \/ UNCHANGED <<phase, status, recorded>>
               \/ phase' = next /\ status' = st /\ recorded' = recorded \cup {next}
    BY <1>1 DEF Sign, journal
  <1>2. ASSUME pc # "idle", ~stale
        PROVE  /\ phase # "none" /\ mine = phase /\ status = Active
               /\ phase \in recorded
    BY <1>2 DEF ReleaseInv, DataInv, SessionCurrent, WaitsForChild
  <1>3. CASE Begin
    <2>1. phase = "none" /\ recorded = {} /\ status \in Status
      BY <1>3 DEF Begin, ReleaseInv, TypeOK
    <2>2. status = Active
      BY <2>1 DEF ReleaseInv, TerminalPhase, Status, Active, Succeeded, Recovered
    <2> QED BY <1>3, <2>1, <2>2 DEF Begin, Agreed
  <1>4. ASSUME NEW e \in UpgradeForward \cup UpgradeRollback, e[1] = mine,
               e[2] = "rollback-started" => recorded \subseteq PreApplyPhase,
               NEW then, Sign(e[2], Active, then), pc # "idle"
        PROVE  Agreed \/ UNCHANGED <<phase, status, recorded>>
    <2>1. ~stale
      BY <1>4 DEF Sign
    <2>2. <<mine, e[2]>> \in UpgradeTransition
      BY <1>4 DEF UpgradeTransition, UpgradeForward, UpgradeRollback
    <2> QED BY <1>1, <1>2, <1>4, <2>1, <2>2 DEF Agreed
  <1>5. CASE TargetAdvances
    <2>1. PICK e \in UpgradeForward : /\ e[1] = mine
                                      /\ \E then : Sign(e[2], Active, then)
      BY <1>5 DEF TargetAdvances, Transition
    <2>2. e[2] # "rollback-started" /\ pc # "idle"
      BY <1>5 DEF TargetAdvances, UpgradeForward
    <2> QED BY <1>4, <2>1, <2>2
  <1>6. CASE RollbackAdvances
    <2>1. PICK e \in UpgradeRollback : /\ e[1] = mine /\ e[2] # "rollback-started"
                                       /\ \E then : Sign(e[2], Active, then)
      BY <1>6 DEF RollbackAdvances, Transition
    <2> QED BY <1>4, <1>6, <2>1 DEF RollbackAdvances
  <1>7. CASE StartRollback
    <2>1. CASE mine = "rollback-started"
      BY <1>7, <2>1 DEF StartRollback, journal
    <2>2. CASE mine # "rollback-started"
      <3>1. /\ Sign("rollback-started", Active, "rollback") /\ ~stale /\ pc # "idle"
            /\ <<mine, "rollback-started">> \in UpgradeTransition
            /\ recorded \subseteq PreApplyPhase
        BY <1>7, <2>2 DEF StartRollback, Sign, AllowedTransition, Upgrade,
           RestoreActivation, RecoveryAdmitted
      <3> QED BY <1>1, <1>2, <3>1 DEF Agreed
    <2> QED BY <2>1, <2>2
  <1>8. CASE Complete
    <2>1. /\ pc # "idle" /\ ~stale
          /\ \/ mine = "commit-succeeded" /\ Sign(mine, Succeeded, "idle")
             \/ mine = "rollback-succeeded" /\ Sign(mine, Recovered, "idle")
      BY <1>8 DEF Complete, Sign
    <2>2. recorded \cup {phase} = recorded /\ mine = phase
      BY <1>2, <2>1
    <2> QED BY <1>1, <1>2, <2>1, <2>2 DEF Agreed
  <1>9. CASE CompletePreparedRelease
    <2>1. CASE Sign("prepared", Recovered, "idle")
      <3>1. pc # "idle" /\ ~stale /\ recorded = {"prepared"}
        BY <1>9, <2>1 DEF CompletePreparedRelease, Sign, ReleaseInv, DataInv,
           AppliesExclusive
      <3>2. phase = "prepared" /\ recorded \cup {phase} = recorded
        BY <1>2, <3>1
      <3> QED BY <1>1, <1>2, <2>1, <3>1, <3>2 DEF Agreed
    <2> QED BY <1>9, <2>1 DEF CompletePreparedRelease, journal
  <1>10. CASE BeginForwardJoin
    <2>1. pc # "idle" /\ ForwardRecoveryAdmitted
      BY <1>10 DEF BeginForwardJoin, RecoveryAdmitted
    <2>2. CASE mine \in ForwardRecoveryPhase /\ Sign("target-apply-started", Active, "target")
      <3>1. ~stale
        BY <2>2 DEF Sign
      <3> QED BY <1>1, <1>2, <2>1, <2>2, <3>1 DEF Agreed
    <2>3. CASE Sign("target-generate-started", Active, "target")
      <3>1. ~stale
        BY <2>3 DEF Sign
      <3> QED BY <1>1, <1>2, <2>1, <2>3, <3>1 DEF Agreed, ForwardRecoveryAdmitted
    <2> QED BY <1>10, <2>2, <2>3 DEF BeginForwardJoin, journal
  <1>11. CASE \/ Crash \/ TargetCheckFails \/ RollbackCheckFails \/ StartChild
              \/ ChildActs \/ ChildEnds \/ WriteProof \/ RollbackAdmission
              \/ Recover \/ RecoverForward \/ RemoveStaleProof
    BY <1>11 DEF Crash, TargetCheckFails, RollbackCheckFails, StartChild, ChildActs,
       ChildEnds, WriteProof, RollbackAdmission, Recover, RecoverForward,
       RecoverCommitted, RecoverPrepared, RecoverRollback, Open, RemoveStaleProof, journal
  <1>12. CASE UNCHANGED vars
    BY <1>12 DEF vars, journal
  <1> QED
    BY <1>3, <1>5, <1>6, <1>7, <1>8, <1>9, <1>10, <1>11, <1>12 DEF Next, Driver, Child

\* The driver of an upgrade implements the abstract specification the journal
\* implements, for any number of failures: a Session left behind by an unconfirmed
\* write signs nothing, every record follows the graph, prior Generate is
\* restarted only on a history without target Apply, target Apply is readmitted
\* only after it, and the outcome is decided once.
THEOREM UpgradeSignsAsAgreed == Spec => SignsAsAgreed
  <1>1. Init => Signed!SignedInit /\ RecoveryAdmitted
    BY SameGraph DEF Init, Signed!SignedInit, Signed!Unsigned, RecoveryAdmitted
  <1>2. ReleaseInv /\ RecoveryAdmitted /\ [Next]_vars
          => RecoveryAdmitted' /\ [Signed!SignedNext]_(Signed!signedVars)
    BY AdmittedStep, DriverAgrees, AgreedIsSigned
  <1> QED
    BY ReleaseInvariant, <1>1, <1>2, PTL DEF Spec, SignsAsAgreed, Signed!SignedSpec

-----------------------------------------------------------------------------
(* Where explicit recovery refuses.                                        *)

\* Nobody drives the upgrade there, or a recovery is about to refuse.
Refused ==
    /\ status = Active /\ RecoveryRefused
    /\ pc = "idle" \/ (pc = "release" /\ target = "another")

\* No step leaves a refused upgrade: every recovery is of another phase, and the
\* release of a prepared one returns without a record.
LEMMA RefusedStays == TypeOK /\ Refused /\ [Next]_vars => Refused'
  <1> SUFFICES ASSUME TypeOK, Refused, [Next]_vars PROVE Refused'
    OBVIOUS
  <1>1. /\ phase # "none"
        /\ recorded = {"prepared"} => phase = "prepared"
        /\ phase \in PriorApplyPhase \/ (recorded = {"prepared"} /\ target = "another")
    BY DEF TypeOK, Refused, RecoveryRefused, PriorApplyPhase
  <1>2. ASSUME UNCHANGED <<journal, target>>, pc' = pc \/ pc' = "idle"
        PROVE  Refused'
    BY <1>2 DEF Refused, RecoveryRefused, journal
  <1>3. CASE CompletePreparedRelease
    BY <1>2, <1>3 DEF CompletePreparedRelease, requirePreparedTargetNeverApplied,
       Refused, Idle, world
  <1>4. CASE RecoverPrepared
    BY <1>1, <1>4 DEF RecoverPrepared, Open, Refused, RecoveryRefused, PriorApplyPhase,
       journal, world
  <1>5. ~RecoverCommitted /\ ~RecoverRollback /\ ~RecoverForward /\ ~Begin
    BY <1>1 DEF RecoverCommitted, RecoverRollback, RecoverForward, Begin,
       ForwardRecoveryAdmitted, explicitRollbackStartPhase, ForwardRecoveryPhase,
       PreApplyPhase, PriorApplyPhase
  <1>6. /\ ~StartChild /\ ~TargetAdvances /\ ~WriteProof /\ ~Complete
        /\ ~RollbackAdmission /\ ~StartRollback /\ ~RollbackAdvances
        /\ ~RemoveStaleProof /\ ~BeginForwardJoin
        /\ ~TargetCheckFails /\ ~RollbackCheckFails
    BY DEF Refused, StartChild, TargetAdvances, WriteProof, Complete, RollbackAdmission,
       StartRollback, RollbackAdvances, RemoveStaleProof, BeginForwardJoin,
       TargetCheckFails, RollbackCheckFails
  <1>7. CASE Crash
    BY <1>2, <1>7 DEF Crash, Idle, world
  <1>8. CASE ChildActs \/ ChildEnds
    BY <1>2, <1>8 DEF ChildActs, ChildEnds, Waited, Refused, session, Idle, Fail
  <1>9. CASE UNCHANGED vars
    BY <1>2, <1>9 DEF vars, session, world
  <1> QED
    BY <1>3, <1>4, <1>5, <1>6, <1>7, <1>8, <1>9 DEF Next, Driver, Child, Recover

\* An upgrade left at prepared with another release in the cache, or after the
\* prior Apply was admitted, never gets an outcome, for any number of failures
\* and recoveries: the refusals of recoverPublicUpgradeOperation are for good.
THEOREM RefusalIsFinal == Spec => RefusedStaysActive
  <1>1. pc = "idle" /\ status = Active /\ RecoveryRefused => Refused
    BY DEF Refused
  <1>2. Refused => status = Active
    BY DEF Refused
  <1> QED
    BY UpgradeTypeCorrect, RefusedStays, <1>1, <1>2, PTL DEF Spec, RefusedStaysActive
=============================================================================
