------------------------- MODULE UpgradeTransaction -------------------------
(***************************************************************************)
(* One release upgrade (cmd/stackkit/commands/upgrade_*.go): the target     *)
(* release generates, applies and verifies as joined children of the       *)
(* driver, a success proof is written and the operation completes; a       *)
(* failure before target Apply restores the prior release, a failure after *)
(* it is completed forward by explicit recovery.                           *)
(*                                                                         *)
(* Unlike a restore activation the driver never reconciles its Session     *)
(* with the journal after a failed write, so the Session's phase and the   *)
(* newest signed phase are kept apart.  The pointer, the locks and the     *)
(* claims are in module MutationJournal: a Session whose record or pointer *)
(* is not the newest one is stale and every transition of it is refused.   *)
(***************************************************************************)
EXTENDS LifecyclePhases, Integers

CONSTANT MaxFaults   \* failed writes, children and calls, and crashes

ASSUME UpgradeAssumption == MaxFaults \in Nat

VARIABLES
    phase,     \* phase of the newest signed record, "none" before Begin
    status,    \* its status
    recorded,  \* phases the signed history ever recorded
    mine,      \* the Session's phase
    stale,     \* TRUE: the Session or the pointer lags the history
    pc,        \* where the driver is
    entry,     \* "upgrade", or "recover" for explicit recovery
    child,     \* the joined child that runs, by its phase, or "none"
    ran,       \* TRUE: the child of the Session's phase succeeded
    proof,     \* TRUE while the success proof exists
    touched,   \* TRUE once target Apply may have changed live data
    opened,    \* TRUE once the prior runtime was started again
    verified,  \* release whose Verify succeeded since the last Apply
    target,    \* the target release: "another" one, or the "prior" one again
    faults

journal == <<phase, status, recorded>>
session == <<mine, stale, pc, entry, ran>>
world == <<child, proof, touched, opened, verified, target>>
vars == <<journal, session, world, faults>>

\* An upgrade installs another release into the workspace's release cache before
\* its first record; a drift reconcile runs the prior version again.
Init ==
    /\ target \in {"another", "prior"}
    /\ phase = "none" /\ status = Active /\ recorded = {}
    /\ mine = "none" /\ stale = FALSE /\ pc = "idle" /\ entry = "none"
    /\ child = "none" /\ ran = FALSE
    /\ proof = FALSE /\ touched = FALSE /\ opened = FALSE
    /\ verified = "none" /\ faults = 0

Fault == faults < MaxFaults /\ faults' = faults + 1

\* The command returns and its Session closes.
Idle == pc' = "idle" /\ entry' = "none" /\ ran' = FALSE

\* A failed step of the upgrade itself is rolled back; a failed rollback or
\* forward recovery leaves the operation at its signed phase.
Fail ==
    /\ IF pc = "target" /\ entry = "upgrade"
       THEN pc' = "rolling-back" /\ ran' = FALSE /\ UNCHANGED entry
       ELSE Idle

Goto(next) == pc' = next /\ UNCHANGED <<mine, stale, entry, ran>>

\* The driver dies; a joined child may go on.
Crash ==
    /\ pc # "idle" /\ Fault
    /\ Idle
    /\ UNCHANGED <<journal, mine, stale, world>>

-----------------------------------------------------------------------------
(* The signed journal as the driver sees it.                               *)

\* persistRecord: the record is signed; or nothing is installed; or the record
\* is installed but unconfirmed, and the Session stays behind it; or the Session
\* advances and only the pointer, or its read-back, failed.
Sign(next, st, then) ==
    /\ ~stale
    /\ \/ /\ phase' = next /\ status' = st /\ recorded' = recorded \cup {next}
          /\ mine' = next /\ ran' = FALSE /\ pc' = then
          /\ UNCHANGED <<stale, entry, faults>>
       \/ Fault /\ Fail /\ UNCHANGED <<journal, mine, stale>>
       \/ /\ Fault /\ Fail
          /\ phase' = next /\ status' = st /\ recorded' = recorded \cup {next}
          /\ \/ UNCHANGED mine /\ stale' = TRUE
             \/ mine' = next /\ stale' \in BOOLEAN
    /\ UNCHANGED world

\* Transition and BeginJoin.
Transition(next) ==
    AllowedTransition(Upgrade, mine, next) /\ Sign(next, Active, pc)

\* BeginUpgradePrepared: a failed first write ends the upgrade.
Begin ==
    /\ pc = "idle" /\ phase = "none"
    /\ \/ /\ phase' = "prepared" /\ recorded' = {"prepared"}
          /\ mine' = "prepared" /\ pc' = "target" /\ entry' = "upgrade"
          /\ UNCHANGED faults
       \/ /\ Fault /\ phase' \in {"none", "prepared"}
          /\ recorded' = {phase'} \ {"none"}
          /\ UNCHANGED <<mine, pc, entry>>
    /\ UNCHANGED <<status, stale, ran, world>>

-----------------------------------------------------------------------------
(* Joined children of the target and the prior release.                    *)

\* runner.Run: the child claimed its one-use authority.
StartChild ==
    /\ pc \in {"target", "rollback"} /\ mine \in JoinPhase
    /\ ~stale /\ ~ran /\ child = "none"
    /\ child' = mine
    /\ verified' = IF mine \in {"target-apply-started", "rollback-apply-started"}
                   THEN "none" ELSE verified
    /\ UNCHANGED <<journal, session, proof, touched, opened, target, faults>>

\* Target Apply changes live data, prior Apply starts the prior runtime; a child
\* orphaned by a crash of the driver does so as well.
ChildActs ==
    /\ \/ child = "target-apply-started" /\ touched' = TRUE /\ UNCHANGED opened
       \/ child = "rollback-apply-started" /\ opened' = TRUE /\ UNCHANGED touched
    /\ UNCHANGED <<journal, session, child, proof, verified, target, faults>>

\* What a child's successful end establishes.
ChildSucceeds ==
    /\ child = "target-apply-started" => touched
    /\ child = "rollback-apply-started" => opened
    /\ verified' = CASE child = "target-verify-started" -> "target"
                     [] child = "rollback-verify-started" -> "prior"
                     [] OTHER -> verified

Waited == pc \in {"target", "rollback"} /\ child = mine

\* Mutant of ChildEnds: a failed child counts as a successful one.
ChildFailureIgnored ==
    /\ child # "none" /\ child' = "none"
    /\ IF Waited
       THEN /\ ran' = TRUE /\ (ChildSucceeds \/ UNCHANGED verified)
            /\ UNCHANGED <<mine, stale, pc, entry, faults>>
       ELSE UNCHANGED <<session, verified, faults>>
    /\ UNCHANGED <<journal, proof, touched, opened, target>>

\* The child the driver waits for succeeds, or fails having done its work or
\* not; an orphan ends unobserved.
ChildEnds ==
    /\ child # "none" /\ child' = "none"
    /\ IF Waited
       THEN \/ ran' = TRUE /\ ChildSucceeds
               /\ UNCHANGED <<mine, stale, pc, entry, faults>>
            \/ Fault /\ Fail /\ UNCHANGED <<mine, stale, verified>>
       ELSE UNCHANGED <<session, verified, faults>>
    /\ UNCHANGED <<journal, proof, touched, opened, target>>

-----------------------------------------------------------------------------
(* The target: executePublicUpgradeRelease, the commit, and their repetition *)
(* by runPublicUpgradeForward.                                             *)

\* A phase is left when its child succeeded, the commit once its proof exists.
TargetAdvances ==
    /\ pc = "target" /\ child = "none"
    /\ mine \in JoinPhase => ran
    /\ mine = "commit-started" => proof
    /\ \E e \in UpgradeForward :
          /\ e[1] = mine
          /\ IF e[2] = "commit-succeeded"
             THEN Sign(e[2], Active, "complete") ELSE Transition(e[2])

\* Staging the rollback data fails before any target step and is not rolled
\* back; hashing the target, planning it and reverifying it may fail as well.
TargetCheckFails ==
    /\ pc = "target" /\ child = "none" /\ ~stale /\ ~proof
    /\ \/ mine = "prepared" /\ Fault /\ Idle
       \/ /\ mine \in {"prepared", "target-generate-succeeded", "commit-started"}
          /\ Fault /\ Fail
    /\ UNCHANGED <<journal, mine, stale, world>>

\* commitPublicUpgradeSuccess
WriteProof ==
    /\ pc = "target" /\ mine = "commit-started" /\ ~proof /\ ~stale
    /\ \/ proof' = TRUE /\ UNCHANGED <<session, faults>>
       \/ Fault /\ Fail /\ proof' \in BOOLEAN /\ UNCHANGED <<mine, stale>>
    /\ UNCHANGED <<journal, child, touched, opened, verified, target>>

Complete ==
    /\ pc = "complete"
    /\ \/ mine = "commit-succeeded" /\ Sign(mine, Succeeded, "idle")
       \/ mine = "rollback-succeeded" /\ Sign(mine, Recovered, "idle")

-----------------------------------------------------------------------------
(* rollbackPublicUpgrade: automatic, or under explicit recovery.           *)

\* Mutant of RequirePreApplyUpgradeRollback: the newest record alone decides.
RecordAdmits ==
    ~stale /\ mine \in PreApplyPhase

\* The phase is admissible and the history proves that target Apply was never
\* admitted; a stale Session is refused here or at its first transition.
RequirePreApplyUpgradeRollback ==
    /\ ~stale
    /\ \/ mine \in {"prepared", "target-generate-started",
                    "target-generate-succeeded"}
       \/ entry = "recover" /\ mine \in {"rollback-started",
               "rollback-generate-started", "rollback-generate-succeeded"}
    /\ recorded \subseteq PreApplyPhase

\* A commit the Session knows of keeps its proof; otherwise the proof is removed
\* first, and then the rollback is admitted or refused.
RollbackAdmission ==
    /\ pc = "rolling-back"
    /\ IF mine = "commit-succeeded"
       THEN Idle /\ UNCHANGED <<mine, stale, proof, faults>>
       ELSE \/ /\ proof' = FALSE
               /\ IF RequirePreApplyUpgradeRollback
                  THEN Goto("rollback-start") ELSE Idle /\ UNCHANGED <<mine, stale>>
               /\ UNCHANGED faults
            \/ Fault /\ Idle /\ proof' \in {proof, FALSE} /\ UNCHANGED <<mine, stale>>
    /\ UNCHANGED <<journal, child, touched, opened, verified, target>>

\* A rollback enters, or explicit recovery re-enters, at rollback-started.
StartRollback ==
    /\ pc = "rollback-start"
    /\ IF mine = "rollback-started"
       THEN Goto("rollback") /\ UNCHANGED <<journal, world, faults>>
       ELSE /\ AllowedTransition(Upgrade, mine, "rollback-started")
            /\ Sign("rollback-started", Active, "rollback")

\* The prior executor is put back, then the prior release runs its children.
RollbackAdvances ==
    /\ pc = "rollback" /\ child = "none"
    /\ mine \in JoinPhase => ran
    /\ \E e \in UpgradeRollback :
          /\ e[1] = mine /\ e[2] # "rollback-started"
          /\ IF e[2] = "rollback-succeeded"
             THEN Sign(e[2], Active, "complete") ELSE Transition(e[2])

\* Putting the executor back, the prior plan or the final comparison fails.
RollbackCheckFails ==
    /\ pc = "rollback" /\ child = "none"
    /\ mine \in {"rollback-started", "rollback-generate-succeeded",
                 "rollback-verify-succeeded"}
    /\ Fault /\ Idle
    /\ UNCHANGED <<journal, mine, stale, world>>

-----------------------------------------------------------------------------
(* recoverPublicUpgradeOperation: upgrade --recover, with or without        *)
(* --forward.                                                              *)

\* OpenUpgradeRecovery repairs the pointer, loads the newest record and proves
\* the claimant gone.
Open(then) ==
    /\ pc = "idle" /\ phase # "none" /\ status = Active /\ child = "none"
    /\ mine' = phase /\ stale' = FALSE /\ entry' = "recover" /\ pc' = then
    /\ UNCHANGED <<journal, ran, world, faults>>

RecoverCommitted == phase = "commit-succeeded" /\ Open("complete")

\* releasePreparedPublicUpgrade
RecoverPrepared == recorded = {"prepared"} /\ Open("release")

\* Mutant of requirePreparedTargetNeverApplied: the release cache is not read.
ReleaseCacheIgnored == TRUE

\* The release cache must not hold the target.  Another release was installed
\* there before prepared was signed, and nothing removes it, so it is refused
\* every time; that no Apply result is newer than the checkpoint holds here.
requirePreparedTargetNeverApplied == target = "prior"

CompletePreparedRelease ==
    /\ pc = "release"
    /\ \/ requirePreparedTargetNeverApplied /\ Sign("prepared", Recovered, "idle")
       \/ /\ ~requirePreparedTargetNeverApplied
          /\ Idle /\ UNCHANGED <<journal, mine, stale, world, faults>>
       \/ Fault /\ Idle /\ UNCHANGED <<journal, mine, stale, world>>

\* The other phases are refused as ambiguous.
explicitRollbackStartPhase ==
    ForwardRecoveryPhase \cup PreApplyPhase

RecoverRollback ==
    /\ phase \in explicitRollbackStartPhase /\ recorded # {"prepared"}
    /\ Open("rolling-back")

\* Mutant of ForwardRecoveryAdmitted: an interrupted retarget is forgotten.
ForwardAtApplyOnly == phase \in ForwardRecoveryPhase

\* At a target Generate phase a retarget was interrupted.
ForwardRecoveryAdmitted ==
    \/ phase \in ForwardRecoveryPhase
    \/ /\ phase \in {"target-generate-started", "target-generate-succeeded"}
       /\ ~(recorded \subseteq PreApplyPhase)

RecoverForward == ForwardRecoveryAdmitted /\ Open("forward")

\* completePublicUpgradeForward: a proof of an earlier attempt is removed.
RemoveStaleProof ==
    /\ pc = "forward"
    /\ \/ proof' = FALSE /\ Goto("rejoin") /\ UNCHANGED faults
       \/ Fault /\ Idle /\ proof' \in {proof, FALSE} /\ UNCHANGED <<mine, stale>>
    /\ UNCHANGED <<journal, child, touched, opened, verified, target>>

\* BeginForwardRecoveryJoin readmits target Apply; BeginForwardRetargetJoin
\* admits target Generate of a newer release, or again of the signed one.
BeginForwardJoin ==
    /\ pc = "rejoin"
    /\ \/ mine \in ForwardRecoveryPhase /\ Sign("target-apply-started", Active, "target")
       \/ Sign("target-generate-started", Active, "target")
       \/ Fault /\ Idle /\ UNCHANGED <<journal, mine, stale, world>>

-----------------------------------------------------------------------------

Driver ==
    \/ StartChild \/ TargetAdvances \/ WriteProof \/ Complete
    \/ RollbackAdmission \/ StartRollback \/ RollbackAdvances
    \/ CompletePreparedRelease \/ RemoveStaleProof \/ BeginForwardJoin

Child == ChildActs \/ ChildEnds

Recover == RecoverCommitted \/ RecoverPrepared \/ RecoverRollback

Next ==
    \/ Begin \/ Crash \/ Driver \/ Child \/ Recover \/ RecoverForward
    \/ TargetCheckFails \/ RollbackCheckFails

Spec == Init /\ [][Next]_vars

\* A running driver and a running child go on; the Owner recovers an operation
\* left active and, while that does not settle it, uses --forward.
FairSpec ==
    /\ Spec
    /\ WF_vars(Driver) /\ WF_vars(ChildEnds) /\ WF_vars(ChildActs)
    /\ WF_vars(Recover) /\ SF_vars(RecoverForward)

-----------------------------------------------------------------------------

\* Every variable has its type, the signed history starts at prepared, and a
\* child's success belongs to a live Session that waits in a join phase.
TypeOK ==
    /\ phase \in {"none"} \cup Phase /\ mine \in {"none"} \cup Phase
    /\ status \in Status /\ recorded \subseteq Phase
    /\ IF phase = "none" THEN recorded = {} ELSE {"prepared", phase} \subseteq recorded
    /\ stale \in BOOLEAN /\ entry \in {"none", "upgrade", "recover"}
    /\ pc \in {"idle", "target", "rolling-back", "rollback-start", "rollback",
               "release", "forward", "rejoin", "complete"}
    /\ child \in {"none"} \cup JoinPhase
    /\ ran \in BOOLEAN /\ (ran => pc \in {"target", "rollback"} /\ mine \in JoinPhase)
    /\ proof \in BOOLEAN /\ touched \in BOOLEAN /\ opened \in BOOLEAN
    /\ verified \in {"none", "target", "prior"} /\ target \in {"another", "prior"}
    /\ faults \in 0..MaxFaults

\* The prior runtime never opens data that target Apply may have changed, over
\* crashes, failed journal writes, orphaned children and forward retargets: what
\* RequirePreApplyUpgradeRollback is for.
PriorNeverOpensChangedData == ~(touched /\ opened)

\* The terminal record names the release that really serves.  A succeeded
\* operation applied the target and verified it after its last Apply; a recovered
\* one verified the prior release after its last Apply, or never left prepared;
\* and neither is reached while a joined child may still run.
SettledNamesRelease ==
    /\ status # Active => child = "none"
    /\ status = Succeeded => touched /\ ~opened /\ verified = "target"
    /\ status = Recovered =>
          /\ ~touched /\ ~proof
          /\ (opened /\ verified = "prior") \/ recorded = {"prepared"}

(* The driver implements SignedOperations for its one operation.           *)
Signed == INSTANCE SignedOperations WITH
    SignedOp <- {Upgrade}, SignedKind <- [o \in {Upgrade} |-> Upgrade],
    head <- [o \in {Upgrade} |-> [phase |-> phase, status |-> status,
                                  recorded |-> recorded, closes |-> "none"]]

\* Whatever write fails and however often recovery starts over, the driver signs
\* only what SignedOperations allows: its stale Session never signs, prior Generate
\* starts again only before target Apply, a forward recovery only after it, and
\* nothing follows the outcome.
SignsAsAgreed == Signed!SignedSpec

\* The phases a rollback passes once the prior release's Apply was admitted.
PriorApplyPhase == {"rollback-apply-started", "rollback-apply-succeeded",
                    "rollback-verify-started", "rollback-verify-succeeded",
                    "rollback-succeeded"}

\* Where recoverPublicUpgradeOperation refuses in every form and for ever: once
\* the prior release's Apply was admitted, and at prepared when the target is
\* another release.
RecoveryRefused ==
    phase \in PriorApplyPhase \/ (recorded = {"prepared"} /\ target = "another")

\* Every upgrade that left a signed record is settled by explicit recovery,
\* whatever failed before, unless it stopped where that is refused: from every
\* other phase, an interrupted forward retarget and an interrupted rollback
\* included, recoverPublicUpgradeOperation has a way on.
SettlesUnlessRefused ==
    phase # "none" ~> (status # Active \/ RecoveryRefused)

\* A refusal fails closed and for good: once no process drives the upgrade any
\* more where RecoveryRefused says, no later command signs an outcome for it,
\* with --forward or without, whatever orphaned child still ends.
RefusedStaysActive ==
    [](pc = "idle" /\ status = Active /\ RecoveryRefused => [](status = Active))

\* The hint on every mutation an active upgrade refuses, "settle it with stackkit
\* upgrade --recover", read as a promise: explicit recovery settles it.
UpgradeSettles == phase # "none" ~> status # Active

\* "A completed target commit retains its success proof for journal
\* finalization" (docs/CLI.md): a succeeded upgrade has its proof.
ProofRetained == status = Succeeded => proof

=============================================================================
