-------------------------- MODULE LifecyclePhases --------------------------
(***************************************************************************)
(* The phase graph of a lifecycle mutation, shared by every module of the  *)
(* project: which phases an upgrade or a restore activation can record,    *)
(* which phase may follow which, and which phases hand authority to a      *)
(* joined child process.  Translated from                                  *)
(* internal/lifecyclemutation/journal.go.                                  *)
(***************************************************************************)

Upgrade == "upgrade"
RestoreActivation == "restore-activation"

Active == "active"
Succeeded == "succeeded"
Recovered == "recovered"
Status == {Active, Succeeded, Recovered}

\* Phases in which the signed target or prior release runs as a joined child.
JoinPhase == {"target-generate-started", "target-apply-started",
              "target-verify-started", "rollback-generate-started",
              "rollback-apply-started", "rollback-verify-started"}

\* A joined child of a rollback phase is the prior release's own executable.
PriorReleasePhase == {"rollback-generate-started", "rollback-apply-started",
                      "rollback-verify-started"}

\* Phases from which the Owner may complete the target release forward.
ForwardRecoveryPhase == {"target-apply-started", "target-apply-succeeded",
                         "target-verify-started", "target-verify-succeeded",
                         "commit-started"}

\* The only phases a history records while target Apply was never admitted.
PreApplyPhase == {"prepared", "target-generate-started",
                  "target-generate-succeeded", "rollback-started",
                  "rollback-generate-started", "rollback-generate-succeeded"}

\* The forward path of an upgrade; rollback-started may follow each of its
\* phases before commit-succeeded.
UpgradeForward ==
    {<<"prepared", "target-generate-started">>,
     <<"target-generate-started", "target-generate-succeeded">>,
     <<"target-generate-succeeded", "target-apply-started">>,
     <<"target-apply-started", "target-apply-succeeded">>,
     <<"target-apply-succeeded", "target-verify-started">>,
     <<"target-verify-started", "target-verify-succeeded">>,
     <<"target-verify-succeeded", "commit-started">>,
     <<"commit-started", "commit-succeeded">>}

\* The executor-only rollback of an upgrade.
UpgradeRollback ==
    {<<"rollback-started", "rollback-generate-started">>,
     <<"rollback-generate-started", "rollback-generate-succeeded">>,
     <<"rollback-generate-started", "rollback-started">>,
     <<"rollback-generate-succeeded", "rollback-apply-started">>,
     <<"rollback-generate-succeeded", "rollback-started">>,
     <<"rollback-apply-started", "rollback-apply-succeeded">>,
     <<"rollback-apply-succeeded", "rollback-verify-started">>,
     <<"rollback-verify-started", "rollback-verify-succeeded">>,
     <<"rollback-verify-succeeded", "rollback-succeeded">>}

\* The rollback that first activates the prior data set.
UpgradeDataRollback ==
    {<<"rollback-data-quiesce-started", "rollback-data-quiesced">>,
     <<"rollback-data-quiesced", "rollback-data-copy-started">>,
     <<"rollback-data-copy-started", "rollback-data-copy-succeeded">>,
     <<"rollback-data-copy-succeeded", "rollback-data-copy-started">>,
     <<"rollback-data-copy-succeeded", "rollback-data-activation-succeeded">>,
     <<"rollback-data-activation-succeeded", "rollback-prior-runtime-start-started">>,
     <<"rollback-prior-runtime-start-started", "rollback-prior-runtime-start-succeeded">>,
     <<"rollback-prior-runtime-start-succeeded", "rollback-prior-runtime-verify-started">>,
     <<"rollback-prior-runtime-verify-started", "rollback-prior-runtime-verify-succeeded">>,
     <<"rollback-prior-runtime-verify-succeeded", "rollback-succeeded">>}

UpgradeTransition ==
    UpgradeForward \cup UpgradeRollback \cup UpgradeDataRollback
      \cup {<<e[1], "rollback-started">> : e \in UpgradeForward}
      \cup {<<f, "rollback-data-quiesce-started">> : f \in ForwardRecoveryPhase}

\* The forward path of a restore activation; the two copy phases repeat once
\* per managed volume.
RestoreForward ==
    {<<"prepared", "quiesce-started">>,
     <<"quiesce-started", "quiesced">>,
     <<"quiesced", "rollback-copy-started">>,
     <<"rollback-copy-started", "rollback-copy-succeeded">>,
     <<"rollback-copy-succeeded", "rollback-copy-started">>,
     <<"rollback-copy-succeeded", "rollback-ready">>,
     <<"rollback-ready", "activation-copy-started">>,
     <<"activation-copy-started", "activation-copy-succeeded">>,
     <<"activation-copy-succeeded", "activation-copy-started">>,
     <<"activation-copy-succeeded", "activation-succeeded">>,
     <<"activation-succeeded", "runtime-start-started">>,
     <<"runtime-start-started", "runtime-start-succeeded">>,
     <<"runtime-start-succeeded", "verify-started">>,
     <<"verify-started", "verify-succeeded">>,
     <<"verify-succeeded", "commit-started">>,
     <<"commit-started", "commit-succeeded">>}

RestoreRollback ==
    {<<"rollback-started", "rollback-volume-started">>,
     <<"rollback-started", "rollback-runtime-started">>,
     <<"rollback-volume-started", "rollback-volume-succeeded">>,
     <<"rollback-volume-succeeded", "rollback-volume-started">>,
     <<"rollback-volume-succeeded", "rollback-runtime-started">>,
     <<"rollback-runtime-started", "rollback-runtime-succeeded">>,
     <<"rollback-runtime-succeeded", "rollback-verify-started">>,
     <<"rollback-verify-started", "rollback-verify-succeeded">>,
     <<"rollback-verify-succeeded", "rollback-succeeded">>}

RestoreTransition ==
    RestoreForward \cup RestoreRollback
      \cup {<<e[1], "rollback-started">> : e \in RestoreForward}

\* allowedTransition(kind, current, next)
AllowedTransition(kind, current, next) ==
    IF kind = RestoreActivation
    THEN <<current, next>> \in RestoreTransition
    ELSE <<current, next>> \in UpgradeTransition

\* Every phase either graph mentions (knownPhase, for both kinds).
Phase == {e[1] : e \in UpgradeTransition \cup RestoreTransition}
           \cup {e[2] : e \in UpgradeTransition \cup RestoreTransition}

=============================================================================
