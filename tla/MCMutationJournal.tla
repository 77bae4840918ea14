------------------------- MODULE MCMutationJournal -------------------------
(* Small instances of the lifecycle-mutation journal.                      *)
EXTENDS MutationJournal, TLC

CONSTANTS p1, p2, p3, u1, u2, r1

Processes == {p1, p2, p3}
TwoProcesses == {p1, p2}
Symmetry == Permutations(Proc)

\* Two upgrades compete for the workspace.
UpgradeOps == {u1, u2}
UpgradeKinds == [o \in UpgradeOps |-> Upgrade]

\* One restore activation, long enough to settle and acknowledge its closes.
RestoreOps == {r1}
RestoreKinds == [o \in RestoreOps |-> RestoreActivation]

=============================================================================
