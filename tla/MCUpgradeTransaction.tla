------------------------ MODULE MCUpgradeTransaction ------------------------
(* TLC instances of UpgradeTransaction; MaxFaults bounds the failures.     *)
EXTENDS UpgradeTransaction

=============================================================================
