------------------------ MODULE MCRestoreActivation ------------------------
(* Small instances of one restore activation.                              *)
EXTENDS RestoreActivation

AllFaults == {"journal", "call", "cancel", "crash"}
OnlyCancel == {"cancel"}
OnlyCrash == {"crash"}

=============================================================================
