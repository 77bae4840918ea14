------------------------- MODULE MCRuntimeControl -------------------------
(* Small instances of the runtime controls of a restore activation.        *)
EXTENDS RuntimeControl

=============================================================================
