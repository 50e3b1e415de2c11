--------------------------- MODULE MCContextDelete ---------------------------
EXTENDS ContextDelete
(* As in MCMemory. *)
MCProgram == [start |-> KERNEL_SPACE + 3, end |-> KERNEL_SPACE + 5]
=============================================================================
