--------------------------- MODULE MCInvokeLater ---------------------------
(* Small instances of InvokeLater: one or two calling threads. *)
EXTENDS InvokeLater
=============================================================================
