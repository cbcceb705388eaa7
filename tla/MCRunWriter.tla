---------------------------- MODULE MCRunWriter ----------------------------
(* Small instances of RunWriter.                                           *)
EXTENDS RunWriter

AnyFault == {"refused", "lost"}
=============================================================================
