------------------------ MODULE MCInvestigationRun ------------------------
(* Small instances of InvestigationRun: only a promotion brings a recording. *)
EXTENDS InvestigationRun

NoTape   == {<<>>}

AnyMode  == BOOLEAN
LiveOnly == {FALSE}
=============================================================================
