--------------------------- MODULE MCIncidentPage ---------------------------
(* Small instances of IncidentPage.                                        *)
EXTENDS IncidentPage
=============================================================================
