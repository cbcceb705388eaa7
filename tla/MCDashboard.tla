---------------------------- MODULE MCDashboard ----------------------------
(* Small instances of Dashboard.                                           *)
EXTENDS Dashboard

BothPages == {"incident", "attack"}
=============================================================================
