---------------------------- MODULE MCMaintenance ----------------------------
(***************************************************************************)
(* Two web processes.  The form's ETA is an hour, or more minutes than the  *)
(* column holds seconds.                                                   *)
(***************************************************************************)
EXTENDS Maintenance

CONSTANTS p1, p2

TwoProcesses == {p1, p2}
AnHourOrTooMuch == {60, 200}
=============================================================================
