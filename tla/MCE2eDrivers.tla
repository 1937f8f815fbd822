---------------------------- MODULE MCE2eDrivers ----------------------------
(* Instance of the drivers for TLC. *)
EXTENDS E2eDrivers
=============================================================================
