--------------------------- MODULE MCEventMonitor ---------------------------
(***************************************************************************)
(* Instances of EventMonitor for TLC that read events.                     *)
(***************************************************************************)
EXTENDS EventMonitor
=============================================================================
