--------------------------- MODULE MCDaemonShutdown ---------------------------
(* The controller with the Scheduler's worker and one messaging's thread, the *)
(* two ways in which a service is entered: one may switch the mode while the  *)
(* other's transaction is queued, executed or just finished, and the main     *)
(* thread may end the daemon at any time, or never.                           *)
EXTENDS DaemonShutdown
=============================================================================
