--------------------------- MODULE MCRolloutMonitor --------------------------
(***************************************************************************)
(* RolloutMonitor for TLC: two rollouts, so that a status message or a     *)
(* completion of the first could be taken for one of the second.           *)
(***************************************************************************)
EXTENDS RolloutMonitor
==============================================================================
