--------------------------- MODULE MCGripperFilter ---------------------------
(***************************************************************************)
(* GripperFilter for TLC.  One tick is one second and the deployed times   *)
(* are kept (dwell 2 s, contact hold 3 s); three confirmation frames stand *)
(* for the deployed five.  Both kinds of reset fit into one: to the        *)
(* measured open and to the measured closed state.                         *)
(***************************************************************************)
EXTENDS GripperFilter
==============================================================================
