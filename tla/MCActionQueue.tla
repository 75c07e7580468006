---------------------------- MODULE MCActionQueue ----------------------------
(***************************************************************************)
(* ActionQueue for TLC.                                                    *)
(***************************************************************************)
EXTENDS ActionQueue
==============================================================================
