----------------------------- MODULE MCActionGate ----------------------------
(***************************************************************************)
(* ActionGate for TLC: two rollouts are enough for a call of one to        *)
(* survive into the next, three for it to survive a whole rollout.  Two    *)
(* confirmation frames are the fewest for which a frame left over from an  *)
(* earlier rollout cannot confirm a gripper command alone.                 *)
(***************************************************************************)
EXTENDS ActionGate
==============================================================================
