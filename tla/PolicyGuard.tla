----------------------------- MODULE PolicyGuard -----------------------------
(***************************************************************************)
(* The pure safety checks of smolvla_guard.py that every action of the     *)
(* policy passes: the start pose, the task envelope, the distance from the *)
(* measured pose, and the change between equivalent angles.  Angles are    *)
(* integers and a turn is `Turn` of them; a joint of `Wrap` is reported    *)
(* modulo a turn by the controller.  A rejection (PolicySafetyError) is    *)
(* the empty set, a result the set that holds it.                          *)
(***************************************************************************)
EXTENDS Integers

CONSTANTS
  Joints,       \* the arm's joints
  Joint2,       \* the one with a limit of its own
  Wrap,         \* wraparound_joint_indices
  Turn          \* TAU

ASSUME GuardAssumption ==
  /\ Joint2 \in Joints /\ Wrap \subseteq Joints
  /\ Turn \in Nat \ {0}

(* PolicySafetyConfig; each envelope is a lower and an upper limit per joint. *)
Config ==
  [lower : [Joints -> Int], upper : [Joints -> Int],
   initialLower : [Joints -> Int], initialUpper : [Joints -> Int],
   error : Nat \ {0}, joint2Error : Nat \ {0},
   initialOvershoot : Nat, overshoot : Nat,
   open : Nat, close : Nat]

\* __post_init__
WellFormed(cfg) ==
  /\ \A j \in Joints : /\ cfg.lower[j] < cfg.upper[j]
                       /\ cfg.initialLower[j] < cfg.initialUpper[j]
  /\ cfg.error > 0 /\ cfg.joint2Error > 0
  /\ cfg.initialOvershoot >= 0 /\ cfg.overshoot >= 0
  /\ 0 <= cfg.open /\ cfg.open < cfg.close

Abs(x) == IF x < 0 THEN -x ELSE x

\* Fault: the quotient is cut off instead of rounded.
Bug_Nearest(n, d) == n \div d

(* Python's round() of n / d, d > 0: halves go to the even neighbour. *)
Nearest(n, d) ==
  LET q == n \div d
      r == n % d
  IN IF 2 * r < d \/ (2 * r = d /\ q % 2 = 0) THEN q ELSE q + 1

Ceiling(n, d) == -((-n) \div d)

(* canonicalize_joints_for_envelope, for one joint. *)
Canonical(j, value, low, high) ==
  IF j \in Wrap THEN value + Turn * Nearest(low + high - 2 * value, 2 * Turn)
                ELSE value

(* _equivalent_angle_in_interval: the lowest equivalent that is not below the
   interval, if it is inside. *)
FirstAbove(value, low) == value + Turn * Ceiling(low - value, Turn)

Representative(j, value, low, high) ==
  IF j \in Wrap /\ FirstAbove(value, low) <= high THEN FirstAbove(value, low)
                                                  ELSE value

Clamp(value, low, high) == IF value < low THEN low
                           ELSE IF value > high THEN high ELSE value

Limit(cfg, j) == IF j = Joint2 THEN cfg.joint2Error ELSE cfg.error

(* guard_policy_action, for one joint: `state` is what the caller measured. *)
GuardJoint(cfg, j, predicted, state) ==
  LET low == cfg.lower[j] - cfg.overshoot
      high == cfg.upper[j] + cfg.overshoot
      current == Canonical(j, state, cfg.lower[j], cfg.upper[j])
      target == Representative(j, predicted, low, high)
      guarded == Clamp(target, cfg.lower[j], cfg.upper[j])
  IN IF /\ low <= target /\ target <= high
        /\ Abs(guarded - current) <= Limit(cfg, j)
     THEN {guarded} ELSE {}

GripperClosed(cfg, value, previous) ==
  value > cfg.open /\ (value >= cfg.close \/ previous)

(* The first joint that is rejected rejects the action. *)
GuardPolicyAction(cfg, predicted, state, gripper, previous) ==
  {[joints |-> g, closed |-> GripperClosed(cfg, gripper, previous)] :
     g \in {h \in [Joints -> UNION {GuardJoint(cfg, j, predicted[j], state[j])
                                     : j \in Joints}] :
              \A j \in Joints : h[j] \in GuardJoint(cfg, j, predicted[j], state[j])}}

(* controller_targets_near_measured_joints, for one joint. *)
Controller(j, target, measured) ==
  IF j \in Wrap THEN target + Turn * Nearest(measured - target, Turn) ELSE target

(* send_action hands the guard joints that are canonical already, and maps what
   it returns back to the coordinates the controller reports; the gripper it
   commands is the temporal filter's, not the guard's. *)
SendAction(cfg, predicted, raw, gripper, previous) ==
  {[j \in Joints |-> Controller(j, g.joints[j], raw[j])] :
     g \in GuardPolicyAction(cfg, predicted,
             [j \in Joints |-> Canonical(j, raw[j], cfg.lower[j], cfg.upper[j])],
             gripper, previous)}

(* validate_initial_pose. *)
ValidInitialPose(cfg, raw, gripper, requireOpen) ==
  /\ \A j \in Joints :
       LET q == Canonical(j, raw[j], cfg.initialLower[j], cfg.initialUpper[j])
       IN /\ q >= cfg.initialLower[j] - cfg.initialOvershoot
          /\ q <= cfg.initialUpper[j] + cfg.initialOvershoot
  /\ ~(requireOpen /\ gripper >= cfg.close)
-----------------------------------------------------------------------------
(* What the checks are for, said on the circle instead of on one of its        *)
(* representations.                                                            *)

SameAngle(j, p, q) == IF j \in Wrap THEN (p - q) % Turn = 0 ELSE p = q

\* the angles equivalent to p in an interval
Reach(j, p, low, high) == {q \in low .. high : SameAngle(j, p, q)}

(* The envelope and what lies within a step of it are less than a turn, as they
   are in every shipped configuration. *)
Narrow(cfg) ==
  \A j \in Wrap :
    /\ cfg.upper[j] - cfg.lower[j] + 2 * Limit(cfg, j) < Turn
    /\ cfg.upper[j] - cfg.lower[j] + 2 * cfg.overshoot < Turn
    /\ cfg.initialUpper[j] - cfg.initialLower[j] + 2 * cfg.initialOvershoot < Turn

(* A prediction is accepted exactly if some equivalent of it is in the envelope
   with its margin and, clamped, within the limit of some equivalent of the
   measured angle; whatever representation the policy and the controller use. *)
AcceptedOnCircle(cfg, j, predicted, raw) ==
  \E t \in Reach(j, predicted, cfg.lower[j] - cfg.overshoot,
                               cfg.upper[j] + cfg.overshoot) :
    LET g == Clamp(t, cfg.lower[j], cfg.upper[j])
    IN Reach(j, raw, g - Limit(cfg, j), g + Limit(cfg, j)) # {}

(* A command never asks a joint for more than its limit in the controller's own
   coordinates, and its angle is in the envelope. *)
MoveIsShort(cfg, command, raw) ==
  \A j \in Joints :
    /\ Abs(command[j] - raw[j]) <= Limit(cfg, j)
    /\ Reach(j, command[j], cfg.lower[j], cfg.upper[j]) # {}

StartsOnCircle(cfg, j, raw) ==
  Reach(j, raw, cfg.initialLower[j] - cfg.initialOvershoot,
                cfg.initialUpper[j] + cfg.initialOvershoot) # {}
=============================================================================
