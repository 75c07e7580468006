----------------------------- MODULE RobotStack -----------------------------
(***************************************************************************)
(* tools/ubuntu_smolvla_stack.sh: the commands the session gives the robot *)
(* stack.  A command is a sequence of service calls and waits; under       *)
(* `set -e` it ends at the first call that must succeed and does not.      *)
(* The services themselves belong to the servo controller and the policy   *)
(* client; what a switch does is taken from how the scripts use it.        *)
(***************************************************************************)
EXTENDS Naturals, Sequences, SequencesExt

Switches == {"power", "enable", "motion", "gripper", "policy"}

(* The state of the robot: its switches, and whether the nodes that offer the
   robot's services are running. *)
Robot == [Switches \union {"nodes"} -> BOOLEAN]
RobotOff == [s \in Switches \union {"nodes"} |-> FALSE]

TurnOff(r, down) == [s \in DOMAIN r |-> r[s] /\ s \notin down]

(* STOP, which the adapter publishes whenever its gate is closed, "intentionally
   disables the safe gripper". *)
Stop(r) == TurnOff(r, {"policy", "gripper"})

\* losing arm motion closes an open gate
MotionLost(r) == TurnOff(IF r["policy"] THEN Stop(r) ELSE r, {"motion"})

Needs(switch) == CASE switch = "enable" -> {"power"}
                   [] switch = "motion" -> {"power", "enable"}
                   [] switch = "policy" -> {"motion"}
                   [] OTHER -> {}

Accepts(r, switch, on) == on => \A s \in Needs(switch) : r[s]

Switched(r, switch, on) ==
  CASE on -> [r EXCEPT ![switch] = TRUE]
    [] ~on /\ switch = "policy" -> Stop(r)
    [] ~on /\ switch = "motion" -> MotionLost(r)
    [] ~on /\ switch = "enable" -> TurnOff(MotionLost(r), {"enable"})
    [] ~on /\ switch = "power" -> TurnOff(MotionLost(r), {"enable", "power"})
    [] ~on /\ switch = "gripper" -> TurnOff(r, {"gripper"})

-----------------------------------------------------------------------------
(* Lines of a command.  `client` tells whether the policy client, which offers
   the policy switch, is alive. *)

CallBool(switch, on) == [line |-> "call", switch |-> switch, on |-> on]
TryBool(switch, on) == [line |-> "try", switch |-> switch, on |-> on]
WaitStatus(on, off) == [line |-> "wait", on |-> on, off |-> off]

Offered(r, switch, client) == IF switch = "policy" THEN client ELSE r["nodes"]

(* What one line makes of an outcome: `bad` counts the calls that were refused
   or whose answer was lost although the robot had obeyed. *)
After(line, o, client) ==
  LET r == o.robot IN
  IF ~o.ok THEN {o}
  ELSE CASE line.line = "wait" ->
            {[o EXCEPT !.ok = /\ \A s \in line.on : r[s]
                              /\ \A s \in line.off : ~r[s]]}
         [] line.line = "call" ->
            IF Offered(r, line.switch, client) /\ Accepts(r, line.switch, line.on)
            THEN LET s == Switched(r, line.switch, line.on)
                 IN {[o EXCEPT !.robot = s],
                     [o EXCEPT !.robot = s, !.ok = FALSE, !.bad = @ + 1],
                     [o EXCEPT !.ok = FALSE, !.bad = @ + 1]}
            ELSE {[o EXCEPT !.ok = FALSE]}
         [] line.line = "try" ->
            IF Offered(r, line.switch, client)
            THEN {[o EXCEPT !.robot = Switched(r, line.switch, line.on)],
                  [o EXCEPT !.bad = @ + 1]}
            ELSE {o}

CommandOutcomes(command, r, client) ==
  FoldLeft(LAMBDA outs, line : UNION {After(line, o, client) : o \in outs},
           {[robot |-> r, ok |-> TRUE, bad |-> 0]}, command)

-----------------------------------------------------------------------------

(* An arm that is already enabled, or powered, is not switched again; asking
   for what it has changes nothing, so the two shortcuts need no line. *)
Prepare == << CallBool("power", TRUE), WaitStatus({"power"}, {}),
              CallBool("enable", TRUE), WaitStatus({"enable"}, {}),
              CallBool("gripper", TRUE), WaitStatus({"gripper"}, {}) >>

EnterServo == << WaitStatus({"power", "enable"}, {}),
                 CallBool("motion", TRUE), WaitStatus({"motion"}, {}) >>

EnablePolicy == << CallBool("policy", TRUE) >>

DisablePolicy == << TryBool("policy", FALSE), TryBool("motion", FALSE) >>

\* Fault: the gripper is enabled before the policy is stopped.
Bug_ResetRound == << CallBool("gripper", TRUE),
                     TryBool("policy", FALSE), TryBool("motion", FALSE),
                     WaitStatus({"power", "enable"}, {"motion"}) >>

ResetRound == << TryBool("policy", FALSE), TryBool("motion", FALSE),
                 WaitStatus({"power", "enable"}, {"motion"}),
                 CallBool("gripper", TRUE), WaitStatus({"gripper"}, {}) >>

StopCalls == << TryBool("policy", FALSE), TryBool("motion", FALSE),
                TryBool("gripper", FALSE), TryBool("enable", FALSE),
                TryBool("power", FALSE) >>

(* stop_component ends the nodes whatever the calls did; the arm moves, and the
   gripper is held, only while its node runs. *)
NodesStopped(r) == TurnOff(r, {"nodes", "motion", "gripper"})

StopStack(r, client) ==
  {[o EXCEPT !.robot = NodesStopped(o.robot)] : o \in CommandOutcomes(StopCalls, r, client)}

(* start_stack refuses while a component runs, and stops all of them if the
   cameras are too slow.  `set -e` has no effect inside `if ! { ... }`: a node
   that died, or a service that did not appear, does not stop the start. *)
StartStack(r) ==
  IF r["nodes"] THEN {[robot |-> r, ok |-> FALSE, bad |-> 0]}
  ELSE {[robot |-> [r EXCEPT !["nodes"] = TRUE], ok |-> TRUE, bad |-> 0]}
       \union [robot : {r}, ok : BOOLEAN, bad : {1}]
=============================================================================
