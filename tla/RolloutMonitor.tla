---------------------------- MODULE RolloutMonitor ---------------------------
(***************************************************************************)
(* tools/monitor_qgf_rollout.py beside the adapter: the process that the   *)
(* collection session starts once /smolvla/set_enabled has answered        *)
(* success, that reads /smolvla/status and /right_arm/safety_status, and   *)
(* whose exit code decides whether the rollout ended as a completed task   *)
(* or as an abnormal stop.                                                 *)
(***************************************************************************)
EXTENDS ActionGate, Integers, Sequences

CONSTANTS
  Depth,          \* subscription queue depth
  Conditions      \* the safety conditions the robot can be in

ASSUME DepthAssumption ==
  Depth \in Nat \ {0} /\ Conditions \subseteq {"emergency_stop", "enable_lost"}

VARIABLES
  monitor,        \* "off", "running", or "done"
  watched,        \* the rollout the session started the monitor for
  inbox,          \* status messages received but not yet spun
  heard,          \* the smolvla fields of the last spun message, or Silence
  robot,          \* safety conditions on /right_arm/safety_status
  alarms,         \* ... as last spun
  code,           \* exit code, NoCode while there is none
  ended           \* history: rollouts the detector declared complete

monitorVars == <<monitor, watched, inbox, heard, robot, alarms, code, ended>>
allVars == <<vars, monitorVars>>

NoCode == -1
Silence == [enabled |-> TRUE, completed |-> FALSE]
Message == [enabled : BOOLEAN, completed : BOOLEAN]

MonitorTypeOK ==
  /\ monitor \in {"off", "running", "done"}
  /\ watched \in 0 .. MaxRollouts
  /\ inbox \in Seq(Message) /\ Len(inbox) <= Depth
  /\ heard \in Message
  /\ robot \in SUBSET Conditions /\ alarms \in SUBSET Conditions
  /\ code \in {NoCode, 0, 20, 23, 24, 27}
  /\ ended \in SUBSET (1 .. MaxRollouts)
------------------------------------------------------------------------------
\* Bound: the policy commands no gripper transition and the gripper stays
\* open.  Nothing the monitor reads depends on either.
GripperIdle == measured = "open" /\ command = "none"

MonitorInit ==
  /\ Init /\ GripperIdle
  /\ monitor = "off" /\ watched = 0
  /\ inbox = << >> /\ heard = Silence
  /\ robot = {} /\ alarms = {}
  /\ code = NoCode /\ ended = {}

\* KEEP_LAST: the oldest message gives way.
Queued(message) ==
  IF Len(inbox) < Depth THEN Append(inbox, message)
  ELSE Append(Tail(inbox), message)

\* A step of the adapter; the session enables the gate again only when the
\* monitor of the rollout before has exited.  A status message reaches the
\* running monitor's queue, which keeps the last Depth of them.
Adapter ==
  /\ Next /\ GripperIdle'
  /\ rollout' # rollout => monitor # "running"
  /\ inbox' = IF monitor = "running" /\ ros = "status" /\ ros' = "idle"
              THEN Queued([enabled |-> status'.enabled,
                           completed |-> status'.completed])
              ELSE inbox
  /\ ended' = IF completed' /\ ~completed THEN ended \cup {rollout} ELSE ended
  /\ UNCHANGED <<monitor, watched, heard, robot, alarms, code>>

\* The session starts the monitor with --action-gate-confirmed when the
\* enable service has answered; messages published before are not received.
StartMonitor ==
  /\ monitor = "off" \/ (monitor = "done" /\ watched # rollout)
  /\ rollout > 0
  /\ monitor' = "running" /\ watched' = rollout
  /\ inbox' = << >> /\ heard' = Silence /\ alarms' = {} /\ code' = NoCode
  /\ UNCHANGED <<vars, robot, ended>>

\* Fault: a closed gate is taken for a completed task.
Bug_Verdict(message, conditions) ==
  IF "emergency_stop" \in conditions THEN 20
  ELSE IF ~message.enabled THEN 0
  ELSE IF "enable_lost" \in conditions THEN 24
  ELSE NoCode

\* Fault: only the completion of the task ends a rollout.
Bug_VerdictIgnoresGate(message, conditions) ==
  IF "emergency_stop" \in conditions THEN 20
  ELSE IF message.completed THEN 0
  ELSE IF "enable_lost" \in conditions THEN 24
  ELSE NoCode

\* result(): physical alarms first, then completion, then a closed gate.
Verdict(message, conditions) ==
  IF "emergency_stop" \in conditions THEN 20
  ELSE IF message.completed THEN 0
  ELSE IF ~message.enabled THEN 23
  ELSE IF "enable_lost" \in conditions THEN 24
  ELSE NoCode

Decide ==
  /\ code' = Verdict(heard', alarms')
  /\ monitor' = IF code' = NoCode THEN "running" ELSE "done"

\* spin_once runs one callback, then result() is evaluated.
SpinStatus ==
  /\ monitor = "running" /\ inbox # << >>
  /\ heard' = Head(inbox) /\ inbox' = Tail(inbox)
  /\ alarms' = alarms
  /\ Decide
  /\ UNCHANGED <<vars, watched, robot, ended>>

SpinSafety ==
  /\ monitor = "running"
  /\ alarms' = robot
  /\ heard' = heard
  /\ Decide
  /\ UNCHANGED <<vars, watched, inbox, robot, ended>>

\* --timeout: only when the last result() was None.
Timeout ==
  /\ monitor = "running"
  /\ code' = 27 /\ monitor' = "done"
  /\ UNCHANGED <<vars, watched, inbox, heard, robot, alarms, ended>>

RobotCondition ==
  /\ robot' \in SUBSET Conditions
  /\ UNCHANGED <<vars, monitor, watched, inbox, heard, alarms, code, ended>>

MonitorNext ==
  \/ Adapter \/ StartMonitor \/ SpinStatus \/ SpinSafety \/ Timeout
  \/ RobotCondition

\* The 0.5 s status timer is served between any two other callbacks of the
\* executor, the monitor spins forever.
MonitorFairness ==
  /\ Fairness
  /\ SF_vars(ReadStatus)
  /\ WF_allVars(SpinStatus)

MonitorSpec == MonitorInit /\ [][MonitorNext]_allVars
FairMonitorSpec == MonitorSpec /\ MonitorFairness
------------------------------------------------------------------------------
(* A rollout the monitor reports as completed was completed: not the one   *)
(* before it, whose completion the status topic reported until the gate    *)
(* was enabled again.                                                      *)
ReportedCompletionHappened == code = 0 => watched \in ended

(* "Monitor one active rollout and classify its stop source"               *)
(* (monitor_qgf_rollout.py:2): a rollout that ended because the task was   *)
(* complete is not reported as policy_gate_closed_without_completion.      *)
GateClosedWithoutCompletion == code = 23 => watched \notin ended

(* A rollout whose gate is closed for good does not go unnoticed: the      *)
(* monitor ends, with whatever verdict, so the session can power down.     *)
ClosedGateIsNoticed ==
  [](monitor = "running" /\ watched = rollout /\ ~enabled
       => <>(monitor = "done" \/ enabled \/ main = "down"))
==============================================================================
