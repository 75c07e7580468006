----------------------------- MODULE ActionGate ------------------------------
(***************************************************************************)
(* The policy action gate of the Armstrong adapter (armstrongros2.py): the *)
(* state that the control-loop thread and the ROS executor thread share.   *)
(*                                                                         *)
(* The ROS thread is a SingleThreadedExecutor: its callbacks, services and *)
(* the status timer never overlap each other, but they interleave with the *)
(* control loop at every step of it.  A critical section under self._lock  *)
(* is one action here; a read or a write of a shared attribute outside the *)
(* lock is an action of its own.                                           *)
(*                                                                         *)
(* A rollout is numbered by `rollout`, counted up each time set_enabled    *)
(* (true) succeeds.  A joint target is the number of the rollout whose     *)
(* send_action computed it: what matters here is from when a target is,    *)
(* not where it points.                                                    *)
(***************************************************************************)
EXTENDS GripperConfirmation

CONSTANT MaxRollouts    \* bound: how often the gate is enabled

ASSUME MaxRolloutsAssumption == MaxRollouts \in Nat

VARIABLES
  enabled,        \* _action_enabled
  armMotion,      \* _arm_motion_enabled
  measured,       \* _gripper_closed, as a Position
  target,         \* _last_safe_joint_command, NoTarget for None
  filter,         \* _gripper_filter
  watching,       \* _completion_detector.active
  completed,      \* _completion_result is set and completed
  stopFlag,       \* _completion_stop_published
  connected,      \* _connected
  main,           \* where the control-loop thread is
  admitted,       \* rollout in which the current send_action passed the gate
  carried,        \* joint target read for publication
  command,        \* gripper command to publish: a Position, or "none"
  ros,            \* where the ROS thread is
  seen,           \* _publish_status: task_completed, read under the lock
  status,         \* the last message on /smolvla/status
  rollout,        \* number of set_enabled(true) so far
  stopDue,        \* history: the gate was closed, no STOP was published since
  byCompletion,   \* history: task completion, not a later call, closed it
  lateJoints,     \* history: joint targets published since the gate closed
  lateGrips,      \* history: gripper commands published since it closed
  fresh,          \* history: this rollout has stored a target of its own
  gripper         \* history: last gripper command of the model, its rollout

NoTarget == 0

gate     == <<enabled, armMotion, measured, target, filter, watching,
              completed, stopFlag, connected>>
mainVars == <<main, admitted, carried, command>>
rosVars  == <<ros, seen, status>>
ghosts   == <<stopDue, byCompletion, lateJoints, lateGrips, fresh, gripper>>
vars     == <<gate, mainVars, rosVars, rollout, ghosts>>

\* The control loop between the check of the gate and the publication of a
\* joint target, of a gripper command, or of a STOP.
Resending == {"resend_read", "resend_publish"}
Acting    == {"guard", "filter", "store", "read", "publish", "grip"}
Rejecting == {"reject_close", "reject_clear", "reject_stop"}
MainAt    == {"loop", "observe", "complete_stop", "disconnect_stop", "down"}
               \cup Resending \cup Acting \cup Rejecting
RosAt     == {"idle", "stop", "status"}

GateType ==
  /\ enabled \in BOOLEAN /\ armMotion \in BOOLEAN
  /\ measured \in Position
  /\ target \in 0 .. rollout
  /\ filter \in Filter
  /\ watching \in BOOLEAN /\ completed \in BOOLEAN
  /\ stopFlag \in BOOLEAN /\ connected \in BOOLEAN
ThreadType ==
  /\ main \in MainAt
  /\ admitted \in IF main \in Acting THEN 1 .. rollout ELSE {NoTarget}
  /\ carried \in IF main \in {"publish", "resend_publish"} THEN 1 .. rollout
                  ELSE {NoTarget}
  /\ command \in IF main = "grip" THEN Position ELSE Position \cup {"none"}
  /\ ros \in RosAt /\ seen \in BOOLEAN
StatusType ==
  status \in [enabled : BOOLEAN, completed : BOOLEAN, closing : BOOLEAN,
              stopDue : BOOLEAN]
HistoryType ==
  /\ rollout \in 0 .. MaxRollouts
  /\ enabled => rollout # 0
  /\ stopDue \in BOOLEAN /\ byCompletion \in BOOLEAN
  /\ lateJoints \in Nat /\ lateGrips \in Nat
  /\ fresh \in BOOLEAN
  /\ gripper \in [position : Position, rollout : 0 .. rollout]
TypeOK == GateType /\ ThreadType /\ StatusType /\ HistoryType
------------------------------------------------------------------------------
Init ==
  /\ enabled = FALSE /\ armMotion = FALSE /\ measured \in Position
  /\ target = NoTarget /\ filter = Rest("open")
  /\ watching = FALSE /\ completed = FALSE /\ stopFlag = FALSE
  /\ connected = TRUE
  /\ main = "loop" /\ admitted = NoTarget /\ carried = NoTarget
  /\ command = "none"
  /\ ros = "idle" /\ seen = FALSE
  /\ status = [enabled |-> FALSE, completed |-> FALSE, closing |-> FALSE,
               stopDue |-> FALSE]
  /\ rollout = 0
  /\ stopDue = FALSE /\ byCompletion = FALSE
  /\ lateJoints = 0 /\ lateGrips = 0 /\ fresh = FALSE
  /\ gripper = [position |-> "open", rollout |-> NoTarget]

MainGoes(from, to) == main = from /\ main' = to
RosGoes(from, to)  == ros = from /\ ros' = to

\* A control-loop call returns or raises: its locals are gone.
Forget == admitted' = NoTarget /\ carried' = NoTarget /\ command' = "none"

\* History of closing the gate, and of the messages on the topics.
Closes(completion) ==
  /\ stopDue' = (stopDue \/ enabled)
  /\ byCompletion' = completion
  /\ UNCHANGED <<lateJoints, lateGrips, fresh, gripper>>
PublishStop ==
  /\ stopDue' = FALSE
  /\ UNCHANGED <<byCompletion, lateJoints, lateGrips, fresh, gripper>>
PublishJoints ==
  /\ lateJoints' = IF enabled THEN lateJoints ELSE lateJoints + 1
  /\ UNCHANGED <<stopDue, byCompletion, lateGrips, fresh, gripper>>
------------------------------------------------------------------------------
(* ROS executor thread.                                                    *)

\* _gripper_callback, any time.
GripperCallback ==
  /\ ros = "idle" /\ main # "down"
  /\ measured' \in Position
  /\ UNCHANGED <<enabled, armMotion, target, filter, watching, completed,
                 stopFlag, connected, mainVars, rosVars, rollout, ghosts>>

\* Fault: the callback only remembers the arm's gate.
Bug_MotionEnabledCallback(data) ==
  /\ ros = "idle" /\ main # "down"
  /\ armMotion' = data
  /\ UNCHANGED <<enabled, measured, target, filter, watching, completed,
                 stopFlag, connected, mainVars, rosVars, rollout, ghosts>>

\* _motion_enabled_callback: losing the arm's motion gate closes this one.
MotionEnabledCallback(data) ==
  /\ ros = "idle" /\ main # "down"
  /\ armMotion' = data
  /\ IF enabled /\ ~data
     THEN /\ enabled' = FALSE /\ target' = NoTarget
          /\ filter' = Rest(measured)
          /\ ros' = "stop"
          /\ Closes(FALSE)
     ELSE UNCHANGED <<enabled, target, filter, ros, ghosts>>
  /\ UNCHANGED <<measured, watching, completed, stopFlag, connected, mainVars,
                 seen, status, rollout>>

\* _set_enabled(false), up to the STOP.
DisableService ==
  /\ main # "down"
  /\ RosGoes("idle", "stop")
  /\ enabled' = FALSE /\ target' = NoTarget /\ filter' = Rest(measured)
  /\ watching' = FALSE /\ completed' = FALSE /\ stopFlag' = FALSE
  /\ Closes(FALSE)
  /\ UNCHANGED <<armMotion, measured, connected, mainVars, seen, status,
                 rollout>>

\* Fault: the handler returns without the STOP.
Bug_RosStop ==
  /\ RosGoes("stop", "idle")
  /\ UNCHANGED <<gate, mainVars, seen, status, rollout, ghosts>>

\* The STOP of _motion_enabled_callback and of _set_enabled(false).
RosStop ==
  /\ RosGoes("stop", "idle")
  /\ PublishStop
  /\ UNCHANGED <<gate, mainVars, seen, status, rollout>>

\* Fault: the result of the rollout before is kept.
Bug_EnableService ==
  /\ main # "down" /\ ros = "idle"
  /\ armMotion
  /\ rollout < MaxRollouts
  /\ rollout' = rollout + 1
  /\ enabled' = TRUE
  /\ filter' = Rest(measured)
  /\ watching' = TRUE /\ stopFlag' = FALSE
  /\ lateJoints' = 0 /\ lateGrips' = 0 /\ fresh' = FALSE
  /\ UNCHANGED <<armMotion, measured, target, completed, connected, mainVars,
                 rosVars, stopDue, byCompletion, gripper>>

\* _set_enabled(true).  Its checks read under the lock, its writes take the
\* lock again: only this thread opens the gate or sets armMotion.  The last
\* joint target is not cleared.  A failed check (stale feedback, pose,
\* subscribers) leaves everything as it is.
EnableService ==
  /\ main # "down" /\ ros = "idle"
  /\ armMotion
  /\ rollout < MaxRollouts
  /\ rollout' = rollout + 1
  /\ enabled' = TRUE
  /\ filter' = Rest(measured)
  /\ watching' = TRUE /\ completed' = FALSE /\ stopFlag' = FALSE
  /\ lateJoints' = 0 /\ lateGrips' = 0 /\ fresh' = FALSE
  /\ UNCHANGED <<armMotion, measured, target, connected, mainVars, rosVars,
                 stopDue, byCompletion, gripper>>

\* _publish_status, up to the release of the lock ...
ReadStatus ==
  /\ main # "down"
  /\ RosGoes("idle", "status")
  /\ seen' = completed
  /\ UNCHANGED <<gate, mainVars, status, rollout, ghosts>>

\* ... and from there: _action_enabled is read after the lock is released.
\* `closing` and `stopDue` are what was true of the adapter then.
PublishStatus ==
  /\ RosGoes("status", "idle")
  /\ status' = [enabled |-> enabled, completed |-> seen,
                closing |-> ~enabled /\ byCompletion, stopDue |-> stopDue]
  /\ seen' = FALSE
  /\ UNCHANGED <<gate, mainVars, rollout, ghosts>>
------------------------------------------------------------------------------
(* Control-loop thread: control_loop_observation.                          *)

\* Fault: the target is resent whatever the gate says.
Bug_BeginObservation ==
  /\ main = "loop"
  /\ main' = IF connected THEN "resend_read" ELSE "observe"
  /\ UNCHANGED <<gate, admitted, carried, command, rosVars, rollout, ghosts>>

\* resend_last_joint_command: the check of the gate ...
BeginObservation ==
  /\ main = "loop"
  /\ main' = IF connected /\ enabled THEN "resend_read" ELSE "observe"
  /\ UNCHANGED <<gate, admitted, carried, command, rosVars, rollout, ghosts>>

\* ... the read of the target, None if the gate was closed meanwhile ...
ResendRead ==
  /\ main = "resend_read"
  /\ carried' = target
  /\ main' = IF target = NoTarget THEN "observe" ELSE "resend_publish"
  /\ UNCHANGED <<gate, admitted, command, rosVars, rollout, ghosts>>

\* ... and the publication, without looking at the gate again.
ResendPublish ==
  /\ MainGoes("resend_publish", "observe")
  /\ PublishJoints
  /\ Forget
  /\ UNCHANGED <<gate, rosVars, rollout>>

\* get_observation with stale feedback: no completion update.
ObserveStale ==
  /\ MainGoes("observe", "loop")
  /\ Forget
  /\ UNCHANGED <<gate, rosVars, rollout, ghosts>>

\* _update_task_completion: `done` is the detector's verdict (module
\* TaskCompletion).
UpdateTaskCompletion(done) ==
  /\ main = "observe"
  /\ enabled /\ watching
  /\ completed' = done
  /\ watching' = ~done
  /\ IF done /\ ~stopFlag
     THEN /\ stopFlag' = TRUE
          /\ enabled' = FALSE /\ target' = NoTarget
          /\ main' = "complete_stop"
          /\ Closes(TRUE)
     ELSE /\ main' = "loop"
          /\ UNCHANGED <<stopFlag, enabled, target, ghosts>>
  /\ UNCHANGED <<armMotion, measured, filter, connected, admitted, carried,
                 command, rosVars, rollout>>

NoTaskCompletion ==
  /\ ~(enabled /\ watching)
  /\ MainGoes("observe", "loop")
  /\ Forget
  /\ UNCHANGED <<gate, rosVars, rollout, ghosts>>

CompletionStop ==
  /\ MainGoes("complete_stop", "loop")
  /\ PublishStop
  /\ Forget
  /\ UNCHANGED <<gate, rosVars, rollout>>
------------------------------------------------------------------------------
(* Control-loop thread: control_loop_action and send_action.               *)

\* send_action passes the gate, once.
BeginAction ==
  /\ connected /\ enabled
  /\ MainGoes("loop", "guard")
  /\ admitted' = rollout
  /\ UNCHANGED <<gate, carried, command, rosVars, rollout, ghosts>>

\* _snapshot and guard_policy_action: stale feedback raises RuntimeError and
\* changes nothing, a target outside the limits raises PolicySafetyError.
Guard ==
  /\ main = "guard"
  /\ \/ main' \in {"loop", "reject_close"} /\ Forget
     \/ main' = "filter" /\ UNCHANGED <<admitted, carried, command>>
  /\ UNCHANGED <<gate, rosVars, rollout, ghosts>>

\* PolicySafetyError: three steps outside the lock, then the exception ends
\* control_loop_action.
RejectClose ==
  /\ MainGoes("reject_close", "reject_clear")
  /\ enabled' = FALSE
  /\ Closes(FALSE)
  /\ UNCHANGED <<armMotion, measured, target, filter, watching, completed,
                 stopFlag, connected, admitted, carried, command, rosVars,
                 rollout>>

\* Fault: the exception is raised before the STOP.
Bug_RejectClear ==
  /\ MainGoes("reject_clear", "loop")
  /\ target' = NoTarget
  /\ UNCHANGED <<enabled, armMotion, measured, filter, watching, completed,
                 stopFlag, connected, admitted, carried, command, rosVars,
                 rollout, ghosts>>

RejectClear ==
  /\ MainGoes("reject_clear", "reject_stop")
  /\ target' = NoTarget
  /\ UNCHANGED <<enabled, armMotion, measured, filter, watching, completed,
                 stopFlag, connected, admitted, carried, command, rosVars,
                 rollout, ghosts>>

RejectStop ==
  /\ MainGoes("reject_stop", "loop")
  /\ PublishStop
  /\ Forget
  /\ UNCHANGED <<gate, rosVars, rollout>>

\* Fault: a confirmed candidate is commanded although the filter holds it.
Bug_FilterGripper(band, held) ==
  /\ MainGoes("filter", "store")
  /\ filter' = Update(filter, band, held)
  /\ command' = IF Confirmed(filter, band) THEN band ELSE "none"
  /\ UNCHANGED <<enabled, armMotion, measured, target, watching, completed,
                 stopFlag, connected, admitted, carried, rosVars, rollout,
                 ghosts>>

\* The gripper filter, under the lock, then the guarded-action topic.
FilterGripper(band, held) ==
  /\ MainGoes("filter", "store")
  /\ filter' = Update(filter, band, held)
  /\ command' = IF Transitioned(filter, band, held) THEN band ELSE "none"
  /\ UNCHANGED <<enabled, armMotion, measured, target, watching, completed,
                 stopFlag, connected, admitted, carried, rosVars, rollout,
                 ghosts>>

\* Fault: a target that is still stored is not replaced.
Bug_StoreTarget ==
  /\ MainGoes("store", "read")
  /\ target' = IF target = NoTarget THEN admitted ELSE target
  /\ fresh' = (fresh \/ (enabled /\ admitted = rollout))
  /\ UNCHANGED <<enabled, armMotion, measured, filter, watching, completed,
                 stopFlag, connected, admitted, carried, command, rosVars,
                 rollout, stopDue, byCompletion, lateJoints, lateGrips,
                 gripper>>

StoreTarget ==
  /\ MainGoes("store", "read")
  /\ target' = admitted
  /\ fresh' = (fresh \/ (enabled /\ admitted = rollout))
  /\ UNCHANGED <<enabled, armMotion, measured, filter, watching, completed,
                 stopFlag, connected, admitted, carried, command, rosVars,
                 rollout, stopDue, byCompletion, lateJoints, lateGrips,
                 gripper>>

\* Fault: an empty target is published.
Bug_ReadTarget ==
  /\ main = "read"
  /\ main' = "publish" /\ carried' = target
  /\ UNCHANGED <<gate, admitted, command, rosVars, rollout, ghosts>>

\* The argument of _publish_joint_command is the attribute, read again: if
\* the gate was closed meanwhile it is None, list(None) raises TypeError and
\* the rest of send_action is skipped.
ReadTarget ==
  /\ main = "read"
  /\ IF target = NoTarget
     THEN main' = "loop" /\ Forget
     ELSE main' = "publish" /\ carried' = target /\ UNCHANGED <<admitted, command>>
  /\ UNCHANGED <<gate, rosVars, rollout, ghosts>>

PublishTarget ==
  /\ main = "publish"
  /\ IF command = "none"
     THEN main' = "loop" /\ Forget
     ELSE main' = "grip" /\ carried' = NoTarget /\ UNCHANGED <<admitted, command>>
  /\ PublishJoints
  /\ UNCHANGED <<gate, rosVars, rollout>>

PublishGripper ==
  /\ MainGoes("grip", "loop")
  /\ lateGrips' = IF enabled THEN lateGrips ELSE lateGrips + 1
  /\ gripper' = [position |-> command, rollout |-> admitted]
  /\ Forget
  /\ UNCHANGED <<gate, rosVars, rollout, stopDue,
                 byCompletion, lateJoints, fresh>>
------------------------------------------------------------------------------

\* disconnect(), by client.stop() after the control loop has ended.
Disconnect ==
  /\ MainGoes("loop", "disconnect_stop")
  /\ enabled' = FALSE /\ target' = NoTarget /\ filter' = Rest(measured)
  /\ watching' = FALSE
  /\ Closes(FALSE)
  /\ UNCHANGED <<armMotion, measured, completed, stopFlag, connected, admitted,
                 carried, command, rosVars, rollout>>

\* STOP, then the executor is shut down: it starts no further callback.
DisconnectStop ==
  /\ MainGoes("disconnect_stop", "down")
  /\ connected' = FALSE
  /\ PublishStop
  /\ UNCHANGED <<enabled, armMotion, measured, target, filter, watching,
                 completed, stopFlag, admitted, carried, command, rosVars,
                 rollout>>
------------------------------------------------------------------------------
RosThread ==
  \/ GripperCallback
  \/ \E data \in BOOLEAN : MotionEnabledCallback(data)
  \/ DisableService
  \/ RosStop
  \/ EnableService
  \/ ReadStatus
  \/ PublishStatus

ControlLoop ==
  \/ BeginObservation \/ ResendRead \/ ResendPublish
  \/ ObserveStale \/ NoTaskCompletion \/ CompletionStop
  \/ \E done \in BOOLEAN : UpdateTaskCompletion(done)
  \/ BeginAction \/ Guard
  \/ RejectClose \/ RejectClear \/ RejectStop
  \/ \E band \in Band, held \in BOOLEAN : FilterGripper(band, held)
  \/ StoreTarget \/ ReadTarget \/ PublishTarget \/ PublishGripper
  \/ Disconnect \/ DisconnectStop

Next == RosThread \/ ControlLoop

\* A callback that has started is finished, and the control loop goes on.
\* Which callbacks arrive is up to the operator and the robot.
Fairness == WF_vars(RosStop \/ PublishStatus) /\ WF_vars(ControlLoop)

Spec == Init /\ [][Next]_vars
FairSpec == Spec /\ Fairness
------------------------------------------------------------------------------
(* The policy never has the gate while the arm's own motion gate is shut:  *)
(* _set_enabled reads arm_motion_enabled in one critical section and opens *)
(* the gate in another, and _motion_enabled_callback closes it.            *)
GateNeedsArmMotion == enabled => armMotion

(* A task that is reported complete has lost the gate, until the operator  *)
(* disables or enables it again; a status message never shows both, though *)
(* its two fields are read at different moments.                           *)
CompletionKeepsGateClosed == /\ completed => ~enabled
                             /\ ~(status.completed /\ status.enabled)

(* Each closing of the gate, by whichever thread, is followed by at most   *)
(* one joint target and at most one gripper command, those of the one      *)
(* control-loop call that had passed the gate before.                      *)
AtMostOneLateCommand == lateJoints <= 1 /\ lateGrips <= 1

(* No closing is forgotten: while the STOP for it is still missing, the    *)
(* thread that closed the gate is on its way to publishing one.            *)
MissingStopIsUnderWay ==
  stopDue => \/ ros = "stop"
             \/ main \in {"complete_stop", "reject_clear", "reject_stop",
                          "disconnect_stop"}

(* A re-enabled gate may resend a target of an earlier rollout, because    *)
(* set_enabled(true) does not clear it; but from the moment the rollout    *)
(* has stored a target of its own, none of an earlier one is published.    *)
OwnTargetReplacesOld ==
  enabled /\ fresh /\ main \in {"publish", "resend_publish"}
    => carried = rollout

(* Between two actions the filter's command is the last gripper command    *)
(* the model sent in this rollout: a closing that interrupts send_action   *)
(* does not leave the filter believing in a command that was never sent.   *)
FilterKnowsLastCommand ==
  /\ enabled
  /\ gripper.rollout = rollout
  /\ main \notin {"store", "read", "publish", "grip"}
  => gripper.position = filter.command

(* Why the invariants above hold: what is true of the two threads between  *)
(* their steps, checked together with them and used by their proofs.       *)
CompletionInvariant ==
  /\ CompletionKeepsGateClosed
  /\ watching => ~stopFlag
  /\ ros = "status" /\ seen => ~enabled
LateInvariant ==
  /\ AtMostOneLateCommand
  /\ enabled => lateJoints = 0 /\ lateGrips = 0
  /\ main \in Resending \cup (Acting \ {"grip"}) => lateJoints = 0
  /\ main \in Acting => lateGrips = 0
TargetInvariant ==
  /\ fresh => target \in {NoTarget, rollout}
  /\ fresh /\ main \in Acting => admitted = rollout
  /\ fresh /\ main \in {"publish", "resend_publish"} => carried = rollout
FilterInvariant ==
  /\ FilterKnowsLastCommand
  /\ main \in Acting /\ gripper.rollout = rollout => admitted = rollout
  /\ main = "read" /\ enabled /\ admitted = rollout => target # NoTarget
  /\ main \in {"store", "read", "publish", "grip"} /\ enabled /\ admitted = rollout
       => IF command = "none"
          THEN gripper.rollout = rollout => gripper.position = filter.command
          ELSE command = filter.command

(* A closed gate always gets its STOP: every closing path, exceptions      *)
(* included, reaches one.                                                  *)
ClosingIsAnswered == stopDue ~> ~stopDue

(* "The adapter closes its action gate and publishes STOP before exposing  *)
(* task_completed=1" (run_smolvla_orin.sh:287-288).                        *)
StopBeforeCompletedStatus == status.completed => ~status.stopDue

\* What the adapter promises of its gate, see module GatedPublisher.
Publisher == INSTANCE GatedPublisher
  WITH open     <- enabled,
       admitted <- main \in Resending \cup (Acting \ {"grip"}),
       late     <- lateJoints

(* The joint targets of both threads implement a publisher that looks at   *)
(* the gate once for each target.                                          *)
ImplementsGatedPublisher == Publisher!Spec
==============================================================================
