-------------------------- MODULE ActionGateProofs ---------------------------
(***************************************************************************)
(* The action gate of the adapter and the rollout monitor that reads its   *)
(* status, for every number of confirmation frames, of rollouts and of     *)
(* queued messages.  The first part is about ActionGate alone.  The second *)
(* is about the monitor beside it: exit code 0 is never that of another    *)
(* rollout.  The status topic is latched and knows no rollout numbers, so  *)
(* the proof follows a completion on its way: the detector's result, the   *)
(* reading of the status timer, the messages in the monitor's queue, the   *)
(* verdict.                                                                *)
(***************************************************************************)
EXTENDS RolloutMonitor, TLAPS

USE FramesAssumption, MaxRolloutsAssumption
    DEF gate, mainVars, rosVars, ghosts, MainGoes, RosGoes, Forget, Closes,
        PublishStop, PublishJoints
------------------------------------------------------------------------------
(* The filter's operators stay within the filter's type, and an update     *)
(* changes the command to the band it was asked for or not at all.         *)
LEMMA FilterUpdate ==
  ASSUME NEW f \in Filter, NEW band \in Band, NEW held \in BOOLEAN
  PROVE  /\ Update(f, band, held) \in Filter
         /\ Update(f, band, held).command \in {f.command, band}
<1>1. \A p \in Position : Rest(p) \in Filter /\ Rest(p).command = p
  BY DEF Rest, Filter, Position, Band
<1>2. /\ Pending(f, band) \in Filter
      /\ Pending(f, band).command = f.command
  <2>1. CASE band \in {"undecided", f.command}
    BY <2>1, <1>1 DEF Pending, Filter
  <2>2. CASE band \notin {"undecided", f.command}
    BY <2>2 DEF Pending, Filter, Band
  <2>3. QED BY <2>1, <2>2
<1>3. CASE Confirmed(f, band) /\ ~held
  <2>1. band # "undecided"
    BY <1>3 DEF Confirmed, Pending, Rest
  <2>2. QED BY <1>1, <1>3, <2>1 DEF Update, Band, Position
<1>4. CASE ~(Confirmed(f, band) /\ ~held)
  BY <1>2, <1>4 DEF Update
<1>5. QED BY <1>3, <1>4

(* A filter that was reset is well typed. *)
LEMMA FilterRest ==
  \A p \in Position : Rest(p) \in Filter /\ Rest(p).command = p
  BY DEF Rest, Filter, Position, Band

(* The numbers of rollouts, as the steps compare and copy them. *)
LEMMA RolloutBounds ==
  ASSUME NEW n \in 0 .. MaxRollouts
  PROVE  /\ NoTarget \in 0 .. n
         /\ 0 .. n \subseteq 0 .. n + 1
         /\ \A r \in 1 .. n : r \in 0 .. n
  BY DEF NoTarget

(* The places of the control loop, inside send_action and outside it. *)
LEMMA Outside ==
  \A m \in {"loop", "observe", "complete_stop", "disconnect_stop", "down",
            "resend_read", "resend_publish", "reject_close", "reject_clear",
            "reject_stop"} : m \in MainAt /\ m \notin Acting
  BY DEF MainAt, Acting, Resending, Rejecting

\* A place of sending is a place of the control loop and of acting.
LEMMA Inside ==
  \A m \in {"guard", "filter", "store", "read", "publish", "grip"} :
     m \in MainAt /\ m \in Acting
  BY DEF MainAt, Acting, Resending, Rejecting

(* The places of the ROS thread. *)
LEMMA RosPlaces == "idle" \in RosAt /\ "stop" \in RosAt /\ "status" \in RosAt
  BY DEF RosAt
------------------------------------------------------------------------------
(* The type invariant holds: no joint target is published that was never   *)
(* stored, and no call is admitted in a rollout that has not begun.        *)
THEOREM TypeCorrect == Spec => []TypeOK
<1>1. Init => TypeOK
  <2> SUFFICES ASSUME Init PROVE TypeOK OBVIOUS
  <2> USE DEF Init
  <2>1. rollout \in 0 .. MaxRollouts BY DEF Init
  <2>2. GateType BY <2>1, FilterRest, RolloutBounds DEF GateType, Position
  <2>3. ThreadType
    BY Outside, RosPlaces DEF ThreadType, Position
  <2>4. StatusType BY DEF StatusType
  <2>5. gripper \in [position : Position, rollout : 0 .. rollout]
    BY <2>1, RolloutBounds DEF Position
  <2>6. HistoryType BY <2>1, <2>5 DEF HistoryType
  <2>7. QED BY <2>2, <2>3, <2>4, <2>6 DEF TypeOK
<1>2. TypeOK /\ [Next]_vars => TypeOK'
  <2> SUFFICES ASSUME TypeOK, [Next]_vars PROVE TypeOK'
    OBVIOUS
  <2> USE DEF TypeOK
  <2>1. CASE RosThread
    <3>1. CASE GripperCallback
      <4> USE <3>1 DEF GripperCallback
      <4>1. GateType' BY DEF GateType
      <4>2. ThreadType' BY DEF ThreadType
      <4>3. StatusType' BY DEF StatusType
      <4>4. HistoryType' BY DEF HistoryType, GateType
      <4>5. QED BY <4>1, <4>2, <4>3, <4>4
    <3>2. ASSUME NEW data \in BOOLEAN, MotionEnabledCallback(data)
        PROVE TypeOK'
      <4> USE <3>2 DEF MotionEnabledCallback
      <4>1. target' \in 0 .. rollout'
        BY RolloutBounds DEF GateType, HistoryType
      <4>2. filter' \in Filter
        BY FilterRest DEF GateType
      <4>3. GateType' BY <4>1, <4>2 DEF GateType
      <4>4. ThreadType' BY RosPlaces DEF ThreadType
      <4>5. StatusType' BY DEF StatusType
      <4>6. HistoryType' BY DEF HistoryType, GateType
      <4>7. QED BY <4>3, <4>4, <4>5, <4>6
    <3>3. CASE DisableService
      <4> USE <3>3 DEF DisableService
      <4>1. target' \in 0 .. rollout'
        BY RolloutBounds DEF GateType, HistoryType
      <4>2. filter' \in Filter
        BY FilterRest DEF GateType
      <4>3. GateType' BY <4>1, <4>2 DEF GateType
      <4>4. ThreadType' BY RosPlaces DEF ThreadType
      <4>5. StatusType' BY DEF StatusType
      <4>6. HistoryType' BY DEF HistoryType, GateType
      <4>7. QED BY <4>3, <4>4, <4>5, <4>6
    <3>4. CASE RosStop
      <4> USE <3>4 DEF RosStop
      <4>1. GateType' BY DEF GateType
      <4>2. ThreadType' BY RosPlaces DEF ThreadType
      <4>3. StatusType' BY DEF StatusType
      <4>4. HistoryType' BY DEF HistoryType, GateType
      <4>5. QED BY <4>1, <4>2, <4>3, <4>4
    <3>5. CASE EnableService
      <4> USE <3>5 DEF EnableService
      <4>1. target' \in 0 .. rollout'
        BY RolloutBounds DEF GateType, HistoryType
      <4>2. filter' \in Filter
        BY FilterRest DEF GateType
      <4>3. gripper' \in [position : Position, rollout : 0 .. rollout']
        BY RolloutBounds DEF HistoryType
      <4>4. rollout' \in 0 .. MaxRollouts /\ rollout' # 0
        BY DEF HistoryType
      <4>5. (main \in Acting => admitted' \in 1 .. rollout')
           /\ (main \in {"publish", "resend_publish"}
                => carried' \in 1 .. rollout')
        BY DEF ThreadType, HistoryType
      <4>6. GateType' BY <4>1, <4>2 DEF GateType
      <4>7. ThreadType' BY <4>5 DEF ThreadType
      <4>8. StatusType' BY DEF StatusType
      <4>9. HistoryType' BY <4>3, <4>4 DEF HistoryType, GateType
      <4>10. QED BY <4>6, <4>7, <4>8, <4>9
    <3>6. CASE ReadStatus
      <4> USE <3>6 DEF ReadStatus
      <4>1. GateType' BY DEF GateType
      <4>2. ThreadType' BY RosPlaces DEF ThreadType, GateType
      <4>3. StatusType' BY DEF StatusType
      <4>4. HistoryType' BY DEF HistoryType, GateType
      <4>5. QED BY <4>1, <4>2, <4>3, <4>4
    <3>7. CASE PublishStatus
      <4> USE <3>7 DEF PublishStatus
      <4>1. GateType' BY DEF GateType
      <4>2. ThreadType' BY RosPlaces DEF ThreadType
      <4>3. StatusType' BY DEF StatusType, GateType, ThreadType, HistoryType
      <4>4. HistoryType' BY DEF HistoryType, GateType
      <4>5. QED BY <4>1, <4>2, <4>3, <4>4
    <3>8. QED
      BY <2>1, <3>1, <3>2, <3>3, <3>4, <3>5, <3>6, <3>7 DEF RosThread
  <2>2. CASE ControlLoop
    <3>1. CASE BeginObservation
      <4> USE <3>1 DEF BeginObservation
      <4>1. GateType' BY DEF GateType
      <4>2. ThreadType' BY Outside DEF ThreadType
      <4>3. StatusType' BY DEF StatusType
      <4>4. HistoryType' BY DEF HistoryType, GateType
      <4>5. QED BY <4>1, <4>2, <4>3, <4>4
    <3>2. CASE ResendRead
      <4> USE <3>2 DEF ResendRead
      <4>1. target = NoTarget \/ target \in 1 .. rollout
        BY DEF GateType, HistoryType, NoTarget
      <4>2. GateType' BY DEF GateType
      <4>3. ThreadType' BY <4>1, Outside DEF ThreadType
      <4>4. StatusType' BY DEF StatusType
      <4>5. HistoryType' BY DEF HistoryType, GateType
      <4>6. QED BY <4>2, <4>3, <4>4, <4>5
    <3>3. CASE ResendPublish
      <4> USE <3>3 DEF ResendPublish
      <4>1. GateType' BY DEF GateType
      <4>2. ThreadType' BY Outside DEF ThreadType
      <4>3. StatusType' BY DEF StatusType
      <4>4. HistoryType' BY DEF HistoryType, GateType
      <4>5. QED BY <4>1, <4>2, <4>3, <4>4
    <3>4. CASE ObserveStale
      <4> USE <3>4 DEF ObserveStale
      <4>1. GateType' BY DEF GateType
      <4>2. ThreadType' BY Outside DEF ThreadType
      <4>3. StatusType' BY DEF StatusType
      <4>4. HistoryType' BY DEF HistoryType, GateType
      <4>5. QED BY <4>1, <4>2, <4>3, <4>4
    <3>5. CASE NoTaskCompletion
      <4> USE <3>5 DEF NoTaskCompletion
      <4>1. GateType' BY DEF GateType
      <4>2. ThreadType' BY Outside DEF ThreadType
      <4>3. StatusType' BY DEF StatusType
      <4>4. HistoryType' BY DEF HistoryType, GateType
      <4>5. QED BY <4>1, <4>2, <4>3, <4>4
    <3>6. CASE CompletionStop
      <4> USE <3>6 DEF CompletionStop
      <4>1. GateType' BY DEF GateType
      <4>2. ThreadType' BY Outside DEF ThreadType
      <4>3. StatusType' BY DEF StatusType
      <4>4. HistoryType' BY DEF HistoryType, GateType
      <4>5. QED BY <4>1, <4>2, <4>3, <4>4
    <3>7. ASSUME NEW done \in BOOLEAN, UpdateTaskCompletion(done)
        PROVE TypeOK'
      <4> USE <3>7 DEF UpdateTaskCompletion
      <4>1. target' \in 0 .. rollout'
        BY RolloutBounds DEF GateType, HistoryType
      <4>2. GateType' BY <4>1 DEF GateType
      <4>3. ThreadType' BY Outside DEF ThreadType
      <4>4. StatusType' BY DEF StatusType
      <4>5. HistoryType' BY DEF HistoryType, GateType
      <4>6. QED BY <4>2, <4>3, <4>4, <4>5
    <3>8. CASE BeginAction
      <4> USE <3>8 DEF BeginAction
      <4>1. rollout \in 1 .. rollout
        BY DEF HistoryType
      <4>2. GateType' BY DEF GateType
      <4>3. ThreadType' BY <4>1, Outside, Inside DEF ThreadType
      <4>4. StatusType' BY DEF StatusType
      <4>5. HistoryType' BY DEF HistoryType, GateType
      <4>6. QED BY <4>2, <4>3, <4>4, <4>5
    <3>9. CASE Guard
      <4> USE <3>9 DEF Guard
      <4>1. GateType' BY DEF GateType
      <4>2. ThreadType' BY Outside, Inside DEF ThreadType
      <4>3. StatusType' BY DEF StatusType
      <4>4. HistoryType' BY DEF HistoryType, GateType
      <4>5. QED BY <4>1, <4>2, <4>3, <4>4
    <3>10. CASE RejectClose
      <4> USE <3>10 DEF RejectClose
      <4>1. GateType' BY DEF GateType
      <4>2. ThreadType' BY Outside DEF ThreadType
      <4>3. StatusType' BY DEF StatusType
      <4>4. HistoryType' BY DEF HistoryType, GateType
      <4>5. QED BY <4>1, <4>2, <4>3, <4>4
    <3>11. CASE RejectClear
      <4> USE <3>11 DEF RejectClear
      <4>1. target' \in 0 .. rollout'
        BY RolloutBounds DEF GateType, HistoryType
      <4>2. GateType' BY <4>1 DEF GateType
      <4>3. ThreadType' BY Outside DEF ThreadType
      <4>4. StatusType' BY DEF StatusType
      <4>5. HistoryType' BY DEF HistoryType, GateType
      <4>6. QED BY <4>2, <4>3, <4>4, <4>5
    <3>12. CASE RejectStop
      <4> USE <3>12 DEF RejectStop
      <4>1. GateType' BY DEF GateType
      <4>2. ThreadType' BY Outside DEF ThreadType
      <4>3. StatusType' BY DEF StatusType
      <4>4. HistoryType' BY DEF HistoryType, GateType
      <4>5. QED BY <4>1, <4>2, <4>3, <4>4
    <3>13. ASSUME NEW band \in Band, NEW held \in BOOLEAN,
                FilterGripper(band, held)
          PROVE TypeOK'
      <4> USE <3>13 DEF FilterGripper
      <4>1. filter' \in Filter
        BY FilterUpdate DEF GateType
      <4>2. Transitioned(filter, band, held) => band \in Position
        BY FilterUpdate DEF GateType, Filter, Band, Transitioned
      <4>3. GateType' BY <4>1 DEF GateType
      <4>4. ThreadType' BY <4>1, <4>2, Inside DEF ThreadType
      <4>5. StatusType' BY DEF StatusType
      <4>6. HistoryType' BY DEF HistoryType, GateType
      <4>7. QED BY <4>3, <4>4, <4>5, <4>6
    <3>14. CASE StoreTarget
      <4> USE <3>14 DEF StoreTarget
      <4>1. admitted \in 1 .. rollout
        BY Inside DEF ThreadType
      <4>2. target' \in 0 .. rollout'
        BY <4>1, RolloutBounds DEF HistoryType
      <4>3. GateType' BY <4>1, <4>2 DEF GateType
      <4>4. ThreadType' BY Inside DEF ThreadType
      <4>5. StatusType' BY DEF StatusType
      <4>6. HistoryType' BY DEF HistoryType, GateType
      <4>7. QED BY <4>3, <4>4, <4>5, <4>6
    <3>15. CASE ReadTarget
      <4> USE <3>15 DEF ReadTarget
      <4>1. target = NoTarget \/ target \in 1 .. rollout
        BY DEF GateType, HistoryType, NoTarget
      <4>2. GateType' BY DEF GateType
      <4>3. ThreadType' BY <4>1, Outside, Inside DEF ThreadType
      <4>4. StatusType' BY DEF StatusType
      <4>5. HistoryType' BY DEF HistoryType, GateType
      <4>6. QED BY <4>2, <4>3, <4>4, <4>5
    <3>16. CASE PublishTarget
      <4> USE <3>16 DEF PublishTarget
      <4>1. GateType' BY DEF GateType
      <4>2. ThreadType' BY Outside, Inside DEF ThreadType
      <4>3. StatusType' BY DEF StatusType
      <4>4. HistoryType' BY DEF HistoryType, GateType
      <4>5. QED BY <4>1, <4>2, <4>3, <4>4
    <3>17. CASE PublishGripper
      <4> USE <3>17 DEF PublishGripper
      <4>1. admitted \in 0 .. rollout
        BY Inside, RolloutBounds DEF ThreadType, HistoryType
      <4>2. command \in Position
        BY DEF ThreadType
      <4>3. GateType' BY DEF GateType
      <4>4. ThreadType' BY Outside, Inside DEF ThreadType
      <4>5. StatusType' BY DEF StatusType
      <4>6. HistoryType' BY <4>1, <4>2 DEF HistoryType, GateType
      <4>7. QED BY <4>3, <4>4, <4>5, <4>6
    <3>18. CASE Disconnect
      <4> USE <3>18 DEF Disconnect
      <4>1. target' \in 0 .. rollout'
        BY RolloutBounds DEF GateType, HistoryType
      <4>2. filter' \in Filter
        BY FilterRest DEF GateType
      <4>3. GateType' BY <4>1, <4>2 DEF GateType
      <4>4. ThreadType' BY Outside DEF ThreadType
      <4>5. StatusType' BY DEF StatusType
      <4>6. HistoryType' BY DEF HistoryType, GateType
      <4>7. QED BY <4>3, <4>4, <4>5, <4>6
    <3>19. CASE DisconnectStop
      <4> USE <3>19 DEF DisconnectStop
      <4>1. GateType' BY DEF GateType
      <4>2. ThreadType' BY Outside DEF ThreadType
      <4>3. StatusType' BY DEF StatusType
      <4>4. HistoryType' BY DEF HistoryType, GateType
      <4>5. QED BY <4>1, <4>2, <4>3, <4>4
    <3>20. QED
      BY <2>2, <3>1, <3>2, <3>3, <3>4, <3>5, <3>6, <3>7, <3>8, <3>9, <3>10,
         <3>11, <3>12, <3>13, <3>14, <3>15, <3>16, <3>17, <3>18, <3>19
      DEF ControlLoop
  <2>3. CASE UNCHANGED vars
    BY <2>3 DEF vars, GateType, ThreadType, StatusType, HistoryType
  <2>4. QED BY <2>1, <2>2, <2>3 DEF Next
<1>3. QED BY <1>1, <1>2, PTL DEF Spec
------------------------------------------------------------------------------
(* Every step keeps the policy's gate shut while the arm's is. *)
LEMMA ArmStep ==
  TypeOK /\ GateNeedsArmMotion /\ [Next]_vars => GateNeedsArmMotion'
<1> SUFFICES ASSUME TypeOK, GateNeedsArmMotion, [Next]_vars
             PROVE GateNeedsArmMotion'
  OBVIOUS
<1> USE DEF TypeOK, GateType, GateNeedsArmMotion
<1>1. CASE RosThread
  <2>1. CASE GripperCallback BY <2>1 DEF GripperCallback
  <2>2. ASSUME NEW data \in BOOLEAN, MotionEnabledCallback(data)
        PROVE GateNeedsArmMotion'
    BY <2>2 DEF MotionEnabledCallback
  <2>3. CASE DisableService BY <2>3 DEF DisableService
  <2>4. CASE RosStop BY <2>4 DEF RosStop
  <2>5. CASE EnableService BY <2>5 DEF EnableService
  <2>6. CASE ReadStatus BY <2>6 DEF ReadStatus
  <2>7. CASE PublishStatus BY <2>7 DEF PublishStatus
  <2>8. QED
    BY <1>1, <2>1, <2>2, <2>3, <2>4, <2>5, <2>6, <2>7 DEF RosThread
<1>2. CASE ControlLoop
  <2>1. CASE BeginObservation BY <2>1 DEF BeginObservation
  <2>2. CASE ResendRead BY <2>2 DEF ResendRead
  <2>3. CASE ResendPublish BY <2>3 DEF ResendPublish
  <2>4. CASE ObserveStale BY <2>4 DEF ObserveStale
  <2>5. CASE NoTaskCompletion BY <2>5 DEF NoTaskCompletion
  <2>6. CASE CompletionStop BY <2>6 DEF CompletionStop
  <2>7. ASSUME NEW done \in BOOLEAN, UpdateTaskCompletion(done)
        PROVE GateNeedsArmMotion'
    BY <2>7 DEF UpdateTaskCompletion
  <2>8. CASE BeginAction BY <2>8 DEF BeginAction
  <2>9. CASE Guard BY <2>9 DEF Guard
  <2>10. CASE RejectClose BY <2>10 DEF RejectClose
  <2>11. CASE RejectClear BY <2>11 DEF RejectClear
  <2>12. CASE RejectStop BY <2>12 DEF RejectStop
  <2>13. ASSUME NEW band \in Band, NEW held \in BOOLEAN,
                FilterGripper(band, held)
        PROVE GateNeedsArmMotion'
    BY <2>13 DEF FilterGripper
  <2>14. CASE StoreTarget BY <2>14 DEF StoreTarget
  <2>15. CASE ReadTarget BY <2>15 DEF ReadTarget
  <2>16. CASE PublishTarget BY <2>16 DEF PublishTarget
  <2>17. CASE PublishGripper BY <2>17 DEF PublishGripper
  <2>18. CASE Disconnect BY <2>18 DEF Disconnect
  <2>19. CASE DisconnectStop BY <2>19 DEF DisconnectStop
  <2>20. QED
    BY <1>2, <2>1, <2>2, <2>3, <2>4, <2>5, <2>6, <2>7, <2>8, <2>9,
       <2>10, <2>11, <2>12, <2>13, <2>14, <2>15, <2>16, <2>17, <2>18,
       <2>19 DEF ControlLoop
<1>3. CASE UNCHANGED vars BY <1>3 DEF vars
<1>4. QED BY <1>1, <1>2, <1>3 DEF Next

(* For any number of rollouts: the policy's gate is never open while the   *)
(* arm's is shut.                                                          *)
THEOREM ArmGateFirst == Spec => []GateNeedsArmMotion
<1>1. Init => GateNeedsArmMotion
  BY DEF Init, GateNeedsArmMotion
<1>2. QED BY <1>1, ArmStep, TypeCorrect, PTL DEF Spec
------------------------------------------------------------------------------
(* Every step keeps what is true of a completed task and its gate. *)
LEMMA CompletionStep ==
  TypeOK /\ CompletionInvariant /\ [Next]_vars => CompletionInvariant'
<1> SUFFICES ASSUME TypeOK, CompletionInvariant, [Next]_vars
             PROVE CompletionInvariant'
  OBVIOUS
<1> USE DEF TypeOK, GateType, ThreadType, CompletionInvariant,
        CompletionKeepsGateClosed
<1>1. CASE RosThread
  <2>1. CASE GripperCallback BY <2>1 DEF GripperCallback
  <2>2. ASSUME NEW data \in BOOLEAN, MotionEnabledCallback(data)
        PROVE CompletionInvariant'
    BY <2>2 DEF MotionEnabledCallback
  <2>3. CASE DisableService BY <2>3 DEF DisableService
  <2>4. CASE RosStop BY <2>4 DEF RosStop
  <2>5. CASE EnableService BY <2>5 DEF EnableService
  <2>6. CASE ReadStatus BY <2>6 DEF ReadStatus
  <2>7. CASE PublishStatus BY <2>7 DEF PublishStatus
  <2>8. QED
    BY <1>1, <2>1, <2>2, <2>3, <2>4, <2>5, <2>6, <2>7 DEF RosThread
<1>2. CASE ControlLoop
  <2>1. CASE BeginObservation BY <2>1 DEF BeginObservation
  <2>2. CASE ResendRead BY <2>2 DEF ResendRead
  <2>3. CASE ResendPublish BY <2>3 DEF ResendPublish
  <2>4. CASE ObserveStale BY <2>4 DEF ObserveStale
  <2>5. CASE NoTaskCompletion BY <2>5 DEF NoTaskCompletion
  <2>6. CASE CompletionStop BY <2>6 DEF CompletionStop
  <2>7. ASSUME NEW done \in BOOLEAN, UpdateTaskCompletion(done)
        PROVE CompletionInvariant'
    BY <2>7 DEF UpdateTaskCompletion
  <2>8. CASE BeginAction BY <2>8 DEF BeginAction
  <2>9. CASE Guard BY <2>9 DEF Guard
  <2>10. CASE RejectClose BY <2>10 DEF RejectClose
  <2>11. CASE RejectClear BY <2>11 DEF RejectClear
  <2>12. CASE RejectStop BY <2>12 DEF RejectStop
  <2>13. ASSUME NEW band \in Band, NEW held \in BOOLEAN,
                FilterGripper(band, held)
        PROVE CompletionInvariant'
    BY <2>13 DEF FilterGripper
  <2>14. CASE StoreTarget BY <2>14 DEF StoreTarget
  <2>15. CASE ReadTarget BY <2>15 DEF ReadTarget
  <2>16. CASE PublishTarget BY <2>16 DEF PublishTarget
  <2>17. CASE PublishGripper BY <2>17 DEF PublishGripper
  <2>18. CASE Disconnect BY <2>18 DEF Disconnect
  <2>19. CASE DisconnectStop BY <2>19 DEF DisconnectStop
  <2>20. QED
    BY <1>2, <2>1, <2>2, <2>3, <2>4, <2>5, <2>6, <2>7, <2>8, <2>9,
       <2>10, <2>11, <2>12, <2>13, <2>14, <2>15, <2>16, <2>17, <2>18,
       <2>19 DEF ControlLoop
<1>3. CASE UNCHANGED vars BY <1>3 DEF vars
<1>4. QED BY <1>1, <1>2, <1>3 DEF Next

(* A completed task never has the gate, and no status message shows both.  *)
(* The status callback carries its first reading into the message only as  *)
(* long as it keeps EnableService, a callback of the same thread, out.     *)
THEOREM CompletionIsFinal == Spec => []CompletionKeepsGateClosed
<1>1. Init => CompletionInvariant
  BY DEF Init, CompletionInvariant, CompletionKeepsGateClosed
<1>2. CompletionInvariant => CompletionKeepsGateClosed
  BY DEF CompletionInvariant
<1>3. QED BY <1>1, <1>2, CompletionStep, TypeCorrect, PTL DEF Spec
------------------------------------------------------------------------------
(* Every step keeps the count of late commands, and where it may grow. *)
LEMMA LateStep ==
  TypeOK /\ LateInvariant /\ [Next]_vars => LateInvariant'
<1> SUFFICES ASSUME TypeOK, LateInvariant, [Next]_vars PROVE LateInvariant'
  OBVIOUS
<1> USE DEF TypeOK, HistoryType, LateInvariant, AtMostOneLateCommand,
        Acting, Resending
<1>1. CASE RosThread
  <2>1. CASE GripperCallback BY <2>1 DEF GripperCallback
  <2>2. ASSUME NEW data \in BOOLEAN, MotionEnabledCallback(data)
        PROVE LateInvariant'
    BY <2>2 DEF MotionEnabledCallback
  <2>3. CASE DisableService BY <2>3 DEF DisableService
  <2>4. CASE RosStop BY <2>4 DEF RosStop
  <2>5. CASE EnableService BY <2>5 DEF EnableService
  <2>6. CASE ReadStatus BY <2>6 DEF ReadStatus
  <2>7. CASE PublishStatus BY <2>7 DEF PublishStatus
  <2>8. QED
    BY <1>1, <2>1, <2>2, <2>3, <2>4, <2>5, <2>6, <2>7 DEF RosThread
<1>2. CASE ControlLoop
  <2>1. CASE BeginObservation BY <2>1 DEF BeginObservation
  <2>2. CASE ResendRead BY <2>2 DEF ResendRead
  <2>3. CASE ResendPublish BY <2>3 DEF ResendPublish
  <2>4. CASE ObserveStale BY <2>4 DEF ObserveStale
  <2>5. CASE NoTaskCompletion BY <2>5 DEF NoTaskCompletion
  <2>6. CASE CompletionStop BY <2>6 DEF CompletionStop
  <2>7. ASSUME NEW done \in BOOLEAN, UpdateTaskCompletion(done)
        PROVE LateInvariant'
    BY <2>7 DEF UpdateTaskCompletion
  <2>8. CASE BeginAction BY <2>8 DEF BeginAction
  <2>9. CASE Guard BY <2>9 DEF Guard
  <2>10. CASE RejectClose BY <2>10 DEF RejectClose
  <2>11. CASE RejectClear BY <2>11 DEF RejectClear
  <2>12. CASE RejectStop BY <2>12 DEF RejectStop
  <2>13. ASSUME NEW band \in Band, NEW held \in BOOLEAN,
                FilterGripper(band, held)
        PROVE LateInvariant'
    BY <2>13 DEF FilterGripper
  <2>14. CASE StoreTarget BY <2>14 DEF StoreTarget
  <2>15. CASE ReadTarget BY <2>15 DEF ReadTarget
  <2>16. CASE PublishTarget BY <2>16 DEF PublishTarget
  <2>17. CASE PublishGripper BY <2>17 DEF PublishGripper
  <2>18. CASE Disconnect BY <2>18 DEF Disconnect
  <2>19. CASE DisconnectStop BY <2>19 DEF DisconnectStop
  <2>20. QED
    BY <1>2, <2>1, <2>2, <2>3, <2>4, <2>5, <2>6, <2>7, <2>8, <2>9,
       <2>10, <2>11, <2>12, <2>13, <2>14, <2>15, <2>16, <2>17, <2>18,
       <2>19 DEF ControlLoop
<1>3. CASE UNCHANGED vars BY <1>3 DEF vars
<1>4. QED BY <1>1, <1>2, <1>3 DEF Next

(* One late joint target and one late gripper command at the most: a call  *)
(* inside send_action or resend_last_joint_command passed the gate before  *)
(* anything was published late, and publishes each of them once.           *)
THEOREM LateCommandsBounded == Spec => []AtMostOneLateCommand
<1>1. Init => LateInvariant
  BY DEF Init, LateInvariant, AtMostOneLateCommand, Acting, Resending
<1>2. LateInvariant => AtMostOneLateCommand BY DEF LateInvariant
<1>3. QED BY <1>1, <1>2, LateStep, TypeCorrect, PTL DEF Spec
------------------------------------------------------------------------------
(* Every step keeps a missing STOP under way. *)
LEMMA StopStep ==
  TypeOK /\ MissingStopIsUnderWay /\ [Next]_vars => MissingStopIsUnderWay'
<1> SUFFICES ASSUME TypeOK, MissingStopIsUnderWay, [Next]_vars
             PROVE MissingStopIsUnderWay'
  OBVIOUS
<1> USE DEF TypeOK, HistoryType, GateType, MissingStopIsUnderWay
<1>1. CASE RosThread
  <2>1. CASE GripperCallback BY <2>1 DEF GripperCallback
  <2>2. ASSUME NEW data \in BOOLEAN, MotionEnabledCallback(data)
        PROVE MissingStopIsUnderWay'
    BY <2>2 DEF MotionEnabledCallback
  <2>3. CASE DisableService BY <2>3 DEF DisableService
  <2>4. CASE RosStop BY <2>4 DEF RosStop
  <2>5. CASE EnableService BY <2>5 DEF EnableService
  <2>6. CASE ReadStatus BY <2>6 DEF ReadStatus
  <2>7. CASE PublishStatus BY <2>7 DEF PublishStatus
  <2>8. QED
    BY <1>1, <2>1, <2>2, <2>3, <2>4, <2>5, <2>6, <2>7 DEF RosThread
<1>2. CASE ControlLoop
  <2>1. CASE BeginObservation BY <2>1 DEF BeginObservation
  <2>2. CASE ResendRead BY <2>2 DEF ResendRead
  <2>3. CASE ResendPublish BY <2>3 DEF ResendPublish
  <2>4. CASE ObserveStale BY <2>4 DEF ObserveStale
  <2>5. CASE NoTaskCompletion BY <2>5 DEF NoTaskCompletion
  <2>6. CASE CompletionStop BY <2>6 DEF CompletionStop
  <2>7. ASSUME NEW done \in BOOLEAN, UpdateTaskCompletion(done)
        PROVE MissingStopIsUnderWay'
    BY <2>7 DEF UpdateTaskCompletion
  <2>8. CASE BeginAction BY <2>8 DEF BeginAction
  <2>9. CASE Guard BY <2>9 DEF Guard
  <2>10. CASE RejectClose BY <2>10 DEF RejectClose
  <2>11. CASE RejectClear BY <2>11 DEF RejectClear
  <2>12. CASE RejectStop BY <2>12 DEF RejectStop
  <2>13. ASSUME NEW band \in Band, NEW held \in BOOLEAN,
                FilterGripper(band, held)
        PROVE MissingStopIsUnderWay'
    BY <2>13 DEF FilterGripper
  <2>14. CASE StoreTarget BY <2>14 DEF StoreTarget
  <2>15. CASE ReadTarget BY <2>15 DEF ReadTarget
  <2>16. CASE PublishTarget BY <2>16 DEF PublishTarget
  <2>17. CASE PublishGripper BY <2>17 DEF PublishGripper
  <2>18. CASE Disconnect BY <2>18 DEF Disconnect
  <2>19. CASE DisconnectStop BY <2>19 DEF DisconnectStop
  <2>20. QED
    BY <1>2, <2>1, <2>2, <2>3, <2>4, <2>5, <2>6, <2>7, <2>8, <2>9,
       <2>10, <2>11, <2>12, <2>13, <2>14, <2>15, <2>16, <2>17, <2>18,
       <2>19 DEF ControlLoop
<1>3. CASE UNCHANGED vars BY <1>3 DEF vars
<1>4. QED BY <1>1, <1>2, <1>3 DEF Next

(* While a STOP is missing, a thread is on its way to it, although either  *)
(* thread may close the gate while the other is doing so.                  *)
THEOREM NoStopForgotten == Spec => []MissingStopIsUnderWay
<1>1. Init => MissingStopIsUnderWay
  BY DEF Init, MissingStopIsUnderWay
<1>2. QED BY <1>1, StopStep, TypeCorrect, PTL DEF Spec
------------------------------------------------------------------------------
(* Every step keeps what is true of the targets of this rollout. *)
LEMMA TargetStep ==
  TypeOK /\ TargetInvariant /\ [Next]_vars => TargetInvariant'
<1> SUFFICES ASSUME TypeOK, TargetInvariant, [Next]_vars
             PROVE TargetInvariant'
  OBVIOUS
<1> USE DEF TypeOK, HistoryType, TargetInvariant, Acting
<1>1. CASE RosThread
  <2>1. CASE GripperCallback BY <2>1 DEF GripperCallback
  <2>2. ASSUME NEW data \in BOOLEAN, MotionEnabledCallback(data)
        PROVE TargetInvariant'
    BY <2>2 DEF MotionEnabledCallback
  <2>3. CASE DisableService BY <2>3 DEF DisableService
  <2>4. CASE RosStop BY <2>4 DEF RosStop
  <2>5. CASE EnableService BY <2>5 DEF EnableService
  <2>6. CASE ReadStatus BY <2>6 DEF ReadStatus
  <2>7. CASE PublishStatus BY <2>7 DEF PublishStatus
  <2>8. QED
    BY <1>1, <2>1, <2>2, <2>3, <2>4, <2>5, <2>6, <2>7 DEF RosThread
<1>2. CASE ControlLoop
  <2>1. CASE BeginObservation BY <2>1 DEF BeginObservation
  <2>2. CASE ResendRead BY <2>2 DEF ResendRead
  <2>3. CASE ResendPublish BY <2>3 DEF ResendPublish
  <2>4. CASE ObserveStale BY <2>4 DEF ObserveStale
  <2>5. CASE NoTaskCompletion BY <2>5 DEF NoTaskCompletion
  <2>6. CASE CompletionStop BY <2>6 DEF CompletionStop
  <2>7. ASSUME NEW done \in BOOLEAN, UpdateTaskCompletion(done)
        PROVE TargetInvariant'
    BY <2>7 DEF UpdateTaskCompletion
  <2>8. CASE BeginAction BY <2>8 DEF BeginAction
  <2>9. CASE Guard BY <2>9 DEF Guard
  <2>10. CASE RejectClose BY <2>10 DEF RejectClose
  <2>11. CASE RejectClear BY <2>11 DEF RejectClear
  <2>12. CASE RejectStop BY <2>12 DEF RejectStop
  <2>13. ASSUME NEW band \in Band, NEW held \in BOOLEAN,
                FilterGripper(band, held)
        PROVE TargetInvariant'
    BY <2>13 DEF FilterGripper
  <2>14. CASE StoreTarget BY <2>14 DEF StoreTarget
  <2>15. CASE ReadTarget BY <2>15 DEF ReadTarget
  <2>16. CASE PublishTarget BY <2>16 DEF PublishTarget
  <2>17. CASE PublishGripper BY <2>17 DEF PublishGripper
  <2>18. CASE Disconnect BY <2>18 DEF Disconnect
  <2>19. CASE DisconnectStop BY <2>19 DEF DisconnectStop
  <2>20. QED
    BY <1>2, <2>1, <2>2, <2>3, <2>4, <2>5, <2>6, <2>7, <2>8, <2>9,
       <2>10, <2>11, <2>12, <2>13, <2>14, <2>15, <2>16, <2>17, <2>18,
       <2>19 DEF ControlLoop
<1>3. CASE UNCHANGED vars BY <1>3 DEF vars
<1>4. QED BY <1>1, <1>2, <1>3 DEF Next

(* Once a rollout has stored a target, no older one is published: a call   *)
(* left over from an earlier rollout stores its target before the first    *)
(* call of the new rollout is admitted, for there is one control loop.     *)
THEOREM OldTargetIsReplaced == Spec => []OwnTargetReplacesOld
<1>1. Init => TargetInvariant
  BY DEF Init, TargetInvariant
<1>2. TargetInvariant => OwnTargetReplacesOld
  BY DEF TargetInvariant, OwnTargetReplacesOld
<1>3. QED BY <1>1, <1>2, TargetStep, TypeCorrect, PTL DEF Spec
------------------------------------------------------------------------------
(* Every step keeps the filter's command and the sent one together. *)
LEMMA FilterStep ==
  TypeOK /\ FilterInvariant /\ [Next]_vars => FilterInvariant'
<1> SUFFICES ASSUME TypeOK, FilterInvariant, [Next]_vars
             PROVE FilterInvariant'
  OBVIOUS
<1> USE DEF TypeOK, HistoryType, FilterInvariant, FilterKnowsLastCommand,
        Acting
<1>1. CASE RosThread
  <2>1. CASE GripperCallback BY <2>1 DEF GripperCallback
  <2>2. ASSUME NEW data \in BOOLEAN, MotionEnabledCallback(data)
        PROVE FilterInvariant'
    BY <2>2 DEF MotionEnabledCallback
  <2>3. CASE DisableService BY <2>3 DEF DisableService
  <2>4. CASE RosStop BY <2>4 DEF RosStop
  <2>5. CASE EnableService BY <2>5 DEF EnableService, ThreadType
  <2>6. CASE ReadStatus BY <2>6 DEF ReadStatus
  <2>7. CASE PublishStatus BY <2>7 DEF PublishStatus
  <2>8. QED
    BY <1>1, <2>1, <2>2, <2>3, <2>4, <2>5, <2>6, <2>7 DEF RosThread
<1>2. CASE ControlLoop
  <2>1. CASE BeginObservation BY <2>1 DEF BeginObservation
  <2>2. CASE ResendRead BY <2>2 DEF ResendRead
  <2>3. CASE ResendPublish BY <2>3 DEF ResendPublish
  <2>4. CASE ObserveStale BY <2>4 DEF ObserveStale
  <2>5. CASE NoTaskCompletion BY <2>5 DEF NoTaskCompletion
  <2>6. CASE CompletionStop BY <2>6 DEF CompletionStop
  <2>7. ASSUME NEW done \in BOOLEAN, UpdateTaskCompletion(done)
        PROVE FilterInvariant'
    <3>1. CASE done /\ ~stopFlag BY <2>7, <3>1 DEF UpdateTaskCompletion
    <3>2. CASE ~(done /\ ~stopFlag)
      <4>1. /\ main = "observe" /\ main' = "loop"
            /\ UNCHANGED <<enabled, target, filter, command, admitted,
                           rollout, gripper>>
        BY <2>7, <3>2 DEF UpdateTaskCompletion
      <4>2. QED BY <4>1
    <3>3. QED BY <3>1, <3>2
  <2>8. CASE BeginAction BY <2>8 DEF BeginAction, ThreadType
  <2>9. CASE Guard BY <2>9 DEF Guard
  <2>10. CASE RejectClose BY <2>10 DEF RejectClose
  <2>11. CASE RejectClear BY <2>11 DEF RejectClear
  <2>12. CASE RejectStop BY <2>12 DEF RejectStop
  <2>13. ASSUME NEW band \in Band, NEW held \in BOOLEAN,
                FilterGripper(band, held)
        PROVE FilterInvariant'
    <3>1. main = "filter" /\ main' = "store" BY <2>13 DEF FilterGripper
    <3>2. Update(filter, band, held).command \in {filter.command, band}
      BY FilterUpdate DEF GateType
    <3>3. /\ filter' = Update(filter, band, held)
          /\ command' = IF Update(filter, band, held).command # filter.command
                        THEN band ELSE "none"
          /\ UNCHANGED <<enabled, target, admitted, rollout, gripper>>
      BY <2>13 DEF FilterGripper, Transitioned
    <3>4. IF command' = "none"
          THEN filter'.command \in {filter.command, "none"}
          ELSE filter'.command = command'
      BY <3>2, <3>3
    <3>5. filter'.command \in Position
      BY FilterUpdate, <3>3 DEF GateType, Filter
    <3>6. QED BY <3>1, <3>3, <3>4, <3>5 DEF Position
  <2>14. CASE StoreTarget
    <3>1. admitted \in 1 .. rollout BY <2>14 DEF ThreadType, StoreTarget
    <3>2. QED BY <2>14, <3>1 DEF StoreTarget, NoTarget
  <2>15. CASE ReadTarget BY <2>15 DEF ReadTarget
  <2>16. CASE PublishTarget BY <2>16 DEF PublishTarget
  <2>17. CASE PublishGripper
    <3>1. command \in Position BY <2>17 DEF ThreadType, PublishGripper
    <3>2. gripper'.position = command /\ gripper'.rollout = admitted
      BY <2>17 DEF PublishGripper
    <3>3. command # "none" BY <3>1 DEF Position
    <3>4. /\ main = "grip" /\ main' = "loop"
          /\ UNCHANGED <<enabled, filter, rollout>>
      BY <2>17 DEF PublishGripper
    <3>5. QED BY <3>2, <3>3, <3>4
  <2>18. CASE Disconnect BY <2>18 DEF Disconnect
  <2>19. CASE DisconnectStop BY <2>19 DEF DisconnectStop
  <2>20. QED
    BY <1>2, <2>1, <2>2, <2>3, <2>4, <2>5, <2>6, <2>7, <2>8, <2>9,
       <2>10, <2>11, <2>12, <2>13, <2>14, <2>15, <2>16, <2>17, <2>18,
       <2>19 DEF ControlLoop
<1>3. CASE UNCHANGED vars BY <1>3 DEF vars
<1>4. QED BY <1>1, <1>2, <1>3 DEF Next

(* The filter's command is the one the gripper was last sent in a rollout: *)
(* only a closing of the gate can end send_action between the filter and   *)
(* the publication, and then the filter is reset before the next rollout.  *)
THEOREM FilterAgreesWithGripper == Spec => []FilterKnowsLastCommand
<1>1. Init => FilterInvariant
  BY DEF Init, FilterInvariant, FilterKnowsLastCommand, Acting
<1>2. FilterInvariant => FilterKnowsLastCommand BY DEF FilterInvariant
<1>3. QED BY <1>1, <1>2, FilterStep, TypeCorrect, PTL DEF Spec
------------------------------------------------------------------------------
(* Every step is one of the abstract publisher, or a stutter. *)
LEMMA PublisherStep ==
  TypeOK /\ [Next]_vars => [Publisher!Next]_(Publisher!vars)
<1> SUFFICES ASSUME TypeOK, [Next]_vars
             PROVE [Publisher!Next]_(Publisher!vars)
  OBVIOUS
<1> USE DEF TypeOK, GateType, Publisher!Next, Publisher!Open, Publisher!Close,
        Publisher!Admit, Publisher!Publish, Publisher!Withdraw, Publisher!vars,
        Acting, Resending
<1>1. CASE RosThread
  <2>1. CASE GripperCallback BY <2>1 DEF GripperCallback
  <2>2. ASSUME NEW data \in BOOLEAN, MotionEnabledCallback(data)
        PROVE [Publisher!Next]_(Publisher!vars)
    BY <2>2 DEF MotionEnabledCallback
  <2>3. CASE DisableService BY <2>3 DEF DisableService
  <2>4. CASE RosStop BY <2>4 DEF RosStop
  <2>5. CASE EnableService BY <2>5 DEF EnableService
  <2>6. CASE ReadStatus BY <2>6 DEF ReadStatus
  <2>7. CASE PublishStatus BY <2>7 DEF PublishStatus
  <2>8. QED
    BY <1>1, <2>1, <2>2, <2>3, <2>4, <2>5, <2>6, <2>7 DEF RosThread
<1>2. CASE ControlLoop
  <2>1. CASE BeginObservation BY <2>1 DEF BeginObservation
  <2>2. CASE ResendRead BY <2>2 DEF ResendRead
  <2>3. CASE ResendPublish BY <2>3 DEF ResendPublish
  <2>4. CASE ObserveStale BY <2>4 DEF ObserveStale
  <2>5. CASE NoTaskCompletion BY <2>5 DEF NoTaskCompletion
  <2>6. CASE CompletionStop BY <2>6 DEF CompletionStop
  <2>7. ASSUME NEW done \in BOOLEAN, UpdateTaskCompletion(done)
        PROVE [Publisher!Next]_(Publisher!vars)
    <3>1. main = "observe" /\ main' \in {"complete_stop", "loop"}
      BY <2>7 DEF UpdateTaskCompletion
    <3>2. enabled' \in {FALSE, enabled} /\ lateJoints' = lateJoints
      BY <2>7 DEF UpdateTaskCompletion
    <3>3. CASE enabled' = FALSE BY <3>1, <3>2, <3>3
    <3>4. CASE enabled' = enabled BY <3>1, <3>2, <3>4
    <3>5. QED BY <3>2, <3>3, <3>4
  <2>8. CASE BeginAction BY <2>8 DEF BeginAction
  <2>9. CASE Guard BY <2>9 DEF Guard
  <2>10. CASE RejectClose BY <2>10 DEF RejectClose
  <2>11. CASE RejectClear BY <2>11 DEF RejectClear
  <2>12. CASE RejectStop BY <2>12 DEF RejectStop
  <2>13. ASSUME NEW band \in Band, NEW held \in BOOLEAN,
                FilterGripper(band, held)
        PROVE [Publisher!Next]_(Publisher!vars)
    BY <2>13 DEF FilterGripper
  <2>14. CASE StoreTarget BY <2>14 DEF StoreTarget
  <2>15. CASE ReadTarget BY <2>15 DEF ReadTarget
  <2>16. CASE PublishTarget BY <2>16 DEF PublishTarget
  <2>17. CASE PublishGripper BY <2>17 DEF PublishGripper
  <2>18. CASE Disconnect BY <2>18 DEF Disconnect
  <2>19. CASE DisconnectStop BY <2>19 DEF DisconnectStop
  <2>20. QED
    BY <1>2, <2>1, <2>2, <2>3, <2>4, <2>5, <2>6, <2>7, <2>8, <2>9,
       <2>10, <2>11, <2>12, <2>13, <2>14, <2>15, <2>16, <2>17, <2>18,
       <2>19 DEF ControlLoop
<1>3. CASE UNCHANGED vars BY <1>3 DEF vars
<1>4. QED BY <1>1, <1>2, <1>3 DEF Next

(* The two threads implement the abstract publisher: whoever publishes a   *)
(* joint target, it looked at the gate once and publishes once.            *)
THEOREM GateImplementsPublisher == Spec => ImplementsGatedPublisher
<1>1. Init => Publisher!Init
  BY DEF Init, Publisher!Init, Acting, Resending
<1>2. QED
  BY <1>1, PublisherStep, TypeCorrect, PTL
  DEF Spec, Publisher!Spec, ImplementsGatedPublisher
------------------------------------------------------------------------------
(* The rollout monitor.                                                    *)

USE DepthAssumption

\* a reading of the status timer that says completed
Reading == ros = "status" /\ seen

Happened ==
  /\ completed \/ Reading => rollout \in ended
  /\ monitor = "running" =>
       /\ watched = rollout
       /\ (\E i \in 1 .. Len(inbox) : inbox[i].completed) => watched \in ended
       /\ heard.completed => watched \in ended

MonitorInv ==
  MonitorTypeOK /\ Happened /\ ReportedCompletionHappened
------------------------------------------------------------------------------
(* What a step of the adapter does to the completion and to the message    *)
(* that reports it: a new rollout begins without either.                   *)
LEMMA AdapterStep ==
  ASSUME TypeOK, [Next]_vars
  PROVE  /\ completed' => rollout' = rollout
         /\ Reading' => (Reading \/ completed) /\ rollout' = rollout
         /\ ros = "status" /\ ros' = "idle" =>
              status'.completed = seen /\ rollout' = rollout
         /\ completed' /\ ~completed => rollout # 0
<1> DEFINE goal ==
      /\ completed' => rollout' = rollout
      /\ Reading' => (Reading \/ completed) /\ rollout' = rollout
      /\ ros = "status" /\ ros' = "idle" =>
           status'.completed = seen /\ rollout' = rollout
      /\ completed' /\ ~completed => rollout # 0
<1> USE DEF TypeOK, GateType, ThreadType, HistoryType, StatusType, Reading,
            gate, rosVars, ghosts, RosGoes
<1>1. CASE RosThread
  <2>1. CASE GripperCallback BY <2>1 DEF GripperCallback
  <2>2. ASSUME NEW data \in BOOLEAN, MotionEnabledCallback(data) PROVE goal
    BY <2>2 DEF MotionEnabledCallback
  <2>3. CASE DisableService BY <2>3 DEF DisableService
  <2>4. CASE RosStop BY <2>4 DEF RosStop
  <2>5. CASE EnableService BY <2>5 DEF EnableService
  <2>6. CASE ReadStatus BY <2>6 DEF ReadStatus
  <2>7. CASE PublishStatus BY <2>7 DEF PublishStatus
  <2>8. QED
    BY <1>1, <2>1, <2>2, <2>3, <2>4, <2>5, <2>6, <2>7 DEF RosThread
<1>2. CASE ControlLoop
  <2> DEFINE local == /\ UNCHANGED <<rosVars, rollout>>
                      /\ completed' /\ ~completed => rollout # 0
  <2>1. local
    <3>1. CASE BeginObservation BY <3>1 DEF BeginObservation
    <3>2. CASE ResendRead BY <3>2 DEF ResendRead
    <3>3. CASE ResendPublish BY <3>3 DEF ResendPublish
    <3>4. CASE ObserveStale BY <3>4 DEF ObserveStale
    <3>5. CASE NoTaskCompletion BY <3>5 DEF NoTaskCompletion
    <3>6. CASE CompletionStop BY <3>6 DEF CompletionStop
    <3>7. ASSUME NEW done \in BOOLEAN, UpdateTaskCompletion(done)
          PROVE local
      BY <3>7 DEF UpdateTaskCompletion
    <3>8. CASE BeginAction BY <3>8 DEF BeginAction
    <3>9. CASE Guard BY <3>9 DEF Guard
    <3>10. CASE RejectClose BY <3>10 DEF RejectClose
    <3>11. CASE RejectClear BY <3>11 DEF RejectClear
    <3>12. CASE RejectStop BY <3>12 DEF RejectStop
    <3>13. ASSUME NEW band \in Band, NEW held \in BOOLEAN,
                  FilterGripper(band, held)
           PROVE local
      BY <3>13 DEF FilterGripper
    <3>14. CASE StoreTarget BY <3>14 DEF StoreTarget
    <3>15. CASE ReadTarget BY <3>15 DEF ReadTarget
    <3>16. CASE PublishTarget BY <3>16 DEF PublishTarget
    <3>17. CASE PublishGripper BY <3>17 DEF PublishGripper
    <3>18. CASE Disconnect BY <3>18 DEF Disconnect
    <3>19. CASE DisconnectStop BY <3>19 DEF DisconnectStop
    <3>20. QED
      BY <1>2, <3>1, <3>2, <3>3, <3>4, <3>5, <3>6, <3>7, <3>8, <3>9,
         <3>10, <3>11, <3>12, <3>13, <3>14, <3>15, <3>16, <3>17, <3>18,
         <3>19 DEF ControlLoop
  <2>2. QED BY <2>1
<1>3. CASE UNCHANGED vars BY <1>3 DEF vars, gate, rosVars
<1>4. QED BY <1>1, <1>2, <1>3 DEF Next

(* A monitor that runs beside the adapter leaves it an adapter.            *)
LEMMA GateStep == MonitorNext \/ UNCHANGED allVars => [Next]_vars
  BY DEF MonitorNext, Adapter, StartMonitor, SpinStatus, SpinSafety, Timeout,
     RobotCondition, allVars

(* The adapter that the monitor observes is the adapter of ActionGate:     *)
(* whatever is proved of one holds beside a monitor.                       *)
THEOREM MonitoredGateIsGate == MonitorSpec => Spec
<1>1. MonitorInit => Init BY DEF MonitorInit
<1>2. QED BY <1>1, GateStep, PTL DEF MonitorSpec, Spec

\* The gate's type invariant holds beside the monitor too.
LEMMA MonitoredGateTyped == MonitorSpec => []TypeOK
  BY MonitoredGateIsGate, TypeCorrect, PTL
------------------------------------------------------------------------------
(* The verdict, and when it is 0.                                          *)
LEMMA VerdictCodes ==
  ASSUME NEW message \in Message, NEW conditions
  PROVE  /\ Verdict(message, conditions) \in {NoCode, 0, 20, 23, 24}
         /\ Verdict(message, conditions) = 0 => message.completed
  BY DEF Verdict, NoCode

(* The queue of the subscription holds messages, the newest of which is    *)
(* the one that was published.                                             *)
LEMMA QueuedMessages ==
  ASSUME NEW message \in Message, inbox \in Seq(Message), Len(inbox) <= Depth
  PROVE  /\ Queued(message) \in Seq(Message) /\ Len(Queued(message)) <= Depth
         /\ \A i \in 1 .. Len(Queued(message)) :
              \/ Queued(message)[i] = message
              \/ \E j \in 1 .. Len(inbox) : Queued(message)[i] = inbox[j]
<1>1. CASE Len(inbox) < Depth BY <1>1 DEF Queued
<1>2. CASE ~(Len(inbox) < Depth)
  <2> DEFINE tail == Tail(inbox)
             q == Append(tail, message)
  <2>1. /\ Len(inbox) \in Nat /\ Len(inbox) >= 1
        /\ tail \in Seq(Message) /\ Len(tail) = Len(inbox) - 1
        /\ \A i \in 1 .. Len(tail) : tail[i] = inbox[i + 1]
    BY <1>2
  <2>2. Queued(message) = q BY <1>2 DEF Queued
  <2> HIDE DEF tail
  <2>3. /\ q \in Seq(Message) /\ Len(q) = Len(tail) + 1
        /\ q[Len(tail) + 1] = message
        /\ \A i \in 1 .. Len(tail) : q[i] = tail[i]
    BY <2>1
  <2> HIDE DEF q
  <2>4. ASSUME NEW i \in 1 .. Len(q)
        PROVE  q[i] = message \/ \E j \in 1 .. Len(inbox) : q[i] = inbox[j]
    <3>1. CASE i = Len(tail) + 1 BY <2>3, <3>1
    <3>2. CASE i # Len(tail) + 1
      <4>1. i \in 1 .. Len(tail) BY <2>1, <2>3, <3>2
      <4>2. q[i] = inbox[i + 1] /\ i + 1 \in 1 .. Len(inbox)
        BY <2>1, <2>3, <4>1
      <4>3. QED BY <4>2
    <3>3. QED BY <3>1, <3>2
  <2>5. QED BY <1>2, <2>1, <2>2, <2>3, <2>4
<1>3. QED BY <1>1, <1>2

(* What the monitor takes from its queue was in it.                        *)
LEMMA SpunMessages ==
  ASSUME inbox \in Seq(Message), inbox # << >>, Len(inbox) <= Depth
  PROVE  /\ Head(inbox) \in Message /\ 1 \in 1 .. Len(inbox)
         /\ Head(inbox) = inbox[1]
         /\ Tail(inbox) \in Seq(Message) /\ Len(Tail(inbox)) <= Depth
         /\ \A i \in 1 .. Len(Tail(inbox)) :
              i + 1 \in 1 .. Len(inbox) /\ Tail(inbox)[i] = inbox[i + 1]
<1>1. Len(inbox) \in Nat /\ Len(inbox) >= 1 OBVIOUS
<1>2. Head(inbox) = inbox[1] /\ Head(inbox) \in Message BY <1>1
<1>3. /\ Tail(inbox) \in Seq(Message) /\ Len(Tail(inbox)) = Len(inbox) - 1
      /\ \A i \in 1 .. Len(Tail(inbox)) : Tail(inbox)[i] = inbox[i + 1]
  BY <1>1
<1>4. QED BY <1>1, <1>2, <1>3
------------------------------------------------------------------------------
(* A step of the adapter beside the monitor.                               *)
LEMMA AdapterKeeps ==
  ASSUME TypeOK, TypeOK', MonitorInv, Adapter
  PROVE  MonitorInv'
<1> USE DEF MonitorInv, MonitorTypeOK
<1>1. /\ completed' => rollout' = rollout
      /\ Reading' => (Reading \/ completed) /\ rollout' = rollout
      /\ ros = "status" /\ ros' = "idle" =>
           status'.completed = seen /\ rollout' = rollout
      /\ completed' /\ ~completed => rollout # 0
  BY AdapterStep DEF Adapter
<1>2. /\ monitor' = monitor /\ watched' = watched /\ heard' = heard
      /\ robot' = robot /\ alarms' = alarms /\ code' = code
      /\ ended' = IF completed' /\ ~completed THEN ended \cup {rollout}
                  ELSE ended
      /\ rollout' # rollout => monitor # "running"
  BY DEF Adapter
<1> DEFINE sent == [enabled |-> status'.enabled, completed |-> status'.completed]
           arrives == monitor = "running" /\ ros = "status" /\ ros' = "idle"
<1>3. inbox' = IF arrives THEN Queued(sent) ELSE inbox BY DEF Adapter
<1>4. sent \in Message BY DEF TypeOK, StatusType, Message
<1>5. ended \subseteq ended' BY <1>2
<1>6. completed' \/ Reading' => rollout' \in ended'
  <2>1. CASE completed' BY <1>1, <1>2, <2>1 DEF Happened
  <2>2. CASE Reading' BY <1>1, <1>5, <2>2 DEF Happened
  <2>3. QED BY <2>1, <2>2
<1>7. MonitorTypeOK'
  <2>1. inbox' \in Seq(Message) /\ Len(inbox') <= Depth
    BY <1>3, <1>4, QueuedMessages
  <2>2. ended' \in SUBSET (1 .. MaxRollouts)
    <3>1. CASE completed' /\ ~completed
      <4>1. rollout \in 0 .. MaxRollouts BY DEF TypeOK, HistoryType
      <4>2. rollout # 0 BY <1>1, <3>1
      <4>3. QED BY <1>2, <3>1, <4>1, <4>2, MaxRolloutsAssumption
    <3>2. CASE ~(completed' /\ ~completed) BY <1>2, <3>2
    <3>3. QED BY <3>1, <3>2
  <2>3. QED BY <1>2, <2>1, <2>2
<1>8. ASSUME monitor = "running"
      PROVE  /\ watched' = rollout'
             /\ (\E i \in 1 .. Len(inbox') : inbox'[i].completed)
                  => watched' \in ended'
             /\ heard'.completed => watched' \in ended'
  <2>1. watched = rollout /\ rollout' = rollout BY <1>2, <1>8 DEF Happened
  <2>2. heard'.completed => watched' \in ended'
    BY <1>2, <1>5, <1>8 DEF Happened
  <2>3. ASSUME NEW i \in 1 .. Len(inbox'), inbox'[i].completed
        PROVE  watched' \in ended'
    <3>1. CASE \E j \in 1 .. Len(inbox) : inbox[j].completed
      BY <1>2, <1>5, <1>8, <3>1 DEF Happened
    <3>2. CASE ~ \E j \in 1 .. Len(inbox) : inbox[j].completed
      <4>1. arrives BY <1>3, <2>3, <3>2
      <4>2. inbox'[i] = sent
        BY <1>3, <1>4, <2>3, <3>2, <4>1, QueuedMessages
      <4>3. seen BY <1>1, <2>3, <4>1, <4>2
      <4>4. rollout \in ended BY <4>1, <4>3 DEF Happened, Reading
      <4>5. QED BY <1>2, <1>5, <2>1, <4>4
    <3>3. QED BY <3>1, <3>2
  <2>4. QED BY <1>2, <2>1, <2>2, <2>3
<1>9. ReportedCompletionHappened'
  BY <1>2, <1>5 DEF ReportedCompletionHappened
<1>10. QED BY <1>2, <1>6, <1>7, <1>8, <1>9 DEF Happened

(* The monitor decides on a message that was true of its rollout.          *)
LEMMA DecisionKeeps ==
  ASSUME MonitorInv, monitor = "running", Decide,
         heard' \in Message, heard'.completed => watched \in ended,
         watched' = watched, ended' = ended
  PROVE  /\ code' \in {NoCode, 0, 20, 23, 24}
         /\ monitor' \in {"running", "done"}
         /\ ReportedCompletionHappened'
<1>1. code' = Verdict(heard', alarms') BY DEF Decide
<1>2. /\ code' \in {NoCode, 0, 20, 23, 24}
      /\ code' = 0 => heard'.completed
  BY <1>1, VerdictCodes
<1>3. monitor' \in {"running", "done"} BY DEF Decide
<1>4. QED BY <1>2, <1>3 DEF ReportedCompletionHappened

(* The steps of the monitor and of the robot.                              *)
LEMMA MonitorKeeps ==
  ASSUME TypeOK, MonitorInv,
         StartMonitor \/ SpinStatus \/ SpinSafety \/ Timeout \/ RobotCondition
  PROVE  MonitorInv'
<1> USE DEF MonitorInv, MonitorTypeOK
<1>1. UNCHANGED vars /\ ended' = ended
  BY DEF StartMonitor, SpinStatus, SpinSafety, Timeout, RobotCondition
<1>2. rollout' = rollout /\ (completed' \/ Reading' => rollout' \in ended')
  BY <1>1 DEF vars, gate, rosVars, Reading, Happened
<1>3. CASE StartMonitor
  <2>1. /\ monitor' = "running" /\ watched' = rollout /\ inbox' = << >>
        /\ heard' = Silence /\ alarms' = {} /\ code' = NoCode /\ robot' = robot
    BY <1>3 DEF StartMonitor
  <2>2. /\ Silence \in Message /\ ~Silence.completed /\ NoCode # 0
        /\ inbox' \in Seq(Message) /\ Len(inbox') = 0
    BY <2>1 DEF Silence, Message, NoCode
  <2>3. watched' \in 0 .. MaxRollouts BY <2>1 DEF TypeOK, HistoryType
  <2>4. Happened' BY <1>2, <2>1, <2>2 DEF Happened
  <2>5. QED BY <1>1, <2>1, <2>2, <2>3, <2>4 DEF ReportedCompletionHappened
<1>4. CASE SpinStatus
  <2>1. /\ monitor = "running" /\ inbox # << >> /\ heard' = Head(inbox)
        /\ inbox' = Tail(inbox) /\ alarms' = alarms /\ Decide
        /\ watched' = watched /\ robot' = robot
    BY <1>4 DEF SpinStatus
  <2>2. /\ heard' \in Message /\ heard' = inbox[1] /\ 1 \in 1 .. Len(inbox)
        /\ inbox' \in Seq(Message) /\ Len(inbox') <= Depth
        /\ \A i \in 1 .. Len(inbox') :
             i + 1 \in 1 .. Len(inbox) /\ inbox'[i] = inbox[i + 1]
    BY <2>1, SpunMessages
  <2>3. (\E i \in 1 .. Len(inbox) : inbox[i].completed) => watched \in ended
    BY <2>1 DEF Happened
  <2>4. heard'.completed => watched \in ended BY <2>2, <2>3
  <2>5. (\E i \in 1 .. Len(inbox') : inbox'[i].completed) => watched \in ended
    BY <2>2, <2>3
  <2>6. /\ code' \in {NoCode, 0, 20, 23, 24} /\ monitor' \in {"running", "done"}
        /\ ReportedCompletionHappened'
    BY <1>1, <2>1, <2>2, <2>4, DecisionKeeps
  <2>7. Happened'
    BY <1>1, <1>2, <2>1, <2>4, <2>5 DEF Happened
  <2>8. QED BY <1>1, <2>1, <2>2, <2>6, <2>7
<1>5. CASE SpinSafety
  <2>1. /\ monitor = "running" /\ alarms' = robot /\ heard' = heard /\ Decide
        /\ watched' = watched /\ robot' = robot /\ inbox' = inbox
    BY <1>5 DEF SpinSafety
  <2>2. heard'.completed => watched \in ended BY <2>1 DEF Happened
  <2>3. /\ code' \in {NoCode, 0, 20, 23, 24} /\ monitor' \in {"running", "done"}
        /\ ReportedCompletionHappened'
    BY <1>1, <2>1, <2>2, DecisionKeeps
  <2>4. Happened' BY <1>1, <1>2, <2>1 DEF Happened
  <2>5. QED BY <1>1, <2>1, <2>3, <2>4
<1>6. CASE Timeout
  <2>1. /\ monitor' = "done" /\ code' = 27 /\ watched' = watched
        /\ inbox' = inbox /\ heard' = heard /\ robot' = robot
        /\ alarms' = alarms
    BY <1>6 DEF Timeout
  <2>2. Happened' BY <1>2, <2>1 DEF Happened
  <2>3. QED BY <1>1, <2>1, <2>2 DEF ReportedCompletionHappened
<1>7. CASE RobotCondition
  <2>1. /\ robot' \in SUBSET Conditions /\ monitor' = monitor
        /\ watched' = watched /\ inbox' = inbox /\ heard' = heard
        /\ alarms' = alarms /\ code' = code
    BY <1>7 DEF RobotCondition
  <2>2. Happened' BY <1>1, <1>2, <2>1 DEF Happened
  <2>3. QED BY <1>1, <2>1, <2>2 DEF ReportedCompletionHappened
<1>8. QED BY <1>3, <1>4, <1>5, <1>6, <1>7

\* The strengthened invariant holds in every reachable state.
LEMMA MonitorInvariant == MonitorSpec => []MonitorInv
<1>1. MonitorInit => MonitorInv
  <2> SUFFICES ASSUME MonitorInit PROVE MonitorInv OBVIOUS
  <2>1. /\ monitor = "off" /\ watched = 0 /\ inbox = << >> /\ heard = Silence
        /\ robot = {} /\ alarms = {} /\ code = NoCode /\ ended = {}
        /\ completed = FALSE /\ ros = "idle"
    BY DEF MonitorInit, Init
  <2>2. Silence \in Message /\ NoCode # 0 BY DEF Silence, Message, NoCode
  <2>3. MonitorTypeOK
    BY <2>1, <2>2, MaxRolloutsAssumption DEF MonitorTypeOK
  <2>4. Happened BY <2>1 DEF Happened, Reading
  <2>5. QED BY <2>1, <2>2, <2>3, <2>4
            DEF MonitorInv, ReportedCompletionHappened
<1>2. TypeOK /\ TypeOK' /\ MonitorInv /\ [MonitorNext]_allVars => MonitorInv'
  <2>1. ASSUME MonitorInv, UNCHANGED allVars PROVE MonitorInv'
    BY <2>1 DEF allVars, vars, gate, rosVars, monitorVars, MonitorInv,
       MonitorTypeOK, Happened, Reading, ReportedCompletionHappened
  <2>2. QED BY <2>1, AdapterKeeps, MonitorKeeps DEF MonitorNext
<1>3. QED BY <1>1, <1>2, MonitoredGateTyped, PTL DEF MonitorSpec

(* A rollout the monitor reports as completed was completed: not the one   *)
(* before it, whose completion the status topic reported until the gate    *)
(* was enabled again.                                                      *)
THEOREM CompletionReportsAreTrue == MonitorSpec => []ReportedCompletionHappened
<1>1. MonitorInv => ReportedCompletionHappened BY DEF MonitorInv
<1>2. QED BY <1>1, MonitorInvariant, PTL
==============================================================================
