------------------------- MODULE CollectionSession -------------------------
(***************************************************************************)
(* tools/run_qgf_collection_session.sh: an attended collection of real     *)
(* rollouts.  The session drives the robot stack, the policy server and    *)
(* client, the recorder, the monitor and the finalizer, asks the operator, *)
(* and ends through its EXIT trap.  `pc` is the line the script has        *)
(* reached; a command it waits for is one action.  Around it, processes    *)
(* fail, the operator interrupts or starts a second launcher, and another  *)
(* process finalizes a capture that an earlier session left behind.        *)
(***************************************************************************)
EXTENDS EpisodeFinalizer, RobotStack

CONSTANTS
  Session, Manual,   \* the two processes that may run the finalizer
  Leftover,          \* a capture an earlier session left in .staging
  MaxAttempts,       \* bound: the operator ends the session after so many
  MaxFaults,         \* bound on failed calls, dying processes and signals
  InitialModes,      \* values of QGF_RUN_MODE and QGF_INITIAL_MODE
  EpisodeTarget,     \* QGF_EPISODE_COUNT
  PairedTarget       \* QGF_BASELINE_EPISODE_COUNT and QGF_QGF_EPISODE_COUNT

Modes == {"baseline", "qgf"}

ASSUME SessionAssumption ==
  /\ {Session, Manual} \subseteq Finalizers /\ Session # Manual
  /\ Captures = {Leftover} \union 1..MaxAttempts
  /\ Leftover \notin 1..MaxAttempts
  /\ MaxAttempts \in Nat /\ MaxFaults \in Nat /\ EpisodeTarget \in Nat \ {0}
  /\ PairedTarget \in [Modes -> Nat \ {0}]
  /\ InitialModes \subseteq Modes /\ None \notin Modes

VARIABLES
  pc, paired, mode, saved, attempt,
  current,    \* CURRENT_STAGING
  code,       \* how the session ends
  robot,
  server,     \* mode of the policy server of the pid file
  listener,   \* mode of the process that holds the server's port
  client,     \* mode of the server the policy client talks to
  queueScene, \* scene the client's preloaded actions were predicted from
  scene,      \* how often the scene has been reset
  recorder, monitor,
  faults,     \* faults so far
  verdict,    \* history: the label the operator gave each attempt
  noted,      \* history: the mode written into the notes of each attempt
  served,     \* history: the mode of the server that drove each attempt, if its
              \* recorder was at work when it began
  deleted     \* history: captures whose saved episode was deleted

sessionVars == <<pc, paired, mode, saved, attempt, current, code, robot, server,
                 listener, client, queueScene, scene, recorder, monitor, faults,
                 verdict, noted, served, deleted>>
vars == <<storeVars, sessionVars>>

Attempts == 1..MaxAttempts
ProcessVars == <<server, listener, client, queueScene>>
Frame == <<paired, scene, deleted>>

Halting == {"halt", "halt_delete", "halt_stack", "halt_policy"}
Over == {"done", "killed"}

Init ==
  /\ \E s \in {"unusable", "usable"} :
       StoreInit([c \in Captures |->
                    IF c = Leftover THEN [Absent EXCEPT !.state = s] ELSE Absent])
  /\ pc = "launch"
  /\ paired \in BOOLEAN /\ mode \in InitialModes
  /\ saved = [m \in Modes |-> 0]
  /\ attempt = 0 /\ current = None /\ code = "ok"
  /\ robot = RobotOff
  /\ server = None /\ listener \in Modes \union {None} /\ client = None
  /\ queueScene = 0 /\ scene = 0
  /\ recorder = "off" /\ monitor = "off" /\ faults = 0
  /\ verdict = [c \in Attempts |-> None]
  /\ noted = [c \in Attempts |-> None]
  /\ served = [c \in Attempts |-> None]
  /\ deleted = {}

-----------------------------------------------------------------------------
(* Ways a line of the script ends. *)

Proceed(line) == pc' = line /\ UNCHANGED code
Exit(why) == pc' = "halt" /\ code' = why

MayFail(n) == faults + n <= MaxFaults /\ faults' = faults + n

\* `set -e`: a command that fails ends the session through its trap
Command(command, line) ==
  \E o \in CommandOutcomes(command, robot, client # None) :
    /\ robot' = o.robot
    /\ MayFail(o.bad)
    /\ IF o.ok THEN Proceed(line) ELSE Exit("error")

\* the same followed by `|| true`
BestEffort(command, line) ==
  \E o \in CommandOutcomes(command, robot, client # None) :
    robot' = o.robot /\ MayFail(o.bad) /\ Proceed(line)

Kept == IF paired THEN saved ELSE [m \in Modes |-> saved["baseline"] + saved["qgf"]]
Goal == IF paired THEN PairedTarget ELSE [m \in Modes |-> EpisodeTarget]
TargetsReached == \A m \in Modes : Kept[m] >= Goal[m]

-----------------------------------------------------------------------------
(* Policy server and client. *)

(* start_policy_server: a second server cannot bind the port; the readiness
   probe is content with whoever listens. *)
ServerStarted(m) ==
  IF listener = None THEN server' = m /\ listener' = m
                     ELSE server' = None /\ UNCHANGED listener

StartServer(m, line) ==
  \/ ServerStarted(m) /\ Proceed(line) /\ UNCHANGED faults
  \/ MayFail(1) /\ Exit("error") /\ UNCHANGED <<server, listener>>

(* start_policy_client waits until the client has a whole chunk; with its gate
   closed the client keeps that chunk. *)
ClientStarted == client' = listener /\ queueScene' = scene

StartClient(line) ==
  \/ listener # None /\ ClientStarted /\ Proceed(line) /\ UNCHANGED faults
  \/ MayFail(1) /\ Exit("error") /\ UNCHANGED <<client, queueScene>>

\* a client that is stopped publishes STOP when it disconnects
ClientStopped ==
  /\ client' = None
  /\ robot' = IF client = None THEN robot ELSE Stop(robot)

(* stop_managed ends the process group of the pid file; its listening socket
   may stay for a while. *)
ServerStopped == server' = None /\ listener' \in {listener, None}

-----------------------------------------------------------------------------
(* Startup. *)

(* A launcher finds no live pid file, clears the orphans of earlier sessions
   and starts the server. *)
Launch ==
  /\ pc = "launch"
  /\ \/ server' = mode /\ listener' = mode /\ Proceed("stack") /\ UNCHANGED faults
     \/ server' = None /\ listener' = None /\ MayFail(1) /\ Exit("error")
  /\ UNCHANGED <<storeVars, Frame, mode, saved, attempt, current, robot, client,
                 queueScene, recorder, monitor, verdict, noted, served>>

StartRobotStack ==
  /\ pc = "stack"
  /\ \E o \in StartStack(robot) :
       /\ robot' = o.robot /\ MayFail(o.bad)
       /\ IF o.ok THEN Proceed("arm") ELSE Exit("error")
  /\ UNCHANGED <<storeVars, Frame, mode, saved, attempt, current, ProcessVars,
                 recorder, monitor, verdict, noted, served>>

Arm ==
  /\ pc = "arm"
  /\ \/ Command(Prepare, "client")
     \/ Exit("ok") /\ UNCHANGED <<robot, faults>>
  /\ UNCHANGED <<storeVars, Frame, mode, saved, attempt, current, ProcessVars,
                 recorder, monitor, verdict, noted, served>>

FirstClient ==
  /\ pc = "client"
  /\ StartClient("servo")
  /\ UNCHANGED <<storeVars, Frame, mode, saved, attempt, current, robot, server,
                 listener, recorder, monitor, verdict, noted, served>>

Servo ==
  /\ pc = "servo"
  /\ Command(EnterServo, "loop")
  /\ UNCHANGED <<storeVars, Frame, mode, saved, attempt, current, ProcessVars,
                 recorder, monitor, verdict, noted, served>>

-----------------------------------------------------------------------------
(* A round. *)

(* mkdir of the staging directory, start_recorder.  Whether the recorder lives
   is looked at once, a second after its start, and not again in this round. *)
StartRecorder ==
  /\ pc = "loop"
  /\ ~TargetsReached /\ attempt < MaxAttempts
  /\ attempt' = attempt + 1
  /\ current' = attempt + 1
  /\ capture' = [capture EXCEPT ![attempt + 1] = [Absent EXCEPT !.state = "unusable"]]
  /\ \/ recorder' = "recording" /\ Proceed("move") /\ UNCHANGED faults
     \/ UNCHANGED recorder /\ MayFail(1) /\ Exit("error")
  /\ UNCHANGED <<episodes, manifest, summary, lock, job, interrupted, Frame, mode,
                 saved, robot, ProcessVars, monitor, verdict, noted, served>>

(* The first round waits for MOVE; the monitor starts once the policy is
   enabled. *)
Move ==
  /\ pc = "move"
  /\ \/ /\ Command(EnablePolicy, "watch")
        /\ IF pc' = "watch"
           THEN /\ monitor' = "running"
                /\ served' = [served EXCEPT ![attempt] =
                                IF recorder = "recording" THEN client ELSE None]
           ELSE UNCHANGED <<monitor, served>>
     \/ /\ attempt = 1 /\ Exit("ok")
        /\ UNCHANGED <<robot, faults, monitor, served>>
  /\ UNCHANGED <<storeVars, Frame, mode, saved, attempt, current, ProcessVars,
                 recorder, verdict, noted>>

\* Fault: the monitor of the round is not killed.
Bug_OperatorEnds ==
  /\ pc = "watch"
  /\ BestEffort(DisablePolicy, "close")
  /\ UNCHANGED <<storeVars, Frame, mode, saved, attempt, current, ProcessVars,
                 recorder, monitor, verdict, noted, served>>

(* The loop that watches the monitor.  An answer is read before the loop looks
   at the monitor again, so END also hides a monitor that has just ended. *)
OperatorEnds ==
  /\ pc = "watch"
  /\ monitor' = "off"
  /\ BestEffort(DisablePolicy, "close")
  /\ UNCHANGED <<storeVars, Frame, mode, saved, attempt, current, ProcessVars,
                 recorder, verdict, noted, served>>

OperatorAborts ==
  /\ pc = "watch"
  /\ Exit("signal")
  /\ UNCHANGED <<storeVars, Frame, mode, saved, attempt, current, robot,
                 ProcessVars, recorder, monitor, faults, verdict, noted, served>>

(* A time limit is a normal ending, and so is the completed task.  The client is
   looked at before the monitor's exit code: a client that dies with the monitor
   may pass unnoticed. *)
NormalEnd == monitor \in {"completed", "timeout"}
AbnormalEnd == monitor = "fault" \/ client = None

RoundEnds ==
  /\ pc = "watch"
  /\ \/ NormalEnd /\ Proceed("close")
     \/ AbnormalEnd /\ Proceed("abnormal")
  /\ monitor' = "off"
  /\ UNCHANGED <<storeVars, Frame, mode, saved, attempt, current, robot,
                 ProcessVars, recorder, faults, verdict, noted, served>>

\* what the recorder has written when it ends
LeftBehind(s) == capture' = [capture EXCEPT ![current].state = s]

(* disable-policy and stop_recorder; a recorder that does not end keeps the
   script waiting, one that has ended already is not noticed. *)
CloseRound ==
  /\ pc \in {"close", "abnormal"}
  /\ recorder # "stuck"
  /\ BestEffort(DisablePolicy, IF pc = "close" THEN "label" ELSE "review")
  /\ recorder' = "off"
  /\ IF recorder = "off" THEN UNCHANGED capture
                         ELSE \E s \in {"usable", "unusable"} : LeftBehind(s)
  /\ UNCHANGED <<episodes, manifest, summary, lock, job, interrupted, Frame, mode,
                 saved, attempt, current, ProcessVars, monitor, verdict, noted,
                 served>>

-----------------------------------------------------------------------------
(* Labelling.  "label" is the normal prompt, "review" the one after a safety
   stop; `pc` remembers which of them called the finalizer. *)

Label(outcome) ==
  /\ pc \in {"label", "review"}
  /\ Begin(Session, current, outcome)
  /\ verdict' = [verdict EXCEPT ![current] = outcome]
  /\ noted' = [noted EXCEPT ![current] = mode]
  /\ Proceed(IF pc = "label" THEN "saving" ELSE "saving_last")
  /\ UNCHANGED <<Frame, mode, saved, attempt, current, robot, ProcessVars,
                 recorder, monitor, faults, served>>

FinalizeRuns ==
  /\ pc \in {"saving", "saving_last"}
  /\ FinalizerStep(Session)
  /\ UNCHANGED sessionVars

Counted == IF At(Session, "saved") THEN [saved EXCEPT ![mode] = @ + 1] ELSE saved

Finalized ==
  /\ pc \in {"saving", "saving_last"}
  /\ job[Session].step \in {"saved", "discarded"}
  /\ saved' = Counted
  /\ current' = None
  /\ job' = [job EXCEPT ![Session] = Idle]
  /\ IF pc = "saving" THEN Proceed("next") ELSE Exit("abnormal")
  /\ UNCHANGED <<capture, episodes, manifest, summary, lock, interrupted, Frame,
                 mode, attempt, robot, ProcessVars, recorder, monitor, faults,
                 verdict, noted, served>>

\* Fault: the exit code of the finalizer is ignored.
Bug_FinalizerFails ==
  /\ pc \in {"saving", "saving_last"}
  /\ At(Session, "failed")
  /\ saved' = [saved EXCEPT ![mode] = @ + 1]
  /\ current' = None
  /\ IF pc = "saving" THEN Proceed("next") ELSE Exit("abnormal")
  /\ UNCHANGED <<storeVars, Frame, mode, attempt, robot, ProcessVars, recorder,
                 monitor, faults, verdict, noted, served>>

\* the finalizer's exit code ends the session; CURRENT_STAGING stays set
FinalizerFails ==
  /\ pc \in {"saving", "saving_last"}
  /\ At(Session, "failed")
  /\ Exit("error")
  /\ UNCHANGED <<storeVars, Frame, mode, saved, attempt, current, robot,
                 ProcessVars, recorder, monitor, faults, verdict, noted, served>>

-----------------------------------------------------------------------------
(* Between rounds. *)

Finish ==
  /\ pc = "next" \/ pc = "ready"
  /\ Exit("ok")
  /\ UNCHANGED <<storeVars, Frame, mode, saved, attempt, current, robot,
                 ProcessVars, recorder, monitor, faults, verdict, noted, served>>

MoreRounds == ~TargetsReached /\ attempt < MaxAttempts

(* Same mode: the operator resets the scene, then reset-round, reset_episode
   and a new chunk, in this order. *)
ResetSameMode ==
  /\ pc = "next" /\ ~paired /\ MoreRounds
  /\ scene' = scene + 1
  /\ Command(ResetRound, "flush")
  /\ UNCHANGED <<storeVars, paired, deleted, mode, saved, attempt, current,
                 ProcessVars, recorder, monitor, verdict, noted, served>>

FlushQueue ==
  /\ pc = "flush"
  /\ \/ /\ client # None
        /\ queueScene' = scene
        /\ Proceed("servo")
        /\ UNCHANGED faults
     \/ /\ IF client = None THEN UNCHANGED faults ELSE MayFail(1)
        /\ Exit("error")
        /\ UNCHANGED queueScene
  /\ UNCHANGED <<storeVars, Frame, mode, saved, attempt, current, robot, server,
                 listener, client, recorder, monitor, verdict, noted, served>>

ChooseMode(m) ==
  /\ pc = "next" /\ paired /\ MoreRounds
  /\ saved[m] < PairedTarget[m]
  /\ mode' = m
  /\ Proceed("stop_policy")
  /\ UNCHANGED <<storeVars, Frame, saved, attempt, current, robot, ProcessVars,
                 recorder, monitor, faults, verdict, noted, served>>

(* stop_policy_components, before the gripper is enabled again: the client's
   STOP disables it. *)
StopPolicy ==
  /\ pc = "stop_policy"
  /\ ClientStopped
  /\ ServerStopped
  /\ Proceed("port")
  /\ UNCHANGED <<storeVars, Frame, mode, saved, attempt, current, queueScene,
                 recorder, monitor, faults, verdict, noted, served>>

\* Fault: the port of the server before is not waited for.
Bug_AwaitPort ==
  /\ pc = "port"
  /\ Proceed("reset")
  /\ UNCHANGED <<storeVars, Frame, mode, saved, attempt, current, robot,
                 ProcessVars, recorder, monitor, faults, verdict, noted, served>>

\* wait_for_server_stopped
AwaitPort ==
  /\ pc = "port"
  /\ \/ listener' = None /\ Proceed("reset") /\ UNCHANGED faults
     \/ listener # None /\ MayFail(1) /\ Exit("error") /\ UNCHANGED listener
  /\ UNCHANGED <<storeVars, Frame, mode, saved, attempt, current, robot, server,
                 client, queueScene, recorder, monitor, verdict, noted, served>>

ResetRobot ==
  /\ pc = "reset"
  /\ Command(ResetRound, "policy")
  /\ UNCHANGED <<storeVars, Frame, mode, saved, attempt, current, ProcessVars,
                 recorder, monitor, verdict, noted, served>>

StartPolicy ==
  /\ pc = "policy"
  /\ StartServer(mode, "policy_client")
  /\ UNCHANGED <<storeVars, Frame, mode, saved, attempt, current, robot, client,
                 queueScene, recorder, monitor, verdict, noted, served>>

StartPolicyClient ==
  /\ pc = "policy_client"
  /\ StartClient("policy_servo")
  /\ UNCHANGED <<storeVars, Frame, mode, saved, attempt, current, robot, server,
                 listener, recorder, monitor, verdict, noted, served>>

PolicyServo ==
  /\ pc = "policy_servo"
  /\ Command(EnterServo, "ready")
  /\ UNCHANGED <<storeVars, Frame, mode, saved, attempt, current, ProcessVars,
                 recorder, monitor, verdict, noted, served>>

\* "Reset the scene, then press Enter to start the next round"
PressEnter ==
  /\ pc = "ready"
  /\ scene' = scene + 1
  /\ Proceed("loop")
  /\ UNCHANGED <<storeVars, paired, deleted, mode, saved, attempt, current, robot,
                 ProcessVars, recorder, monitor, faults, verdict, noted, served>>

-----------------------------------------------------------------------------
(* cleanup(), the EXIT trap: it resets the traps first, so that a second signal
   ends it at once. *)

HaltRecorder ==
  /\ pc = "halt"
  /\ recorder # "stuck"
  /\ recorder' = "off" /\ monitor' = "off"
  /\ Proceed("halt_delete")
  /\ UNCHANGED <<storeVars, Frame, mode, saved, attempt, current, robot,
                 ProcessVars, faults, verdict, noted, served>>

(* delete_current_episode: the finalizer's discard, or rm if that fails; a
   capture that was renamed before the interruption is no longer there. *)
HaltDelete ==
  /\ pc = "halt_delete"
  /\ capture' = IF current = None THEN capture
                                  ELSE [capture EXCEPT ![current] = Absent]
  /\ current' = None
  /\ Proceed("halt_stack")
  /\ UNCHANGED <<episodes, manifest, summary, lock, job, interrupted, Frame, mode,
                 saved, attempt, robot, ProcessVars, recorder, monitor, faults,
                 verdict, noted, served>>

HaltStack ==
  /\ pc = "halt_stack"
  /\ \E o \in StopStack(robot, client # None) : robot' = o.robot /\ MayFail(o.bad)
  /\ Proceed("halt_policy")
  /\ UNCHANGED <<storeVars, Frame, mode, saved, attempt, current, ProcessVars,
                 recorder, monitor, verdict, noted, served>>

\* Fault: only the server of the pid file is stopped.
Bug_HaltPolicy ==
  /\ pc = "halt_policy"
  /\ ClientStopped
  /\ server' = None /\ listener' = IF server = None THEN listener ELSE None
  /\ Proceed("done")
  /\ UNCHANGED <<storeVars, Frame, mode, saved, attempt, current, queueScene,
                 recorder, monitor, faults, verdict, noted, served>>

\* stop_managed twice, then whatever process still matches is killed
HaltPolicy ==
  /\ pc = "halt_policy"
  /\ ClientStopped
  /\ server' = None /\ listener' = None
  /\ Proceed("done")
  /\ UNCHANGED <<storeVars, Frame, mode, saved, attempt, current, queueScene,
                 recorder, monitor, faults, verdict, noted, served>>

Halt == HaltRecorder \/ HaltDelete \/ HaltStack \/ HaltPolicy

-----------------------------------------------------------------------------
(* Around the session. *)

(* INT, TERM or HUP.  Ctrl+C also ends the finalizer the session waits for;
   a signal during the trap is not caught any more. *)
Interrupt ==
  /\ pc \notin {"launch"} \union Over
  /\ MayFail(1)
  /\ IF pc \in Halting THEN pc' = "killed" /\ UNCHANGED code ELSE Exit("signal")
  /\ IF job[Session].step \in {"convert", "wait"} \union Locked
     THEN Killed(Session) ELSE UNCHANGED <<job, lock, interrupted>>
  /\ UNCHANGED <<capture, episodes, manifest, summary, Frame, mode, saved, attempt,
                 current, robot, ProcessVars, recorder, monitor, verdict, noted,
                 served>>

\* the detector completes the task: gate closed, STOP, then the status
TaskCompletes ==
  /\ monitor = "running" /\ robot["policy"]
  /\ robot' = Stop(robot)
  /\ monitor' = "completed"
  /\ UNCHANGED <<storeVars, Frame, pc, code, mode, saved, attempt, current,
                 ProcessVars, recorder, faults, verdict, noted, served>>

MonitorEnds ==
  /\ monitor = "running"
  /\ monitor' = IF robot["policy"] THEN "timeout" ELSE "fault"
  /\ UNCHANGED <<storeVars, Frame, pc, code, mode, saved, attempt, current, robot,
                 ProcessVars, recorder, faults, verdict, noted, served>>

\* a protective or emergency stop
RobotStops ==
  /\ pc \notin Over
  /\ robot["enable"] /\ MayFail(1)
  /\ robot' = Switched(robot, "enable", FALSE)
  /\ UNCHANGED <<storeVars, Frame, pc, code, mode, saved, attempt, current,
                 ProcessVars, recorder, monitor, verdict, noted, served>>

ClientDies ==
  /\ pc \notin Over
  /\ client # None /\ MayFail(1)
  /\ ClientStopped
  /\ UNCHANGED <<storeVars, Frame, pc, code, mode, saved, attempt, current, server,
                 listener, queueScene, recorder, monitor, verdict, noted, served>>

\* a writer thread failed: the recorder will not end by itself any more
RecorderSticks ==
  /\ recorder = "recording" /\ MayFail(1)
  /\ recorder' = "stuck"
  /\ UNCHANGED <<storeVars, Frame, pc, code, mode, saved, attempt, current, robot,
                 ProcessVars, monitor, verdict, noted, served>>

(* A callback raises and ends the recorder's loop, or something kills it.  What
   it has written is accepted later only if it got as far as the summary and
   saw the open gate; a stuck one never gets so far.  In the trap the directory
   is about to be deleted anyway. *)
RecorderEnds ==
  /\ pc \notin Over
  /\ recorder # "off" /\ MayFail(1)
  /\ recorder' = "off"
  /\ IF recorder = "recording" /\ pc \in {"watch", "close", "abnormal"}
     THEN \E s \in {"usable", "unusable"} : LeftBehind(s)
     ELSE UNCHANGED capture
  /\ UNCHANGED <<episodes, manifest, summary, lock, job, interrupted, Frame, pc,
                 code, mode, saved, attempt, current, robot, ProcessVars, monitor,
                 verdict, noted, served>>

(* A second launcher sets its EXIT trap before it looks for a running one; it
   is refused, and its trap stops the robot stack, the client and the server
   of this session. *)
SecondLauncher ==
  /\ pc \notin Over
  /\ server # None \/ client # None
  /\ faults < MaxFaults
  /\ \E o \in StopStack(robot, client # None) :
       /\ robot' = IF client = None THEN o.robot ELSE Stop(o.robot)
       /\ MayFail(o.bad + 1)
  /\ server' = None /\ listener' = None /\ client' = None
  /\ UNCHANGED <<storeVars, Frame, pc, code, mode, saved, attempt, current,
                 queueScene, recorder, monitor, verdict, noted, served>>

(* Somebody finalizes the leftover capture, is interrupted, tries again; and
   deletes an episode that turned out useless. *)
ManualStep ==
  /\ \/ /\ capture[Leftover].state # "absent"
        /\ \E outcome \in Outcomes : Begin(Manual, Leftover, outcome)
        /\ UNCHANGED faults
     \/ FinalizerStep(Manual) /\ UNCHANGED faults
     \/ KillFinalizer(Manual) /\ MayFail(1)
  /\ UNCHANGED <<pc, code, Frame, mode, saved, attempt, current, robot, ProcessVars,
                 recorder, monitor, verdict, noted, served>>

Discarded(i) ==
  /\ DeleteEpisode(i)
  /\ deleted' = deleted \union {episodes[i].capture}
  /\ MayFail(1)
  /\ UNCHANGED <<pc, code, paired, scene, mode, saved, attempt, current, robot,
                 ProcessVars, recorder, monitor, verdict, noted, served>>

-----------------------------------------------------------------------------

Scripted ==
  \/ Launch \/ StartRobotStack \/ FirstClient \/ Servo \/ StartRecorder
  \/ RoundEnds \/ CloseRound \/ FinalizeRuns \/ Finalized \/ FinalizerFails
  \/ FlushQueue \/ StopPolicy \/ AwaitPort \/ ResetRobot \/ StartPolicy
  \/ StartPolicyClient \/ PolicyServo \/ Halt

Operator ==
  \/ Arm \/ Move \/ OperatorEnds \/ OperatorAborts \/ Finish
  \/ \E outcome \in Outcomes : Label(outcome)
  \/ ResetSameMode \/ \E m \in Modes : ChooseMode(m)
  \/ PressEnter \/ Interrupt

Environment ==
  \/ TaskCompletes \/ MonitorEnds \/ RobotStops \/ ClientDies
  \/ RecorderSticks \/ RecorderEnds \/ SecondLauncher \/ ManualStep
  \/ \E i \in DOMAIN episodes : Discarded(i)

Next == Scripted \/ Operator \/ Environment

(* The trap and the finalizers are scripts and go on by themselves; nobody has
   to answer a prompt or to end a round. *)
Spec ==
  /\ Init /\ [][Next]_vars
  /\ WF_vars(Halt)
  /\ WF_vars(FinalizeRuns \/ Finalized \/ FinalizerFails)
  /\ WF_vars(FinalizerStep(Manual) /\ UNCHANGED sessionVars)

-----------------------------------------------------------------------------

TypeOK ==
  /\ StoreTypeOK
  /\ robot \in Robot
  /\ {server, listener, client} \subseteq Modes \union {None}
  /\ recorder \in {"off", "recording", "stuck"}
  /\ monitor \in {"off", "running", "completed", "timeout", "fault"}
  /\ monitor # "off" => pc \in {"watch"} \union Halting \union Over
  /\ current = None \/ current = attempt
  /\ code \in {"ok", "error", "signal", "abnormal"}
  /\ faults \in 0..MaxFaults

(* Whatever failed before, the policy is enabled only on a robot whose gripper
   is enabled, for the attempt whose staging directory is the current one, and
   with a client that is alive; in paired mode too, where the client of the
   round before was stopped and its STOP disabled the gripper.  While the mode
   stays the same, the chunk the client has was predicted from the scene as it
   was last reset.  It does not say that a recorder runs: the script looked for
   it before the operator typed MOVE, and it may have ended or be stuck by now.
   What becomes of such a round is NotedModeWasServed's. *)
RoundStartsReady ==
  [][~robot["policy"] /\ robot'["policy"] =>
       /\ robot'["gripper"] /\ robot'["motion"]
       /\ current = attempt /\ client # None
       /\ ~paired => queueScene = scene]_vars

(* The mode in an episode's notes is the mode of the server whose actions the
   robot executed in it, with a recorder at work when they began: no round is
   served by a server of the mode before, and a round that was enabled although
   its recorder had ended or was stuck becomes no episode, however the operator
   labels it, although the script does not look for the recorder again. *)
NotedModeWasServed ==
  \A i \in DOMAIN episodes :
    LET c == episodes[i].capture
    IN c # Leftover => noted[c] = served[c]

InDataSet(c) == c \in deleted \/ \E i \in DOMAIN episodes : episodes[i].capture = c
Settled == \/ pc \in {"next", "loop", "move", "watch", "close", "label", "ready"}
           \/ pc = "done" /\ code \in {"ok", "abnormal"}

(* What the operator decided is what the data set holds: an attempt labelled S
   or F is saved, with that label, and counted once for its mode; one labelled
   D, or interrupted before its label, is not.  It holds while rounds go on and
   when the session ends with an exit code other than an error's or a
   signal's. *)
LabelsAreKept ==
  /\ \A i \in DOMAIN episodes :
       LET c == episodes[i].capture
       IN c # Leftover => verdict[c] = episodes[i].label
  /\ Settled =>
       /\ \A c \in Attempts : verdict[c] \in Labels => InDataSet(c)
       /\ \A m \in Modes :
            saved[m] = Cardinality({c \in Attempts : verdict[c] \in Labels
                                                    /\ noted[c] = m})

(* A session that ran its trap to the end leaves nothing behind: no policy, no
   moving arm, no process, no half-finished capture of its own; and no power,
   unless something had failed. *)
NothingSurvives ==
  pc = "done" =>
    /\ ~robot["policy"] /\ ~robot["motion"] /\ ~robot["nodes"]
    /\ client = None /\ server = None /\ listener = None
    /\ recorder = "off" /\ monitor = "off"
    /\ \A c \in Attempts : capture[c].state = "absent"
    /\ robot["power"] => faults > 0

(* The session never hangs where nobody can see why: a label is followed by
   the next prompt or by the end, although another finalizer may hold the lock
   of the data set or be killed while it does, and the trap reaches its end,
   unless the recorder never ends or a second signal kills the trap. *)
ScriptNeverHangs ==
  pc \in {"saving", "saving_last", "halt"} ~>
    pc \in {"next"} \union Over \/ recorder = "stuck"

(* "starting after the confirmed scene reset": the actions a round begins with
   were predicted from the scene it is about. *)
RoundStartsWithOwnScene ==
  [][~robot["policy"] /\ robot'["policy"] => queueScene = scene]_vars
=============================================================================
