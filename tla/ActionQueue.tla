----------------------------- MODULE ActionQueue -----------------------------
(***************************************************************************)
(* The action queue of the async client (async_client.py): the control     *)
(* loop consumes actions and sends observations, the receiver thread of    *)
(* the upstream client merges each new chunk into the queue, the ROS       *)
(* thread of the adapter resets it between episodes and a logger thread    *)
(* reports it.  The locks are held for single reads and writes only, so    *)
(* the threads interleave between the steps below.                         *)
(*                                                                         *)
(* An action is its time step, and the scene that the robot saw when the   *)
(* observation it was predicted from was taken.  The policy server and the *)
(* receiver thread are code of the upstream library, modelled from what    *)
(* this client relies on.                                                  *)
(***************************************************************************)
EXTENDS Integers, Sequences, FiniteSetsExt

CONSTANTS
  Chunk,          \* actions_per_chunk
  MaxStep,        \* bound: time steps the control loop executes
  MaxScene,       \* bound: scene resets between episodes
  SlowInference   \* whether a prediction takes longer than it takes the
                  \* control loop to note that it has requested it

ASSUME QueueAssumption ==
  Chunk \in Nat \ {0, 1} /\ MaxStep \in Nat /\ MaxScene \in Nat
  /\ SlowInference \in BOOLEAN

VARIABLES
  queue,          \* action_queue
  latest,         \* latest_action
  chunkSize,      \* action_chunk_size
  mustGo,         \* the event must_go
  ready,          \* the adapter's _policy_chunk_ready
  enabled,        \* the action gate, see module ActionGate
  main,           \* where the control loop is
  popped,         \* timed_action
  observation,    \* the observation being sent
  sample,         \* control loop: the readiness it is about to report
  logged,         \* logger thread: the same, or NoSample
  receiver,       \* where the receiver thread is
  waiting,        \* the observation queued at the server, or Nothing
  chunk,          \* the observation whose chunk the receiver handles
  future,         \* future_action_queue
  ros,            \* where the reset service is
  scene,          \* number of scene resets so far
  episode,        \* "changed" scene, "prepared" by a reset, or "started"
  reached         \* history: the highest time step popped so far

client   == <<queue, latest, chunkSize, mustGo, ready>>
mainVars == <<main, popped, observation, sample>>
rxVars   == <<receiver, chunk, future>>
operator == <<enabled, scene, episode>>
vars == <<client, mainVars, logged, rxVars, waiting, ros, operator, reached>>

Nothing  == [step |-> -1, scene |-> -1, must |-> FALSE]
NoAction == [step |-> -1, scene |-> -1]
Samples  == {"ready", "not_ready"}
NoSample == "none"

Action      == [step : 0 .. MaxStep + Chunk, scene : 0 .. MaxScene]
Observation == [step : 0 .. MaxStep, scene : 0 .. MaxScene, must : BOOLEAN]

TypeOK ==
  /\ queue \in Seq(Action) /\ Len(queue) <= Chunk
  /\ \A i \in 2 .. Len(queue) : queue[i].step = queue[i-1].step + 1
  /\ latest \in -1 .. MaxStep
  /\ chunkSize \in {-1, Chunk}
  /\ mustGo \in BOOLEAN /\ ready \in BOOLEAN /\ enabled \in BOOLEAN
  /\ main \in {"loop", "sync_act", "sync_want", "sync_size", "sync_loop",
               "act", "pop", "send", "advance", "want", "size", "observe",
               "must", "stream", "clear"}
  /\ popped \in Action \cup {NoAction}
  /\ observation \in Observation \cup {Nothing}
  /\ sample \in Samples \cup {NoSample} /\ logged \in Samples \cup {NoSample}
  /\ receiver \in {"wait", "infer", "merge", "swap", "must"}
  /\ waiting \in Observation \cup {Nothing}
  /\ chunk \in Observation \cup {Nothing}
  /\ future \in Seq(Action) /\ Len(future) <= Chunk
  /\ ros \in {"idle", "must"} \cup Samples
  /\ scene \in 0 .. MaxScene
  /\ episode \in {"changed", "prepared", "started"}
  /\ reached \in -1 .. MaxStep

Init ==
  /\ queue = << >> /\ latest = -1 /\ chunkSize = -1 /\ mustGo = TRUE
  /\ ready = FALSE /\ enabled = FALSE
  /\ main = "loop" /\ popped = NoAction /\ observation = Nothing
  /\ sample = NoSample /\ logged = NoSample
  /\ receiver = "wait" /\ waiting = Nothing /\ chunk = Nothing
  /\ future = << >>
  /\ ros = "idle"
  /\ scene = 0 /\ episode = "prepared"
  /\ reached = -1
------------------------------------------------------------------------------
(* _sync_policy_queue_status: the queue is measured under its lock, the    *)
(* result is stored in the adapter under another one, later.               *)

\* Fault: a whole nominal chunk is demanded.
Bug_Measured == IF chunkSize >= Chunk /\ Len(queue) >= Chunk THEN "ready"
                ELSE "not_ready"

\* One action less than a chunk is a loaded chunk: the first one repeats the
\* step that was executed last, and is dropped.
Measured == IF chunkSize >= Chunk - 1 /\ Len(queue) >= Chunk - 1 THEN "ready"
            ELSE "not_ready"

Report(from, to) ==
  /\ main = from /\ main' = to
  /\ ready' = (sample = "ready")
  /\ sample' = NoSample
  /\ UNCHANGED <<queue, latest, chunkSize, mustGo, popped, observation, logged,
                 rxVars, waiting, ros, operator, reached>>

\* Control loop: measure, and report on the way to the next step.
Measure(from, to) ==
  /\ main = from /\ main' = to
  /\ sample' = Measured
  /\ UNCHANGED <<client, popped, observation, logged, rxVars, waiting, ros,
                 operator, reached>>

Goes(from, to) ==
  /\ main = from /\ main' = to
  /\ UNCHANGED <<client, popped, observation, sample, logged, rxVars, waiting,
                 ros, operator, reached>>
------------------------------------------------------------------------------
(* Control loop: actions_available, control_loop_action.                   *)
ActionsAvailable ==
  IF queue = << >> THEN Measure("loop", "sync_want")
  ELSE Measure("loop", "sync_act")

ActionGateClosed == ~enabled /\ Measure("act", "sync_want")
ActionGateOpen   == enabled /\ Goes("act", "pop")

\* get_nowait raises Empty if the queue was reset meanwhile.
PopEmpty == queue = << >> /\ Goes("pop", "want")
Pop ==
  /\ main = "pop" /\ main' = "send"
  /\ queue # << >> /\ Head(queue).step < MaxStep
  /\ popped' = Head(queue) /\ queue' = Tail(queue)
  /\ reached' = IF Head(queue).step > reached THEN Head(queue).step ELSE reached
  /\ UNCHANGED <<latest, chunkSize, mustGo, ready, observation, sample, logged,
                 rxVars, waiting, ros, operator>>

\* send_action publishes the action if the gate is still open, and returns
\* without effect if it is not ...
Send == Goes("send", "advance")

\* ... or raises, on stale feedback: the action is gone, latest_action stays.
SendFails ==
  /\ main = "send" /\ main' = "want"
  /\ popped' = NoAction
  /\ UNCHANGED <<client, observation, sample, logged, rxVars, waiting, ros,
                 operator, reached>>

\* Fault: the time step to execute next is recorded.
Bug_Advance ==
  /\ main = "advance" /\ main' = "sync_want"
  /\ latest' = popped.step + 1
  /\ popped' = NoAction
  /\ sample' = Measured
  /\ UNCHANGED <<queue, chunkSize, mustGo, ready, observation, logged, rxVars,
                 waiting, ros, operator, reached>>

Advance ==
  /\ main = "advance" /\ main' = "sync_want"
  /\ latest' = popped.step
  /\ popped' = NoAction
  /\ sample' = Measured
  /\ UNCHANGED <<queue, chunkSize, mustGo, ready, observation, logged, rxVars,
                 waiting, ros, operator, reached>>
------------------------------------------------------------------------------
(* Control loop: _ready_to_send_observation, control_loop_observation.     *)

\* While the gate is closed a chunk that has arrived is kept.
KeepFirstChunk ==
  /\ ~enabled
  /\ IF queue = << >> THEN Measure("want", "sync_size")
     ELSE Measure("want", "sync_loop")
GateOpen == enabled /\ Goes("want", "size")

\* Upstream: the queue has shrunk to chunk_size_threshold, one half.
Low == chunkSize < 0 \/ 2 * Len(queue) <= chunkSize
QueueLow  == Low /\ Goes("size", "observe")
QueueHigh == ~Low /\ Goes("size", "loop")

\* get_observation, which raises on stale feedback, and latest_action.
NoObservation == Goes("observe", "loop")
Observe ==
  /\ main = "observe" /\ main' = "must"
  /\ observation' = [step |-> IF latest < 0 THEN 0 ELSE latest,
                     scene |-> scene, must |-> FALSE]
  /\ UNCHANGED <<client, popped, sample, logged, rxVars, waiting, ros,
                 operator, reached>>

\* Fault: upstream's rule, only an empty queue makes an observation must_go.
Bug_MarkMustGo ==
  /\ main = "must" /\ main' = "stream"
  /\ observation' = [observation EXCEPT !.must = mustGo /\ chunkSize < 0]
  /\ UNCHANGED <<client, popped, sample, logged, rxVars, waiting, ros,
                 operator, reached>>

MarkMustGo ==
  /\ main = "must" /\ main' = "stream"
  /\ observation' = [observation EXCEPT !.must = mustGo /\ Low]
  /\ UNCHANGED <<client, popped, sample, logged, rxVars, waiting, ros,
                 operator, reached>>

\* send_observation succeeds: a must_go observation replaces the one that
\* waits at the server, another one does unless the server finds it too
\* similar to what it has seen.
Stream ==
  /\ main = "stream"
  /\ \/ waiting' = observation
     \/ ~observation.must /\ UNCHANGED waiting
  /\ main' = IF observation.must THEN "clear" ELSE "loop"
  /\ observation' = Nothing
  /\ UNCHANGED <<client, popped, sample, logged, rxVars, ros, operator,
                 reached>>

StreamFails ==
  /\ main = "stream" /\ main' = "loop"
  /\ observation' = Nothing
  /\ UNCHANGED <<client, popped, sample, logged, rxVars, waiting, ros,
                 operator, reached>>

ClearMustGo ==
  /\ main = "clear" /\ main' = "loop"
  /\ mustGo' = FALSE
  /\ UNCHANGED <<queue, latest, chunkSize, ready, popped, observation, sample,
                 logged, rxVars, waiting, ros, operator, reached>>
------------------------------------------------------------------------------
(* Upstream: the policy server and the client's receiver thread.           *)
Infer ==
  /\ receiver = "wait" /\ waiting # Nothing
  /\ receiver' = "infer" /\ chunk' = waiting /\ waiting' = Nothing
  /\ UNCHANGED <<client, mainVars, logged, future, ros, operator, reached>>

ReceiveChunk ==
  /\ receiver = "infer" /\ receiver' = "merge"
  /\ SlowInference => main # "clear"
  /\ chunkSize' = Chunk
  /\ UNCHANGED <<queue, latest, mustGo, ready, mainVars, logged, chunk, future,
                 waiting, ros, operator, reached>>

\* What an observation's chunk adds to the queue: the steps that have not
\* been executed.  An action for a step that is queued already is averaged
\* with it, so it still holds a part of what the older scene asked for.
Merged(o) ==
  LET first == IF o.step > latest THEN o.step ELSE latest + 1
      older(n) == {queue[i].scene : i \in {j \in DOMAIN queue : queue[j].step = n}}
  IN  [i \in 1 .. (o.step + Chunk - first) |->
         [step |-> first + i - 1,
          scene |-> Min(older(first + i - 1) \cup {o.scene})]]

MergeChunk ==
  /\ receiver = "merge" /\ receiver' = "swap"
  /\ future' = Merged(chunk) /\ chunk' = Nothing
  /\ UNCHANGED <<client, mainVars, logged, waiting, ros, operator, reached>>

SwapQueue ==
  /\ receiver = "swap" /\ receiver' = "must"
  /\ queue' = future /\ future' = << >>
  /\ UNCHANGED <<latest, chunkSize, mustGo, ready, mainVars, logged, chunk,
                 waiting, ros, operator, reached>>

ChunkSetsMustGo ==
  /\ receiver = "must" /\ receiver' = "wait"
  /\ mustGo' = TRUE
  /\ UNCHANGED <<queue, latest, chunkSize, ready, mainVars, logged, chunk,
                 future, waiting, ros, operator, reached>>
------------------------------------------------------------------------------
(* log_runtime_status.                                                     *)
LogMeasures ==
  /\ logged = NoSample /\ logged' = Measured
  /\ UNCHANGED <<client, mainVars, rxVars, waiting, ros, operator, reached>>
LogReports ==
  /\ logged # NoSample /\ logged' = NoSample
  /\ ready' = (logged = "ready")
  /\ UNCHANGED <<queue, latest, chunkSize, mustGo, mainVars, rxVars, waiting,
                 ros, operator, reached>>
------------------------------------------------------------------------------
(* ROS thread: the gate, and reset_episode between two episodes.           *)

\* No action, observation or chunk of the last episode is under way any more:
\* the session sleeps three seconds before it resets the queue.
Settled == /\ waiting = Nothing /\ receiver = "wait"
           /\ main \notin {"pop", "send", "must", "stream"}

\* Fault: the actions that were not executed are kept.
Bug_ResetQueue ==
  /\ ros = "idle" /\ ros' = "must"
  /\ ~enabled /\ episode = "changed" /\ Settled
  /\ chunkSize' = -1
  /\ UNCHANGED <<queue, latest, mustGo, ready, mainVars, logged, rxVars,
                 waiting, operator, reached>>

\* Fault: the chunk size, which the queue length is divided by, becomes zero.
Bug_ResetChunkSize ==
  /\ ros = "idle" /\ ros' = "must"
  /\ ~enabled /\ episode = "changed" /\ Settled
  /\ queue' = << >> /\ chunkSize' = 0
  /\ UNCHANGED <<latest, mustGo, ready, mainVars, logged, rxVars, waiting,
                 operator, reached>>

ResetQueue ==
  /\ ros = "idle" /\ ros' = "must"
  /\ ~enabled /\ episode = "changed" /\ Settled
  /\ queue' = << >> /\ chunkSize' = -1
  /\ UNCHANGED <<latest, mustGo, ready, mainVars, logged, rxVars, waiting,
                 operator, reached>>

ResetMustGo ==
  /\ ros = "must" /\ ros' = Measured
  /\ mustGo' = TRUE
  /\ UNCHANGED <<queue, latest, chunkSize, ready, mainVars, logged, rxVars,
                 waiting, operator, reached>>

ResetReports ==
  /\ ros \in Samples /\ ros' = "idle"
  /\ ready' = (ros = "ready")
  /\ episode' = "prepared"
  /\ UNCHANGED <<queue, latest, chunkSize, mustGo, mainVars, logged, rxVars,
                 waiting, enabled, scene, reached>>

OpenGate ==
  /\ ros = "idle" /\ ~enabled /\ episode # "changed"
  /\ enabled' = TRUE /\ episode' = "started"
  /\ UNCHANGED <<client, mainVars, logged, rxVars, waiting, ros, scene,
                 reached>>

\* By the operator, the arm's gate, the completion or the guard.
CloseGate ==
  /\ enabled /\ enabled' = FALSE
  /\ UNCHANGED <<client, mainVars, logged, rxVars, waiting, ros, scene,
                 episode, reached>>

\* The operator resets the scene for the next episode.
ChangeScene ==
  /\ ros = "idle" /\ ~enabled /\ episode = "started"
  /\ scene < MaxScene /\ scene' = scene + 1
  /\ episode' = "changed"
  /\ UNCHANGED <<client, mainVars, logged, rxVars, waiting, ros, enabled,
                 reached>>
------------------------------------------------------------------------------
ActionStep ==
  \/ ActionsAvailable \/ ActionGateClosed \/ ActionGateOpen
  \/ PopEmpty \/ Pop \/ Send \/ SendFails \/ Advance
ObservationStep ==
  \/ KeepFirstChunk \/ GateOpen \/ QueueLow \/ QueueHigh
  \/ NoObservation \/ Observe \/ MarkMustGo \/ Stream \/ StreamFails
  \/ ClearMustGo
ReportStep ==
  \/ Report("sync_act", "act") \/ Report("sync_want", "want")
  \/ Report("sync_size", "size") \/ Report("sync_loop", "loop")
ControlLoop == ActionStep \/ ObservationStep \/ ReportStep
Receiver    == \/ Infer \/ ReceiveChunk \/ MergeChunk \/ SwapQueue
               \/ ChunkSetsMustGo
Logger      == LogMeasures \/ LogReports
ResetEpisode == ResetQueue \/ ResetMustGo \/ ResetReports
Operator    == OpenGate \/ CloseGate \/ ChangeScene

Next == ControlLoop \/ Receiver \/ Logger \/ ResetEpisode \/ Operator

\* Every thread goes on, an action is not failed forever, feedback becomes
\* fresh again and the connection to the server comes back.
Fairness ==
  /\ WF_vars(ControlLoop) /\ WF_vars(Receiver) /\ WF_vars(LogReports)
  /\ WF_vars(ResetMustGo \/ ResetReports)
  /\ SF_vars(Observe) /\ SF_vars(Stream)

Spec == Init /\ [][Next]_vars
FairSpec == Spec /\ Fairness
------------------------------------------------------------------------------
(* No action that was predicted from the scene of an earlier episode, or   *)
(* averaged with one, is executed once the queue was reset for this one.   *)
NoActionOfOldScene ==
  main = "send" /\ enabled => popped.scene = scene

(* No time step is ever skipped, however merges, failed actions, closed    *)
(* gates and episode resets overlap: the control loop may repeat a step    *)
(* that it popped while its chunk was being merged, but it never runs      *)
(* ahead of the trajectory.                                                *)
NoStepSkipped ==
  [][main = "pop" /\ main' = "send" => Head(queue).step <= reached + 1]_vars

(* A queue that was reset becomes a loaded chunk, and is reported as one,  *)
(* although the first action of the chunk is dropped after an episode: the *)
(* session waits for that report before it starts the next episode.        *)
PreloadIsReported ==
  episode = "prepared"
    ~> (episode # "prepared" \/ (ready /\ Len(queue) >= Chunk - 1))

(* An open gate does not run dry: whatever the receiver and the control    *)
(* loop do to must_go, another chunk is requested and merged.              *)
QueueIsRefilled ==
  enabled /\ queue = << >>
    ~> (queue # << >> \/ ~enabled \/ latest = MaxStep)
==============================================================================
