# Verification of SmolVLA with QGF (Armstrong right arm)

TLA+ modules, TLC configurations and TLAPS proofs for the parts of this
repository that decide when the robot may move, what a rollout is recorded as,
and what ends up in the data set. Line numbers refer to the commit beside this
directory. `A/` stands for
`lerobot_robot_armstrong_ros2/src/lerobot_robot_armstrong_ros2/`.

## 1. Inventory

| Component | State | Operations | Talks to |
|---|---|---|---|
| Robot adapter, action gate (`A/armstrongros2.py`) | `_action_enabled`, `_arm_motion_enabled`, `_last_safe_joint_command`, gripper filter, completion detector and its result | `set_enabled`, motion-enabled and gripper callbacks, status timer (ROS thread); `get_observation`, `send_action`, `resend_last_joint_command`, `disconnect` (control loop) | servo controller (joint, gripper, STOP topics), monitor (status topic), async client |
| Gripper temporal filter (`A/smolvla_guard.py` 110-211) | command, candidate, count, transition and contact times | `reset`, `note_contact`, `update` | called by the adapter under its lock |
| Task completion detector (`A/smolvla_guard.py` 265-373) | sticky flags, previous observation, stability time | `reset`, `deactivate`, `update` | called by the adapter under its lock |
| Policy guard (`A/smolvla_guard.py` 376-545) | none | joint limits, step limits, 2*pi equivalents, initial pose | called by `send_action`, `set_enabled` |
| Async client (`A/async_client.py`) | action queue, latest action, chunk size, `must_go` | control loop, receiver thread (upstream), runtime logger, episode reset | policy server (gRPC), adapter |
| Policy servers (`A/policy_server_*.py`, `tools/mixed_precision_policy_server.py`) | telemetry counters, QGF guidance | inference | client |
| Rollout monitor (`tools/monitor_qgf_rollout.py`) | last status fields, last safety fields | two callbacks, verdict, timeouts | adapter's status, session (exit code) |
| Episode recorder (`tools/qgf_episode_recorder.py`) | recording flag, two video sinks with queue and writer thread, rows | topic callbacks, sample timer, close | adapter's topics, session (signals), finalizer (files) |
| Episode finalizer (`tools/finalize_qgf_episode.py`) | lock, capture, episode directories, manifest, summary | validate, label, allocate an index, rename, rebuild the manifest, delete | session, a finalizer started by hand |
| Collection session (`tools/run_qgf_collection_session.sh`) | phase, pids, current staging directory, counters | start and stop of all processes, prompts, signals, EXIT trap | all of the above |
| Robot stack (`tools/ubuntu_smolvla_stack.sh`) | nodes, switches of the robot | `start`, `prepare`, `reset_round`, `disable`, `stop`, ... | session, servo controller |
| Single-rollout launchers (`tools/run_smolvla_orin.sh`, `tools/run_qgf_episode.sh`, ...) | pid files | start order, probes | as the session, without a data set |
| Data set and manifest (`qgf/.../critic_dataset.py`, `returns.py`, `scripts/build_real_robot_visual_iql_manifest.py`) | none | returns, windows, retrieval targets, join of chunks with rows, splits | finalizer's files, training |
| Critic training (`qgf/scripts/train_*.py`) | weights, best copy, loss history | epochs, selection, checkpoint | data set |
| Counterfactual probe (`qgf/scripts/counterfactual_probe.py`) | simulator, two policies with their queues, snapshot | main line, branches, tails, scores, pairs | mixed critic |
| QGF guidance, critics, rewards (`qgf/src`) | tensors | guidance, forward passes | policy server |

What is hard here:

* The adapter has two threads and one lock. Most handlers take the lock for a
  part of their work only, and `send_action` and the resend look at the gate
  once, well before they publish.
* The client has five threads around one queue (control loop, receiver, logger,
  ROS thread, and the server at the other end); the upstream receiver merges a
  chunk outside the locks.
* Three processes learn of the end of a rollout from a status message whose
  fields are read at different moments.
* The recorder hands frames to writer threads through bounded queues and closes
  them one after the other when it is stopped, possibly after an error.
* The finalizer and the session may be interrupted between any two steps, and
  two launchers, two finalizers or a deletion by hand may meet.
* The programs that run in one thread join streams by time, split few episodes
  by rounded fractions, and share mutable state between branches and epochs.

`PROJECT.json` lists each hazard at its line, with the properties that would
catch it, or a note where none does.

## 2. Modules

| Module | Models | Correspondence |
|---|---|---|
| `GripperConfirmation` | the time-free half of the gripper filter | `Pending`, `Confirmed`, `Update` are the branches of `update()`; shared by the next and by `ActionGate` |
| `GripperFilter` | `GripperTemporalFilter` with a clock | one action per method, one per input it samples, `Tick` for the monotonic clock |
| `TaskCompletion` | `TaskCompletionDetector` | `Reset`, `Deactivate`, `Update`; `history` keeps the observations for the reference definition |
| `ActionGate` | the adapter's gate, thread by thread | a critical section is an action, an access outside the lock is an action of its own; `main` and `ros` are the program counters |
| `GatedPublisher` | what the gate promises, without threads | abstract specification, implemented by `ActionGate` |
| `RolloutMonitor` | the monitor process, composed with `ActionGate` | `Adapter` is any step of the adapter and delivers its status messages; `Verdict` is `result()` |
| `ActionQueue` | the async client's queue | program counters for the control loop, the receiver, the reset service and the logger; upstream parts are external |
| `EpisodeRecorder` | the recorder's sinks, rows and shutdown | executor thread, one writer thread per camera |
| `EpisodeFinalizer` | finalizer processes on one data set | one action per step between two effects on disk; each process may be killed between two of them |
| `RobotStack` | the commands of `ubuntu_smolvla_stack.sh` | a command is a sequence of calls; its outcomes are all states it can leave the robot in, with the answer the script gets |
| `CollectionSession` | the session, composed with `EpisodeFinalizer` and `RobotStack` | `pc` is the line the script has reached; a command it waits for is one action; `Halt` is the EXIT trap |
| `PolicyGuard` | the guard's pure checks and the command that leaves the adapter | a rejection is the empty set, a result the set that holds it |
| `EpisodeRows` | transitions of the finalizer, returns, windows and retrieval targets | functions on sequences of rows |
| `ChunkManifest` | the join of chunks, observations and rows | functions; a skipped chunk is a record with its reason |
| `EpisodeSplits` | the splits of the training scripts | the set of splits that some seed produces |
| `CriticTraining` | the training loop of the three critics | one action per epoch and validation; weights are the epoch they are of |
| `CounterfactualProbe` | the probe on a shared simulator | one action per step of the main line, a prefix or a tail |
| `*Proofs` | theorems; `GuardProofs` is about `PolicyGuard` and `TaskCompletion`, `SessionRobotProofs` about `CollectionSession` with `RobotStack`, `LearningProofs` about `EpisodeRows`, `ChunkManifest`, `EpisodeSplits`, `CriticTraining` and `CounterfactualProbe` | TLAPS, section 5 |
| `MC*` | TLC instances | constants, and in `MCAlgorithms` the bounded inputs of the functions |

`Bug_*` operators are plausible faults of the code they stand next to; replacing
the operator that follows by one of them must break the property it is paired
with (see "mutants" in `PROJECT.json`).

Abstractions. A joint target is the rollout whose `send_action` computed it.
The seven joints of the detector are one coordinate, because its two tests are
on the joint farthest from home. Times are ages that saturate where the code
stops telling them apart. An action of the queue is its time step and the scene
it was predicted from; averaging two actions keeps the older scene, so that an
average counts as stale. A video frame is its index. An episode on disk is its
capture with the label written into its rewards and the one in its metadata; a
listing (manifest, or what a finalizer has read) maps indices to labels. The
state of a row in the data set algorithms is one number. Angles of the guard
are integers and a turn is `Turn` of them; its margin of 1e-6 on the envelope
makes no difference between integers. A discounted value is an integer in units
of the smallest power of the discount. The simulator of the probe is the
sequence of lines that stepped it; that an episode which ends is reset within
the step is taken from how the probe reads `final_info` (external). In the
session, `CURRENT_MODE` changes with the choice of the mode instead of at line
432, which nobody can see in between. History variables are marked in the
modules.

## 3. Runs

| Run | Shows | Bounds and why they are enough |
|---|---|---|
| `action_gate` | gate invariants, the STOP for each closing, refinement of `GatedPublisher` | two rollouts, the fewest for a call, target or filter state of one to survive into the next; two confirmation frames, so that a left-over frame could matter |
| `stop_before_completed_status` | violation: `task_completed=1` is visible before STOP | one rollout |
| `gripper_filter` | confirmation, dwell, contact hold, no starvation | deployed times in seconds (dwell 2, hold 3), three frames, one reset |
| `rollout_monitor` | exit code 0 only for a completed rollout; a closed gate is noticed | two rollouts, so that a message of the first can be read in the second; queue depth 1 drops messages. `GripperIdle` bounds out the gripper, which the monitor does not see |
| `completed_as_closed_gate` | violation: exit code 23 for a completed rollout | one rollout |
| `action_queue` | stale actions, order of steps, preload report, refill | chunks of two, three executed steps, two scenes |
| `recorder` | counters add up, rows find their frames while none is dropped, shutdown ends | two sinks with room for two of three frames |
| `dropped_frames` | violation: rows point to the wrong frame after a drop | room for one of three frames |
| `recorder_failure` | violation: a failed chest writer keeps the process alive | one frame |
| `collection_session` | the data set is faithful to labels and modes and only grows; rounds start ready; the trap leaves nothing behind; the script never hangs unseen | two attempts (a mode changes once; one episode is saved after another), paired or not, a capture left by an earlier session finalized by hand beside it, and one fault at any line: a failed command, a signal, a killed finalizer, a second launcher, a stopped robot, a recorder that ends by itself or whose writer fails. What needs two faults is out of these bounds; the theorems on this module do not have them |
| `stale_scene` | violation: a paired round starts with actions of the scene before the reset | no fault needed |
| `algorithms` | the programs of one thread against their reference definitions | detector: four poses (home, band, departed), four observations (departure, grasp, release and return need four), with and without stability time. Guard: a turn of 12, angles on more than two turns, envelopes everywhere on the circle. Rows and manifest: captures of two to four samples at any of six times, one or two observations, a chunk of any time. Splits: up to six episodes, all fractions of five. Training: three epochs, losses 0..2 and NaN, an ensemble of two. Probe: one episode of three steps, snapshots at two steps, prefixes and tails of two, chunks of three, so that a queue outlives a branch |

`CHECK_DEADLOCK FALSE` is used where the system stops: the adapter after
`disconnect`, the recorder after its exit, the session after its trap, and the
algorithms after their last step.

Fairness.

* `ActionGate`: a callback that has begun is finished and the control loop goes
  on (`WF`); which callbacks arrive is left open. `RolloutMonitor` adds that the
  status timer is served again and again between other callbacks (`SF` on its
  first half, because the executor may be busy each time it is due) and that the
  monitor spins.
* `GripperFilter`: actions keep coming and the clock does not stop.
* `ActionQueue`: every thread goes on; `SF` on a successful observation and a
  successful send, which stand for feedback that becomes fresh again and a
  connection that comes back. `SlowInference` is a timing assumption: a
  prediction (1.5 s, `async_client.py` 70) takes longer than the control loop
  needs to clear `must_go` after sending. Without it `QueueIsRefilled` and
  `PreloadIsReported` are false: the event set for the new chunk would be
  cleared and no observation would be mandatory again.
  `Settled` is the session's `sleep 3` before the reset ("Let any in-flight
  inference finish").
* `EpisodeRecorder`: the writer threads and the close go on.
* `CollectionSession`: the trap and the finalizer processes are programs without
  a prompt and go on. Nobody has to answer a prompt, to end a round or to run a
  command: `ScriptNeverHangs` starts when a label was given or the trap began.

## 4. Findings

Each is a violation run with one property, which quotes the line it is about.

1. `task_completed=1` can be published before the STOP of the completion,
   contrary to `tools/run_smolvla_orin.sh` 287-288. Harmless as long as nobody
   acts on the status alone, but the launcher does.
2. `_publish_status` mixes two moments; a completed rollout can be reported as
   `policy_gate_closed_without_completion`. Reading `_action_enabled` inside the
   critical section would exclude it.
3. A dropped frame shifts the video against the indices in the rows, and the
   feature extraction decodes by position.
4. A failed chest writer leaves the wrist sink open; the recorder never exits
   and the session's cleanup waits for it, before it stops the robot stack.
5. A paired round is announced as "starting after the confirmed scene reset",
   but its client was started, and holds a whole chunk, before the operator is
   asked to reset the scene; nothing asks for another chunk while the gate is
   closed. The unpaired path empties the queue after the reset.

Also met, and without a run of their own.

The adapter and its client:

* `send_action` publishes one joint target and one gripper command at most after
  the gate was closed and STOP was sent (`AtMostOneLateCommand` is the bound;
  the log text of `armstrongros2.py` 359-360 says "stopped together").
* `set_enabled(true)` keeps the last joint target, so the first resend of a
  rollout may repeat one of the rollout before (`OwnTargetReplacesOld` says when
  that ends).
* The detector returns to the configured home pose, not to the "captured" pose
  of its docstring (`smolvla_guard.py` 219-220), and counts a gripper that was
  closed all along as a grasp once the arm has departed (line 318), which only
  `require_open_gripper_at_start` excludes.
* A time step of a chunk may be executed twice when actions are popped while the
  chunk is being merged, but none is skipped (`NoStepSkipped`).
* The telemetry server keeps the last normalized chunk in an attribute that the
  threads of the gRPC server share.

The recorder:

* A row mixes the raw, the guarded and the executed action of different steps.
* The latched chunks of the episode before reach the next recorder; their
  missing frame index and `max_transition_gap_seconds` keep them out of the
  samples.

The session and the stack:

* After Ctrl+C or end of input at the label prompt, or a failed validation of a
  capture under review, the cleanup deletes the capture.
* The EXIT trap is set (205) before the launcher looks for a running one (344):
  a second launcher that is refused stops the stack, client and server of the
  first.
* An `END` of the operator that meets the monitor's own ending replaces the
  monitor's safety code: the round counts as normal.
* The recorder is looked at once, a second after its start (280); MOVE is asked
  for (510) and the policy enabled (520) without another look. A recorder that a
  callback's exception or a kill has ended by then leaves a round in which the
  robot moves unrecorded (`RecorderEnds`); an S or F for it is refused by the finalizer
  and ends the session. So `RoundStartsReady` does not speak of the recorder;
  what holds is `NotedModeWasServed`.
* A second Ctrl+C ends the trap where it stands; until the recorder has ended
  (up to 25 s) and the staging was deleted the trap has not stopped the arm.
  "Motion is stopped" is printed although the stop is best effort.
* The initial mode is not checked against a target that is already complete.
* `start`'s `if ! { ... }` does not see dead nodes or missing services inside
  the braces.
* Index and manifest: the index of a deleted last episode is given again (the
  docstring 111-117 speaks of gaps only), while
  `extract_smolvla_visual_features.py` 190 keeps feature files that exist; after
  a crash between rename and manifest, the manifest lags until the next
  finalizer.

The algorithms:

* The probe's `prefix_steps_executed` is computed after the padding and is
  always the full prefix; a group's name lacks seed and run, so several probe
  files would merge groups (the repository's scripts give it one).
* The mixed critic falls back to training on validation groups when none is
  left, while `val_cf_indices` still uses them.
* A first validation loss of NaN freezes the selection of two training scripts;
  an IQL member that only sees NaN saves no weights. The IQL quota of validation
  episodes rounds per outcome.
* A capture that the finalizer accepts may yield no sample, and then the build
  of the whole manifest fails. A sample's next picture is of its end row, its
  next state of one row later.

## 5. Proofs

Every theorem is about the specification a run checks, for all values of its
constants under the named assumptions of its module. Eight modules hold them.

`ActionGateProofs` (any number of rollouts and confirmation frames:
`FramesAssumption`, `MaxRolloutsAssumption`).

| Theorem | Statement |
|---|---|
| `TypeCorrect` | `Spec => []TypeOK` |
| `ArmGateFirst` | `Spec => []GateNeedsArmMotion` |
| `CompletionIsFinal` | `Spec => []CompletionKeepsGateClosed` |
| `LateCommandsBounded` | `Spec => []AtMostOneLateCommand` |
| `NoStopForgotten` | `Spec => []MissingStopIsUnderWay` |
| `OldTargetIsReplaced` | `Spec => []OwnTargetReplacesOld` |
| `FilterAgreesWithGripper` | `Spec => []FilterKnowsLastCommand` |
| `GateImplementsPublisher` | `Spec => ImplementsGatedPublisher` |

`TypeOK`, `GateNeedsArmMotion` and `MissingStopIsUnderWay` are inductive. The
others need what the threads carry between their steps: `CompletionInvariant` (a
status callback that has read a completion sees a closed gate until it ends,
because the service that opens the gate runs on the same thread),
`LateInvariant` (a call inside `send_action` or the resend has passed the gate
before anything was published late), `TargetInvariant` (there is one control
loop, so a late call of an old rollout is over before the first of the new one)
and `FilterInvariant` (a closing that interrupts `send_action` is followed by a
reset of the filter before the next rollout). Each is proved with one lemma for
a step (`ArmStep`, `LateStep`, ...), one case per action.

Its second part is about `RolloutMonitor` (and any queue depth and conditions:
`DepthAssumption`).
`MonitoredGateIsGate` shows that the adapter beside a monitor is the adapter, so
that all of the above holds in the composition. `CompletionReportsAreTrue` is
`MonitorSpec => []ReportedCompletionHappened`; the status knows no rollout
number, so `MonitorInv` follows a completion from the detector's result through
the reading of the status timer and the monitor's queue into its verdict.

`GripperFilterProofs` (any frames, dwell, hold: `FramesAssumption`,
`TimesAssumption`): `CommandsAreConfirmed`, `DwellBetweenCommands`,
`HoldBeforeOpening`, each `Spec =>` the action property of the run. The code
keeps a candidate, a count and two times where the properties look at
histories; `FilterInv` says that the count is the length of a run of equal
outputs and that the times are the times that passed.

`GuardProofs`, on the detector (any poses, thresholds and number of observations:
`PosesAssumption`, `ConfigAssumption`): `CompletionIsExact` is
`Spec => []CompletedExactlyAtCycleEnd`. `Reference` says what each flag of the
detector remembers of the whole history and since when it has been stable;
without it the flags say nothing about what was observed.

`EpisodeRecorderProofs` (any room in the queues, any number of frames:
`CapacityAssumption`): `CountersAddUp` and `FramesAreFound`. `RecorderInv`
follows one camera's frames through its queue: no frame is lost between the
counters (`Accounted`), the end mark is behind all of them (`MarkIsLast`), and
without a drop they are in order (`InOrder`).

`ActionQueueProofs` (any size of a chunk, any number of steps and episodes:
`QueueAssumption`): `QueueIsTyped`, `ScenesStayApart`, `StepsFollow`.
`QueueInv` follows a step number and a scene on their way from an observation
over the server, the chunk and the merge into the queue and the control loop:
nothing on the way is ahead of the executed trajectory (`NotAhead`), and once
the queue was reset everything on the way is of the present scene (`OneScene`).
Both need to know who may hold an observation or a merged chunk (`Places`).

`CollectionSessionProofs` (any attempts, faults, captures and finalizer
processes: `FinalizerAssumption`, `SessionAssumption`):
`CatalogueStaysFaithful` (`Spec => []CatalogueIsFaithful`) and
`EpisodesAreAppended` (`Spec => EpisodesOnlyAppended`). `SessionInv` has the
finalizers' half, `StoreInv` (who holds the lock, that two finalizers never work
on one capture, that whoever may rename has an index above all on disk, what the
labels and listings written so far are), and `Owners`, that the session leaves
alone a capture a finalizer works on. That an index above all others exists
(`GreatestExists`) rests on the well-foundedness of the naturals.

Its third part proves `OperatorsLabelsAreKept` (`Spec => []LabelsAreKept`) and
`ModeInvariant`. `LabelInv` follows one label: none before the prompt (`InTurn`),
in the finalizer's hands while it works (`Underway`), in the data set and counted
afterwards unless the session is ending with an error or a signal (`Counts`).
`ModeInv` follows a mode from the server process over the port to the client and
the notes.

`GuardProofs`, on the guard (any integer angles and any configuration the code accepts
whose envelopes are narrower than a turn by twice the limits, `WellFormed` and
`Narrow`; `GuardAssumption`): `EveryMoveIsShort`, `DecidedOnTheCircle`,
`StartIsJudgedOnTheCircle`, for every angle and for all joints at once. `Narrow`
holds of the deployed configuration; without it the nearest equivalent of an
angle need not be the one in reach. `CasesOnTheCircle` is
`MCSpec => []GuardDecidesOnTheCircle`: it instantiates the three for the
configurations and angles of the run. (The other kinds of cases do not matter to
it, `OtherKinds`.)

`SessionRobotProofs` (any attempts, faults, captures: `FinalizerAssumption`,
`SessionAssumption`), in four parts.

* `RoundsStartReady` is `Spec => RoundStartsReady`. `RobotInv` says at each line
  of the script what it has made of the robot by then: the gate is open only for
  a client that is alive, on an arm that may move (`Gate`); from the line that
  enables the gripper to the next round the gate is closed and the gripper
  stays enabled as long as the client lives (`Readied`); within one mode the
  round that is about to start knows its scene (`Staged`). The property alone relates one step to facts which were established up to nine lines before,
  some of them by commands that may stop anywhere. What a command of the stack
  can leave behind is a fold over its calls; a lemma per command says what every
  outcome keeps.
* `NothingIsLeft` is `Spec => []NothingSurvives`. `Stopped` (in `RobotInv`) says
  what each line of the trap has stopped; `Cleared`, that the only capture on
  disk is the current one and that whoever has finished with it has removed it.
* `TypesAreKept` is `Spec => []TypeOK`. Not inductive alone: that a listing has
  at most as many entries as there are captures needs that an index names a
  capture and that no capture is moved twice (`StoreTyped`).
* `NotedModesWereServed` is `Spec => []NotedModeWasServed`. By `ModeInv` the
  noted mode is the served one if a recorder was at work when the round began;
  `Witnessed` adds that nothing else is ever accepted: a directory whose round
  began without one never becomes usable, so no finalizer takes it.

`LearningProofs`.

* `CheckpointsAreBest` is `TrainingSpec => []SelectedWeightsMatch` (any epochs,
  losses and members: `TrainingAssumption`). `TrainingInv` relates the copy of
  the weights to the history while it grows: in the IQL script to the first of
  the least losses that are numbers (`KeptByLoss`), in the others to what
  Python's `min` selects from all of them, NaN included (`KeptByMin`).
* `LinesStayApart` and `PairsAreSound` are `ProbeSpec => []BranchesStartAlike`
  and `ProbeSpec => []RankingPairsAreSound` (any lengths of an episode, a prefix,
  a tail and a chunk: `ProbeAssumption`). `ProbeInv` follows a policy's queue:
  what is left in it was predicted by the line that will execute it, on its own
  continuation of the snapshot (`InPrefix`, `InTail`), and a restored main line
  finds its queue empty (`Restored`). The property sees an action when it is
  executed and cannot tell what waits.
* `SamplesAreSpans` and `AcceptedCapturesAlign` hold of every table of an
  episode in the order of its times, with any observations and chunks;
  `SamplesMatch`, `MCSpec => []SamplesMatchRows`, instantiates them
  (`RowsAssumption`, `ManifestAssumption`).
* `ReturnsAreTargets`, `RetrievalKeepsTarget` and `WindowsHaveReturns` hold of
  any discount, of any rewards around an episode and of any place it has in the
  table of all episodes, as long as it has at most `MaxSamples` + 1 rows: the
  return that is computed backwards from the last row is the target that is
  computed from the distance to the success; the nearest neighbour of a state no
  other row has is its own row; a window starts in its episode and is given the
  return at its start. `TargetsAreReturns`, `MCSpec => []TargetsAgree`,
  instantiates them. The steps on the way: a power is the one before times its
  base (`PowerIsPower`), a return is worth the discount of the distance
  (`ReturnIsWorth`), so is a target (`TargetIsWorth`), and no step of the
  division rounds (`DiscountOnceMore`).
* `WindowsStayTogether`, `PairsStay` and `OutcomesAreStratified` hold of any
  number of windows, pairs and episodes, the last with one or two outcomes, as
  labelled. That last one includes that no episode is held out by every seed, not
  even the only one of its outcome: a share never takes all of an outcome
  (`QuotaSparesOne`), and what fills the set up may be any other episode.
  `SplitsAreSound`, `MCSpec => []SplitsKeepEpisodesApart`,
  instantiates them.

The folds of the community modules have no theorems, and an induction theorem
takes an operator. What is needed of a fold is shown by least counterexample
(`LeastExists`, from the well-foundedness of the naturals): the fold's recursive
function exists, because the least length at which it could not be continued has
a continuation, and it has the property, because the least argument without it
follows one with it.

Some definitions are written the way they are because of the proofs: the arms of
`After` in `RobotStack` exclude each other, `MixedPairs` binds a pair instead of
two variables, `StratifiedValidation` chooses the order of the outcomes instead of
sorting them, `Power` multiplies, and the inputs of `MCAlgorithms` that depend on an order are
functions on `1..n`. TLC finds the same states as before.

Every safety invariant and every action property of the passing runs is stated
by a theorem. Only model-checked is liveness, which is out of the prover's reach:
`ClosingIsAnswered`, `ClosingIsNeverStarved`, `OpeningIsOnlyDelayed`,
`ClosedGateIsNoticed`, `PreloadIsReported`, `QueueIsRefilled`,
`StopEndsRecorder`, `ScriptNeverHangs`.

## 6. Not modelled

* The QGF guidance, the critics' networks and the composite reward: arithmetic
  on real tensors, which TLC cannot evaluate. What surrounds them (targets,
  splits, selection, join) is modelled.
* Inference in the policy servers: the queueing the client relies on is the
  external part of `ActionQueue`; telemetry is written per request.
* Camera decoding, ages of the feedback and their limits: a failing check is a
  call that may fail.
* The content of the recorder's rows beyond the frame indices.
* The single-rollout launchers: older attended scripts with the components of
  the session and no data set.
* The simulated rollout and evaluation scripts, the diagnostics and the
  packaging: sequential, with nothing beside them.
* The servo controller is external; only its configuration is here.
* The nodes of the robot stack are started and stopped together, and its
  preflight is one outcome.
* The session's statistics and provenance snapshots.

What a continuation would do first: the feature files of the visual critic, and
the times of the recorder's rows beside those of the gate.
