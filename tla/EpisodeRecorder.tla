--------------------------- MODULE EpisodeRecorder ---------------------------
(***************************************************************************)
(* tools/qgf_episode_recorder.py: one executor thread whose callbacks note *)
(* which frame of each camera a sample belongs to, and one writer thread   *)
(* for each camera (class VideoSink) that turns a bounded FIFO of frames   *)
(* into a JPEG archive and an MP4.  At the stop signal the executor thread *)
(* closes the chest sink, then the wrist sink, then writes the summary.    *)
(*                                                                         *)
(* A frame is its frame_index.  The recorder's other topics only decide    *)
(* whether a sample is complete, which is left open.                       *)
(***************************************************************************)
EXTENDS Integers, Sequences

CONSTANTS
  Capacity,       \* queue_size of a sink
  MaxFrames       \* bound: camera messages of one episode, for each camera

ASSUME CapacityAssumption == Capacity \in Nat \ {0} /\ MaxFrames \in Nat

VARIABLES
  enabled,        \* action_enabled, as the recorder believes
  received,       \* received_frame_count of each camera
  latest,         \* latest_frame_index
  dropped,        \* dropped_frame_count
  queue,          \* _queue
  archive,        \* the frames in the .mjpeg file
  video,          \* the frames in the .mp4 file
  encoded,        \* frame_count
  writer,         \* "none", "open", or "broken" if it could not be opened
  failed,         \* whether _worker_error is set
  worker,         \* "running" or "done"
  main,           \* where the executor thread is
  rows            \* history: frames that samples and observations refer to

Camera == {"chest", "wrist"}
End == -1                               \* the None that ends a worker

executor == <<enabled, received, latest, dropped, rows>>
files    == <<archive, video, encoded, writer, failed>>
vars     == <<executor, queue, files, worker, main>>

Frame == 0 .. MaxFrames - 1
Places == {"spin", "put_chest", "join_chest", "put_wrist", "join_wrist",
           "summary", "done", "raised"}

TypeOK ==
  /\ enabled \in BOOLEAN
  /\ received \in [Camera -> 0 .. MaxFrames]
  /\ dropped \in [Camera -> 0 .. MaxFrames]
  /\ latest = [c \in Camera |-> received[c] - 1]
  /\ queue \in [Camera -> Seq(Frame \cup {End})]
  /\ \A c \in Camera : Len(queue[c]) <= Capacity
  /\ archive \in [Camera -> Seq(Frame)] /\ video \in [Camera -> Seq(Frame)]
  /\ rows \in [Camera -> SUBSET Frame]
  /\ \A c \in Camera : rows[c] \subseteq 0 .. latest[c]
  /\ encoded \in [Camera -> 0 .. MaxFrames]
  /\ writer \in [Camera -> {"none", "open", "broken"}]
  /\ failed \in [Camera -> BOOLEAN]
  /\ worker \in [Camera -> {"running", "done"}]
  /\ main \in Places
------------------------------------------------------------------------------
Each(value) == [c \in Camera |-> value]

Init ==
  /\ enabled = FALSE
  /\ received = Each(0) /\ latest = Each(-1) /\ dropped = Each(0)
  /\ queue = Each(<< >>)
  /\ archive = Each(<< >>) /\ video = Each(<< >>) /\ encoded = Each(0)
  /\ writer = Each("none") /\ failed = Each(FALSE)
  /\ worker = Each("running")
  /\ main = "spin"
  /\ rows = Each({})
------------------------------------------------------------------------------
(* Callbacks of the executor.                                              *)

\* _status_cb, and _raw_action_cb which only ever enables.
NoteGate ==
  /\ main = "spin"
  /\ enabled' \in BOOLEAN
  /\ UNCHANGED <<received, latest, dropped, rows, queue, files, worker, main>>

\* put_nowait: a full queue drops the frame, which keeps its index.
Enqueue(c) ==
  IF Len(queue[c]) < Capacity
  THEN /\ queue' = [queue EXCEPT ![c] = Append(@, received[c])]
       /\ UNCHANGED dropped
  ELSE /\ dropped' = [dropped EXCEPT ![c] = @ + 1]
       /\ UNCHANGED queue

\* _chest_cb, _wrist_cb and VideoSink.enqueue.
CameraCallback(c) ==
  /\ main = "spin" /\ enabled
  /\ received[c] < MaxFrames
  /\ received' = [received EXCEPT ![c] = @ + 1]
  /\ latest' = [latest EXCEPT ![c] = received[c]]
  /\ Enqueue(c)
  /\ UNCHANGED <<enabled, rows, files, worker, main>>

\* _sample and _policy_observation_cb: a row with the latest frames of both
\* cameras; an observation is written whatever the gate, a row without a
\* frame of each camera is not usable later.
WriteRow ==
  /\ main = "spin"
  /\ \A c \in Camera : latest[c] >= 0
  /\ rows' = [c \in Camera |-> rows[c] \cup {latest[c]}]
  /\ UNCHANGED <<enabled, received, latest, dropped, queue, files, worker, main>>
------------------------------------------------------------------------------
(* VideoSink._run and _write, for the frame that leaves the queue.         *)
Take(c) == /\ worker[c] = "running" /\ queue[c] # << >> /\ Head(queue[c]) # End
           /\ queue' = [queue EXCEPT ![c] = Tail(@)]
           /\ UNCHANGED <<executor, worker, main>>

\* The JPEG cannot be decoded: _write raises before it has written anything.
CannotDecode(c) ==
  /\ Take(c)
  /\ failed' = [failed EXCEPT ![c] = TRUE]
  /\ UNCHANGED <<archive, video, encoded, writer>>

\* The video cannot be opened: _write raises after the JPEG was archived, and
\* the writer stays.
CannotOpen(c) ==
  /\ writer[c] = "none"
  /\ Take(c)
  /\ archive' = [archive EXCEPT ![c] = Append(@, Head(queue[c]))]
  /\ writer' = [writer EXCEPT ![c] = "broken"]
  /\ failed' = [failed EXCEPT ![c] = TRUE]
  /\ UNCHANGED <<video, encoded>>

\* Fault: the frame that opens the writer is not written to it.
Bug_WriteFrame(c) ==
  /\ Take(c)
  /\ archive' = [archive EXCEPT ![c] = Append(@, Head(queue[c]))]
  /\ writer' = [writer EXCEPT ![c] = IF @ = "none" THEN "open" ELSE @]
  /\ video' = [video EXCEPT ![c] = IF writer[c] # "open" THEN @
                                   ELSE Append(@, Head(queue[c]))]
  /\ encoded' = [encoded EXCEPT ![c] = @ + 1]
  /\ UNCHANGED failed

\* A writer that could not be opened swallows the frames that follow.
WriteFrame(c) ==
  /\ Take(c)
  /\ archive' = [archive EXCEPT ![c] = Append(@, Head(queue[c]))]
  /\ writer' = [writer EXCEPT ![c] = IF @ = "none" THEN "open" ELSE @]
  /\ video' = [video EXCEPT ![c] = IF writer[c] = "broken" THEN @
                                   ELSE Append(@, Head(queue[c]))]
  /\ encoded' = [encoded EXCEPT ![c] = @ + 1]
  /\ UNCHANGED failed

EndWorker(c) ==
  /\ worker[c] = "running" /\ queue[c] # << >> /\ Head(queue[c]) = End
  /\ queue' = [queue EXCEPT ![c] = Tail(@)]
  /\ worker' = [worker EXCEPT ![c] = "done"]
  /\ UNCHANGED <<executor, files, main>>
------------------------------------------------------------------------------
(* The executor thread after the stop signal: close().                     *)
PutAt    == [chest |-> "put_chest", wrist |-> "put_wrist"]
JoinAt   == [chest |-> "join_chest", wrist |-> "join_wrist"]
After(c) == IF c = "chest" THEN "put_wrist" ELSE "summary"

\* The handler of SIGINT and SIGTERM only sets a flag; a second signal has no
\* effect.
RequestStop ==
  /\ main = "spin" /\ main' = "put_chest"
  /\ UNCHANGED <<executor, queue, files, worker>>

\* Fault: the end mark is dropped like a frame when the queue is full.
Bug_PutEnd(c) ==
  /\ main = PutAt[c] /\ main' = JoinAt[c]
  /\ queue' = IF Len(queue[c]) < Capacity
              THEN [queue EXCEPT ![c] = Append(@, End)] ELSE queue
  /\ UNCHANGED <<executor, files, worker>>

\* VideoSink.close: put(None) waits for room ...
PutEnd(c) ==
  /\ main = PutAt[c] /\ main' = JoinAt[c]
  /\ Len(queue[c]) < Capacity
  /\ queue' = [queue EXCEPT ![c] = Append(@, End)]
  /\ UNCHANGED <<executor, files, worker>>

\* Fault: the sink is closed without waiting for its worker.
Bug_Join(c) ==
  /\ main = JoinAt[c]
  /\ main' = IF failed[c] THEN "raised" ELSE After(c)
  /\ UNCHANGED <<executor, queue, files, worker>>

\* ... and join for the worker; a worker's error is raised, which ends the
\* close() of the recorder with it.
Join(c) ==
  /\ main = JoinAt[c]
  /\ worker[c] = "done"
  /\ main' = IF failed[c] THEN "raised" ELSE After(c)
  /\ UNCHANGED <<executor, queue, files, worker>>

\* capture_summary.json.
WriteSummary ==
  /\ main = "summary" /\ main' = "done"
  /\ UNCHANGED <<executor, queue, files, worker>>

Worker(c) == CannotDecode(c) \/ CannotOpen(c) \/ WriteFrame(c) \/ EndWorker(c)
Close     == (\E c \in Camera : PutEnd(c) \/ Join(c)) \/ WriteSummary

Next ==
  \/ NoteGate \/ WriteRow \/ RequestStop \/ Close
  \/ \E c \in Camera : CameraCallback(c) \/ Worker(c)

\* The workers and the close go on, disk and codec permitting.
Fairness == WF_vars(Close) /\ \A c \in Camera : WF_vars(Worker(c))

Spec == Init /\ [][Next]_vars
FairSpec == Spec /\ Fairness
------------------------------------------------------------------------------
(* Python waits for threads that are not daemons before the process exits. *)
Exited == main \in {"done", "raised"} /\ \A c \in Camera : worker[c] = "done"

(* The summary adds up: each frame a camera delivered was encoded or       *)
(* dropped, and none is still with a writer thread when the counters are   *)
(* read.                                                                   *)
SummaryAddsUp ==
  main = "done" => \A c \in Camera :
    /\ received[c] = encoded[c] + dropped[c]
    /\ Len(archive[c]) = encoded[c]

(* When nothing was dropped, the frame that a row refers to by its index   *)
(* is the frame at that position of the MP4, where the feature extraction  *)
(* looks for it (extract_smolvla_visual_features.py:47).                   *)
RowsFindTheirFrames ==
  main = "done" => \A c \in Camera : dropped[c] = 0 =>
    \A frame \in rows[c] : frame < Len(video[c]) /\ video[c][frame + 1] = frame

(* The stop signal ends the recorder, however full the queues are and      *)
(* whatever the wrist camera's writer met.                                 *)
StopEndsRecorder == main = "put_chest" ~> (Exited \/ failed["chest"])

(* "Asynchronously preserve every ROS JPEG and encode a real-time MP4"     *)
(* (qgf_episode_recorder.py:68): every row of a finished capture finds its *)
(* frame at its index.                                                     *)
EveryFramePreserved ==
  main = "done" => \A c \in Camera :
    \A frame \in rows[c] : frame < Len(video[c]) /\ video[c][frame + 1] = frame

(* "Surface encoder failures at finalization"                              *)
(* (qgf_episode_recorder.py:133): a recorder that is stopped after a       *)
(* writer thread has failed ends, and so reports the failure.              *)
FailuresAreSurfaced ==
  (main = "put_chest" /\ \E c \in Camera : failed[c]) ~> Exited
==============================================================================
