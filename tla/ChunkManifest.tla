---------------------------- MODULE ChunkManifest ----------------------------
(***************************************************************************)
(* build_real_robot_visual_iql_manifest.py joins three streams of an       *)
(* episode by time: the action chunks of the policy, the observations they *)
(* were predicted from, and the rows of the executed episode; the result   *)
(* is a sample per chunk, which train_real_robot_visual_iql.py reads.      *)
(* Times are integers; the rows are in the order of their times.           *)
(***************************************************************************)
EXTENDS EpisodeRows

CONSTANTS
  Horizon,   \* time that one chunk covers
  MaxGap     \* max_transition_gap_seconds

ASSUME ManifestAssumption == Horizon \in Nat /\ MaxGap \in Nat

Skip(reason) == [sample |-> FALSE, reason |-> reason]

\* Fault: the row before is never considered.
Bug_NearestRow(rows, time) ==
  LET pos == Cardinality({i \in DOMAIN rows : rows[i].time < time}) + 1
  IN IF pos > Len(rows) THEN Len(rows) ELSE pos

(* _nearest_index: the row before searchsorted's place or the one at it; min()
   keeps the first of two that are equally near. *)
NearestRow(rows, time) ==
  LET pos == Cardinality({i \in DOMAIN rows : rows[i].time < time}) + 1
      near == {pos - 1, pos} \intersect DOMAIN rows
  IN CHOOSE i \in near : \A k \in near :
       \/ Apart(rows[i].time, time) < Apart(rows[k].time, time)
       \/ Apart(rows[i].time, time) = Apart(rows[k].time, time) /\ i <= k

(* _choose_observation: observations are a sequence in the order they were
   recorded, and the first of the nearest is taken; 0 if there is none. *)
ChooseObservation(observations, chunk) ==
  LET rows == {i \in DOMAIN observations :
                 /\ observations[i].timestep = chunk.timestep
                 /\ observations[i].chest /\ observations[i].wrist}
      Gap(i) == Apart(observations[i].time, chunk.time)
  IN IF rows = {} THEN 0
     ELSE CHOOSE i \in rows : \A k \in rows :
            Gap(i) < Gap(k) \/ (Gap(i) = Gap(k) /\ i <= k)

(* Where the span of a chunk ends: the row nearest to its horizon, the last row
   if the horizon is not before it, and never beyond a row that is done. *)
SpanEnd(rows, start, time) ==
  LET target == time + Horizon
      end == IF target >= rows[Len(rows)].time THEN Len(rows)
                                               ELSE NearestRow(rows, target)
      over == {i \in start..end : rows[i].done}
  IN IF over = {} THEN end ELSE CHOOSE i \in over : \A k \in over : i <= k

(* The body of _load_episode_samples for one chunk. *)
AlignChunk(rows, observations, chunk) ==
  LET o == ChooseObservation(observations, chunk)
      time == observations[o].time
      start == NearestRow(rows, time)
      end == SpanEnd(rows, start, time)
      Some(flag(_)) == \E i \in start..end : flag(rows[i])
  IN IF ~chunk.shaped THEN Skip("invalid_action_chunk_shape")
     ELSE IF o = 0 THEN Skip("missing_aligned_policy_observation")
     ELSE IF Apart(rows[start].time, time) > MaxGap
          THEN Skip("start_transition_too_far")
     ELSE IF end < start THEN Skip("invalid_transition_order")
     ELSE [sample |-> TRUE, observation |-> o, start |-> start, end |-> end,
           state |-> observations[o].state, nextState |-> rows[end].nextState,
           reward |-> MapThenSumSet(LAMBDA i : rows[i].reward, start..end),
           success |-> Some(LAMBDA r : r.success),
           done |-> Some(LAMBDA r : r.done),
           terminated |-> Some(LAMBDA r : r.terminated),
           truncated |-> Some(LAMBDA r : r.truncated),
           nextVisual |-> rows[end].camera]

\* main() gives up on the whole dataset if an episode yields no sample
EpisodeIssue(rows, observations, chunks) ==
  \A c \in chunks : ~AlignChunk(rows, observations, c).sample

(* _join_episodes: what training makes of a sample's flags. *)
Joined(s) ==
  [done |-> s.done \/ s.terminated \/ s.truncated \/ s.success,
   reward |-> IF s.success /\ s.reward < One THEN One ELSE s.reward]
-----------------------------------------------------------------------------
(* What a sample has to be, said of the rows it stands for. *)

NoRowNearer(rows, i, time) ==
  \A k \in DOMAIN rows :
    Apart(rows[i].time, time) <= Apart(rows[k].time, time)

(* A sample starts at the row nearest to its own, nearest observation, spans the
   rows up to the one nearest to its horizon or the end of the episode, and is
   terminal, and rewarded, exactly if it spans the last row (of a success). *)
SampleIsItsSpan(rows, observations, chunk, success) ==
  LET s == AlignChunk(rows, observations, chunk)
      o == observations[s.observation]
      final == s.end = Len(rows)
  IN s.sample =>
       /\ o.timestep = chunk.timestep /\ o.chest /\ o.wrist
       /\ \A k \in DOMAIN observations :
            observations[k].timestep = chunk.timestep
              /\ observations[k].chest /\ observations[k].wrist
            => Apart(o.time, chunk.time) <= Apart(observations[k].time, chunk.time)
       /\ NoRowNearer(rows, s.start, o.time)
       /\ Apart(rows[s.start].time, o.time) <= MaxGap
       /\ s.start <= s.end
       /\ NoRowNearer(rows, s.end, o.time + Horizon)
       /\ Joined(s) = [done |-> final, reward |-> IF final /\ success THEN One ELSE 0]

(* The spans of a table never run backwards, so no chunk is lost to it; and a
   capture that validate_capture let through makes the manifest fail only if a
   chunk is lost to its shape or to the distance of the rows. *)
NoChunkIsLost(rows, observations, chunk) ==
  AlignChunk(rows, observations, chunk).sample
    \/ AlignChunk(rows, observations, chunk).reason # "invalid_transition_order"

AcceptedCaptureAligns(capture, rows, observations, chunks) ==
  ValidCapture(capture) /\ EpisodeIssue(rows, observations, chunks) =>
    \E c \in chunks :
      AlignChunk(rows, observations, c).reason
        \in {"invalid_action_chunk_shape", "start_transition_too_far"}
=============================================================================
