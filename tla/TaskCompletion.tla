--------------------------- MODULE TaskCompletion ----------------------------
(***************************************************************************)
(* TaskCompletionDetector (smolvla_guard.py) as the adapter uses it: reset *)
(* by set_enabled(true), updated by every observation while the gate is    *)
(* open, deactivated when the gate is closed by a service call.            *)
(*                                                                         *)
(* The seven joints are one coordinate: both of the detector's tests are   *)
(* on the joint that is farthest from the reference pose (max >= departure *)
(* and all <= tolerance).  `history` is the sequence of the observations   *)
(* the detector was given since its last reset; the code does not keep it. *)
(***************************************************************************)
EXTENDS Integers, Sequences

CONSTANTS
  Poses,          \* joint positions, integers
  HomePose,       \* completion_home_joints
  Departure,      \* departure_threshold_rad
  Return,         \* return_tolerance_rad
  StableTimes,    \* values of stable_duration_seconds
  MinEpisode,     \* minimum_episode_seconds
  MaxSpeed,       \* maximum_stable_speed_rad_s
  MaxTime,        \* bound: the clock of a behaviour
  MaxUpdates      \* bound: observations of one rollout

ASSUME PosesAssumption ==
  Poses \subseteq Int /\ HomePose \in Poses
\* TaskCompletionConfig.__post_init__
ASSUME ConfigAssumption ==
  /\ Departure \in Nat /\ Return \in Nat \ {0} /\ Departure > Return
  /\ StableTimes \subseteq Nat
  /\ MinEpisode \in Nat \ {0}
  /\ MaxSpeed \in Nat \ {0}
  /\ MaxTime \in Nat /\ MaxUpdates \in Nat

VARIABLES
  stable,         \* stable_duration_seconds, chosen once
  active, completed, departed, sawClose, sawRelease,
  origin,         \* the detector's initial_joints
  previous,       \* previous_joints
  previousTime,   \* time.monotonic() at the last update, see below
  stableSince,    \* return_stable_since, Never for None
  history         \* history: observations since the reset

flags == <<active, completed, departed, sawClose, sawRelease>>
timing == <<origin, previous, previousTime, stableSince>>
vars == <<stable, flags, timing, history>>

Never == -1
Distance(p, q) == IF p > q THEN p - q ELSE q - p
Time == 0 .. MaxTime
Observation == [pose : Poses, closed : BOOLEAN, at : Time]

TypeOK ==
  /\ \A flag \in {active, completed, departed, sawClose, sawRelease} :
       flag \in BOOLEAN
  /\ origin \in Poses /\ previous \in Poses
  /\ previousTime \in Time
  /\ stableSince \in {Never} \cup 0 .. previousTime
  /\ active => ~completed
  /\ stable \in StableTimes
  /\ history \in Seq(Observation) /\ Len(history) <= MaxUpdates
------------------------------------------------------------------------------
(* The detector uses differences of times of one rollout only, so the      *)
(* clock is counted from the reset: startedTime is 0.                      *)
Init ==
  /\ stable \in StableTimes
  /\ active = FALSE /\ completed = FALSE
  /\ departed = FALSE /\ sawClose = FALSE /\ sawRelease = FALSE
  /\ origin = HomePose /\ previous = HomePose
  /\ previousTime = 0 /\ stableSince = Never
  /\ history = << >>

\* set_enabled(true): the reference pose is the configured home, not the
\* pose the rollout starts from, and the gripper may be closed already.
Reset ==
  /\ active' = TRUE /\ completed' = FALSE
  /\ departed' = FALSE /\ sawClose' = FALSE /\ sawRelease' = FALSE
  /\ origin' = HomePose /\ previous' = HomePose
  /\ previousTime' = 0 /\ stableSince' = Never
  /\ history' = << >>

Deactivate ==
  /\ active' = FALSE /\ stableSince' = Never
  /\ UNCHANGED <<completed, departed, sawClose, sawRelease, origin, previous,
                 previousTime, history>>

\* maximum_speed <= maximum_stable_speed_rad_s; two updates at the same
\* instant have speed zero.
Slow(o) == \/ o.at = previousTime
           \/ Distance(o.pose, previous) <= MaxSpeed * (o.at - previousTime)

\* Fault: the minimum episode length is forgotten.
Bug_Eligible(o) ==
  /\ departed' /\ sawClose' /\ sawRelease' /\ ~o.closed
  /\ Distance(o.pose, origin) <= Return
  /\ stable = 0 \/ Slow(o)

Eligible(o) ==
  /\ departed' /\ sawClose' /\ sawRelease' /\ ~o.closed
  /\ o.at >= MinEpisode
  /\ Distance(o.pose, origin) <= Return
  /\ stable = 0 \/ Slow(o)

StableSince(o) == IF ~Eligible(o) THEN Never
                  ELSE IF stableSince = Never THEN o.at ELSE stableSince

Finished(o) == Eligible(o) /\ o.at - stableSince' >= stable

Update(o) ==
  /\ active
  /\ Len(history) < MaxUpdates
  /\ departed' = (departed \/ Distance(o.pose, origin) >= Departure)
  /\ sawClose' = (sawClose \/ (departed' /\ o.closed))
  /\ sawRelease' = (sawRelease \/ (sawClose' /\ ~o.closed))
  /\ stableSince' = StableSince(o)
  /\ completed' = (completed \/ Finished(o))
  /\ active' = ~Finished(o)
  /\ previous' = o.pose /\ previousTime' = o.at
  /\ history' = Append(history, o)
  /\ UNCHANGED origin

\* Any pose, gripper state and later time may be observed next.
Observe == \E o \in Observation : o.at >= previousTime /\ Update(o)

Next == (Reset \/ Deactivate \/ Observe) /\ UNCHANGED stable

Spec == Init /\ [][Next]_vars
------------------------------------------------------------------------------
(* The reference definition of a completed rollout, on the observations.   *)
Away(i) == Distance(history[i].pose, HomePose) >= Departure
Home(i) == Distance(history[i].pose, HomePose) <= Return
Cycle(n) == \E i, j, k \in 1 .. n :
  i <= j /\ j < k /\ Away(i) /\ history[j].closed /\ ~history[k].closed
SlowAt(i) ==
  LET before == IF i = 1 THEN [pose |-> HomePose, at |-> 0]
                ELSE [pose |-> history[i-1].pose, at |-> history[i-1].at]
  IN  \/ history[i].at = before.at
      \/ Distance(history[i].pose, before.pose)
           <= MaxSpeed * (history[i].at - before.at)
Settled(i) ==
  /\ Cycle(i)
  /\ ~history[i].closed /\ Home(i)
  /\ history[i].at >= MinEpisode
  /\ stable = 0 \/ SlowAt(i)
Done(n) == \E m \in 1 .. n : /\ \A i \in m .. n : Settled(i)
                             /\ history[n].at - history[m].at >= stable

(* The rollout is declared complete at exactly the first observation that  *)
(* ends a departure, a grasp, a release and a (stable) return, in that     *)
(* order and after the minimum time: never earlier, and never later while  *)
(* observations keep coming.                                               *)
CompletedExactlyAtCycleEnd ==
  /\ completed <=> \E n \in 1 .. Len(history) : Done(n)
  /\ completed => ~ \E n \in 1 .. Len(history) - 1 : Done(n)
==============================================================================
