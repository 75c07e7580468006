----------------------------- MODULE EpisodeRows -----------------------------
(***************************************************************************)
(* From a capture to the regression targets of a critic: the finalizer's   *)
(* validate_capture and build_transitions, and the training side's         *)
(* returns.py and critic_dataset.py.  An episode is a sequence of rows.    *)
(* The discount is the rational GammaNum/GammaDen, and values are integers *)
(* in units of 1/One, exact for every distance an episode has.             *)
(***************************************************************************)
EXTENDS Integers, Sequences, SequencesExt

CONSTANTS
  GammaNum, GammaDen,  \* gamma
  MaxSamples,          \* bound on the samples of a capture
  SuccessWeight, ProgressWeight

ASSUME RowsAssumption ==
  /\ GammaNum \in Nat /\ GammaDen \in Nat \ {0} /\ GammaNum <= GammaDen
  /\ MaxSamples \in Nat /\ MaxSamples >= 2
  /\ SuccessWeight \in Nat /\ ProgressWeight \in Nat
  /\ SuccessWeight + ProgressWeight > 0

\* gamma ** distance, by multiplication; 0 ** 0 is 1, as in Python
Power(base) ==
  LET power[n \in 0..MaxSamples] == IF n = 0 THEN 1 ELSE base * power[n - 1]
  IN power
Discount(d) == Power(GammaNum)[d] * Power(GammaDen)[MaxSamples - d]
One == Power(GammaDen)[MaxSamples]

Usable(observations) ==
  {o.timestep : o \in {p \in observations : p.chest /\ p.wrist}}

(* validate_capture; the files it opens are there. *)
ValidCapture(capture) ==
  /\ capture.gate
  /\ Len(capture.samples) >= 2
  /\ capture.chunks # {} /\ capture.observations # {}
  /\ {c.timestep : c \in capture.chunks} \intersect Usable(capture.observations) # {}
  /\ capture.videos

\* Fault: every row of a success is marked as one.
Bug_Row(samples, success, i) ==
  LET terminal == i = Len(samples) - 1
  IN [time |-> samples[i].time, state |-> samples[i].state,
      nextState |-> samples[i + 1].state,
      reward |-> IF success /\ terminal THEN One ELSE 0,
      success |-> success,
      terminated |-> success /\ terminal, truncated |-> ~success /\ terminal,
      done |-> terminal, camera |-> samples[i].camera]

(* One transition of build_transitions, from sample i to the next. *)
Row(samples, success, i) ==
  LET terminal == i = Len(samples) - 1
  IN [time |-> samples[i].time, state |-> samples[i].state,
      nextState |-> samples[i + 1].state,
      reward |-> IF success /\ terminal THEN One ELSE 0,
      success |-> success /\ terminal,
      terminated |-> success /\ terminal, truncated |-> ~success /\ terminal,
      done |-> terminal, camera |-> samples[i].camera]

BuildTransitions(samples, success) ==
  [i \in 1..Len(samples) - 1 |-> Row(samples, success, i)]

Successes(rows) == [i \in DOMAIN rows |-> rows[i].success]

(* success_to_go_targets: the distance to the next success, and 1 from the first
   success on. *)
SuccessToGo(successes) ==
  LET hits == {i \in DOMAIN successes : successes[i]}
      Ahead(t) == {i \in hits : i >= t}
      First(S) == CHOOSE i \in S : \A k \in S : i <= k
  IN [t \in DOMAIN successes |->
        IF hits = {} THEN 0
        ELSE IF t >= First(hits) THEN One
        ELSE Discount(First(Ahead(t)) - t)]

(* discounted_returns: from the last row to the first. *)
DiscountedReturns(rows) ==
  FoldRight(LAMBDA row, later :
              <<row.reward + IF row.done \/ later = <<>> THEN 0
                             ELSE (GammaNum * Head(later)) \div GammaDen>> \o later,
            rows, <<>>)

(* The numerical distance of two states decides who is near: with one feature
   the normalisation by mean and deviation keeps the order. *)
Apart(s, t) == IF s < t THEN t - s ELSE s - t

\* topk(largest=False): ties may go either way
NearestSets(state, bank, k) ==
  LET n == IF k < Cardinality(bank) THEN k ELSE Cardinality(bank)
  IN {S \in kSubset(n, bank) :
        \A near \in S : \A far \in bank \ S :
          Apart(state, near.state) <= Apart(state, far.state)}

(* The rows of the successful episodes of a task, with their targets. *)
Bank(episodes, tasks) ==
  UNION {{[episode |-> e, row |-> t, state |-> episodes[e].rows[t].state,
           value |-> SuccessToGo(Successes(episodes[e].rows))[t]]
            : t \in DOMAIN episodes[e].rows}
         : e \in {f \in DOMAIN episodes :
                    /\ episodes[f].task \in tasks
                    /\ \E i \in DOMAIN episodes[f].rows : episodes[f].rows[i].success}}

(* retrieval_progress_targets, for one row: the possible means of the values of
   its k neighbours, as numerator and denominator. *)
RetrievalProgress(episodes, e, t, k) ==
  LET task == Bank(episodes, {episodes[e].task})
      bank == IF task # {} THEN task ELSE Bank(episodes, {f.task : f \in Range(episodes)})
  IN IF bank = {} THEN {<<0, 1>>}
     ELSE {<<MapThenSumSet(LAMBDA n : n.value, S), Cardinality(S)>>
             : S \in NearestSets(episodes[e].rows[t].state, bank, k)}

(* The retrieval_progress_blend, scaled by the weights and the neighbours. *)
Blends(episodes, e, t, k) ==
  {[value |-> SuccessWeight * SuccessToGo(Successes(episodes[e].rows))[t] * p[2]
              + ProgressWeight * p[1],
    unit |-> (SuccessWeight + ProgressWeight) * p[2]]
   : p \in RetrievalProgress(episodes, e, t, k)}

(* build_action_chunk_dataset: the windows of `horizon` actions and the target
   each is given. *)
Windows(episodes, horizon, stride) ==
  UNION {{[episode |-> e, start |-> t,
           target |-> SuccessToGo(Successes(episodes[e].rows))[t]]
            : t \in {u \in 1..Len(episodes[e].rows) - horizon + 1 :
                       (u - 1) % stride = 0}}
         : e \in {f \in DOMAIN episodes : Len(episodes[f].rows) >= horizon}}
=============================================================================
