---------------------------- MODULE MCAlgorithms ----------------------------
(* The algorithms that run in one thread, one per behaviour: the completion
   detector, the pure functions on one of their bounded inputs, a training script,
   or the counterfactual probe. *)
EXTENDS TaskCompletion, PolicyGuard, ChunkManifest, EpisodeSplits, CriticTraining,
        CounterfactualProbe, TLC

VARIABLES program, input
mcVars == <<program, input, vars, trainingVars, probeVars>>

-----------------------------------------------------------------------------
(* A line of four poses with home at one end: at home, between the two
   thresholds, departed. *)
MCPoses == 0..3

(* The policy guard: envelopes at every place of the circle, angles on more than
   two turns. *)
MCStepBonus == [num |-> 1, den |-> 2]
Angles == -14..14
MCConfigs ==
  {c \in {[lower |-> [j \in Joints |-> low],
           upper |-> [j \in Joints |-> low + width],
           initialLower |-> [j \in Joints |-> low + 1],
           initialUpper |-> [j \in Joints |-> low + 1 + width],
           error |-> e, joint2Error |-> e + 1,
           initialOvershoot |-> 1, overshoot |-> margin, open |-> 1, close |-> 3]
          : low \in -5..5, width \in 1..4, e \in 1..2, margin \in 0..2}
     : WellFormed(c) /\ Narrow(c)}
GuardCases == [kind : {"guard"}, config : MCConfigs, joint : Joints]

(* One joint is anywhere and the others rest in their envelope: whether an action
   is sent is decided on the circle, in whatever turn the policy and the
   controller count; the step of the arm is short in the coordinates of its
   controller; and the start pose is judged on the circle too. *)
GuardDecidesOnTheCircle ==
  input.kind = "guard" =>
    LET cfg == input.config
        With(angle) == [cfg.lower EXCEPT ![input.joint] = angle]
    IN \A predicted, raw \in Angles :
         LET sent == SendAction(cfg, With(predicted), With(raw), 2, TRUE)
         IN /\ sent # {} <=> AcceptedOnCircle(cfg, input.joint, predicted, raw)
            /\ \A command \in sent : MoveIsShort(cfg, command, With(raw))
            /\ ValidInitialPose(cfg, With(raw), 0, TRUE)
                 <=> \A j \in Joints : StartsOnCircle(cfg, j, With(raw)[j])

-----------------------------------------------------------------------------
(* Captures of two to four samples, recorded at any of six times. *)
Times == 0..5
Increasing(times) == \A i, j \in DOMAIN times : i < j => times[i] < times[j]
TimeSeries ==
  UNION {{t \in [1..n -> Times] : Increasing(t)} : n \in 2..MaxSamples}
Capture(times, camera) ==
  [i \in DOMAIN times |-> [time |-> times[i], state |-> times[i], camera |-> camera]]

Short == [times : {<<0, 1>>, <<0, 1, 2>>, <<1, 2, 3, 5>>}, success : BOOLEAN,
          task : {"t", "u"}]
RowCases ==
  [kind : {"rows"}, episodes : Short \X Short, horizon : 1..3, stride : 1..2]

EpisodeOf(e) == [rows |-> BuildTransitions(Capture(e.times, TRUE), e.success),
                 task |-> e.task]

(* The target of a chunk is the discounted return of the rewards that its
   episode still collects, computed over the table of all episodes; its actions
   are of one episode; and what retrieval adds for a state that only one row of
   the task's successes has is that row's own target. *)
TargetsAgree ==
  input.kind = "rows" =>
    LET episodes == <<EpisodeOf(input.episodes[1]), EpisodeOf(input.episodes[2])>>
        Offset(e) == IF e = 1 THEN 0 ELSE Len(episodes[1].rows)
        returns == DiscountedReturns(episodes[1].rows \o episodes[2].rows)
    IN /\ \A w \in Windows(episodes, input.horizon, input.stride) :
            /\ w.start + input.horizon - 1 \in DOMAIN episodes[w.episode].rows
            /\ w.target = returns[Offset(w.episode) + w.start]
       /\ \A n \in Bank(episodes, {episodes[1].task}) :
            (\A m \in Bank(episodes, {episodes[1].task}) : m.state = n.state => m = n)
            => \A b \in Blends(episodes, n.episode, n.row, 1) :
                 b.value = n.value * b.unit

-----------------------------------------------------------------------------
Observations == [timestep : 0..1, time : {0, 2, 3, 5}, chest : BOOLEAN,
                 wrist : {TRUE}, state : {0}]
ChunkCases ==
  [kind : {"chunk"}, times : TimeSeries, success : BOOLEAN,
   observations : {<<o>> : o \in Observations} \union (Observations \X Observations),
   time : {2, 3}, shaped : BOOLEAN]

SamplesMatchRows ==
  input.kind = "chunk" =>
    LET samples == Capture(input.times, TRUE)
        rows == BuildTransitions(samples, input.success)
        chunk == [timestep |-> 0, time |-> input.time, shaped |-> input.shaped]
        capture == [gate |-> TRUE, samples |-> samples, chunks |-> {chunk},
                    observations |-> ToSet(input.observations), videos |-> TRUE]
    IN /\ SampleIsItsSpan(rows, input.observations, chunk, input.success)
       /\ NoChunkIsLost(rows, input.observations, chunk)
       /\ AcceptedCaptureAligns(capture, rows, input.observations, {chunk})

-----------------------------------------------------------------------------
Fractions == {[num |-> n, den |-> 5] : n \in 0..4}
SplitCases ==
  [kind : {"windows"}, episodeOf : UNION {[1..n -> 1..3] : n \in 1..4},
   fraction : Fractions]
  \union [kind : {"pairs"}, groupOf : [1..4 -> 1..3], fraction : Fractions,
          pairs : SUBSET {<<1, 2>>, <<2, 3>>, <<3, 4>>}]
  \union UNION {[kind : {"outcomes"}, outcomeOf : [1..n -> {"success", "failure"}],
                 valCount : 1..n - 1] : n \in 2..6}

SplitsKeepEpisodesApart ==
  /\ input.kind = "windows" => EpisodesStayApart(input.episodeOf, input.fraction)
  /\ input.kind = "outcomes" => SplitIsStratified(input.outcomeOf, input.valCount)
  /\ input.kind = "pairs" =>
       LET pairs == {[good |-> p[1], bad |-> p[2], group |-> input.groupOf[p[1]]]
                     : p \in {q \in input.pairs : input.groupOf[q[1]] = input.groupOf[q[2]]}}
       IN /\ \A s \in MixedSplits(pairs, input.groupOf, input.fraction) :
               PairsStayApart(pairs, s)
          /\ PairsStayApart(pairs, ProbePairs(pairs,
               SetToSortSeq({input.groupOf[i] : i \in 1..4}, <)))

-----------------------------------------------------------------------------
NoInput == [kind |-> "none"]

MCInit ==
  /\ Init /\ TrainingInit /\ ProbeInit
  /\ \/ program = "function"
        /\ input \in GuardCases \union RowCases \union ChunkCases \union SplitCases
        /\ stable = Min(StableTimes)
     \/ program = "detector" /\ input = NoInput
     \/ /\ program \in {"training", "probe"} /\ input = NoInput
        /\ stable = Min(StableTimes)

MCNext ==
  /\ UNCHANGED <<program, input>>
  /\ \/ program = "detector" /\ Next /\ UNCHANGED <<trainingVars, probeVars>>
     \/ program = "training" /\ TrainingNext /\ UNCHANGED <<vars, probeVars>>
     \/ program = "probe" /\ ProbeNext /\ UNCHANGED <<vars, trainingVars>>

MCSpec == MCInit /\ [][MCNext]_mcVars
=============================================================================
