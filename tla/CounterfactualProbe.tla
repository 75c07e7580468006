------------------------- MODULE CounterfactualProbe -------------------------
(***************************************************************************)
(* counterfactual_probe.py: while a baseline policy drives a simulated     *)
(* episode, the probe takes a snapshot at some steps and tries three       *)
(* branches from it, each with a prefix of its own policy and a tail of    *)
(* the baseline, before the main line goes on.  The simulator and the two  *)
(* policies, with the chunk each has in its queue, are shared by all of    *)
(* them.  The scores of the branches rank their prefixes.                  *)
(*                                                                         *)
(* The simulator is external: its state is the sequence of the lines that  *)
(* made its steps since the last reset, a step reports any outcome, and an *)
(* episode that ends is reset within the step, as the final_info that the  *)
(* probe reads says.                                                       *)
(***************************************************************************)
EXTENDS Integers, Sequences, SequencesExt

CONSTANTS
  MaxSteps,      \* _max_episode_steps
  BranchSteps,   \* --branch-steps
  PrefixSteps, TailMaxSteps,
  ChunkSteps,    \* actions the policy takes from one prediction
  StepBonus      \* --score-step-bonus, [num, den]

ASSUME ProbeAssumption ==
  /\ MaxSteps \in Nat /\ BranchSteps \subseteq Nat
  /\ PrefixSteps \in Nat \ {0} /\ TailMaxSteps \in Nat
  /\ ChunkSteps \in Nat \ {0}
  /\ StepBonus \in [num : Nat \ {0}, den : Nat \ {0}]

VARIABLES
  probe,      \* the loop that is running
  sim,        \* the simulator: the lines of its steps
  seen,       \* the simulation that `observation` shows
  queues,     \* for each policy the simulation its chunk was predicted in, and
              \* what is left of it
  step,       \* step of the main line
  snapshot,   \* the simulation of the snapshot
  branch,     \* number of the branch that runs
  current,    \* current_obs of the branch
  taken, tail,\* steps of its prefix and of its tail
  success, terminated,
  won,        \* history: steps of the branch up to its success
  records,
  last        \* history: the last action, by whom, where, predicted where

probeVars == <<probe, sim, seen, queues, step, snapshot, branch, current, taken,
               tail, success, terminated, won, records, last>>
branchVars == <<branch, current, taken, tail, success, terminated, won>>

Branches == <<"baseline", "qgf", "noisy">>
Policies == {"baseline", "qgf"}
PrefixPolicy(b) == IF b = "qgf" THEN "qgf" ELSE "baseline"

MainLine == <<"main", "line">>
PrefixLine == <<Branches[branch], "prefix">>
TailLine == <<Branches[branch], "tail">>

NoChunk == [from |-> <<>>, left |-> 0]
NoAction == [line |-> MainLine, sim |-> <<>>, from |-> <<>>]

ProbeInit ==
  /\ probe = "idle" /\ sim = <<>> /\ seen = <<>>
  /\ queues = [p \in Policies |-> NoChunk]
  /\ step = 0 /\ snapshot = <<>> /\ branch = 0 /\ current = <<>>
  /\ taken = 0 /\ tail = 0 /\ success = FALSE /\ terminated = FALSE /\ won = 0
  /\ records = {} /\ last = NoAction

\* policy.reset()
Cleared(policy) == [queues EXCEPT ![policy] = NoChunk]

(* policy.select_action: the queue's next action, or the first of a new chunk. *)
SelectAction(policy, observation) ==
  IF queues[policy].left > 0
  THEN [queues[policy] EXCEPT !.left = @ - 1]
  ELSE [from |-> observation, left |-> ChunkSteps - 1]

(* vec_env.step by a line; the episode that ends starts anew at once. *)
Outcomes == [success : BOOLEAN, ended : BOOLEAN]

Simulated(line, policy, observation, o) ==
  LET chunk == SelectAction(policy, observation)
  IN /\ sim' = IF o.ended THEN <<>> ELSE Append(sim, line)
     /\ queues' = [queues EXCEPT ![policy] = chunk]
     /\ last' = [line |-> line, sim |-> sim, from |-> chunk.from]

(* "terminated episode": the step is refused, after the action was selected. *)
Refused(policy, observation) ==
  /\ queues' = [queues EXCEPT ![policy] = SelectAction(policy, observation)]
  /\ UNCHANGED <<sim, last>>

StartEpisode ==
  /\ probe = "idle"
  /\ queues' = Cleared("baseline")
  /\ sim' = <<>> /\ seen' = <<>> /\ step' = 0
  /\ probe' = "line"
  /\ UNCHANGED <<snapshot, branchVars, records, last>>

(* make_snapshot, and the first of the branches. *)
TakeSnapshot ==
  /\ probe = "line" /\ step < MaxSteps /\ step \in BranchSteps
  /\ snapshot' = sim
  /\ branch' = 1 /\ probe' = "restore"
  /\ UNCHANGED <<sim, seen, queues, step, current, taken, tail, success,
                 terminated, won, records, last>>

\* Fault: a branch starts where the one before ended.
Bug_RestoreSnapshot == sim' = sim

(* restore_snapshot: the simulation, the environment's and the robots' simple
   state. *)
RestoreSnapshot == sim' = snapshot

\* the head of _evaluate_branch
StartBranch ==
  /\ probe = "restore" /\ branch <= Len(Branches)
  /\ RestoreSnapshot
  /\ current' = seen
  /\ queues' = Cleared(PrefixPolicy(Branches[branch]))
  /\ taken' = 0 /\ tail' = 0 /\ success' = FALSE /\ terminated' = FALSE /\ won' = 0
  /\ probe' = "prefix"
  /\ UNCHANGED <<seen, step, snapshot, branch, records, last>>

PrefixStep ==
  /\ probe = "prefix" /\ taken < PrefixSteps /\ ~terminated
  /\ LET policy == PrefixPolicy(Branches[branch])
     IN \/ /\ Refused(policy, current)
           /\ terminated' = TRUE
           /\ UNCHANGED <<current, taken, success, won>>
        \/ \E o \in Outcomes :
             /\ Simulated(PrefixLine, policy, current, o)
             /\ current' = sim'
             /\ taken' = taken + 1
             /\ success' = (success \/ o.success)
             /\ won' = IF o.success /\ ~success THEN taken + 1 ELSE won
             /\ terminated' = o.ended
  /\ UNCHANGED <<probe, seen, step, snapshot, branch, tail, records>>

(* The tail starts only after a whole prefix that decided nothing. *)
StartTail ==
  /\ probe = "prefix" /\ taken = PrefixSteps
  /\ ~success /\ ~terminated
  /\ queues' = Cleared("baseline")
  /\ probe' = "tail"
  /\ UNCHANGED <<sim, seen, step, snapshot, branchVars, records, last>>

TailLimit == IF TailMaxSteps < MaxSteps - step THEN TailMaxSteps ELSE MaxSteps - step

TailStep ==
  /\ probe = "tail" /\ tail < TailLimit
  /\ \/ /\ Refused("baseline", current)
        /\ probe' = "score"
        /\ UNCHANGED <<current, tail, success, won>>
     \/ \E o \in Outcomes :
          /\ Simulated(TailLine, "baseline", current, o)
          /\ current' = sim'
          /\ tail' = tail + 1
          /\ success' = o.success
          /\ won' = IF o.success THEN taken + tail + 1 ELSE won
          /\ probe' = IF o.success \/ o.ended THEN "score" ELSE "tail"
  /\ UNCHANGED <<seen, step, snapshot, branch, taken, terminated, records>>

BranchOver ==
  \/ probe = "prefix" /\ (terminated \/ (taken = PrefixSteps /\ success))
  \/ probe = "tail" /\ tail = TailLimit
  \/ probe = "score"

Scale(limit) == IF limit > 1 THEN limit ELSE 1
ScoreUnit(limit) == Scale(limit) * StepBonus.den

\* Fault: a fast failure is given the bonus of a success.
Bug_ScoreBranch(succeeded, total, limit) ==
  ScoreUnit(limit)
    + StepBonus.num * (IF total < limit THEN limit - total ELSE 0)

(* _score_branch: ScoreUnit is a score of 1. *)
ScoreBranch(succeeded, total, limit) ==
  IF ~succeeded THEN 0
  ELSE ScoreUnit(limit)
         + StepBonus.num * (IF total < Scale(limit) THEN Scale(limit) - total ELSE 0)

(* The prefix is padded to its full length before its steps are counted. *)
TotalSteps == PrefixSteps + tail

FinishBranch ==
  /\ BranchOver
  /\ records' = records \union
       {[group |-> step, branch |-> Branches[branch], success |-> success,
         score |-> ScoreBranch(success, TotalSteps, TailLimit),
         unit |-> ScoreUnit(TailLimit), won |-> won]}
  /\ branch' = branch + 1 /\ probe' = "restore"
  /\ UNCHANGED <<sim, seen, queues, step, snapshot, current, taken, tail, success,
                 terminated, won, last>>

(* After the last branch the snapshot is restored and the baseline forgets its
   chunk; then the step that the branches interrupted is taken. *)
Resume ==
  /\ probe = "restore" /\ branch > Len(Branches)
  /\ RestoreSnapshot
  /\ queues' = Cleared("baseline")
  /\ probe' = "resumed"
  /\ UNCHANGED <<seen, step, snapshot, branchVars, records, last>>

(* One step of the baseline on the main line; the episode breaks off when it
   ends, and a refused step ends the script. *)
DriveOn ==
  /\ step < MaxSteps
  /\ probe = "resumed" \/ (probe = "line" /\ step \notin BranchSteps)
  /\ \/ Refused("baseline", seen) /\ probe' = "failed" /\ UNCHANGED <<seen, step>>
     \/ \E o \in Outcomes :
          /\ Simulated(MainLine, "baseline", seen, o)
          /\ seen' = sim'
          /\ step' = step + 1
          /\ probe' = IF o.success \/ o.ended \/ step' = MaxSteps THEN "done" ELSE "line"
  /\ UNCHANGED <<snapshot, branchVars, records>>

ProbeNext ==
  \/ StartEpisode \/ TakeSnapshot \/ StartBranch \/ PrefixStep \/ StartTail
  \/ TailStep \/ FinishBranch \/ Resume \/ DriveOn

ProbeSpec == ProbeInit /\ [][ProbeNext]_probeVars

(* _build_ranking_pairs of the mixed critic, which reads the records of the
   probe: pairs within a group whose scores differ by more than a margin. *)
MixedPairs(samples, margin) ==
  {[good |-> p[1], bad |-> p[2], group |-> p[1].group] :
     p \in {q \in samples \X samples :
              q[1].group = q[2].group /\ q[1].score > q[2].score + margin}}

\* the probe's own critic has a margin for rounding errors only
RankingPairs(samples) == MixedPairs(samples, 0)

\* what the mixed critic regresses on: the score cut to [0, 1]
MixedTarget(s) == IF s.score < s.unit THEN s.score ELSE s.unit
-----------------------------------------------------------------------------
(* Every line acts in its own continuation of the main line's past, on a chunk
   it predicted itself since it began: no branch inherits the simulation or the
   queue of another, and the main line goes on as if there had been none. *)
BranchesStartAlike ==
  LET steps == last.sim
      own == last.line
      fork == IF own = MainLine THEN Len(steps) ELSE Len(snapshot)
  IN /\ \A i \in DOMAIN steps : IF i <= fork THEN steps[i] = MainLine
                                              ELSE steps[i][1] = own[1]
     /\ Len(steps) >= fork /\ (own # MainLine => SubSeq(steps, 1, fork) = snapshot)
     /\ IsPrefix(last.from, steps)
     /\ \A i \in Len(last.from) + 1..Len(steps) : steps[i] = own
     /\ own = MainLine /\ last # NoAction => Len(steps) + 1 = step

(* A prefix is ranked above another of the same snapshot only if it led to success
   where the other did not, or in fewer steps than the other really took, by more
   than the margin; a success is ranked above every failure; and the regression
   of the mixed critic is told of success and failure only. *)
RankingPairsAreSound ==
  /\ \A margin \in 0..1 : \A p \in MixedPairs(records, margin * StepBonus.num) :
       /\ p.good.success
       /\ p.bad.success => p.good.won + margin < p.bad.won
  /\ \A g, b \in records :
       g.group = b.group /\ g.success /\ ~b.success =>
         [good |-> g, bad |-> b, group |-> g.group] \in RankingPairs(records)
  /\ \A r \in records : MixedTarget(r) = IF r.success THEN r.unit ELSE 0
=============================================================================
