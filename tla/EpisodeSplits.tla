---------------------------- MODULE EpisodeSplits ----------------------------
(***************************************************************************)
(* How the training scripts keep whole episodes (or whole groups of        *)
(* counterfactual branches) out of training to validate on them.  A random *)
(* permutation is any permutation: an operator gives the set of splits     *)
(* that some seed can produce.                                             *)
(***************************************************************************)
EXTENDS Integers, FiniteSets, FiniteSetsExt, Sequences, SequencesExt

Least(a, b) == IF a < b THEN a ELSE b
Greatest(a, b) == IF a < b THEN b ELSE a

(* How many of `count` groups a validation fraction holds out: at least one and
   never all of them. *)
HeldOut(count, fraction) ==
  Greatest(1, Least((count * fraction.num) \div fraction.den, count - 1))

(* split_indices_by_episode of critic_dataset.py: the possible sets of
   validation windows; `episodeOf` is the episode of each window. *)
ValidationWindows(episodeOf, fraction) ==
  LET unique == ToSet(episodeOf)
  IN IF fraction.num = 0 \/ Cardinality(unique) < 2 THEN {{}}
     ELSE {{w \in DOMAIN episodeOf : episodeOf[w] \in held}
             : held \in kSubset(HeldOut(Cardinality(unique), fraction), unique)}

\* round() of n / d, d > 0
RoundHalfEven(n, d) ==
  LET q == n \div d
      r == n % d
  IN IF 2 * r < d \/ (2 * r = d /\ q % 2 = 0) THEN q ELSE q + 1

\* Fault: an outcome's share may be all of its episodes.
Bug_Quota(size, valCount, total) == RoundHalfEven(valCount * size, total)

Quota(size, valCount, total) ==
  Least(RoundHalfEven(valCount * size, total), Greatest(0, size - 1))

\* sorted(selected[:val_count]): the first groups are served first
Served(order, quota, valCount) ==
  FoldLeft(LAMBDA served, g :
             Append(served, Least(quota[g],
                                  valCount - FoldLeft(+, 0, served))),
           <<>>, order)

(* _stratified_episode_split of the manifest builder: the possible validation
   sets for the episodes of each outcome; groups come in the order in which the
   outcomes first occur. *)
StratifiedValidation(outcomeOf, valCount) ==
  LET total == Cardinality(DOMAIN outcomeOf)
      Group(g) == {e \in DOMAIN outcomeOf : outcomeOf[e] = g}
      First(g) == Min(Group(g))
      groups == {outcomeOf[e] : e \in DOMAIN outcomeOf}
      order == CHOOSE f \in [1..Cardinality(groups) -> groups] :
                 \A i, j \in DOMAIN f : i < j => First(f[i]) < First(f[j])
      quota == [g \in groups |-> Quota(Cardinality(Group(g)), valCount, total)]
      served == Served(order, quota, valCount)
      rest == valCount - FoldLeft(+, 0, served)
      Picks == {UNION {pick[g] : g \in groups}
                : pick \in {p \in [groups -> SUBSET DOMAIN outcomeOf] :
                      \A i \in DOMAIN order :
                        p[order[i]] \in kSubset(served[i], Group(order[i]))}}
  IN UNION {{pick \union more : more \in kSubset(rest, DOMAIN outcomeOf \ pick)}
            : pick \in Picks}

\* train_real_robot_visual_iql.py trains on nothing but a disjoint split
AcceptsSplit(train, val, trainCount, valCount) ==
  /\ Cardinality(train) = trainCount /\ Cardinality(val) = valCount
  /\ train \intersect val = {}

(* The pairs and samples of train_counterfactual_mixed_critic.py for one choice
   of validation groups; if no pair is left to train on, all of them are used
   and none validates. *)
MixedSplit(pairs, groupOf, held) ==
  LET train == {p \in pairs : p.group \notin held}
      samples == {i \in DOMAIN groupOf : groupOf[i] \notin held}
  IN [trainPairs |-> IF train = {} THEN pairs ELSE train,
      valPairs |-> IF train = {} THEN {} ELSE pairs \ train,
      trainSamples |-> IF samples = {} THEN DOMAIN groupOf ELSE samples,
      valSamples |-> IF samples = {} THEN {} ELSE DOMAIN groupOf \ samples]

MixedSplits(pairs, groupOf, fraction) ==
  LET groups == {groupOf[i] : i \in DOMAIN groupOf}
      n == Cardinality(groups)
  IN {MixedSplit(pairs, groupOf, held)
        : held \in kSubset(IF n > 1 THEN HeldOut(n, fraction) ELSE 0, groups)}

(* _train_ranking_critic of the probe: the last fifth of the groups, if there
   are three of them. *)
ProbeHeld(sorted) ==
  IF Len(sorted) < 3 THEN {}
  ELSE LET n == Greatest(1, Len(sorted) \div 5)
       IN ToSet(SubSeq(sorted, Len(sorted) - n + 1, Len(sorted)))

ProbePairs(pairs, sorted) ==
  LET train == {p \in pairs : p.group \notin ProbeHeld(sorted)}
  IN IF train = {} THEN [trainPairs |-> pairs, valPairs |-> {}]
                   ELSE [trainPairs |-> train, valPairs |-> pairs \ train]
-----------------------------------------------------------------------------
(* What a split is for. *)

(* Windows of an episode stay together, nothing is lost, and a model that is to
   be validated has something to learn from and something to be judged by. *)
EpisodesStayApart(episodeOf, fraction) ==
  \A val \in ValidationWindows(episodeOf, fraction) :
    LET train == DOMAIN episodeOf \ val
        Of(windows) == {episodeOf[w] : w \in windows}
    IN /\ Of(train) \intersect Of(val) = {}
       /\ train # {}
       /\ fraction.num > 0 /\ Cardinality(ToSet(episodeOf)) > 1 => val # {}

(* The stratified split has the size that was asked for and is within one
   episode of each outcome's share when two outcomes are labelled.  A share
   never takes all episodes of an outcome, only the filling up may: whichever
   episode one picks, the only one of its outcome included, some seed leaves it
   to train on. *)
SplitIsStratified(outcomeOf, valCount) ==
  LET total == Cardinality(DOMAIN outcomeOf)
      In(g, S) == Cardinality({e \in S : outcomeOf[e] = g})
      splits == StratifiedValidation(outcomeOf, valCount)
  IN /\ \A val \in splits :
          /\ AcceptsSplit(DOMAIN outcomeOf \ val, val, total - valCount, valCount)
          /\ \A g \in {outcomeOf[e] : e \in DOMAIN outcomeOf} :
               LET share == valCount * In(g, DOMAIN outcomeOf)
               IN /\ In(g, val) * total <= share + total
                  /\ In(g, val) * total >= share - total
     /\ \A e \in DOMAIN outcomeOf : \E val \in splits : e \notin val

(* No ranking pair is judged in a group it was trained on, and there is always
   one to train on. *)
PairsStayApart(pairs, split) ==
  /\ {p.group : p \in split.trainPairs} \intersect {p.group : p \in split.valPairs} = {}
  /\ split.trainPairs \union split.valPairs = pairs
  /\ pairs # {} => split.trainPairs # {}
=============================================================================
