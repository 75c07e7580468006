--------------------------- MODULE CriticTraining ---------------------------
(***************************************************************************)
(* The training loop of the three critics: train_critic.py, the mixed      *)
(* critic with counterfactual ranking, and the members of the visual IQL   *)
(* ensemble.  Each trains for some epochs, keeps a copy of the weights     *)
(* while the validation loss improves, and saves a checkpoint that names   *)
(* the epoch it selected.  Two of them choose that epoch anew from their   *)
(* history.  The loss is whatever validation computes, NaN included.       *)
(***************************************************************************)
EXTENDS Naturals, Sequences, SequencesExt

CONSTANTS
  NaN, NoValue,    \* a loss that is not a number; Python's None
  Live,            \* stands for weights that are not a copy
  Losses,          \* the losses that are numbers
  MaxEpochs,       \* bound on --epochs
  EnsembleSize     \* members of the IQL ensemble

Infinity == 1000

ASSUME TrainingAssumption ==
  /\ Losses \subseteq 0..(Infinity - 1)
  /\ {NaN, NoValue, Live} \intersect Nat = {} /\ NaN # NoValue /\ Live # NoValue
  /\ MaxEpochs \in Nat /\ EnsembleSize \in Nat \ {0}

VARIABLES
  script,     \* the script that runs, None before it starts
  epochs,     \* its --epochs
  validates,  \* whether there is validation data
  weights,    \* the weights in memory: the epochs that trained them
  losses,     \* the validation losses, one entry per epoch
  best,       \* the best loss so far and the copy made with it
  members,    \* the checkpoints saved so far
  training    \* phase of the loop

trainingVars == <<script, epochs, validates, weights, losses, best, members, training>>

Scripts == {"critic", "mixed", "iql"}

\* Fault: the tensors of the model are kept themselves.
Bug_Clone(w) == Live

\* _clone_state_dict_to_cpu: weights that are not copied change in memory
Clone(w) == w

\* a comparison with NaN is false
Less(x, y) == x # NaN /\ y # NaN /\ x < y

NoBest == [loss |-> NoValue, epoch |-> NoValue, weights |-> NoValue]

TrainingInit ==
  /\ script = NoValue /\ epochs = 0 /\ validates = TRUE
  /\ weights = 0 /\ losses = <<>> /\ best = NoBest /\ members = <<>>
  /\ training = "idle"

(* main() up to the loop; the IQL script refuses to run without an epoch or with
   an empty validation set. *)
TrainingStarts ==
  /\ training = "idle"
  /\ script' \in Scripts /\ epochs' \in 0..MaxEpochs /\ validates' \in BOOLEAN
  /\ script' = "iql" => epochs' > 0 /\ validates'
  /\ best' = IF script' = "iql" THEN [NoBest EXCEPT !.loss = Infinity] ELSE NoBest
  /\ weights' = 0 /\ losses' = <<>> /\ training' = "train"
  /\ UNCHANGED members

\* a pass over the training batches changes the weights in place
TrainEpoch ==
  /\ training = "train" /\ Len(losses) < epochs
  /\ weights' = weights + 1
  /\ training' = "validate"
  /\ UNCHANGED <<script, epochs, validates, losses, best, members>>

\* best_val_loss is None, or the new loss is below it
Improves(loss) == best.loss = NoValue \/ Less(loss, best.loss)

Validate ==
  /\ training = "validate"
  /\ \E loss \in IF validates THEN Losses \union {NaN} ELSE {NoValue} :
       /\ losses' = Append(losses, loss)
       /\ best' = IF loss # NoValue /\ Improves(loss)
                  THEN [loss |-> loss, epoch |-> Len(losses) + 1,
                        weights |-> Clone(weights)]
                  ELSE best
  /\ training' = "train"
  /\ UNCHANGED <<script, epochs, validates, weights, members>>

(* Python's min() with a key: the first entry, replaced while a later one
   compares below it. *)
PythonMin(entries) ==
  FoldLeftDomain(LAMBDA least, e : IF Less(entries[e], entries[least]) THEN e ELSE least,
                 1, entries)

(* _select_checkpoint_metadata: epochs counted from 1; the mixed script has the
   same function, and the IQL script saves what it kept. *)
Selected ==
  IF script = "iql" THEN best.epoch
  ELSE IF losses = <<>> THEN NoValue
  ELSE IF validates THEN PythonMin(losses)
  ELSE Len(losses)

Checkpoint ==
  [epoch |-> Selected,
   loss |-> IF script = "iql" THEN best.loss
            ELSE IF losses = <<>> \/ ~validates THEN NoValue
            ELSE losses[Selected],
   weights |->
     LET kept == IF best.weights = Live THEN weights ELSE best.weights
     IN IF script = "iql" \/ (validates /\ losses # <<>> /\ kept # NoValue)
        THEN kept ELSE Clone(weights),
   history |-> losses]

(* The checkpoint is written; the next member of an ensemble starts anew. *)
SaveCheckpoint ==
  /\ training = "train" /\ Len(losses) = epochs
  /\ members' = Append(members, Checkpoint)
  /\ IF script = "iql" /\ Len(members') < EnsembleSize
     THEN /\ training' = "train" /\ weights' = 0 /\ losses' = <<>>
          /\ best' = [NoBest EXCEPT !.loss = Infinity]
     ELSE /\ training' = "saved" /\ UNCHANGED <<weights, losses, best>>
  /\ UNCHANGED <<script, epochs, validates>>

TrainingNext == TrainingStarts \/ TrainEpoch \/ Validate \/ SaveCheckpoint

TrainingSpec == TrainingInit /\ [][TrainingNext]_trainingVars
-----------------------------------------------------------------------------
(* The epochs whose loss is a number. *)
Numbers(entries) == {e \in DOMAIN entries : entries[e] \notin {NaN, NoValue}}

(* A checkpoint holds the weights of the epoch it names and the loss of that
   epoch, and, unless a validation gave NaN, that epoch is the first with the
   least loss; the IQL members find it among the losses that are numbers. *)
CheckpointIsBest(c) ==
  /\ c.epoch # NoValue => /\ c.weights = c.epoch
                          /\ c.loss # NoValue => c.loss = c.history[c.epoch]
  /\ validates /\ Numbers(c.history) # {}
       /\ (script = "iql" \/ Numbers(c.history) = DOMAIN c.history) =>
       /\ c.epoch \in Numbers(c.history)
       /\ \A e \in Numbers(c.history) :
            \/ c.loss < c.history[e]
            \/ c.loss = c.history[e] /\ c.epoch <= e

SelectedWeightsMatch == \A i \in DOMAIN members : CheckpointIsBest(members[i])
=============================================================================
