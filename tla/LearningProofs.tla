---------------------------- MODULE LearningProofs ----------------------------
(***************************************************************************)
(* The scripts that learn from rollouts.                                   *)
(*                                                                         *)
(* The training loop keeps a copy of the weights while it goes, and names  *)
(* the epoch it selected afterwards, from the history: for any number of   *)
(* epochs, any losses and any size of the ensemble they agree.             *)
(*                                                                         *)
(* The probe steps one simulator for its main line and for every branch.   *)
(* The invariant follows the actions in each policy's queue back to the    *)
(* line they were predicted on, for any length of a branch or an episode.  *)
(*                                                                         *)
(* The data: that the target of a row is its discounted return, for any    *)
(* discount; which rows a chunk is joined with, whatever the capture; that *)
(* a split of windows, of episodes or of pairs leaves nothing on both      *)
(* sides, and has of each outcome its share.  What these definitions fold  *)
(* over sequences and sets is shown without induction: a least index, or a *)
(* least set, at which the fold is wrong would have a smaller one.         *)
(***************************************************************************)
EXTENDS GuardProofs, WellFoundedInduction, FiniteSetTheorems

-----------------------------------------------------------------------------
(* Python's min(): a fold over the history. *)

\* One comparison of the fold.
Lesser(entries, e, least) == IF Less(entries[e], entries[least]) THEN e ELSE least

(* The fold behind PythonMin is a function on sets of indices.  Fold(h, k) says
   that h satisfies its equation on the sets of the first k, where `at` gives
   the place of each entry. *)
Fold(h, k, entries, at) ==
  /\ DOMAIN h = SUBSET (1..k)
  /\ \A s \in SUBSET (1..k) :
       h[s] = IF s = {} THEN 1 ELSE Lesser(entries, at[Max(s)], h[s \ {Max(s)}])

\* The greatest of a set of indices that has the last one is the last one.
LEMMA LastIsGreatest ==
  ASSUME NEW k \in Nat, NEW s \in SUBSET (1..k), k \in s
  PROVE  Max(s) = k
<1>1. s \subseteq Int /\ \A j \in s : k >= j OBVIOUS
<1>2. \A m \in s : (\A j \in s : m >= j) => m = k BY <1>1
<1> DEFINE m == CHOOSE m \in s : \A j \in s : m >= j
<1>3. m \in s /\ \A j \in s : m >= j BY <1>1
<1>4. m = k
  <2> HIDE DEF m
  <2> QED BY <1>2, <1>3
<1> QED BY <1>4 DEF Max

\* One more entry extends the function.
LEMMA FoldExtends ==
  ASSUME NEW entries, NEW at, NEW k \in Nat, NEW h, Fold(h, k, entries, at)
  PROVE  \E g : Fold(g, k + 1, entries, at)
<1> DEFINE n == k + 1
           g == [s \in SUBSET (1..n) |->
                   IF n \in s THEN Lesser(entries, at[n], h[s \ {n}]) ELSE h[s]]
<1>1. \A s \in SUBSET (1..n) : n \notin s => s \in SUBSET (1..k) OBVIOUS
<1>2. ASSUME NEW s \in SUBSET (1..n)
      PROVE  g[s] = IF s = {} THEN 1 ELSE Lesser(entries, at[Max(s)], g[s \ {Max(s)}])
  <2>1. CASE n \in s
    <3>1. Max(s) = n BY <2>1, LastIsGreatest
    <3>2. s \ {n} \in SUBSET (1..n) /\ n \notin s \ {n} OBVIOUS
    <3>3. g[s \ {n}] = h[s \ {n}] BY <3>2
    <3> HIDE DEF g
    <3>4. g[s] = Lesser(entries, at[n], h[s \ {n}]) BY <2>1 DEF g
    <3> QED BY <2>1, <3>1, <3>3, <3>4
  <2>2. CASE n \notin s
    <3>1. s \in SUBSET (1..k) BY <1>1, <2>2
    <3>2. g[s] = h[s] BY <2>2
    <3>3. s \ {Max(s)} \in SUBSET (1..n) /\ n \notin s \ {Max(s)} BY <2>2
    <3>4. g[s \ {Max(s)}] = h[s \ {Max(s)}] BY <3>3
    <3> HIDE DEF g
    <3> QED BY <3>1, <3>2, <3>4 DEF Fold
  <2> QED BY <2>1, <2>2
<1>3. DOMAIN g = SUBSET (1..n) OBVIOUS
<1> HIDE DEF g
<1> QED BY <1>2, <1>3 DEF Fold

\* The function exists for every length: there is no least one without it.
LEMMA FoldExists ==
  ASSUME NEW entries, NEW at, NEW n \in Nat
  PROVE  \E h : Fold(h, n, entries, at)
<1> DEFINE Without == {k \in Nat : ~ \E h : Fold(h, k, entries, at)}
           Below == OpToRel(<, Nat)
<1> SUFFICES ASSUME Without # {} PROVE FALSE
  OBVIOUS
<1>1. PICK k \in Without : \A y \in Without : <<y, k>> \notin Below
  <2>1. Without \subseteq Nat OBVIOUS
  <2> HIDE DEF Without
  <2> QED BY <2>1, NatLessThanWellFounded, WFMin
<1>2. k # 0
  <2>1. SUBSET (1..0) = {{}} BY 1..0 = {}
  <2>2. \E h : Fold(h, 0, entries, at)
    <3> DEFINE h == [s \in {{}} |-> 1]
    <3>1. DOMAIN h = {{}} /\ h[{}] = 1 OBVIOUS
    <3> HIDE DEF h
    <3>2. \A s \in SUBSET (1..0) : s = {} BY <2>1
    <3>3. DOMAIN h = SUBSET (1..0) BY <2>1, <3>1
    <3>4. Fold(h, 0, entries, at) BY <3>1, <3>2, <3>3 DEF Fold
    <3> QED BY <3>4
  <2> QED BY <2>2
<1>3. k - 1 \in Nat /\ (k - 1) + 1 = k BY <1>2
<1>4. k - 1 \notin Without
  <2>1. <<k - 1, k>> \in Below BY <1>3 DEF OpToRel
  <2> QED BY <2>1, <1>1
<1>5. PICK h : Fold(h, k - 1, entries, at) BY <1>3, <1>4
<1>6. \E g : Fold(g, k, entries, at) BY <1>3, <1>5, FoldExtends
<1> QED BY <1>6

\* least[k] is the index that the fold has after k entries.
Runs(least, entries, n) ==
  /\ least[0] = 1
  /\ \A k \in 1..n : least[k] = Lesser(entries, k, least[k - 1])
  /\ PythonMin(entries) = least[n]

\* PythonMin comes to the index it has after the last entry.
LEMMA EntryByEntry ==
  ASSUME NEW entries, NEW n \in Nat, DOMAIN entries = 1..n
  PROVE  \E least : Runs(least, entries, n)
<1> DEFINE idx == [i \in DOMAIN entries |-> i]
           G(g) == [s \in SUBSET DOMAIN idx |->
                      IF s = {} THEN 1
                      ELSE IF Less(entries[idx[Max(s)]], entries[g[s \ {Max(s)}]])
                           THEN idx[Max(s)] ELSE g[s \ {Max(s)}]]
           iter == CHOOSE g : g = G(g)
<1>0. DOMAIN idx = 1..n /\ \A i \in 1..n : idx[i] = i OBVIOUS
<1>1. PythonMin(entries) = iter[DOMAIN idx]
  BY DEF PythonMin, FoldLeftDomain, FoldLeft, MapThenFoldSet
<1>2. \E g : g = G(g)
  <2>1. PICK h : Fold(h, n, entries, idx)
    <3> HIDE DEF idx
    <3> QED BY FoldExists
  <2> DEFINE g == [s \in SUBSET (1..n) |-> h[s]]
  <2> HIDE DEF idx
  <2>2. \A s \in SUBSET (1..n) : s \ {Max(s)} \in SUBSET (1..n) OBVIOUS
  <2>3. \A s \in SUBSET (1..n) :
          g[s] = IF s = {} THEN 1
                 ELSE IF Less(entries[idx[Max(s)]], entries[g[s \ {Max(s)}]])
                      THEN idx[Max(s)] ELSE g[s \ {Max(s)}]
    BY <2>1, <2>2 DEF Fold, Lesser
  <2>4. g = G(g) BY <1>0, <2>3
  <2> QED BY <2>4
<1>3. iter = G(iter)
  <2> HIDE DEF G
  <2> QED BY <1>2
<1>4. \A s \in SUBSET (1..n) :
        iter[s] = IF s = {} THEN 1
                  ELSE IF Less(entries[idx[Max(s)]], entries[iter[s \ {Max(s)}]])
                       THEN idx[Max(s)] ELSE iter[s \ {Max(s)}]
  <2> HIDE DEF iter, idx
  <2> QED BY <1>0, <1>3
<1> DEFINE least == [k \in 0..n |-> iter[1..k]]
<1>5. least[0] = 1
  <2>1. least[0] = iter[1..0] OBVIOUS
  <2> HIDE DEF iter, idx, least
  <2>2. 1..0 = {} OBVIOUS
  <2>3. {} \in SUBSET (1..n) OBVIOUS
  <2>4. iter[{}] = 1 BY <1>4, <2>3
  <2> QED BY <2>1, <2>2, <2>4
<1>6. ASSUME NEW k \in 1..n
      PROVE  least[k] = Lesser(entries, k, least[k - 1])
  <2>1. 1..k \in SUBSET (1..n) /\ 1..k # {} /\ k \in 1..k
    <3>1. k \in 1..k /\ \A j \in 1..k : j \in 1..n OBVIOUS
    <3> QED BY <3>1
  <2>2. Max(1..k) = k BY <2>1, LastIsGreatest
  <2>3. (1..k) \ {k} = 1..(k - 1) OBVIOUS
  <2>4. least[k] = iter[1..k] /\ least[k - 1] = iter[1..(k - 1)] OBVIOUS
  <2>5. idx[k] = k BY <1>0
  <2> HIDE DEF iter, idx, least
  <2> DEFINE s == 1..k
  <2>6. s \in SUBSET (1..n) /\ s # {} /\ Max(s) = k /\ s \ {Max(s)} = 1..(k - 1)
    BY <2>1, <2>2, <2>3
  <2> HIDE DEF s
  <2>7. iter[s] = Lesser(entries, k, iter[1..(k - 1)])
    BY <1>4, <2>5, <2>6 DEF Lesser
  <2> QED BY <2>4, <2>7 DEF s
<1>7. PythonMin(entries) = least[n]
  <2>1. least[n] = iter[1..n] OBVIOUS
  <2> HIDE DEF iter, least, idx
  <2> QED BY <1>0, <1>1, <2>1
<1> HIDE DEF least, iter, idx
<1> QED BY <1>5, <1>6, <1>7 DEF Runs

-----------------------------------------------------------------------------
(* The entry that min() comes to. *)

\* b is the first of the least among the losses that are numbers.
Minimal(entries, b) ==
  /\ b \in DOMAIN entries /\ entries[b] # NaN
  /\ \A e \in DOMAIN entries :
       \/ entries[e] = NaN
       \/ entries[b] < entries[e]
       \/ entries[b] = entries[e] /\ b <= e

(* A fold by comparison never leaves a first entry that is not a number, and
   otherwise comes to the first of the least. *)
FoldsTo(entries, b) == IF entries[1] = NaN THEN b = 1 ELSE Minimal(entries, b)

Entries == Seq(Losses \union {NaN})

\* No loss is NaN.
LEMMA LossesAreNumbers ==
  Losses \subseteq Nat /\ (\A x \in Losses : x < Infinity) /\ NaN \notin Nat
BY TrainingAssumption DEF Infinity

\* An entry is NaN or a number.
LEMMA EntryTyped ==
  ASSUME NEW entries \in Entries, NEW e \in DOMAIN entries
  PROVE  entries[e] = NaN \/ (entries[e] \in Nat /\ entries[e] < Infinity)
<1>1. entries[e] \in Losses \union {NaN} BY DEF Entries
<1> QED BY <1>1, LossesAreNumbers

\* There is one first of the least, so one index a fold comes to.
LEMMA FoldIsUnique ==
  ASSUME NEW entries \in Entries, entries # <<>>,
         NEW a \in DOMAIN entries, NEW b \in DOMAIN entries,
         FoldsTo(entries, a), FoldsTo(entries, b)
  PROVE  a = b
<1>1. \A e \in DOMAIN entries : entries[e] = NaN \/ entries[e] \in Nat
  BY EntryTyped
<1>2. a \in Nat /\ b \in Nat BY DEF Entries
<1> QED BY <1>1, <1>2 DEF FoldsTo, Minimal

\* One comparison more: the fold of one entry more.
LEMMA OneEntryMore ==
  ASSUME NEW entries \in Entries, NEW k \in 1..(Len(entries) - 1), NEW b \in 1..k,
         FoldsTo(SubSeq(entries, 1, k), b)
  PROVE  /\ Lesser(entries, k + 1, b) \in 1..(k + 1)
         /\ FoldsTo(SubSeq(entries, 1, k + 1), Lesser(entries, k + 1, b))
<1> DEFINE short == SubSeq(entries, 1, k)
           long == SubSeq(entries, 1, k + 1)
           c == Lesser(entries, k + 1, b)
<1>1. /\ Len(entries) \in Nat /\ DOMAIN entries = 1..Len(entries)
      /\ DOMAIN short = 1..k /\ DOMAIN long = 1..(k + 1)
      /\ \A e \in 1..k : short[e] = entries[e] /\ long[e] = entries[e]
      /\ long[k + 1] = entries[k + 1]
  BY DEF Entries
<1>2. \A e \in DOMAIN entries : entries[e] = NaN \/ entries[e] \in Nat
  BY EntryTyped
<1>3. NaN \notin Nat BY TrainingAssumption
<1>4. 1 \in 1..k /\ b \in 1..(k + 1) /\ k + 1 \in 1..(k + 1) OBVIOUS
<1> HIDE DEF short, long
<1>5. c \in 1..(k + 1) BY <1>4 DEF Lesser
<1>6. CASE entries[1] = NaN
  <2>1. b = 1 BY <1>1, <1>4, <1>6 DEF FoldsTo, short
  <2>2. c = 1 BY <1>6, <2>1 DEF Lesser, Less
  <2> QED BY <1>1, <1>4, <1>5, <1>6, <2>2 DEF FoldsTo, long
<1>7. CASE entries[1] # NaN
  <2>1. Minimal(short, b) BY <1>1, <1>4, <1>7 DEF FoldsTo, short
  <2>2. Minimal(long, c)
    <3>1. entries[b] \in Nat /\ \A e \in 1..k :
            \/ entries[e] = NaN
            \/ entries[b] < entries[e]
            \/ entries[b] = entries[e] /\ b <= e
      BY <1>1, <1>2, <2>1 DEF Minimal
    <3>2. CASE Less(entries[k + 1], entries[b])
      <4>1. c = k + 1 BY <3>2 DEF Lesser
      <4>2. entries[k + 1] \in Nat /\ entries[k + 1] < entries[b]
        BY <1>1, <1>2, <3>2 DEF Less
      <4>3. \A e \in 1..k : entries[e] = NaN \/ entries[k + 1] < entries[e]
        BY <1>1, <1>2, <3>1, <4>2
      <4>4. \A e \in 1..(k + 1) : e \in 1..k \/ e = k + 1 OBVIOUS
      <4> QED BY <1>1, <1>3, <4>1, <4>2, <4>3, <4>4 DEF Minimal
    <3>3. CASE ~Less(entries[k + 1], entries[b])
      <4>1. c = b BY <3>3 DEF Lesser
      <4>2. \/ entries[k + 1] = NaN
            \/ entries[b] < entries[k + 1]
            \/ entries[b] = entries[k + 1] /\ b <= k + 1
        BY <1>1, <1>2, <1>3, <3>1, <3>3 DEF Less
      <4>3. \A e \in 1..(k + 1) : e \in 1..k \/ e = k + 1 OBVIOUS
      <4> QED BY <1>1, <1>3, <1>4, <3>1, <4>1, <4>2, <4>3 DEF Minimal
    <3> QED BY <3>2, <3>3
  <2> QED BY <1>1, <1>4, <1>5, <1>7, <2>2 DEF FoldsTo, long
<1> QED BY <1>6, <1>7, <1>5 DEF long

(* min() of a history is the first entry if that is not a number, and otherwise
   the first of the least: the least number of entries after which it is not
   would follow one after which it is. *)
LEMMA MinIsLeast ==
  ASSUME NEW entries \in Entries, entries # <<>>
  PROVE  PythonMin(entries) \in DOMAIN entries /\ FoldsTo(entries, PythonMin(entries))
<1> DEFINE n == Len(entries)
           After(k) == SubSeq(entries, 1, k)
<1>1. n \in Nat /\ n >= 1 /\ DOMAIN entries = 1..n BY DEF Entries
<1>2. PICK least : Runs(least, entries, n)
  <2> HIDE DEF n
  <2> QED BY <1>1, EntryByEntry
<1> DEFINE Holds(k) == least[k] \in 1..k /\ FoldsTo(After(k), least[k])
           Wrong == {k \in 1..n : ~Holds(k)}
           Below == OpToRel(<, Nat)
<1>3. Wrong = {}
  <2> SUFFICES ASSUME Wrong # {} PROVE FALSE
    OBVIOUS
  <2>1. PICK k \in Wrong : \A y \in Wrong : <<y, k>> \notin Below
    <3>1. Wrong \subseteq Nat BY <1>1
    <3> HIDE DEF Wrong
    <3> QED BY <3>1, NatLessThanWellFounded, WFMin
  <2>2. k # 1
    <3>1. least[1] = Lesser(entries, 1, least[0]) /\ least[0] = 1
      <4>1. 1 \in 1..n /\ 1 - 1 = 0 BY <1>1
      <4> HIDE DEF n
      <4> QED BY <1>2, <4>1 DEF Runs
    <3>2. least[1] = 1 BY <3>1 DEF Lesser
    <3>3. /\ DOMAIN After(1) = 1..1 /\ 1 \in 1..1 /\ After(1)[1] = entries[1]
          /\ \A e \in 1..1 : e = 1
      BY <1>1 DEF Entries
    <3>4. FoldsTo(After(1), 1)
      <4> HIDE DEF After
      <4> QED BY <3>3 DEF FoldsTo, Minimal
    <3>5. Holds(1) BY <3>2, <3>3, <3>4
    <3> HIDE DEF Holds
    <3> QED BY <3>5
  <2>3. k - 1 \in 1..n /\ k - 1 \in 1..(n - 1) /\ (k - 1) + 1 = k /\ k \in 1..n
    BY <1>1, <2>2
  <2>4. Holds(k - 1)
    <3>1. <<k - 1, k>> \in Below BY <2>3 DEF OpToRel
    <3>2. k - 1 \notin Wrong BY <2>1, <3>1
    <3> HIDE DEF Holds
    <3> QED BY <2>3, <3>2
  <2>5. least[k] = Lesser(entries, k, least[k - 1])
    <3> HIDE DEF n
    <3> QED BY <1>2, <2>3 DEF Runs
  <2>6. Holds(k) BY <2>3, <2>4, <2>5, OneEntryMore
  <2> HIDE DEF Holds
  <2> QED BY <2>6
<1>4. Holds(n)
  <2>1. n \in 1..n BY <1>1
  <2> HIDE DEF Holds, n
  <2> QED BY <1>3, <2>1
<1>5. After(n) = entries BY <1>1 DEF Entries
<1>6. PythonMin(entries) = least[n] BY <1>2 DEF Runs
<1> QED BY <1>1, <1>4, <1>5, <1>6

-----------------------------------------------------------------------------
(* The loop keeps what the selection will ask for. *)

\* What a validation computes.
Results == IF validates THEN Losses \union {NaN} ELSE {NoValue}

Keeps(b) == best = [loss |-> losses[b], epoch |-> b, weights |-> b]
Nothing == [NoBest EXCEPT !.loss = Infinity]

\* The IQL script compares with infinity: nothing is kept while all is NaN.
KeptByLoss ==
  \/ best = Nothing /\ \A e \in DOMAIN losses : losses[e] = NaN
  \/ \E b \in DOMAIN losses : Keeps(b) /\ Minimal(losses, b)

\* The others keep the first epoch, whatever it gave.
KeptByMin ==
  IF losses = <<>> \/ ~validates THEN best = NoBest
  ELSE \E b \in DOMAIN losses : Keeps(b) /\ FoldsTo(losses, b)

Loop ==
  /\ script \in Scripts /\ validates \in BOOLEAN /\ (script = "iql" => validates)
  /\ losses \in Seq(Results)
  /\ weights = IF training = "validate" THEN Len(losses) + 1 ELSE Len(losses)
  /\ IF script = "iql" THEN KeptByLoss ELSE KeptByMin

Checkpoints ==
  [epoch : Nat \union {NoValue}, loss : Nat \union {NaN, NoValue},
   weights : Nat \union {NoValue}, history : Seq(Losses \union {NaN, NoValue})]

TrainingInv ==
  /\ IF training = "idle" THEN members = <<>>
     ELSE training \in {"train", "validate", "saved"} /\ Loop
  /\ members \in Seq(Checkpoints)
  /\ SelectedWeightsMatch

\* A loss in the history keeps its place when another is appended, so the first
\* of the least among the losses changes only to the new one, if that is below.
LEMMA MinimalAppended ==
  ASSUME NEW entries \in Entries, NEW b \in DOMAIN entries, Minimal(entries, b),
         NEW loss \in Losses \union {NaN}
  PROVE  Minimal(Append(entries, loss),
                 IF Less(loss, entries[b]) THEN Len(entries) + 1 ELSE b)
<1> DEFINE more == Append(entries, loss)
           n == Len(entries)
<1>1. /\ n \in Nat /\ DOMAIN entries = 1..n /\ DOMAIN more = 1..(n + 1)
      /\ \A e \in 1..n : more[e] = entries[e]
      /\ more[n + 1] = loss
  BY DEF Entries
<1>2. \A e \in 1..n : entries[e] = NaN \/ entries[e] \in Nat BY <1>1, EntryTyped
<1>3. loss = NaN \/ loss \in Nat BY LossesAreNumbers
<1>4. \A e \in 1..(n + 1) : e \in 1..n \/ e = n + 1 BY <1>1
<1> HIDE DEF more, n
<1>5. b \in 1..n /\ entries[b] \in Nat /\ \A e \in 1..n :
            \/ entries[e] = NaN
            \/ entries[b] < entries[e]
            \/ entries[b] = entries[e] /\ b <= e
  BY <1>1, <1>2 DEF Minimal
<1>6. CASE Less(loss, entries[b])
  <2>1. loss \in Nat /\ loss < entries[b] /\ loss # NaN BY <1>3, <1>6 DEF Less
  <2>2. \A e \in 1..n : entries[e] = NaN \/ loss < entries[e] BY <1>2, <1>5, <2>1
  <2>3. n + 1 \in 1..(n + 1) /\ n + 1 <= n + 1 BY <1>1
  <2>4. Minimal(more, n + 1) BY <1>1, <1>4, <2>1, <2>2, <2>3 DEF Minimal
  <2> QED BY <1>6, <2>4 DEF more, n
<1>7. CASE ~Less(loss, entries[b])
  <2>1. \/ loss = NaN
        \/ entries[b] < loss
        \/ entries[b] = loss /\ b <= n + 1
    BY <1>1, <1>3, <1>5, <1>7, LossesAreNumbers DEF Less
  <2>2. b \in 1..(n + 1) BY <1>1, <1>5
  <2>3. Minimal(more, b)
    BY <1>1, <1>4, <1>5, <2>1, <2>2, LossesAreNumbers DEF Minimal
  <2> QED BY <1>7, <2>3 DEF more, n
<1> QED BY <1>6, <1>7

\* One loss is the first of itself.
LEMMA MinimalAlone ==
  ASSUME NEW entries \in Entries, NEW loss \in Losses,
         \A e \in DOMAIN entries : entries[e] = NaN
  PROVE  Minimal(Append(entries, loss), Len(entries) + 1)
<1> DEFINE more == Append(entries, loss)
           n == Len(entries)
<1>1. /\ n \in Nat /\ DOMAIN entries = 1..n /\ DOMAIN more = 1..(n + 1)
      /\ \A e \in 1..n : more[e] = entries[e]
      /\ more[n + 1] = loss
  BY DEF Entries
<1>2. \A e \in 1..(n + 1) : e \in 1..n \/ e = n + 1 BY <1>1
<1>3. loss # NaN BY LossesAreNumbers
<1> HIDE DEF more, n
<1>4. n + 1 \in 1..(n + 1) /\ n + 1 <= n + 1 BY <1>1
<1>5. Minimal(more, n + 1) BY <1>1, <1>2, <1>3, <1>4 DEF Minimal
<1> QED BY <1>5 DEF more, n

\* What was best is an epoch of the longer history too.
LEMMA KeptAppended ==
  ASSUME NEW entries \in Entries, NEW loss, NEW b \in DOMAIN entries
  PROVE  /\ b \in DOMAIN Append(entries, loss)
         /\ Append(entries, loss)[b] = entries[b]
         /\ Append(entries, loss)[1] = entries[1]
         /\ Len(entries) + 1 \in DOMAIN Append(entries, loss)
         /\ Append(entries, loss)[Len(entries) + 1] = loss
         /\ Append(entries, loss) # <<>>
BY DEF Entries

\* A validation keeps the loop's invariant, for every loss it may compute.
LEMMA ValidateKeepsLoop ==
  ASSUME training = "validate", Loop, Validate
  PROVE  Loop'
<1> USE DEF Validate
<1>1. PICK loss \in IF validates THEN Losses \union {NaN} ELSE {NoValue} :
         /\ losses' = Append(losses, loss)
         /\ best' = IF loss # NoValue /\ Improves(loss)
                    THEN [loss |-> loss, epoch |-> Len(losses) + 1,
                          weights |-> Clone(weights)]
                    ELSE best
  OBVIOUS
<1> HIDE DEF Validate
<1>2. /\ training' = "train" /\ script' = script /\ validates' = validates
      /\ weights' = weights
  BY DEF Validate
<1>3. Results' = Results /\ loss \in Results BY <1>1, <1>2 DEF Results
<1>4. losses \in Seq(Results) /\ weights = Len(losses) + 1 BY DEF Loop
<1>5. losses' \in Seq(Results) /\ Len(losses') = Len(losses) + 1
  BY <1>1, <1>3, <1>4
<1>6. NoValue # NaN /\ NoValue \notin Nat /\ NaN \notin Nat BY TrainingAssumption
<1>7. CASE ~validates
  <2>1. loss = NoValue BY <1>1, <1>7
  <2>2. best' = best BY <1>1, <2>1
  <2>3. script # "iql" /\ best = NoBest BY <1>7 DEF Loop, KeptByMin
  <2>4. KeptByMin' BY <1>2, <1>7, <2>2, <2>3 DEF KeptByMin, NoBest
  <2> QED BY <1>2, <1>3, <1>4, <1>5, <2>3, <2>4 DEF Loop
<1>8. CASE validates
  <2>1. losses \in Entries /\ loss \in Losses \union {NaN} /\ loss # NoValue
    BY <1>1, <1>4, <1>6, <1>8, LossesAreNumbers DEF Results, Entries
  <2>2. best' = IF Improves(loss)
                THEN [loss |-> loss, epoch |-> Len(losses) + 1,
                      weights |-> Len(losses) + 1]
                ELSE best
    BY <1>1, <1>4, <2>1 DEF Clone
  <2>3. losses' = Append(losses, loss) BY <1>1
  <2>4. \A b \in DOMAIN losses : losses[b] = NaN \/ (losses[b] \in Nat /\ losses[b] < Infinity)
    BY <2>1, EntryTyped
  <2>5. \A b \in DOMAIN losses : losses[b] # NoValue BY <1>6, <2>4
  <2>6. ASSUME NEW b \in DOMAIN losses, Keeps(b), Minimal(losses, b)
        PROVE  \E c \in DOMAIN losses' : Keeps(c)' /\ Minimal(losses', c)
    <3>1. Improves(loss) <=> Less(loss, losses[b]) BY <2>5, <2>6 DEF Improves, Keeps
    <3> DEFINE c == IF Less(loss, losses[b]) THEN Len(losses) + 1 ELSE b
    <3>2. Minimal(losses', c) BY <2>1, <2>3, <2>6, MinimalAppended
    <3>3. c \in DOMAIN losses' BY <2>1, <2>3, KeptAppended
    <3>4. best' = [loss |-> losses'[c], epoch |-> c, weights |-> c]
      BY <2>1, <2>2, <2>3, <2>6, <3>1, KeptAppended DEF Keeps
    <3> HIDE DEF c
    <3> QED BY <3>2, <3>3, <3>4 DEF Keeps
  <2>7. CASE script = "iql"
    <3>1. CASE \E b \in DOMAIN losses : Keeps(b) /\ Minimal(losses, b)
      <4>1. \E c \in DOMAIN losses' : Keeps(c)' /\ Minimal(losses', c) BY <2>6, <3>1
      <4>2. KeptByLoss' BY <4>1 DEF KeptByLoss, Keeps
      <4> QED BY <1>2, <1>3, <1>4, <1>5, <1>8, <2>7, <4>2 DEF Loop
    <3>2. CASE best = Nothing /\ \A e \in DOMAIN losses : losses[e] = NaN
      <4>1. Improves(loss) <=> loss # NaN
        BY <1>6, <2>1, <3>2, LossesAreNumbers
        DEF Improves, Nothing, NoBest, Less, Infinity
      <4>2. CASE loss = NaN
        <5>1. best' = Nothing BY <2>2, <3>2, <4>1, <4>2
        <5>2. \A e \in DOMAIN losses' : losses'[e] = NaN
          BY <1>4, <2>3, <3>2, <4>2
        <5>3. KeptByLoss' BY <5>1, <5>2 DEF KeptByLoss, Nothing, NoBest
        <5> QED BY <1>2, <1>3, <1>4, <1>5, <1>8, <2>7, <5>3 DEF Loop
      <4>3. CASE loss # NaN
        <5> DEFINE c == Len(losses) + 1
        <5>1. Minimal(losses', c) BY <2>1, <2>3, <3>2, <4>3, MinimalAlone
        <5>2. c \in DOMAIN losses' /\ losses'[c] = loss BY <1>4, <2>3
        <5>3. best' = [loss |-> losses'[c], epoch |-> c, weights |-> c]
          BY <2>2, <4>1, <4>3, <5>2
        <5> HIDE DEF c
        <5>4. KeptByLoss' BY <5>1, <5>2, <5>3 DEF KeptByLoss, Keeps
        <5> QED BY <1>2, <1>3, <1>4, <1>5, <1>8, <2>7, <5>4 DEF Loop
      <4> QED BY <4>2, <4>3
    <3> QED BY <2>7, <3>1, <3>2 DEF Loop, KeptByLoss
  <2>8. CASE script # "iql"
    <3>1. losses' # <<>> BY <1>4, <2>3
    <3>2. SUFFICES \E c \in DOMAIN losses' : Keeps(c)' /\ FoldsTo(losses', c)
      <4>1. KeptByMin'
        BY <1>2, <1>8, <3>1, <3>2 DEF KeptByMin, Keeps
      <4> QED BY <1>2, <1>3, <1>4, <1>5, <1>8, <2>8, <4>1 DEF Loop
    <3>3. CASE losses = <<>>
      <4>1. best = NoBest BY <2>8, <3>3 DEF Loop, KeptByMin
      <4>2. best' = [loss |-> loss, epoch |-> 1, weights |-> 1]
        BY <2>2, <3>3, <4>1 DEF Improves, NoBest
      <4>3. losses' = <<loss>> BY <2>3, <3>3
      <4>4. 1 \in DOMAIN losses' /\ losses'[1] = loss /\ DOMAIN losses' = {1} BY <4>3
      <4>5. FoldsTo(losses', 1) BY <4>4 DEF FoldsTo, Minimal
      <4> QED BY <4>2, <4>4, <4>5 DEF Keeps
    <3>4. CASE losses # <<>>
      <4>1. PICK b \in DOMAIN losses : Keeps(b) /\ FoldsTo(losses, b)
        BY <1>8, <2>8, <3>4 DEF Loop, KeptByMin
      <4>2. losses'[1] = losses[1] BY <2>1, <2>3, KeptAppended
      <4>3. CASE losses[1] = NaN
        <5>1. b = 1 BY <4>1, <4>3 DEF FoldsTo
        <5>2. best' = best
          BY <1>6, <2>2, <2>5, <4>1, <4>3, <5>1 DEF Improves, Keeps, Less
        <5>3. 1 \in DOMAIN losses' BY <2>1, <2>3, <5>1, KeptAppended
        <5>4. Keeps(1)' BY <4>1, <4>2, <5>1, <5>2 DEF Keeps
        <5>5. FoldsTo(losses', 1) BY <4>2, <4>3 DEF FoldsTo
        <5> QED BY <5>3, <5>4, <5>5
      <4>4. CASE losses[1] # NaN
        <5>1. Minimal(losses, b) BY <4>1, <4>4 DEF FoldsTo
        <5>2. \E c \in DOMAIN losses' : Keeps(c)' /\ Minimal(losses', c)
          BY <2>6, <4>1, <5>1
        <5> QED BY <4>2, <4>4, <5>2 DEF FoldsTo
      <4> QED BY <4>3, <4>4
    <3> QED BY <3>3, <3>4
  <2> QED BY <2>7, <2>8
<1> QED BY <1>7, <1>8 DEF Loop

\* What the loop saves is the best of its history.
LEMMA SavedIsBest ==
  ASSUME training = "train", Loop
  PROVE  CheckpointIsBest(Checkpoint) /\ Checkpoint \in Checkpoints
<1> DEFINE c == Checkpoint
           kept == IF best.weights = Live THEN weights ELSE best.weights
           Weights == IF script = "iql" \/ (validates /\ losses # <<>> /\ kept # NoValue)
                      THEN kept ELSE weights
           Loss == IF script = "iql" THEN best.loss
                   ELSE IF losses = <<>> \/ ~validates THEN NoValue
                   ELSE losses[Selected]
<1>1. /\ c.epoch = Selected /\ c.loss = Loss /\ c.weights = Weights
      /\ c.history = losses
      /\ c = [epoch |-> Selected, loss |-> Loss, weights |-> Weights, history |-> losses]
  BY DEF Checkpoint, Clone
<1>2. /\ NoValue # NaN /\ NoValue \notin Nat /\ NaN \notin Nat
      /\ Live \notin Nat /\ Live # NoValue
  BY TrainingAssumption
<1>3. losses \in Seq(Results) /\ weights = Len(losses) /\ Len(losses) \in Nat
  BY DEF Loop
<1>4. losses \in Seq(Losses \union {NaN, NoValue}) BY <1>3 DEF Results
<1> HIDE DEF c, kept, Weights, Loss
<1>5. CASE script # "iql" /\ (losses = <<>> \/ ~validates)
  <2>1. Weights = weights /\ Loss = NoValue
    <3>1. best = NoBest BY <1>5 DEF Loop, KeptByMin
    <3> QED BY <1>5, <3>1 DEF Weights, Loss, kept
  <2>2. Selected = IF losses = <<>> THEN NoValue ELSE Len(losses)
    BY <1>5 DEF Selected
  <2>3. CheckpointIsBest(c)
    <3>1. validates => Numbers(losses) = {} BY <1>3, <1>5 DEF Numbers
    <3> QED BY <1>1, <1>3, <2>1, <2>2, <3>1 DEF CheckpointIsBest
  <2>4. c \in Checkpoints BY <1>1, <1>3, <1>4, <2>1, <2>2 DEF Checkpoints
  <2> QED BY <2>3, <2>4 DEF c
<1>6. ASSUME validates, NEW b \in DOMAIN losses, Keeps(b), Selected = b,
             Loss = losses[b],
             Minimal(losses, b) \/ (script # "iql" /\ b = 1 /\ losses[1] = NaN)
      PROVE  CheckpointIsBest(c) /\ c \in Checkpoints
  <2>1. losses \in Entries /\ b \in Nat BY <1>3, <1>6, LossesAreNumbers DEF Results, Entries
  <2>2. \A e \in DOMAIN losses : losses[e] = NaN \/ losses[e] \in Nat
    BY <2>1, EntryTyped
  <2>3. kept = b BY <1>2, <1>6, <2>1 DEF kept, Keeps
  <2>4. losses # <<>> /\ kept # NoValue BY <1>2, <1>3, <2>1, <2>3
  <2>5. Weights = b BY <1>6, <2>3, <2>4 DEF Weights
  <2>6. c.epoch = b /\ c.weights = b /\ c.loss = losses[b] BY <1>1, <1>6, <2>5
  <2>7. Numbers(losses) = {e \in DOMAIN losses : losses[e] # NaN}
    BY <1>2, <2>2 DEF Numbers
  <2>8. ASSUME script = "iql" \/ Numbers(losses) = DOMAIN losses
        PROVE  /\ b \in Numbers(losses)
               /\ \A e \in Numbers(losses) :
                    losses[b] < losses[e] \/ (losses[b] = losses[e] /\ b <= e)
    <3>1. Minimal(losses, b) BY <1>6, <2>7, <2>8
    <3> QED BY <2>7, <3>1 DEF Minimal
  <2>9. CheckpointIsBest(c) BY <1>1, <2>6, <2>8 DEF CheckpointIsBest
  <2>10. losses[b] \in Nat \union {NaN, NoValue} BY <2>2
  <2>11. c \in Checkpoints BY <1>1, <1>4, <1>6, <2>1, <2>5, <2>10 DEF Checkpoints
  <2> QED BY <2>9, <2>11
<1>7. CASE script = "iql"
  <2>1. validates /\ KeptByLoss /\ Selected = best.epoch /\ Loss = best.loss
    BY <1>7 DEF Loop, Selected, Loss
  <2>2. CASE best = Nothing /\ \A e \in DOMAIN losses : losses[e] = NaN
    <3>1. best.epoch = NoValue /\ best.loss = Infinity /\ best.weights = NoValue
      BY <2>2 DEF Nothing, NoBest
    <3>2. Numbers(losses) = {} BY <2>2 DEF Numbers
    <3>3. Weights = NoValue BY <1>2, <1>7, <3>1 DEF Weights, kept
    <3>4. CheckpointIsBest(c) BY <1>1, <2>1, <3>1, <3>2 DEF CheckpointIsBest
    <3>5. c \in Checkpoints BY <1>1, <1>4, <2>1, <3>1, <3>3 DEF Checkpoints, Infinity
    <3> QED BY <3>4, <3>5 DEF c
  <2>3. CASE \E b \in DOMAIN losses : Keeps(b) /\ Minimal(losses, b)
    <3>1. PICK b \in DOMAIN losses : Keeps(b) /\ Minimal(losses, b) BY <2>3
    <3>2. Selected = b /\ Loss = losses[b] BY <2>1, <3>1 DEF Keeps
    <3> QED BY <1>6, <2>1, <3>1, <3>2 DEF c
  <2> QED BY <2>1, <2>2, <2>3 DEF KeptByLoss
<1>8. CASE script # "iql" /\ losses # <<>> /\ validates
  <2>1. PICK b \in DOMAIN losses : Keeps(b) /\ FoldsTo(losses, b)
    BY <1>8 DEF Loop, KeptByMin
  <2>2. losses \in Entries BY <1>3, <1>8 DEF Results, Entries
  <2>3. Selected = PythonMin(losses) BY <1>8 DEF Selected
  <2>4. PythonMin(losses) = b BY <1>8, <2>1, <2>2, MinIsLeast, FoldIsUnique
  <2>5. Selected = b /\ Loss = losses[b] BY <1>8, <2>3, <2>4 DEF Loss
  <2>6. Minimal(losses, b) \/ (b = 1 /\ losses[1] = NaN) BY <2>1 DEF FoldsTo
  <2> QED BY <1>6, <1>8, <2>1, <2>5, <2>6 DEF c
<1> QED BY <1>5, <1>7, <1>8

\* A checkpoint that is best stays so while the script does.
LEMMA BestIsKept ==
  ASSUME NEW c, script' = script, validates' = validates
  PROVE  CheckpointIsBest(c)' <=> CheckpointIsBest(c)
BY DEF CheckpointIsBest, Numbers

\* Saving keeps the invariant: an ensemble starts its next member with nothing.
LEMMA SaveKeepsInv ==
  ASSUME TrainingInv, SaveCheckpoint
  PROVE  TrainingInv'
<1>1. /\ training = "train" /\ members' = Append(members, Checkpoint)
      /\ script' = script /\ validates' = validates
  BY DEF SaveCheckpoint
<1>2. Loop /\ members \in Seq(Checkpoints) /\ SelectedWeightsMatch
  BY <1>1 DEF TrainingInv
<1>3. CheckpointIsBest(Checkpoint) /\ Checkpoint \in Checkpoints
  BY <1>1, <1>2, SavedIsBest
<1>4. members' \in Seq(Checkpoints) BY <1>1, <1>2, <1>3
<1>5. SelectedWeightsMatch'
  <2>1. ASSUME NEW i \in DOMAIN members'
        PROVE  CheckpointIsBest(members'[i])
    <3> DEFINE c == Checkpoint
    <3>1. members' = Append(members, c) BY <1>1
    <3>2. CheckpointIsBest(c) BY <1>3
    <3> HIDE DEF c
    <3>3. members'[i] = c \/ (i \in DOMAIN members /\ members'[i] = members[i])
      BY <1>2, <2>1, <3>1
    <3>4. CASE members'[i] = c BY <3>2, <3>4
    <3>5. CASE i \in DOMAIN members /\ members'[i] = members[i]
      BY <1>2, <3>5 DEF SelectedWeightsMatch
    <3> QED BY <3>3, <3>4, <3>5
  <2> QED BY <1>1, <2>1 DEF SelectedWeightsMatch, CheckpointIsBest, Numbers
<1>6. CASE script = "iql" /\ Len(members') < EnsembleSize
  <2>1. /\ training' = "train" /\ weights' = 0 /\ losses' = <<>> /\ best' = Nothing
    BY <1>6 DEF SaveCheckpoint, Nothing
  <2>2. KeptByLoss' BY <2>1 DEF KeptByLoss, Nothing, NoBest
  <2>3. losses' \in Seq(Results') /\ Len(losses') = 0 BY <2>1
  <2>4. Loop' BY <1>1, <1>2, <1>6, <2>1, <2>2, <2>3 DEF Loop
  <2> QED BY <1>4, <1>5, <2>1, <2>4 DEF TrainingInv
<1>7. CASE ~(script = "iql" /\ Len(members') < EnsembleSize)
  <2>1. training' = "saved" /\ UNCHANGED <<weights, losses, best>>
    BY <1>7 DEF SaveCheckpoint
  <2>2. Loop'
    BY <1>1, <1>2, <2>1
    DEF Loop, Results, KeptByLoss, KeptByMin, Keeps, Nothing, NoBest
  <2> QED BY <1>4, <1>5, <2>1, <2>2 DEF TrainingInv
<1> QED BY <1>6, <1>7

\* Every step keeps the invariant.
LEMMA TrainingKeepsInv ==
  ASSUME TrainingInv, [TrainingNext]_trainingVars
  PROVE  TrainingInv'
<1>1. CASE TrainingStarts
  <2>1. /\ training = "idle" /\ members = <<>> /\ members' = members
        /\ script' \in Scripts /\ validates' \in BOOLEAN
        /\ (script' = "iql" => validates')
        /\ best' = IF script' = "iql" THEN Nothing ELSE NoBest
        /\ weights' = 0 /\ losses' = <<>> /\ training' = "train"
    BY <1>1 DEF TrainingStarts, TrainingInv, Nothing
  <2>2. losses' \in Seq(Results') /\ Len(losses') = 0 BY <2>1
  <2>3. IF script' = "iql" THEN KeptByLoss' ELSE KeptByMin'
    BY <2>1 DEF KeptByLoss, KeptByMin, Nothing, NoBest
  <2>4. Loop' BY <2>1, <2>2, <2>3 DEF Loop
  <2> QED BY <2>1, <2>4 DEF TrainingInv, SelectedWeightsMatch
<1>2. CASE TrainEpoch
  <2>1. /\ training = "train" /\ training' = "validate" /\ weights' = weights + 1
        /\ UNCHANGED <<script, validates, losses, best, members>>
    BY <1>2 DEF TrainEpoch
  <2>2. Loop BY <2>1 DEF TrainingInv
  <2>3. Loop'
    BY <2>1, <2>2
    DEF Loop, Results, KeptByLoss, KeptByMin, Keeps, Nothing, NoBest
  <2> QED BY <2>1, <2>3
          DEF TrainingInv, SelectedWeightsMatch, CheckpointIsBest, Numbers
<1>3. CASE Validate
  <2>1. /\ training = "validate" /\ training' = "train"
        /\ UNCHANGED <<script, validates, members>>
    BY <1>3 DEF Validate
  <2>2. Loop BY <2>1 DEF TrainingInv
  <2>3. Loop' BY <1>3, <2>1, <2>2, ValidateKeepsLoop
  <2> QED BY <2>1, <2>3
          DEF TrainingInv, SelectedWeightsMatch, CheckpointIsBest, Numbers
<1>4. CASE SaveCheckpoint BY <1>4, SaveKeepsInv
<1>5. CASE UNCHANGED trainingVars
  BY <1>5
  DEF trainingVars, TrainingInv, Loop, Results, KeptByLoss, KeptByMin, Keeps,
      Nothing, NoBest, SelectedWeightsMatch, CheckpointIsBest, Numbers
<1> QED BY <1>1, <1>2, <1>3, <1>4, <1>5 DEF TrainingNext

(* A checkpoint holds the weights of the epoch it names, and that epoch has the
   least loss of its history, for any number of epochs, any losses, NaN among
   them, and any size of the ensemble. *)
THEOREM CheckpointsAreBest == TrainingSpec => []SelectedWeightsMatch
<1>1. TrainingInit => TrainingInv
  BY DEF TrainingInit, TrainingInv, SelectedWeightsMatch
<1>2. TrainingInv /\ [TrainingNext]_trainingVars => TrainingInv'
  BY TrainingKeepsInv
<1>3. TrainingInv => SelectedWeightsMatch BY DEF TrainingInv
<1> QED BY <1>1, <1>2, <1>3, PTL DEF TrainingSpec

-----------------------------------------------------------------------------
(* The counterfactual probe: the invariant of its loops. *)

Lines == {"main", "baseline", "qgf", "noisy"} \X {"line", "prefix", "tail"}
Chunks == [from : Seq(Lines), left : Nat]

ProbeTypes ==
  /\ queues \in [Policies -> Chunks]
  /\ sim \in Seq(Lines) /\ seen \in Seq(Lines) /\ current \in Seq(Lines)
  /\ step \in 0..MaxSteps /\ branch \in Nat
  /\ success \in BOOLEAN /\ terminated \in BOOLEAN
  /\ taken \in Nat /\ tail \in Nat /\ won \in Nat

\* A simulation that goes on from another by the steps of one line alone.
OnLine(s, from, line) ==
  /\ Len(from) <= Len(s)
  /\ \A i \in 1..Len(from) : s[i] = from[i]
  /\ \A i \in Len(from) + 1..Len(s) : s[i] = line

(* What is left of a policy's chunk was predicted on this simulation, since the
   line began. *)
QueueOnLine(policy, line) ==
  queues[policy].left > 0 => OnLine(sim, queues[policy].from, line)

\* The observation shows the steps of the main line, and no others.
Past == Len(seen) = step /\ \A i \in 1..Len(seen) : seen[i] = MainLine

InTurn == branch \in 1..Len(Branches)

OnTheLine ==
  probe = "line" =>
    Past /\ sim = seen /\ last.line = MainLine /\ QueueOnLine("baseline", MainLine)

Forked ==
  probe \in {"restore", "prefix", "tail", "score", "resumed"} =>
    Past /\ snapshot = seen /\ step < MaxSteps /\ branch >= 1

InPrefix ==
  probe = "prefix" =>
    /\ InTurn /\ taken <= PrefixSteps /\ tail = 0 /\ (success => won \in 1..taken)
    /\ ~terminated => /\ current = sim /\ OnLine(sim, snapshot, PrefixLine)
                      /\ QueueOnLine(PrefixPolicy(Branches[branch]), PrefixLine)

InTail ==
  probe = "tail" =>
    /\ InTurn /\ taken = PrefixSteps /\ ~success
    /\ current = sim /\ QueueOnLine("baseline", TailLine)
    /\ Len(snapshot) <= Len(sim)
    /\ \A i \in 1..Len(snapshot) : sim[i] = snapshot[i]
    /\ \A i \in Len(snapshot) + 1..Len(sim) : sim[i][1] = Branches[branch]

Judged ==
  probe = "score" =>
    InTurn /\ taken = PrefixSteps /\ (success => won = PrefixSteps + tail)

Restored == probe = "resumed" => sim = snapshot /\ queues["baseline"].left = 0

(* The score of a record counts the steps up to its success, or the whole prefix
   if that is longer, against the tail that its step allowed. *)
LimitAt(group) ==
  IF TailMaxSteps < MaxSteps - group THEN TailMaxSteps ELSE MaxSteps - group
Counted(n) == IF n < PrefixSteps THEN PrefixSteps ELSE n

Scored(r) ==
  /\ r.group \in 0..MaxSteps /\ r.success \in BOOLEAN /\ r.won \in Nat
  /\ r.unit = ScoreUnit(LimitAt(r.group))
  /\ r.score = ScoreBranch(r.success, Counted(r.won), LimitAt(r.group))

ProbeInv ==
  /\ ProbeTypes
  /\ probe = "idle" => last = NoAction
  /\ OnTheLine /\ Forked /\ InPrefix /\ InTail /\ Judged /\ Restored
  /\ \A r \in records : Scored(r)
  /\ BranchesStartAlike

USE ProbeAssumption

-----------------------------------------------------------------------------
(* Scores and pairs. *)

\* A product is larger only if its factor is.
LEMMA FactorsCompare ==
  ASSUME NEW n \in Nat \ {0}, NEW a \in Int, NEW b \in Int, n * a > n * b
  PROVE  a > b
BY SMT

\* The unit of a score is a number above 0.
LEMMA UnitIsPositive ==
  ASSUME NEW limit \in Int
  PROVE  /\ Scale(limit) \in Nat /\ Scale(limit) >= 1
         /\ ScoreUnit(limit) \in Nat /\ ScoreUnit(limit) > 0
<1>1. Scale(limit) \in Nat \ {0} BY DEF Scale
<1>2. StepBonus.den \in Nat \ {0} OBVIOUS
<1>3. \A x, y \in Nat \ {0} : x * y \in Nat /\ x * y > 0 BY SMT
<1> QED BY <1>1, <1>2, <1>3 DEF ScoreUnit

\* The steps that a success saved, and the score they make.
Saved(n, limit) == IF n < Scale(limit) THEN Scale(limit) - n ELSE 0

\* A success earns the unit and a bonus for what it saved, a failure nothing.
LEMMA ScoreOf ==
  ASSUME NEW r, Scored(r)
  PROVE  LET limit == LimitAt(r.group)
         IN /\ limit \in Int /\ Saved(Counted(r.won), limit) \in Nat
            /\ r.score = IF r.success THEN r.unit + StepBonus.num * Saved(Counted(r.won), limit)
                                      ELSE 0
            /\ r.unit \in Nat /\ r.unit > 0 /\ r.score \in Nat
            /\ r.success => r.score >= r.unit
<1> DEFINE limit == LimitAt(r.group)
           saved == Saved(Counted(r.won), limit)
<1>1. limit \in Int BY DEF Scored, LimitAt
<1>2. Counted(r.won) \in Nat BY DEF Scored, Counted
<1> HIDE DEF limit
<1>3. saved \in Nat BY <1>1, <1>2, UnitIsPositive DEF Saved
<1>4. r.score = IF r.success THEN r.unit + StepBonus.num * saved ELSE 0
  BY DEF Scored, ScoreBranch, Saved, limit
<1>5. r.unit \in Nat /\ r.unit > 0 BY <1>1, UnitIsPositive DEF Scored, limit
<1>6. StepBonus.num * saved \in Nat
  <2>1. StepBonus.num \in Nat OBVIOUS
  <2>2. \A x, y \in Nat : x * y \in Nat BY SMT
  <2> HIDE DEF saved
  <2> QED BY <1>3, <2>1, <2>2
<1>7. r.success \in BOOLEAN BY DEF Scored
<1> HIDE DEF saved
<1> QED BY <1>1, <1>3, <1>4, <1>5, <1>6, <1>7 DEF limit, saved

(* A success is ranked above another of its group only if it took fewer steps by
   more than the margin: what counts of a longer one is what it really took. *)
LEMMA PairIsSound ==
  ASSUME NEW g, NEW b, Scored(g), Scored(b), g.group = b.group,
         NEW margin \in Nat, g.score > b.score + margin * StepBonus.num
  PROVE  g.success /\ (b.success => g.won + margin < b.won)
<1> DEFINE limit == LimitAt(g.group)
           num == StepBonus.num
           savedG == Saved(Counted(g.won), limit)
           savedB == Saved(Counted(b.won), limit)
<1>1. num \in Nat \ {0} /\ g.score > b.score + margin * num OBVIOUS
<1>2. margin * num \in Nat
  <2>1. \A x, y \in Nat : x * y \in Nat BY SMT
  <2> HIDE DEF num
  <2> QED BY <1>1, <2>1
<1>3. g.score \in Nat /\ b.score \in Nat /\ g.score > 0 /\ g.success \in BOOLEAN
  <2>1. g.score \in Nat /\ b.score \in Nat BY ScoreOf
  <2>2. g.success \in BOOLEAN BY DEF Scored
  <2> QED BY <1>2, <2>1, <2>2
<1>4. g.success BY <1>3, ScoreOf
<1>5. ASSUME b.success PROVE g.won + margin < b.won
  <2>1. g.unit = b.unit BY DEF Scored
  <2>2. /\ g.score = g.unit + num * savedG /\ b.score = b.unit + num * savedB
        /\ savedG \in Nat /\ savedB \in Nat /\ limit \in Int /\ g.unit \in Nat
    BY <1>4, <1>5, ScoreOf
  <2>3. g.won \in Nat /\ b.won \in Nat BY DEF Scored
  <2>4. savedG > savedB + margin
    <3> HIDE DEF num, savedG, savedB
    <3>1. \A x, y, z \in Nat : x * (y + z) = x * y + z * x
                               /\ x * y \in Nat /\ x * z \in Nat /\ x * (y + z) \in Nat
      BY SMT
    <3>2. num * (savedB + margin) = num * savedB + margin * num
          /\ num * savedB \in Nat /\ num * savedG \in Nat
      BY <1>1, <2>2, <3>1
    <3>3. num * savedG > num * (savedB + margin)
      <4> DEFINE x == num * savedG
                 y == num * savedB
                 z == margin * num
      <4>1. g.unit + x > g.unit + y + z
        <5> DEFINE m == margin * num
        <5>1. g.score > b.score + m BY <1>1
        <5>2. z = m OBVIOUS
        <5> HIDE DEF m, z
        <5> QED BY <2>1, <2>2, <5>1, <5>2
      <4>2. x \in Nat /\ y \in Nat /\ z \in Nat BY <1>2, <3>2
      <4> HIDE DEF x, y, z
      <4>3. x > y + z BY <2>2, <4>1, <4>2
      <4> QED BY <3>2, <4>3 DEF x, y, z
    <3>4. savedB + margin \in Int /\ savedG \in Int BY <2>2
    <3> DEFINE more == savedB + margin
    <3> HIDE DEF more
    <3>5. num * savedG > num * more BY <3>3 DEF more
    <3>6. savedG > more BY <1>1, <3>4, <3>5, FactorsCompare DEF more
    <3> QED BY <3>6 DEF more
  <2>5. Scale(limit) \in Nat BY <2>2, UnitIsPositive
  <2> HIDE DEF limit
  <2> QED BY <2>3, <2>4, <2>5 DEF Saved, Counted
<1> QED BY <1>4, <1>5

(* What the records hold makes every pair sound, and every success better than
   every failure of its group. *)
LEMMA RecordsAreSound ==
  ASSUME \A r \in records : Scored(r)
  PROVE  RankingPairsAreSound
<1>1. ASSUME NEW margin \in 0..1, NEW p \in MixedPairs(records, margin * StepBonus.num)
      PROVE  p.good.success /\ (p.bad.success => p.good.won + margin < p.bad.won)
  <2>1. PICK q \in records \X records :
          /\ q[1].group = q[2].group
          /\ q[1].score > q[2].score + margin * StepBonus.num
          /\ p = [good |-> q[1], bad |-> q[2], group |-> q[1].group]
    BY <1>1 DEF MixedPairs
  <2>2. Scored(q[1]) /\ Scored(q[2]) /\ p.good = q[1] /\ p.bad = q[2] BY <2>1
  <2>3. margin \in Nat OBVIOUS
  <2> QED BY <2>1, <2>2, <2>3, PairIsSound
<1>2. ASSUME NEW g \in records, NEW b \in records,
             g.group = b.group, g.success, ~b.success
      PROVE  [good |-> g, bad |-> b, group |-> g.group] \in RankingPairs(records)
  <2>1. g.score > 0 /\ g.score \in Nat /\ b.score = 0 BY <1>2, ScoreOf
  <2>2. <<g, b>> \in records \X records /\ <<g, b>>[1] = g /\ <<g, b>>[2] = b
    OBVIOUS
  <2>3. g.score > b.score + 0 BY <2>1
  <2> DEFINE q == <<g, b>>
  <2>4. q \in {x \in records \X records :
                 x[1].group = x[2].group /\ x[1].score > x[2].score + 0}
    BY <1>2, <2>2, <2>3
  <2>5. [good |-> g, bad |-> b, group |-> g.group]
          = [good |-> q[1], bad |-> q[2], group |-> q[1].group]
    BY <2>2
  <2> HIDE DEF q
  <2> QED BY <2>4, <2>5 DEF RankingPairs, MixedPairs
<1>3. ASSUME NEW r \in records
      PROVE  MixedTarget(r) = IF r.success THEN r.unit ELSE 0
  BY ScoreOf DEF MixedTarget, Scored
<1> QED BY <1>1, <1>2, <1>3 DEF RankingPairsAreSound

-----------------------------------------------------------------------------
(* A step of a policy on a line. *)

\* Sequences that agree on the length of one: it is a prefix of the other.
LEMMA PrefixByEntries ==
  ASSUME NEW s \in Seq(Lines), NEW t \in Seq(Lines), Len(s) <= Len(t),
         \A i \in 1..Len(s) : t[i] = s[i]
  PROVE  IsPrefix(s, t) /\ SubSeq(t, 1, Len(s)) = s
<1> DEFINE cut == SubSeq(t, 1, Len(s))
<1>1. /\ cut \in Seq(Lines) /\ Len(cut) = Len(s)
      /\ \A i \in 1..Len(s) : cut[i] = t[i]
  OBVIOUS
<1> HIDE DEF cut
<1>2. cut = s BY <1>1
<1>3. SubSeq(s, 1, Len(s)) = s OBVIOUS
<1> QED BY <1>2, <1>3 DEF IsPrefix, cut

\* The two lines of a branch are its own.
LEMMA BranchLines ==
  ASSUME InTurn
  PROVE  /\ PrefixLine \in Lines /\ TailLine \in Lines
         /\ PrefixLine # MainLine /\ TailLine # MainLine
         /\ PrefixLine[1] = Branches[branch] /\ TailLine[1] = Branches[branch]
         /\ PrefixPolicy(Branches[branch]) \in Policies
<1>1. Branches[branch] \in {"baseline", "qgf", "noisy"} BY DEF InTurn, Branches
<1> QED BY <1>1 DEF PrefixLine, TailLine, MainLine, Lines, PrefixPolicy, Policies

\* The main line is one of the lines.
LEMMA MainIsALine == MainLine \in Lines
BY DEF MainLine, Lines

(* The action that a policy selects comes from a chunk predicted on its own
   line, and what is left of the chunk was too, whatever the step reports. *)
LEMMA SelectedOnLine ==
  ASSUME ProbeTypes, NEW policy \in Policies, NEW line \in Lines, QueueOnLine(policy, line)
  PROVE  LET chunk == SelectAction(policy, sim)
         IN chunk \in Chunks /\ OnLine(sim, chunk.from, line)
<1>1. queues[policy] \in Chunks /\ sim \in Seq(Lines) BY DEF ProbeTypes
<1>2. CASE queues[policy].left > 0
  <2>1. SelectAction(policy, sim)
          = [from |-> queues[policy].from, left |-> queues[policy].left - 1]
    BY <1>1, <1>2 DEF SelectAction, Chunks
  <2>2. OnLine(sim, queues[policy].from, line) BY <1>2 DEF QueueOnLine
  <2> QED BY <1>1, <1>2, <2>1, <2>2 DEF Chunks
<1>3. CASE ~(queues[policy].left > 0)
  <2>1. SelectAction(policy, sim) = [from |-> sim, left |-> ChunkSteps - 1]
    BY <1>3 DEF SelectAction
  <2>2. OnLine(sim, sim, line) BY <1>1 DEF OnLine
  <2> QED BY <1>1, <2>1, <2>2 DEF Chunks
<1> QED BY <1>2, <1>3

\* A step that goes on keeps a simulation on its line.
LEMMA OnLineGoesOn ==
  ASSUME NEW s \in Seq(Lines), NEW from \in Seq(Lines), NEW line \in Lines,
         OnLine(s, from, line)
  PROVE  OnLine(Append(s, line), from, line)
<1> DEFINE t == Append(s, line)
           n == Len(s)
<1>1. n \in Nat /\ Len(t) = n + 1 /\ t[n + 1] = line /\ \A i \in 1..n : t[i] = s[i]
  OBVIOUS
<1>2. Len(from) \in Nat OBVIOUS
<1> HIDE DEF t, n
<1>3. Len(from) <= n /\ (\A i \in 1..Len(from) : s[i] = from[i])
      /\ \A i \in Len(from) + 1..n : s[i] = line
  BY DEF OnLine, n
<1>4. \A i \in Len(from) + 1..n + 1 : i \in Len(from) + 1..n \/ i = n + 1
  BY <1>1, <1>2
<1>5. \A i \in Len(from) + 1..n : i \in 1..n BY <1>1, <1>2
<1>6. \A i \in 1..Len(from) : i \in 1..n BY <1>1, <1>2, <1>3
<1>7. OnLine(t, from, line)
  <2>1. Len(from) <= Len(t) BY <1>1, <1>2, <1>3
  <2>2. \A i \in 1..Len(from) : t[i] = from[i] BY <1>1, <1>3, <1>6
  <2>3. \A i \in Len(from) + 1..Len(t) : t[i] = line BY <1>1, <1>3, <1>4, <1>5
  <2> QED BY <2>1, <2>2, <2>3 DEF OnLine
<1> QED BY <1>7 DEF t

(* A step on a line executes an action that was predicted on that line, and
   leaves the queue of its policy on the line unless the episode ended. *)
LEMMA StepOnLine ==
  ASSUME ProbeTypes, NEW policy \in Policies, NEW line \in Lines, QueueOnLine(policy, line),
         NEW o \in Outcomes, Simulated(line, policy, sim, o)
  PROVE  /\ queues' \in [Policies -> Chunks] /\ sim' \in Seq(Lines)
         /\ ~o.ended => sim' = Append(sim, line) /\ QueueOnLine(policy, line)'
         /\ \E from \in Seq(Lines) :
              /\ last' = [line |-> line, sim |-> sim, from |-> from]
              /\ OnLine(sim, from, line)
<1> DEFINE chunk == SelectAction(policy, sim)
<1>1. chunk \in Chunks /\ OnLine(sim, chunk.from, line) BY SelectedOnLine
<1>2. /\ sim' = IF o.ended THEN <<>> ELSE Append(sim, line)
      /\ queues' = [queues EXCEPT ![policy] = chunk]
      /\ last' = [line |-> line, sim |-> sim, from |-> chunk.from]
  BY DEF Simulated
<1> HIDE DEF chunk
<1>3. queues \in [Policies -> Chunks] /\ sim \in Seq(Lines) BY DEF ProbeTypes
<1>4. queues' \in [Policies -> Chunks] /\ queues'[policy] = chunk BY <1>1, <1>2, <1>3
<1>5. chunk.from \in Seq(Lines) BY <1>1 DEF Chunks
<1>6. ASSUME ~o.ended PROVE QueueOnLine(policy, line)'
  <2>1. sim' = Append(sim, line) BY <1>2, <1>6
  <2>2. OnLine(sim', chunk.from, line) BY <1>1, <1>3, <1>5, <2>1, OnLineGoesOn
  <2> QED BY <1>4, <2>2 DEF QueueOnLine
<1> QED BY <1>1, <1>2, <1>3, <1>4, <1>5, <1>6

\* A refused step only takes an action from a queue.
LEMMA RefusedTyped ==
  ASSUME ProbeTypes, NEW policy \in Policies, NEW observation \in Seq(Lines),
         Refused(policy, observation)
  PROVE  queues' \in [Policies -> Chunks] /\ sim' = sim /\ last' = last
<1>1. queues \in [Policies -> Chunks] BY DEF ProbeTypes
<1>2. queues[policy].left \in Nat /\ queues[policy] \in Chunks BY <1>1 DEF Chunks
<1>3. SelectAction(policy, observation) \in Chunks
  <2>1. CASE queues[policy].left > 0
    <3>1. SelectAction(policy, observation)
            = [from |-> queues[policy].from, left |-> queues[policy].left - 1]
      BY <1>2, <2>1 DEF SelectAction, Chunks
    <3> QED BY <1>2, <2>1, <3>1 DEF Chunks
  <2>2. CASE ~(queues[policy].left > 0)
    BY <2>2 DEF SelectAction, Chunks
  <2> QED BY <2>1, <2>2
<1> QED BY <1>1, <1>3 DEF Refused

\* policy.reset() leaves nothing of a chunk.
LEMMA NothingQueued ==
  ASSUME ProbeTypes, NEW policy \in Policies, queues' = Cleared(policy)
  PROVE  queues' \in [Policies -> Chunks] /\ queues'[policy].left = 0
<1>1. queues \in [Policies -> Chunks] BY DEF ProbeTypes
<1>2. NoChunk \in Chunks /\ NoChunk.left = 0 BY DEF NoChunk, Chunks
<1> QED BY <1>1, <1>2 DEF Cleared

\* An action of the main line is in its own past.
LEMMA MainActsAlike ==
  ASSUME ProbeTypes, NEW from \in Seq(Lines), OnLine(sim, from, MainLine),
         \A i \in 1..Len(sim) : sim[i] = MainLine, Len(sim) + 1 = step',
         last' = [line |-> MainLine, sim |-> sim, from |-> from]
  PROVE  BranchesStartAlike'
<1>1. sim \in Seq(Lines) BY DEF ProbeTypes
<1>2. IsPrefix(from, sim) BY <1>1, PrefixByEntries DEF OnLine
<1>3. last'.sim = sim /\ last'.from = from /\ last'.line = MainLine OBVIOUS
<1>4. DOMAIN sim = 1..Len(sim) /\ Len(sim) \in Nat BY <1>1
<1> QED BY <1>2, <1>3, <1>4 DEF BranchesStartAlike, OnLine

\* An action of a branch is in a continuation of the snapshot by the branch.
LEMMA BranchActsAlike ==
  ASSUME ProbeTypes, NEW from \in Seq(Lines), NEW line \in Lines, line # MainLine,
         OnLine(sim, from, line),
         snapshot \in Seq(Lines), snapshot' = snapshot,
         \A i \in 1..Len(snapshot) : snapshot[i] = MainLine,
         Len(snapshot) <= Len(sim),
         \A i \in 1..Len(snapshot) : sim[i] = snapshot[i],
         \A i \in Len(snapshot) + 1..Len(sim) : sim[i][1] = line[1],
         last' = [line |-> line, sim |-> sim, from |-> from]
  PROVE  BranchesStartAlike'
<1>1. sim \in Seq(Lines) BY DEF ProbeTypes
<1>2. IsPrefix(from, sim) BY <1>1, PrefixByEntries DEF OnLine
<1>3. SubSeq(sim, 1, Len(snapshot)) = snapshot BY <1>1, PrefixByEntries
<1>4. last'.sim = sim /\ last'.from = from /\ last'.line = line OBVIOUS
<1>5. DOMAIN sim = 1..Len(sim) /\ Len(sim) \in Nat /\ Len(snapshot) \in Nat BY <1>1
<1>6. \A i \in DOMAIN sim : IF i <= Len(snapshot) THEN sim[i] = MainLine
                                                  ELSE sim[i][1] = line[1]
  BY <1>5
<1>7. \A i \in Len(from) + 1..Len(sim) : sim[i] = line BY DEF OnLine
<1> QED BY <1>2, <1>3, <1>4, <1>6, <1>7 DEF BranchesStartAlike

-----------------------------------------------------------------------------
(* Every step of the probe keeps the invariant. *)

\* The last action is judged by the snapshot only if a branch took it.
LEMMA NoAction0 == NoAction.line = MainLine /\ NoAction.sim = <<>> /\ NoAction.from = <<>>
BY DEF NoAction

\* A step that takes no action and keeps the snapshot of a branch keeps this.
LEMMA Unmoved ==
  ASSUME BranchesStartAlike, last' = last, step' = step,
         snapshot' = snapshot \/ last.line = MainLine
  PROVE  BranchesStartAlike'
BY DEF BranchesStartAlike

\* The first episode begins with empty queues and no steps.
LEMMA StartEpisodeKeeps ==
  ASSUME ProbeInv, StartEpisode
  PROVE  ProbeInv'
<1> USE DEF StartEpisode, branchVars
<1>1. ProbeTypes /\ last = NoAction /\ probe' = "line" /\ queues' = Cleared("baseline")
  BY DEF ProbeInv
<1>2. "baseline" \in Policies BY DEF Policies
<1>3. queues' \in [Policies -> Chunks] /\ queues'["baseline"].left = 0
  BY <1>1, <1>2, NothingQueued
<1>4. ProbeTypes' BY <1>1, <1>3 DEF ProbeTypes
<1>5. OnTheLine' BY <1>1, <1>3, NoAction0 DEF OnTheLine, Past, QueueOnLine
<1>6. BranchesStartAlike'
  <2>1. last' = NoAction BY <1>1
  <2>2. IsPrefix(<<>>, <<>>) BY DEF IsPrefix
  <2> QED BY <2>1, <2>2, NoAction0 DEF BranchesStartAlike
<1> QED BY <1>1, <1>4, <1>5, <1>6
        DEF ProbeInv, Forked, InPrefix, InTail, Judged, Restored

\* A snapshot is of the main line's own past.
LEMMA TakeSnapshotKeeps ==
  ASSUME ProbeInv, TakeSnapshot
  PROVE  ProbeInv'
<1> USE DEF TakeSnapshot
<1>1. ProbeTypes /\ probe = "line" /\ probe' = "restore" /\ Past /\ sim = seen
      /\ last.line = MainLine /\ BranchesStartAlike
  BY DEF ProbeInv, OnTheLine
<1>2. ProbeTypes' BY <1>1 DEF ProbeTypes
<1>3. Forked' BY <1>1 DEF Forked, Past
<1>4. BranchesStartAlike' BY <1>1, Unmoved
<1> QED BY <1>1, <1>2, <1>3, <1>4
        DEF ProbeInv, OnTheLine, InPrefix, InTail, Judged, Restored

\* A branch starts on the snapshot, with an empty queue.
LEMMA StartBranchKeeps ==
  ASSUME ProbeInv, StartBranch
  PROVE  ProbeInv'
<1> USE DEF StartBranch, RestoreSnapshot
<1>1. ProbeTypes /\ probe = "restore" /\ probe' = "prefix" /\ Past /\ snapshot = seen
      /\ step < MaxSteps /\ branch >= 1 /\ BranchesStartAlike
  BY DEF ProbeInv, Forked
<1>2. InTurn /\ InTurn' BY <1>1 DEF InTurn, Branches, ProbeTypes
<1>3. PrefixPolicy(Branches[branch]) \in Policies BY <1>2, BranchLines
<1>4. queues' \in [Policies -> Chunks]
      /\ queues'[PrefixPolicy(Branches[branch])].left = 0
  BY <1>1, <1>3, NothingQueued
<1>5. ProbeTypes' BY <1>1, <1>4 DEF ProbeTypes
<1>6. Forked' BY <1>1 DEF Forked, Past
<1>7. InPrefix'
  <2>1. OnLine(sim', snapshot', PrefixLine')
    <3>1. sim' = snapshot /\ snapshot' = snapshot /\ snapshot \in Seq(Lines)
      BY <1>1 DEF ProbeTypes
    <3> QED BY <3>1 DEF OnLine
  <2>2. QueueOnLine(PrefixPolicy(Branches[branch]), PrefixLine)' BY <1>4 DEF QueueOnLine
  <2>3. taken' <= PrefixSteps OBVIOUS
  <2> QED BY <1>1, <1>2, <2>1, <2>2, <2>3 DEF InPrefix
<1>8. BranchesStartAlike' BY <1>1, Unmoved
<1> QED BY <1>1, <1>5, <1>6, <1>7, <1>8
        DEF ProbeInv, OnTheLine, InTail, Judged, Restored

\* A step of a prefix is taken on the branch's own line.
LEMMA PrefixStepKeeps ==
  ASSUME ProbeInv, PrefixStep
  PROVE  ProbeInv'
<1> DEFINE policy == PrefixPolicy(Branches[branch])
<1>1. /\ probe = "prefix" /\ taken < PrefixSteps /\ ~terminated
      /\ UNCHANGED <<probe, seen, step, snapshot, branch, tail, records>>
  BY DEF PrefixStep
<1>2. ProbeTypes /\ Past /\ snapshot = seen /\ step < MaxSteps /\ branch >= 1
      /\ BranchesStartAlike /\ \A r \in records : Scored(r)
  BY <1>1 DEF ProbeInv, Forked
<1>3. /\ InTurn /\ tail = 0 /\ (success => won \in 1..taken)
      /\ current = sim /\ OnLine(sim, snapshot, PrefixLine) /\ QueueOnLine(policy, PrefixLine)
  BY <1>1 DEF ProbeInv, InPrefix
<1>4. PrefixLine \in Lines /\ policy \in Policies /\ PrefixLine # MainLine
      /\ PrefixLine[1] = Branches[branch] /\ PrefixLine' = PrefixLine
  BY <1>1, <1>3, BranchLines DEF PrefixLine
<1>5. Forked' /\ InTurn' BY <1>1, <1>2, <1>3 DEF Forked, Past, InTurn
<1>6. CASE /\ Refused(policy, current)
           /\ terminated' = TRUE
           /\ UNCHANGED <<current, taken, success, won>>
  <2>1. queues' \in [Policies -> Chunks] /\ sim' = sim /\ last' = last
    <3> HIDE DEF policy
    <3>1. current \in Seq(Lines) BY <1>2 DEF ProbeTypes
    <3> QED BY <1>2, <1>4, <1>6, <3>1, RefusedTyped
  <2>2. ProbeTypes' BY <1>1, <1>2, <1>6, <2>1 DEF ProbeTypes
  <2>3. InPrefix' BY <1>1, <1>2, <1>3, <1>5, <1>6 DEF InPrefix, ProbeTypes
  <2>4. BranchesStartAlike' BY <1>1, <1>2, <2>1, Unmoved
  <2> QED BY <1>1, <1>2, <1>5, <2>2, <2>3, <2>4
          DEF ProbeInv, OnTheLine, InTail, Judged, Restored
<1>7. ASSUME NEW o \in Outcomes,
             /\ Simulated(PrefixLine, policy, current, o)
             /\ current' = sim'
             /\ taken' = taken + 1
             /\ success' = (success \/ o.success)
             /\ won' = IF o.success /\ ~success THEN taken + 1 ELSE won
             /\ terminated' = o.ended
      PROVE  ProbeInv'
  <2> HIDE DEF policy
  <2>1. /\ queues' \in [Policies -> Chunks] /\ sim' \in Seq(Lines)
        /\ ~o.ended => sim' = Append(sim, PrefixLine) /\ QueueOnLine(policy, PrefixLine)'
        /\ \E from \in Seq(Lines) :
             /\ last' = [line |-> PrefixLine, sim |-> sim, from |-> from]
             /\ OnLine(sim, from, PrefixLine)
    <3>1. Simulated(PrefixLine, policy, sim, o) BY <1>3, <1>7
    <3>2. ASSUME ~o.ended PROVE QueueOnLine(policy, PrefixLine)'
      <4> DEFINE line == PrefixLine
      <4>1. line \in Lines /\ line' = line BY <1>4
      <4>2. Simulated(line, policy, sim, o) /\ QueueOnLine(policy, line) BY <1>3, <3>1
      <4> HIDE DEF line
      <4>3. queues'[policy].left > 0 => OnLine(sim', queues'[policy].from, line)
        BY <1>2, <1>4, <3>2, <4>1, <4>2, StepOnLine DEF QueueOnLine, policy
      <4> QED BY <1>1, <1>4, <4>1, <4>3 DEF QueueOnLine, policy, line
    <3> DEFINE line == PrefixLine
    <3>3. line \in Lines /\ Simulated(line, policy, sim, o) /\ QueueOnLine(policy, line)
      BY <1>3, <1>4, <3>1
    <3> HIDE DEF line
    <3>4. /\ queues' \in [Policies -> Chunks] /\ sim' \in Seq(Lines)
          /\ ~o.ended => sim' = Append(sim, line)
          /\ \E from \in Seq(Lines) :
               /\ last' = [line |-> line, sim |-> sim, from |-> from]
               /\ OnLine(sim, from, line)
      BY <1>2, <1>4, <3>3, StepOnLine
    <3> QED BY <3>2, <3>4 DEF line
  <2>2. o.success \in BOOLEAN /\ o.ended \in BOOLEAN BY DEF Outcomes
  <2>3. ProbeTypes'
    BY <1>1, <1>2, <1>7, <2>1, <2>2 DEF ProbeTypes
  <2>4. ASSUME ~o.ended PROVE OnLine(sim', snapshot', PrefixLine')
    <3>1. snapshot \in Seq(Lines) /\ sim \in Seq(Lines) BY <1>2 DEF ProbeTypes
    <3>2. OnLine(Append(sim, PrefixLine), snapshot, PrefixLine)
      BY <1>3, <1>4, <3>1, OnLineGoesOn
    <3> QED BY <1>1, <1>4, <2>1, <2>4, <3>2
  <2>5. InPrefix'
    <3>1. taken \in Nat /\ won \in Nat /\ success \in BOOLEAN BY <1>2 DEF ProbeTypes
    <3>2. taken' <= PrefixSteps /\ tail' = 0 /\ (success' => won' \in 1..taken')
      BY <1>1, <1>3, <1>7, <2>2, <3>1
    <3>3. ~terminated' => QueueOnLine(PrefixPolicy(Branches[branch]), PrefixLine)'
      BY <1>1, <1>7, <2>1 DEF QueueOnLine, policy
    <3> QED BY <1>5, <1>7, <2>4, <3>2, <3>3 DEF InPrefix
  <2>6. BranchesStartAlike'
    <3>1. PICK from \in Seq(Lines) :
            /\ last' = [line |-> PrefixLine, sim |-> sim, from |-> from]
            /\ OnLine(sim, from, PrefixLine)
      BY <2>1
    <3>2. snapshot \in Seq(Lines) /\ (\A i \in 1..Len(snapshot) : snapshot[i] = MainLine)
      BY <1>2 DEF ProbeTypes, Past
    <3>3. /\ Len(snapshot) <= Len(sim)
          /\ \A i \in 1..Len(snapshot) : sim[i] = snapshot[i]
          /\ \A i \in Len(snapshot) + 1..Len(sim) : sim[i][1] = PrefixLine[1]
      BY <1>3 DEF OnLine
    <3> DEFINE line == PrefixLine
    <3>4. line \in Lines /\ line # MainLine BY <1>4
    <3>5. OnLine(sim, from, line) /\ last' = [line |-> line, sim |-> sim, from |-> from]
          /\ \A i \in Len(snapshot) + 1..Len(sim) : sim[i][1] = line[1]
      BY <3>1, <3>3
    <3> HIDE DEF line
    <3> QED BY <1>1, <1>2, <3>2, <3>3, <3>4, <3>5, BranchActsAlike
  <2> QED BY <1>1, <1>2, <1>5, <2>3, <2>5, <2>6
          DEF ProbeInv, OnTheLine, InTail, Judged, Restored
<1> QED BY <1>6, <1>7 DEF PrefixStep

\* The tail goes on where an undecided prefix ended, with an empty queue.
LEMMA StartTailKeeps ==
  ASSUME ProbeInv, StartTail
  PROVE  ProbeInv'
<1> USE DEF StartTail, branchVars
<1>1. ProbeTypes /\ probe = "prefix" /\ probe' = "tail" /\ Past /\ snapshot = seen
      /\ step < MaxSteps /\ branch >= 1 /\ BranchesStartAlike
  BY DEF ProbeInv, Forked
<1>2. /\ InTurn /\ taken = PrefixSteps /\ ~success /\ tail = 0
      /\ current = sim /\ OnLine(sim, snapshot, PrefixLine)
  BY <1>1 DEF ProbeInv, InPrefix
<1>3. "baseline" \in Policies BY DEF Policies
<1>4. queues' \in [Policies -> Chunks] /\ queues'["baseline"].left = 0
  BY <1>1, <1>3, NothingQueued
<1>5. ProbeTypes' BY <1>1, <1>4 DEF ProbeTypes
<1>6. Forked' BY <1>1 DEF Forked, Past
<1>7. InTail'
  <2>1. QueueOnLine("baseline", TailLine)' BY <1>4 DEF QueueOnLine
  <2>2. /\ Len(snapshot) <= Len(sim)
        /\ \A i \in 1..Len(snapshot) : sim[i] = snapshot[i]
        /\ \A i \in Len(snapshot) + 1..Len(sim) : sim[i][1] = Branches[branch]
    BY <1>2, BranchLines DEF OnLine
  <2> QED BY <1>1, <1>2, <2>1, <2>2 DEF InTail, InTurn
<1>8. BranchesStartAlike' BY <1>1, Unmoved
<1> QED BY <1>1, <1>5, <1>6, <1>7, <1>8
        DEF ProbeInv, OnTheLine, InPrefix, Judged, Restored

\* A step of a tail is taken on the branch's own line too.
LEMMA TailStepKeeps ==
  ASSUME ProbeInv, TailStep
  PROVE  ProbeInv'
<1>1. /\ probe = "tail" /\ tail < TailLimit
      /\ UNCHANGED <<seen, step, snapshot, branch, taken, terminated, records>>
  BY DEF TailStep
<1>2. ProbeTypes /\ Past /\ snapshot = seen /\ step < MaxSteps /\ branch >= 1
      /\ BranchesStartAlike /\ \A r \in records : Scored(r)
  BY <1>1 DEF ProbeInv, Forked
<1>3. /\ InTurn /\ taken = PrefixSteps /\ ~success
      /\ current = sim /\ QueueOnLine("baseline", TailLine)
      /\ Len(snapshot) <= Len(sim)
      /\ \A i \in 1..Len(snapshot) : sim[i] = snapshot[i]
      /\ \A i \in Len(snapshot) + 1..Len(sim) : sim[i][1] = Branches[branch]
  BY <1>1 DEF ProbeInv, InTail
<1>4. TailLine \in Lines /\ TailLine # MainLine
      /\ TailLine[1] = Branches[branch] /\ TailLine' = TailLine
  BY <1>1, <1>3, BranchLines DEF TailLine
<1>5. "baseline" \in Policies BY DEF Policies
<1>6. InTurn' BY <1>1, <1>3 DEF InTurn
<1>7. CASE /\ Refused("baseline", current)
           /\ probe' = "score"
           /\ UNCHANGED <<current, tail, success, won>>
  <2>1. queues' \in [Policies -> Chunks] /\ sim' = sim /\ last' = last
    <3>1. current \in Seq(Lines) BY <1>2 DEF ProbeTypes
    <3> QED BY <1>2, <1>5, <1>7, <3>1, RefusedTyped
  <2>2. ProbeTypes' BY <1>1, <1>2, <1>7, <2>1 DEF ProbeTypes
  <2>3. Judged' BY <1>1, <1>3, <1>6, <1>7 DEF Judged
  <2>4. BranchesStartAlike' BY <1>1, <1>2, <2>1, Unmoved
  <2>5. Forked' BY <1>1, <1>2 DEF Forked, Past
  <2> QED BY <1>1, <1>2, <1>7, <2>2, <2>3, <2>4, <2>5
          DEF ProbeInv, OnTheLine, InPrefix, InTail, Restored
<1>8. ASSUME NEW o \in Outcomes,
             /\ Simulated(TailLine, "baseline", current, o)
             /\ current' = sim'
             /\ tail' = tail + 1
             /\ success' = o.success
             /\ won' = IF o.success THEN taken + tail + 1 ELSE won
             /\ probe' = IF o.success \/ o.ended THEN "score" ELSE "tail"
      PROVE  ProbeInv'
  <2> DEFINE line == TailLine
  <2>0. line \in Lines /\ line # MainLine /\ line' = line /\ line = TailLine
        /\ line[1] = Branches[branch]
        /\ Simulated(line, "baseline", sim, o) /\ QueueOnLine("baseline", line)
    BY <1>3, <1>4, <1>8
  <2> HIDE DEF line
  <2>1. /\ queues' \in [Policies -> Chunks] /\ sim' \in Seq(Lines)
        /\ ~o.ended => sim' = Append(sim, line) /\ QueueOnLine("baseline", line)'
        /\ \E from \in Seq(Lines) :
             /\ last' = [line |-> line, sim |-> sim, from |-> from]
             /\ OnLine(sim, from, line)
    <3>1. ~o.ended => (queues'["baseline"].left > 0
                         => OnLine(sim', queues'["baseline"].from, line))
      BY <1>2, <1>5, <2>0, StepOnLine DEF QueueOnLine
    <3> QED BY <1>2, <1>5, <2>0, <3>1, StepOnLine DEF QueueOnLine
  <2>2. o.success \in BOOLEAN /\ o.ended \in BOOLEAN BY DEF Outcomes
  <2>3. ProbeTypes'
    BY <1>1, <1>2, <1>8, <2>1, <2>2 DEF ProbeTypes
  <2>4. snapshot \in Seq(Lines) /\ sim \in Seq(Lines) /\ tail \in Nat
        /\ (\A i \in 1..Len(snapshot) : snapshot[i] = MainLine)
    BY <1>2 DEF ProbeTypes, Past
  <2>5. InTail'
    <3> SUFFICES ASSUME probe' = "tail" PROVE InTail'
      BY DEF InTail
    <3>1. ~o.ended /\ ~o.success BY <1>8, <2>2
    <3>2. sim' = Append(sim, line) BY <2>1, <3>1
    <3>3. QueueOnLine("baseline", TailLine)' BY <1>1, <1>4, <2>0, <2>1, <3>1 DEF QueueOnLine
    <3>4. Len(snapshot) <= Len(sim') BY <1>3, <2>4, <3>2
    <3>5. \A i \in 1..Len(snapshot) : sim'[i] = snapshot[i]
      <4>1. \A i \in 1..Len(snapshot) : i \in 1..Len(sim) BY <1>3, <2>4
      <4>2. \A i \in 1..Len(sim) : sim'[i] = sim[i] BY <2>0, <2>4, <3>2
      <4> QED BY <1>3, <4>1, <4>2
    <3>6. \A i \in Len(snapshot) + 1..Len(sim') : sim'[i][1] = Branches[branch]
      <4>1. Len(sim') = Len(sim) + 1 /\ sim'[Len(sim) + 1] = line BY <2>0, <2>4, <3>2
      <4>2. \A i \in 1..Len(sim) : sim'[i] = sim[i] BY <2>0, <2>4, <3>2
      <4>3. \A i \in Len(snapshot) + 1..Len(sim) + 1 :
              i = Len(sim) + 1 \/ (i \in 1..Len(sim) /\ i \in Len(snapshot) + 1..Len(sim))
        BY <2>4
      <4> QED BY <1>3, <2>0, <4>1, <4>2, <4>3
    <3> QED BY <1>1, <1>3, <1>6, <1>8, <3>1, <3>3, <3>4, <3>5, <3>6 DEF InTail
  <2>6. Judged'
    <3>1. taken' = PrefixSteps /\ (success' => won' = PrefixSteps + tail')
      BY <1>1, <1>3, <1>8, <2>4
    <3> QED BY <1>6, <3>1 DEF Judged
  <2>7. BranchesStartAlike'
    <3>1. PICK from \in Seq(Lines) :
            /\ last' = [line |-> line, sim |-> sim, from |-> from]
            /\ OnLine(sim, from, line)
      BY <2>1
    <3>2. \A i \in Len(snapshot) + 1..Len(sim) : sim[i][1] = line[1] BY <1>3, <2>0
    <3> QED BY <1>1, <1>2, <1>3, <2>0, <2>4, <3>1, <3>2, BranchActsAlike
  <2>8. Forked' BY <1>1, <1>2 DEF Forked, Past
  <2> QED BY <1>1, <1>2, <1>8, <2>3, <2>5, <2>6, <2>7, <2>8
          DEF ProbeInv, OnTheLine, InPrefix, Restored
<1> QED BY <1>7, <1>8 DEF TailStep

(* The record of a branch scores its success, or the whole prefix if that is
   longer; a branch that was cut off has won nothing. *)
LEMMA FinishBranchKeeps ==
  ASSUME ProbeInv, FinishBranch
  PROVE  ProbeInv'
<1>1. /\ BranchOver /\ branch' = branch + 1 /\ probe' = "restore"
      /\ UNCHANGED <<sim, seen, queues, step, snapshot, current, taken, tail, success,
                     terminated, won, last>>
  BY DEF FinishBranch
<1>2. probe \in {"prefix", "tail", "score"} BY <1>1 DEF BranchOver
<1>3. ProbeTypes /\ Past /\ snapshot = seen /\ step < MaxSteps /\ branch >= 1
      /\ BranchesStartAlike /\ \A r \in records : Scored(r)
  BY <1>2 DEF ProbeInv, Forked
<1> DEFINE r == [group |-> step, branch |-> Branches[branch], success |-> success,
                 score |-> ScoreBranch(success, TotalSteps, TailLimit),
                 unit |-> ScoreUnit(TailLimit), won |-> won]
<1>4. records' = records \union {r} BY DEF FinishBranch
<1>5. Scored(r)
  <2>1. TailLimit = LimitAt(step) BY DEF TailLimit, LimitAt
  <2>2. success => TotalSteps = Counted(won)
    <3>1. CASE probe = "prefix"
      <4>1. tail = 0 /\ taken <= PrefixSteps /\ (success => won \in 1..taken)
        BY <3>1 DEF ProbeInv, InPrefix
      <4>2. taken \in Nat /\ won \in Nat BY <1>3 DEF ProbeTypes
      <4> QED BY <4>1, <4>2 DEF TotalSteps, Counted
    <3>2. CASE probe = "tail"
      <4>1. ~success BY <3>2 DEF ProbeInv, InTail
      <4> QED BY <4>1
    <3>3. CASE probe = "score"
      <4>1. success => won = PrefixSteps + tail BY <3>3 DEF ProbeInv, Judged
      <4>2. tail \in Nat BY <1>3 DEF ProbeTypes
      <4> QED BY <4>1, <4>2 DEF TotalSteps, Counted
    <3> QED BY <1>2, <3>1, <3>2, <3>3
  <2>3. step \in 0..MaxSteps /\ success \in BOOLEAN /\ won \in Nat
    BY <1>3 DEF ProbeTypes
  <2>4. ScoreBranch(success, TotalSteps, TailLimit)
          = ScoreBranch(success, Counted(won), LimitAt(step))
    BY <2>1, <2>2 DEF ScoreBranch
  <2> QED BY <2>1, <2>3, <2>4 DEF Scored
<1> HIDE DEF r
<1>6. \A x \in records' : Scored(x) BY <1>3, <1>4, <1>5
<1>7. ProbeTypes' BY <1>1, <1>3 DEF ProbeTypes
<1>8. Forked' BY <1>1, <1>3 DEF Forked, Past, ProbeTypes
<1>9. BranchesStartAlike' BY <1>1, <1>3, Unmoved
<1> QED BY <1>1, <1>6, <1>7, <1>8, <1>9
        DEF ProbeInv, OnTheLine, InPrefix, InTail, Judged, Restored

\* The main line goes on from the snapshot, without the chunk it had.
LEMMA ResumeKeeps ==
  ASSUME ProbeInv, Resume
  PROVE  ProbeInv'
<1> USE DEF Resume, RestoreSnapshot, branchVars
<1>1. ProbeTypes /\ probe = "restore" /\ probe' = "resumed" /\ Past /\ snapshot = seen
      /\ step < MaxSteps /\ branch >= 1 /\ BranchesStartAlike
  BY DEF ProbeInv, Forked
<1>2. "baseline" \in Policies BY DEF Policies
<1>3. queues' \in [Policies -> Chunks] /\ queues'["baseline"].left = 0
  BY <1>1, <1>2, NothingQueued
<1>4. ProbeTypes' BY <1>1, <1>3 DEF ProbeTypes
<1>5. Forked' BY <1>1 DEF Forked, Past
<1>6. Restored' BY <1>3 DEF Restored
<1>7. BranchesStartAlike' BY <1>1, Unmoved
<1> QED BY <1>1, <1>4, <1>5, <1>6, <1>7
        DEF ProbeInv, OnTheLine, InPrefix, InTail, Judged

\* A step of the main line, after the branches or without them.
LEMMA DriveOnKeeps ==
  ASSUME ProbeInv, DriveOn
  PROVE  ProbeInv'
<1>1. /\ step < MaxSteps /\ probe \in {"line", "resumed"}
      /\ UNCHANGED <<snapshot, branchVars, records>>
  BY DEF DriveOn
<1>2. ProbeTypes /\ Past /\ BranchesStartAlike /\ (\A r \in records : Scored(r))
      /\ sim = seen /\ QueueOnLine("baseline", MainLine)
  <2>1. CASE probe = "line" BY <2>1 DEF ProbeInv, OnTheLine
  <2>2. CASE probe = "resumed" BY <2>2 DEF ProbeInv, Forked, Restored, QueueOnLine
  <2> QED BY <1>1, <2>1, <2>2
<1>3. "baseline" \in Policies BY DEF Policies
<1>4. CASE Refused("baseline", seen) /\ probe' = "failed" /\ UNCHANGED <<seen, step>>
  <2>1. queues' \in [Policies -> Chunks] /\ sim' = sim /\ last' = last
    <3>1. seen \in Seq(Lines) BY <1>2 DEF ProbeTypes
    <3> QED BY <1>2, <1>3, <1>4, <3>1, RefusedTyped
  <2>2. ProbeTypes' BY <1>1, <1>2, <1>4, <2>1 DEF ProbeTypes, branchVars
  <2>3. BranchesStartAlike' BY <1>1, <1>2, <1>4, <2>1, Unmoved
  <2> QED BY <1>1, <1>2, <1>4, <2>2, <2>3
          DEF ProbeInv, OnTheLine, Forked, InPrefix, InTail, Judged, Restored
<1>5. ASSUME NEW o \in Outcomes,
             /\ Simulated(MainLine, "baseline", seen, o)
             /\ seen' = sim'
             /\ step' = step + 1
             /\ probe' = IF o.success \/ o.ended \/ step' = MaxSteps THEN "done" ELSE "line"
      PROVE  ProbeInv'
  <2> DEFINE line == MainLine
  <2>0. line \in Lines /\ Simulated(line, "baseline", sim, o) /\ QueueOnLine("baseline", line)
        /\ line = MainLine
    BY <1>2, <1>5, MainIsALine
  <2> HIDE DEF line
  <2>1. /\ queues' \in [Policies -> Chunks] /\ sim' \in Seq(Lines)
        /\ ~o.ended => sim' = Append(sim, line) /\ QueueOnLine("baseline", line)'
        /\ \E from \in Seq(Lines) :
             /\ last' = [line |-> line, sim |-> sim, from |-> from]
             /\ OnLine(sim, from, line)
    BY <1>2, <1>3, <2>0, StepOnLine
  <2>2. o.success \in BOOLEAN /\ o.ended \in BOOLEAN BY DEF Outcomes
  <2>3. ProbeTypes'
    BY <1>1, <1>2, <1>5, <2>1 DEF ProbeTypes, branchVars
  <2>4. sim \in Seq(Lines) /\ step \in Nat /\ Len(sim) = step
        /\ \A i \in 1..Len(sim) : sim[i] = MainLine
    BY <1>2 DEF ProbeTypes, Past
  <2>5. PICK from \in Seq(Lines) :
          /\ last' = [line |-> line, sim |-> sim, from |-> from]
          /\ OnLine(sim, from, line)
    BY <2>1
  <2>6. BranchesStartAlike'
    BY <1>2, <1>5, <2>0, <2>4, <2>5, MainActsAlike
  <2>7. OnTheLine'
    <3> SUFFICES ASSUME probe' = "line" PROVE OnTheLine'
      BY DEF OnTheLine
    <3>1. ~o.ended BY <1>5, <2>2
    <3>2. sim' = Append(sim, MainLine) BY <2>0, <2>1, <3>1
    <3>3. QueueOnLine("baseline", MainLine)' BY <2>0, <2>1, <3>1 DEF QueueOnLine
    <3>4. Past'
      <4>1. /\ Len(Append(sim, line)) = Len(sim) + 1
            /\ \A i \in 1..Len(sim) : Append(sim, line)[i] = sim[i]
            /\ Append(sim, line)[Len(sim) + 1] = line
        BY <2>0, <2>4
      <4> DEFINE n == Len(sim)
      <4>2. n \in Nat /\ n = step /\ \A i \in 1..n : sim[i] = MainLine BY <2>4
      <4>3. seen' = Append(sim, line) /\ step' = step + 1 BY <1>5, <2>0, <3>2
      <4> DEFINE more == Append(sim, line)
      <4>4. Len(more) = n + 1 /\ (\A i \in 1..n : more[i] = MainLine)
            /\ more[n + 1] = MainLine
        BY <2>0, <4>1, <4>2
      <4> HIDE DEF n, more
      <4>5. \A i \in 1..n + 1 : i \in 1..n \/ i = n + 1 BY <4>2
      <4>6. \A i \in 1..Len(more) : more[i] = MainLine BY <4>4, <4>5
      <4>7. Len(more) = step + 1 BY <4>2, <4>4
      <4>8. seen' = more BY <4>3 DEF more
      <4> QED BY <4>3, <4>6, <4>7, <4>8 DEF Past
    <3>5. last'.line = MainLine BY <2>0, <2>5
    <3> QED BY <1>5, <3>3, <3>4, <3>5 DEF OnTheLine
  <2> QED BY <1>1, <1>2, <1>5, <2>3, <2>6, <2>7
          DEF ProbeInv, Forked, InPrefix, InTail, Judged, Restored
<1> QED BY <1>4, <1>5 DEF DriveOn

\* The invariant of the probe is inductive.
LEMMA ProbeKeepsInv ==
  ASSUME ProbeInv, [ProbeNext]_probeVars
  PROVE  ProbeInv'
<1>1. CASE StartEpisode BY <1>1, StartEpisodeKeeps
<1>2. CASE TakeSnapshot BY <1>2, TakeSnapshotKeeps
<1>3. CASE StartBranch BY <1>3, StartBranchKeeps
<1>4. CASE PrefixStep BY <1>4, PrefixStepKeeps
<1>5. CASE StartTail BY <1>5, StartTailKeeps
<1>6. CASE TailStep BY <1>6, TailStepKeeps
<1>7. CASE FinishBranch BY <1>7, FinishBranchKeeps
<1>8. CASE Resume BY <1>8, ResumeKeeps
<1>9. CASE DriveOn BY <1>9, DriveOnKeeps
<1>10. CASE UNCHANGED probeVars
  <2> USE <1>10 DEF probeVars, ProbeInv
  <2>1. ProbeTypes' BY DEF ProbeTypes
  <2>2. (probe' = "idle" => last' = NoAction) OBVIOUS
  <2>3. OnTheLine' BY DEF OnTheLine, Past, QueueOnLine
  <2>4. Forked' BY DEF Forked, Past
  <2>5. InPrefix' BY DEF InPrefix, InTurn, QueueOnLine, PrefixLine
  <2>6. InTail' BY DEF InTail, InTurn, QueueOnLine, TailLine
  <2>7. Judged' /\ Restored' BY DEF Judged, Restored, InTurn
  <2>8. BranchesStartAlike' BY Unmoved
  <2>9. \A r \in records' : Scored(r) OBVIOUS
  <2> QED BY <2>1, <2>2, <2>3, <2>4, <2>5, <2>6, <2>7, <2>8, <2>9
<1> QED BY <1>1, <1>2, <1>3, <1>4, <1>5, <1>6, <1>7, <1>8, <1>9, <1>10 DEF ProbeNext

(* The invariant holds for any number of steps of an episode, of branches and
   of a prefix: what each queue holds was predicted on the line that will
   execute it. *)
THEOREM ProbeInvariant == ProbeSpec => []ProbeInv
<1>1. ProbeInit => ProbeInv
  <2> SUFFICES ASSUME ProbeInit PROVE ProbeInv
    OBVIOUS
  <2> USE DEF ProbeInit
  <2>1. NoChunk \in Chunks BY DEF NoChunk, Chunks
  <2>2. ProbeTypes
    <3>1. queues \in [Policies -> Chunks] BY <2>1
    <3>2. <<>> \in Seq(Lines) /\ 0 \in 0..MaxSteps OBVIOUS
    <3> QED BY <3>1, <3>2 DEF ProbeTypes
  <2>3. BranchesStartAlike
    <3>1. IsPrefix(<<>>, <<>>) BY DEF IsPrefix
    <3> QED BY <3>1, NoAction0 DEF BranchesStartAlike
  <2> QED BY <2>2, <2>3
          DEF ProbeInv, OnTheLine, Forked, InPrefix, InTail, Judged, Restored
<1>2. ProbeInv /\ [ProbeNext]_probeVars => ProbeInv' BY ProbeKeepsInv
<1> QED BY <1>1, <1>2, PTL DEF ProbeSpec

(* Every line acts in its own continuation of the main line's past, on a chunk
   that it predicted itself since it began, for any number of steps, snapshots and
   actions of a chunk, and whatever the simulator reports. *)
THEOREM LinesStayApart == ProbeSpec => []BranchesStartAlike
<1>1. ProbeInv => BranchesStartAlike BY DEF ProbeInv
<1> QED BY <1>1, ProbeInvariant, PTL

(* The ranking pairs of the probe and of the mixed critic are sound, for every
   bonus and every length of the prefixes and tails. *)
THEOREM PairsAreSound == ProbeSpec => []RankingPairsAreSound
<1>1. ProbeInv => RankingPairsAreSound BY RecordsAreSound DEF ProbeInv
<1> QED BY <1>1, ProbeInvariant, PTL

-----------------------------------------------------------------------------
(* Least elements. *)

\* A set of numbers that is not empty has a least one.
LEMMA LeastExists ==
  ASSUME NEW S \in SUBSET Nat, S # {}
  PROVE  \E m \in S : \A k \in S : m <= k
<1> DEFINE Below == OpToRel(<, Nat)
<1>1. PICK m \in S : \A k \in S : <<k, m>> \notin Below
  BY NatLessThanWellFounded, WFMin
<1>2. \A k \in S : ~(k < m) BY <1>1 DEF OpToRel
<1> QED BY <1>2

\* Of some indices with a gap each, there is the first of those with the least.
LEMMA FirstExists ==
  ASSUME NEW S \in SUBSET Nat, S # {}, NEW gap \in [S -> Nat]
  PROVE  \E i \in S : \A k \in S : gap[i] < gap[k] \/ (gap[i] = gap[k] /\ i <= k)
<1> DEFINE Gaps == {gap[i] : i \in S}
<1>1. PICK g \in Gaps : \A h \in Gaps : g <= h
  <2>1. \A i \in S : gap[i] \in Nat OBVIOUS
  <2>2. \A h \in Gaps : h \in Nat BY <2>1
  <2>3. \A i \in S : gap[i] \in Gaps OBVIOUS
  <2> HIDE DEF Gaps
  <2>4. Gaps \in SUBSET Nat /\ Gaps # {} BY <2>2, <2>3
  <2> QED BY <2>4, LeastExists
<1>2. \A k \in S : gap[k] \in Nat /\ g <= gap[k] BY <1>1
<1> DEFINE Nearest0 == {i \in S : gap[i] = g}
<1>3. PICK i \in Nearest0 : \A k \in Nearest0 : i <= k
  <2>1. Nearest0 \in SUBSET Nat /\ Nearest0 # {} BY <1>1
  <2> HIDE DEF Nearest0
  <2> QED BY <2>1, LeastExists
<1>4. i \in S /\ gap[i] = g /\ g \in Nat BY <1>1, <1>3
<1>5. \A k \in S : gap[k] = g => i <= k BY <1>3
<1> QED BY <1>2, <1>4, <1>5

-----------------------------------------------------------------------------
(* Powers of the discount, and what is left of a reward some rows before it. *)

\* A power is its base times the power before.
IsPower(p, base, n) ==
  /\ DOMAIN p = 0..n
  /\ \A k \in 0..n : p[k] = IF k = 0 THEN 1 ELSE base * p[k - 1]

\* The powers exist up to any number.
LEMMA PowersExist ==
  ASSUME NEW base, NEW n \in Nat
  PROVE  \E p : IsPower(p, base, n)
<1> DEFINE Without == {k \in Nat : ~ \E p : IsPower(p, base, k)}
<1> SUFFICES ASSUME Without # {} PROVE FALSE
  OBVIOUS
<1>1. PICK k \in Without : \A y \in Without : k <= y
  <2>1. Without \in SUBSET Nat OBVIOUS
  <2> HIDE DEF Without
  <2> QED BY <2>1, LeastExists
<1>2. k # 0
  <2> DEFINE p == [i \in 0..0 |-> 1]
  <2>1. DOMAIN p = 0..0 /\ \A i \in 0..0 : p[i] = 1 /\ i = 0 OBVIOUS
  <2> HIDE DEF p
  <2>2. IsPower(p, base, 0) BY <2>1 DEF IsPower
  <2> QED BY <2>2
<1>3. k - 1 \in Nat /\ k \in Nat BY <1>2
<1>4. k - 1 \notin Without
  <2> HIDE DEF Without
  <2> QED BY <1>1, <1>3
<1>5. PICK q : IsPower(q, base, k - 1) BY <1>3, <1>4
<1> DEFINE p == [i \in 0..k |-> IF i = k THEN base * q[k - 1] ELSE q[i]]
<1>6. DOMAIN p = 0..k OBVIOUS
<1>7. p[k] = base * q[k - 1] /\ \A i \in 0..k - 1 : p[i] = q[i] BY <1>3
<1> HIDE DEF p, Without
<1>8. ASSUME NEW i \in 0..k
      PROVE  p[i] = IF i = 0 THEN 1 ELSE base * p[i - 1]
  <2>1. CASE i = k
    <3>1. k - 1 \in 0..k - 1 BY <1>3
    <3> QED BY <1>2, <1>7, <2>1, <3>1
  <2>2. CASE i # k
    <3>1. i \in 0..k - 1 /\ (i # 0 => i - 1 \in 0..k - 1) BY <1>3, <2>2
    <3>2. q[i] = IF i = 0 THEN 1 ELSE base * q[i - 1] BY <1>5, <3>1 DEF IsPower
    <3> QED BY <1>7, <3>1, <3>2
  <2> QED BY <2>1, <2>2
<1>9. IsPower(p, base, k) BY <1>6, <1>8 DEF IsPower
<1>10. k \notin Without BY <1>9 DEF Without
<1> QED BY <1>1, <1>10

\* The recursive function is this one.
LEMMA PowerIsPower ==
  ASSUME NEW base
  PROVE  IsPower(Power(base), base, MaxSamples)
<1> DEFINE G(g) == [n \in 0..MaxSamples |-> IF n = 0 THEN 1 ELSE base * g[n - 1]]
           p == CHOOSE g : g = G(g)
<1>1. Power(base) = p BY DEF Power
<1>2. \E g : g = G(g)
  <2>1. MaxSamples \in Nat BY RowsAssumption
  <2>2. PICK q : IsPower(q, base, MaxSamples) BY <2>1, PowersExist
  <2> DEFINE g == [n \in 0..MaxSamples |-> q[n]]
  <2>3. \A n \in 0..MaxSamples :
          g[n] = IF n = 0 THEN 1 ELSE base * g[n - 1]
    <3> SUFFICES ASSUME NEW n \in 0..MaxSamples
                 PROVE  g[n] = IF n = 0 THEN 1 ELSE base * g[n - 1]
      OBVIOUS
    <3>1. n # 0 => n - 1 \in 0..MaxSamples BY <2>1
    <3> QED BY <2>2, <3>1 DEF IsPower
  <2>4. g = G(g) BY <2>3
  <2> QED BY <2>4
<1>3. p = G(p)
  <2> HIDE DEF G
  <2> QED BY <1>2
<1>4. DOMAIN p = 0..MaxSamples /\ \A n \in 0..MaxSamples :
        p[n] = IF n = 0 THEN 1 ELSE base * p[n - 1]
  <2> HIDE DEF p
  <2> QED BY <1>3
<1> QED BY <1>1, <1>4 DEF IsPower

\* Powers of natural numbers are natural, and above 0 if the base is.
LEMMA PowerTyped ==
  ASSUME NEW base \in Nat, NEW n \in 0..MaxSamples
  PROVE  Power(base)[n] \in Nat /\ (base # 0 => Power(base)[n] # 0)
<1> DEFINE p == Power(base)
           Good(k) == p[k] \in Nat /\ (base # 0 => p[k] # 0)
           Wrong == {k \in Nat : k <= MaxSamples /\ ~Good(k)}
<1>0. MaxSamples \in Nat BY RowsAssumption
<1>1. \A k \in 0..MaxSamples : p[k] = IF k = 0 THEN 1 ELSE base * p[k - 1]
  BY PowerIsPower DEF IsPower
<1> HIDE DEF p
<1> SUFFICES ASSUME Wrong # {} PROVE FALSE
  <2>1. n \notin Wrong => Good(n) BY <1>0
  <2> HIDE DEF Good, Wrong
  <2>2. Wrong = {} => Good(n) BY <2>1
  <2> QED BY <2>2 DEF p, Good
<1>2. PICK k \in Wrong : \A y \in Wrong : k <= y
  <2>1. Wrong \in SUBSET Nat OBVIOUS
  <2> HIDE DEF Wrong
  <2> QED BY <2>1, LeastExists
<1>3. k \in 0..MaxSamples /\ ~Good(k) BY <1>0
<1>4. k # 0
  <2>1. p[0] = 1 BY <1>0, <1>1
  <2> QED BY <1>3, <2>1
<1>5. Good(k - 1)
  <2>1. k - 1 \in Nat /\ k - 1 <= MaxSamples BY <1>0, <1>3, <1>4
  <2>2. k - 1 \notin Wrong
    <3> HIDE DEF Wrong, Good
    <3> QED BY <1>0, <1>2, <1>3, <2>1
  <2> QED BY <2>1, <2>2
<1>6. p[k] = base * p[k - 1] BY <1>1, <1>3, <1>4
<1>7. \A a, b \in Nat : a * b \in Nat /\ (a # 0 /\ b # 0 => a * b # 0) OBVIOUS
<1> QED BY <1>3, <1>5, <1>6, <1>7

\* The unit of a value is a number above 0.
LEMMA UnitIsAboveZero == One \in Nat \ {0}
<1>1. MaxSamples \in 0..MaxSamples BY RowsAssumption
<1> QED BY <1>1, PowerTyped, RowsAssumption DEF One

\* Each row before a success discounts it once more, without a remainder.
LEMMA DiscountOnceMore ==
  /\ Discount(0) = One
  /\ \A d \in 0..MaxSamples : Discount(d) \in Nat
  /\ \A d \in 1..MaxSamples :
       (GammaNum * Discount(d - 1)) \div GammaDen = Discount(d)
<1> DEFINE a == Power(GammaNum)
           b == Power(GammaDen)
<1>0. /\ MaxSamples \in Nat /\ GammaNum \in Nat /\ GammaDen \in Nat \ {0}
  BY RowsAssumption
<1>1. \A d \in 0..MaxSamples : a[d] \in Nat /\ b[d] \in Nat
  BY <1>0, PowerTyped
<1>2. /\ \A k \in 0..MaxSamples : a[k] = IF k = 0 THEN 1 ELSE GammaNum * a[k - 1]
      /\ \A k \in 0..MaxSamples : b[k] = IF k = 0 THEN 1 ELSE GammaDen * b[k - 1]
  BY PowerIsPower DEF IsPower
<1>3. Discount(0) = a[0] * b[MaxSamples - 0] /\ One = b[MaxSamples] BY DEF Discount, One
<1>4. \A d \in 0..MaxSamples : Discount(d) = a[d] * b[MaxSamples - d] BY DEF Discount
<1> HIDE DEF a, b
<1>5. Discount(0) = One
  <2>1. a[0] = 1 /\ MaxSamples - 0 = MaxSamples BY <1>0, <1>2
  <2>2. b[MaxSamples] \in Nat BY <1>0, <1>1
  <2> QED BY <1>3, <2>1, <2>2
<1>6. ASSUME NEW d \in 0..MaxSamples PROVE Discount(d) \in Nat
  <2>1. MaxSamples - d \in 0..MaxSamples BY <1>0
  <2>2. a[d] \in Nat /\ b[MaxSamples - d] \in Nat BY <1>1, <2>1
  <2> QED BY <1>4, <2>2
<1>7. ASSUME NEW d \in 1..MaxSamples
      PROVE  (GammaNum * Discount(d - 1)) \div GammaDen = Discount(d)
  <2>1. /\ d \in 0..MaxSamples /\ d - 1 \in 0..MaxSamples /\ d # 0
        /\ MaxSamples - d \in 0..MaxSamples
        /\ MaxSamples - (d - 1) \in 0..MaxSamples /\ MaxSamples - (d - 1) # 0
        /\ MaxSamples - (d - 1) - 1 = MaxSamples - d
    BY <1>0
  <2>2. a[d] = GammaNum * a[d - 1] BY <1>2, <2>1
  <2>3. b[MaxSamples - (d - 1)] = GammaDen * b[MaxSamples - d] BY <1>2, <2>1
  <2>4. Discount(d - 1) = a[d - 1] * (GammaDen * b[MaxSamples - d])
    BY <1>4, <2>1, <2>3
  <2>5. Discount(d) = (GammaNum * a[d - 1]) * b[MaxSamples - d]
    BY <1>4, <2>1, <2>2
  <2>6. a[d - 1] \in Nat /\ b[MaxSamples - d] \in Nat BY <1>1, <2>1
  <2>7. \A x, y \in Nat :
          (GammaNum * (x * (GammaDen * y))) = ((GammaNum * x) * y) * GammaDen
    BY <1>0
  <2>8. \A z \in Nat : (z * GammaDen) \div GammaDen = z BY <1>0
  <2>9. (GammaNum * a[d - 1]) * b[MaxSamples - d] \in Nat BY <1>0, <2>6
  <2>10. GammaNum * Discount(d - 1) = Discount(d) * GammaDen
    BY <2>4, <2>5, <2>6, <2>7
  <2> QED BY <2>5, <2>8, <2>9, <2>10
<1> QED BY <1>5, <1>6, <1>7

-----------------------------------------------------------------------------
(* The rows of an episode: a table in the order of its times whose last row   *)
(* alone is done, and rewarded if the episode succeeded.                      *)

Table(rows, succeeded) ==
  /\ Len(rows) \in Nat \ {0} /\ DOMAIN rows = 1..Len(rows)
  /\ \A i \in DOMAIN rows : rows[i].time \in Int
  /\ \A i, k \in DOMAIN rows : i < k => rows[i].time < rows[k].time
  /\ \A i \in DOMAIN rows :
       /\ rows[i].done = (i = Len(rows))
       /\ rows[i].success = (succeeded /\ i = Len(rows))
       /\ rows[i].terminated = (succeeded /\ i = Len(rows))
       /\ rows[i].truncated = (~succeeded /\ i = Len(rows))
       /\ rows[i].reward = IF succeeded /\ i = Len(rows) THEN One ELSE 0

\* What the finalizer makes of a capture is such a table.
LEMMA TransitionsAreTable ==
  ASSUME NEW samples, NEW n \in Nat, n >= 2, Len(samples) = n,
         \A i \in 1..n : samples[i].time \in Int,
         \A i, k \in 1..n : i < k => samples[i].time < samples[k].time,
         NEW succeeded \in BOOLEAN
  PROVE  Table(BuildTransitions(samples, succeeded), succeeded)
<1> DEFINE rows == BuildTransitions(samples, succeeded)
<1>1. rows = [i \in 1..n - 1 |-> Row(samples, succeeded, i)] BY DEF BuildTransitions
<1>2. n - 1 \in Nat \ {0} OBVIOUS
<1>3. Len(rows) = n - 1 /\ DOMAIN rows = 1..n - 1 BY <1>1, <1>2
<1>4. \A i \in 1..n - 1 : rows[i] = Row(samples, succeeded, i) BY <1>1
<1> HIDE DEF rows
<1>5. ASSUME NEW i \in 1..n - 1
      PROVE  /\ rows[i].time = samples[i].time /\ rows[i].done = (i = n - 1)
             /\ rows[i].success = (succeeded /\ i = n - 1)
             /\ rows[i].terminated = (succeeded /\ i = n - 1)
             /\ rows[i].truncated = (~succeeded /\ i = n - 1)
             /\ rows[i].reward = IF succeeded /\ i = n - 1 THEN One ELSE 0
  <2>1. rows[i] = [time |-> samples[i].time, state |-> samples[i].state,
                   nextState |-> samples[i + 1].state,
                   reward |-> IF succeeded /\ i = n - 1 THEN One ELSE 0,
                   success |-> succeeded /\ i = n - 1,
                   terminated |-> succeeded /\ i = n - 1,
                   truncated |-> ~succeeded /\ i = n - 1,
                   done |-> (i = n - 1), camera |-> samples[i].camera]
    BY <1>4 DEF Row
  <2> QED BY <2>1
<1>6. \A i \in 1..n - 1 : i \in 1..n OBVIOUS
<1>7. \A i \in 1..n - 1 : rows[i].time \in Int BY <1>5, <1>6
<1>8. \A i, k \in 1..n - 1 : i < k => rows[i].time < rows[k].time BY <1>5, <1>6
<1> QED BY <1>2, <1>3, <1>5, <1>7, <1>8 DEF Table, rows

\* The rows before a time are the first ones of the table.
LEMMA EarlierRows ==
  ASSUME NEW rows, NEW succeeded, Table(rows, succeeded), NEW time \in Int
  PROVE  LET earlier == {i \in DOMAIN rows : rows[i].time < time}
             m == Cardinality(earlier)
         IN m \in 0..Len(rows) /\ earlier = 1..m
<1> DEFINE n == Len(rows)
           earlier == {i \in DOMAIN rows : rows[i].time < time}
           later == {i \in Nat : i \in 1..n + 1 /\ i \notin earlier}
<1>1. /\ n \in Nat /\ DOMAIN rows = 1..n
      /\ \A i \in 1..n : rows[i].time \in Int
      /\ \A i, k \in 1..n : i < k => rows[i].time < rows[k].time
  BY DEF Table
<1> HIDE DEF n
<1>2. \A i \in 1..n : i \in earlier <=> rows[i].time < time BY <1>1
<1>3. earlier \subseteq 1..n BY <1>1
<1> HIDE DEF earlier
<1>4. PICK first \in later : \A k \in later : first <= k
  <2>1. n + 1 \in later BY <1>1, <1>3
  <2>2. later \in SUBSET Nat /\ later # {} BY <2>1
  <2> HIDE DEF later
  <2> QED BY <2>2, LeastExists
<1>5. first \in 1..n + 1 /\ first \notin earlier BY <1>4
<1>6. \A i \in 1..n : i < first => i \in earlier BY <1>1, <1>4, <1>5
<1>7. \A i \in 1..n : i >= first => i \notin earlier
  <2> SUFFICES ASSUME NEW i \in 1..n, i >= first PROVE i \notin earlier
    OBVIOUS
  <2>1. first \in 1..n BY <1>1, <1>5
  <2>2. ~(rows[first].time < time) BY <1>2, <1>5, <2>1
  <2>3. i = first \/ rows[first].time < rows[i].time BY <1>1, <2>1
  <2> QED BY <1>1, <1>2, <2>1, <2>2, <2>3
<1>8. earlier = 1..(first - 1)
  <2>1. \A i \in earlier : i \in 1..(first - 1) BY <1>1, <1>3, <1>5, <1>7
  <2>2. \A i \in 1..(first - 1) : i \in earlier BY <1>1, <1>5, <1>6
  <2> QED BY <2>1, <2>2
<1>9. Cardinality(earlier) = first - 1
  <2>1. first - 1 \in Int /\ first - 1 \in 0..n BY <1>1, <1>5
  <2>2. Cardinality(1..(first - 1)) = IF 1 > first - 1 THEN 0 ELSE first - 1 - 1 + 1
    BY <2>1, FS_Interval
  <2> QED BY <1>8, <2>1, <2>2
<1>10. first - 1 \in 0..n BY <1>1, <1>5
<1> QED BY <1>8, <1>9, <1>10 DEF n, earlier

\* The distance of two times is a natural number.
LEMMA ApartTyped ==
  ASSUME NEW s \in Int, NEW t \in Int
  PROVE  Apart(s, t) \in Nat
BY DEF Apart

\* The first of the rows that are nearest to a time.
FirstNearest(rows, i, time) ==
  /\ i \in DOMAIN rows
  /\ \A k \in DOMAIN rows :
       \/ Apart(rows[i].time, time) < Apart(rows[k].time, time)
       \/ Apart(rows[i].time, time) = Apart(rows[k].time, time) /\ i <= k

(* Only the two rows beside the place of a time can be nearest to it: _nearest_index
   compares them alone and still finds the first of the nearest of all rows. *)
LEMMA NearestRowIsNearest ==
  ASSUME NEW rows, NEW succeeded, Table(rows, succeeded), NEW time \in Int
  PROVE  FirstNearest(rows, NearestRow(rows, time), time)
<1> DEFINE n == Len(rows)
           m == Cardinality({i \in DOMAIN rows : rows[i].time < time})
           pos == m + 1
           near == {pos - 1, pos} \intersect DOMAIN rows
           Wins(i) == \A k \in near :
                        \/ Apart(rows[i].time, time) < Apart(rows[k].time, time)
                        \/ Apart(rows[i].time, time) = Apart(rows[k].time, time) /\ i <= k
           b == CHOOSE i \in near : Wins(i)
<1>1. /\ n \in Nat \ {0} /\ DOMAIN rows = 1..n
      /\ \A i \in 1..n : rows[i].time \in Int
      /\ \A i, k \in 1..n : i < k => rows[i].time < rows[k].time
  BY DEF Table
<1>2. m \in 0..n /\ {i \in DOMAIN rows : rows[i].time < time} = 1..m
  BY EarlierRows
<1>3. NearestRow(rows, time) = b BY DEF NearestRow
<1> HIDE DEF n, m
<1>4. \A i \in 1..n : rows[i].time < time <=> i <= m BY <1>1, <1>2
<1>5. near = {m, m + 1} \intersect 1..n BY <1>1, <1>2
<1>6. near \in SUBSET Nat /\ near # {} /\ near \subseteq 1..n
  <2>1. m \in 1..n \/ m + 1 \in 1..n BY <1>1, <1>2
  <2> QED BY <1>1, <1>2, <1>5, <2>1
<1> HIDE DEF near
<1> DEFINE gap == [k \in 1..n |-> Apart(rows[k].time, time)]
<1>7. /\ gap \in [1..n -> Nat]
      /\ \A k \in 1..n : gap[k] = Apart(rows[k].time, time) /\ gap[k] \in Nat
  BY <1>1, ApartTyped
<1> HIDE DEF gap
<1>8. b \in near /\ \A k \in near : gap[b] < gap[k] \/ (gap[b] = gap[k] /\ b <= k)
  <2> DEFINE beside == [i \in near |-> gap[i]]
  <2>1. beside \in [near -> Nat] /\ \A i \in near : beside[i] = gap[i] BY <1>6, <1>7
  <2> HIDE DEF beside
  <2>2. PICK i \in near : \A k \in near : beside[i] < beside[k]
                                            \/ (beside[i] = beside[k] /\ i <= k)
    BY <1>6, <2>1, FirstExists
  <2>3. \A x, k \in near : x \in 1..n /\ k \in 1..n BY <1>6
  <2>4. Wins(i) BY <1>7, <2>1, <2>2, <2>3
  <2>5. b \in near /\ Wins(b)
    <3> HIDE DEF Wins
    <3> QED BY <2>4
  <2> QED BY <1>7, <2>3, <2>5
<1> HIDE DEF b
<1>9. ASSUME NEW k \in 1..n
      PROVE  gap[b] < gap[k] \/ (gap[b] = gap[k] /\ b <= k)
  <2>1. b \in 1..n /\ rows[k].time \in Int /\ gap[b] \in Nat /\ gap[k] \in Nat
    BY <1>1, <1>6, <1>7, <1>8
  <2>2. CASE k \in near BY <1>8, <2>2
  <2>3. CASE k < m
    <3>1. m \in 1..n /\ m \in near BY <1>1, <1>2, <1>5, <2>3
    <3>2. rows[k].time < rows[m].time /\ rows[m].time < time /\ rows[m].time \in Int
      BY <1>1, <1>4, <2>3, <3>1
    <3>3. Apart(rows[m].time, time) < Apart(rows[k].time, time)
      BY <2>1, <3>2 DEF Apart
    <3>4. gap[m] < gap[k] /\ gap[b] <= gap[m] /\ gap[m] \in Nat
      BY <1>7, <1>8, <2>1, <3>1, <3>3
    <3> QED BY <2>1, <3>4
  <2>4. CASE k > m + 1
    <3>1. m + 1 \in 1..n /\ m + 1 \in near BY <1>1, <1>2, <1>5, <2>4
    <3>2. /\ rows[m + 1].time < rows[k].time /\ ~(rows[m + 1].time < time)
          /\ rows[m + 1].time \in Int
      BY <1>1, <1>2, <1>4, <2>4, <3>1
    <3>3. Apart(rows[m + 1].time, time) < Apart(rows[k].time, time)
      BY <2>1, <3>2 DEF Apart
    <3>4. gap[m + 1] < gap[k] /\ gap[b] <= gap[m + 1] /\ gap[m + 1] \in Nat
      BY <1>7, <1>8, <2>1, <3>1, <3>3
    <3> QED BY <2>1, <3>4
  <2>5. k \in near \/ k < m \/ k > m + 1 BY <1>1, <1>2, <1>5
  <2> QED BY <2>2, <2>3, <2>4, <2>5
<1> QED BY <1>1, <1>3, <1>6, <1>7, <1>8, <1>9 DEF FirstNearest

(* A later time is never nearest to an earlier row, so a span never runs
   backwards. *)
LEMMA NearestIsMonotonic ==
  ASSUME NEW rows, NEW succeeded, Table(rows, succeeded),
         NEW early \in Int, NEW late \in Int, early <= late,
         NEW i, NEW j, FirstNearest(rows, i, early), FirstNearest(rows, j, late)
  PROVE  i <= j
<1>1. /\ i \in DOMAIN rows /\ j \in DOMAIN rows /\ i \in Int /\ j \in Int
      /\ rows[i].time \in Int /\ rows[j].time \in Int
  BY DEF FirstNearest, Table
<1>2. SUFFICES ASSUME j < i PROVE FALSE
  BY <1>1
<1>3. rows[j].time < rows[i].time BY <1>1, <1>2 DEF Table
<1>4. Apart(rows[i].time, early) < Apart(rows[j].time, early)
  <2>1. ~(i <= j) BY <1>1, <1>2
  <2> QED BY <1>1, <2>1 DEF FirstNearest
<1>5. \/ Apart(rows[j].time, late) < Apart(rows[i].time, late)
      \/ Apart(rows[j].time, late) = Apart(rows[i].time, late)
  BY <1>1 DEF FirstNearest
<1> QED BY <1>1, <1>3, <1>4, <1>5 DEF Apart

(* A span ends at the row nearest to its horizon: it reaches a row that is done
   only if that is the last one. *)
LEMMA SpanEndsNearest ==
  ASSUME NEW rows, NEW succeeded, Table(rows, succeeded),
         NEW time \in Int, NEW start, FirstNearest(rows, start, time)
  PROVE  LET end == SpanEnd(rows, start, time)
         IN start <= end /\ FirstNearest(rows, end, time + Horizon)
<1> DEFINE n == Len(rows)
           target == time + Horizon
           last0 == IF target >= rows[n].time THEN n ELSE NearestRow(rows, target)
           over == {i \in start..last0 : rows[i].done}
<1>1. /\ n \in Nat \ {0} /\ DOMAIN rows = 1..n
      /\ \A i \in 1..n : rows[i].time \in Int /\ rows[i].done = (i = n)
      /\ \A i, k \in 1..n : i < k => rows[i].time < rows[k].time
  BY DEF Table
<1>2. target \in Int /\ time <= target /\ start \in 1..n
  <2>1. start \in DOMAIN rows BY DEF FirstNearest
  <2>2. Horizon \in Nat BY ManifestAssumption
  <2>3. target \in Int /\ time <= target BY <2>2
  <2> QED BY <1>1, <2>1, <2>3
<1>3. SpanEnd(rows, start, time)
        = IF over = {} THEN last0 ELSE CHOOSE i \in over : \A k \in over : i <= k
  BY DEF SpanEnd
<1> HIDE DEF n
<1>4. FirstNearest(rows, last0, target)
  <2>1. CASE target >= rows[n].time
    <3>1. ASSUME NEW k \in 1..n
          PROVE  \/ Apart(rows[n].time, target) < Apart(rows[k].time, target)
                 \/ Apart(rows[n].time, target) = Apart(rows[k].time, target) /\ n <= k
      <4>1. k = n \/ rows[k].time < rows[n].time BY <1>1
      <4>2. CASE k = n BY <1>1, <4>2
      <4>3. CASE rows[k].time < rows[n].time
        <5>1. rows[k].time \in Int /\ rows[n].time \in Int BY <1>1
        <5> QED BY <1>2, <2>1, <4>3, <5>1 DEF Apart
      <4> QED BY <4>1, <4>2, <4>3
    <3>2. n \in DOMAIN rows /\ DOMAIN rows = 1..n BY <1>1
    <3> HIDE DEF target
    <3> QED BY <2>1, <3>1, <3>2 DEF FirstNearest
  <2>2. CASE ~(target >= rows[n].time)
    <3> HIDE DEF target
    <3> QED BY <1>2, <2>2, NearestRowIsNearest
  <2> QED BY <2>1, <2>2
<1> HIDE DEF target, last0
<1>5. last0 \in 1..n BY <1>1, <1>4 DEF FirstNearest
<1>6. start <= last0 BY <1>2, <1>4, NearestIsMonotonic
<1>7. SpanEnd(rows, start, time) = last0
  <2>1. ASSUME NEW i \in over PROVE i = n /\ last0 = n
    <3>1. i \in start..last0 /\ rows[i].done OBVIOUS
    <3>2. i \in 1..n /\ i <= last0 BY <1>1, <1>2, <1>5, <3>1
    <3>3. rows[i].done = (i = n) BY <1>1, <3>2
    <3>4. i = n BY <3>1, <3>3
    <3> QED BY <1>1, <1>5, <3>2, <3>4
  <2> HIDE DEF over
  <2>2. CASE over = {} BY <1>3, <2>2
  <2>3. CASE over # {}
    <3>1. over = {last0} /\ last0 <= last0 BY <1>1, <2>1, <2>3
    <3>2. \E i \in over : \A k \in over : i <= k BY <3>1
    <3>3. (CHOOSE i \in over : \A k \in over : i <= k) \in over BY <3>2
    <3> QED BY <1>3, <2>3, <3>1, <3>3
  <2> QED BY <2>2, <2>3
<1> QED BY <1>4, <1>6, <1>7 DEF target

-----------------------------------------------------------------------------
(* The reward of a span: a sum, in whatever order its rows are taken. *)

RewardSum(rows, S) == MapThenSumSet(LAMBDA i : rows[i].reward, S)

\* The last of some rows alone has a reward.
OneReward(rows, S, final, unit) ==
  \A i \in S : rows[i].reward = IF i = final THEN unit ELSE 0

\* The sum of numbers of which one alone is not 0 is that one, if it is summed.
LEMMA RewardOfSpan ==
  ASSUME NEW rows, NEW S, IsFiniteSet(S), NEW final, NEW unit \in Nat,
         OneReward(rows, S, final, unit)
  PROVE  RewardSum(rows, S) = IF final \in S THEN unit ELSE 0
<1> DEFINE Picked(s) == CHOOSE x \in s : TRUE
           G(g) == [s \in SUBSET S |->
                      IF s = {} THEN 0 ELSE rows[Picked(s)].reward + g[s \ {Picked(s)}]]
           iter == CHOOSE g : g = G(g)
           Sum0(s) == IF final \in s THEN unit ELSE 0
           h == [s \in SUBSET S |-> Sum0(s)]
<1>1. RewardSum(rows, S) = iter[S]
  BY DEF RewardSum, MapThenSumSet, MapThenFoldSet
<1>2. ASSUME NEW s \in SUBSET S, s # {}
      PROVE  Picked(s) \in s /\ s \ {Picked(s)} \in SUBSET S
  <2>1. \E x : x \in s BY <1>2
  <2>2. Picked(s) \in s BY <2>1
  <2> HIDE DEF Picked
  <2> QED BY <2>2
<1>3. ASSUME NEW s \in SUBSET S, s # {}
      PROVE  Sum0(s) = rows[Picked(s)].reward + Sum0(s \ {Picked(s)})
  <2> DEFINE x == Picked(s)
  <2>1. x \in s /\ x \in S BY <1>2, <1>3
  <2>2. rows[x].reward = IF x = final THEN unit ELSE 0 BY <2>1 DEF OneReward
  <2> HIDE DEF x
  <2>3. Sum0(s) = rows[x].reward + Sum0(s \ {x})
    <3>1. CASE x = final
      <4>1. final \in s /\ final \notin s \ {x} BY <2>1, <3>1
      <4> QED BY <2>2, <3>1, <4>1
    <3>2. CASE x # final
      <4>1. final \in s <=> final \in s \ {x} BY <3>2
      <4> QED BY <2>2, <3>2, <4>1
    <3> QED BY <3>1, <3>2
  <2> QED BY <2>3 DEF x
<1> HIDE DEF Picked
<1>4. iter = G(iter)
  <2>1. h = G(h)
    <3>1. \A s \in SUBSET S : h[s] = Sum0(s) OBVIOUS
    <3>2. Sum0({}) = 0 OBVIOUS
    <3> HIDE DEF Sum0
    <3>3. ASSUME NEW s \in SUBSET S
          PROVE  Sum0(s) = IF s = {} THEN 0
                           ELSE rows[Picked(s)].reward + h[s \ {Picked(s)}]
      <4> HIDE DEF h
      <4>1. CASE s = {} BY <3>2, <4>1
      <4>2. CASE s # {}
        <5>1. s \ {Picked(s)} \in SUBSET S BY <1>2, <4>2
        <5> QED BY <1>3, <3>1, <4>2, <5>1
      <4> QED BY <4>1, <4>2
    <3> QED BY <3>3
  <2>2. \E g : g = G(g) BY <2>1
  <2> HIDE DEF G, h
  <2> QED BY <2>2
<1>5. \A s \in SUBSET S :
        iter[s] = IF s = {} THEN 0 ELSE rows[Picked(s)].reward + iter[s \ {Picked(s)}]
  <2> HIDE DEF iter
  <2> QED BY <1>4
<1> HIDE DEF iter, G, h
<1> DEFINE Wrong == {s \in SUBSET S : iter[s] # Sum0(s)}
           Sizes == {Cardinality(s) : s \in Wrong}
<1>6. Wrong = {}
  <2> SUFFICES ASSUME Wrong # {} PROVE FALSE
    OBVIOUS
  <2>1. \A s \in SUBSET S : IsFiniteSet(s) /\ Cardinality(s) \in Nat
    BY FS_Subset, FS_CardinalityType
  <2>2. PICK size \in Sizes : \A other \in Sizes : size <= other
    <3>1. Sizes \in SUBSET Nat /\ Sizes # {} BY <2>1
    <3> HIDE DEF Sizes
    <3> QED BY <3>1, LeastExists
  <2>3. PICK s \in Wrong : Cardinality(s) = size BY <2>2
  <2>4. s \in SUBSET S /\ iter[s] # Sum0(s) BY <2>3
  <2>5. s # {}
    <3>1. Sum0({}) = 0 /\ {} \in SUBSET S OBVIOUS
    <3> HIDE DEF Sum0
    <3> QED BY <1>5, <2>4, <3>1
  <2> DEFINE rest == s \ {Picked(s)}
  <2>6. Picked(s) \in s /\ rest \in SUBSET S BY <1>2, <2>4, <2>5
  <2>7. Cardinality(rest) = size - 1 /\ size \in Nat
    BY <2>1, <2>3, <2>4, <2>6, FS_RemoveElement
  <2>8. rest \notin Wrong
    <3>1. rest \in Wrong => Cardinality(rest) \in Sizes OBVIOUS
    <3> HIDE DEF Wrong, Sizes, rest
    <3> QED BY <2>2, <2>7, <3>1
  <2>9. iter[rest] = Sum0(rest) BY <2>6, <2>8
  <2>10. iter[s] = rows[Picked(s)].reward + iter[rest] BY <1>5, <2>4, <2>5
  <2>11. Sum0(s) = rows[Picked(s)].reward + Sum0(rest) BY <1>3, <2>4, <2>5
  <2> HIDE DEF Sum0, rest, Wrong
  <2> QED BY <2>4, <2>9, <2>10, <2>11
<1>7. S \in SUBSET S OBVIOUS
<1> QED BY <1>1, <1>6, <1>7

-----------------------------------------------------------------------------
(* Chunks are aligned with observations, and observations with rows. *)

\* An observation that a chunk can be aligned with.
Fits(o, chunk) == o.timestep = chunk.timestep /\ o.chest /\ o.wrist

\* Observations are a sequence, and they and the chunk have times.
Timed(observations, chunk) ==
  /\ DOMAIN observations \subseteq Nat \ {0}
  /\ \A i \in DOMAIN observations : observations[i].time \in Int
  /\ chunk.time \in Int

\* A chunk has the nearest of the observations it can be aligned with, or none if
\* there are none.
LEMMA ObservationIsNearest ==
  ASSUME NEW observations, NEW chunk, Timed(observations, chunk),
         NEW o, o = ChooseObservation(observations, chunk)
  PROVE  \/ /\ o = 0
            /\ \A i \in DOMAIN observations : ~Fits(observations[i], chunk)
         \/ /\ o # 0 /\ o \in DOMAIN observations /\ Fits(observations[o], chunk)
            /\ \A k \in DOMAIN observations :
                 Fits(observations[k], chunk) =>
                   Apart(observations[o].time, chunk.time)
                     <= Apart(observations[k].time, chunk.time)
<1> DEFINE S == {i \in DOMAIN observations :
                   /\ observations[i].timestep = chunk.timestep
                   /\ observations[i].chest /\ observations[i].wrist}
           Gap(i) == Apart(observations[i].time, chunk.time)
           First0(i) == \A k \in S : Gap(i) < Gap(k) \/ (Gap(i) = Gap(k) /\ i <= k)
           gap == [i \in S |-> Gap(i)]
<1>1. o = IF S = {} THEN 0 ELSE CHOOSE i \in S : First0(i)
  BY DEF ChooseObservation
<1>2. /\ S \subseteq DOMAIN observations /\ S \in SUBSET Nat /\ 0 \notin S
      /\ \A i \in DOMAIN observations : i \in S <=> Fits(observations[i], chunk)
  BY DEF Timed, Fits
<1>3. \A i \in S : Gap(i) \in Nat BY <1>2, ApartTyped DEF Timed
<1> HIDE DEF S, Gap
<1>4. CASE S = {} BY <1>1, <1>2, <1>4
<1>5. CASE S # {}
  <2>1. gap \in [S -> Nat] /\ \A i \in S : gap[i] = Gap(i) BY <1>3
  <2> HIDE DEF gap
  <2>2. PICK i \in S : \A k \in S : gap[i] < gap[k] \/ (gap[i] = gap[k] /\ i <= k)
    BY <1>2, <1>5, <2>1, FirstExists
  <2>3. First0(i) BY <2>1, <2>2
  <2> HIDE DEF First0
  <2>4. o \in S /\ First0(o) BY <1>1, <1>5, <2>3
  <2> USE DEF First0
  <2>5. \A k \in S : Gap(o) <= Gap(k) BY <1>3, <2>4
  <2> QED BY <1>2, <2>4, <2>5 DEF Gap
<1> QED BY <1>4, <1>5

\* The chunk is left out, for one of three reasons.
LeftOut(s, chunk, o) ==
  \/ ~chunk.shaped /\ s = Skip("invalid_action_chunk_shape")
  \/ o = 0 /\ s = Skip("missing_aligned_policy_observation")
  \/ s = Skip("start_transition_too_far")

\* A sample of observation o that spans the rows from start to end.
Spans(s, rows, observations, chunk, o, start, end) ==
  /\ o \in DOMAIN observations /\ Fits(observations[o], chunk)
  /\ start <= end
  /\ FirstNearest(rows, start, observations[o].time)
  /\ Apart(rows[start].time, observations[o].time) <= MaxGap
  /\ FirstNearest(rows, end, observations[o].time + Horizon)
  /\ s.sample /\ s.observation = o /\ s.start = start /\ s.end = end
  /\ s.reward = RewardSum(rows, start..end)
  /\ s.success = (\E i \in start..end : rows[i].success)
  /\ s.done = (\E i \in start..end : rows[i].done)
  /\ s.terminated = (\E i \in start..end : rows[i].terminated)
  /\ s.truncated = (\E i \in start..end : rows[i].truncated)

\* What AlignChunk makes of a chunk: it is left out for a reason, or a sample.
LEMMA AlignedOrLeftOut ==
  ASSUME NEW rows, NEW succeeded \in BOOLEAN, Table(rows, succeeded),
         NEW observations, NEW chunk, Timed(observations, chunk)
  PROVE  LET s == AlignChunk(rows, observations, chunk)
             o == ChooseObservation(observations, chunk)
         IN LeftOut(s, chunk, o)
              \/ \E start, end : Spans(s, rows, observations, chunk, o, start, end)
<1> DEFINE s == AlignChunk(rows, observations, chunk)
           o == ChooseObservation(observations, chunk)
           time == observations[o].time
           start == NearestRow(rows, time)
           end == SpanEnd(rows, start, time)
           sum == RewardSum(rows, start..end)
<1>1. s = IF ~chunk.shaped THEN Skip("invalid_action_chunk_shape")
          ELSE IF o = 0 THEN Skip("missing_aligned_policy_observation")
          ELSE IF Apart(rows[start].time, time) > MaxGap
               THEN Skip("start_transition_too_far")
          ELSE IF end < start THEN Skip("invalid_transition_order")
          ELSE [sample |-> TRUE, observation |-> o, start |-> start, end |-> end,
                state |-> observations[o].state, nextState |-> rows[end].nextState,
                reward |-> sum,
                success |-> \E i \in start..end : rows[i].success,
                done |-> \E i \in start..end : rows[i].done,
                terminated |-> \E i \in start..end : rows[i].terminated,
                truncated |-> \E i \in start..end : rows[i].truncated,
                nextVisual |-> rows[end].camera]
  BY DEF AlignChunk, RewardSum
<1> HIDE DEF s, sum, start, end
<1> DEFINE Result == LeftOut(s, chunk, o)
                       \/ \E i, j : Spans(s, rows, observations, chunk, o, i, j)
<1> SUFFICES Result
  BY DEF s
<1>2. CASE ~chunk.shaped
  <2>1. s = Skip("invalid_action_chunk_shape") BY <1>1, <1>2
  <2> QED BY <1>2, <2>1 DEF LeftOut
<1>3. CASE chunk.shaped /\ o = 0
  <2>1. s = Skip("missing_aligned_policy_observation") BY <1>1, <1>3
  <2> QED BY <1>3, <2>1 DEF LeftOut
<1>4. CASE chunk.shaped /\ o # 0 /\ Apart(rows[start].time, time) > MaxGap
  <2>1. s = Skip("start_transition_too_far") BY <1>1, <1>4
  <2> QED BY <2>1 DEF LeftOut
<1>5. CASE chunk.shaped /\ o # 0 /\ ~(Apart(rows[start].time, time) > MaxGap)
  <2>1. o \in DOMAIN observations /\ Fits(observations[o], chunk)
    <3> HIDE DEF o
    <3> QED BY <1>5, ObservationIsNearest DEF o
  <2>2. time \in Int BY <2>1 DEF Timed
  <2>3. FirstNearest(rows, start, time)
    <3> HIDE DEF time
    <3> QED BY <2>2, NearestRowIsNearest DEF start
  <2>4. start <= end /\ FirstNearest(rows, end, time + Horizon)
    <3> HIDE DEF time
    <3> QED BY <2>2, <2>3, SpanEndsNearest DEF end
  <2>5. Apart(rows[start].time, time) \in Nat /\ MaxGap \in Nat
    BY <2>2, <2>3, ApartTyped, ManifestAssumption DEF FirstNearest, Table
  <2>6. start \in Int /\ end \in Int BY <2>3, <2>4 DEF FirstNearest, Table
  <2>7. Apart(rows[start].time, time) <= MaxGap /\ ~(end < start)
    BY <1>5, <2>4, <2>5, <2>6
  <2>8. s = [sample |-> TRUE, observation |-> o, start |-> start, end |-> end,
             state |-> observations[o].state, nextState |-> rows[end].nextState,
             reward |-> sum,
             success |-> \E i \in start..end : rows[i].success,
             done |-> \E i \in start..end : rows[i].done,
             terminated |-> \E i \in start..end : rows[i].terminated,
             truncated |-> \E i \in start..end : rows[i].truncated,
             nextVisual |-> rows[end].camera]
    BY <1>1, <1>5, <2>7
  <2>9. /\ s.sample /\ s.observation = o /\ s.start = start /\ s.end = end
        /\ s.reward = sum
        /\ s.success = (\E i \in start..end : rows[i].success)
        /\ s.done = (\E i \in start..end : rows[i].done)
        /\ s.terminated = (\E i \in start..end : rows[i].terminated)
        /\ s.truncated = (\E i \in start..end : rows[i].truncated)
    BY <2>8
  <2>10. Spans(s, rows, observations, chunk, o, start, end)
    BY <2>1, <2>3, <2>4, <2>7, <2>9 DEF sum, Spans
  <2> QED BY <2>10
<1> QED BY <1>2, <1>3, <1>4, <1>5

(* Whatever the table of an episode, its observations and the chunk: a sample is
   the span it stands for, and no chunk is lost to a span that runs backwards. *)
THEOREM SamplesAreSpans ==
  ASSUME NEW rows, NEW succeeded \in BOOLEAN, Table(rows, succeeded),
         NEW observations, NEW chunk, Timed(observations, chunk)
  PROVE  /\ SampleIsItsSpan(rows, observations, chunk, succeeded)
         /\ NoChunkIsLost(rows, observations, chunk)
<1> DEFINE s == AlignChunk(rows, observations, chunk)
           o == ChooseObservation(observations, chunk)
           time == observations[o].time
           n == Len(rows)
           final == s.end = n
<1>1. \/ ~s.sample /\ s.reason # "invalid_transition_order"
      \/ \E start, end : Spans(s, rows, observations, chunk, o, start, end)
  <2>1. \/ LeftOut(s, chunk, o)
        \/ \E start, end : Spans(s, rows, observations, chunk, o, start, end)
    BY AlignedOrLeftOut
  <2>2. /\ \A reason : ~Skip(reason).sample /\ Skip(reason).reason = reason
        /\ "invalid_action_chunk_shape" # "invalid_transition_order"
        /\ "missing_aligned_policy_observation" # "invalid_transition_order"
        /\ "start_transition_too_far" # "invalid_transition_order"
    BY DEF Skip
  <2> HIDE DEF s, o
  <2> QED BY <2>1, <2>2 DEF LeftOut
<1>2. NoChunkIsLost(rows, observations, chunk)
  <2>1. s.sample \/ s.reason # "invalid_transition_order" BY <1>1 DEF Spans
  <2> QED BY <2>1 DEF NoChunkIsLost
<1> HIDE DEF s
<1>3. SUFFICES ASSUME s.sample
               PROVE  SampleIsItsSpan(rows, observations, chunk, succeeded)
  BY <1>2 DEF SampleIsItsSpan, s
<1> PICK start, end : Spans(s, rows, observations, chunk, o, start, end)
  <2> HIDE DEF o
  <2> QED BY <1>1, <1>3
<1>4. /\ n \in Nat \ {0} /\ start \in 1..n /\ end \in 1..n /\ start <= end
      /\ DOMAIN rows = 1..n
      /\ \A i \in start..end : i \in 1..n
  BY DEF Spans, FirstNearest, Table
<1>5. n \in start..end <=> end = n
  <2> HIDE DEF n
  <2> QED BY <1>4
<1>6. \A i \in start..end :
        /\ rows[i].done = (i = n)
        /\ rows[i].success = (succeeded /\ i = n)
        /\ rows[i].terminated = (succeeded /\ i = n)
        /\ rows[i].truncated = (~succeeded /\ i = n)
        /\ rows[i].reward = IF i = n THEN IF succeeded THEN One ELSE 0 ELSE 0
  <2> HIDE DEF n
  <2>1. \A i \in 1..n :
          /\ rows[i].done = (i = n)
          /\ rows[i].success = (succeeded /\ i = n)
          /\ rows[i].terminated = (succeeded /\ i = n)
          /\ rows[i].truncated = (~succeeded /\ i = n)
          /\ rows[i].reward = IF succeeded /\ i = n THEN One ELSE 0
    BY <1>4 DEF Table, n
  <2> QED BY <1>4, <2>1
<1>7. Joined(s) = [done |-> final, reward |-> IF final /\ succeeded THEN One ELSE 0]
  <2>1. s.reward = IF n \in start..end THEN IF succeeded THEN One ELSE 0 ELSE 0
    <3>1. IsFiniteSet(start..end) BY <1>4, FS_Interval
    <3>2. (IF succeeded THEN One ELSE 0) \in Nat BY UnitIsAboveZero
    <3> DEFINE unit == IF succeeded THEN One ELSE 0
    <3>3. OneReward(rows, start..end, n, unit) BY <1>6 DEF OneReward
    <3> HIDE DEF unit, n
    <3>4. RewardSum(rows, start..end) = IF n \in start..end THEN unit ELSE 0
      BY <3>1, <3>2, <3>3, RewardOfSpan DEF unit
    <3> QED BY <3>4 DEF unit, Spans
  <2> HIDE DEF n
  <2>2. /\ s.success = (succeeded /\ end = n) /\ s.done = (end = n)
        /\ s.terminated = (succeeded /\ end = n)
        /\ s.truncated = (~succeeded /\ end = n)
    BY <1>5, <1>6 DEF Spans
  <2>3. s.end = end BY DEF Spans
  <2>4. One \in Nat BY UnitIsAboveZero
  <2>5. (s.done \/ s.terminated \/ s.truncated \/ s.success) = final BY <2>2, <2>3
  <2>6. (IF s.success /\ s.reward < One THEN One ELSE s.reward)
          = IF final /\ succeeded THEN One ELSE 0
    BY <1>5, <2>1, <2>2, <2>3, <2>4
  <2> HIDE DEF final
  <2> QED BY <2>5, <2>6 DEF Joined
<1>8. NoRowNearer(rows, start, time) /\ NoRowNearer(rows, end, time + Horizon)
  <2> SUFFICES ASSUME NEW i, NEW t \in Int, FirstNearest(rows, i, t)
               PROVE  NoRowNearer(rows, i, t)
    <3>1. time \in Int /\ Horizon \in Nat BY ManifestAssumption DEF Timed, Spans
    <3>2. time + Horizon \in Int BY <3>1
    <3> HIDE DEF time
    <3> QED BY <3>1, <3>2 DEF Spans, time
  <2>1. \A k \in DOMAIN rows : Apart(rows[k].time, t) \in Nat BY ApartTyped DEF Table
  <2> QED BY <2>1 DEF FirstNearest, NoRowNearer
<1>9. /\ Fits(observations[o], chunk)
      /\ \A k \in DOMAIN observations :
           Fits(observations[k], chunk) =>
             Apart(time, chunk.time) <= Apart(observations[k].time, chunk.time)
  <2>1. o \in DOMAIN observations /\ o # 0 BY DEF Timed, Spans
  <2> HIDE DEF o
  <2> QED BY <2>1, ObservationIsNearest DEF o
<1>10. /\ s.observation = o /\ s.start = start /\ s.end = end /\ start <= end
       /\ Apart(rows[start].time, time) <= MaxGap
  BY DEF Spans
<1> HIDE DEF o
<1> QED BY <1>7, <1>8, <1>9, <1>10 DEF SampleIsItsSpan, Fits, s

(* A capture that validate_capture let through makes the manifest fail only if a
   chunk is lost to its shape or to the distance of the rows. *)
THEOREM AcceptedCapturesAlign ==
  ASSUME NEW rows, NEW succeeded \in BOOLEAN, Table(rows, succeeded),
         NEW observations, NEW chunks, \A c \in chunks : Timed(observations, c),
         NEW capture, capture.chunks = chunks,
         capture.observations = ToSet(observations)
  PROVE  AcceptedCaptureAligns(capture, rows, observations, chunks)
<1> SUFFICES ASSUME ValidCapture(capture), EpisodeIssue(rows, observations, chunks)
             PROVE  \E c \in chunks :
                      AlignChunk(rows, observations, c).reason
                        \in {"invalid_action_chunk_shape", "start_transition_too_far"}
  BY DEF AcceptedCaptureAligns
<1>1. PICK c \in chunks : c.timestep \in Usable(capture.observations)
  <2>1. {c.timestep : c \in chunks} \intersect Usable(capture.observations) # {}
    BY DEF ValidCapture
  <2> QED BY <2>1
<1>2. PICK k \in DOMAIN observations : Fits(observations[k], c)
  <2>1. PICK p \in capture.observations : p.chest /\ p.wrist /\ p.timestep = c.timestep
    BY <1>1 DEF Usable
  <2>2. \E k \in DOMAIN observations : observations[k] = p BY <2>1 DEF ToSet
  <2> QED BY <2>1, <2>2 DEF Fits
<1> DEFINE s == AlignChunk(rows, observations, c)
           o == ChooseObservation(observations, c)
<1>3. o # 0
  <2> HIDE DEF o
  <2> QED BY <1>1, <1>2, ObservationIsNearest DEF o
<1>4. ~s.sample BY <1>1 DEF EpisodeIssue
<1>5. LeftOut(s, c, o)
  <2>1. LeftOut(s, c, o)
          \/ \E start, end : Spans(s, rows, observations, c, o, start, end)
    BY <1>1, AlignedOrLeftOut
  <2> HIDE DEF s, o
  <2> QED BY <1>4, <2>1 DEF Spans
<1>6. s.reason \in {"invalid_action_chunk_shape", "start_transition_too_far"}
  <2> HIDE DEF s, o
  <2> QED BY <1>3, <1>5 DEF LeftOut, Skip
<1> QED BY <1>1, <1>6

\* The captures of the run have two samples or more, in the order of their times.
LEMMA CapturesAreTables ==
  ASSUME NEW times \in TimeSeries, NEW camera, NEW succeeded \in BOOLEAN
  PROVE  Table(BuildTransitions(Capture(times, camera), succeeded), succeeded)
<1>1. PICK n \in 2..MaxSamples : times \in [1..n -> Times] /\ Increasing(times)
  BY DEF TimeSeries
<1> DEFINE samples == Capture(times, camera)
<1>2. n \in Nat /\ n >= 2 BY <1>1
<1>3. /\ DOMAIN times = 1..n /\ \A i \in 1..n : times[i] \in Int
      /\ \A i, k \in 1..n : i < k => times[i] < times[k]
  BY <1>1 DEF Times, Increasing
<1>4. samples = [i \in 1..n |-> [time |-> times[i], state |-> times[i],
                                 camera |-> camera]]
  BY <1>3 DEF Capture
<1>5. Len(samples) = n /\ \A i \in 1..n : samples[i].time = times[i]
  BY <1>2, <1>4
<1> HIDE DEF samples
<1>6. /\ \A i \in 1..n : samples[i].time \in Int
      /\ \A i, k \in 1..n : i < k => samples[i].time < samples[k].time
  BY <1>3, <1>5
<1> QED BY <1>2, <1>5, <1>6, TransitionsAreTable DEF samples

\* The observations of the run are one or two.
LEMMA CasesAreTimed ==
  ASSUME NEW x \in ChunkCases, NEW chunk, chunk.time = x.time
  PROVE  Timed(x.observations, chunk)
<1>1. x.time \in {2, 3} BY DEF ChunkCases
<1>2. x.observations \in {<<o>> : o \in Observations} \union (Observations \X Observations)
  BY DEF ChunkCases
<1>3. \A o \in Observations : o.time \in Int BY DEF Observations
<1>4. CASE x.observations \in {<<o>> : o \in Observations}
  <2>1. PICK o \in Observations : x.observations = <<o>> BY <1>4
  <2>2. DOMAIN x.observations = {1} /\ x.observations[1] = o BY <2>1
  <2> QED BY <1>1, <1>3, <2>2 DEF Timed
<1>5. CASE x.observations \in Observations \X Observations
  <2>1. PICK o \in Observations, p \in Observations : x.observations = <<o, p>>
    BY <1>5
  <2>2. /\ DOMAIN x.observations = {1, 2}
        /\ x.observations[1] = o /\ x.observations[2] = p
    BY <2>1
  <2> QED BY <1>1, <1>3, <2>2 DEF Timed
<1> QED BY <1>2, <1>4, <1>5

(* The samples match their rows in every case that the run enumerates, for any
   horizon, gap, discount and bound on the samples. *)
THEOREM SamplesMatch == MCSpec => []SamplesMatchRows
<1> DEFINE Case == input.kind = "chunk" => input \in ChunkCases
<1>1. MCInit => Case
  <2>1. \A x \in GuardCases \union RowCases : x.kind # "chunk"
    <3>1. \A x \in GuardCases : x.kind = "guard" BY DEF GuardCases
    <3>2. \A x \in RowCases : x.kind = "rows" BY DEF RowCases
    <3> QED BY <3>1, <3>2
  <2>2. \A x \in SplitCases : x.kind # "chunk" BY OtherKinds
  <2>3. NoInput.kind # "chunk" BY DEF NoInput
  <2> QED BY <2>1, <2>2, <2>3 DEF MCInit
<1>2. Case /\ [MCNext]_mcVars => Case' BY DEF MCNext, mcVars
<1>3. Case => SamplesMatchRows
  <2> SUFFICES ASSUME input \in ChunkCases PROVE SamplesMatchRows
    BY DEF SamplesMatchRows
  <2> DEFINE samples == Capture(input.times, TRUE)
             rows == BuildTransitions(samples, input.success)
             chunk == [timestep |-> 0, time |-> input.time, shaped |-> input.shaped]
             capture == [gate |-> TRUE, samples |-> samples, chunks |-> {chunk},
                         observations |-> ToSet(input.observations), videos |-> TRUE]
  <2>1. input.times \in TimeSeries /\ input.success \in BOOLEAN BY DEF ChunkCases
  <2>2. Table(rows, input.success) BY <2>1, CapturesAreTables
  <2>3. chunk.time = input.time OBVIOUS
  <2>4. /\ capture.chunks = {chunk}
        /\ capture.observations = ToSet(input.observations)
    OBVIOUS
  <2> HIDE DEF samples, rows, chunk, capture
  <2>5. Timed(input.observations, chunk) BY <2>3, CasesAreTimed
  <2>6. /\ SampleIsItsSpan(rows, input.observations, chunk, input.success)
        /\ NoChunkIsLost(rows, input.observations, chunk)
    BY <2>1, <2>2, <2>5, SamplesAreSpans
  <2>7. AcceptedCaptureAligns(capture, rows, input.observations, {chunk})
    BY <2>1, <2>2, <2>4, <2>5, AcceptedCapturesAlign
  <2> QED BY <2>6, <2>7 DEF SamplesMatchRows, samples, rows, chunk, capture
<1> HIDE DEF Case
<1> QED BY <1>1, <1>2, <1>3, PTL DEF MCSpec

-----------------------------------------------------------------------------
(* The returns, from the last row to the first. *)

\* A row in front of the returns of the rows behind it.
Added(row, later) ==
  <<row.reward + IF row.done \/ later = <<>> THEN 0
                 ELSE (GammaNum * Head(later)) \div GammaDen>> \o later

\* The fold is a function on sets of rows; here on those of the last j of n rows.
FoldBack(h, j, n, table) ==
  /\ DOMAIN h = SUBSET (n - j + 1..n)
  /\ \A s \in SUBSET (n - j + 1..n) :
       h[s] = IF s = {} THEN <<>> ELSE Added(table[Min(s)], h[s \ {Min(s)}])

\* The least of a set of rows that has the first one is the first one.
LEMMA FirstIsLeast ==
  ASSUME NEW i \in Int, NEW n \in Int, NEW s \in SUBSET (i..n), i \in s
  PROVE  Min(s) = i
<1>1. s \subseteq Int /\ \A k \in s : i <= k OBVIOUS
<1>2. \A m \in s : (\A k \in s : m <= k) => m = i BY <1>1
<1> DEFINE m == CHOOSE m \in s : \A k \in s : m <= k
<1>3. m \in s /\ \A k \in s : m <= k BY <1>1
<1>4. m = i
  <2> HIDE DEF m
  <2> QED BY <1>2, <1>3
<1> QED BY <1>4 DEF Min

\* One more row extends the function.
LEMMA FoldBackExtends ==
  ASSUME NEW table, NEW n \in Nat, NEW j \in Nat, j < n, NEW h, FoldBack(h, j, n, table)
  PROVE  \E g : FoldBack(g, j + 1, n, table)
<1> DEFINE i == n - j
           Old == SUBSET (n - j + 1..n)
           All == SUBSET (n - (j + 1) + 1..n)
           g == [s \in All |-> IF i \in s THEN Added(table[i], h[s \ {i}]) ELSE h[s]]
<1>0. i \in Int /\ n - (j + 1) + 1 = i /\ n - j + 1 = i + 1 OBVIOUS
<1>1. /\ \A s \in All : s \ {i} \in Old /\ s \ {i} \in All
      /\ \A s \in All : i \notin s => s \in Old
      /\ \A s \in Old : i \notin s /\ s \in All
  OBVIOUS
<1>2. DOMAIN g = All OBVIOUS
<1>3. /\ \A s \in All : i \in s => g[s] = Added(table[i], h[s \ {i}])
      /\ \A s \in All : i \notin s => g[s] = h[s]
  OBVIOUS
<1>4. \A s \in All : i \in s => Min(s) = i
  <2> SUFFICES ASSUME NEW s \in All, i \in s PROVE Min(s) = i
    OBVIOUS
  <2>1. s \in SUBSET (i..n) /\ i \in Int /\ n \in Int BY <1>0
  <2>2. i \in s OBVIOUS
  <2> HIDE DEF i, All
  <2> QED BY <2>1, <2>2, FirstIsLeast
<1>5. \A s \in Old : h[s] = IF s = {} THEN <<>> ELSE Added(table[Min(s)], h[s \ {Min(s)}])
  BY DEF FoldBack
<1>6. \A s \in Old : s \ {Min(s)} \in Old OBVIOUS
<1> HIDE DEF g, Old, All, i
<1>7. ASSUME NEW s \in All
      PROVE  g[s] = IF s = {} THEN <<>> ELSE Added(table[Min(s)], g[s \ {Min(s)}])
  <2>1. CASE i \in s
    <3>1. g[s \ {i}] = h[s \ {i}] BY <1>1, <1>3
    <3> QED BY <1>3, <1>4, <2>1, <3>1
  <2>2. CASE i \notin s
    <3>1. s \in Old /\ s \ {Min(s)} \in Old BY <1>1, <1>6, <2>2
    <3>2. g[s] = h[s] /\ g[s \ {Min(s)}] = h[s \ {Min(s)}] BY <1>1, <1>3, <3>1
    <3> QED BY <1>5, <3>1, <3>2
  <2> QED BY <2>1, <2>2
<1>8. FoldBack(g, j + 1, n, table) BY <1>2, <1>7 DEF FoldBack, All
<1> QED BY <1>8

\* The function exists: there is no least number of rows without it.
LEMMA FoldBackExists ==
  ASSUME NEW table, NEW n \in Nat
  PROVE  \E h : FoldBack(h, n, n, table)
<1> DEFINE Without == {j \in Nat : j <= n /\ ~ \E h : FoldBack(h, j, n, table)}
<1> SUFFICES ASSUME Without # {} PROVE FALSE
  <2>1. n \notin Without => \E h : FoldBack(h, n, n, table) OBVIOUS
  <2> HIDE DEF Without
  <2> QED BY <2>1
<1>1. PICK k \in Without : \A y \in Without : k <= y
  <2>1. Without \in SUBSET Nat OBVIOUS
  <2> HIDE DEF Without
  <2> QED BY <2>1, LeastExists
<1>2. k \in Nat /\ k <= n /\ ~ \E h : FoldBack(h, k, n, table) OBVIOUS
<1>3. k # 0
  <2> DEFINE h == [s \in {{}} |-> <<>>]
  <2>1. DOMAIN h = {{}} /\ h[{}] = <<>> OBVIOUS
  <2> HIDE DEF h
  <2>2. SUBSET (n - 0 + 1..n) = {{}}
    <3>1. n - 0 + 1..n = {} OBVIOUS
    <3> QED BY <3>1
  <2>3. FoldBack(h, 0, n, table) BY <2>1, <2>2 DEF FoldBack
  <2> QED BY <1>2, <2>3
<1>4. k - 1 \in Nat /\ k - 1 < n /\ (k - 1) + 1 = k BY <1>2, <1>3
<1>5. k - 1 \notin Without
  <2> HIDE DEF Without
  <2> QED BY <1>1, <1>2, <1>4
<1>6. PICK h : FoldBack(h, k - 1, n, table) BY <1>4, <1>5
<1>7. \E g : FoldBack(g, k, n, table) BY <1>4, <1>6, FoldBackExtends
<1> QED BY <1>2, <1>7

\* tails[k] are the returns of the rows from k on.
Tails(tails, table, n) ==
  /\ tails[n + 1] = <<>>
  /\ \A k \in 1..n : tails[k] = Added(table[k], tails[k + 1])
  /\ DiscountedReturns(table) = tails[1]

\* The returns are computed row by row.
LEMMA RowByRow ==
  ASSUME NEW table, NEW n \in Nat, DOMAIN table = 1..n
  PROVE  \E tails : Tails(tails, table, n)
<1> DEFINE Op(row, later) ==
             <<row.reward + IF row.done \/ later = <<>> THEN 0
                            ELSE (GammaNum * Head(later)) \div GammaDen>> \o later
           G(g) == [s \in SUBSET DOMAIN table |->
                      IF s = {} THEN <<>> ELSE Op(table[Min(s)], g[s \ {Min(s)}])]
           iter == CHOOSE g : g = G(g)
<1>1. DiscountedReturns(table) = iter[DOMAIN table]
  BY DEF DiscountedReturns, FoldRight, MapThenFoldSet
<1>2. \E g : g = G(g)
  <2>1. PICK h : FoldBack(h, n, n, table) BY FoldBackExists
  <2>2. n - n + 1 = 1 OBVIOUS
  <2>3. \A s \in SUBSET (1..n) :
          h[s] = IF s = {} THEN <<>> ELSE Op(table[Min(s)], h[s \ {Min(s)}])
    BY <2>1, <2>2 DEF FoldBack, Added
  <2> DEFINE g == [s \in SUBSET (1..n) |-> h[s]]
  <2>4. \A s \in SUBSET (1..n) : s \ {Min(s)} \in SUBSET (1..n) OBVIOUS
  <2>5. \A s \in SUBSET (1..n) : g[s] = h[s] OBVIOUS
  <2> HIDE DEF Op
  <2>6. \A s \in SUBSET (1..n) :
          g[s] = IF s = {} THEN <<>> ELSE Op(table[Min(s)], g[s \ {Min(s)}])
    BY <2>3, <2>4
  <2>7. g = G(g) BY <2>6
  <2> QED BY <2>7
<1>3. iter = G(iter)
  <2> HIDE DEF G
  <2> QED BY <1>2
<1>4. \A s \in SUBSET (1..n) :
        iter[s] = IF s = {} THEN <<>> ELSE Op(table[Min(s)], iter[s \ {Min(s)}])
  <2> HIDE DEF iter, Op
  <2> QED BY <1>3
<1>5. \A row, later : Op(row, later) = Added(row, later) BY DEF Added
<1> HIDE DEF iter, Op, G
<1> DEFINE tails == [k \in 1..n + 1 |-> iter[k..n]]
<1>6. tails[n + 1] = <<>>
  <2>1. n + 1 \in 1..n + 1 /\ n + 1..n = {} /\ {} \in SUBSET (1..n) OBVIOUS
  <2>2. tails[n + 1] = iter[n + 1..n] BY <2>1
  <2> QED BY <1>4, <2>1, <2>2
<1>7. ASSUME NEW k \in 1..n PROVE tails[k] = Added(table[k], tails[k + 1])
  <2> DEFINE s == k..n
  <2>1. s \in SUBSET (1..n) /\ s # {} /\ s \in SUBSET (k..n) /\ k \in s OBVIOUS
  <2>2. s \ {k} = k + 1..n OBVIOUS
  <2>3. tails[k] = iter[s] /\ tails[k + 1] = iter[k + 1..n] OBVIOUS
  <2>4. k \in Int /\ n \in Int OBVIOUS
  <2> HIDE DEF s, tails
  <2>5. Min(s) = k
    <3>1. s \in SUBSET (k..n) BY <2>1
    <3> QED BY <2>1, <2>4, <3>1, FirstIsLeast
  <2> QED BY <1>4, <1>5, <2>1, <2>2, <2>3, <2>5
<1>8. DiscountedReturns(table) = tails[1] BY <1>1
<1> HIDE DEF tails
<1> QED BY <1>6, <1>7, <1>8 DEF Tails

\* What a row collects: its reward, and what the rows behind it collect.
Collected(row, later) ==
  row.reward + IF row.done \/ later = <<>> THEN 0
               ELSE (GammaNum * Head(later)) \div GammaDen

\* A row is put in front of a sequence of numbers.
LEMMA AddedInFront ==
  ASSUME NEW row, row.reward \in Int, NEW later \in Seq(Int)
  PROVE  LET x == Collected(row, later)
             seq == Added(row, later)
         IN /\ x \in Int /\ seq \in Seq(Int) /\ Len(seq) = Len(later) + 1
            /\ seq[1] = x /\ seq # <<>>
            /\ \A j \in 2..Len(later) + 1 : seq[j] = later[j - 1]
<1> DEFINE x == Collected(row, later)
           seq == Added(row, later)
<1>1. x \in Int
  <2>1. CASE row.done \/ later = <<>> BY <2>1 DEF Collected
  <2>2. CASE ~(row.done \/ later = <<>>)
    <3>1. Head(later) \in Int BY <2>2
    <3>2. GammaNum \in Nat /\ GammaDen \in Nat \ {0} BY RowsAssumption
    <3>3. (GammaNum * Head(later)) \div GammaDen \in Int BY <3>1, <3>2
    <3> QED BY <2>2, <3>3 DEF Collected
  <2> QED BY <2>1, <2>2
<1>2. seq = <<x>> \o later BY DEF Added, Collected
<1> HIDE DEF x, seq
<1>3. seq \in Seq(Int) /\ Len(seq) = Len(later) + 1 BY <1>1, <1>2
<1>4. seq[1] = x /\ \A j \in 2..Len(later) + 1 : seq[j] = later[j - 1]
  BY <1>1, <1>2
<1>5. seq # <<>> BY <1>3
<1> QED BY <1>1, <1>3, <1>4, <1>5 DEF x, seq

\* A return is the first of those of the rows from its own on.
Heads(tails, n) ==
  \A k \in 1..n + 1 :
    /\ tails[k] \in Seq(Int) /\ Len(tails[k]) = n + 1 - k
    /\ \A j \in 1..n + 1 - k : tails[k][j] = tails[k + j - 1][1]

\* Each row has its return in front of those of the rows behind it.
LEMMA ReturnsAreHeads ==
  ASSUME NEW table, NEW n \in Nat, \A i \in 1..n : table[i].reward \in Int,
         NEW tails, Tails(tails, table, n)
  PROVE  Heads(tails, n)
<1> DEFINE Good(k) == /\ tails[k] \in Seq(Int) /\ Len(tails[k]) = n + 1 - k
                      /\ \A j \in 1..n + 1 - k : tails[k][j] = tails[k + j - 1][1]
           Wrong == {d \in Nat : d <= n /\ ~Good(n + 1 - d)}
<1> SUFFICES ASSUME Wrong # {} PROVE FALSE
  <2>1. SUFFICES ASSUME NEW k \in 1..n + 1 PROVE Good(k)
    BY DEF Heads
  <2>2. n + 1 - k \in Nat /\ n + 1 - k <= n /\ n + 1 - (n + 1 - k) = k OBVIOUS
  <2> HIDE DEF Good
  <2> QED BY <2>2
<1>1. PICK d \in Wrong : \A y \in Wrong : d <= y
  <2>1. Wrong \in SUBSET Nat OBVIOUS
  <2> HIDE DEF Wrong
  <2> QED BY <2>1, LeastExists
<1> DEFINE k == n + 1 - d
<1>2. d \in Nat /\ d <= n /\ ~Good(k) OBVIOUS
<1>3. d # 0
  <2>1. Good(n + 1)
    <3>1. tails[n + 1] = <<>> BY DEF Tails
    <3>2. n + 1 - (n + 1) = 0 /\ 1..0 = {} OBVIOUS
    <3> QED BY <3>1, <3>2
  <2>2. n + 1 - 0 = n + 1 OBVIOUS
  <2> HIDE DEF Good
  <2> QED BY <1>2, <2>1, <2>2
<1>4. d - 1 \in Nat /\ d - 1 <= n /\ n + 1 - (d - 1) = k + 1 /\ k \in 1..n
  BY <1>2, <1>3
<1>5. Good(k + 1)
  <2>1. d - 1 \notin Wrong
    <3> HIDE DEF Wrong
    <3> QED BY <1>1, <1>2, <1>4
  <2>2. Good(n + 1 - (d - 1)) BY <1>4, <2>1
  <2> HIDE DEF Good
  <2> QED BY <1>4, <2>2
<1> HIDE DEF k
<1>6. tails[k] = Added(table[k], tails[k + 1]) BY <1>4 DEF Tails
<1>7. /\ tails[k] \in Seq(Int) /\ Len(tails[k]) = Len(tails[k + 1]) + 1
      /\ \A j \in 2..Len(tails[k + 1]) + 1 : tails[k][j] = tails[k + 1][j - 1]
  <2>1. table[k].reward \in Int /\ tails[k + 1] \in Seq(Int) BY <1>4, <1>5
  <2> DEFINE row == table[k]
             later == tails[k + 1]
  <2>2. row.reward \in Int /\ later \in Seq(Int) /\ tails[k] = Added(row, later)
    BY <1>6, <2>1
  <2> HIDE DEF row, later
  <2>3. /\ Added(row, later) \in Seq(Int) /\ Len(Added(row, later)) = Len(later) + 1
        /\ \A j \in 2..Len(later) + 1 : Added(row, later)[j] = later[j - 1]
    BY <2>2, AddedInFront
  <2> QED BY <2>2, <2>3 DEF later
<1>8. Len(tails[k + 1]) = n - k /\ Len(tails[k]) = n + 1 - k BY <1>2, <1>4, <1>5, <1>7
<1>9. ASSUME NEW j \in 1..n + 1 - k PROVE tails[k][j] = tails[k + j - 1][1]
  <2>1. CASE j = 1 BY <1>4, <2>1
  <2>2. CASE j # 1
    <3>1. j \in 2..Len(tails[k + 1]) + 1 BY <1>4, <1>8, <2>2
    <3>2. j - 1 \in 1..n + 1 - (k + 1) /\ (k + 1) + (j - 1) - 1 = k + j - 1
      BY <1>4, <2>2
    <3>3. tails[k + 1][j - 1] = tails[(k + 1) + (j - 1) - 1][1] BY <1>5, <3>2
    <3> QED BY <1>7, <3>1, <3>2, <3>3
  <2> QED BY <2>1, <2>2
<1>10. Good(k) BY <1>7, <1>8, <1>9
<1> HIDE DEF Good
<1> QED BY <1>2, <1>10 DEF k

\* An episode lies in a table of all of them.
Holds(table, n, rows, off) ==
  /\ off + Len(rows) <= n
  /\ \A t \in DOMAIN rows : table[off + t] = rows[t]

\* What a row of an episode is worth.
Worth(rows, succeeded, t) == IF succeeded THEN Discount(Len(rows) - t) ELSE 0

\* From the last row of an episode to its first, a return is what the row is worth.
LEMMA ReturnIsWorth ==
  ASSUME NEW table, NEW n \in Nat, \A i \in 1..n : table[i].reward \in Int,
         NEW tails, Tails(tails, table, n),
         NEW rows, NEW succeeded \in BOOLEAN, Table(rows, succeeded),
         Len(rows) <= MaxSamples + 1,
         NEW off \in Nat, Holds(table, n, rows, off)
  PROVE  \A t \in DOMAIN rows : tails[off + t][1] = Worth(rows, succeeded, t)
<1> DEFINE m == Len(rows)
           Good(t) == tails[off + t][1] = Worth(rows, succeeded, t)
           Wrong == {d \in Nat : d < m /\ ~Good(m - d)}
<1>0. /\ m \in Nat \ {0} /\ DOMAIN rows = 1..m
      /\ \A t \in 1..m : /\ rows[t].done = (t = m)
                         /\ rows[t].reward = IF succeeded /\ t = m THEN One ELSE 0
  BY DEF Table
<1>1. /\ off + m <= n /\ m <= MaxSamples + 1 /\ MaxSamples \in Nat
      /\ \A t \in 1..m : table[off + t] = rows[t]
  BY <1>0, RowsAssumption DEF Holds
<1>2. \A t \in 1..m : Worth(rows, succeeded, t) = IF succeeded THEN Discount(m - t) ELSE 0
  BY DEF Worth
<1> HIDE DEF m
<1> SUFFICES ASSUME Wrong # {} PROVE FALSE
  <2>1. SUFFICES ASSUME NEW t \in 1..m PROVE Good(t)
    BY <1>0
  <2>2. m - t \in Nat /\ m - t < m /\ m - (m - t) = t BY <1>0
  <2> HIDE DEF Good
  <2> QED BY <2>2
<1>3. PICK d \in Wrong : \A y \in Wrong : d <= y
  <2>1. Wrong \in SUBSET Nat OBVIOUS
  <2> HIDE DEF Wrong
  <2> QED BY <2>1, LeastExists
<1> DEFINE t == m - d
<1>4. d \in Nat /\ d < m /\ ~Good(t) OBVIOUS
<1>5. t \in 1..m /\ off + t \in 1..n /\ off + t + 1 \in 1..n + 1 /\ m - t = d
  BY <1>0, <1>1, <1>4
<1>6. d # 0 => Good(t + 1) /\ t + 1 \in 1..m /\ m - (t + 1) = d - 1 /\ off + (t + 1) = off + t + 1
  <2> SUFFICES ASSUME d # 0
               PROVE  Good(t + 1) /\ t + 1 \in 1..m /\ m - (t + 1) = d - 1
                      /\ off + (t + 1) = off + t + 1
    OBVIOUS
  <2>1. d - 1 \in Nat /\ d - 1 < m /\ m - (d - 1) = t + 1 BY <1>0, <1>4
  <2>2. d - 1 \notin Wrong
    <3> HIDE DEF Wrong
    <3> QED BY <1>3, <1>4, <2>1
  <2>3. Good(m - (d - 1)) BY <2>1, <2>2
  <2>4. Good(t + 1)
    <3> HIDE DEF Good
    <3> QED BY <2>1, <2>3
  <2> QED BY <1>0, <1>4, <2>4
<1> HIDE DEF t
<1> DEFINE later == tails[off + t + 1]
           row == rows[t]
<1>7. tails[off + t] = Added(row, later)
  <2>1. table[off + t] = row BY <1>1, <1>5
  <2> QED BY <1>5, <2>1 DEF Tails
<1>8. later \in Seq(Int) /\ Len(later) = n - (off + t)
  <2>1. later \in Seq(Int) /\ Len(later) = n + 1 - (off + t + 1)
    <3>1. Heads(tails, n) BY ReturnsAreHeads
    <3> QED BY <1>5, <3>1 DEF Heads
  <2> QED BY <1>5, <2>1
<1>9. row.reward \in Int
  <2>1. table[off + t] = row BY <1>1, <1>5
  <2> QED BY <1>5, <2>1
<1> HIDE DEF later
<1>10. tails[off + t][1] = Collected(row, later) BY <1>7, <1>8, <1>9, AddedInFront
<1>11. row.done = (t = m) /\ row.reward = IF succeeded /\ t = m THEN One ELSE 0
  BY <1>0, <1>5
<1>12. One \in Int BY UnitIsAboveZero
<1>13. CASE d = 0
  <2>1. t = m BY <1>0, <1>4, <1>5, <1>13
  <2>2. Collected(row, later) = (IF succeeded THEN One ELSE 0) + 0
    BY <1>11, <2>1 DEF Collected
  <2>3. Discount(m - t) = One BY <1>5, <1>13, DiscountOnceMore
  <2>4. (IF succeeded THEN One ELSE 0) + 0 = IF succeeded THEN One ELSE 0 BY <1>12
  <2> QED BY <1>2, <1>4, <1>5, <1>10, <2>2, <2>3, <2>4
<1>14. CASE d # 0
  <2>1. t # m BY <1>0, <1>4, <1>5, <1>14
  <2>2. later # <<>>
    <3>1. off + t < off + m
      <4>1. off \in Nat /\ m \in Nat /\ t \in 1..m BY <1>0, <1>5
      <4> HIDE DEF m
      <4> QED BY <2>1, <4>1
    <3>2. n - (off + t) > 0 BY <1>0, <1>1, <1>5, <3>1
    <3> QED BY <1>8, <3>2
  <2>3. Head(later) = IF succeeded THEN Discount(d - 1) ELSE 0
    <3>1. Head(later) = later[1] BY <1>8, <2>2
    <3>2. later[1] = Worth(rows, succeeded, t + 1) BY <1>6, <1>14 DEF later
    <3> QED BY <1>2, <1>6, <1>14, <3>1, <3>2
  <2>4. Collected(row, later) = 0 + (GammaNum * Head(later)) \div GammaDen
    BY <1>11, <2>1, <2>2 DEF Collected
  <2>5. GammaNum \in Nat /\ GammaDen \in Nat \ {0} BY RowsAssumption
  <2>6. d \in 1..MaxSamples /\ d \in 0..MaxSamples BY <1>0, <1>1, <1>4, <1>14
  <2>7. CASE succeeded
    <3>1. (GammaNum * Head(later)) \div GammaDen = Discount(d)
      BY <2>3, <2>6, <2>7, DiscountOnceMore
    <3>2. Discount(d) \in Nat BY <2>6, DiscountOnceMore
    <3>3. Worth(rows, succeeded, t) = Discount(d) BY <1>2, <1>5, <2>7
    <3> QED BY <1>4, <1>10, <2>4, <3>1, <3>2, <3>3
  <2>8. CASE ~succeeded
    <3>1. (GammaNum * 0) \div GammaDen = 0 BY <2>5
    <3>2. Worth(rows, succeeded, t) = 0 BY <1>2, <1>5, <2>8
    <3> QED BY <1>4, <1>10, <2>3, <2>4, <2>8, <3>1, <3>2
  <2> QED BY <2>7, <2>8
<1> QED BY <1>13, <1>14

\* The target of a row is what it is worth.
LEMMA TargetIsWorth ==
  ASSUME NEW rows, NEW succeeded \in BOOLEAN, Table(rows, succeeded),
         Len(rows) <= MaxSamples + 1, NEW t \in DOMAIN rows
  PROVE  /\ SuccessToGo(Successes(rows))[t] = Worth(rows, succeeded, t)
         /\ Worth(rows, succeeded, t) \in Nat
<1> DEFINE m == Len(rows)
           successes == Successes(rows)
           hits == {i \in DOMAIN successes : successes[i]}
           Ahead(u) == {i \in hits : i >= u}
           First0(S) == CHOOSE i \in S : \A k \in S : i <= k
<1>0. /\ m \in Nat \ {0} /\ DOMAIN rows = 1..m
      /\ \A i \in 1..m : rows[i].success = (succeeded /\ i = m)
  BY DEF Table
<1>1. m <= MaxSamples + 1 /\ MaxSamples \in Nat BY RowsAssumption
<1>2. DOMAIN successes = 1..m /\ \A i \in 1..m : successes[i] = (succeeded /\ i = m)
  BY <1>0 DEF Successes
<1>3. SuccessToGo(successes)[t] =
        IF hits = {} THEN 0
        ELSE IF t >= First0(hits) THEN One ELSE Discount(First0(Ahead(t)) - t)
  <2>1. t \in DOMAIN successes BY <1>0, <1>2
  <2> HIDE DEF successes, m
  <2> QED BY <2>1 DEF SuccessToGo
<1> HIDE DEF successes, m
<1>4. hits = IF succeeded THEN {m} ELSE {}
  <2>1. hits = {i \in 1..m : succeeded /\ i = m} BY <1>2
  <2>2. m \in 1..m BY <1>0
  <2> HIDE DEF hits
  <2> QED BY <2>1, <2>2
<1> HIDE DEF hits
<1>5. t \in 1..m BY <1>0
<1>6. First0({m}) = m
  <2>1. m \in {m} /\ \A k \in {m} : m <= k BY <1>0
  <2> QED BY <2>1
<1>7. Worth(rows, succeeded, t) = IF succeeded THEN Discount(m - t) ELSE 0
  BY DEF Worth, m
<1>8. m - t \in 0..MaxSamples BY <1>0, <1>1, <1>5
<1>9. CASE succeeded
  <2>1. hits = {m} /\ hits # {} BY <1>4, <1>9
  <2>2. Ahead(t) = {m} BY <1>0, <1>5, <2>1
  <2> HIDE DEF First0, Ahead
  <2>3. CASE t = m
    <3>1. m - t = 0 /\ t >= m BY <1>0, <2>3
    <3> QED BY <1>3, <1>6, <1>7, <1>8, <1>9, <2>1, <3>1, DiscountOnceMore DEF successes
  <2>4. CASE t # m
    <3>1. ~(t >= m) BY <1>0, <1>5, <2>4
    <3> QED BY <1>3, <1>6, <1>7, <1>8, <1>9, <2>1, <2>2, <3>1, DiscountOnceMore
            DEF successes
  <2> QED BY <2>3, <2>4
<1>10. CASE ~succeeded BY <1>3, <1>4, <1>7, <1>10 DEF successes
<1> QED BY <1>9, <1>10

\* A table of n rows, each with its reward.
Rewarded(table, n) ==
  /\ DOMAIN table = 1..n
  /\ \A i \in 1..n : table[i].reward \in Int

(* The target of a row is the discounted return of the rewards that its episode
   still collects, wherever the episode lies in a table of all of them. *)
THEOREM ReturnsAreTargets ==
  ASSUME NEW table, NEW n \in Nat, Rewarded(table, n),
         NEW rows, NEW succeeded \in BOOLEAN, Table(rows, succeeded),
         Len(rows) <= MaxSamples + 1,
         NEW off \in Nat, Holds(table, n, rows, off), NEW t \in DOMAIN rows
  PROVE  DiscountedReturns(table)[off + t] = SuccessToGo(Successes(rows))[t]
<1>0. DOMAIN table = 1..n /\ \A i \in 1..n : table[i].reward \in Int BY DEF Rewarded
<1>1. PICK tails : Tails(tails, table, n) BY <1>0, RowByRow
<1>2. Len(rows) \in Nat /\ t \in 1..Len(rows) /\ off + Len(rows) <= n
  BY DEF Table, Holds
<1>3. off + t \in 1..n + 1 - 1 /\ 1 \in 1..n + 1 /\ 1 + (off + t) - 1 = off + t
  BY <1>2
<1>4. tails[1][off + t] = tails[1 + (off + t) - 1][1]
  <2>1. Heads(tails, n) BY <1>0, <1>1, ReturnsAreHeads
  <2> QED BY <1>3, <2>1 DEF Heads
<1>5. tails[off + t][1] = Worth(rows, succeeded, t) BY <1>0, <1>1, ReturnIsWorth
<1>6. DiscountedReturns(table) = tails[1] BY <1>1 DEF Tails
<1> QED BY <1>3, <1>4, <1>5, <1>6, TargetIsWorth

-----------------------------------------------------------------------------
(* What retrieval adds, and the windows. *)

\* A sum of one number is that number.
LEMMA SumOfOne ==
  ASSUME NEW row, row.value \in Int
  PROVE  MapThenSumSet(LAMBDA n : n.value, {row}) = row.value
<1> DEFINE S == {row}
           Picked(s) == CHOOSE x \in s : TRUE
           G(g) == [s \in SUBSET S |->
                      IF s = {} THEN 0 ELSE Picked(s).value + g[s \ {Picked(s)}]]
           iter == CHOOSE g : g = G(g)
           h == [s \in SUBSET S |-> IF s = {} THEN 0 ELSE row.value]
<1>1. MapThenSumSet(LAMBDA n : n.value, S) = iter[S] BY DEF MapThenSumSet, MapThenFoldSet
<1>2. Picked(S) = row /\ S \ {Picked(S)} = {} OBVIOUS
<1>3. \A s \in SUBSET S : s = {} \/ s = S OBVIOUS
<1>4. h[{}] = 0 /\ h[S] = row.value OBVIOUS
<1> HIDE DEF Picked, h
<1>5. ASSUME NEW s \in SUBSET S
      PROVE  h[s] = IF s = {} THEN 0 ELSE Picked(s).value + h[s \ {Picked(s)}]
  <2>1. CASE s = {} BY <1>4, <2>1
  <2>2. CASE s = S
    <3>1. row.value + 0 = row.value OBVIOUS
    <3> QED BY <1>2, <1>4, <2>2, <3>1
  <2> QED BY <1>3, <2>1, <2>2
<1>6. DOMAIN h = SUBSET S /\ h = [s \in SUBSET S |-> h[s]] BY DEF h
<1>7. h = G(h) BY <1>5, <1>6
<1>8. iter = G(iter)
  <2>1. \E g : g = G(g) BY <1>7
  <2> HIDE DEF G
  <2> QED BY <2>1
<1>9. \A s \in SUBSET S :
        iter[s] = IF s = {} THEN 0 ELSE Picked(s).value + iter[s \ {Picked(s)}]
  <2> HIDE DEF iter
  <2> QED BY <1>8
<1> HIDE DEF iter, G
<1>10. iter[{}] = 0 BY <1>9
<1>11. {} \in SUBSET S /\ S \in SUBSET S /\ S # {} OBVIOUS
<1>12. iter[S] = row.value + iter[{}] BY <1>2, <1>9, <1>11
<1> QED BY <1>1, <1>10, <1>12

\* Of all rows in a bank the one with a state of its own is the nearest to it.
LEMMA NearestIsOwn ==
  ASSUME NEW bank, IsFiniteSet(bank), NEW n \in bank,
         \A m \in bank : m.state \in Int,
         \A m \in bank : m.state = n.state => m = n
  PROVE  NearestSets(n.state, bank, 1) \subseteq {{n}}
<1> SUFFICES ASSUME NEW S \in NearestSets(n.state, bank, 1) PROVE S = {n}
  OBVIOUS
<1>1. Cardinality(bank) \in Nat /\ Cardinality(bank) # 0
  BY FS_CardinalityType, FS_EmptySet
<1>2. /\ S \in SUBSET bank /\ Cardinality(S) = 1
      /\ \A near \in S : \A far \in bank \ S :
           Apart(n.state, near.state) <= Apart(n.state, far.state)
  <2>1. (IF 1 < Cardinality(bank) THEN 1 ELSE Cardinality(bank)) = 1 BY <1>1
  <2> QED BY <2>1 DEF NearestSets, kSubset
<1>3. IsFiniteSet(S) BY <1>2, FS_Subset
<1>4. PICK m : S = {m} BY <1>2, <1>3, FS_Singleton
<1>5. m = n
  <2> SUFFICES ASSUME m # n PROVE FALSE
    OBVIOUS
  <2>1. n \in bank \ S /\ m \in S /\ m \in bank BY <1>2, <1>4
  <2>2. Apart(n.state, m.state) <= Apart(n.state, n.state) BY <1>2, <2>1
  <2>3. n.state \in Int /\ m.state \in Int BY <2>1
  <2>4. Apart(n.state, n.state) = 0 BY <2>3 DEF Apart
  <2>5. m.state = n.state BY <2>2, <2>3, <2>4 DEF Apart
  <2> QED BY <2>1, <2>5
<1> QED BY <1>4, <1>5

\* Episodes as the finalizer writes them, with numbers for states.
Recorded(episodes, n, succeeded) ==
  /\ DOMAIN episodes = 1..n
  /\ \A e \in 1..n :
       /\ succeeded[e] \in BOOLEAN /\ Table(episodes[e].rows, succeeded[e])
       /\ Len(episodes[e].rows) <= MaxSamples + 1
       /\ \A t \in DOMAIN episodes[e].rows : episodes[e].rows[t].state \in Int

\* A bank is finite, and its rows are of the task, with their states and values.
LEMMA BankIsFinite ==
  ASSUME NEW episodes, NEW n \in Nat, NEW succeeded, Recorded(episodes, n, succeeded),
         NEW tasks
  PROVE  /\ IsFiniteSet(Bank(episodes, tasks))
         /\ \A b \in Bank(episodes, tasks) :
              /\ b.episode \in 1..n /\ episodes[b.episode].task \in tasks
              /\ b.row \in DOMAIN episodes[b.episode].rows
              /\ b.state = episodes[b.episode].rows[b.row].state
              /\ b.value = SuccessToGo(Successes(episodes[b.episode].rows))[b.row]
              /\ b.state \in Int /\ b.value \in Nat
<1> DEFINE Entry(e, t) == [episode |-> e, row |-> t, state |-> episodes[e].rows[t].state,
                           value |-> SuccessToGo(Successes(episodes[e].rows))[t]]
           Entries0(e) == {Entry(e, t) : t \in DOMAIN episodes[e].rows}
           Of == {f \in DOMAIN episodes :
                    /\ episodes[f].task \in tasks
                    /\ \E i \in DOMAIN episodes[f].rows : episodes[f].rows[i].success}
           All == {Entries0(e) : e \in Of}
<1>1. Bank(episodes, tasks) = UNION All BY DEF Bank
<1>2. Of \subseteq 1..n /\ \A e \in Of : episodes[e].task \in tasks BY DEF Recorded
<1>3. ASSUME NEW e \in 1..n PROVE IsFiniteSet(Entries0(e))
  <2>1. /\ Len(episodes[e].rows) \in Nat
        /\ DOMAIN episodes[e].rows = 1..Len(episodes[e].rows)
    BY DEF Recorded, Table
  <2> DEFINE m == Len(episodes[e].rows)
             g == [t \in 1..m |-> Entry(e, t)]
             S == Entries0(e)
  <2>2. g \in [1..m -> S] /\ \A x \in S : \E t \in 1..m : g[t] = x BY <2>1
  <2>3. m \in Nat BY <2>1
  <2> HIDE DEF g, S, m
  <2>5. IsFiniteSet(1..m) BY <2>3, FS_Interval
  <2>4. g \in Surjection(1..m, S) BY <2>2 DEF Surjection
  <2> QED BY <2>4, <2>5, FS_Surjection DEF S
<1>4. IsFiniteSet(Of)
  <2>1. IsFiniteSet(1..n) BY FS_Interval
  <2>2. Of \in SUBSET (1..n) BY <1>2
  <2> HIDE DEF Of
  <2> QED BY <2>1, <2>2, FS_Subset
<1>5. IsFiniteSet(All)
  <2> DEFINE g == [e \in Of |-> Entries0(e)]
  <2>1. g \in [Of -> All] /\ \A x \in All : \E e \in Of : g[e] = x OBVIOUS
  <2> HIDE DEF g, Of, All
  <2>2. g \in Surjection(Of, All) BY <2>1 DEF Surjection
  <2> QED BY <1>4, <2>2, FS_Surjection
<1>6. \A T \in All : IsFiniteSet(T)
  <2> HIDE DEF Entries0
  <2> QED BY <1>2, <1>3
<1>7. IsFiniteSet(UNION All)
  <2> HIDE DEF All
  <2> QED BY <1>5, <1>6, FS_UNION
<1>8. ASSUME NEW b \in Bank(episodes, tasks)
      PROVE  \E e \in Of : \E t \in DOMAIN episodes[e].rows : b = Entry(e, t)
  BY <1>1
<1>9. ASSUME NEW b \in Bank(episodes, tasks)
      PROVE  /\ b.episode \in 1..n /\ episodes[b.episode].task \in tasks
             /\ b.row \in DOMAIN episodes[b.episode].rows
             /\ b.state = episodes[b.episode].rows[b.row].state
             /\ b.value = SuccessToGo(Successes(episodes[b.episode].rows))[b.row]
             /\ b.state \in Int /\ b.value \in Nat
  <2>1. PICK e \in Of : \E t \in DOMAIN episodes[e].rows : b = Entry(e, t)
    <3> HIDE DEF Of, Entry
    <3> QED BY <1>8
  <2>2. PICK t \in DOMAIN episodes[e].rows : b = Entry(e, t)
    <3> HIDE DEF Of, Entry
    <3> QED BY <2>1
  <2>3. e \in 1..n /\ episodes[e].task \in tasks
    <3> HIDE DEF Of
    <3> QED BY <1>2, <2>1
  <2>4. /\ b.episode = e /\ b.row = t /\ b.state = episodes[e].rows[t].state
        /\ b.value = SuccessToGo(Successes(episodes[e].rows))[t]
    BY <2>2
  <2>5. /\ succeeded[e] \in BOOLEAN /\ Table(episodes[e].rows, succeeded[e])
        /\ Len(episodes[e].rows) <= MaxSamples + 1
        /\ episodes[e].rows[t].state \in Int
    BY <2>2, <2>3 DEF Recorded
  <2>6. SuccessToGo(Successes(episodes[e].rows))[t] \in Nat
    BY <2>5, TargetIsWorth
  <2> QED BY <2>2, <2>3, <2>4, <2>5, <2>6
<1> QED BY <1>1, <1>7, <1>9

(* What retrieval blends into the target of a state that no other row of the
   task's successes has is that target itself, for any weights. *)
THEOREM RetrievalKeepsTarget ==
  ASSUME NEW episodes, NEW n \in Nat, NEW succeeded, Recorded(episodes, n, succeeded),
         NEW task, NEW r \in Bank(episodes, {task}),
         \A m \in Bank(episodes, {task}) : m.state = r.state => m = r,
         NEW b \in Blends(episodes, r.episode, r.row, 1)
  PROVE  b.value = r.value * b.unit
<1> DEFINE bank == Bank(episodes, {task})
           e == r.episode
           t == r.row
<1>1. /\ IsFiniteSet(bank) /\ \A m \in bank : m.state \in Int
      /\ episodes[e].task = task /\ r.state = episodes[e].rows[t].state
      /\ r.value = SuccessToGo(Successes(episodes[e].rows))[t] /\ r.value \in Nat
  BY BankIsFinite
<1>2. bank # {} /\ {episodes[e].task} = {task} BY <1>1
<1>3. RetrievalProgress(episodes, e, t, 1) =
        {<<MapThenSumSet(LAMBDA n0 : n0.value, S), Cardinality(S)>>
           : S \in NearestSets(r.state, bank, 1)}
  BY <1>1, <1>2 DEF RetrievalProgress
<1>4. NearestSets(r.state, bank, 1) \subseteq {{r}} BY <1>1, NearestIsOwn
<1>5. MapThenSumSet(LAMBDA n0 : n0.value, {r}) = r.value BY <1>1, SumOfOne
<1>6. Cardinality({r}) = 1 BY FS_Singleton
<1>7. \A p \in RetrievalProgress(episodes, e, t, 1) : p = <<r.value, 1>>
  <2> SUFFICES ASSUME NEW p \in RetrievalProgress(episodes, e, t, 1)
               PROVE  p = <<r.value, 1>>
    OBVIOUS
  <2>1. PICK S \in NearestSets(r.state, bank, 1) :
          p = <<MapThenSumSet(LAMBDA n0 : n0.value, S), Cardinality(S)>>
    BY <1>3
  <2>2. S = {r} BY <1>4, <2>1
  <2> QED BY <1>5, <1>6, <2>1, <2>2
<1>8. PICK p \in RetrievalProgress(episodes, e, t, 1) :
        b = [value |-> SuccessWeight * SuccessToGo(Successes(episodes[e].rows))[t] * p[2]
                       + ProgressWeight * p[1],
             unit |-> (SuccessWeight + ProgressWeight) * p[2]]
  BY DEF Blends
<1>9. p[1] = r.value /\ p[2] = 1 BY <1>7, <1>8
<1>10. /\ b.value = SuccessWeight * r.value * 1 + ProgressWeight * r.value
       /\ b.unit = (SuccessWeight + ProgressWeight) * 1
  BY <1>1, <1>8, <1>9
<1>11. SuccessWeight \in Nat /\ ProgressWeight \in Nat BY <1>1, RowsAssumption
<1> HIDE DEF e, t
<1>12. \A v \in Nat : SuccessWeight * v * 1 + ProgressWeight * v
                      = v * ((SuccessWeight + ProgressWeight) * 1)
  BY <1>11
<1> QED BY <1>1, <1>10, <1>12

\* A table of some rows, in which each episode lies somewhere.
Gathered(table, size, episodes, n, off) ==
  /\ size \in Nat /\ Rewarded(table, size)
  /\ \A e \in 1..n : off[e] \in Nat /\ Holds(table, size, episodes[e].rows, off[e])

(* A window lies in its episode, and its target is the return that the table of
   all episodes has at its start. *)
THEOREM WindowsHaveReturns ==
  ASSUME NEW episodes, NEW n \in Nat, NEW succeeded, Recorded(episodes, n, succeeded),
         NEW table, NEW size, NEW off, Gathered(table, size, episodes, n, off),
         NEW horizon \in Nat \ {0}, NEW stride,
         NEW w \in Windows(episodes, horizon, stride)
  PROVE  /\ w.episode \in 1..n
         /\ w.start + horizon - 1 \in DOMAIN episodes[w.episode].rows
         /\ w.target = DiscountedReturns(table)[off[w.episode] + w.start]
<1>1. PICK e \in 1..n :
        \E t \in 1..Len(episodes[e].rows) - horizon + 1 :
          w = [episode |-> e, start |-> t,
               target |-> SuccessToGo(Successes(episodes[e].rows))[t]]
  BY DEF Windows, Recorded
<1>2. PICK t \in 1..Len(episodes[e].rows) - horizon + 1 :
        w = [episode |-> e, start |-> t,
             target |-> SuccessToGo(Successes(episodes[e].rows))[t]]
  BY <1>1
<1>3. /\ succeeded[e] \in BOOLEAN /\ Table(episodes[e].rows, succeeded[e])
      /\ Len(episodes[e].rows) <= MaxSamples + 1
  BY DEF Recorded
<1> DEFINE rows == episodes[e].rows
           m == Len(rows)
<1>4. m \in Nat /\ DOMAIN rows = 1..m BY <1>3 DEF Table
<1>5. t \in 1..m - horizon + 1 BY <1>2
<1>6. w.episode = e /\ w.start = t /\ w.target = SuccessToGo(Successes(rows))[t]
  BY <1>2
<1> HIDE DEF m
<1>7. t \in 1..m /\ t + horizon - 1 \in 1..m BY <1>4, <1>5
<1>8. /\ off[e] \in Nat /\ Holds(table, size, rows, off[e])
      /\ size \in Nat /\ Rewarded(table, size)
  BY DEF Gathered
<1>9. DiscountedReturns(table)[off[e] + t] = SuccessToGo(Successes(rows))[t]
  <2>1. ASSUME NEW r, NEW s \in BOOLEAN, Table(r, s), Len(r) <= MaxSamples + 1,
               NEW o \in Nat, Holds(table, size, r, o), NEW u \in DOMAIN r
        PROVE  DiscountedReturns(table)[o + u] = SuccessToGo(Successes(r))[u]
    BY <1>8, <2>1, ReturnsAreTargets
  <2>2. Table(rows, succeeded[e]) /\ Len(rows) <= MaxSamples + 1 BY <1>3
  <2>3. off[e] \in Nat /\ Holds(table, size, rows, off[e]) BY <1>8
  <2>4. t \in DOMAIN rows BY <1>4, <1>7
  <2>5. succeeded[e] \in BOOLEAN BY <1>3
  <2> HIDE DEF rows
  <2> QED BY <2>1, <2>2, <2>3, <2>4, <2>5
<1> QED BY <1>4, <1>6, <1>7, <1>9

\* The captures of the run whose rows are counted have two to four samples.
LEMMA ShortTimes ==
  ASSUME NEW times \in {<<0, 1>>, <<0, 1, 2>>, <<1, 2, 3, 5>>}
  PROVE  \E k \in 2..4 : times \in [1..k -> Times] /\ Increasing(times)
<1>1. CASE times = <<0, 1>>
  <2>1. DOMAIN times = 1..2 /\ times[1] = 0 /\ times[2] = 1 BY <1>1
  <2>2. times \in [1..2 -> Times] BY <1>1 DEF Times
  <2>3. Increasing(times) BY <2>1 DEF Increasing
  <2> QED BY <2>2, <2>3
<1>2. CASE times = <<0, 1, 2>>
  <2>1. DOMAIN times = 1..3 /\ times[1] = 0 /\ times[2] = 1 /\ times[3] = 2 BY <1>2
  <2>2. times \in [1..3 -> Times] BY <1>2 DEF Times
  <2>3. Increasing(times) BY <2>1 DEF Increasing
  <2> QED BY <2>2, <2>3
<1>3. CASE times = <<1, 2, 3, 5>>
  <2>1. /\ DOMAIN times = 1..4
        /\ times[1] = 1 /\ times[2] = 2 /\ times[3] = 3 /\ times[4] = 5
    BY <1>3
  <2>2. times \in [1..4 -> Times] BY <1>3 DEF Times
  <2>3. Increasing(times) BY <2>1 DEF Increasing
  <2> QED BY <2>2, <2>3
<1> QED BY <1>1, <1>2, <1>3

\* An episode of the run is a table with numbers for states and rewards.
LEMMA ShortEpisode ==
  ASSUME NEW x \in Short
  PROVE  LET rows == EpisodeOf(x).rows
         IN /\ x.success \in BOOLEAN /\ Table(rows, x.success)
            /\ Len(rows) <= MaxSamples + 1 /\ rows \in Seq(Range(rows))
            /\ \A t \in DOMAIN rows : rows[t].state \in Int /\ rows[t].reward \in Int
<1> DEFINE rows == EpisodeOf(x).rows
           samples == Capture(x.times, TRUE)
<1>0. x.success \in BOOLEAN BY DEF Short
<1>1. PICK k \in 2..4 : x.times \in [1..k -> Times] /\ Increasing(x.times)
  BY ShortTimes DEF Short
<1>2. k \in Nat /\ k >= 2 /\ k <= 4 /\ k - 1 <= MaxSamples + 1
  BY <1>1, RowsAssumption
<1>3. /\ DOMAIN x.times = 1..k /\ \A i \in 1..k : x.times[i] \in Int
      /\ \A i, j \in 1..k : i < j => x.times[i] < x.times[j]
  BY <1>1 DEF Times, Increasing
<1>4. samples = [i \in 1..k |-> [time |-> x.times[i], state |-> x.times[i],
                                 camera |-> TRUE]]
  BY <1>3 DEF Capture
<1>6. rows = BuildTransitions(samples, x.success) BY DEF EpisodeOf
<1> HIDE DEF rows, samples
<1>5. Len(samples) = k /\ \A i \in 1..k : /\ samples[i].time = x.times[i]
                                          /\ samples[i].state = x.times[i]
  <2>1. Len(samples) = k BY <1>2, <1>4
  <2>2. \A i \in 1..k : samples[i].time = x.times[i] BY <1>4
  <2>3. \A i \in 1..k : samples[i].state = x.times[i] BY <1>4
  <2> QED BY <2>1, <2>2, <2>3
<1>7. /\ \A i \in 1..k : samples[i].time \in Int
      /\ \A i, j \in 1..k : i < j => samples[i].time < samples[j].time
  BY <1>3, <1>5
<1>8. Table(BuildTransitions(samples, x.success), x.success)
  BY <1>0, <1>2, <1>5, <1>7, TransitionsAreTable
<1>9. Table(rows, x.success) BY <1>6, <1>8
<1>10. rows = [i \in 1..k - 1 |-> Row(samples, x.success, i)]
  BY <1>5, <1>6 DEF BuildTransitions
<1>11. k - 1 \in Nat BY <1>2
<1>12. Len(rows) = k - 1 /\ DOMAIN rows = 1..k - 1 /\ rows \in Seq(Range(rows))
  BY <1>10, <1>11 DEF Range
<1>13. ASSUME NEW t \in DOMAIN rows
       PROVE  rows[t].state \in Int /\ rows[t].reward \in Int
  <2>1. rows[t].state = samples[t].state BY <1>10, <1>12 DEF Row
  <2>2. t \in 1..k BY <1>2, <1>12
  <2>3. rows[t].reward = IF x.success /\ t = Len(rows) THEN One ELSE 0
    BY <1>9 DEF Table
  <2>4. One \in Int BY UnitIsAboveZero
  <2> QED BY <1>3, <1>5, <2>1, <2>2, <2>3, <2>4
<1> QED BY <1>0, <1>2, <1>9, <1>12, <1>13 DEF rows

\* Two episodes follow each other in the table of both.
LEMMA TwoInTable ==
  ASSUME NEW a, NEW b, a \in Seq(Range(a)), b \in Seq(Range(b)),
         \A t \in DOMAIN a : a[t].reward \in Int,
         \A t \in DOMAIN b : b[t].reward \in Int
  PROVE  LET table == a \o b
             n == Len(a) + Len(b)
         IN /\ n \in Nat /\ DOMAIN table = 1..n
            /\ \A i \in 1..n : table[i].reward \in Int
            /\ Holds(table, n, a, 0) /\ Holds(table, n, b, Len(a))
<1> DEFINE table == a \o b
           n == Len(a) + Len(b)
           All == Range(a) \union Range(b)
<1>1. a \in Seq(All) /\ b \in Seq(All) OBVIOUS
<1> HIDE DEF All
<1>2. /\ Len(a) \in Nat /\ Len(b) \in Nat
      /\ DOMAIN a = 1..Len(a) /\ DOMAIN b = 1..Len(b)
  BY <1>1
<1>3. /\ table \in Seq(All) /\ Len(table) = n
      /\ \A i \in 1..n : table[i] = IF i <= Len(a) THEN a[i] ELSE b[i - Len(a)]
  BY <1>1
<1> HIDE DEF table, n
<1>4. n = Len(a) + Len(b) /\ n \in Nat BY <1>2 DEF n
<1>5. DOMAIN table = 1..n BY <1>3, <1>4
<1>6. \A t \in 1..Len(a) : table[0 + t] = a[t]
  <2> SUFFICES ASSUME NEW t \in 1..Len(a) PROVE table[0 + t] = a[t]
    OBVIOUS
  <2>1. t \in 1..n /\ 0 + t = t /\ t <= Len(a) BY <1>2, <1>4
  <2> QED BY <1>3, <2>1
<1>7. \A t \in 1..Len(b) : table[Len(a) + t] = b[t]
  <2> SUFFICES ASSUME NEW t \in 1..Len(b) PROVE table[Len(a) + t] = b[t]
    OBVIOUS
  <2>1. Len(a) + t \in 1..n /\ ~(Len(a) + t <= Len(a)) /\ Len(a) + t - Len(a) = t
    BY <1>2, <1>4
  <2> QED BY <1>3, <2>1
<1>8. \A i \in 1..n : table[i].reward \in Int
  <2> SUFFICES ASSUME NEW i \in 1..n PROVE table[i].reward \in Int
    OBVIOUS
  <2>1. CASE i <= Len(a)
    <3>1. i \in DOMAIN a BY <1>2, <1>4, <2>1
    <3> QED BY <1>3, <2>1, <3>1
  <2>2. CASE ~(i <= Len(a))
    <3>1. i - Len(a) \in DOMAIN b BY <1>2, <1>4, <2>2
    <3> QED BY <1>3, <2>2, <3>1
  <2> QED BY <2>1, <2>2
<1>9. Holds(table, n, a, 0) BY <1>2, <1>4, <1>6 DEF Holds
<1>10. Holds(table, n, b, Len(a)) BY <1>2, <1>4, <1>7 DEF Holds
<1> QED BY <1>4, <1>5, <1>8, <1>9, <1>10 DEF table, n

(* The targets of the run are returns, and retrieval keeps them, in every case
   that it enumerates. *)
THEOREM TargetsAreReturns == MCSpec => []TargetsAgree
<1> DEFINE Case == input.kind = "rows" => input \in RowCases
<1>1. MCInit => Case
  <2>1. \A x \in GuardCases \union ChunkCases : x.kind # "rows"
    <3>1. \A x \in GuardCases : x.kind = "guard" BY DEF GuardCases
    <3>2. \A x \in ChunkCases : x.kind = "chunk" BY DEF ChunkCases
    <3> QED BY <3>1, <3>2
  <2>2. \A x \in SplitCases : x.kind # "rows" BY OtherKinds
  <2>3. NoInput.kind # "rows" BY DEF NoInput
  <2> QED BY <2>1, <2>2, <2>3 DEF MCInit
<1>2. Case /\ [MCNext]_mcVars => Case' BY DEF MCNext, mcVars
<1>3. Case => TargetsAgree
  <2> SUFFICES ASSUME input \in RowCases PROVE TargetsAgree
    BY DEF TargetsAgree
  <2> DEFINE x == input.episodes[1]
             y == input.episodes[2]
             a == EpisodeOf(x)
             b == EpisodeOf(y)
             episodes == <<a, b>>
             table == a.rows \o b.rows
             size == Len(a.rows) + Len(b.rows)
             off == [e \in 1..2 |-> IF e = 1 THEN 0 ELSE Len(a.rows)]
             succeeded == [e \in 1..2 |-> IF e = 1 THEN x.success ELSE y.success]
  <2>1. /\ x \in Short /\ y \in Short
        /\ input.horizon \in 1..3
    BY DEF RowCases
  <2> HIDE DEF x, y
  <2>2. /\ x.success \in BOOLEAN /\ Table(a.rows, x.success)
        /\ Len(a.rows) <= MaxSamples + 1 /\ a.rows \in Seq(Range(a.rows))
        /\ \A t \in DOMAIN a.rows : a.rows[t].state \in Int /\ a.rows[t].reward \in Int
    BY <2>1, ShortEpisode
  <2>3. /\ y.success \in BOOLEAN /\ Table(b.rows, y.success)
        /\ Len(b.rows) <= MaxSamples + 1 /\ b.rows \in Seq(Range(b.rows))
        /\ \A t \in DOMAIN b.rows : b.rows[t].state \in Int /\ b.rows[t].reward \in Int
    BY <2>1, ShortEpisode
  <2> HIDE DEF a, b
  <2>4. /\ size \in Nat /\ DOMAIN table = 1..size
        /\ \A i \in 1..size : table[i].reward \in Int
        /\ Holds(table, size, a.rows, 0) /\ Holds(table, size, b.rows, Len(a.rows))
    BY <2>2, <2>3, TwoInTable
  <2> HIDE DEF table, size
  <2>5. DOMAIN episodes = 1..2 /\ episodes[1] = a /\ episodes[2] = b OBVIOUS
  <2>6. Len(a.rows) \in Nat BY <2>2
  <2>7. /\ succeeded[1] = x.success /\ succeeded[2] = y.success
        /\ off[1] = 0 /\ off[2] = Len(a.rows)
    OBVIOUS
  <2> HIDE DEF episodes, succeeded, off
  <2>8. Recorded(episodes, 2, succeeded)
    <3>1. \A e \in 1..2 : e = 1 \/ e = 2 OBVIOUS
    <3> QED BY <2>2, <2>3, <2>5, <2>7, <3>1 DEF Recorded
  <2>9. Gathered(table, size, episodes, 2, off)
    <3>1. \A e \in 1..2 : e = 1 \/ e = 2 OBVIOUS
    <3>2. Rewarded(table, size) BY <2>4 DEF Rewarded
    <3>3. size \in Nat /\ Len(a.rows) \in Nat BY <2>4, <2>6
    <3> QED BY <2>4, <2>5, <2>7, <3>1, <3>2, <3>3 DEF Gathered
  <2>10. ASSUME NEW w \in Windows(episodes, input.horizon, input.stride)
         PROVE  /\ w.start + input.horizon - 1 \in DOMAIN episodes[w.episode].rows
                /\ w.target = DiscountedReturns(table)
                     [(IF w.episode = 1 THEN 0 ELSE Len(a.rows)) + w.start]
    <3>1. input.horizon \in Nat \ {0} BY <2>1
    <3>2. /\ w.episode \in 1..2
          /\ w.start + input.horizon - 1 \in DOMAIN episodes[w.episode].rows
          /\ w.target = DiscountedReturns(table)[off[w.episode] + w.start]
      <4> DEFINE horizon == input.horizon
                 stride == input.stride
      <4>1. horizon \in Nat \ {0} /\ w \in Windows(episodes, horizon, stride) BY <3>1
      <4> HIDE DEF horizon, stride
      <4>2. /\ w.episode \in 1..2
            /\ w.start + horizon - 1 \in DOMAIN episodes[w.episode].rows
            /\ w.target = DiscountedReturns(table)[off[w.episode] + w.start]
        <5>1. 2 \in Nat OBVIOUS
        <5>2. ASSUME NEW n \in Nat, n = 2
              PROVE  /\ w.episode \in 1..n
                     /\ w.start + horizon - 1 \in DOMAIN episodes[w.episode].rows
                     /\ w.target = DiscountedReturns(table)[off[w.episode] + w.start]
          <6>1. Recorded(episodes, n, succeeded) BY <2>8, <5>2
          <6>2. Gathered(table, size, episodes, n, off) BY <2>9, <5>2
          <6> QED BY <4>1, <6>1, <6>2, WindowsHaveReturns
        <5> QED BY <5>1, <5>2
      <4> QED BY <4>2 DEF horizon
    <3>3. off[w.episode] = IF w.episode = 1 THEN 0 ELSE Len(a.rows) BY <2>7, <3>2
    <3> QED BY <3>2, <3>3
  <2>11. ASSUME NEW n \in Bank(episodes, {episodes[1].task}),
                \A m \in Bank(episodes, {episodes[1].task}) : m.state = n.state => m = n,
                NEW c \in Blends(episodes, n.episode, n.row, 1)
         PROVE  c.value = n.value * c.unit
    BY <2>8, <2>11, RetrievalKeepsTarget
  <2> QED BY <2>5, <2>10, <2>11 DEF TargetsAgree, episodes, table, a, b, x, y
<1> HIDE DEF Case
<1> QED BY <1>1, <1>2, <1>3, PTL DEF MCSpec

-----------------------------------------------------------------------------
(* Validation keeps episodes, and groups of branches, apart from training. *)

\* What occurs in a sequence is finite.
LEMMA OccurrencesAreFinite ==
  ASSUME NEW f, NEW n \in Nat, DOMAIN f = 1..n
  PROVE  IsFiniteSet(ToSet(f)) /\ Cardinality(ToSet(f)) \in Nat
<1> DEFINE S == ToSet(f)
           g == [i \in 1..n |-> f[i]]
<1>1. S = {f[i] : i \in 1..n} BY DEF ToSet
<1>2. g \in [1..n -> S] /\ \A x \in S : \E i \in 1..n : g[i] = x BY <1>1
<1> HIDE DEF S, g
<1>3. g \in Surjection(1..n, S) BY <1>2 DEF Surjection
<1>4. IsFiniteSet(1..n) BY FS_Interval
<1>5. IsFiniteSet(S) BY <1>3, <1>4, FS_Surjection
<1> QED BY <1>5, FS_CardinalityType DEF S

\* Of two or more, at least one is held out and never all of them.
LEMMA SomeAreHeldOut ==
  ASSUME NEW count \in Nat, count >= 2, NEW fraction,
         fraction.num \in Nat, fraction.den \in Nat \ {0}
  PROVE  HeldOut(count, fraction) \in 1..(count - 1)
<1> DEFINE share == (count * fraction.num) \div fraction.den
<1>1. share \in Int
  <2>1. count * fraction.num \in Int OBVIOUS
  <2> QED BY <2>1
<1> HIDE DEF share
<1>2. HeldOut(count, fraction) = Greatest(1, Least(share, count - 1))
  BY DEF HeldOut, share
<1> QED BY <1>1, <1>2 DEF Greatest, Least

(* split_indices_by_episode keeps the windows of an episode together, for any number
   of windows, any episodes and any fraction: none is in training and in validation,
   training has windows, and so does validation if it is to have any. *)
THEOREM WindowsStayTogether ==
  ASSUME NEW episodeOf, NEW n \in Nat \ {0}, DOMAIN episodeOf = 1..n,
         NEW fraction, fraction.num \in Nat, fraction.den \in Nat \ {0}
  PROVE  EpisodesStayApart(episodeOf, fraction)
<1> DEFINE unique == ToSet(episodeOf)
           count == Cardinality(unique)
<1>1. IsFiniteSet(unique) /\ count \in Nat BY OccurrencesAreFinite
<1>2. \A w \in 1..n : episodeOf[w] \in unique BY DEF ToSet
<1>3. \A e \in unique : \E w \in 1..n : episodeOf[w] = e BY DEF ToSet
<1> SUFFICES ASSUME NEW val \in ValidationWindows(episodeOf, fraction)
             PROVE  /\ \A w \in 1..n \ val : \A v \in val : episodeOf[w] # episodeOf[v]
                    /\ 1..n \ val # {}
                    /\ fraction.num > 0 /\ count > 1 => val # {}
  BY DEF EpisodesStayApart
<1>4. CASE fraction.num = 0 \/ count < 2
  <2>1. val = {} BY <1>4 DEF ValidationWindows
  <2>2. 1 \in 1..n OBVIOUS
  <2>3. ~(fraction.num > 0 /\ count > 1)
    <3> HIDE DEF count
    <3> QED BY <1>1, <1>4
  <2>4. 1..n \ val # {} BY <2>1, <2>2
  <2> HIDE DEF count
  <2> QED BY <2>1, <2>3, <2>4
<1>5. CASE ~(fraction.num = 0 \/ count < 2)
  <2> DEFINE k == HeldOut(count, fraction)
  <2>1. PICK held \in kSubset(k, unique) : val = {w \in 1..n : episodeOf[w] \in held}
    BY <1>5 DEF ValidationWindows
  <2>2. k \in 1..(count - 1)
    <3> HIDE DEF count
    <3> QED BY <1>1, <1>5, SomeAreHeldOut
  <2>3. held \subseteq unique /\ Cardinality(held) = k BY <2>1 DEF kSubset
  <2>4. held # {} /\ held # unique
    <3>1. Cardinality({}) = 0 BY FS_EmptySet
    <3> HIDE DEF k, unique
    <3>2. Cardinality(held) # 0 /\ Cardinality(held) # count BY <1>1, <2>2, <2>3
    <3> QED BY <3>1, <3>2
  <2> HIDE DEF unique, k, count
  <2>5. \A w \in 1..n : w \in val <=> episodeOf[w] \in held BY <2>1
  <2>6. val \subseteq 1..n BY <2>1
  <2>7. val # {} BY <1>3, <2>3, <2>4, <2>5
  <2>8. 1..n \ val # {}
    <3>1. PICK e \in unique : e \notin held BY <2>3, <2>4
    <3>2. PICK w \in 1..n : episodeOf[w] = e BY <1>3, <3>1
    <3> QED BY <2>5, <3>1, <3>2
  <2> QED BY <2>5, <2>6, <2>7, <2>8
<1> QED BY <1>4, <1>5

(* Whatever groups are held out, no ranking pair is judged in a group that was
   trained on, every pair has its place and training has one if there is one: in
   the mixed critic's split and in the probe's. *)
THEOREM PairsStay ==
  ASSUME NEW pairs, NEW groupOf, NEW fraction, NEW sorted
  PROVE  /\ \A s \in MixedSplits(pairs, groupOf, fraction) : PairsStayApart(pairs, s)
         /\ PairsStayApart(pairs, ProbePairs(pairs, sorted))
<1>1. ASSUME NEW held, NEW s,
             LET train == {p \in pairs : p.group \notin held}
             IN /\ s.trainPairs = IF train = {} THEN pairs ELSE train
                /\ s.valPairs = IF train = {} THEN {} ELSE pairs \ train
      PROVE  PairsStayApart(pairs, s)
  <2> DEFINE train == {p \in pairs : p.group \notin held}
  <2>1. CASE train = {}
    <3>1. s.trainPairs = pairs /\ s.valPairs = {} BY <1>1, <2>1
    <3>2. {p.group : p \in s.valPairs} = {} BY <3>1
    <3> HIDE DEF train
    <3> QED BY <3>1, <3>2 DEF PairsStayApart
  <2>2. CASE train # {}
    <3>1. s.trainPairs = train /\ s.valPairs = pairs \ train BY <1>1, <2>2
    <3>2. \A p \in train : \A q \in pairs \ train : p.group # q.group OBVIOUS
    <3>3. train \union (pairs \ train) = pairs OBVIOUS
    <3> HIDE DEF train
    <3> QED BY <2>2, <3>1, <3>2, <3>3 DEF PairsStayApart
  <2> QED BY <2>1, <2>2
<1>2. ASSUME NEW s \in MixedSplits(pairs, groupOf, fraction)
      PROVE  PairsStayApart(pairs, s)
  <2>1. \E held : s = MixedSplit(pairs, groupOf, held) BY DEF MixedSplits
  <2>2. PICK held : s = MixedSplit(pairs, groupOf, held) BY <2>1
  <2> DEFINE train == {p \in pairs : p.group \notin held}
  <2>3. /\ s.trainPairs = IF train = {} THEN pairs ELSE train
        /\ s.valPairs = IF train = {} THEN {} ELSE pairs \ train
    BY <2>2 DEF MixedSplit
  <2> QED BY <1>1, <2>3
<1>3. PairsStayApart(pairs, ProbePairs(pairs, sorted))
  <2> DEFINE s == ProbePairs(pairs, sorted)
             train == {p \in pairs : p.group \notin ProbeHeld(sorted)}
  <2>1. /\ s.trainPairs = IF train = {} THEN pairs ELSE train
        /\ s.valPairs = IF train = {} THEN {} ELSE pairs \ train
    BY DEF ProbePairs
  <2> HIDE DEF s
  <2> QED BY <1>1, <2>1 DEF s
<1> QED BY <1>2, <1>3

-----------------------------------------------------------------------------
(* The stratified split: the share of each outcome. *)

\* Rounding moves a number by a half at most.
LEMMA RoundIsNear ==
  ASSUME NEW n \in Nat, NEW d \in Nat \ {0}
  PROVE  /\ RoundHalfEven(n, d) \in Nat
         /\ 2 * (RoundHalfEven(n, d) * d) <= 2 * n + d
         /\ 2 * (RoundHalfEven(n, d) * d) >= 2 * n - d
<1> DEFINE q == n \div d
           r == n % d
           x == RoundHalfEven(n, d)
<1>1. q \in Nat /\ r \in 0..(d - 1) /\ n = q * d + r OBVIOUS
<1>2. (x = q /\ 2 * r <= d) \/ (x = q + 1 /\ 2 * r >= d)
  <2>1. x = IF 2 * r < d \/ (2 * r = d /\ q % 2 = 0) THEN q ELSE q + 1
    BY DEF RoundHalfEven
  <2> HIDE DEF x, q, r
  <2> QED BY <1>1, <2>1
<1> HIDE DEF x, q, r
<1> DEFINE m == q * d
<1>3. m \in Int /\ n = m + r BY <1>1
<1>4. (q + 1) * d = m + d BY <1>1
<1> HIDE DEF m
<1>5. CASE x = q /\ 2 * r <= d
  <2>1. x * d = m BY <1>5 DEF m
  <2> QED BY <1>1, <1>3, <1>5, <2>1 DEF x
<1>6. CASE x = q + 1 /\ 2 * r >= d
  <2>1. x * d = m + d BY <1>4, <1>6
  <2> QED BY <1>1, <1>3, <1>6, <2>1 DEF x
<1> QED BY <1>2, <1>5, <1>6

\* A product grows with its first factor.
LEMMA TimesIsMonotonic ==
  ASSUME NEW a \in Int, NEW b \in Int, a <= b, NEW t \in Nat
  PROVE  a * t <= b * t /\ a * t \in Int /\ b * t \in Int
OBVIOUS

\* The quota of a group is within one of its share and leaves one to train on.
LEMMA QuotaIsNear ==
  ASSUME NEW size \in Nat \ {0}, NEW total \in Nat \ {0}, size <= total,
         NEW v \in 0..total
  PROVE  LET q == Quota(size, v, total)
         IN /\ q \in 0..(size - 1)
            /\ q * total <= v * size + total
            /\ q * total >= v * size - total
<1> DEFINE q == Quota(size, v, total)
           r == RoundHalfEven(v * size, total)
           share == v * size
<1>1. share \in Nat BY TimesIsMonotonic
<1> HIDE DEF share
<1>2. r \in Nat /\ 2 * (r * total) <= 2 * share + total /\ 2 * (r * total) >= 2 * share - total
  BY <1>1, RoundIsNear DEF share
<1> HIDE DEF r
<1>3. q = Least(r, size - 1)
  <2>1. Greatest(0, size - 1) = size - 1 BY DEF Greatest
  <2> QED BY <2>1 DEF Quota, r
<1> HIDE DEF q
<1>4. q \in 0..(size - 1) /\ q <= r /\ (q = r \/ q = size - 1) BY <1>2, <1>3 DEF Least
<1> DEFINE qt == q * total
           rt == r * total
<1>5. qt <= rt /\ qt \in Int /\ rt \in Int BY <1>2, <1>4, TimesIsMonotonic
<1>6. CASE q = r
  <2>1. qt = rt BY <1>6
  <2> HIDE DEF qt, rt
  <2>2. 2 * rt <= 2 * share + total /\ 2 * rt >= 2 * share - total BY <1>2 DEF rt
  <2> QED BY <1>1, <1>4, <1>5, <2>1, <2>2 DEF q, qt, share
<1>7. CASE q = size - 1
  <2>1. qt = size * total - total BY <1>7
  <2>2. share <= size * total /\ size * total \in Int
    <3>1. v * size <= total * size BY TimesIsMonotonic
    <3> QED BY <3>1 DEF share
  <2> HIDE DEF qt, rt
  <2>3. 2 * rt <= 2 * share + total BY <1>2 DEF rt
  <2>4. qt <= share + total BY <1>1, <1>5, <2>3
  <2>5. qt >= share - total
    <3> DEFINE st == size * total
    <3> HIDE DEF st
    <3>1. qt = st - total /\ share <= st /\ st \in Int BY <2>1, <2>2 DEF st
    <3> QED BY <1>1, <3>1
  <2> QED BY <1>4, <2>4, <2>5 DEF q, qt, share
<1> QED BY <1>4, <1>6, <1>7

\* The quotas of two groups, served one after the other.
BothServed(s1, s2, a, b, v, t) ==
  s1 = Least(Quota(a, v, t), v) /\ s2 = Least(Quota(b, v, t), v - s1)

\* i of v are chosen from a of t.
NearShare(i, v, a, t) == i * t <= v * a + t /\ i * t >= v * a - t

(* The first of two groups is served, then the other, and what is left is filled
   up with anything: each still has its share, give or take one. *)
LEMMA SharesOfTwo ==
  ASSUME NEW a \in Nat \ {0}, NEW b \in Nat \ {0}, NEW t \in Nat, t = a + b,
         NEW v \in 1..(t - 1), NEW s1, NEW s2, BothServed(s1, s2, a, b, v, t),
         NEW i \in Int, NEW j \in Int, i >= s1, j >= s2, i + j = v
  PROVE  NearShare(i, v, a, t) /\ NearShare(j, v, b, t)
<1> DEFINE q1 == Quota(a, v, t)
           q2 == Quota(b, v, t)
           va == v * a
           vb == v * b
           vt == v * t
<1>1. /\ va \in Int /\ vb \in Int /\ vt \in Int /\ va + vb = vt
      /\ va <= vt /\ vb <= vt
  <2>1. va + vb = vt OBVIOUS
  <2>2. va \in Nat /\ vb \in Nat OBVIOUS
  <2> QED BY <2>1, <2>2
<1>2. /\ q1 \in Nat /\ q1 * t <= va + t /\ q1 * t >= va - t
      /\ q2 \in Nat /\ q2 * t <= vb + t /\ q2 * t >= vb - t
  <2>1. a <= t /\ b <= t /\ t \in Nat \ {0} /\ v \in 0..t OBVIOUS
  <2> QED BY <2>1, QuotaIsNear
<1>3. s1 = Least(q1, v) /\ s2 = Least(q2, v - s1) BY DEF BothServed
<1> HIDE DEF q1, q2
<1>4. s1 \in Int /\ (s1 = q1 \/ s1 = v) /\ s1 <= q1 /\ s1 <= v BY <1>2, <1>3 DEF Least
<1>5. s2 \in Int /\ (s2 = q2 \/ s2 = v - s1) BY <1>2, <1>3, <1>4 DEF Least
<1> DEFINE it == i * t
           jt == j * t
<1>6. it \in Int /\ jt \in Int /\ it + jt = vt
  <2>1. it + jt = (i + j) * t OBVIOUS
  <2> QED BY <2>1
<1>7. s1 * t <= it /\ s2 * t <= jt BY <1>4, <1>5, TimesIsMonotonic
<1>8. s1 * t >= va - t
  <2>1. CASE s1 = q1 BY <1>2, <2>1
  <2>2. CASE s1 = v
    <3>1. s1 * t = vt BY <2>2
    <3> HIDE DEF va, vt
    <3> QED BY <1>1, <3>1
  <2> QED BY <1>4, <2>1, <2>2
<1>9. it >= va - t
  <2> DEFINE st == s1 * t
  <2>1. st \in Int /\ st <= it /\ st >= va - t BY <1>4, <1>7, <1>8
  <2> HIDE DEF it, va, st
  <2> QED BY <1>1, <1>6, <2>1
<1>10. it <= va + t
  <2>1. CASE s2 = q2
    <3>1. q2 * t >= vb - t /\ q2 * t <= jt /\ q2 * t \in Int BY <1>2, <1>7, <2>1
    <3> DEFINE qt == q2 * t
    <3>2. qt >= vb - t /\ qt <= jt /\ qt \in Int BY <3>1
    <3> HIDE DEF it, jt, va, vb, vt, qt
    <3> QED BY <1>1, <1>6, <3>2
  <2>2. CASE s2 = v - s1
    <3>1. i <= q1 BY <1>2, <1>4, <2>2
    <3>2. it <= q1 * t /\ q1 * t \in Int BY <1>2, <3>1, TimesIsMonotonic
    <3> DEFINE qt == q1 * t
    <3>3. it <= qt /\ qt \in Int /\ qt <= va + t BY <1>2, <3>2
    <3> HIDE DEF it, va, qt
    <3> QED BY <1>1, <1>6, <3>3
  <2> QED BY <1>5, <2>1, <2>2
<1>11. jt <= vb + t /\ jt >= vb - t
  <2> HIDE DEF it, jt, va, vb, vt
  <2> QED BY <1>1, <1>6, <1>9, <1>10
<1> QED BY <1>9, <1>10, <1>11 DEF NearShare

\* Which of two places a set of them has, and which is the greatest.
LEMMA SetsOfTwo ==
  ASSUME NEW m \in 0..2, NEW s \in SUBSET (1..m)
  PROVE  /\ 2 \in s => Max(s) = 2 /\ s # {}
         /\ 2 \notin s /\ s # {} => Max(s) = 1 /\ s = {1}
         /\ s \ {Max(s)} \in SUBSET (1..m)
<1>1. \A i \in s : i = 1 \/ i = 2 OBVIOUS
<1>2. 2 \in s => Max(s) = 2
  <2> SUFFICES ASSUME 2 \in s PROVE Max(s) = 2
    OBVIOUS
  <2>1. s \in SUBSET (1..2) BY <1>1
  <2> QED BY <2>1, LastIsGreatest
<1>3. 2 \notin s /\ s # {} => Max(s) = 1 /\ s = {1}
  <2> SUFFICES ASSUME 2 \notin s, s # {} PROVE Max(s) = 1 /\ s = {1}
    OBVIOUS
  <2>1. s = {1} BY <1>1
  <2>2. s \in SUBSET (1..1) /\ 1 \in s BY <2>1
  <2> QED BY <2>1, <2>2, LastIsGreatest
<1> QED BY <1>2, <1>3

Total(f) == FoldLeft(+, 0, f)

\* The sum of two numbers, of one, and of none.
LEMMA SumOfTwo ==
  ASSUME NEW f, NEW m \in 0..2, DOMAIN f = 1..m, \A i \in 1..m : f[i] \in Int
  PROVE  Total(f) = IF m = 0 THEN 0 ELSE IF m = 1 THEN f[1] ELSE f[1] + f[2]
<1> DEFINE D == 1..m
           G(g) == [s \in SUBSET DOMAIN f |->
                      IF s = {} THEN 0 ELSE g[s \ {Max(s)}] + f[Max(s)]]
           iter == CHOOSE g : g = G(g)
           one(s) == IF 1 \in s THEN f[1] ELSE 0
           sum(s) == IF 2 \in s THEN one(s) + f[2] ELSE one(s)
           h == [s \in SUBSET D |-> sum(s)]
<1>1. Total(f) = iter[DOMAIN f]
  BY DEF Total, FoldLeft, MapThenFoldSet
<1>2. ASSUME NEW s \in SUBSET D
      PROVE  sum(s) = IF s = {} THEN 0 ELSE sum(s \ {Max(s)}) + f[Max(s)]
  <2>1. CASE 2 \in s
    <3>1. Max(s) = 2 /\ s # {} BY <2>1, SetsOfTwo
    <3>2. sum(s \ {2}) = one(s) BY 1 # 2
    <3> HIDE DEF one
    <3> QED BY <2>1, <3>1, <3>2
  <2>2. CASE 2 \notin s /\ s # {}
    <3>1. Max(s) = 1 /\ s = {1} BY <2>2, SetsOfTwo
    <3>2. sum(s) = f[1] /\ sum(s \ {1}) = 0 BY <2>2, <3>1
    <3>3. f[1] \in Int /\ 0 + f[1] = f[1] BY <3>1
    <3> HIDE DEF sum
    <3> QED BY <2>2, <3>1, <3>2, <3>3
  <2>3. CASE s = {} BY <2>3
  <2> QED BY <2>1, <2>2, <2>3
<1>3. h = G(h)
  <2>1. \A s \in SUBSET D : h[s] = sum(s) OBVIOUS
  <2>2. ASSUME NEW s \in SUBSET D
        PROVE  sum(s) = IF s = {} THEN 0 ELSE h[s \ {Max(s)}] + f[Max(s)]
    <3>1. s \ {Max(s)} \in SUBSET D BY SetsOfTwo
    <3> HIDE DEF h, sum, D
    <3> QED BY <1>2, <2>1, <3>1
  <2> HIDE DEF sum
  <2> QED BY <2>2
<1>4. iter = G(iter)
  <2>1. \E g : g = G(g) BY <1>3
  <2> HIDE DEF G, h
  <2> QED BY <2>1
<1>5. \A s \in SUBSET D :
        iter[s] = IF s = {} THEN 0 ELSE iter[s \ {Max(s)}] + f[Max(s)]
  <2> HIDE DEF iter
  <2> QED BY <1>4
<1> HIDE DEF iter, G, h, sum
<1>6. {} \in SUBSET D /\ iter[{}] = 0 BY <1>5
<1>7. m >= 1 => iter[{1}] = f[1]
  <2> SUFFICES ASSUME m >= 1 PROVE iter[{1}] = f[1]
    OBVIOUS
  <2>1. {1} \in SUBSET D /\ 2 \notin {1} /\ {1} # {} OBVIOUS
  <2>2. Max({1}) = 1 BY <2>1, SetsOfTwo
  <2>3. {1} \ {1} = {} OBVIOUS
  <2>4. iter[{1}] = iter[{}] + f[1] BY <1>5, <2>1, <2>2, <2>3
  <2>5. f[1] \in Int OBVIOUS
  <2> QED BY <1>6, <2>4, <2>5
<1>8. m = 2 => iter[{1, 2}] = f[1] + f[2]
  <2> SUFFICES ASSUME m = 2 PROVE iter[{1, 2}] = f[1] + f[2]
    OBVIOUS
  <2>1. {1, 2} \in SUBSET D /\ 2 \in {1, 2} /\ {1, 2} # {} OBVIOUS
  <2>2. Max({1, 2}) = 2 BY <2>1, SetsOfTwo
  <2>3. {1, 2} \ {2} = {1} OBVIOUS
  <2>4. iter[{1, 2}] = iter[{1}] + f[2] BY <1>5, <2>1, <2>2, <2>3
  <2> QED BY <1>7, <2>4
<1>9. /\ m = 0 => D = {}
      /\ m = 1 => D = {1}
      /\ m = 2 => D = {1, 2}
  OBVIOUS
<1>10. m = 0 \/ m = 1 \/ m = 2 OBVIOUS
<1>11. DOMAIN f = D OBVIOUS
<1> HIDE DEF D
<1>12. CASE m = 0 BY <1>1, <1>6, <1>9, <1>11, <1>12
<1>13. CASE m = 1
  <2>1. iter[{1}] = f[1] BY <1>7, <1>13
  <2> QED BY <1>1, <1>9, <1>11, <1>13, <2>1
<1>14. CASE m = 2 BY <1>1, <1>8, <1>9, <1>11, <1>14
<1> QED BY <1>10, <1>12, <1>13, <1>14

\* What each of two groups is served, or the only one.
LEMMA ServedOfTwo ==
  ASSUME NEW order, NEW m \in 1..2, DOMAIN order = 1..m, NEW quota, NEW v \in Int,
         \A i \in 1..m : quota[order[i]] \in Int
  PROVE  LET s1 == Least(quota[order[1]], v)
         IN Served(order, quota, v) =
              IF m = 1 THEN <<s1>> ELSE <<s1, Least(quota[order[2]], v - s1)>>
<1> DEFINE D == 1..m
           Serve(served, g) == Append(served, Least(quota[g], v - Total(served)))
           G(g) == [s \in SUBSET DOMAIN order |->
                      IF s = {} THEN <<>> ELSE Serve(g[s \ {Max(s)}], order[Max(s)])]
           iter == CHOOSE g : g = G(g)
           one(s) == IF 1 \in s THEN Serve(<<>>, order[1]) ELSE <<>>
           all(s) == IF 2 \in s THEN Serve(one(s), order[2]) ELSE one(s)
           h == [s \in SUBSET D |-> all(s)]
<1>1. Served(order, quota, v) = iter[DOMAIN order]
  BY DEF Served, Total, FoldLeft, MapThenFoldSet
<1> HIDE DEF Serve
<1>2. ASSUME NEW s \in SUBSET D
      PROVE  all(s) = IF s = {} THEN <<>> ELSE Serve(all(s \ {Max(s)}), order[Max(s)])
  <2>1. CASE 2 \in s
    <3>1. Max(s) = 2 /\ s # {} BY <2>1, SetsOfTwo
    <3>2. all(s \ {2}) = one(s) BY 1 # 2
    <3> HIDE DEF one
    <3> QED BY <2>1, <3>1, <3>2
  <2>2. CASE 2 \notin s /\ s # {}
    <3>1. Max(s) = 1 /\ s = {1} BY <2>2, SetsOfTwo
    <3>2. all(s) = Serve(<<>>, order[1]) /\ all(s \ {1}) = <<>> BY <2>2, <3>1
    <3> HIDE DEF all
    <3> QED BY <2>2, <3>1, <3>2
  <2>3. CASE s = {} BY <2>3
  <2> QED BY <2>1, <2>2, <2>3
<1>3. h = G(h)
  <2>1. \A s \in SUBSET D : h[s] = all(s) OBVIOUS
  <2>2. ASSUME NEW s \in SUBSET D
        PROVE  all(s) = IF s = {} THEN <<>> ELSE Serve(h[s \ {Max(s)}], order[Max(s)])
    <3>1. s \ {Max(s)} \in SUBSET D BY SetsOfTwo
    <3> HIDE DEF h, all, D
    <3> QED BY <1>2, <2>1, <3>1
  <2> HIDE DEF all
  <2> QED BY <2>2
<1>4. iter = G(iter)
  <2>1. \E g : g = G(g) BY <1>3
  <2> HIDE DEF G, h
  <2> QED BY <2>1
<1>5. \A s \in SUBSET D :
        iter[s] = IF s = {} THEN <<>> ELSE Serve(iter[s \ {Max(s)}], order[Max(s)])
  <2> HIDE DEF iter
  <2> QED BY <1>4
<1> HIDE DEF iter, G, h, all
<1>6. {} \in SUBSET D /\ iter[{}] = <<>> BY <1>5
<1> DEFINE s1 == Least(quota[order[1]], v)
           s2 == Least(quota[order[2]], v - s1)
<1>7. iter[{1}] = <<s1>>
  <2>1. {1} \in SUBSET D /\ 2 \notin {1} /\ {1} # {} OBVIOUS
  <2>2. Max({1}) = 1
    <3>1. {1} \in SUBSET (1..1) /\ 1 \in {1} OBVIOUS
    <3> QED BY <3>1, LastIsGreatest
  <2>3. {1} \ {1} = {} OBVIOUS
  <2>4. iter[{1}] = Serve(iter[{}], order[1])
    <3> DEFINE one1 == {1}
    <3>1. one1 \in SUBSET D /\ one1 # {} /\ Max(one1) = 1 /\ one1 \ {1} = {}
      BY <2>1, <2>2, <2>3
    <3> HIDE DEF one1, D
    <3>2. iter[one1] = Serve(iter[{}], order[1]) BY <1>5, <3>1
    <3> QED BY <3>2 DEF one1
  <2>5. Total(<<>>) = 0
    <3>1. 0 \in 0..2 /\ DOMAIN <<>> = 1..0 /\ \A i \in 1..0 : <<>>[i] \in Int OBVIOUS
    <3> QED BY <3>1, SumOfTwo
  <2>6. v - 0 = v OBVIOUS
  <2>7. Serve(<<>>, order[1]) = Append(<<>>, s1) BY <2>5, <2>6 DEF Serve
  <2> HIDE DEF s1
  <2> QED BY <1>6, <2>4, <2>7
<1>8. m = 2 => iter[{1, 2}] = <<s1, s2>>
  <2> SUFFICES ASSUME m = 2 PROVE iter[{1, 2}] = <<s1, s2>>
    OBVIOUS
  <2>1. {1, 2} \in SUBSET D /\ 2 \in {1, 2} /\ {1, 2} # {} OBVIOUS
  <2>2. Max({1, 2}) = 2 BY <2>1, SetsOfTwo
  <2>3. {1, 2} \ {2} = {1} OBVIOUS
  <2>4. iter[{1, 2}] = Serve(<<s1>>, order[2])
    <3> DEFINE two == {1, 2}
    <3>1. two \in SUBSET D /\ two # {} /\ Max(two) = 2 /\ two \ {2} = {1}
      BY <2>1, <2>2, <2>3
    <3> HIDE DEF two, D, s1
    <3>2. iter[two] = Serve(iter[{1}], order[2]) BY <1>5, <3>1
    <3> QED BY <1>7, <3>2 DEF two
  <2>5. s1 \in Int BY DEF Least
  <2>6. Total(<<s1>>) = s1
    <3> HIDE DEF s1
    <3> DEFINE f == <<s1>>
    <3>1. DOMAIN f = 1..1 /\ f[1] = s1 OBVIOUS
    <3> HIDE DEF f
    <3>2. \A i \in 1..1 : f[i] \in Int BY <2>5, <3>1
    <3>3. 1 \in 0..2 /\ 1 # 0 OBVIOUS
    <3>4. Total(f) = s1 BY <3>1, <3>2, <3>3, SumOfTwo
    <3> QED BY <3>4 DEF f
  <2>7. Serve(<<s1>>, order[2]) = Append(<<s1>>, s2) BY <2>6 DEF Serve
  <2> HIDE DEF s1, s2
  <2> QED BY <2>4, <2>7
<1>9. /\ m = 1 => D = {1}
      /\ m = 2 => D = {1, 2}
  OBVIOUS
<1>10. m = 1 \/ m = 2 OBVIOUS
<1>11. DOMAIN order = D OBVIOUS
<1> HIDE DEF D, s1, s2
<1>12. Served(order, quota, v) = IF m = 1 THEN <<s1>> ELSE <<s1, s2>>
  BY <1>1, <1>7, <1>8, <1>9, <1>10, <1>11
<1> QED BY <1>12 DEF s1, s2

\* The episodes of an outcome, the outcomes, and the order in which they occur.
Members(outcomeOf, g) == {e \in DOMAIN outcomeOf : outcomeOf[e] = g}
OutcomesIn(outcomeOf) == {outcomeOf[e] : e \in DOMAIN outcomeOf}
Occurs(outcomeOf, g) == Min(Members(outcomeOf, g))
InOrder(outcomeOf, f) ==
  \A i, j \in DOMAIN f : i < j => Occurs(outcomeOf, f[i]) < Occurs(outcomeOf, f[j])
OutcomeOrder(outcomeOf) ==
  CHOOSE f \in [1..Cardinality(OutcomesIn(outcomeOf)) -> OutcomesIn(outcomeOf)] :
    InOrder(outcomeOf, f)

\* There are one or two outcomes.
TwoOutcomes(outcomeOf, n) ==
  /\ DOMAIN outcomeOf = 1..n
  /\ \E x, y : \A e \in 1..n : outcomeOf[e] \in {x, y}

\* An outcome occurs first at an episode of its own.
LEMMA OccursAtMember ==
  ASSUME NEW outcomeOf, NEW n \in Nat, DOMAIN outcomeOf = 1..n,
         NEW g \in OutcomesIn(outcomeOf)
  PROVE  Occurs(outcomeOf, g) \in 1..n /\ outcomeOf[Occurs(outcomeOf, g)] = g
<1> DEFINE S == Members(outcomeOf, g)
<1>1. S \in SUBSET Nat /\ S # {} /\ \A e \in S : e \in 1..n /\ outcomeOf[e] = g
  BY DEF Members, OutcomesIn
<1> HIDE DEF S
<1>2. PICK m \in S : \A k \in S : m <= k BY <1>1, LeastExists
<1>3. Min(S) \in S BY <1>2 DEF Min
<1> QED BY <1>1, <1>3 DEF Occurs, S

\* The outcomes, in the order in which they occur, are one or two different ones.
LEMMA OrderOfTwo ==
  ASSUME NEW outcomeOf, NEW n \in Nat \ {0}, TwoOutcomes(outcomeOf, n),
         NEW order, order = OutcomeOrder(outcomeOf)
  PROVE  \/ DOMAIN order = 1..1 /\ OutcomesIn(outcomeOf) = {order[1]}
         \/ /\ DOMAIN order = 1..2 /\ order[1] # order[2]
            /\ OutcomesIn(outcomeOf) = {order[1], order[2]}
<1> DEFINE groups == OutcomesIn(outcomeOf)
           Goes(f) == InOrder(outcomeOf, f)
<1>1. DOMAIN outcomeOf = 1..n BY DEF TwoOutcomes
<1>2. \E x, y : \A g \in groups : g \in {x, y}
  <2>1. PICK x, y : \A e \in 1..n : outcomeOf[e] \in {x, y} BY DEF TwoOutcomes
  <2>2. \A g \in groups : g \in {x, y} BY <1>1, <2>1 DEF OutcomesIn
  <2> QED BY <2>2
<1>3. groups # {}
  <2>1. outcomeOf[1] \in groups BY <1>1 DEF OutcomesIn
  <2> QED BY <2>1
<1>4. \A g \in groups : /\ Occurs(outcomeOf, g) \in 1..n
                        /\ outcomeOf[Occurs(outcomeOf, g)] = g
  BY <1>1, OccursAtMember
<1>5. order = CHOOSE f \in [1..Cardinality(groups) -> groups] : Goes(f)
  BY DEF OutcomeOrder
<1> HIDE DEF groups
<1>6. (\E g : groups = {g}) \/ (\E g, h : g # h /\ groups = {g, h})
  <2>1. PICK x, y : \A g \in groups : g \in {x, y} BY <1>2
  <2>2. groups = {x} \/ groups = {y} \/ groups = {x, y} BY <1>3, <2>1
  <2>3. x = y => {x, y} = {x} OBVIOUS
  <2> QED BY <2>2, <2>3
<1>7. CASE \E g : groups = {g}
  <2>1. PICK g : groups = {g} BY <1>7
  <2>2. Cardinality(groups) = 1 BY <2>1, FS_Singleton
  <2> DEFINE f == [i \in 1..1 |-> g]
  <2>3. f \in [1..1 -> groups] /\ DOMAIN f = 1..1 BY <2>1
  <2>4. Goes(f)
    <3>1. \A i, j \in 1..1 : ~(i < j) OBVIOUS
    <3> HIDE DEF f
    <3> QED BY <2>3, <3>1 DEF InOrder
  <2> HIDE DEF f, Goes
  <2>5. order \in [1..1 -> groups] BY <1>5, <2>2, <2>3, <2>4
  <2>6. DOMAIN order = 1..1 /\ order[1] = g BY <2>1, <2>5
  <2> QED BY <2>1, <2>6 DEF groups
<1>8. CASE \E g, h : g # h /\ groups = {g, h}
  <2>1. PICK g, h : g # h /\ groups = {g, h} BY <1>8
  <2>2. Cardinality(groups) = 2
    <3>1. IsFiniteSet({g}) /\ Cardinality({g}) = 1 BY FS_Singleton
    <3> DEFINE alone == {g}
    <3>0. h \notin alone /\ IsFiniteSet(alone) /\ Cardinality(alone) = 1
      BY <2>1, <3>1
    <3> HIDE DEF alone
    <3>2. Cardinality(alone \cup {h}) = 1 + 1 BY <3>0, FS_AddElement
    <3>3. groups = alone \cup {h} BY <2>1 DEF alone
    <3> QED BY <3>2, <3>3
  <2> DEFINE Place(k) == Occurs(outcomeOf, k)
  <2>3. Place(g) \in Int /\ Place(h) \in Int /\ Place(g) # Place(h) BY <1>4, <2>1
  <2>4. \E f \in [1..2 -> groups] : Goes(f)
    <3>1. ASSUME NEW a \in groups, NEW b \in groups, Place(a) < Place(b)
          PROVE  \E f \in [1..2 -> groups] : Goes(f)
      <4> DEFINE f == [i \in 1..2 |-> IF i = 1 THEN a ELSE b]
      <4>1. f \in [1..2 -> groups] /\ DOMAIN f = 1..2 /\ f[1] = a /\ f[2] = b
        OBVIOUS
      <4>2. \A i, j \in 1..2 : i < j => i = 1 /\ j = 2 OBVIOUS
      <4> HIDE DEF f
      <4>3. Goes(f) BY <3>1, <4>1, <4>2 DEF InOrder
      <4> QED BY <4>1, <4>3
    <3>2. g \in groups /\ h \in groups BY <2>1
    <3>3. Place(g) < Place(h) \/ Place(h) < Place(g) BY <2>3
    <3> HIDE DEF Goes, Place
    <3> QED BY <3>1, <3>2, <3>3
  <2>5. order \in [1..2 -> groups] /\ Goes(order)
    <3> HIDE DEF Goes
    <3> QED BY <1>5, <2>2, <2>4
  <2>6. DOMAIN order = 1..2 /\ order[1] \in groups /\ order[2] \in groups BY <2>5
  <2>7. Place(order[1]) < Place(order[2]) BY <2>5, <2>6 DEF InOrder
  <2>8. Place(order[1]) \in Int BY <1>4, <2>6
  <2>9. order[1] # order[2] BY <2>7, <2>8
  <2>10. groups = {order[1], order[2]} BY <2>1, <2>6, <2>9
  <2> QED BY <2>6, <2>9, <2>10 DEF groups
<1> QED BY <1>6, <1>7, <1>8

QuotaOf(outcomeOf, g, valCount) ==
  Quota(Cardinality(Members(outcomeOf, g)), valCount, Cardinality(DOMAIN outcomeOf))

\* A subset of so many.
Some(p, k, S) == p \subseteq S /\ Cardinality(p) = k

\* The first of one or two outcomes is served s1 episodes and the other s2.
ServedEach(outcomeOf, valCount, order, s1, s2) ==
  /\ order = OutcomeOrder(outcomeOf)
  /\ s1 = Least(QuotaOf(outcomeOf, order[1], valCount), valCount)
  /\ s2 = Least(QuotaOf(outcomeOf, order[2], valCount), valCount - s1)

\* What a stratified split is made of: so many of each outcome, and any of the rest.
Parts(outcomeOf, n, valCount, val, order, s1, s2) ==
  \/ /\ OutcomesIn(outcomeOf) = {order[1]}
     /\ \E p, more : /\ Some(p, s1, Members(outcomeOf, order[1]))
                     /\ Some(more, valCount - s1, (1..n) \ p)
                     /\ val = p \union more
  \/ /\ order[1] # order[2] /\ OutcomesIn(outcomeOf) = {order[1], order[2]}
     /\ \E p, r, more : /\ Some(p, s1, Members(outcomeOf, order[1]))
                        /\ Some(r, s2, Members(outcomeOf, order[2]))
                        /\ Some(more, valCount - (s1 + s2), (1..n) \ (p \union r))
                        /\ val = (p \union r) \union more

\* The splits of the code have these parts.
LEMMA StratifiedParts ==
  ASSUME NEW outcomeOf, NEW n \in Nat \ {0}, TwoOutcomes(outcomeOf, n),
         NEW valCount \in 1..(n - 1),
         \A g \in OutcomesIn(outcomeOf) : QuotaOf(outcomeOf, g, valCount) \in Int,
         NEW val \in StratifiedValidation(outcomeOf, valCount),
         NEW order, NEW s1, NEW s2, ServedEach(outcomeOf, valCount, order, s1, s2)
  PROVE  Parts(outcomeOf, n, valCount, val, order, s1, s2)
<1>0. /\ order = OutcomeOrder(outcomeOf)
      /\ s1 = Least(QuotaOf(outcomeOf, order[1], valCount), valCount)
      /\ s2 = Least(QuotaOf(outcomeOf, order[2], valCount), valCount - s1)
  BY DEF ServedEach
<1> DEFINE groups == OutcomesIn(outcomeOf)
           quota == [g \in groups |-> QuotaOf(outcomeOf, g, valCount)]
           ServedIn(o) == Served(o, quota, valCount)
           RestOf(o) == valCount - Total(ServedIn(o))
           PicksIn(o) ==
             {UNION {pick[g] : g \in groups}
              : pick \in {p \in [groups -> SUBSET DOMAIN outcomeOf] :
                    \A i \in DOMAIN o :
                      p[o[i]] \in kSubset(ServedIn(o)[i], Members(outcomeOf, o[i]))}}
           Splits(o) ==
             UNION {{pick \union more : more \in kSubset(RestOf(o), DOMAIN outcomeOf \ pick)}
                    : pick \in PicksIn(o)}
           served == ServedIn(order)
           rest == RestOf(order)
           Picks == PicksIn(order)
<1>1. val \in UNION {{pick \union more : more \in kSubset(rest, DOMAIN outcomeOf \ pick)}
                    : pick \in Picks}
  <2>1. val \in Splits(OutcomeOrder(outcomeOf))
    BY Zenon DEF StratifiedValidation, OutcomesIn, OutcomeOrder, InOrder, Occurs, Members,
                 QuotaOf, Total
  <2> HIDE DEF Splits
  <2>2. val \in Splits(order) BY <1>0, <2>1
  <2> QED BY <2>2 DEF Splits
<1>2. PICK pick \in Picks :
        \E more \in kSubset(rest, DOMAIN outcomeOf \ pick) : val = pick \union more
  <2> DEFINE Filled(pick) ==
               {pick \union more : more \in kSubset(rest, DOMAIN outcomeOf \ pick)}
  <2>1. val \in UNION {Filled(pick) : pick \in Picks} BY <1>1
  <2> HIDE DEF Picks, Filled
  <2>2. PICK pick \in Picks : val \in Filled(pick) BY <2>1
  <2> HIDE DEF rest
  <2>3. \E more \in kSubset(rest, DOMAIN outcomeOf \ pick) : val = pick \union more
    BY <2>2 DEF Filled
  <2> QED BY <2>3
<1>3. PICK p \in [groups -> SUBSET DOMAIN outcomeOf] :
        /\ \A i \in DOMAIN order :
             p[order[i]] \in kSubset(served[i], Members(outcomeOf, order[i]))
        /\ pick = UNION {p[g] : g \in groups}
  <2> HIDE DEF groups, ServedIn
  <2> QED BY <1>2
<1>4. DOMAIN outcomeOf = 1..n BY DEF TwoOutcomes
<1>5. PICK more : Some(more, rest, (1..n) \ pick) /\ val = pick \union more
  <2> HIDE DEF rest
  <2> QED BY <1>2, <1>4 DEF kSubset, Some
<1>6. \A i \in DOMAIN order :
        Some(p[order[i]], served[i], Members(outcomeOf, order[i]))
  BY <1>3 DEF kSubset, Some
<1>7. \A g \in groups : quota[g] = QuotaOf(outcomeOf, g, valCount) OBVIOUS
<1> HIDE DEF groups, quota, ServedIn, served, rest, Picks
<1>8. CASE DOMAIN order = 1..1 /\ groups = {order[1]}
  <2>1. quota[order[1]] \in Int /\ quota[order[1]] = QuotaOf(outcomeOf, order[1], valCount)
    BY <1>7, <1>8 DEF groups
  <2>2. served = <<s1>>
    <3>1. 1 \in 1..2 /\ valCount \in Int /\ \A i \in 1..1 : i = 1 OBVIOUS
    <3> QED BY <1>0, <1>8, <2>1, <3>1, ServedOfTwo DEF served, ServedIn
  <2>3. s1 \in Int BY <1>0, <2>1 DEF Least
  <2>4. rest = valCount - s1
    <3> DEFINE f == <<s1>>
    <3>1. DOMAIN f = 1..1 /\ f[1] = s1 OBVIOUS
    <3> HIDE DEF f
    <3>2. 1 \in 0..2 /\ 1 # 0 /\ \A i \in 1..1 : f[i] \in Int BY <2>3, <3>1
    <3>3. Total(f) = s1 BY <3>1, <3>2, SumOfTwo
    <3> QED BY <2>2, <3>3 DEF f, rest, served
  <2>5. pick = p[order[1]] BY <1>3, <1>8
  <2>6. Some(pick, s1, Members(outcomeOf, order[1])) BY <1>6, <1>8, <2>2, <2>5
  <2> QED BY <1>5, <1>8, <2>4, <2>6 DEF groups, Parts
<1>9. CASE DOMAIN order = 1..2 /\ order[1] # order[2] /\ groups = {order[1], order[2]}
  <2>1. /\ quota[order[1]] \in Int /\ quota[order[1]] = QuotaOf(outcomeOf, order[1], valCount)
        /\ quota[order[2]] \in Int /\ quota[order[2]] = QuotaOf(outcomeOf, order[2], valCount)
    BY <1>7, <1>9 DEF groups
  <2>2. served = <<s1, s2>>
    <3>1. 2 \in 1..2 /\ valCount \in Int /\ \A i \in 1..2 : i = 1 \/ i = 2 OBVIOUS
    <3> QED BY <1>0, <1>9, <2>1, <3>1, ServedOfTwo DEF served, ServedIn
  <2>3. s1 \in Int /\ s2 \in Int BY <1>0, <2>1 DEF Least
  <2>4. rest = valCount - (s1 + s2)
    <3> DEFINE f == <<s1, s2>>
    <3>1. DOMAIN f = 1..2 /\ f[1] = s1 /\ f[2] = s2 OBVIOUS
    <3> HIDE DEF f
    <3>2. 2 \in 0..2 /\ \A i \in 1..2 : f[i] \in Int BY <2>3, <3>1
    <3>3. Total(f) = s1 + s2 BY <3>1, <3>2, SumOfTwo
    <3> QED BY <2>2, <3>3 DEF f, rest, served
  <2>5. pick = p[order[1]] \union p[order[2]] BY <1>3, <1>9
  <2>6. /\ Some(p[order[1]], s1, Members(outcomeOf, order[1]))
        /\ Some(p[order[2]], s2, Members(outcomeOf, order[2]))
    <3>1. 1 \in DOMAIN order /\ 2 \in DOMAIN order BY <1>9
    <3>2. served[1] = s1 /\ served[2] = s2 BY <2>2
    <3> QED BY <1>6, <3>1, <3>2
  <2> QED BY <1>5, <1>9, <2>4, <2>5, <2>6 DEF groups, Parts
<1> QED BY <1>0, <1>8, <1>9, OrderOfTwo DEF groups

\* Whatever has these parts is a split of the code.
LEMMA PartsMakeSplit ==
  ASSUME NEW outcomeOf, NEW n \in Nat \ {0}, TwoOutcomes(outcomeOf, n),
         NEW valCount \in 1..(n - 1),
         \A g \in OutcomesIn(outcomeOf) : QuotaOf(outcomeOf, g, valCount) \in Int,
         NEW order, NEW s1, NEW s2, ServedEach(outcomeOf, valCount, order, s1, s2),
         NEW val, Parts(outcomeOf, n, valCount, val, order, s1, s2)
  PROVE  val \in StratifiedValidation(outcomeOf, valCount)
<1>0. /\ order = OutcomeOrder(outcomeOf)
      /\ s1 = Least(QuotaOf(outcomeOf, order[1], valCount), valCount)
      /\ s2 = Least(QuotaOf(outcomeOf, order[2], valCount), valCount - s1)
  BY DEF ServedEach
<1> DEFINE groups == OutcomesIn(outcomeOf)
           quota == [g \in groups |-> QuotaOf(outcomeOf, g, valCount)]
           ServedIn(o) == Served(o, quota, valCount)
           RestOf(o) == valCount - Total(ServedIn(o))
           PicksIn(o) ==
             {UNION {pick[g] : g \in groups}
              : pick \in {p \in [groups -> SUBSET DOMAIN outcomeOf] :
                    \A i \in DOMAIN o :
                      p[o[i]] \in kSubset(ServedIn(o)[i], Members(outcomeOf, o[i]))}}
           Splits(o) ==
             UNION {{pick \union more : more \in kSubset(RestOf(o), DOMAIN outcomeOf \ pick)}
                    : pick \in PicksIn(o)}
           served == ServedIn(order)
           rest == RestOf(order)
           Picks == PicksIn(order)
<1>1. ASSUME NEW pick \in Picks, NEW more, Some(more, rest, (1..n) \ pick),
             val = pick \union more
      PROVE  val \in StratifiedValidation(outcomeOf, valCount)
  <2>1. more \in kSubset(rest, DOMAIN outcomeOf \ pick)
    BY <1>1 DEF TwoOutcomes, Some, kSubset
  <2>2. val \in Splits(order)
    <3> DEFINE Filled(x) ==
                 {x \union y : y \in kSubset(rest, DOMAIN outcomeOf \ x)}
    <3> HIDE DEF rest
    <3>1. val \in Filled(pick) BY <1>1, <2>1
    <3> HIDE DEF Picks, Filled
    <3>2. val \in UNION {Filled(x) : x \in Picks} BY <3>1
    <3> QED BY <3>2 DEF Filled, Picks, rest
  <2> HIDE DEF Splits
  <2>3. val \in Splits(OutcomeOrder(outcomeOf)) BY <1>0, <2>2
  <2> QED BY <2>3, Zenon DEF Splits, StratifiedValidation, OutcomesIn, OutcomeOrder,
                             InOrder, Occurs, Members, QuotaOf, Total
<1>2. ASSUME NEW p \in [groups -> SUBSET DOMAIN outcomeOf],
             \A i \in DOMAIN order :
               Some(p[order[i]], served[i], Members(outcomeOf, order[i]))
      PROVE  UNION {p[g] : g \in groups} \in Picks
  <2>1. \A i \in DOMAIN order :
          p[order[i]] \in kSubset(served[i], Members(outcomeOf, order[i]))
    BY <1>2 DEF Some, kSubset
  <2> HIDE DEF groups, ServedIn
  <2> QED BY <2>1
<1>3. \A g \in groups : quota[g] = QuotaOf(outcomeOf, g, valCount) OBVIOUS
<1>4. DOMAIN outcomeOf = 1..n BY DEF TwoOutcomes
<1>5. \A g : Members(outcomeOf, g) \in SUBSET (1..n) BY <1>4 DEF Members
<1> HIDE DEF groups, quota, ServedIn, served, rest, Picks
<1>6. CASE DOMAIN order = 1..1 /\ groups = {order[1]}
  <2>1. quota[order[1]] \in Int /\ quota[order[1]] = QuotaOf(outcomeOf, order[1], valCount)
    BY <1>3, <1>6 DEF groups
  <2>2. served = <<s1>>
    <3>1. 1 \in 1..2 /\ valCount \in Int /\ \A i \in 1..1 : i = 1 OBVIOUS
    <3> QED BY <1>0, <1>6, <2>1, <3>1, ServedOfTwo DEF served, ServedIn
  <2>3. s1 \in Int BY <1>0, <2>1 DEF Least
  <2>4. rest = valCount - s1
    <3> DEFINE f == <<s1>>
    <3>1. DOMAIN f = 1..1 /\ f[1] = s1 OBVIOUS
    <3> HIDE DEF f
    <3>2. 1 \in 0..2 /\ 1 # 0 /\ \A i \in 1..1 : f[i] \in Int BY <2>3, <3>1
    <3>3. Total(f) = s1 BY <3>1, <3>2, SumOfTwo
    <3> QED BY <2>2, <3>3 DEF f, rest, served
  <2>5. PICK p, more : /\ Some(p, s1, Members(outcomeOf, order[1]))
                       /\ Some(more, valCount - s1, (1..n) \ p)
                       /\ val = p \union more
    BY <1>6 DEF Parts, groups
  <2> DEFINE pick == [g \in groups |-> p]
  <2>6. /\ pick \in [groups -> SUBSET DOMAIN outcomeOf] /\ pick[order[1]] = p
        /\ UNION {pick[g] : g \in groups} = p
    BY <1>4, <1>5, <1>6, <2>5 DEF Some
  <2> HIDE DEF pick
  <2>7. \A i \in DOMAIN order :
          Some(pick[order[i]], served[i], Members(outcomeOf, order[i]))
    <3>1. \A i \in DOMAIN order : i = 1 BY <1>6
    <3> QED BY <2>2, <2>5, <2>6, <3>1
  <2>8. p \in Picks BY <1>2, <2>6, <2>7
  <2> QED BY <1>1, <2>4, <2>5, <2>8
<1>7. CASE DOMAIN order = 1..2 /\ order[1] # order[2] /\ groups = {order[1], order[2]}
  <2>1. /\ quota[order[1]] \in Int /\ quota[order[1]] = QuotaOf(outcomeOf, order[1], valCount)
        /\ quota[order[2]] \in Int /\ quota[order[2]] = QuotaOf(outcomeOf, order[2], valCount)
    BY <1>3, <1>7 DEF groups
  <2>2. served = <<s1, s2>>
    <3>1. 2 \in 1..2 /\ valCount \in Int /\ \A i \in 1..2 : i = 1 \/ i = 2 OBVIOUS
    <3> QED BY <1>0, <1>7, <2>1, <3>1, ServedOfTwo DEF served, ServedIn
  <2>3. s1 \in Int /\ s2 \in Int BY <1>0, <2>1 DEF Least
  <2>4. rest = valCount - (s1 + s2)
    <3> DEFINE f == <<s1, s2>>
    <3>1. DOMAIN f = 1..2 /\ f[1] = s1 /\ f[2] = s2 OBVIOUS
    <3> HIDE DEF f
    <3>2. 2 \in 0..2 /\ \A i \in 1..2 : f[i] \in Int BY <2>3, <3>1
    <3>3. Total(f) = s1 + s2 BY <3>1, <3>2, SumOfTwo
    <3> QED BY <2>2, <3>3 DEF f, rest, served
  <2>5. PICK p, r, more : /\ Some(p, s1, Members(outcomeOf, order[1]))
                          /\ Some(r, s2, Members(outcomeOf, order[2]))
                          /\ Some(more, valCount - (s1 + s2), (1..n) \ (p \union r))
                          /\ val = (p \union r) \union more
    <3>1. groups # {order[1]} BY <1>7
    <3> QED BY <1>7, <3>1 DEF Parts, groups
  <2> DEFINE pick == [g \in groups |-> IF g = order[1] THEN p ELSE r]
  <2>6. p \in SUBSET DOMAIN outcomeOf /\ r \in SUBSET DOMAIN outcomeOf
    BY <1>4, <1>5, <2>5 DEF Some
  <2>7. /\ pick \in [groups -> SUBSET DOMAIN outcomeOf]
        /\ pick[order[1]] = p /\ pick[order[2]] = r
    BY <1>7, <2>6
  <2> HIDE DEF pick
  <2>8. UNION {pick[g] : g \in groups} = p \union r BY <1>7, <2>7
  <2>9. \A i \in DOMAIN order :
          Some(pick[order[i]], served[i], Members(outcomeOf, order[i]))
    <3>1. \A i \in DOMAIN order : i = 1 \/ i = 2 BY <1>7
    <3>2. served[1] = s1 /\ served[2] = s2 BY <2>2
    <3> QED BY <2>5, <2>7, <3>1, <3>2
  <2>10. p \union r \in Picks BY <1>2, <2>7, <2>8, <2>9
  <2> QED BY <1>1, <2>4, <2>5, <2>10
<1> QED BY <1>0, <1>6, <1>7, OrderOfTwo DEF groups

\* Two sets with nothing in common have together what each of them has.
LEMMA DisjointUnion ==
  ASSUME NEW S, NEW T, IsFiniteSet(S), IsFiniteSet(T), S \cap T = {}
  PROVE  /\ IsFiniteSet(S \union T)
         /\ Cardinality(S \union T) = Cardinality(S) + Cardinality(T)
<1>1. Cardinality(S \cap T) = 0 BY FS_EmptySet
<1>2. /\ IsFiniteSet(S \union T)
      /\ Cardinality(S \union T) = Cardinality(S) + Cardinality(T) - Cardinality(S \cap T)
  BY FS_Union
<1>3. Cardinality(S) \in Nat /\ Cardinality(T) \in Nat BY FS_CardinalityType
<1> QED BY <1>1, <1>2, <1>3

\* A set of episodes is finite.
LEMMA EpisodesAreFinite ==
  ASSUME NEW n \in Nat, NEW S \in SUBSET (1..n)
  PROVE  IsFiniteSet(S) /\ Cardinality(S) \in 0..n
<1>1. IsFiniteSet(1..n) /\ Cardinality(1..n) = n
  <2>1. n \in Int /\ 1 \in Int OBVIOUS
  <2>2. IsFiniteSet(1..n) /\ Cardinality(1..n) = IF 1 > n THEN 0 ELSE n - 1 + 1
    BY <2>1, FS_Interval
  <2> QED BY <2>2
<1>2. IsFiniteSet(S) /\ Cardinality(S) <= n BY <1>1, FS_Subset
<1>3. Cardinality(S) \in Nat BY <1>2, FS_CardinalityType
<1> QED BY <1>2, <1>3

\* A set of episodes has a subset of any size that fits.
LEMMA SubsetOfSize ==
  ASSUME NEW n \in Nat, NEW S \in SUBSET (1..n), NEW k \in 0..Cardinality(S)
  PROVE  \E T : Some(T, k, S)
<1> DEFINE m == Cardinality(S)
<1>1. IsFiniteSet(S) /\ m \in Nat BY EpisodesAreFinite
<1>2. PICK f : f \in Bijection(1..m, S)
  BY <1>1, FS_CardinalityType DEF ExistsBijection
<1> HIDE DEF m
<1>3. /\ f \in [1..m -> S] /\ k \in 0..m
      /\ \A i, j \in 1..m : f[i] = f[j] => i = j
  <2>1. f \in [1..m -> S] /\ IsInjective(f) BY <1>2 DEF Bijection, Injection
  <2>2. k \in 0..m BY DEF m
  <2> QED BY <2>1, <2>2 DEF IsInjective
<1> DEFINE T == {f[i] : i \in 1..k}
           h == [i \in 1..k |-> f[i]]
<1>4. 1..k \subseteq 1..m /\ k \in Nat BY <1>1, <1>3
<1>5. h \in [1..k -> T] /\ T \subseteq S BY <1>3, <1>4
<1>6. \A i, j \in 1..k : h[i] = h[j] => i = j BY <1>3, <1>4
<1>7. \A x \in T : \E i \in 1..k : h[i] = x OBVIOUS
<1> HIDE DEF T, h
<1>8. h \in Bijection(1..k, T)
  BY <1>5, <1>6, <1>7 DEF Bijection, Injection, IsInjective, Surjection
<1>9. Cardinality(T) = k BY <1>4, <1>8, FS_CountingElements DEF ExistsBijection
<1> QED BY <1>5, <1>9 DEF Some

\* The same without one element that is not to be taken.
LEMMA SubsetWithout ==
  ASSUME NEW n \in Nat, NEW S \in SUBSET (1..n), NEW e,
         NEW k \in 0..(Cardinality(S) - 1)
  PROVE  \E T : Some(T, k, S) /\ e \notin T
<1>1. IsFiniteSet(S) /\ Cardinality(S) \in Nat BY EpisodesAreFinite
<1>2. Cardinality(S \ {e}) = IF e \in S THEN Cardinality(S) - 1 ELSE Cardinality(S)
  BY <1>1, FS_RemoveElement
<1> DEFINE size == Cardinality(S)
           left == Cardinality(S \ {e})
<1>3. S \ {e} \in SUBSET (1..n) /\ k \in 0..left
  <2>1. /\ left = size - 1 \/ left = size
        /\ size \in Nat /\ k \in 0..(size - 1)
    BY <1>1, <1>2
  <2> HIDE DEF size, left
  <2>2. k \in 0..left BY <2>1
  <2> QED BY <2>2
<1>4. PICK T : Some(T, k, S \ {e}) BY <1>3, SubsetOfSize
<1> QED BY <1>4 DEF Some

\* An outcome has an episode.
LEMMA MembersAreSome ==
  ASSUME NEW outcomeOf, NEW n \in Nat \ {0}, DOMAIN outcomeOf = 1..n,
         NEW g \in OutcomesIn(outcomeOf)
  PROVE  /\ Members(outcomeOf, g) \in SUBSET (1..n)
         /\ IsFiniteSet(Members(outcomeOf, g))
         /\ Cardinality(Members(outcomeOf, g)) \in 1..n
<1> DEFINE S == Members(outcomeOf, g)
<1>1. S \in SUBSET (1..n) /\ S # {} BY DEF Members, OutcomesIn
<1> HIDE DEF S
<1>2. IsFiniteSet(S) /\ Cardinality(S) \in 0..n BY <1>1, EpisodesAreFinite
<1>3. Cardinality(S) # 0 BY <1>1, <1>2, FS_EmptySet
<1> QED BY <1>1, <1>2, <1>3 DEF S

\* Its share of an outcome differs from the share of all by one episode at most.
Near(outcomeOf, val, g, n, valCount) ==
  NearShare(Cardinality(val \cap Members(outcomeOf, g)), valCount,
            Cardinality(Members(outcomeOf, g)), n)

\* The parts of a split have the size that was asked for, and near shares.
LEMMA PartsAreNear ==
  ASSUME NEW outcomeOf, NEW n \in Nat \ {0}, TwoOutcomes(outcomeOf, n),
         NEW valCount \in 1..(n - 1),
         NEW val \in StratifiedValidation(outcomeOf, valCount)
  PROVE  /\ val \in SUBSET (1..n) /\ Cardinality(val) = valCount
         /\ \A g \in OutcomesIn(outcomeOf) : Near(outcomeOf, val, g, n, valCount)
<1> DEFINE order == OutcomeOrder(outcomeOf)
           g == order[1]
           h == order[2]
           A == Members(outcomeOf, g)
           B == Members(outcomeOf, h)
           s1 == Least(QuotaOf(outcomeOf, g, valCount), valCount)
           s2 == Least(QuotaOf(outcomeOf, h, valCount), valCount - s1)
           groups == OutcomesIn(outcomeOf)
<1>1. DOMAIN outcomeOf = 1..n /\ n \in Nat BY DEF TwoOutcomes
<1>2. Cardinality(1..n) = n
  <2>1. n \in Int /\ 1 \in Int OBVIOUS
  <2>2. Cardinality(1..n) = IF 1 > n THEN 0 ELSE n - 1 + 1 BY <2>1, FS_Interval
  <2> QED BY <2>2
<1>3. \A k \in groups :
        /\ QuotaOf(outcomeOf, k, valCount)
             = Quota(Cardinality(Members(outcomeOf, k)), valCount, n)
        /\ QuotaOf(outcomeOf, k, valCount) \in Int
  <2> SUFFICES ASSUME NEW k \in groups
               PROVE  /\ QuotaOf(outcomeOf, k, valCount)
                           = Quota(Cardinality(Members(outcomeOf, k)), valCount, n)
                      /\ QuotaOf(outcomeOf, k, valCount) \in Int
    OBVIOUS
  <2>1. QuotaOf(outcomeOf, k, valCount)
          = Quota(Cardinality(Members(outcomeOf, k)), valCount, n)
    BY <1>1, <1>2 DEF QuotaOf
  <2> DEFINE size == Cardinality(Members(outcomeOf, k))
  <2>2. size \in 1..n BY <1>1, MembersAreSome
  <2> HIDE DEF size
  <2>3. size \in Nat \ {0} /\ size <= n /\ valCount \in 0..n BY <2>2
  <2>4. Quota(size, valCount, n) \in 0..(size - 1) BY <2>3, QuotaIsNear
  <2> QED BY <2>1, <2>3, <2>4 DEF size
<1>4. \/ /\ groups = {g}
         /\ \E p, more : /\ Some(p, s1, A)
                         /\ Some(more, valCount - s1, (1..n) \ p)
                         /\ val = p \union more
      \/ /\ g # h /\ groups = {g, h}
         /\ \E p, r, more : /\ Some(p, s1, A) /\ Some(r, s2, B)
                            /\ Some(more, valCount - (s1 + s2), (1..n) \ (p \union r))
                            /\ val = (p \union r) \union more
  <2> DEFINE o == order
             t1 == s1
             t2 == s2
  <2>1. ServedEach(outcomeOf, valCount, o, t1, t2) BY DEF ServedEach
  <2> HIDE DEF o, t1, t2
  <2>2. \A k \in OutcomesIn(outcomeOf) : QuotaOf(outcomeOf, k, valCount) \in Int
    BY <1>3
  <2>3. Parts(outcomeOf, n, valCount, val, o, t1, t2) BY <2>1, <2>2, StratifiedParts
  <2> QED BY <2>3 DEF Parts, o, t1, t2
<1> HIDE DEF order, g, h
<1>5. \A k \in groups : /\ Members(outcomeOf, k) \in SUBSET (1..n)
                        /\ IsFiniteSet(Members(outcomeOf, k))
                        /\ Cardinality(Members(outcomeOf, k)) \in 1..n
  BY <1>1, MembersAreSome
<1>6. \A e \in 1..n : \E k \in groups : e \in Members(outcomeOf, k)
  BY <1>1 DEF OutcomesIn, Members
<1> HIDE DEF groups, A, B
<1>7. CASE /\ groups = {g}
           /\ \E p, more : /\ Some(p, s1, A)
                           /\ Some(more, valCount - s1, (1..n) \ p)
                           /\ val = p \union more
  <2>1. PICK p, more : /\ Some(p, s1, A) /\ Some(more, valCount - s1, (1..n) \ p)
                       /\ val = p \union more
    BY <1>7
  <2>2. A = 1..n BY <1>5, <1>6, <1>7 DEF A
  <2>3. s1 \in Int BY <1>3, <1>7 DEF Least
  <2> HIDE DEF s1
  <2>4. Cardinality(val) = valCount /\ val \in SUBSET (1..n)
    <3>1. /\ p \in SUBSET (1..n) /\ more \in SUBSET (1..n) /\ p \cap more = {}
          /\ Cardinality(p) = s1 /\ Cardinality(more) = valCount - s1
      BY <2>1, <2>2 DEF Some
    <3>2. IsFiniteSet(p) /\ IsFiniteSet(more) BY <1>1, <3>1, EpisodesAreFinite
    <3>3. Cardinality(val) = s1 + (valCount - s1) BY <2>1, <3>1, <3>2, DisjointUnion
    <3> QED BY <2>1, <2>3, <3>1, <3>3
  <2>5. val \cap A = val BY <2>2, <2>4
  <2>6. Near(outcomeOf, val, g, n, valCount)
    <3>1. valCount * n \in Int OBVIOUS
    <3>2. Cardinality(val \cap A) * n = valCount * n /\ Cardinality(A) = n
      BY <1>2, <2>2, <2>4, <2>5
    <3> DEFINE x == valCount * n
    <3>3. x <= x + n /\ x >= x - n
      <4>1. x \in Int BY <3>1
      <4> HIDE DEF x
      <4> QED BY <4>1
    <3> QED BY <3>2, <3>3 DEF Near, NearShare, A
  <2> QED BY <1>7, <2>4, <2>6 DEF groups
<1>8. CASE /\ g # h /\ groups = {g, h}
           /\ \E p, r, more : /\ Some(p, s1, A) /\ Some(r, s2, B)
                              /\ Some(more, valCount - (s1 + s2), (1..n) \ (p \union r))
                              /\ val = (p \union r) \union more
  <2>1. PICK p, r, more :
          /\ Some(p, s1, A) /\ Some(r, s2, B)
          /\ Some(more, valCount - (s1 + s2), (1..n) \ (p \union r))
          /\ val = (p \union r) \union more
    BY <1>8
  <2>2. /\ A \in SUBSET (1..n) /\ B \in SUBSET (1..n) /\ A \cap B = {}
        /\ A \union B = 1..n /\ IsFiniteSet(A) /\ IsFiniteSet(B)
        /\ Cardinality(A) \in 1..n /\ Cardinality(B) \in 1..n
    <3>1. A \in SUBSET (1..n) /\ B \in SUBSET (1..n) BY <1>5, <1>8 DEF A, B
    <3>2. A \cap B = {} BY <1>8 DEF A, B, Members
    <3>3. \A e \in 1..n : e \in A \/ e \in B BY <1>6, <1>8 DEF A, B
    <3>4. A \union B = 1..n BY <3>1, <3>3
    <3> QED BY <1>5, <1>8, <3>1, <3>2, <3>4 DEF A, B
  <2>3. Cardinality(A) + Cardinality(B) = n BY <1>2, <2>2, DisjointUnion
  <2>4. s1 \in Int /\ s2 \in Int BY <1>3, <1>8 DEF Least
  <2>5. /\ s1 = Least(Quota(Cardinality(A), valCount, n), valCount)
        /\ s2 = Least(Quota(Cardinality(B), valCount, n), valCount - s1)
    BY <1>3, <1>8 DEF A, B
  <2> HIDE DEF s1, s2
  <2>6. /\ p \subseteq A /\ r \subseteq B /\ p \cap r = {}
        /\ more \in SUBSET (1..n) /\ (p \union r) \cap more = {}
        /\ p \union r \in SUBSET (1..n) /\ val \in SUBSET (1..n)
        /\ Cardinality(p) = s1 /\ Cardinality(r) = s2
        /\ Cardinality(more) = valCount - (s1 + s2)
    BY <2>1, <2>2 DEF Some
  <2>7. Cardinality(val) = valCount
    <3>1. IsFiniteSet(p) /\ IsFiniteSet(r) /\ IsFiniteSet(more)
      BY <1>1, <2>2, <2>6, EpisodesAreFinite
    <3>2. IsFiniteSet(p \union r) /\ Cardinality(p \union r) = s1 + s2
      BY <2>6, <3>1, DisjointUnion
    <3> DEFINE pr == p \union r
    <3>3. /\ IsFiniteSet(pr) /\ Cardinality(pr) = s1 + s2 /\ pr \cap more = {}
          /\ val = pr \union more
      BY <2>1, <2>6, <3>2
    <3> HIDE DEF pr
    <3>4. Cardinality(val) = Cardinality(pr) + Cardinality(more)
      BY <3>1, <3>3, DisjointUnion
    <3> QED BY <2>4, <2>6, <3>3, <3>4
  <2> DEFINE inA == Cardinality(val \cap A)
             inB == Cardinality(val \cap B)
  <2>8. inA \in Int /\ inB \in Int /\ inA + inB = valCount /\ inA >= s1 /\ inB >= s2
    <3>1. val \cap A \in SUBSET (1..n) /\ val \cap B \in SUBSET (1..n) BY <2>2
    <3>2. /\ IsFiniteSet(val \cap A) /\ inA \in 0..n
          /\ IsFiniteSet(val \cap B) /\ inB \in 0..n
      BY <1>1, <3>1, EpisodesAreFinite
    <3>3. (val \cap A) \cap (val \cap B) = {} /\ (val \cap A) \union (val \cap B) = val
      BY <2>2, <2>6
    <3>4. inA + inB = valCount BY <2>7, <3>2, <3>3, DisjointUnion
    <3>5. p \in SUBSET (val \cap A) /\ r \in SUBSET (val \cap B) BY <2>1, <2>6
    <3>6. Cardinality(p) <= inA /\ Cardinality(r) <= inB BY <3>2, <3>5, FS_Subset
    <3> QED BY <2>4, <2>6, <3>2, <3>4, <3>6
  <2>9. /\ NearShare(inA, valCount, Cardinality(A), n)
        /\ NearShare(inB, valCount, Cardinality(B), n)
    <3> DEFINE a == Cardinality(A)
               b == Cardinality(B)
    <3>1. /\ a \in Nat \ {0} /\ b \in Nat \ {0} /\ n = a + b
          /\ BothServed(s1, s2, a, b, valCount, n)
      BY <2>2, <2>3, <2>5 DEF BothServed
    <3> HIDE DEF a, b, inA, inB
    <3>2. NearShare(inA, valCount, a, n) /\ NearShare(inB, valCount, b, n)
      BY <1>1, <2>8, <3>1, SharesOfTwo
    <3> QED BY <3>2 DEF a, b
  <2>10. Near(outcomeOf, val, g, n, valCount) /\ Near(outcomeOf, val, h, n, valCount)
    BY <2>9 DEF Near, A, B
  <2> QED BY <1>8, <2>6, <2>7, <2>10 DEF groups
<1> QED BY <1>4, <1>7, <1>8 DEF A, B, groups

\* An outcome's quota leaves it an episode.
LEMMA QuotaSparesOne ==
  ASSUME NEW outcomeOf, NEW n \in Nat \ {0}, DOMAIN outcomeOf = 1..n,
         NEW valCount \in 1..(n - 1), NEW g \in OutcomesIn(outcomeOf)
  PROVE  QuotaOf(outcomeOf, g, valCount) \in 0..(Cardinality(Members(outcomeOf, g)) - 1)
<1> DEFINE size == Cardinality(Members(outcomeOf, g))
<1>1. Cardinality(1..n) = n
  <2>1. n \in Int /\ 1 \in Int OBVIOUS
  <2>2. Cardinality(1..n) = IF 1 > n THEN 0 ELSE n - 1 + 1 BY <2>1, FS_Interval
  <2> QED BY <2>2
<1>2. QuotaOf(outcomeOf, g, valCount) = Quota(size, valCount, n) BY <1>1 DEF QuotaOf
<1>3. size \in 1..n BY MembersAreSome
<1> HIDE DEF size
<1>4. size \in Nat \ {0} /\ size <= n /\ valCount \in 0..n BY <1>3
<1>5. Quota(size, valCount, n) \in 0..(size - 1) BY <1>4, QuotaIsNear
<1> QED BY <1>2, <1>5 DEF size

(* Whichever episode one picks, there is a split that leaves it to train on: no
   share takes its whole outcome, and the filling up can take others. *)
LEMMA EveryEpisodeIsSpared ==
  ASSUME NEW outcomeOf, NEW n \in Nat \ {0}, TwoOutcomes(outcomeOf, n),
         NEW valCount \in 1..(n - 1), NEW e \in 1..n
  PROVE  \E val \in StratifiedValidation(outcomeOf, valCount) : e \notin val
<1> DEFINE order == OutcomeOrder(outcomeOf)
           groups == OutcomesIn(outcomeOf)
           A == Members(outcomeOf, order[1])
           B == Members(outcomeOf, order[2])
           s1 == Least(QuotaOf(outcomeOf, order[1], valCount), valCount)
           s2 == Least(QuotaOf(outcomeOf, order[2], valCount), valCount - s1)
<1>1. DOMAIN outcomeOf = 1..n /\ n \in Nat BY DEF TwoOutcomes
<1>2. Cardinality(1..n) = n
  <2>1. n \in Int /\ 1 \in Int OBVIOUS
  <2>2. Cardinality(1..n) = IF 1 > n THEN 0 ELSE n - 1 + 1 BY <2>1, FS_Interval
  <2> QED BY <2>2
<1>3. \A g \in groups :
        QuotaOf(outcomeOf, g, valCount) \in 0..(Cardinality(Members(outcomeOf, g)) - 1)
  BY <1>1, QuotaSparesOne
<1>4. \A g \in groups : /\ Members(outcomeOf, g) \in SUBSET (1..n)
                        /\ Cardinality(Members(outcomeOf, g)) \in 1..n
  BY <1>1, MembersAreSome
<1>5. \A g \in groups : QuotaOf(outcomeOf, g, valCount) \in Int BY <1>3, <1>4
<1>6. ServedEach(outcomeOf, valCount, order, s1, s2) BY DEF ServedEach
<1>7. \/ groups = {order[1]}
      \/ order[1] # order[2] /\ groups = {order[1], order[2]}
  BY OrderOfTwo
<1>8. ASSUME NEW used \in SUBSET (1..n), e \notin used,
             NEW k \in 0..valCount, Cardinality(used) = k
      PROVE  \E more : Some(more, valCount - k, (1..n) \ used) /\ e \notin more
  <2> DEFINE left == (1..n) \ used
  <2>1. left \in SUBSET (1..n) /\ left \cap used = {} /\ left \union used = 1..n
    BY <1>8
  <2> HIDE DEF left
  <2>2. /\ IsFiniteSet(left) /\ Cardinality(left) \in 0..n
        /\ IsFiniteSet(used) /\ Cardinality(used) \in 0..n
    BY <1>1, <2>1, EpisodesAreFinite
  <2>3. Cardinality(left) + Cardinality(used) = n BY <1>2, <2>1, <2>2, DisjointUnion
  <2>4. valCount - k \in 0..(Cardinality(left) - 1) BY <1>8, <2>2, <2>3
  <2>5. \E more : Some(more, valCount - k, left) /\ e \notin more
    BY <1>1, <2>1, <2>4, SubsetWithout
  <2> QED BY <2>5 DEF left
<1> HIDE DEF order
<1>9. order[1] \in groups BY <1>7
<1>10. A \in SUBSET (1..n) /\ s1 \in 0..(Cardinality(A) - 1) /\ s1 \in 0..valCount
  <2>1. /\ QuotaOf(outcomeOf, order[1], valCount) \in 0..(Cardinality(A) - 1)
        /\ A \in SUBSET (1..n) /\ Cardinality(A) \in Int
    BY <1>3, <1>4, <1>9
  <2> HIDE DEF A
  <2> QED BY <2>1 DEF Least
<1> HIDE DEF A, s1
<1>11. PICK p : Some(p, s1, A) /\ e \notin p BY <1>1, <1>10, SubsetWithout
<1>12. p \in SUBSET (1..n) /\ Cardinality(p) = s1 BY <1>10, <1>11 DEF Some
<1>13. CASE groups = {order[1]}
  <2>1. PICK more : Some(more, valCount - s1, (1..n) \ p) /\ e \notin more
    BY <1>8, <1>10, <1>11, <1>12
  <2>2. Parts(outcomeOf, n, valCount, p \union more, order, s1, s2)
    <3> HIDE DEF s2
    <3> QED BY <1>11, <1>13, <2>1 DEF Parts, A
  <2> HIDE DEF s2
  <2>3. p \union more \in StratifiedValidation(outcomeOf, valCount)
    BY <1>5, <1>6, <2>2, PartsMakeSplit DEF groups
  <2> QED BY <1>11, <2>1, <2>3
<1>14. CASE order[1] # order[2] /\ groups = {order[1], order[2]}
  <2>1. B \in SUBSET (1..n) /\ s2 \in 0..(Cardinality(B) - 1) /\ s1 + s2 \in 0..valCount
    <3>1. /\ QuotaOf(outcomeOf, order[2], valCount) \in 0..(Cardinality(B) - 1)
          /\ B \in SUBSET (1..n) /\ Cardinality(B) \in Int
      BY <1>3, <1>4, <1>14
    <3> HIDE DEF B
    <3> QED BY <1>10, <3>1 DEF Least
  <2>2. A \cap B = {} BY <1>14 DEF A, B, Members
  <2> HIDE DEF B, s2
  <2>3. PICK r : Some(r, s2, B) /\ e \notin r BY <1>1, <2>1, SubsetWithout
  <2>4. r \in SUBSET (1..n) /\ Cardinality(r) = s2 /\ p \cap r = {}
    BY <1>11, <2>1, <2>2, <2>3 DEF Some
  <2> DEFINE pr == p \union r
  <2>5. pr \in SUBSET (1..n) /\ Cardinality(pr) = s1 + s2 /\ e \notin pr
    <3>1. IsFiniteSet(p) /\ IsFiniteSet(r) BY <1>1, <1>12, <2>4, EpisodesAreFinite
    <3> QED BY <1>11, <1>12, <2>3, <2>4, <3>1, DisjointUnion
  <2> HIDE DEF pr
  <2>6. PICK more : Some(more, valCount - (s1 + s2), (1..n) \ pr) /\ e \notin more
    BY <1>8, <2>1, <2>5
  <2>7. Parts(outcomeOf, n, valCount, pr \union more, order, s1, s2)
    BY <1>11, <1>14, <2>3, <2>6 DEF Parts, A, B, pr
  <2>8. pr \union more \in StratifiedValidation(outcomeOf, valCount)
    BY <1>5, <1>6, <2>7, PartsMakeSplit DEF groups
  <2> QED BY <2>5, <2>6, <2>8
<1> QED BY <1>7, <1>13, <1>14

(* _stratified_episode_split, for any number of episodes with one or two outcomes
   and any size of the validation set: the split has the size that was asked for,
   nothing is on both sides, each outcome has its share, give or take one, and no
   episode is held out whatever the seed, not even the only one of its outcome. *)
THEOREM OutcomesAreStratified ==
  ASSUME NEW outcomeOf, NEW n \in Nat \ {0}, TwoOutcomes(outcomeOf, n),
         NEW valCount \in 1..(n - 1)
  PROVE  SplitIsStratified(outcomeOf, valCount)
<1> DEFINE total == Cardinality(DOMAIN outcomeOf)
           In(g, S) == Cardinality({e \in S : outcomeOf[e] = g})
<1>1. DOMAIN outcomeOf = 1..n BY DEF TwoOutcomes
<1>2. total = n
  <2>1. n \in Int /\ 1 \in Int OBVIOUS
  <2>2. Cardinality(1..n) = IF 1 > n THEN 0 ELSE n - 1 + 1 BY <2>1, FS_Interval
  <2> QED BY <1>1, <2>2
<1> SUFFICES ASSUME NEW val \in StratifiedValidation(outcomeOf, valCount)
             PROVE  /\ AcceptsSplit(DOMAIN outcomeOf \ val, val, total - valCount, valCount)
                    /\ \A g \in OutcomesIn(outcomeOf) :
                         /\ In(g, val) * total <= valCount * In(g, DOMAIN outcomeOf) + total
                         /\ In(g, val) * total >= valCount * In(g, DOMAIN outcomeOf) - total
  <2>1. \A e \in DOMAIN outcomeOf :
          \E val \in StratifiedValidation(outcomeOf, valCount) : e \notin val
    BY <1>1, EveryEpisodeIsSpared
  <2> QED BY <2>1 DEF SplitIsStratified, OutcomesIn
<1>3. /\ val \in SUBSET (1..n) /\ Cardinality(val) = valCount
      /\ \A g \in OutcomesIn(outcomeOf) : Near(outcomeOf, val, g, n, valCount)
  BY PartsAreNear
<1>4. AcceptsSplit(DOMAIN outcomeOf \ val, val, total - valCount, valCount)
  <2> DEFINE train == (1..n) \ val
  <2>1. train \in SUBSET (1..n) /\ train \cap val = {} /\ train \union val = 1..n
    BY <1>3
  <2> HIDE DEF train
  <2>2. /\ IsFiniteSet(train) /\ Cardinality(train) \in 0..n
        /\ IsFiniteSet(val) /\ Cardinality(val) \in 0..n
    BY <1>3, <2>1, EpisodesAreFinite
  <2>3. Cardinality(train) + Cardinality(val) = n
    BY <1>1, <1>2, <2>1, <2>2, DisjointUnion
  <2>4. Cardinality(train) = n - valCount BY <1>3, <2>2, <2>3
  <2> HIDE DEF total
  <2>5. AcceptsSplit(train, val, n - valCount, valCount)
    BY <1>3, <2>1, <2>4 DEF AcceptsSplit
  <2> QED BY <1>1, <1>2, <2>5 DEF train
<1>5. ASSUME NEW g \in OutcomesIn(outcomeOf)
      PROVE  /\ In(g, val) * total <= valCount * In(g, DOMAIN outcomeOf) + total
             /\ In(g, val) * total >= valCount * In(g, DOMAIN outcomeOf) - total
  <2>1. {e \in val : outcomeOf[e] = g} = val \cap Members(outcomeOf, g)
    BY <1>1, <1>3 DEF Members
  <2>2. In(g, val) = Cardinality(val \cap Members(outcomeOf, g)) BY <2>1
  <2>3. In(g, DOMAIN outcomeOf) = Cardinality(Members(outcomeOf, g)) BY DEF Members
  <2>4. NearShare(In(g, val), valCount, In(g, DOMAIN outcomeOf), total)
    BY <1>2, <1>3, <2>2, <2>3 DEF Near
  <2> QED BY <2>4 DEF NearShare
<1> QED BY <1>4, <1>5

\* What the cases of the splits are.
LEMMA CasesOfSplits ==
  ASSUME NEW x \in SplitCases
  PROVE  /\ x.kind = "windows" =>
              /\ \E n \in 1..4 : x.episodeOf \in [1..n -> 1..3]
              /\ x.fraction \in Fractions
         /\ x.kind = "outcomes" =>
              \E n \in 2..6 : /\ x.outcomeOf \in [1..n -> {"success", "failure"}]
                              /\ x.valCount \in 1..n - 1
<1>1. ASSUME NEW A, NEW B, x \in [kind : {"windows"}, episodeOf : A, fraction : B]
      PROVE  x.kind = "windows" /\ x.episodeOf \in A /\ x.fraction \in B
  BY <1>1
<1>2. ASSUME NEW A, NEW B, x \in [kind : {"outcomes"}, outcomeOf : A, valCount : B]
      PROVE  x.kind = "outcomes" /\ x.outcomeOf \in A /\ x.valCount \in B
  BY <1>2
<1>3. ASSUME NEW A, NEW B, NEW C,
             x \in [kind : {"pairs"}, groupOf : A, fraction : B, pairs : C]
      PROVE  x.kind = "pairs"
  BY <1>3
<1> DEFINE Outs(n) == [1..n -> {"success", "failure"}]
           Cases(n) == [kind : {"outcomes"}, outcomeOf : Outs(n), valCount : 1..n - 1]
           A == UNION {[1..n -> 1..3] : n \in 1..4}
           G == [1..4 -> 1..3]
           P == SUBSET {<<1, 2>>, <<2, 3>>, <<3, 4>>}
           U == UNION {Cases(n) : n \in 2..6}
           Windows0 == [kind : {"windows"}, episodeOf : A, fraction : Fractions]
           Pairs0 == [kind : {"pairs"}, groupOf : G, fraction : Fractions, pairs : P]
<1>4. SplitCases = Windows0 \union Pairs0 \union U BY Zenon DEF SplitCases
<1>5. CASE x \in Windows0
  <2>1. x.kind = "windows" /\ x.episodeOf \in A /\ x.fraction \in Fractions
    <3> HIDE DEF A
    <3> QED BY <1>1, <1>5
  <2>2. \E n \in 1..4 : x.episodeOf \in [1..n -> 1..3] BY <2>1
  <2> QED BY <2>1, <2>2
<1>6. CASE x \in Pairs0
  <2>1. x.kind = "pairs"
    <3> HIDE DEF G, P
    <3> QED BY <1>3, <1>6
  <2> QED BY <2>1
<1>7. CASE x \in U
  <2>1. PICK n \in 2..6 : x \in Cases(n)
    <3> HIDE DEF Cases
    <3> QED BY <1>7
  <2>2. x.kind = "outcomes" /\ x.outcomeOf \in Outs(n) /\ x.valCount \in 1..n - 1
    <3> HIDE DEF Outs
    <3> QED BY <1>2, <2>1
  <2> QED BY <2>2
<1> HIDE DEF U, Windows0, Pairs0
<1> QED BY <1>4, <1>5, <1>6, <1>7

(* In every case that the run enumerates a split keeps episodes apart. *)
THEOREM SplitsAreSound == MCSpec => []SplitsKeepEpisodesApart
<1> DEFINE Case == input.kind \in {"windows", "outcomes"} => input \in SplitCases
<1>1. MCInit => Case
  <2>1. \A x \in GuardCases \union RowCases \union ChunkCases :
          x.kind \notin {"windows", "outcomes"}
    <3>1. \A x \in GuardCases : x.kind = "guard" BY DEF GuardCases
    <3>2. \A x \in RowCases : x.kind = "rows" BY DEF RowCases
    <3>3. \A x \in ChunkCases : x.kind = "chunk" BY DEF ChunkCases
    <3> QED BY <3>1, <3>2, <3>3
  <2>2. NoInput.kind \notin {"windows", "outcomes"} BY DEF NoInput
  <2> QED BY <2>1, <2>2 DEF MCInit
<1>2. Case /\ [MCNext]_mcVars => Case' BY DEF MCNext, mcVars
<1>3. Case => SplitsKeepEpisodesApart
  <2> SUFFICES ASSUME Case PROVE SplitsKeepEpisodesApart
    OBVIOUS
  <2>1. input.kind = "windows" => EpisodesStayApart(input.episodeOf, input.fraction)
    <3> SUFFICES ASSUME input.kind = "windows"
                 PROVE  EpisodesStayApart(input.episodeOf, input.fraction)
      OBVIOUS
    <3>1. input \in SplitCases OBVIOUS
    <3>2. PICK n \in 1..4 : input.episodeOf \in [1..n -> 1..3] BY <3>1, CasesOfSplits
    <3>3. input.fraction \in Fractions BY <3>1, CasesOfSplits
    <3>4. /\ input.fraction.num \in Nat /\ input.fraction.den \in Nat \ {0}
          /\ n \in Nat \ {0} /\ DOMAIN input.episodeOf = 1..n
      BY <3>2, <3>3 DEF Fractions
    <3> QED BY <3>4, WindowsStayTogether
  <2>2. input.kind = "outcomes" => SplitIsStratified(input.outcomeOf, input.valCount)
    <3> SUFFICES ASSUME input.kind = "outcomes"
                 PROVE  SplitIsStratified(input.outcomeOf, input.valCount)
      OBVIOUS
    <3>1. input \in SplitCases OBVIOUS
    <3>2. PICK n \in 2..6 : /\ input.outcomeOf \in [1..n -> {"success", "failure"}]
                            /\ input.valCount \in 1..n - 1
      BY <3>1, CasesOfSplits
    <3>3. n \in Nat \ {0} /\ TwoOutcomes(input.outcomeOf, n)
      <4>1. /\ DOMAIN input.outcomeOf = 1..n
            /\ \A e \in 1..n : input.outcomeOf[e] = "success" \/ input.outcomeOf[e] = "failure"
        BY <3>2
      <4>2. \E x, y : \A e \in 1..n : input.outcomeOf[e] = x \/ input.outcomeOf[e] = y
        BY <4>1, Zenon
      <4>3. n \in Nat \ {0} BY <3>2
      <4> QED BY <4>1, <4>2, <4>3 DEF TwoOutcomes
    <3> QED BY <3>2, <3>3, OutcomesAreStratified
  <2>3. input.kind = "pairs" =>
          LET pairs == {[good |-> p[1], bad |-> p[2], group |-> input.groupOf[p[1]]]
                        : p \in {q \in input.pairs : input.groupOf[q[1]] = input.groupOf[q[2]]}}
          IN /\ \A s \in MixedSplits(pairs, input.groupOf, input.fraction) :
                  PairsStayApart(pairs, s)
             /\ PairsStayApart(pairs, ProbePairs(pairs,
                  SetToSortSeq({input.groupOf[i] : i \in 1..4}, <)))
    <3> DEFINE pairs == {[good |-> p[1], bad |-> p[2], group |-> input.groupOf[p[1]]]
                         : p \in {q \in input.pairs :
                                    input.groupOf[q[1]] = input.groupOf[q[2]]}}
               sorted == SetToSortSeq({input.groupOf[i] : i \in 1..4}, <)
    <3> HIDE DEF pairs, sorted
    <3>1. /\ \A s \in MixedSplits(pairs, input.groupOf, input.fraction) :
               PairsStayApart(pairs, s)
          /\ PairsStayApart(pairs, ProbePairs(pairs, sorted))
      BY PairsStay
    <3> QED BY <3>1, Zenon DEF pairs, sorted
  <2> QED BY <2>1, <2>2, <2>3, Zenon DEF SplitsKeepEpisodesApart
<1> HIDE DEF Case
<1> QED BY <1>1, <1>2, <1>3, PTL DEF MCSpec
=============================================================================
