----------------------------- MODULE GuardProofs -----------------------------
(***************************************************************************)
(* smolvla_guard.py: what the policy guard sends to the controller, and    *)
(* when the completion detector ends a rollout.                            *)
(*                                                                         *)
(* The guard, for every configuration and every angle.  The arithmetic of  *)
(* turns comes first: products with `Turn` are not linear, so each lemma   *)
(* uses one of them.                                                       *)
(*                                                                         *)
(* The detector, for every set of poses, all thresholds and any number of  *)
(* observations, declares a rollout complete exactly when the reference    *)
(* definition says so.  The code keeps four flags and one time where the   *)
(* reference looks at the whole history; the invariant says what each of   *)
(* them remembers.                                                         *)
(***************************************************************************)
EXTENDS MCAlgorithms, TLAPS

\* The quotient and the remainder of the integers.
LEMMA Division ==
  ASSUME NEW n \in Int, NEW d \in Nat \ {0}
  PROVE  /\ n \div d \in Int /\ n % d \in 0..(d - 1)
         /\ n = d * (n \div d) + (n % d)
BY SMT

\* A multiple of a turn that is smaller than a turn is none.
LEMMA NoWholeTurn ==
  ASSUME NEW d \in Nat \ {0}, NEW z \in Int, d * z < d, -d < d * z
  PROVE  z = 0
<1>1. CASE z >= 1
  <2>1. d * z >= d BY <1>1, SMT
  <2> QED BY <2>1
<1>2. CASE z <= -1
  <2>1. d * z <= -d BY <1>2, SMT
  <2> QED BY <2>1
<1> QED BY <1>1, <1>2

\* A whole number of turns leaves no remainder.
LEMMA TurnsHaveNoRemainder ==
  ASSUME NEW d \in Nat \ {0}, NEW z \in Int
  PROVE  (d * z) % d = 0
<1> DEFINE q == (d * z) \div d
           r == (d * z) % d
<1>0. d * z \in Int OBVIOUS
<1>1. q \in Int /\ r \in 0..(d - 1) /\ d * z = d * q + r BY <1>0, Division
<1> HIDE DEF q, r
<1>2. d * (z - q) = r BY <1>1, SMT
<1>3. z - q = 0 BY <1>1, <1>2, NoWholeTurn
<1>4. d * (z - q) = 0 BY <1>3
<1> QED BY <1>2, <1>4 DEF r

\* round() is at most half a unit away.
LEMMA NearestIsNear ==
  ASSUME NEW n \in Int, NEW d \in Nat \ {0}
  PROVE  /\ Nearest(n, d) \in Int
         /\ 2 * (n - d * Nearest(n, d)) <= d
         /\ -d <= 2 * (n - d * Nearest(n, d))
<1> DEFINE q == n \div d
           r == n % d
<1>1. q \in Int /\ r \in 0..(d - 1) /\ n = d * q + r BY Division
<1>2. Nearest(n, d) = IF 2 * r < d \/ (2 * r = d /\ q % 2 = 0) THEN q ELSE q + 1
  BY DEF Nearest
<1> HIDE DEF q, r
<1>3. CASE 2 * r < d \/ (2 * r = d /\ q % 2 = 0)
  <2>1. Nearest(n, d) = q BY <1>2, <1>3
  <2>2. n - d * q = r BY <1>1
  <2> QED BY <1>1, <1>3, <2>1, <2>2
<1>4. CASE ~(2 * r < d \/ (2 * r = d /\ q % 2 = 0))
  <2>1. Nearest(n, d) = q + 1 BY <1>2, <1>4
  <2>2. n - d * (q + 1) = r - d BY <1>1, SMT
  <2>3. 2 * r >= d BY <1>1, <1>4
  <2> QED BY <1>1, <2>1, <2>2, <2>3
<1> QED BY <1>3, <1>4

-----------------------------------------------------------------------------
(* One joint. *)

\* The limits of a configuration are integers.
LEMMA ConfigTyped ==
  ASSUME NEW cfg \in Config, NEW j \in Joints
  PROVE  /\ cfg.lower[j] \in Int /\ cfg.upper[j] \in Int
         /\ cfg.overshoot \in Nat /\ Limit(cfg, j) \in Nat
BY DEF Config, Limit

\* The canonical angle is an equivalent one: whole turns away, and on a joint
\* that does not wrap the same.
LEMMA CanonicalIsEquivalent ==
  ASSUME NEW j \in Joints, NEW value \in Int, NEW low \in Int, NEW high \in Int
  PROVE  \E k \in Int : /\ Canonical(j, value, low, high) = value + Turn * k
                        /\ j \notin Wrap => k = 0
<1>1. CASE j \in Wrap
  <2> DEFINE k == Nearest(low + high - 2 * value, 2 * Turn)
  <2>1. k \in Int
    <3>1. low + high - 2 * value \in Int /\ 2 * Turn \in Nat \ {0}
      BY GuardAssumption
    <3> QED BY <3>1, NearestIsNear
  <2> QED BY <1>1, <2>1 DEF Canonical
<1>2. CASE j \notin Wrap BY <1>2, GuardAssumption DEF Canonical
<1> QED BY <1>1, <1>2

\* The representative of an integer angle is one.
LEMMA RepresentativeTyped ==
  ASSUME NEW j \in Joints, NEW value \in Int, NEW low \in Int, NEW high \in Int
  PROVE  Representative(j, value, low, high) \in Int
<1>1. FirstAbove(value, low) \in Int
  <2>1. -(low - value) \in Int /\ Turn \in Nat \ {0} BY GuardAssumption
  <2>2. Ceiling(low - value, Turn) \in Int BY <2>1, Division DEF Ceiling
  <2> QED BY <2>1, <2>2 DEF FirstAbove
<1> QED BY <1>1 DEF Representative

\* What the guard returns is in the envelope and within a step of the canonical
\* angle it was given.
LEMMA GuardedIsClose ==
  ASSUME NEW cfg \in Config, WellFormed(cfg), NEW j \in Joints,
         NEW predicted \in Int, NEW state \in Int,
         NEW g \in GuardJoint(cfg, j, predicted, state)
  PROVE  /\ g \in Int /\ cfg.lower[j] <= g /\ g <= cfg.upper[j]
         /\ Abs(g - Canonical(j, state, cfg.lower[j], cfg.upper[j])) <= Limit(cfg, j)
<1> DEFINE low == cfg.lower[j]
           high == cfg.upper[j]
           t == Representative(j, predicted, low - cfg.overshoot, high + cfg.overshoot)
<1>1. low \in Int /\ high \in Int /\ cfg.overshoot \in Nat /\ low < high
  BY ConfigTyped DEF WellFormed
<1>2. t \in Int
  <2>1. low - cfg.overshoot \in Int /\ high + cfg.overshoot \in Int BY <1>1
  <2> QED BY <2>1, RepresentativeTyped
<1>3. /\ g = Clamp(t, low, high)
      /\ Abs(g - Canonical(j, state, low, high)) <= Limit(cfg, j)
  BY DEF GuardJoint
<1> HIDE DEF t
<1>4. g \in Int /\ low <= g /\ g <= high BY <1>1, <1>2, <1>3 DEF Clamp
<1> QED BY <1>3, <1>4

-----------------------------------------------------------------------------
(* The command, in the coordinates of the controller. *)

\* Two equivalent angles that are each less than half a turn from a third are
\* the same; the nearest equivalent is at most half a turn away.
LEMMA NearestKeepsStep ==
  ASSUME NEW g \in Int, NEW raw \in Int, NEW m \in Int, NEW limit \in Nat,
         Abs(g - (raw + Turn * m)) <= limit, 2 * limit < Turn
  PROVE  LET k == Nearest(raw - g, Turn)
         IN k \in Int /\ Abs(g + Turn * k - raw) <= limit
<1> DEFINE k == Nearest(raw - g, Turn)
<1>0. Turn \in Nat \ {0} BY GuardAssumption
<1>1. /\ k \in Int
      /\ 2 * (raw - g - Turn * k) <= Turn
      /\ -Turn <= 2 * (raw - g - Turn * k)
  BY <1>0, NearestIsNear
<1> HIDE DEF k
<1> DEFINE a == Turn * k
           b == Turn * m
<1>2. a \in Int /\ b \in Int /\ Turn * (k + m) = a + b BY <1>0, <1>1, SMT
<1>3. /\ 2 * (raw - g - a) <= Turn /\ -Turn <= 2 * (raw - g - a)
      /\ Abs(g - (raw + b)) <= limit
  BY <1>1
<1> HIDE DEF a, b
<1>4. -limit <= g - raw - b /\ g - raw - b <= limit BY <1>2, <1>3 DEF Abs
<1>5. a + b < Turn /\ -Turn < a + b BY <1>0, <1>2, <1>3, <1>4
<1>6. k + m = 0 BY <1>0, <1>1, <1>2, <1>5, NoWholeTurn
<1>7. a + b = 0 BY <1>0, <1>2, <1>6
<1>8. Abs(g + a - raw) <= limit BY <1>2, <1>4, <1>7 DEF Abs
<1> QED BY <1>1, <1>8 DEF a, k

(* Whatever the policy predicts and in whatever turn the controller counts: in
   the controller's own coordinates a command never asks a joint for more than
   its limit, and its angle is in the envelope. *)
THEOREM EveryMoveIsShort ==
  ASSUME NEW cfg \in Config, WellFormed(cfg), Narrow(cfg),
         NEW predicted \in [Joints -> Int], NEW raw \in [Joints -> Int],
         NEW gripper \in Int, NEW wasClosed \in BOOLEAN,
         NEW command \in SendAction(cfg, predicted, raw, gripper, wasClosed)
  PROVE  MoveIsShort(cfg, command, raw)
<1> DEFINE state == [j \in Joints |-> Canonical(j, raw[j], cfg.lower[j], cfg.upper[j])]
<1>1. PICK a \in GuardPolicyAction(cfg, predicted, state, gripper, wasClosed) :
        command = [j \in Joints |-> Controller(j, a.joints[j], raw[j])]
  BY DEF SendAction
<1>2. \A j \in Joints : a.joints[j] \in GuardJoint(cfg, j, predicted[j], state[j])
  <2> HIDE DEF state
  <2> QED BY DEF GuardPolicyAction
<1> SUFFICES ASSUME NEW j \in Joints
             PROVE  /\ Abs(command[j] - raw[j]) <= Limit(cfg, j)
                    /\ Reach(j, command[j], cfg.lower[j], cfg.upper[j]) # {}
  BY DEF MoveIsShort
<1> DEFINE g == a.joints[j]
           limit == Limit(cfg, j)
<1>3. /\ cfg.lower[j] \in Int /\ cfg.upper[j] \in Int /\ cfg.overshoot \in Nat
      /\ limit \in Nat /\ raw[j] \in Int /\ predicted[j] \in Int
      /\ Turn \in Nat \ {0}
  BY ConfigTyped, GuardAssumption
<1>4. PICK k \in Int : state[j] = raw[j] + Turn * k /\ (j \notin Wrap => k = 0)
  <2>1. state[j] = Canonical(j, raw[j], cfg.lower[j], cfg.upper[j])
    OBVIOUS
  <2>2. \E k \in Int :
          /\ Canonical(j, raw[j], cfg.lower[j], cfg.upper[j]) = raw[j] + Turn * k
          /\ j \notin Wrap => k = 0
    BY <1>3, CanonicalIsEquivalent
  <2> HIDE DEF state
  <2> QED BY <2>1, <2>2, Zenon
<1>5. state[j] \in Int
  <2>1. Turn * k \in Int BY <1>3
  <2> QED BY <1>3, <1>4, <2>1
<1> HIDE DEF state
<1>6. PICK m \in Int : /\ Canonical(j, state[j], cfg.lower[j], cfg.upper[j])
                            = state[j] + Turn * m
                       /\ j \notin Wrap => m = 0
  BY <1>3, <1>5, CanonicalIsEquivalent
<1>7. Turn * k + Turn * m = Turn * (k + m) /\ k + m \in Int
  BY <1>3, SMT
<1>8. /\ g \in Int /\ cfg.lower[j] <= g /\ g <= cfg.upper[j]
      /\ Abs(g - (raw[j] + Turn * (k + m))) <= limit
  <2>1. /\ g \in Int /\ cfg.lower[j] <= g /\ g <= cfg.upper[j]
        /\ Abs(g - (state[j] + Turn * m)) <= limit
    BY <1>2, <1>3, <1>5, <1>6, GuardedIsClose
  <2>2. Turn * k \in Int /\ Turn * m \in Int BY <1>3
  <2>3. state[j] + Turn * m = raw[j] + Turn * (k + m)
    BY <1>3, <1>4, <1>7, <2>2
  <2> QED BY <2>1, <2>3
<1>9. command[j] = Controller(j, g, raw[j]) BY <1>1
<1> HIDE DEF g, limit
<1>10. CASE j \in Wrap
  <2> DEFINE n == Nearest(raw[j] - g, Turn)
  <2>1. 2 * limit < Turn
    BY <1>3, <1>10 DEF Narrow, WellFormed, limit
  <2>2. n \in Int /\ Abs(g + Turn * n - raw[j]) <= limit
    BY <1>3, <1>7, <1>8, <2>1, NearestKeepsStep
  <2>3. command[j] = g + Turn * n BY <1>9, <1>10 DEF Controller
  <2> HIDE DEF n
  <2>4. Turn * n \in Int BY <1>3, <2>2
  <2>5. command[j] - g = Turn * n BY <1>8, <2>3, <2>4
  <2>6. (command[j] - g) % Turn = 0 BY <1>3, <2>2, <2>5, TurnsHaveNoRemainder
  <2>7. g \in Reach(j, command[j], cfg.lower[j], cfg.upper[j])
    BY <1>3, <1>8, <1>10, <2>6 DEF Reach, SameAngle
  <2>8. Abs(command[j] - raw[j]) <= limit
    <3>1. command[j] - raw[j] = g + Turn * n - raw[j]
      BY <1>3, <1>8, <2>3, <2>4
    <3> QED BY <2>2, <3>1, Zenon
  <2> QED BY <2>7, <2>8 DEF limit
<1>11. CASE j \notin Wrap
  <2>1. k + m = 0 BY <1>4, <1>6, <1>11
  <2>2. raw[j] + Turn * (k + m) = raw[j] BY <1>3, <2>1
  <2>3. command[j] = g BY <1>9, <1>11 DEF Controller
  <2>4. g \in Reach(j, command[j], cfg.lower[j], cfg.upper[j])
    BY <1>3, <1>8, <1>11, <2>3 DEF Reach, SameAngle
  <2>5. Abs(command[j] - raw[j]) <= limit BY <1>8, <2>2, <2>3
  <2> QED BY <2>4, <2>5 DEF limit
<1> QED BY <1>10, <1>11
-----------------------------------------------------------------------------
(* The decision. *)

\* Equivalent angles are whole turns apart.
LEMMA SameMeansTurns ==
  ASSUME NEW j \in Wrap, NEW p \in Int, NEW q \in Int
  PROVE  SameAngle(j, p, q) <=> \E z \in Int : p = q + Turn * z
<1> DEFINE d == (p - q) \div Turn
           r == (p - q) % Turn
<1>0. Turn \in Nat \ {0} /\ p - q \in Int BY GuardAssumption
<1>1. d \in Int /\ r \in 0..(Turn - 1) /\ p - q = Turn * d + r
  BY <1>0, Division
<1>2. SameAngle(j, p, q) <=> r = 0 BY DEF SameAngle
<1> HIDE DEF d, r
<1>3. ASSUME r = 0 PROVE \E z \in Int : p = q + Turn * z
  <2>1. p = q + Turn * d BY <1>0, <1>1, <1>3
  <2> QED BY <1>1, <2>1
<1>4. ASSUME NEW z \in Int, p = q + Turn * z PROVE r = 0
  <2>1. Turn * z \in Int BY <1>0
  <2>2. p - q = Turn * z BY <1>4, <2>1
  <2> QED BY <1>0, <2>2, TurnsHaveNoRemainder DEF r
<1> QED BY <1>2, <1>3, <1>4

\* Two equivalent angles less than a turn apart are the same.
LEMMA CloseIsEqual ==
  ASSUME NEW j \in Wrap, NEW p \in Int, NEW q \in Int, SameAngle(j, p, q),
         p - q < Turn, q - p < Turn
  PROVE  p = q
<1>0. Turn \in Nat \ {0} BY GuardAssumption
<1>1. PICK z \in Int : p = q + Turn * z BY SameMeansTurns
<1>2. Turn * z \in Int BY <1>0
<1>3. Turn * z < Turn /\ -Turn < Turn * z BY <1>0, <1>1, <1>2
<1>4. z = 0 BY <1>0, <1>3, NoWholeTurn
<1>5. Turn * z = 0 BY <1>0, <1>4
<1> QED BY <1>1, <1>5

\* Equivalence is symmetric and transitive.
LEMMA SameIsEquivalence ==
  ASSUME NEW j \in Wrap, NEW p \in Int, NEW q \in Int, NEW s \in Int,
         SameAngle(j, p, q), SameAngle(j, p, s)
  PROVE  SameAngle(j, q, s)
<1>0. Turn \in Nat \ {0} BY GuardAssumption
<1>1. PICK y \in Int : p = q + Turn * y BY SameMeansTurns
<1>2. PICK z \in Int : p = s + Turn * z BY SameMeansTurns
<1>3. Turn * (z - y) = Turn * z - Turn * y /\ z - y \in Int BY <1>0, SMT
<1>4. Turn * z \in Int /\ Turn * y \in Int BY <1>0
<1>5. q = s + Turn * (z - y) BY <1>1, <1>2, <1>3, <1>4
<1> QED BY <1>3, <1>5, SameMeansTurns

\* The lowest equivalent that is not below an interval.
LEMMA FirstAboveIsFirst ==
  ASSUME NEW j \in Wrap, NEW value \in Int, NEW low \in Int
  PROVE  /\ FirstAbove(value, low) \in Int
         /\ SameAngle(j, value, FirstAbove(value, low))
         /\ low <= FirstAbove(value, low) /\ FirstAbove(value, low) < low + Turn
<1> DEFINE q == (-(low - value)) \div Turn
           r == (-(low - value)) % Turn
<1>0. Turn \in Nat \ {0} /\ -(low - value) \in Int BY GuardAssumption
<1>1. q \in Int /\ r \in 0..(Turn - 1) /\ -(low - value) = Turn * q + r
  BY <1>0, Division
<1>2. FirstAbove(value, low) = value + Turn * (-q) BY DEF FirstAbove, Ceiling
<1> HIDE DEF q, r
<1>3. Turn * (-q) = -(Turn * q) /\ Turn * q \in Int BY <1>0, <1>1, SMT
<1>4. FirstAbove(value, low) = low + r
  <2> DEFINE a == Turn * q
  <2>1. FirstAbove(value, low) = value + (-a) BY <1>2, <1>3, Zenon
  <2>2. a \in Int /\ -(low - value) = a + r BY <1>1, <1>3
  <2> HIDE DEF a
  <2>3. value + (-a) = low + r BY <1>1, <2>2
  <2> QED BY <2>1, <2>3
<1>5. value = FirstAbove(value, low) + Turn * q BY <1>1, <1>2, <1>3
<1>6. FirstAbove(value, low) \in Int BY <1>0, <1>1, <1>4
<1>7. SameAngle(j, value, FirstAbove(value, low))
  BY <1>1, <1>5, <1>6, SameMeansTurns
<1> QED BY <1>0, <1>1, <1>4, <1>6, <1>7

\* If an interval of less than a turn holds an equivalent angle at all, it is the
\* representative.
LEMMA RepresentativeIsReach ==
  ASSUME NEW j \in Joints, NEW value \in Int, NEW low \in Int, NEW high \in Int,
         j \in Wrap => high - low < Turn
  PROVE  LET t == Representative(j, value, low, high)
         IN /\ low <= t /\ t <= high => t \in Reach(j, value, low, high)
            /\ \A q \in Reach(j, value, low, high) : q = t
<1> DEFINE t == Representative(j, value, low, high)
           f == FirstAbove(value, low)
<1>1. t \in Int BY RepresentativeTyped
<1>2. CASE j \notin Wrap
  <2>1. t = value BY <1>2 DEF Representative
  <2> QED BY <1>1, <1>2, <2>1 DEF Reach, SameAngle
<1>3. CASE j \in Wrap
  <2>1. /\ f \in Int /\ SameAngle(j, value, f) /\ low <= f /\ f < low + Turn
    BY <1>3, FirstAboveIsFirst
  <2>2. t = IF f <= high THEN f ELSE value BY <1>3 DEF Representative
  <2> HIDE DEF f, t
  <2>3. SameAngle(j, value, value)
    <3>1. value - value = 0 OBVIOUS
    <3>2. 0 % Turn = 0 BY GuardAssumption
    <3> QED BY <3>1, <3>2 DEF SameAngle
  <2>4. low <= t /\ t <= high => t \in Reach(j, value, low, high)
    BY <1>1, <2>1, <2>2, <2>3 DEF Reach
  <2>5. ASSUME NEW q \in Reach(j, value, low, high) PROVE q = t
    <3>1. /\ q \in Int /\ low <= q /\ q <= high /\ SameAngle(j, value, q)
      BY <2>5 DEF Reach
    <3>2. SameAngle(j, q, f) BY <1>3, <2>1, <3>1, SameIsEquivalence
    <3>3. q - f < Turn /\ f - q < Turn
      BY <1>3, <2>1, <3>1, GuardAssumption
    <3>4. q = f BY <1>3, <2>1, <3>1, <3>2, <3>3, CloseIsEqual
    <3> QED BY <2>2, <3>1, <3>4
  <2> QED BY <2>4, <2>5 DEF t
<1> QED BY <1>2, <1>3

\* An equivalent that is less than half a turn from the middle of the envelope
\* is the canonical one.
LEMMA CanonicalIsCentral ==
  ASSUME NEW j \in Joints, NEW value \in Int, NEW low \in Int, NEW high \in Int,
         NEW c \in Int, SameAngle(j, value, c),
         j \in Wrap => /\ 2 * c - (low + high) < Turn
                       /\ (low + high) - 2 * c < Turn
  PROVE  Canonical(j, value, low, high) = c
<1>1. CASE j \notin Wrap BY <1>1 DEF Canonical, SameAngle
<1>2. CASE j \in Wrap
  <2> DEFINE n == Nearest(low + high - 2 * value, 2 * Turn)
             a == value + Turn * n
  <2>0. Turn \in Nat \ {0} /\ 2 * Turn \in Nat \ {0}
        /\ low + high - 2 * value \in Int
    BY GuardAssumption
  <2>1. /\ n \in Int
        /\ 2 * ((low + high - 2 * value) - (2 * Turn) * n) <= 2 * Turn
        /\ -(2 * Turn) <= 2 * ((low + high - 2 * value) - (2 * Turn) * n)
    BY <2>0, NearestIsNear
  <2>2. Canonical(j, value, low, high) = a BY <1>2 DEF Canonical
  <2> HIDE DEF n
  <2>3. Turn * n \in Int /\ (2 * Turn) * n = 2 * (Turn * n) BY <2>0, <2>1, SMT
  <2>4. a \in Int /\ (low + high) - 2 * a <= Turn /\ 2 * a - (low + high) <= Turn
    BY <2>0, <2>1, <2>3
  <2>5. SameAngle(j, a, value) BY <1>2, <2>1, <2>4, SameMeansTurns
  <2>6. SameAngle(j, value, a)
    <3>1. Turn * (-n) = -(Turn * n) /\ -n \in Int BY <2>0, <2>1, SMT
    <3>2. value = a + Turn * (-n) BY <2>3, <3>1
    <3> QED BY <1>2, <2>4, <3>1, <3>2, SameMeansTurns
  <2>7. SameAngle(j, a, c) BY <1>2, <2>4, <2>6, SameIsEquivalence
  <2>8. a - c < Turn /\ c - a < Turn BY <1>2, <2>0, <2>4
  <2>9. a = c BY <1>2, <2>4, <2>7, <2>8, CloseIsEqual
  <2> QED BY <2>2, <2>9
<1> QED BY <1>1, <1>2

\* One joint is accepted exactly if it is accepted on the circle.
LEMMA JointOnTheCircle ==
  ASSUME NEW cfg \in Config, WellFormed(cfg), Narrow(cfg), NEW j \in Joints,
         NEW predicted \in Int, NEW raw \in Int
  PROVE  GuardJoint(cfg, j, predicted, Canonical(j, raw, cfg.lower[j], cfg.upper[j])) # {}
           <=> AcceptedOnCircle(cfg, j, predicted, raw)
<1> DEFINE low == cfg.lower[j]
           high == cfg.upper[j]
           limit == Limit(cfg, j)
           bottom == low - cfg.overshoot
           top == high + cfg.overshoot
           t == Representative(j, predicted, bottom, top)
           g == Clamp(t, low, high)
           state == Canonical(j, raw, low, high)
           held == Canonical(j, state, low, high)
<1>0. Turn \in Nat \ {0} BY GuardAssumption
<1>1. /\ low \in Int /\ high \in Int /\ low < high /\ cfg.overshoot \in Nat
      /\ limit \in Nat
  BY ConfigTyped DEF WellFormed
<1>2. bottom \in Int /\ top \in Int BY <1>1
<1>3. j \in Wrap => top - bottom < Turn /\ high - low + 2 * limit < Turn
  BY <1>1 DEF Narrow
<1>4. GuardJoint(cfg, j, predicted, state) # {} <=>
        bottom <= t /\ t <= top /\ Abs(g - held) <= limit
  BY DEF GuardJoint
<1>5. AcceptedOnCircle(cfg, j, predicted, raw) <=>
        \E q \in Reach(j, predicted, bottom, top) :
          Reach(j, raw, Clamp(q, low, high) - limit, Clamp(q, low, high) + limit) # {}
  BY DEF AcceptedOnCircle
<1>6. t \in Int BY <1>2, RepresentativeTyped
<1>7. /\ bottom <= t /\ t <= top => t \in Reach(j, predicted, bottom, top)
      /\ \A q \in Reach(j, predicted, bottom, top) : q = t
  BY <1>2, <1>3, RepresentativeIsReach
<1> HIDE DEF t
<1>8. g \in Int /\ low <= g /\ g <= high BY <1>1, <1>6 DEF Clamp
<1> HIDE DEF g
<1>9. ASSUME bottom <= t, t <= top, Abs(g - held) <= limit
      PROVE  AcceptedOnCircle(cfg, j, predicted, raw)
  <2>1. PICK k \in Int : state = raw + Turn * k /\ (j \notin Wrap => k = 0)
    BY <1>1, CanonicalIsEquivalent
  <2>2. Turn * k \in Int BY <1>0
  <2>3. state \in Int BY <2>1, <2>2
  <2> HIDE DEF state
  <2>4. PICK m \in Int : held = state + Turn * m /\ (j \notin Wrap => m = 0)
    <3>1. low \in Int /\ high \in Int BY <1>1
    <3> HIDE DEF low, high
    <3>2. \E m \in Int : /\ Canonical(j, state, low, high) = state + Turn * m
                         /\ j \notin Wrap => m = 0
      BY <2>3, <3>1, CanonicalIsEquivalent
    <3> QED BY <3>2, Zenon
  <2>5. Turn * m \in Int BY <1>0
  <2> HIDE DEF held
  <2>6. held \in Int BY <2>3, <2>4, <2>5
  <2>7. SameAngle(j, raw, held)
    <3>1. CASE j \in Wrap
      <4>1. Turn * (-(k + m)) = -(Turn * k) - (Turn * m) /\ -(k + m) \in Int
        BY <1>0, SMT
      <4>2. raw = held + Turn * (-(k + m))
        BY <2>1, <2>2, <2>3, <2>4, <2>5, <2>6, <4>1
      <4> QED BY <2>6, <3>1, <4>1, <4>2, SameMeansTurns
    <3>2. CASE j \notin Wrap
      <4>1. Turn * k = 0 /\ Turn * m = 0 BY <1>0, <2>1, <2>4, <3>2
      <4>2. raw = held BY <2>1, <2>2, <2>3, <2>4, <2>5, <2>6, <4>1
      <4> QED BY <3>2, <4>2 DEF SameAngle
    <3> QED BY <3>1, <3>2
  <2>8. g - limit <= held /\ held <= g + limit
    BY <1>1, <1>8, <1>9, <2>6 DEF Abs
  <2>9. held \in Reach(j, raw, g - limit, g + limit)
    BY <1>1, <1>8, <2>6, <2>7, <2>8 DEF Reach
  <2>10. t \in Reach(j, predicted, bottom, top) BY <1>7, <1>9
  <2> QED BY <1>5, <2>9, <2>10 DEF g
<1>10. ASSUME NEW q \in Reach(j, predicted, bottom, top),
              NEW r \in Reach(j, raw, Clamp(q, low, high) - limit,
                                      Clamp(q, low, high) + limit)
       PROVE  bottom <= t /\ t <= top /\ Abs(g - held) <= limit
  <2>1. q = t /\ Clamp(q, low, high) = g BY <1>7, <1>10 DEF g
  <2>2. bottom <= t /\ t <= top BY <1>2, <2>1 DEF Reach
  <2>3. /\ r \in Int /\ g - limit <= r /\ r <= g + limit /\ SameAngle(j, raw, r)
    BY <1>1, <1>8, <2>1 DEF Reach
  <2>4. j \in Wrap => 2 * r - (low + high) < Turn /\ (low + high) - 2 * r < Turn
    BY <1>0, <1>1, <1>3, <1>8, <2>3
  <2>5. state = r BY <1>1, <2>3, <2>4, CanonicalIsCentral
  <2>6. SameAngle(j, r, r)
    <3>1. r - r = 0 /\ 0 % Turn = 0 BY <1>0, <2>3
    <3> QED BY <3>1 DEF SameAngle
  <2>7. Canonical(j, r, low, high) = r BY <1>1, <2>3, <2>4, <2>6, CanonicalIsCentral
  <2>8. held = r BY <2>5, <2>7
  <2> HIDE DEF held
  <2>9. Abs(g - held) <= limit BY <1>1, <1>8, <2>3, <2>8 DEF Abs
  <2> QED BY <2>2, <2>9
<1> QED
  <2> HIDE DEF held
  <2>1. GuardJoint(cfg, j, predicted, state) # {} =>
          AcceptedOnCircle(cfg, j, predicted, raw)
    BY <1>4, <1>9
  <2>2. AcceptedOnCircle(cfg, j, predicted, raw) =>
          GuardJoint(cfg, j, predicted, state) # {}
    BY <1>4, <1>5, <1>10
  <2> QED BY <2>1, <2>2

(* An action is sent to the controller exactly if every joint's prediction is
   within the envelope and within a step of the measured joint on the circle:
   the turn in which the policy or the controller counts never decides. *)
THEOREM DecidedOnTheCircle ==
  ASSUME NEW cfg \in Config, WellFormed(cfg), Narrow(cfg),
         NEW predicted \in [Joints -> Int], NEW raw \in [Joints -> Int],
         NEW gripper \in Int, NEW wasClosed \in BOOLEAN
  PROVE  SendAction(cfg, predicted, raw, gripper, wasClosed) # {}
           <=> \A j \in Joints : AcceptedOnCircle(cfg, j, predicted[j], raw[j])
<1> DEFINE state == [j \in Joints |-> Canonical(j, raw[j], cfg.lower[j], cfg.upper[j])]
           Guarded(j) == GuardJoint(cfg, j, predicted[j], state[j])
           good == {h \in [Joints -> UNION {Guarded(j) : j \in Joints}] :
                      \A j \in Joints : h[j] \in Guarded(j)}
<1>1. \A j \in Joints :
        Guarded(j) # {} <=> AcceptedOnCircle(cfg, j, predicted[j], raw[j])
  <2> SUFFICES ASSUME NEW j \in Joints
               PROVE  Guarded(j) # {} <=> AcceptedOnCircle(cfg, j, predicted[j], raw[j])
    OBVIOUS
  <2>1. Guarded(j) = GuardJoint(cfg, j, predicted[j],
                                Canonical(j, raw[j], cfg.lower[j], cfg.upper[j]))
    OBVIOUS
  <2>2. predicted[j] \in Int /\ raw[j] \in Int OBVIOUS
  <2> HIDE DEF Guarded
  <2> QED BY <2>1, <2>2, JointOnTheCircle
<1>2. SendAction(cfg, predicted, raw, gripper, wasClosed) # {} <=>
        GuardPolicyAction(cfg, predicted, state, gripper, wasClosed) # {}
  BY DEF SendAction
<1>3. GuardPolicyAction(cfg, predicted, state, gripper, wasClosed) # {} <=> good # {}
  <2> HIDE DEF state
  <2> QED BY DEF GuardPolicyAction
<1>4. good # {} <=> \A j \in Joints : Guarded(j) # {}
  <2> HIDE DEF Guarded
  <2>1. ASSUME \A j \in Joints : Guarded(j) # {} PROVE good # {}
    <3> DEFINE h == [j \in Joints |-> CHOOSE x \in Guarded(j) : TRUE]
    <3>1. \A j \in Joints : h[j] \in Guarded(j) BY <2>1
    <3>2. h \in [Joints -> UNION {Guarded(j) : j \in Joints}] BY <3>1
    <3> QED BY <3>1, <3>2
  <2> QED BY <2>1
<1> HIDE DEF good, Guarded
<1> QED BY <1>1, <1>2, <1>3, <1>4

(* The start pose is judged on the circle too, each joint on its own, and the
   gripper by its threshold. *)
THEOREM StartIsJudgedOnTheCircle ==
  ASSUME NEW cfg \in Config, WellFormed(cfg), Narrow(cfg),
         NEW raw \in [Joints -> Int], NEW gripper \in Int, NEW requireOpen \in BOOLEAN
  PROVE  ValidInitialPose(cfg, raw, gripper, requireOpen)
           <=> /\ \A j \in Joints : StartsOnCircle(cfg, j, raw[j])
               /\ ~(requireOpen /\ gripper >= cfg.close)
<1> SUFFICES ASSUME NEW j \in Joints
             PROVE  LET q == Canonical(j, raw[j], cfg.initialLower[j], cfg.initialUpper[j])
                    IN (/\ q >= cfg.initialLower[j] - cfg.initialOvershoot
                        /\ q <= cfg.initialUpper[j] + cfg.initialOvershoot)
                       <=> StartsOnCircle(cfg, j, raw[j])
  BY DEF ValidInitialPose
<1> DEFINE low == cfg.initialLower[j]
           high == cfg.initialUpper[j]
           over == cfg.initialOvershoot
           q == Canonical(j, raw[j], low, high)
<1>0. Turn \in Nat \ {0} BY GuardAssumption
<1>1. low \in Int /\ high \in Int /\ over \in Nat /\ raw[j] \in Int /\ low < high
  BY DEF Config, WellFormed
<1>2. j \in Wrap => high - low + 2 * over < Turn BY <1>1 DEF Narrow
<1>3. PICK k \in Int : q = raw[j] + Turn * k /\ (j \notin Wrap => k = 0)
  BY <1>1, CanonicalIsEquivalent
<1>4. Turn * k \in Int /\ q \in Int BY <1>0, <1>1, <1>3
<1>5. SameAngle(j, raw[j], q)
  <2> HIDE DEF q
  <2>1. CASE j \in Wrap
    <3>1. Turn * (-k) = -(Turn * k) /\ -k \in Int BY <1>0, SMT
    <3>2. raw[j] = q + Turn * (-k) BY <1>1, <1>3, <1>4, <3>1
    <3> QED BY <1>1, <1>4, <2>1, <3>1, <3>2, SameMeansTurns
  <2>2. CASE j \notin Wrap
    <3>1. Turn * k = 0 BY <1>0, <1>3, <2>2
    <3>2. raw[j] = q BY <1>1, <1>3, <1>4, <3>1
    <3> QED BY <2>2, <3>2 DEF SameAngle
  <2> QED BY <2>1, <2>2
<1>6. ASSUME NEW r \in Reach(j, raw[j], low - over, high + over) PROVE q = r
  <2>1. r \in Int /\ low - over <= r /\ r <= high + over /\ SameAngle(j, raw[j], r)
    BY <1>1 DEF Reach
  <2>2. j \in Wrap => 2 * r - (low + high) < Turn /\ (low + high) - 2 * r < Turn
    BY <1>0, <1>1, <1>2, <2>1
  <2> QED BY <1>1, <2>1, <2>2, CanonicalIsCentral
<1> HIDE DEF q
<1>7. (low - over <= q /\ q <= high + over)
        <=> Reach(j, raw[j], low - over, high + over) # {}
  <2>1. ASSUME low - over <= q, q <= high + over
        PROVE  q \in Reach(j, raw[j], low - over, high + over)
    BY <1>1, <1>4, <1>5, <2>1 DEF Reach
  <2>2. ASSUME NEW r \in Reach(j, raw[j], low - over, high + over)
        PROVE  low - over <= q /\ q <= high + over
    BY <1>1, <1>6, <2>2 DEF Reach
  <2> QED BY <2>1, <2>2
<1> QED BY <1>1, <1>4, <1>7 DEF StartsOnCircle, q
-----------------------------------------------------------------------------
(* The guard with all joints but one at rest, as the runs enumerate it. *)

\* A joint that rests in its envelope, and is predicted to, is accepted.
LEMMA RestIsAccepted ==
  ASSUME NEW cfg \in Config, WellFormed(cfg), NEW j \in Joints
  PROVE  AcceptedOnCircle(cfg, j, cfg.lower[j], cfg.lower[j])
<1> DEFINE low == cfg.lower[j]
           high == cfg.upper[j]
           limit == Limit(cfg, j)
<1>1. /\ low \in Int /\ high \in Int /\ low < high /\ cfg.overshoot \in Nat
      /\ limit \in Nat
  BY ConfigTyped DEF WellFormed
<1> HIDE DEF low, high, limit
<1>2. SameAngle(j, low, low)
  <2>1. low - low = 0 /\ 0 % Turn = 0 BY <1>1, GuardAssumption
  <2> QED BY <2>1 DEF SameAngle
<1>3. Clamp(low, low, high) = low BY <1>1 DEF Clamp
<1>4. low \in Reach(j, low, low - cfg.overshoot, high + cfg.overshoot)
  BY <1>1, <1>2 DEF Reach
<1>5. low \in Reach(j, low, low - limit, low + limit) BY <1>1, <1>2 DEF Reach
<1> QED BY <1>3, <1>4, <1>5 DEF AcceptedOnCircle, low, high, limit

(* Whatever one joint is predicted and measured at while the others rest, the
   guard decides on the circle, moves shortly, and judges the start pose. *)
LEMMA OneJointOnTheCircle ==
  ASSUME NEW cfg \in Config, WellFormed(cfg), Narrow(cfg), NEW joint \in Joints,
         NEW predicted \in Int, NEW raw \in Int
  PROVE  LET With(angle) == [cfg.lower EXCEPT ![joint] = angle]
             sent == SendAction(cfg, With(predicted), With(raw), 2, TRUE)
         IN /\ sent # {} <=> AcceptedOnCircle(cfg, joint, predicted, raw)
            /\ \A command \in sent : MoveIsShort(cfg, command, With(raw))
            /\ ValidInitialPose(cfg, With(raw), 0, TRUE)
                 <=> \A j \in Joints : StartsOnCircle(cfg, j, With(raw)[j])
<1> DEFINE With(angle) == [cfg.lower EXCEPT ![joint] = angle]
           sent == SendAction(cfg, With(predicted), With(raw), 2, TRUE)
<1>1. cfg.lower \in [Joints -> Int] BY DEF Config
<1>2. ASSUME NEW angle \in Int
      PROVE  /\ With(angle) \in [Joints -> Int] /\ With(angle)[joint] = angle
             /\ \A j \in Joints \ {joint} : With(angle)[j] = cfg.lower[j]
  BY <1>1
<1> HIDE DEF With
<1>3. /\ With(predicted) \in [Joints -> Int] /\ With(raw) \in [Joints -> Int]
      /\ With(predicted)[joint] = predicted /\ With(raw)[joint] = raw
      /\ \A j \in Joints \ {joint} : /\ With(predicted)[j] = cfg.lower[j]
                                     /\ With(raw)[j] = cfg.lower[j]
  BY <1>2
<1> DEFINE p == With(predicted)
           q == With(raw)
<1>4. p \in [Joints -> Int] /\ q \in [Joints -> Int] /\ 2 \in Int /\ 0 \in Int
      /\ TRUE \in BOOLEAN
  BY <1>3
<1>5. sent # {} <=> AcceptedOnCircle(cfg, joint, predicted, raw)
  <2>1. sent = SendAction(cfg, p, q, 2, TRUE) OBVIOUS
  <2> HIDE DEF sent
  <2>2. ASSUME NEW j \in Joints \ {joint}
        PROVE  AcceptedOnCircle(cfg, j, p[j], q[j])
    BY <1>3, RestIsAccepted
  <2>3. p[joint] = predicted /\ q[joint] = raw BY <1>3
  <2> HIDE DEF p, q
  <2>4. SendAction(cfg, p, q, 2, TRUE) # {}
          <=> \A j \in Joints : AcceptedOnCircle(cfg, j, p[j], q[j])
    BY <1>4, DecidedOnTheCircle
  <2> QED BY <2>1, <2>2, <2>3, <2>4
<1>6. \A command \in sent : MoveIsShort(cfg, command, With(raw))
  <2>1. sent = SendAction(cfg, p, q, 2, TRUE) OBVIOUS
  <2> HIDE DEF sent, p
  <2>2. \A command \in sent : MoveIsShort(cfg, command, q)
    <3> HIDE DEF q
    <3> QED BY <1>4, <2>1, EveryMoveIsShort
  <2> QED BY <2>2
<1>7. ValidInitialPose(cfg, With(raw), 0, TRUE)
        <=> \A j \in Joints : StartsOnCircle(cfg, j, With(raw)[j])
  <2>1. ~(TRUE /\ 0 >= cfg.close) BY DEF Config, WellFormed
  <2>2. ValidInitialPose(cfg, q, 0, TRUE)
          <=> /\ \A j \in Joints : StartsOnCircle(cfg, j, q[j])
              /\ ~(TRUE /\ 0 >= cfg.close)
    <3> HIDE DEF q
    <3> QED BY <1>4, StartIsJudgedOnTheCircle
  <2> QED BY <2>1, <2>2
<1> QED BY <1>5, <1>6, <1>7 DEF With, sent

\* A case of the run is a configuration that the code accepts.
LEMMA CasesAreConfigs ==
  ASSUME NEW cfg \in MCConfigs
  PROVE  cfg \in Config /\ WellFormed(cfg) /\ Narrow(cfg)
<1>1. WellFormed(cfg) /\ Narrow(cfg) BY DEF MCConfigs
<1>2. PICK low \in -5..5, width \in 1..4, e \in 1..2, margin \in 0..2 :
        cfg = [lower |-> [j \in Joints |-> low],
               upper |-> [j \in Joints |-> low + width],
               initialLower |-> [j \in Joints |-> low + 1],
               initialUpper |-> [j \in Joints |-> low + 1 + width],
               error |-> e, joint2Error |-> e + 1,
               initialOvershoot |-> 1, overshoot |-> margin, open |-> 1, close |-> 3]
  BY DEF MCConfigs
<1>3. low \in Int /\ low + width \in Int /\ low + 1 \in Int /\ low + 1 + width \in Int
      /\ e \in Nat \ {0} /\ e + 1 \in Nat \ {0} /\ margin \in Nat
  OBVIOUS
<1>4. cfg \in Config BY <1>2, <1>3 DEF Config
<1> QED BY <1>1, <1>4

\* The cases of the splits are of other kinds.
LEMMA OtherKinds == \A x \in SplitCases : x.kind \in {"windows", "outcomes", "pairs"}
<1>1. ASSUME NEW A, NEW B, NEW x \in [kind : {"windows"}, episodeOf : A, fraction : B]
      PROVE  x.kind = "windows"
  OBVIOUS
<1>2. ASSUME NEW A, NEW B, NEW x \in [kind : {"outcomes"}, outcomeOf : A, valCount : B]
      PROVE  x.kind = "outcomes"
  OBVIOUS
<1>3. ASSUME NEW A, NEW B, NEW C,
             NEW x \in [kind : {"pairs"}, groupOf : A, fraction : B, pairs : C]
      PROVE  x.kind = "pairs"
  OBVIOUS
<1> SUFFICES ASSUME NEW x \in SplitCases
             PROVE  x.kind \in {"windows", "outcomes", "pairs"}
  OBVIOUS
<1> DEFINE Cases(n) == [kind : {"outcomes"}, outcomeOf : [1..n -> {"success", "failure"}],
                        valCount : 1..n - 1]
           A == UNION {[1..n -> 1..3] : n \in 1..4}
           G == [1..4 -> 1..3]
           P == SUBSET {<<1, 2>>, <<2, 3>>, <<3, 4>>}
           U == UNION {Cases(n) : n \in 2..6}
           Windows0 == [kind : {"windows"}, episodeOf : A, fraction : Fractions]
           Pairs0 == [kind : {"pairs"}, groupOf : G, fraction : Fractions, pairs : P]
<1>4. SplitCases = Windows0 \union Pairs0 \union U BY Zenon DEF SplitCases
<1>5. x \in U => x.kind = "outcomes"
  <2>1. \A n \in 2..6 : x \in Cases(n) => x.kind = "outcomes" BY <1>2
  <2> HIDE DEF Cases
  <2> QED BY <2>1
<1>6. x \in Windows0 => x.kind = "windows"
  <2> HIDE DEF A
  <2> QED BY <1>1
<1>7. x \in Pairs0 => x.kind = "pairs"
  <2> HIDE DEF G, P
  <2> QED BY <1>3
<1> HIDE DEF U, Windows0, Pairs0
<1> QED BY <1>4, <1>5, <1>6, <1>7

(* The guard decides on the circle in every case that the run enumerates, for any
   joints, any of which may be continuous, and any turn. *)
THEOREM CasesOnTheCircle == MCSpec => []GuardDecidesOnTheCircle
<1> DEFINE Case == input.kind = "guard" => input \in GuardCases
<1>1. MCInit => Case
  <2>1. \A x \in RowCases \union ChunkCases : x.kind # "guard"
    <3>1. \A x \in RowCases : x.kind = "rows" BY DEF RowCases
    <3>2. \A x \in ChunkCases : x.kind = "chunk" BY DEF ChunkCases
    <3> QED BY <3>1, <3>2
  <2>2. \A x \in SplitCases : x.kind # "guard" BY OtherKinds
  <2>3. NoInput.kind # "guard" BY DEF NoInput
  <2> QED BY <2>1, <2>2, <2>3 DEF MCInit
<1>2. Case /\ [MCNext]_mcVars => Case' BY DEF MCNext, mcVars
<1>3. Case => GuardDecidesOnTheCircle
  <2> SUFFICES ASSUME input \in GuardCases PROVE GuardDecidesOnTheCircle
    BY DEF GuardDecidesOnTheCircle
  <2>1. input.config \in MCConfigs /\ input.joint \in Joints BY DEF GuardCases
  <2>2. input.config \in Config /\ WellFormed(input.config) /\ Narrow(input.config)
    BY <2>1, CasesAreConfigs
  <2>3. \A a \in Angles : a \in Int BY DEF Angles
  <2> QED BY <2>1, <2>2, <2>3, OneJointOnTheCircle DEF GuardDecidesOnTheCircle
<1> HIDE DEF Case
<1> QED BY <1>1, <1>2, <1>3, PTL DEF MCSpec
------------------------------------------------------------------------------
(* The completion detector.                                                *)

USE PosesAssumption, ConfigAssumption

N == Len(history)
Before == IF N = 0 THEN [pose |-> HomePose, at |-> 0]
          ELSE [pose |-> history[N].pose, at |-> history[N].at]

\* the flags, and what the observation before contributes to the speed
Remembers ==
  /\ departed <=> \E i \in 1 .. N : Away(i)
  /\ sawClose <=> \E i, j \in 1 .. N : i <= j /\ Away(i) /\ history[j].closed
  /\ sawRelease <=> Cycle(N)
  /\ previous = Before.pose /\ previousTime = Before.at

Chronological ==
  \A i, j \in 1 .. N : i <= j => history[i].at <= history[j].at

\* since when the observations have been settled without interruption
StableRun ==
  IF stableSince = Never THEN N = 0 \/ ~Settled(N)
  ELSE \E m \in 1 .. N : /\ stableSince = history[m].at
                         /\ \A i \in m .. N : Settled(i)
                         /\ m = 1 \/ ~Settled(m - 1)

\* what Init and Reset establish
Fresh ==
  /\ stable \in StableTimes /\ active \in BOOLEAN
  /\ completed = FALSE /\ departed = FALSE
  /\ sawClose = FALSE /\ sawRelease = FALSE
  /\ origin = HomePose /\ previous = HomePose
  /\ previousTime = 0 /\ stableSince = Never
  /\ history = << >>

Reference ==
  /\ TypeOK
  /\ origin = HomePose
  /\ Chronological
  /\ active => Remembers /\ StableRun
  /\ active => ~ \E n \in 1 .. N : Done(n)
  /\ CompletedExactlyAtCycleEnd
------------------------------------------------------------------------------
(* An observation leaves what is true of the earlier ones as it was.       *)
LEMMA PastIsKept ==
  ASSUME history \in Seq(Observation), NEW o \in Observation,
         history' = Append(history, o)
  PROVE  /\ N \in Nat /\ N' = N + 1
         /\ history' \in Seq(Observation)
         /\ history'[N + 1] = o
         /\ \A i \in 1 .. N : /\ history'[i] = history[i]
                              /\ history[i] \in Observation
<1>1. N \in Nat /\ N' = N + 1 BY DEF N
<1>2. QED BY <1>1 DEF N

(* ... and so are the definitions that judge them.                         *)
LEMMA PastIsJudged ==
  ASSUME history \in Seq(Observation), NEW o \in Observation,
         history' = Append(history, o), stable' = stable
  PROVE  \A n \in 1 .. N :
           /\ Away(n)' <=> Away(n)
           /\ Cycle(n)' <=> Cycle(n)
           /\ Settled(n)' <=> Settled(n)
           /\ Done(n)' <=> Done(n)
<1>1. /\ N \in Nat
      /\ \A i \in 1 .. N : history'[i] = history[i]
  BY PastIsKept
<1>2. \A n \in 1 .. N : /\ Away(n)' <=> Away(n)
                        /\ Home(n)' <=> Home(n)
                        /\ SlowAt(n)' <=> SlowAt(n)
  <2>1. \A n \in 1 .. N : n # 1 => n - 1 \in 1 .. N BY <1>1
  <2>2. QED BY <1>1, <2>1 DEF Away, Home, SlowAt
<1>3. ASSUME NEW n \in 1 .. N PROVE Cycle(n)' <=> Cycle(n)
  <2>1. \A i \in 1 .. n : i \in 1 .. N BY <1>1
  <2>2. \A i \in 1 .. n : /\ history'[i] = history[i]
                          /\ Away(i)' <=> Away(i)
    BY <1>1, <1>2, <2>1
  <2>3. QED BY <2>2 DEF Cycle
<1>4. \A n \in 1 .. N : Settled(n)' <=> Settled(n)
  BY <1>1, <1>2, <1>3 DEF Settled
<1>5. ASSUME NEW n \in 1 .. N PROVE Done(n)' <=> Done(n)
  <2>1. \A m \in 1 .. n : m \in 1 .. N /\ \A i \in m .. n : i \in 1 .. N
    BY <1>1
  <2>2. QED BY <1>1, <1>4, <2>1 DEF Done
<1>6. QED BY <1>2, <1>3, <1>4, <1>5
------------------------------------------------------------------------------
(* What the flags remember after an observation.                           *)
LEMMA FlagsRemember ==
  ASSUME Reference, active, NEW o \in Observation, Update(o), stable' = stable
  PROVE  Remembers'
<1> USE DEF Reference, TypeOK
<1>1. /\ N \in Nat /\ N' = N + 1 /\ history'[N + 1] = o
      /\ \A i \in 1 .. N : history'[i] = history[i]
  BY PastIsKept DEF Update
<1>2. \A i \in 1 .. N : Away(i)' <=> Away(i)
  BY PastIsJudged DEF Update
<1>3. Away(N)' <=> Distance(o.pose, origin) >= Departure
  BY <1>1 DEF Away
<1> DEFINE upTo(n) == \E i \in 1 .. n : Away(i)'
           graspedBy(n) ==
             \E i, j \in 1 .. n : i <= j /\ Away(i)' /\ history'[j].closed
           releasedBy(n) ==
             \E i, j, k \in 1 .. n :
               /\ i <= j /\ j < k /\ Away(i)'
               /\ history'[j].closed /\ ~history'[k].closed
<1>4. \A i : i \in 1 .. N + 1 <=> i \in 1 .. N \/ i = N + 1 BY <1>1
<1>5. /\ departed' <=> departed \/ Distance(o.pose, origin) >= Departure
      /\ sawClose' <=> sawClose \/ (departed' /\ o.closed)
      /\ sawRelease' <=> sawRelease \/ (sawClose' /\ ~o.closed)
  BY DEF Update
<1>6. /\ departed <=> upTo(N)
      /\ sawClose <=> graspedBy(N)
      /\ sawRelease <=> releasedBy(N)
  BY <1>1, <1>2 DEF Remembers, Cycle
<1>7. upTo(N + 1) <=> upTo(N) \/ Distance(o.pose, origin) >= Departure
  BY <1>1, <1>3, <1>4 DEF Away
<1>8. graspedBy(N + 1) <=> graspedBy(N) \/ (upTo(N + 1) /\ o.closed)
  BY <1>1, <1>4
<1>9. releasedBy(N + 1) <=> releasedBy(N) \/ (graspedBy(N + 1) /\ ~o.closed)
  BY <1>1, <1>4
<1>10. /\ departed' <=> upTo(N + 1)
       /\ sawClose' <=> graspedBy(N + 1)
       /\ sawRelease' <=> releasedBy(N + 1)
  BY <1>5, <1>6, <1>7, <1>8, <1>9
<1>11. previous' = Before'.pose /\ previousTime' = Before'.at
  BY <1>1 DEF Update, Before
<1>12. QED BY <1>1, <1>10, <1>11 DEF Remembers, Cycle

(* The detector takes an observation for eligible when it is settled.      *)
LEMMA EligibleIsSettled ==
  ASSUME Reference, active, NEW o \in Observation, Update(o), stable' = stable
  PROVE  Eligible(o) <=> Settled(N)'
<1> USE DEF Reference, TypeOK
<1>1. /\ N \in Nat /\ N' = N + 1 /\ history'[N + 1] = o
      /\ \A i \in 1 .. N : history'[i] = history[i]
  BY PastIsKept DEF Update
<1>2. Remembers' BY FlagsRemember
<1>3. Cycle(N)' <=> departed' /\ sawClose' /\ sawRelease'
  BY <1>1, <1>2 DEF Remembers, Cycle
<1>4. Home(N)' <=> Distance(o.pose, origin) <= Return
  BY <1>1 DEF Home
<1>5. SlowAt(N)' <=> Slow(o)
  <2>1. previous = Before.pose /\ previousTime = Before.at BY DEF Remembers
  <2>2. CASE N = 0 BY <1>1, <2>1, <2>2 DEF SlowAt, Slow, Before
  <2>3. CASE N # 0 BY <1>1, <2>1, <2>3 DEF SlowAt, Slow, Before
  <2>4. QED BY <2>2, <2>3
<1>6. QED BY <1>1, <1>3, <1>4, <1>5 DEF Eligible, Settled

(* The observations stay in order, and the run of settled ones is extended *)
(* or ended.                                                               *)
LEMMA RunContinues ==
  ASSUME Reference, active, NEW o \in Observation, o.at >= previousTime,
         Update(o), stable' = stable
  PROVE  Chronological' /\ StableRun'
<1> USE DEF Reference, TypeOK
<1>1. /\ N \in Nat /\ N' = N + 1 /\ history'[N + 1] = o
      /\ \A i \in 1 .. N : history'[i] = history[i] /\ history[i] \in Observation
      /\ \A i \in 1 .. N : Settled(i)' <=> Settled(i)
  BY PastIsKept, PastIsJudged DEF Update
<1>2. Chronological'
  <2>1. \A i \in 1 .. N : history[i].at <= o.at
    <3>1. N # 0 => previousTime = history[N].at BY DEF Remembers, Before
    <3>2. \A i \in 1 .. N : history[i].at <= history[N].at
      BY <1>1 DEF Chronological
    <3>3. QED BY <1>1, <3>1, <3>2 DEF Observation, Time
  <2>2. ASSUME NEW i \in 1 .. N + 1, NEW j \in 1 .. N + 1, i <= j
        PROVE  history'[i].at <= history'[j].at
    <3>1. CASE j = N + 1
      <4>1. CASE i = N + 1 BY <1>1, <3>1, <4>1 DEF Observation, Time
      <4>2. CASE i \in 1 .. N BY <1>1, <2>1, <3>1, <4>2
      <4>3. QED BY <1>1, <4>1, <4>2
    <3>2. CASE j \in 1 .. N
      <4>1. i \in 1 .. N BY <1>1, <2>2, <3>2
      <4>2. QED BY <1>1, <2>2, <3>2, <4>1 DEF Chronological
    <3>3. QED BY <1>1, <3>1, <3>2
  <2>3. QED BY <1>1, <2>2 DEF Chronological
<1>3. StableRun'
  <2>1. Eligible(o) <=> Settled(N)' BY EligibleIsSettled
  <2>2. CASE ~Eligible(o)
    BY <1>1, <2>1, <2>2 DEF Update, StableSince, StableRun
  <2>3. CASE Eligible(o) /\ stableSince = Never
    <3>1. stableSince' = history'[N + 1].at /\ stableSince' # Never
      BY <1>1, <2>3 DEF Update, StableSince, Observation, Time, Never
    <3>2. N = 0 \/ ~Settled(N) BY <2>3 DEF StableRun
    <3>3. ASSUME NEW m \in Nat, m = N + 1
          PROVE  m = 1 \/ ~Settled(m - 1)'
      <4>1. CASE N = 0 BY <3>3, <4>1
      <4>2. CASE N # 0
        <5>1. m - 1 = N /\ m - 1 \in 1 .. N BY <1>1, <3>3, <4>2
        <5>2. ~Settled(m - 1) BY <3>2, <4>2, <5>1
        <5>3. QED BY <1>1, <5>1, <5>2
      <4>3. QED BY <4>1, <4>2
    <3>4. ASSUME NEW m \in Nat, m = N + 1
          PROVE  \A i \in m .. N + 1 : Settled(i)'
      <4>1. \A i \in m .. N + 1 : i = N' BY <1>1, <3>4
      <4>2. QED BY <2>1, <2>3, <4>1
    <3>5. PICK m \in 1 .. N + 1 : m = N + 1 BY <1>1
    <3>6. QED BY <1>1, <3>1, <3>3, <3>4, <3>5 DEF StableRun
  <2>4. CASE Eligible(o) /\ stableSince # Never
    <3>1. PICK m \in 1 .. N : /\ stableSince = history[m].at
                              /\ \A i \in m .. N : Settled(i)
                              /\ m = 1 \/ ~Settled(m - 1)
      BY <2>4 DEF StableRun
    <3>2. stableSince' = history'[m].at /\ stableSince' # Never
      BY <1>1, <2>4, <3>1 DEF Update, StableSince
    <3>3. \A i \in m .. N + 1 : Settled(i)'
      <4>1. \A i \in m .. N : Settled(i)' BY <1>1, <3>1
      <4>2. \A i \in m .. N + 1 : i \in m .. N \/ i = N' BY <1>1, <3>1
      <4>3. QED BY <2>1, <2>4, <4>1, <4>2
    <3>4. m = 1 \/ ~Settled(m - 1)' BY <1>1, <3>1
    <3>5. QED BY <1>1, <3>2, <3>3, <3>4 DEF StableRun
  <2>5. QED BY <2>2, <2>3, <2>4
<1>4. QED BY <1>2, <1>3

(* The detector finishes with the first observation that completes a cycle *)
(* and a long enough run.                                                  *)
LEMMA FinishedIsDone ==
  ASSUME Reference, active, NEW o \in Observation, o.at >= previousTime,
         Update(o), stable' = stable
  PROVE  Finished(o) <=> Done(N)'
<1> USE DEF Reference, TypeOK
<1>1. /\ N \in Nat /\ N' = N + 1 /\ history'[N + 1] = o
      /\ history' \in Seq(Observation)
      /\ \A i \in 1 .. N + 1 : history'[i].at \in Nat
      /\ stable \in Nat /\ o.at \in Nat
  <2>1. /\ N \in Nat /\ N' = N + 1 /\ history'[N + 1] = o
        /\ history' \in Seq(Observation)
        /\ \A i \in 1 .. N : history'[i] = history[i]
                             /\ history[i] \in Observation
    BY PastIsKept DEF Update
  <2>2. o.at \in Nat /\ \A i \in 1 .. N : history[i].at \in Nat
    BY <2>1 DEF Observation, Time
  <2>3. \A i \in 1 .. N + 1 : i \in 1 .. N \/ i = N + 1 BY <2>1
  <2>4. QED BY <2>1, <2>2, <2>3
<1>2. Chronological' /\ StableRun' BY RunContinues
<1>3. Eligible(o) <=> Settled(N)' BY EligibleIsSettled
<1>4. stableSince' = Never <=> ~Eligible(o)
  BY <1>1 DEF Update, StableSince, Never
<1>5. ASSUME Finished(o) PROVE Done(N)'
  <2>1. Eligible(o) /\ o.at - stableSince' >= stable BY <1>5 DEF Finished
  <2>2. PICK m \in 1 .. N + 1 : /\ stableSince' = history'[m].at
                                /\ \A i \in m .. N + 1 : Settled(i)'
    BY <1>1, <1>2, <1>4, <2>1 DEF StableRun
  <2>3. history'[N + 1].at - history'[m].at >= stable' BY <1>1, <2>1, <2>2
  <2>4. QED BY <1>1, <2>2, <2>3 DEF Done
<1>6. ASSUME Done(N)' PROVE Finished(o)
  <2>1. PICK n \in 1 .. N + 1 : /\ \A i \in n .. N + 1 : Settled(i)'
                                /\ o.at - history'[n].at >= stable
    BY <1>1, <1>6 DEF Done
  <2>2. N + 1 \in n .. N + 1 /\ \A i : i = N + 1 => i = N' BY <1>1, <2>1
  <2>3. Eligible(o) BY <1>3, <2>1, <2>2, <1>1
  <2>4. PICK m \in 1 .. N + 1 : /\ stableSince' = history'[m].at
                                /\ m = 1 \/ ~Settled(m - 1)'
    BY <1>1, <1>2, <1>4, <2>3 DEF StableRun
  <2>5. m <= n
    <3>1. SUFFICES ASSUME n < m PROVE FALSE BY <1>1
    <3>2. m - 1 \in n .. N + 1 /\ m # 1 BY <1>1, <3>1
    <3>3. QED BY <2>1, <2>4, <3>2
  <2>6. history'[m].at <= history'[n].at
    BY <1>1, <1>2, <2>5 DEF Chronological
  <2>7. /\ history'[m].at \in Nat /\ history'[n].at \in Nat
        /\ o.at \in Nat /\ stable \in Nat
    BY <1>1
  <2>8. o.at - history'[m].at >= stable BY <2>1, <2>6, <2>7
  <2>9. QED BY <2>3, <2>4, <2>8 DEF Finished
<1>7. QED BY <1>5, <1>6
------------------------------------------------------------------------------
(* The invariant holds in the initial state and after a reset.             *)
LEMMA NothingObserved == Fresh => TypeOK /\ Reference
<1> SUFFICES ASSUME Fresh PROVE TypeOK /\ Reference OBVIOUS
<1> USE DEF Fresh
<1>0. TypeOK
  <2>1. 0 \in Time /\ HomePose \in Poses /\ stableSince \in {Never}
    BY DEF Time
  <2>2. /\ departed \in BOOLEAN /\ sawClose \in BOOLEAN
        /\ sawRelease \in BOOLEAN
        /\ completed \in BOOLEAN /\ active \in BOOLEAN
    OBVIOUS
  <2>3. history \in Seq(Observation) /\ Len(history) <= MaxUpdates OBVIOUS
  <2>4. QED BY <2>1, <2>2, <2>3 DEF TypeOK
<1>1. N = 0 /\ 1 .. N = {} BY DEF N
<1>2. Remembers BY <1>1 DEF Remembers, Cycle, Before
<1>3. StableRun BY <1>1 DEF StableRun
<1>4. Chronological BY <1>1 DEF Chronological
<1>5. CompletedExactlyAtCycleEnd BY <1>1 DEF CompletedExactlyAtCycleEnd, N
<1>6. QED BY <1>0, <1>1, <1>2, <1>3, <1>4, <1>5 DEF Reference

\* An observation moves the detector and the reference together.
LEMMA ObserveKeepsReference ==
  ASSUME Reference, active, NEW o \in Observation, o.at >= previousTime,
         Update(o), stable' = stable
  PROVE  Reference'
<1> USE DEF Reference
<1>1. /\ N \in Nat /\ N' = N + 1 /\ history'[N + 1] = o
      /\ history' \in Seq(Observation)
      /\ \A n \in 1 .. N : Done(n)' <=> Done(n)
  BY PastIsKept, PastIsJudged DEF Update, TypeOK
<1>2. TypeOK'
  <2>1. o.pose \in Poses /\ o.at \in Time /\ o.closed \in BOOLEAN
    BY DEF Observation
  <2>2. /\ departed' \in BOOLEAN /\ sawClose' \in BOOLEAN
        /\ sawRelease' \in BOOLEAN
        /\ completed' \in BOOLEAN /\ active' \in BOOLEAN
    BY DEF Update
  <2>3. stableSince' \in {Never} \cup 0 .. previousTime'
    BY <2>1 DEF Update, StableSince, TypeOK, Time, Never
  <2>4. active' => ~completed'
    BY DEF Update, TypeOK
  <2>5. Len(history') <= MaxUpdates BY <1>1 DEF Update, TypeOK, N
  <2>6. QED BY <1>1, <2>1, <2>2, <2>3, <2>4, <2>5 DEF Update, TypeOK
<1>3. Remembers' BY FlagsRemember
<1>4. Chronological' /\ StableRun' BY RunContinues
<1>5. completed' <=> Done(N)'
  <2>1. completed' <=> Finished(o) BY DEF Update, TypeOK
  <2>2. Finished(o) <=> Done(N)' BY FinishedIsDone
  <2>3. QED BY <2>1, <2>2
<1>6. active' <=> ~completed' BY DEF Update, TypeOK
<1>7. \A n \in 1 .. N : ~Done(n)' BY <1>1
<1>8. \A n \in 1 .. N + 1 : n \in 1 .. N \/ n = N' BY <1>1
<1>9. CompletedExactlyAtCycleEnd'
  <2>1. /\ N' = Len(history') /\ Len(history') - 1 = N
        /\ N' \in 1 .. N'
    BY <1>1 DEF N
  <2>2. (\E n \in 1 .. N' : Done(n)') <=> Done(N)' BY <1>1, <1>7, <1>8, <2>1
  <2>3. QED BY <1>5, <1>7, <2>1, <2>2 DEF CompletedExactlyAtCycleEnd
<1>10. active' => ~ \E n \in 1 .. N' : Done(n)' BY <1>1, <1>5, <1>6, <1>7, <1>8
<1>11. QED BY <1>2, <1>3, <1>4, <1>9, <1>10 DEF Update

(* Where nothing is observed, nothing is judged differently.               *)
LEMMA NothingNew ==
  ASSUME history' = history, stable' = stable
  PROVE  /\ N' = N
         /\ \A n : Away(n)' <=> Away(n)
         /\ \A n : Cycle(n)' <=> Cycle(n)
         /\ \A n : Settled(n)' <=> Settled(n)
         /\ \A n : Done(n)' <=> Done(n)
<1>1. N' = N BY DEF N
<1>2. \A n : (Away(n)' <=> Away(n)) /\ (Home(n)' <=> Home(n))
  BY DEF Away, Home
<1>3. \A n : SlowAt(n)' <=> SlowAt(n) BY DEF SlowAt
<1>4. \A n : Cycle(n)' <=> Cycle(n) BY <1>2 DEF Cycle
<1>5. \A n : Settled(n)' <=> Settled(n) BY <1>2, <1>3, <1>4 DEF Settled
<1>6. \A n : Done(n)' <=> Done(n) BY <1>5 DEF Done
<1>7. QED BY <1>1, <1>2, <1>4, <1>5, <1>6

(* The detector declares a rollout complete exactly when the reference     *)
(* definition, on everything that was observed, does.                      *)
THEOREM CompletionIsExact == Spec => []CompletedExactlyAtCycleEnd
<1>1. Init => Reference
  <2>1. Init => Fresh BY DEF Init, Fresh
  <2>2. QED BY <2>1, NothingObserved
<1>2. Reference /\ [Next]_vars => Reference'
  <2> SUFFICES ASSUME Reference, [Next]_vars PROVE Reference' OBVIOUS
  <2>1. CASE Reset /\ stable' = stable
    <3>1. Fresh' BY <2>1 DEF Reset, Fresh, Reference, TypeOK
    <3>2. QED BY <3>1, NothingObserved, PTL
  <2>2. CASE Deactivate /\ stable' = stable
    <3> USE <2>2 DEF Deactivate
    <3>1. N' = N /\ \A n : Done(n)' <=> Done(n) BY NothingNew
    <3>2. TypeOK' BY DEF Reference, TypeOK
    <3>3. Chronological' BY <3>1 DEF Reference, Chronological
    <3>4. CompletedExactlyAtCycleEnd'
      BY <3>1 DEF Reference, CompletedExactlyAtCycleEnd
    <3>5. QED BY <3>2, <3>3, <3>4 DEF Reference
  <2>3. CASE Observe /\ stable' = stable
    <3>1. PICK o \in Observation : o.at >= previousTime /\ Update(o)
      BY <2>3 DEF Observe
    <3>2. active BY <3>1 DEF Update
    <3>3. QED BY <2>3, <3>1, <3>2, ObserveKeepsReference
  <2>4. CASE UNCHANGED vars
    <3> USE <2>4 DEF vars, flags, timing
    <3>1. N' = N /\ Before' = Before BY DEF N, Before
    <3>2. /\ \A n : Away(n)' <=> Away(n)
          /\ \A n : Cycle(n)' <=> Cycle(n)
          /\ \A n : Settled(n)' <=> Settled(n)
          /\ \A n : Done(n)' <=> Done(n)
      BY NothingNew
    <3>3. TypeOK' BY DEF Reference, TypeOK
    <3>4. Chronological' BY <3>1 DEF Reference, Chronological
    <3>5. CompletedExactlyAtCycleEnd'
      BY <3>2 DEF Reference, CompletedExactlyAtCycleEnd
    <3>6. Remembers <=> Remembers' BY <3>1, <3>2 DEF Remembers
    <3>7. StableRun <=> StableRun' BY <3>1, <3>2 DEF StableRun
    <3>8. (\E n \in 1 .. N : Done(n)) <=> \E n \in 1 .. N' : Done(n)'
      BY <3>1, <3>2
    <3>9. QED BY <3>3, <3>4, <3>5, <3>6, <3>7, <3>8 DEF Reference
  <2>5. QED BY <2>1, <2>2, <2>3, <2>4 DEF Next
<1>3. Reference => CompletedExactlyAtCycleEnd BY DEF Reference
<1>4. QED BY <1>1, <1>2, <1>3, PTL DEF Spec
==============================================================================
