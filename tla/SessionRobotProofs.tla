------------------------- MODULE SessionRobotProofs -------------------------
(***************************************************************************)
(* What the session makes of the robot: a round starts only on a robot     *)
(* that is ready for it, and nothing survives a trap that ran to its end.  *)
(* The first part is about the commands of the robot stack, which are      *)
(* folds over their lines; the second follows the robot, the processes and *)
(* the captures through the lines of the script.                           *)
(***************************************************************************)
EXTENDS CollectionSessionProofs

-----------------------------------------------------------------------------
(* The outcomes of a command, line by line. *)

Start(r) == [robot |-> r, ok |-> TRUE, bad |-> 0]
Through(line, outs, c) == UNION {After(line, o, c) : o \in outs}

(* The fold behind CommandOutcomes is a function on sets of line numbers.
   Fold(h, k) says that h satisfies its equation on the sets of the first k. *)
Fold(h, k, command, r, c) ==
  /\ DOMAIN h = SUBSET (1..k)
  /\ \A s \in SUBSET (1..k) :
       h[s] = IF s = {} THEN {Start(r)}
              ELSE Through(command[Max(s)], h[s \ {Max(s)}], c)

\* The greatest of a set of line numbers that has the last one is the last one.
LEMMA LastIsGreatest ==
  ASSUME NEW k \in Nat, NEW s \in SUBSET (1..k), k \in s
  PROVE  Max(s) = k
<1>1. s \subseteq Int /\ \A j \in s : k >= j OBVIOUS
<1>2. \A m \in s : (\A j \in s : m >= j) => m = k BY <1>1
<1> DEFINE m == CHOOSE m \in s : \A j \in s : m >= j
<1>3. m \in s /\ \A j \in s : m >= j BY <1>1
<1>4. m = k
  <2> HIDE DEF m
  <2> QED BY <1>2, <1>3
<1> QED BY <1>4 DEF Max

\* One more line extends the function.
LEMMA FoldExtends ==
  ASSUME NEW command, NEW r, NEW c, NEW k \in Nat, NEW h, Fold(h, k, command, r, c)
  PROVE  \E g : Fold(g, k + 1, command, r, c)
<1> DEFINE n == k + 1
           g == [s \in SUBSET (1..n) |->
                   IF n \in s THEN Through(command[n], h[s \ {n}], c) ELSE h[s]]
<1>1. \A s \in SUBSET (1..n) : n \notin s => s \in SUBSET (1..k) OBVIOUS
<1>2. \A s \in SUBSET (1..n) : s \ {n} \in SUBSET (1..k) OBVIOUS
<1>3. ASSUME NEW s \in SUBSET (1..n)
      PROVE  g[s] = IF s = {} THEN {Start(r)}
                    ELSE Through(command[Max(s)], g[s \ {Max(s)}], c)
  <2>1. CASE n \in s
    <3>1. Max(s) = n BY <2>1, LastIsGreatest
    <3>2. s \ {n} \in SUBSET (1..n) /\ n \notin s \ {n} OBVIOUS
    <3>3. g[s \ {n}] = h[s \ {n}] BY <3>2
    <3> HIDE DEF g
    <3>4. g[s] = Through(command[n], h[s \ {n}], c) BY <2>1 DEF g
    <3> QED BY <2>1, <3>1, <3>3, <3>4
  <2>2. CASE n \notin s
    <3>1. s \in SUBSET (1..k) BY <1>1, <2>2
    <3>2. g[s] = h[s] BY <2>2
    <3>3. CASE s = {}
      <4> HIDE DEF g
      <4> QED BY <3>1, <3>2, <3>3 DEF Fold
    <3>4. CASE s # {}
      <4>1. s \ {Max(s)} \in SUBSET (1..n) /\ n \notin s \ {Max(s)} BY <2>2
      <4>2. g[s \ {Max(s)}] = h[s \ {Max(s)}] BY <4>1
      <4> HIDE DEF g
      <4> QED BY <3>1, <3>2, <3>4, <4>2 DEF Fold
    <3> QED BY <3>3, <3>4
  <2> QED BY <2>1, <2>2
<1>4. DOMAIN g = SUBSET (1..n) OBVIOUS
<1> HIDE DEF g
<1> QED BY <1>3, <1>4 DEF Fold

\* The function exists for every number of lines: there is no least number
\* without one.
LEMMA FoldExists ==
  ASSUME NEW command, NEW r, NEW c, NEW n \in Nat
  PROVE  \E h : Fold(h, n, command, r, c)
<1> DEFINE None0 == {k \in Nat : ~ \E h : Fold(h, k, command, r, c)}
           Below == OpToRel(<, Nat)
<1> SUFFICES ASSUME None0 # {} PROVE FALSE
  OBVIOUS
<1>1. PICK k \in None0 : \A y \in None0 : <<y, k>> \notin Below
  <2>1. None0 \subseteq Nat OBVIOUS
  <2> HIDE DEF None0
  <2> QED BY <2>1, NatLessThanWellFounded, WFMin
<1>2. k # 0
  <2>1. 1..0 = {} OBVIOUS
  <2>2. \E h : Fold(h, 0, command, r, c)
    <3> DEFINE h == [s \in {{}} |-> {Start(r)}]
    <3>1. SUBSET (1..0) = {{}} BY <2>1
    <3>2. DOMAIN h = {{}} /\ h[{}] = {Start(r)} OBVIOUS
    <3> HIDE DEF h
    <3>3. \A s \in SUBSET (1..0) : s = {} BY <3>1
    <3>4. DOMAIN h = SUBSET (1..0) BY <3>1, <3>2
    <3>5. Fold(h, 0, command, r, c) BY <3>2, <3>3, <3>4 DEF Fold
    <3> QED BY <3>5
  <2> QED BY <2>2
<1>3. k - 1 \in Nat /\ (k - 1) + 1 = k BY <1>2
<1>4. k - 1 \notin None0
  <2>1. <<k - 1, k>> \in Below BY <1>3 DEF OpToRel
  <2> QED BY <2>1, <1>1
<1>5. PICK h : Fold(h, k - 1, command, r, c) BY <1>3, <1>4
<1>6. \E g : Fold(g, k, command, r, c) BY <1>3, <1>5, FoldExtends
<1> QED BY <1>6

\* outs[k] are the outcomes of the first k lines of a command.
Runs(outs, command, n, r, c) ==
  /\ outs[0] = {Start(r)}
  /\ \A k \in 1..n : outs[k] = Through(command[k], outs[k - 1], c)
  /\ CommandOutcomes(command, r, c) = outs[n]

\* A command comes to the outcomes of its last line.
LEMMA LineByLine ==
  ASSUME NEW command, NEW r, NEW c, NEW n \in Nat, DOMAIN command = 1..n
  PROVE  \E outs : Runs(outs, command, n, r, c)
<1> DEFINE base == {Start(r)}
           G(g) == [s \in SUBSET DOMAIN command |->
                      IF s = {} THEN base
                      ELSE UNION {After(command[Max(s)], o, c) : o \in g[s \ {Max(s)}]}]
           iter == CHOOSE g : g = G(g)
<1>1. CommandOutcomes(command, r, c) = iter[DOMAIN command]
  BY DEF CommandOutcomes, FoldLeft, MapThenFoldSet, Start
<1>2. \E g : g = G(g)
  <2>1. PICK h : Fold(h, n, command, r, c) BY FoldExists
  <2> DEFINE g == [s \in SUBSET (1..n) |-> h[s]]
  <2>2. \A s \in SUBSET (1..n) : s \ {Max(s)} \in SUBSET (1..n) OBVIOUS
  <2>3. \A s \in SUBSET (1..n) :
          g[s] = IF s = {} THEN base
                 ELSE UNION {After(command[Max(s)], o, c) : o \in g[s \ {Max(s)}]}
    BY <2>1, <2>2 DEF Fold, Through
  <2>4. g = G(g)
    <3> HIDE DEF base
    <3> QED BY <2>3
  <2> QED BY <2>4
<1>3. iter = G(iter)
  <2> HIDE DEF G
  <2> QED BY <1>2
<1>4. \A s \in SUBSET (1..n) :
        iter[s] = IF s = {} THEN base
                  ELSE UNION {After(command[Max(s)], o, c) : o \in iter[s \ {Max(s)}]}
  <2> HIDE DEF iter, base
  <2> QED BY <1>3
<1> DEFINE outs == [k \in 0..n |-> iter[1..k]]
<1>5. outs[0] = base
  <2>1. outs[0] = iter[1..0] OBVIOUS
  <2> HIDE DEF iter, base, outs
  <2>2. 1..0 = {} OBVIOUS
  <2>3. {} \in SUBSET (1..n) OBVIOUS
  <2>4. iter[{}] = base BY <1>4, <2>3
  <2> QED BY <2>1, <2>2, <2>4
<1>6. ASSUME NEW k \in 1..n
      PROVE  outs[k] = Through(command[k], outs[k - 1], c)
  <2>1. 1..k \in SUBSET (1..n) /\ 1..k # {} /\ k \in 1..k
    <3>1. k \in 1..k /\ \A j \in 1..k : j \in 1..n OBVIOUS
    <3> QED BY <3>1
  <2>2. Max(1..k) = k BY <2>1, LastIsGreatest
  <2>3. (1..k) \ {k} = 1..(k - 1) OBVIOUS
  <2>4. outs[k] = iter[1..k] /\ outs[k - 1] = iter[1..(k - 1)] OBVIOUS
  <2> HIDE DEF iter, base, outs
  <2> DEFINE s == 1..k
  <2>5. s \in SUBSET (1..n) /\ s # {} /\ Max(s) = k /\ s \ {Max(s)} = 1..(k - 1)
    BY <2>1, <2>2, <2>3
  <2> HIDE DEF s
  <2>6. iter[s] = UNION {After(command[Max(s)], o, c) : o \in iter[s \ {Max(s)}]}
    BY <1>4, <2>5
  <2>7. iter[1..k] = UNION {After(command[k], o, c) : o \in iter[1..(k - 1)]}
    BY <2>5, <2>6 DEF s
  <2> QED BY <2>4, <2>7 DEF Through
<1>7. CommandOutcomes(command, r, c) = outs[n]
  <2>1. outs[n] = iter[1..n] OBVIOUS
  <2> HIDE DEF iter, outs
  <2> QED BY <1>1, <2>1
<1> HIDE DEF outs, iter
<1> QED BY <1>5, <1>6, <1>7 DEF Runs

-----------------------------------------------------------------------------
(* What one line does. *)

Parts == Switches \union {"nodes"}
Result == [robot : Robot, ok : BOOLEAN, bad : Nat]
Lines == [line : {"call"}, switch : Switches, on : BOOLEAN]
           \union [line : {"try"}, switch : Switches, on : {FALSE}]
           \union [line : {"wait"}, on : SUBSET Switches, off : SUBSET Switches]

\* Turning parts off leaves the others as they were.
LEMMA OffOnly ==
  ASSUME NEW r \in Robot, NEW down
  PROVE  /\ TurnOff(r, down) \in Robot
         /\ \A s \in Parts : TurnOff(r, down)[s] <=> r[s] /\ s \notin down
<1>1. DOMAIN r = Parts /\ \A s \in Parts : r[s] \in BOOLEAN BY DEF Robot, Parts
<1>2. TurnOff(r, down) = [s \in Parts |-> r[s] /\ s \notin down] BY <1>1 DEF TurnOff
<1>3. \A s \in Parts : (r[s] /\ s \notin down) \in BOOLEAN OBVIOUS
<1> QED BY <1>2, <1>3 DEF Robot, Parts

\* The policy is enabled only on an arm that may move.
GateNeedsMotion(r) == r["policy"] => r["motion"]

\* STOP, and the loss of motion, only turn parts off.
LEMMA StopOnly ==
  ASSUME NEW r \in Robot
  PROVE  /\ Stop(r) \in Robot
         /\ \A s \in Parts : Stop(r)[s] <=> r[s] /\ s \notin {"policy", "gripper"}
         /\ MotionLost(r) \in Robot
         /\ \A s \in Parts : MotionLost(r)[s] => r[s] /\ s # "motion"
         /\ MotionLost(r)["nodes"] <=> r["nodes"]
         /\ MotionLost(r)["power"] <=> r["power"]
         /\ ~MotionLost(r)["policy"]
         /\ ~r["policy"] => (MotionLost(r)["gripper"] <=> r["gripper"])
<1>0. "nodes" \in Parts /\ "power" \in Parts /\ "policy" \in Parts /\ "gripper" \in Parts
  BY DEF Parts, Switches
<1>1. /\ Stop(r) \in Robot
      /\ \A s \in Parts : Stop(r)[s] <=> r[s] /\ s \notin {"policy", "gripper"}
  BY OffOnly DEF Stop
<1>2. CASE r["policy"]
  <2>1. MotionLost(r) = TurnOff(Stop(r), {"motion"}) BY <1>2 DEF MotionLost
  <2>2. /\ MotionLost(r) \in Robot
        /\ \A s \in Parts : MotionLost(r)[s] <=> Stop(r)[s] /\ s \notin {"motion"}
    BY <1>1, <2>1, OffOnly
  <2> QED BY <1>0, <1>1, <1>2, <2>2
<1>3. CASE ~r["policy"]
  <2>1. MotionLost(r) = TurnOff(r, {"motion"}) BY <1>3 DEF MotionLost
  <2>2. /\ MotionLost(r) \in Robot
        /\ \A s \in Parts : MotionLost(r)[s] <=> r[s] /\ s \notin {"motion"}
    BY <2>1, OffOnly
  <2> QED BY <1>0, <1>1, <1>3, <2>2
<1> QED BY <1>1, <1>2, <1>3

\* A switch that is turned on changes nothing else; one that is turned off may
\* take others with it, but turns nothing on.
LEMMA SwitchOnly ==
  ASSUME NEW r \in Robot, NEW switch \in Switches, NEW on \in BOOLEAN
  PROVE  /\ Switched(r, switch, on) \in Robot
         /\ Switched(r, switch, on)["nodes"] <=> r["nodes"]
         /\ on => \A s \in Parts : Switched(r, switch, on)[s] <=> r[s] \/ s = switch
         /\ ~on => /\ \A s \in Parts : Switched(r, switch, on)[s] => r[s]
                   /\ ~Switched(r, switch, on)[switch]
                   /\ GateNeedsMotion(r) => GateNeedsMotion(Switched(r, switch, on))
<1>0. "nodes" \in Parts /\ Switches \subseteq Parts /\ "nodes" \notin Switches
  BY DEF Parts, Switches
<1>1. CASE on
  <2>1. Switched(r, switch, on) = [r EXCEPT ![switch] = TRUE] BY <1>1 DEF Switched
  <2>2. r \in [Parts -> BOOLEAN] /\ DOMAIN r = Parts BY DEF Robot, Parts
  <2>3. [r EXCEPT ![switch] = TRUE] \in [Parts -> BOOLEAN] BY <2>2
  <2>4. \A s \in Parts : [r EXCEPT ![switch] = TRUE][s]
                           = IF s = switch THEN TRUE ELSE r[s]
    BY <2>2, <1>0
  <2> DEFINE x == [r EXCEPT ![switch] = TRUE]
  <2>5. x \in Robot BY <2>3 DEF Robot, Parts
  <2>6. \A s \in Parts : x[s] <=> r[s] \/ s = switch
    <3> TAKE s \in Parts
    <3> HIDE DEF x
    <3>1. x[s] = IF s = switch THEN TRUE ELSE r[s] BY <2>4 DEF x
    <3> QED BY <3>1
  <2> HIDE DEF x
  <2>7. Switched(r, switch, on) = x BY <2>1 DEF x
  <2>8. "nodes" # switch BY <1>0
  <2> QED BY <1>0, <1>1, <2>5, <2>6, <2>7, <2>8
<1>2. CASE ~on
  <2> USE DEF GateNeedsMotion
  <2>0. "policy" \in Parts /\ "motion" \in Parts BY DEF Parts, Switches
  <2>1. CASE switch = "policy"
    <3>1. Switched(r, switch, on) = Stop(r) BY <1>2, <2>1 DEF Switched
    <3> QED BY <1>0, <2>0, <1>2, <2>1, <3>1, StopOnly
  <2>2. CASE switch = "motion"
    <3>1. Switched(r, switch, on) = MotionLost(r) BY <1>2, <2>2 DEF Switched
    <3> QED BY <1>0, <2>0, <1>2, <2>2, <3>1, StopOnly
  <2>3. CASE switch = "enable"
    <3>1. Switched(r, switch, on) = TurnOff(MotionLost(r), {"enable"})
      BY <1>2, <2>3 DEF Switched
    <3>2. MotionLost(r) \in Robot BY StopOnly
    <3>3. /\ Switched(r, switch, on) \in Robot
          /\ \A s \in Parts : Switched(r, switch, on)[s]
                                <=> MotionLost(r)[s] /\ s \notin {"enable"}
      BY <3>1, <3>2, OffOnly
    <3> QED BY <1>0, <2>0, <1>2, <2>3, <3>3, StopOnly
  <2>4. CASE switch = "power"
    <3>1. Switched(r, switch, on) = TurnOff(MotionLost(r), {"enable", "power"})
      BY <1>2, <2>4 DEF Switched
    <3>2. MotionLost(r) \in Robot BY StopOnly
    <3>3. /\ Switched(r, switch, on) \in Robot
          /\ \A s \in Parts : Switched(r, switch, on)[s]
                                <=> MotionLost(r)[s] /\ s \notin {"enable", "power"}
      BY <3>1, <3>2, OffOnly
    <3> QED BY <1>0, <2>0, <1>2, <2>4, <3>3, StopOnly
  <2>5. CASE switch = "gripper"
    <3>1. Switched(r, switch, on) = TurnOff(r, {"gripper"}) BY <1>2, <2>5 DEF Switched
    <3>2. /\ Switched(r, switch, on) \in Robot
          /\ \A s \in Parts : Switched(r, switch, on)[s] <=> r[s] /\ s \notin {"gripper"}
      BY <3>1, OffOnly
    <3> QED BY <1>0, <2>0, <1>2, <2>5, <3>2
  <2> QED BY <2>1, <2>2, <2>3, <2>4, <2>5 DEF Switches
<1> QED BY <1>1, <1>2

\* The robot obeys a line, or stays as it was.
Obeyed(line, o, c, x) ==
  /\ line.line \in {"call", "try"} /\ o.ok /\ Offered(o.robot, line.switch, c)
  /\ line.line = "call" => Accepts(o.robot, line.switch, line.on)
  /\ x.robot = Switched(o.robot, line.switch, line.on)

\* A robot that obeys a line switches what the line says, and no nodes.
LEMMA ObeyedOnly ==
  ASSUME NEW line \in Lines, NEW o \in Result, NEW c, NEW x, Obeyed(line, o, c, x)
  PROVE  /\ line.switch \in Switches /\ line.on \in BOOLEAN
         /\ x.robot["nodes"] <=> o.robot["nodes"]
         /\ line.on => \A s \in Parts : x.robot[s] <=> o.robot[s] \/ s = line.switch
         /\ ~line.on => \A s \in Parts : x.robot[s] => o.robot[s]
         /\ ~line.on => ~x.robot[line.switch]
         /\ GateNeedsMotion(o.robot) => GateNeedsMotion(x.robot)
<1>1. line.switch \in Switches /\ line.on \in BOOLEAN /\ o.robot \in Robot
  BY DEF Obeyed, Lines, Result
<1> DEFINE r == o.robot
           y == Switched(r, line.switch, line.on)
           switch == line.switch
           on == line.on
<1>2. x.robot = y BY DEF Obeyed
<1>3. /\ y["nodes"] <=> r["nodes"]
      /\ on => \A s \in Parts : y[s] <=> r[s] \/ s = switch
      /\ ~on => /\ \A s \in Parts : y[s] => r[s]
                /\ ~y[switch]
                /\ GateNeedsMotion(r) => GateNeedsMotion(y)
  <2> HIDE DEF r, switch, on
  <2> QED BY <1>1, SwitchOnly DEF y, r, switch, on
<1>4. on /\ GateNeedsMotion(r) => GateNeedsMotion(y)
  <2> SUFFICES ASSUME on, GateNeedsMotion(r) PROVE y["policy"] => y["motion"]
    BY DEF GateNeedsMotion
  <2>1. "policy" \in Parts /\ "motion" \in Parts BY DEF Parts, Switches
  <2>2. switch = "policy" => r["motion"]
    <3> SUFFICES ASSUME switch = "policy" PROVE r["motion"]
      OBVIOUS
    <3>1. line.line = "call"
      <4>1. line.line = "try" => ~line.on BY DEF Lines
      <4> QED BY <4>1 DEF Obeyed
    <3>2. Accepts(r, switch, on) BY <3>1 DEF Obeyed
    <3>3. "motion" \in Needs(switch) BY DEF Needs
    <3> QED BY <3>2, <3>3 DEF Accepts
  <2> HIDE DEF y, r, switch, on
  <2> QED BY <1>3, <2>1, <2>2 DEF GateNeedsMotion
<1> HIDE DEF y
<1> QED BY <1>1, <1>2, <1>3, <1>4

\* What a line makes of an outcome: the robot, the calls that failed, and
\* whether the command goes on.
LEMMA AfterLine ==
  ASSUME NEW line \in Lines, NEW o \in Result, NEW c, NEW x \in After(line, o, c)
  PROVE  /\ x \in Result
         /\ x.robot = o.robot \/ Obeyed(line, o, c, x)
         /\ x.bad \in {o.bad, o.bad + 1}
         /\ x.ok => o.ok
         /\ line.line = "try" => x.ok = o.ok
         /\ line.line = "try" /\ o.ok /\ Offered(o.robot, line.switch, c)
              => Obeyed(line, o, c, x) \/ x.bad = o.bad + 1
         /\ line.line = "wait" /\ x.ok => /\ \A s \in line.on : x.robot[s]
                                          /\ \A s \in line.off : ~x.robot[s]
<1> DEFINE r == o.robot
           s == Switched(r, line.switch, line.on)
<1>0. o = [robot |-> r, ok |-> o.ok, bad |-> o.bad] /\ r \in Robot /\ o.bad \in Nat
      /\ o.ok \in BOOLEAN
  BY DEF Result
<1>1. CASE ~o.ok
  <2>1. x = o BY <1>1 DEF After
  <2> QED BY <1>0, <1>1, <2>1
<1>2. CASE o.ok /\ line.line = "wait"
  <2> DEFINE good == /\ \A p \in line.on : r[p]
                     /\ \A p \in line.off : ~r[p]
  <2>1. x = [o EXCEPT !.ok = good] BY <1>2 DEF After
  <2>2. good \in BOOLEAN OBVIOUS
  <2> HIDE DEF good
  <2>3. x = [robot |-> r, ok |-> good, bad |-> o.bad] BY <1>0, <2>1
  <2>4. x \in Result BY <1>0, <2>2, <2>3 DEF Result
  <2>5. x.ok => good BY <2>3
  <2> QED BY <1>0, <1>2, <2>3, <2>4, <2>5 DEF good
<1>3. CASE o.ok /\ line.line \in {"call", "try"}
  <2>1. line.switch \in Switches /\ line.on \in BOOLEAN BY <1>3 DEF Lines
  <2>2. s \in Robot BY <1>0, <2>1, SwitchOnly
  <2>3. \/ x = [o EXCEPT !.robot = s] /\ Obeyed(line, o, c, [o EXCEPT !.robot = s])
        \/ /\ line.line = "call"
           /\ \/ x = [robot |-> r, ok |-> FALSE, bad |-> o.bad + 1]
              \/ x = [robot |-> s, ok |-> FALSE, bad |-> o.bad + 1]
                 /\ Obeyed(line, o, c, x)
              \/ x = [o EXCEPT !.ok = FALSE]
        \/ line.line = "try" /\ x = [o EXCEPT !.bad = @ + 1]
        \/ /\ line.line = "try" /\ ~Offered(r, line.switch, c)
           /\ x = o
    <3>1. CASE line.line = "call" /\ Offered(r, line.switch, c)
                                  /\ Accepts(r, line.switch, line.on)
      <4>1. After(line, o, c) = {[o EXCEPT !.robot = s],
                                 [o EXCEPT !.robot = s, !.ok = FALSE, !.bad = @ + 1],
                                 [o EXCEPT !.ok = FALSE, !.bad = @ + 1]}
        BY <1>3, <3>1 DEF After
      <4> QED BY <1>3, <3>1, <4>1, <1>0 DEF Obeyed
    <3>2. CASE line.line = "call" /\ ~(Offered(r, line.switch, c)
                                       /\ Accepts(r, line.switch, line.on))
      <4>1. After(line, o, c) = {[o EXCEPT !.ok = FALSE]} BY <1>3, <3>2 DEF After
      <4> QED BY <3>2, <4>1
    <3>3. CASE line.line = "try" /\ Offered(r, line.switch, c)
      <4>1. After(line, o, c) = {[o EXCEPT !.robot = s], [o EXCEPT !.bad = @ + 1]}
        BY <1>3, <3>3 DEF After
      <4> QED BY <1>3, <3>3, <4>1, <1>0 DEF Obeyed
    <3>4. CASE line.line = "try" /\ ~Offered(r, line.switch, c)
      <4>1. After(line, o, c) = {o} BY <1>3, <3>4 DEF After
      <4> QED BY <3>4, <4>1
    <3> QED BY <1>3, <3>1, <3>2, <3>3, <3>4
  <2> HIDE DEF s
  <2>4. CASE x = [o EXCEPT !.robot = s] /\ Obeyed(line, o, c, [o EXCEPT !.robot = s])
    <3>1. x = [robot |-> s, ok |-> TRUE, bad |-> o.bad] BY <1>0, <1>3, <2>4
    <3>2. x \in Result BY <1>0, <2>2, <3>1 DEF Result
    <3>3. Obeyed(line, o, c, x) BY <2>4
    <3>4. x.ok = o.ok /\ x.bad = o.bad BY <1>3, <3>1
    <3> QED BY <1>3, <3>2, <3>3, <3>4
  <2>5. CASE line.line = "call" /\ x = [robot |-> r, ok |-> FALSE, bad |-> o.bad + 1]
    BY <1>0, <1>3, <2>5 DEF Result
  <2>6. CASE /\ line.line = "call" /\ x = [robot |-> s, ok |-> FALSE, bad |-> o.bad + 1]
             /\ Obeyed(line, o, c, x)
    BY <1>0, <1>3, <2>2, <2>6 DEF Result
  <2>7. CASE line.line = "call" /\ x = [o EXCEPT !.ok = FALSE]
    <3>1. x = [robot |-> r, ok |-> FALSE, bad |-> o.bad] BY <1>0, <2>7
    <3>2. x \in Result BY <1>0, <3>1 DEF Result
    <3>3. x.robot = r /\ ~x.ok /\ x.bad = o.bad BY <3>1
    <3> QED BY <1>3, <2>7, <3>2, <3>3
  <2>8. CASE line.line = "try" /\ x = [o EXCEPT !.bad = @ + 1]
    <3>1. x = [robot |-> r, ok |-> o.ok, bad |-> o.bad + 1] BY <1>0, <2>8
    <3>2. x \in Result BY <1>0, <3>1 DEF Result
    <3>3. x.robot = r /\ x.ok = o.ok /\ x.bad = o.bad + 1 BY <3>1
    <3> QED BY <1>3, <2>8, <3>2, <3>3
  <2>9. CASE line.line = "try" /\ ~Offered(r, line.switch, c) /\ x = o
    BY <1>0, <1>3, <2>9
  <2> QED BY <2>3, <2>4, <2>5, <2>6, <2>7, <2>8, <2>9
<1> QED
  <2>1. line.line \in {"call", "try", "wait"} BY DEF Lines
  <2> QED BY <1>0, <1>1, <1>2, <1>3, <2>1

-----------------------------------------------------------------------------
(* What the commands do. *)

Program(command, n) ==
  n \in Nat /\ DOMAIN command = 1..n /\ \A k \in 1..n : command[k] \in Lines

\* What no line leaves, no command leaves: there is no first line that does.
LEMMA CommandStaysIn ==
  ASSUME NEW command, NEW n, Program(command, n), NEW r, NEW c, NEW P, Start(r) \in P,
         \A k \in 1..n : \A o \in P : After(command[k], o, c) \subseteq P
  PROVE  CommandOutcomes(command, r, c) \subseteq P
<1>0. n \in Nat /\ DOMAIN command = 1..n BY DEF Program
<1>10. PICK outs : Runs(outs, command, n, r, c) BY <1>0, LineByLine
<1>1. /\ outs[0] = {Start(r)}
      /\ \A k \in 1..n : outs[k] = Through(command[k], outs[k - 1], c)
      /\ CommandOutcomes(command, r, c) = outs[n]
  BY <1>10 DEF Runs
<1> DEFINE Out == {k \in 0..n : ~(outs[k] \subseteq P)}
           Below == OpToRel(<, Nat)
<1> SUFFICES ASSUME Out # {} PROVE FALSE
  <2>1. Out = {} /\ n \in 0..n BY <1>0
  <2> QED BY <1>1, <2>1
<1>2. PICK k \in Out : \A y \in Out : <<y, k>> \notin Below
  <2>1. Out \subseteq Nat OBVIOUS
  <2> HIDE DEF Out
  <2> QED BY <2>1, NatLessThanWellFounded, WFMin
<1>3. k # 0 BY <1>1
<1>4. k \in 1..n /\ k - 1 \in 0..n BY <1>0, <1>3
<1>5. k - 1 \notin Out
  <2>1. <<k - 1, k>> \in Below BY <1>4 DEF OpToRel
  <2> QED BY <2>1, <1>2
<1>6. outs[k - 1] \subseteq P BY <1>4, <1>5
<1>7. outs[k] \subseteq P BY <1>1, <1>4, <1>6 DEF Through
<1> QED BY <1>7

\* The nodes run on, and nothing is powered without them.
LEMMA AnyCommand ==
  ASSUME NEW command, NEW n, Program(command, n), NEW r \in Robot, NEW c,
         NEW o \in CommandOutcomes(command, r, c)
  PROVE  /\ o \in Result
         /\ o.robot["nodes"] <=> r["nodes"]
         /\ o.robot["power"] => r["power"] \/ r["nodes"]
         /\ GateNeedsMotion(r) => GateNeedsMotion(o.robot)
<1> DEFINE P == {x \in Result :
                   /\ x.robot["nodes"] <=> r["nodes"]
                   /\ x.robot["power"] => r["power"] \/ r["nodes"]
                   /\ GateNeedsMotion(r) => GateNeedsMotion(x.robot)}
<1>1. Start(r) \in P BY DEF Start, Result
<1>2. ASSUME NEW k \in 1..n, NEW a \in P, NEW x \in After(command[k], a, c)
      PROVE  x \in P
  <2> DEFINE line == command[k]
  <2>0. line \in Lines BY DEF Program
  <2>1. x \in Result /\ (x.robot = a.robot \/ Obeyed(line, a, c, x)) BY <2>0, AfterLine
  <2>2. CASE x.robot = a.robot BY <2>1, <2>2
  <2>3. CASE Obeyed(line, a, c, x)
    <3> HIDE DEF line
    <3>1. Offered(a.robot, line.switch, c) /\ a \in Result BY <2>3 DEF Obeyed
    <3>3. x.robot["nodes"] <=> a.robot["nodes"] BY <2>0, <2>3, <3>1, ObeyedOnly
    <3>4. x.robot["power"] => a.robot["power"] \/ (line.on /\ line.switch = "power")
      <4>1. "power" \in Parts BY DEF Parts, Switches
      <4>2. /\ line.on => \A s \in Parts : x.robot[s] <=> a.robot[s] \/ s = line.switch
            /\ ~line.on => \A s \in Parts : x.robot[s] => a.robot[s]
        BY <2>0, <2>3, <3>1, ObeyedOnly
      <4> QED BY <3>1, <4>1, <4>2
    <3>5. line.switch = "power" => a.robot["nodes"] BY <3>1 DEF Offered
    <3>6. GateNeedsMotion(a.robot) => GateNeedsMotion(x.robot)
      BY <2>0, <2>3, <3>1, ObeyedOnly
    <3> QED BY <2>1, <3>3, <3>4, <3>5, <3>6
  <2> QED BY <2>1, <2>2, <2>3
<1>3. CommandOutcomes(command, r, c) \subseteq P
  <2> HIDE DEF P
  <2> QED BY <1>1, <1>2, CommandStaysIn
<1> QED BY <1>3

\* A line that enables the policy, and one that disables anything.
Enables(line) == line.line # "wait" /\ line.switch = "policy" /\ line.on
Disables(line) == line.line # "wait" /\ ~line.on

\* The policy is enabled by nothing but its own line.
LEMMA QuietCommand ==
  ASSUME NEW command, NEW n, Program(command, n), NEW r \in Robot, NEW c,
         NEW o \in CommandOutcomes(command, r, c),
         \A k \in 1..n : ~Enables(command[k]), ~r["policy"]
  PROVE  ~o.robot["policy"]
<1> DEFINE P == {x \in Result : ~x.robot["policy"]}
<1>1. Start(r) \in P BY DEF Start, Result
<1>2. ASSUME NEW k \in 1..n, NEW a \in P, NEW x \in After(command[k], a, c)
      PROVE  x \in P
  <2> DEFINE line == command[k]
  <2>0. line \in Lines /\ ~Enables(line) BY DEF Program
  <2>1. x \in Result /\ (x.robot = a.robot \/ Obeyed(line, a, c, x)) BY <2>0, AfterLine
  <2>2. CASE x.robot = a.robot BY <2>1, <2>2
  <2>3. CASE Obeyed(line, a, c, x)
    <3> HIDE DEF line
    <3>1. a \in Result /\ (line.switch = "policy" => ~line.on)
      BY <2>0, <2>3 DEF Obeyed, Enables
    <3>3. x.robot["policy"] => a.robot["policy"]
      <4>1. "policy" \in Parts BY DEF Parts, Switches
      <4>2. /\ line.on => \A s \in Parts : x.robot[s] <=> a.robot[s] \/ s = line.switch
            /\ ~line.on => \A s \in Parts : x.robot[s] => a.robot[s]
        BY <2>0, <2>3, <3>1, ObeyedOnly
      <4> QED BY <3>1, <4>1, <4>2
    <3> QED BY <2>1, <3>3
  <2> QED BY <2>1, <2>2, <2>3
<1>3. CommandOutcomes(command, r, c) \subseteq P
  <2> HIDE DEF P
  <2> QED BY <1>1, <1>2, CommandStaysIn
<1> QED BY <1>3

\* A command that disables nothing leaves the gripper enabled.
LEMMA GripperStays ==
  ASSUME NEW command, NEW n, Program(command, n), NEW r \in Robot, NEW c,
         NEW o \in CommandOutcomes(command, r, c),
         \A k \in 1..n : ~Disables(command[k]), r["gripper"]
  PROVE  o.robot["gripper"]
<1> DEFINE P == {x \in Result : x.robot["gripper"]}
<1>1. Start(r) \in P BY DEF Start, Result
<1>2. ASSUME NEW k \in 1..n, NEW a \in P, NEW x \in After(command[k], a, c)
      PROVE  x \in P
  <2> DEFINE line == command[k]
  <2>0. line \in Lines /\ ~Disables(line) BY DEF Program
  <2>1. x \in Result /\ (x.robot = a.robot \/ Obeyed(line, a, c, x)) BY <2>0, AfterLine
  <2>2. CASE x.robot = a.robot BY <2>1, <2>2
  <2>3. CASE Obeyed(line, a, c, x)
    <3> HIDE DEF line
    <3>1. a \in Result /\ line.on BY <2>0, <2>3 DEF Obeyed, Disables
    <3>3. a.robot["gripper"] => x.robot["gripper"]
      <4>1. "gripper" \in Parts BY DEF Parts, Switches
      <4>2. /\ line.on => \A s \in Parts : x.robot[s] <=> a.robot[s] \/ s = line.switch
            /\ ~line.on => \A s \in Parts : x.robot[s] => a.robot[s]
        BY <2>0, <2>3, <3>1, ObeyedOnly
      <4> QED BY <3>1, <4>1, <4>2
    <3> QED BY <2>1, <3>3
  <2> QED BY <2>1, <2>2, <2>3
<1>3. CommandOutcomes(command, r, c) \subseteq P
  <2> HIDE DEF P
  <2> QED BY <1>1, <1>2, CommandStaysIn
<1> QED BY <1>3

\* The outcomes of the lines before the last one, all of which are results.
LEMMA LastLine ==
  ASSUME NEW command, NEW n, Program(command, n), n # 0, NEW r \in Robot, NEW c,
         NEW o \in CommandOutcomes(command, r, c)
  PROVE  \E a \in Result : /\ o \in After(command[n], a, c)
                           /\ a.robot["nodes"] <=> r["nodes"]
                           /\ (\A k \in 1..n : command[k].line = "try") => a.ok
<1>0. n \in Nat /\ DOMAIN command = 1..n BY DEF Program
<1>10. PICK outs : Runs(outs, command, n, r, c) BY <1>0, LineByLine
<1>1. /\ outs[0] = {Start(r)}
      /\ \A k \in 1..n : outs[k] = Through(command[k], outs[k - 1], c)
      /\ CommandOutcomes(command, r, c) = outs[n]
  BY <1>10 DEF Runs
<1>2. n \in 1..n /\ n - 1 \in Nat BY <1>0
<1>3. PICK a \in outs[n - 1] : o \in After(command[n], a, c)
  BY <1>1, <1>2 DEF Through
<1> DEFINE tries == \A k \in 1..n : command[k].line = "try"
           P == {x \in Result : /\ x.robot["nodes"] <=> r["nodes"]
                                /\ tries => x.ok}
           Out == {k \in 0..n : ~(outs[k] \subseteq P)}
           Below == OpToRel(<, Nat)
<1>4. Out = {}
  <2> SUFFICES ASSUME Out # {} PROVE FALSE
    OBVIOUS
  <2>1. PICK k \in Out : \A y \in Out : <<y, k>> \notin Below
    <3>1. Out \subseteq Nat OBVIOUS
    <3> HIDE DEF Out
    <3> QED BY <3>1, NatLessThanWellFounded, WFMin
  <2>2. k # 0
    <3>1. Start(r) \in P BY DEF Start, Result
    <3> HIDE DEF P
    <3> QED BY <1>1, <3>1
  <2>3. k \in 1..n /\ k - 1 \in 0..n BY <1>0, <2>2
  <2>4. k - 1 \notin Out
    <3>1. <<k - 1, k>> \in Below BY <2>3 DEF OpToRel
    <3> QED BY <3>1, <2>1
  <2>5. outs[k - 1] \subseteq P BY <2>3, <2>4
  <2>6. ASSUME NEW y \in P, NEW x \in After(command[k], y, c)
        PROVE  x \in P
    <3> DEFINE line == command[k]
    <3>0. line \in Lines /\ (tries => line.line = "try") BY <2>3 DEF Program
    <3> HIDE DEF line, tries
    <3>1. /\ x \in Result /\ (x.robot = y.robot \/ Obeyed(line, y, c, x))
          /\ line.line = "try" => x.ok = y.ok
      BY <2>6, <3>0, AfterLine DEF line
    <3>2. x.robot["nodes"] <=> y.robot["nodes"]
      <4>1. CASE x.robot = y.robot BY <4>1
      <4>2. CASE Obeyed(line, y, c, x)
        <5>1. y \in Result OBVIOUS
        <5> QED BY <3>0, <4>2, <5>1, ObeyedOnly
      <4> QED BY <3>1, <4>1, <4>2
    <3> QED BY <3>0, <3>1, <3>2
  <2>7. outs[k] \subseteq P
    <3>1. outs[k] = Through(command[k], outs[k - 1], c) BY <1>1, <2>3
    <3> HIDE DEF P
    <3> QED BY <2>5, <2>6, <3>1 DEF Through
  <2> QED BY <2>7
<1>5. a \in P
  <2>1. n - 1 \in 0..n /\ n - 1 \notin Out BY <1>4, <1>2
  <2> QED BY <2>1, <1>3
<1> QED BY <1>3, <1>5

\* A command that ends with a wait is done when what it waits for is there.
LEMMA WaitedFor ==
  ASSUME NEW command, NEW n, Program(command, n), n # 0, NEW r \in Robot, NEW c,
         NEW o \in CommandOutcomes(command, r, c), o.ok, command[n].line = "wait",
         NEW s \in command[n].on
  PROVE  o.robot[s]
<1>1. PICK a \in Result : o \in After(command[n], a, c) BY LastLine
<1>2. command[n] \in Lines BY DEF Program
<1> QED BY <1>1, <1>2, AfterLine

\* Where every line is tried, the last switch is off unless a call failed or its
\* node does not run.
LEMMA TriedLast ==
  ASSUME NEW command, NEW n, Program(command, n), n # 0, NEW r \in Robot, NEW c,
         NEW o \in CommandOutcomes(command, r, c),
         \A k \in 1..n : command[k].line = "try",
         command[n].switch # "policy", ~command[n].on
  PROVE  o.bad > 0 \/ ~o.robot[command[n].switch] \/ ~r["nodes"]
<1> DEFINE line == command[n]
<1>1. PICK a \in Result : /\ o \in After(line, a, c) /\ a.ok
                          /\ a.robot["nodes"] <=> r["nodes"]
  BY LastLine
<1>2. line \in Lines /\ line.line = "try" BY DEF Program
<1> HIDE DEF line
<1>3. line.switch \in Switches /\ line.on \in BOOLEAN BY <1>2 DEF Lines
<1>4. a.bad \in Nat /\ a.robot \in Robot BY DEF Result
<1>5. CASE ~r["nodes"] BY <1>5
<1>6. CASE r["nodes"]
  <2>1. Offered(a.robot, line.switch, c) BY <1>1, <1>6 DEF Offered, line
  <2>2. Obeyed(line, a, c, o) \/ o.bad = a.bad + 1 BY <1>1, <1>2, <2>1, AfterLine
  <2>3. CASE Obeyed(line, a, c, o)
    <3>1. ~line.on BY DEF line
    <3>2. ~o.robot[line.switch] BY <1>2, <2>3, <3>1, ObeyedOnly
    <3> QED BY <3>2 DEF line
  <2>4. CASE o.bad = a.bad + 1 BY <1>4, <2>4
  <2> QED BY <2>2, <2>3, <2>4
<1> QED BY <1>5, <1>6

\* The commands of the stack are programs.
LEMMA StackPrograms ==
  /\ Program(Prepare, 6) /\ Program(EnterServo, 3) /\ Program(EnablePolicy, 1)
  /\ Program(DisablePolicy, 2) /\ Program(ResetRound, 5) /\ Program(StopCalls, 5)
<1>1. /\ \A x \in Switches, on \in BOOLEAN : CallBool(x, on) \in Lines
      /\ \A x \in Switches : TryBool(x, FALSE) \in Lines
      /\ \A on, off \in SUBSET Switches : WaitStatus(on, off) \in Lines
  BY DEF Lines, CallBool, TryBool, WaitStatus
<1>2. /\ {"power", "enable", "motion", "gripper", "policy"} = Switches
      /\ {{}, {"power"}, {"enable"}, {"motion"}, {"gripper"}, {"power", "enable"}}
           \subseteq SUBSET Switches
  BY DEF Switches
<1>3. Program(Prepare, 6)
  <2>1. DOMAIN Prepare = 1..6 BY DEF Prepare
  <2>2. /\ Prepare[1] \in Lines /\ Prepare[2] \in Lines /\ Prepare[3] \in Lines
        /\ Prepare[4] \in Lines /\ Prepare[5] \in Lines /\ Prepare[6] \in Lines
    BY <1>1, <1>2 DEF Prepare
  <2>3. \A k \in 1..6 : k = 1 \/ k = 2 \/ k = 3 \/ k = 4 \/ k = 5 \/ k = 6 OBVIOUS
  <2> QED BY <2>1, <2>2, <2>3 DEF Program
<1>4. Program(EnterServo, 3)
  <2>1. DOMAIN EnterServo = 1..3 BY DEF EnterServo
  <2>2. EnterServo[1] \in Lines /\ EnterServo[2] \in Lines /\ EnterServo[3] \in Lines
    BY <1>1, <1>2 DEF EnterServo
  <2>3. \A k \in 1..3 : k = 1 \/ k = 2 \/ k = 3 OBVIOUS
  <2> QED BY <2>1, <2>2, <2>3 DEF Program
<1>5. Program(EnablePolicy, 1)
  <2>1. DOMAIN EnablePolicy = 1..1 BY DEF EnablePolicy
  <2>2. EnablePolicy[1] \in Lines
    BY <1>1, <1>2 DEF EnablePolicy
  <2>3. \A k \in 1..1 : k = 1 OBVIOUS
  <2> QED BY <2>1, <2>2, <2>3 DEF Program
<1>6. Program(DisablePolicy, 2)
  <2>1. DOMAIN DisablePolicy = 1..2 BY DEF DisablePolicy
  <2>2. DisablePolicy[1] \in Lines /\ DisablePolicy[2] \in Lines
    BY <1>1, <1>2 DEF DisablePolicy
  <2>3. \A k \in 1..2 : k = 1 \/ k = 2 OBVIOUS
  <2> QED BY <2>1, <2>2, <2>3 DEF Program
<1>7. Program(ResetRound, 5)
  <2>1. DOMAIN ResetRound = 1..5 BY DEF ResetRound
  <2>2. /\ ResetRound[1] \in Lines /\ ResetRound[2] \in Lines /\ ResetRound[3] \in Lines
        /\ ResetRound[4] \in Lines /\ ResetRound[5] \in Lines
    BY <1>1, <1>2 DEF ResetRound
  <2>3. \A k \in 1..5 : k = 1 \/ k = 2 \/ k = 3 \/ k = 4 \/ k = 5 OBVIOUS
  <2> QED BY <2>1, <2>2, <2>3 DEF Program
<1>8. Program(StopCalls, 5)
  <2>1. DOMAIN StopCalls = 1..5 BY DEF StopCalls
  <2>2. /\ StopCalls[1] \in Lines /\ StopCalls[2] \in Lines /\ StopCalls[3] \in Lines
        /\ StopCalls[4] \in Lines /\ StopCalls[5] \in Lines
    BY <1>1, <1>2 DEF StopCalls
  <2>3. \A k \in 1..5 : k = 1 \/ k = 2 \/ k = 3 \/ k = 4 \/ k = 5 OBVIOUS
  <2> QED BY <2>1, <2>2, <2>3 DEF Program
<1> QED BY <1>3, <1>4, <1>5, <1>6, <1>7, <1>8

\* A step of the robot that enables no policy and powers nothing without nodes.
Calm(r, x) ==
  /\ x \in Robot
  /\ x["policy"] => r["policy"]
  /\ x["nodes"] <=> r["nodes"]
  /\ x["power"] => r["power"] \/ r["nodes"]
  /\ GateNeedsMotion(r) => GateNeedsMotion(x)

\* All commands but one are calm.
LEMMA CalmCommands ==
  ASSUME NEW command \in {Prepare, EnterServo, DisablePolicy, ResetRound, StopCalls},
         NEW r \in Robot, NEW c, NEW o \in CommandOutcomes(command, r, c)
  PROVE  o \in Result /\ Calm(r, o.robot)
<1>1. \E n : Program(command, n) /\ \A k \in 1..n : ~Enables(command[k])
  <2> USE DEF Enables, CallBool, TryBool, WaitStatus
  <2>1. CASE command = Prepare
    <3>1. \A k \in 1..6 : ~Enables(Prepare[k]) BY DEF Prepare
    <3> QED BY <2>1, <3>1, StackPrograms
  <2>2. CASE command = EnterServo
    <3>1. \A k \in 1..3 : ~Enables(EnterServo[k]) BY DEF EnterServo
    <3> QED BY <2>2, <3>1, StackPrograms
  <2>3. CASE command = DisablePolicy
    <3>1. \A k \in 1..2 : ~Enables(DisablePolicy[k]) BY DEF DisablePolicy
    <3> QED BY <2>3, <3>1, StackPrograms
  <2>4. CASE command = ResetRound
    <3>1. \A k \in 1..5 : ~Enables(ResetRound[k]) BY DEF ResetRound
    <3> QED BY <2>4, <3>1, StackPrograms
  <2>5. CASE command = StopCalls
    <3>1. \A k \in 1..5 : ~Enables(StopCalls[k]) BY DEF StopCalls
    <3> QED BY <2>5, <3>1, StackPrograms
  <2> QED BY <2>1, <2>2, <2>3, <2>4, <2>5
<1>2. PICK n : Program(command, n) /\ \A k \in 1..n : ~Enables(command[k]) BY <1>1
<1>3. /\ o \in Result
      /\ o.robot["nodes"] <=> r["nodes"]
      /\ o.robot["power"] => r["power"] \/ r["nodes"]
      /\ GateNeedsMotion(r) => GateNeedsMotion(o.robot)
  BY <1>2, AnyCommand
<1>4. ~r["policy"] => ~o.robot["policy"] BY <1>2, QuietCommand
<1>5. o.robot \in Robot BY <1>3 DEF Result
<1> QED BY <1>3, <1>4, <1>5 DEF Calm

\* prepare: the gripper is enabled.
LEMMA PrepareEnables ==
  ASSUME NEW r \in Robot, NEW c, NEW o \in CommandOutcomes(Prepare, r, c), o.ok
  PROVE  o.robot["gripper"]
<1>1. Prepare[6].line = "wait" /\ "gripper" \in Prepare[6].on
  BY DEF Prepare, WaitStatus
<1> QED BY <1>1, StackPrograms, WaitedFor

\* enter-servo leaves the gripper enabled.
LEMMA ServoKeepsGripper ==
  ASSUME NEW r \in Robot, NEW c, NEW o \in CommandOutcomes(EnterServo, r, c), r["gripper"]
  PROVE  o.robot["gripper"]
<1>1. \A k \in 1..3 : ~Disables(EnterServo[k])
  BY DEF EnterServo, Disables, CallBool, WaitStatus
<1> QED BY <1>1, StackPrograms, GripperStays

\* reset-round: the gripper is enabled, and the policy disabled.
LEMMA ResetRoundReadies ==
  ASSUME NEW r \in Robot, GateNeedsMotion(r), NEW c,
         NEW o \in CommandOutcomes(ResetRound, r, c), o.ok
  PROVE  o.robot["gripper"] /\ ~o.robot["policy"]
<1>1. ResetRound[5].line = "wait" /\ "gripper" \in ResetRound[5].on
  BY DEF ResetRound, WaitStatus
<1>2. o.robot["gripper"] BY <1>1, StackPrograms, WaitedFor
<1>3. DOMAIN ResetRound = 1..5 BY StackPrograms DEF Program
<1>4. PICK outs : Runs(outs, ResetRound, 5, r, c) BY <1>3, LineByLine
<1>5. /\ outs[0] = {Start(r)}
      /\ \A k \in 1..5 : outs[k] = Through(ResetRound[k], outs[k - 1], c)
      /\ o \in outs[5]
  BY <1>4 DEF Runs
<1> DEFINE P == {x \in Result : GateNeedsMotion(x.robot)}
           Q == {x \in P : x.ok => ~x.robot["motion"]}
<1>6. \A k \in 1..5 : ResetRound[k] \in Lines BY StackPrograms DEF Program
<1>7. ASSUME NEW k \in 1..5, outs[k - 1] \subseteq P
      PROVE  outs[k] \subseteq P
  <2> SUFFICES ASSUME NEW a \in outs[k - 1], NEW x \in After(ResetRound[k], a, c)
               PROVE  x \in P
    BY <1>5 DEF Through
  <2> DEFINE line == ResetRound[k]
  <2>0. line \in Lines BY <1>6
  <2> HIDE DEF line
  <2>1. a \in Result /\ GateNeedsMotion(a.robot) BY <1>7
  <2>2. x \in Result /\ (x.robot = a.robot \/ Obeyed(line, a, c, x))
    BY <2>0, <2>1, AfterLine DEF line
  <2> QED BY <2>0, <2>1, <2>2, ObeyedOnly
<1>8. outs[2] \subseteq P
  <2>1. outs[0] \subseteq P BY <1>5 DEF Start, Result
  <2>2. 1 - 1 = 0 /\ 2 - 1 = 1 OBVIOUS
  <2>3. outs[1] \subseteq P BY <1>7, <2>1, <2>2
  <2> QED BY <1>7, <2>2, <2>3
<1>9. outs[3] \subseteq Q
  <2> SUFFICES ASSUME NEW a \in outs[2], NEW x \in After(ResetRound[3], a, c)
               PROVE  x \in Q
    <3>1. outs[3] = Through(ResetRound[3], outs[2], c) BY <1>5
    <3> QED BY <3>1 DEF Through
  <2> DEFINE line == ResetRound[3]
  <2>1. line.line = "wait" /\ "motion" \in line.off BY DEF ResetRound, WaitStatus
  <2>2. line \in Lines BY <1>6
  <2> HIDE DEF line
  <2>3. a \in Result BY <1>8
  <2>4. x \in Result /\ (x.ok => ~x.robot["motion"])
    BY <2>1, <2>2, <2>3, AfterLine DEF line
  <2>5. x \in P
    <3>1. outs[3] \subseteq P
      <4>1. 3 - 1 = 2 OBVIOUS
      <4> QED BY <1>7, <1>8, <4>1
    <3>2. outs[3] = Through(ResetRound[3], outs[2], c) BY <1>5
    <3> QED BY <3>1, <3>2 DEF Through, line
  <2> QED BY <2>4, <2>5
<1>10. ASSUME NEW k \in 4..5, outs[k - 1] \subseteq Q
       PROVE  outs[k] \subseteq Q
  <2> SUFFICES ASSUME NEW a \in outs[k - 1], NEW x \in After(ResetRound[k], a, c)
               PROVE  x \in Q
    BY <1>5 DEF Through
  <2>1. x \in P
    <3>1. outs[k] \subseteq P BY <1>7, <1>10
    <3>2. outs[k] = Through(ResetRound[k], outs[k - 1], c) BY <1>5
    <3> QED BY <3>1, <3>2 DEF Through
  <2> DEFINE line == ResetRound[k]
  <2>2. line \in Lines /\ (line.line = "wait" \/ line.switch = "gripper")
    <3>1. k \in 1..5 /\ (k = 4 \/ k = 5) OBVIOUS
    <3>2. ResetRound[4].switch = "gripper" BY DEF ResetRound, CallBool
    <3>3. ResetRound[5].line = "wait" BY DEF ResetRound, WaitStatus
    <3> QED BY <1>6, <3>1, <3>2, <3>3
  <2> HIDE DEF line
  <2>3. a \in Result /\ (a.ok => ~a.robot["motion"]) BY <1>10
  <2>4. /\ x.robot = a.robot \/ Obeyed(line, a, c, x)
        /\ x.ok => a.ok
    BY <2>2, <2>3, AfterLine DEF line
  <2>5. Obeyed(line, a, c, x) => (x.robot["motion"] => a.robot["motion"])
    <3> SUFFICES ASSUME Obeyed(line, a, c, x) PROVE x.robot["motion"] => a.robot["motion"]
      OBVIOUS
    <3>1. line.switch # "motion" BY <2>2 DEF Obeyed
    <3>2. "motion" \in Parts BY DEF Parts, Switches
    <3> QED BY <2>2, <2>3, <3>1, <3>2, ObeyedOnly
  <2> QED BY <2>1, <2>3, <2>4, <2>5
<1>11. o \in Q
  <2>1. 4 - 1 = 3 /\ 5 - 1 = 4 OBVIOUS
  <2>2. outs[4] \subseteq Q BY <1>9, <1>10, <2>1
  <2>3. outs[5] \subseteq Q BY <1>10, <2>1, <2>2
  <2> QED BY <1>5, <2>3
<1> QED BY <1>2, <1>11 DEF GateNeedsMotion

\* enable-policy: only with a client, only on an arm that may move, and nothing
\* else is switched.
LEMMA EnableNeeds ==
  ASSUME NEW r \in Robot, NEW c, NEW o \in CommandOutcomes(EnablePolicy, r, c)
  PROVE  /\ o \in Result
         /\ \A s \in Parts \ {"policy"} : o.robot[s] <=> r[s]
         /\ o.robot["policy"] => r["policy"] \/ (c /\ r["motion"])
<1> DEFINE line == CallBool("policy", TRUE)
           start == [robot |-> r, ok |-> TRUE, bad |-> 0]
<1>1. o \in UNION {After(line, x, c) : x \in {start}}
  <2> HIDE DEF line
  <2>1. EnablePolicy = <<line>> BY DEF EnablePolicy, line
  <2> QED BY <2>1, OneLine
<1>2. o \in After(line, start, c)
  <2> HIDE DEF line, start
  <2> QED BY <1>1
<1>3. line \in Lines /\ start \in Result BY DEF CallBool, Lines, Switches, Result
<1>4. line.line = "call" /\ line.switch = "policy" /\ line.on = TRUE /\ start.robot = r
  BY DEF CallBool
<1> HIDE DEF line, start
<1>5. o \in Result /\ (o.robot = r \/ Obeyed(line, start, c, o))
  BY <1>2, <1>3, <1>4, AfterLine
<1>6. CASE o.robot = r BY <1>5, <1>6
<1>7. CASE Obeyed(line, start, c, o)
  <2>1. \A s \in Parts : o.robot[s] <=> r[s] \/ s = "policy"
    BY <1>3, <1>4, <1>7, ObeyedOnly
  <2>2. c BY <1>4, <1>7 DEF Obeyed, Offered
  <2>3. r["motion"]
    <3>1. Accepts(r, "policy", TRUE) BY <1>4, <1>7 DEF Obeyed
    <3> QED BY <3>1 DEF Accepts, Needs
  <2> QED BY <1>5, <2>1, <2>2, <2>3
<1> QED BY <1>5, <1>6, <1>7

\* stop: the nodes are gone, and the power too, unless a call failed or there
\* was no node to call.
LEMMA StopStackStops ==
  ASSUME NEW r \in Robot, NEW c, NEW o \in StopStack(r, c)
  PROVE  /\ o.robot \in Robot /\ o.bad \in Nat
         /\ o.robot["policy"] => r["policy"]
         /\ ~o.robot["nodes"] /\ ~o.robot["motion"] /\ ~o.robot["gripper"]
         /\ o.robot["power"] => (r["power"] /\ ~r["nodes"]) \/ o.bad > 0
<1>1. PICK x \in CommandOutcomes(StopCalls, r, c) :
        o = [x EXCEPT !.robot = NodesStopped(x.robot)]
  BY DEF StopStack
<1>2. x \in Result /\ Calm(r, x.robot) BY CalmCommands
<1>3. o.robot = TurnOff(x.robot, {"nodes", "motion", "gripper"}) /\ o.bad = x.bad
  BY <1>1, <1>2 DEF Result, NodesStopped
<1>4. x.robot \in Robot /\ x.bad \in Nat BY <1>2 DEF Result
<1>5. /\ o.robot \in Robot
      /\ \A s \in Parts : o.robot[s] <=> x.robot[s] /\ s \notin {"nodes", "motion", "gripper"}
  BY <1>3, <1>4, OffOnly
<1>6. x.robot["power"] => (r["power"] /\ ~r["nodes"]) \/ x.bad > 0
  <2>1. /\ \A k \in 1..5 : StopCalls[k].line = "try"
        /\ StopCalls[5].switch = "power" /\ ~StopCalls[5].on
    BY DEF StopCalls, TryBool
  <2>2. x.bad > 0 \/ ~x.robot["power"] \/ ~r["nodes"]
    BY <2>1, StackPrograms, TriedLast
  <2>3. x.robot["power"] => r["power"] \/ r["nodes"] BY <1>2 DEF Calm
  <2> QED BY <2>2, <2>3
<1>7. "policy" \in Parts /\ "nodes" \in Parts /\ "motion" \in Parts /\ "gripper" \in Parts
      /\ "power" \in Parts
  BY DEF Parts, Switches
<1>8. x.robot["policy"] => r["policy"] BY <1>2 DEF Calm
<1> QED BY <1>3, <1>4, <1>5, <1>6, <1>7, <1>8

\* start: the nodes run, or nothing has changed.
LEMMA StartStackStarts ==
  ASSUME NEW r \in Robot, NEW o \in StartStack(r)
  PROVE  /\ o.robot \in Robot /\ o.bad \in Nat
         /\ \A s \in Parts \ {"nodes"} : o.robot[s] <=> r[s]
         /\ o.robot["nodes"] \/ ~r["nodes"]
<1>1. \/ o.robot = r /\ o.bad \in {0, 1}
      \/ o.robot = [r EXCEPT !["nodes"] = TRUE] /\ o.bad = 0
  <2> DEFINE up == [r EXCEPT !["nodes"] = TRUE]
  <2> HIDE DEF up
  <2>1. \/ o = [robot |-> r, ok |-> FALSE, bad |-> 0]
        \/ o = [robot |-> up, ok |-> TRUE, bad |-> 0]
        \/ o \in [robot : {r}, ok : BOOLEAN, bad : {1}]
    BY DEF StartStack, up
  <2>2. (o.robot = r /\ o.bad \in {0, 1}) \/ (o.robot = up /\ o.bad = 0) BY <2>1
  <2> QED BY <2>2 DEF up
<1>2. DOMAIN r = Parts /\ r \in [Parts -> BOOLEAN] BY DEF Robot, Parts
<1>3. CASE o.robot = [r EXCEPT !["nodes"] = TRUE] /\ o.bad = 0
  <2>1. o.robot \in [Parts -> BOOLEAN] BY <1>2, <1>3
  <2>2. \A s \in Parts \ {"nodes"} : o.robot[s] = r[s] BY <1>2, <1>3
  <2>3. o.robot["nodes"] = TRUE BY <1>2, <1>3 DEF Parts
  <2> QED BY <1>3, <2>1, <2>2, <2>3 DEF Robot, Parts
<1> QED BY <1>1, <1>3
-----------------------------------------------------------------------------
(* The session and its processes. *)

MonitorStates == {"off", "running", "completed", "timeout", "fault"}
RecorderStates == {"off", "recording", "stuck"}
Codes == {"ok", "error", "signal", "abnormal"}

\* The part of the types that is the session's own.
SessionTyped ==
  /\ robot \in Robot
  /\ {server, listener, client} \subseteq Modes \union {None}
  /\ recorder \in RecorderStates /\ monitor \in MonitorStates
  /\ monitor # "off" => pc \in {"watch"} \union Halting \union Over
  /\ current = None \/ current = attempt
  /\ code \in Codes
  /\ faults \in 0..MaxFaults

\* Lines of the script before the first client, and after the old one was
\* stopped; lines at which the gate has been closed since the robot was made
\* ready, and those of them with a client or without a word about it.
Clientless == {"launch", "stack", "arm", "client", "port", "reset", "policy",
               "policy_client"}
Prepared == {"servo", "loop", "move", "flush", "policy_servo", "ready"}
PairedOnly == {"stop_policy", "port", "reset", "policy", "policy_client",
               "policy_servo", "ready"}
Closing == {"halt_delete", "halt_stack", "halt_policy", "done"}

\* The gate is open only for a client that is alive, on an arm that may move;
\* nothing is powered without its node, unless something had failed.
Gate ==
  /\ robot["policy"] => client # None
  /\ GateNeedsMotion(robot) \/ pc \in {"halt_policy", "killed"}
  /\ robot["power"] => robot["nodes"] \/ faults > 0

\* From the line that enables the gripper to the next round, the gate is closed,
\* and the gripper enabled as long as the client lives that the round needs.
Readied ==
  /\ pc \in Clientless => client = None
  /\ pc \in {"port", "reset", "policy"} => server = None
  /\ pc \in {"client", "policy_client"} => robot["gripper"] \/ listener = None
  /\ pc = "policy" => robot["gripper"]
  /\ pc \in Prepared => ~robot["policy"] /\ (robot["gripper"] \/ client = None)

\* Within one mode the round that is about to start knows its scene.
Staged ==
  ~paired => /\ pc \notin PairedOnly
             /\ pc \in {"servo", "loop", "move"} => queueScene = scene

\* Step by step the trap stops what there is.
Stopped ==
  /\ pc \in Closing => recorder = "off" /\ monitor = "off"
  /\ pc \in {"halt_policy", "done"} => ~robot["motion"] /\ ~robot["nodes"]
  /\ pc = "done" => /\ ~robot["policy"]
                    /\ client = None /\ server = None /\ listener = None

RobotInv == SessionTyped /\ Gate /\ Readied /\ Staged /\ Stopped

-----------------------------------------------------------------------------
(* What a step makes of the robot. *)

\* A calm step disturbs no gripper that is enabled with the gate closed.
Gentle(r, x) == ~r["policy"] => (r["gripper"] => x["gripper"])

\* A line of the script that gives the robot a calm command.
LEMMA CommandStep ==
  ASSUME RobotInv, NEW command \in {Prepare, EnterServo, DisablePolicy, ResetRound},
         NEW line, Command(command, line) \/ BestEffort(command, line)
  PROVE  /\ Calm(robot, robot')
         /\ faults' \in 0..MaxFaults /\ faults' >= faults
         /\ \/ pc' = line /\ code' = code
            \/ pc' = "halt" /\ code' = "error"
<1>1. robot \in Robot /\ faults \in 0..MaxFaults BY DEF RobotInv, SessionTyped
<1>2. PICK o \in CommandOutcomes(command, robot, client # None) :
        /\ robot' = o.robot /\ MayFail(o.bad)
        /\ (pc' = line /\ code' = code) \/ (pc' = "halt" /\ code' = "error")
  BY DEF Command, BestEffort, Proceed, Exit
<1>3. o \in Result /\ Calm(robot, o.robot) BY <1>1, CalmCommands
<1>4. o.bad \in Nat BY <1>3 DEF Result
<1> QED BY <1>1, <1>2, <1>3, <1>4, SessionAssumption DEF MayFail

\* The client's STOP, if it was alive.
LEMMA ClientStep ==
  ASSUME RobotInv, ClientStopped
  PROVE  /\ client' = None /\ ~robot'["policy"]
         /\ Calm(robot, robot')
         /\ client = None => robot' = robot
         /\ ~robot["motion"] => ~robot'["motion"]
<1>1. robot \in Robot /\ (robot["policy"] => client # None)
  BY DEF RobotInv, SessionTyped, Gate
<1>2. /\ "policy" \in Parts /\ "nodes" \in Parts /\ "power" \in Parts
      /\ "motion" \in Parts
  BY DEF Parts, Switches
<1>3. CASE client = None
  BY <1>1, <1>3 DEF ClientStopped, Calm
<1>4. CASE client # None
  <2>1. robot' = Stop(robot) /\ client' = None BY <1>4 DEF ClientStopped
  <2>2. /\ Stop(robot) \in Robot
        /\ \A s \in Parts : Stop(robot)[s] <=> robot[s] /\ s \notin {"policy", "gripper"}
    BY <1>1, StopOnly
  <2> DEFINE x == Stop(robot)
  <2> HIDE DEF x
  <2>3. /\ x \in Robot /\ ~x["policy"]
        /\ x["nodes"] <=> robot["nodes"]
        /\ x["power"] <=> robot["power"]
        /\ x["motion"] <=> robot["motion"]
    BY <1>2, <2>2 DEF x
  <2>4. robot' = x BY <2>1 DEF x
  <2> QED BY <1>4, <2>1, <2>3, <2>4 DEF Calm, GateNeedsMotion
<1> QED BY <1>3, <1>4

\* A protective stop takes the gripper only from an open gate.
LEMMA ProtectiveStop ==
  ASSUME NEW r \in Robot, NEW x, x = Switched(r, "enable", FALSE)
  PROVE  /\ Calm(r, x)
         /\ Gentle(r, x)
         /\ ~r["motion"] => ~x["motion"]
<1>1. "enable" \in Switches BY DEF Switches
<1>2. /\ "policy" \in Parts /\ "nodes" \in Parts /\ "power" \in Parts
      /\ "gripper" \in Parts /\ "motion" \in Parts
  BY DEF Parts, Switches
<1>3. /\ x \in Robot /\ (x["nodes"] <=> r["nodes"])
      /\ \A s \in Parts : x[s] => r[s]
      /\ GateNeedsMotion(r) => GateNeedsMotion(x)
  BY <1>1, SwitchOnly
<1>4. Gentle(r, x)
  <2>1. x = TurnOff(MotionLost(r), {"enable"}) BY DEF Switched
  <2>2. MotionLost(r) \in Robot /\ (~r["policy"] => (MotionLost(r)["gripper"] <=> r["gripper"]))
    BY StopOnly
  <2> DEFINE y == MotionLost(r)
  <2>3. x["gripper"] <=> y["gripper"]
    <3> HIDE DEF y
    <3>1. x = TurnOff(y, {"enable"}) /\ y \in Robot BY <2>1, <2>2 DEF y
    <3>2. \A s \in Parts : TurnOff(y, {"enable"})[s] <=> y[s] /\ s \notin {"enable"}
      BY <3>1, OffOnly
    <3> QED BY <1>2, <3>1, <3>2
  <2> QED BY <2>2, <2>3 DEF Gentle
<1> QED BY <1>2, <1>3, <1>4 DEF Calm

\* The trap of a second launcher, or of this one.
LEMMA StopStackStep ==
  ASSUME RobotInv, NEW o \in StopStack(robot, client # None)
  PROVE  /\ o.robot \in Robot /\ Stop(o.robot) \in Robot /\ o.bad \in Nat
         /\ o.robot["policy"] => robot["policy"]
         /\ ~o.robot["nodes"] /\ ~o.robot["motion"]
         /\ o.robot["power"] => (robot["power"] /\ ~robot["nodes"]) \/ o.bad > 0
         /\ ~Stop(o.robot)["policy"] /\ ~Stop(o.robot)["nodes"] /\ ~Stop(o.robot)["motion"]
<1>1. robot \in Robot BY DEF RobotInv, SessionTyped
<1>2. /\ o.robot \in Robot /\ o.bad \in Nat
      /\ o.robot["policy"] => robot["policy"]
      /\ ~o.robot["nodes"] /\ ~o.robot["motion"]
      /\ o.robot["power"] => (robot["power"] /\ ~robot["nodes"]) \/ o.bad > 0
  BY <1>1, StopStackStops
<1>3. /\ Stop(o.robot) \in Robot
      /\ \A s \in Parts : Stop(o.robot)[s] <=> o.robot[s] /\ s \notin {"policy", "gripper"}
  BY <1>2, StopOnly
<1>4. "policy" \in Parts /\ "nodes" \in Parts /\ "motion" \in Parts
  BY DEF Parts, Switches
<1> QED BY <1>2, <1>3, <1>4

-----------------------------------------------------------------------------
(* Each line of the script. *)

\* The robot is off and no process runs.
LEMMA InitRobot == Init => RobotInv
<1> SUFFICES ASSUME Init PROVE RobotInv
  OBVIOUS
<1>1. RobotOff \in Robot /\ ~RobotOff["policy"] /\ ~RobotOff["power"]
  BY DEF RobotOff, Robot, Switches
<1> QED
  BY <1>1, SessionAssumption
     DEF Init, RobotInv, SessionTyped, Gate, GateNeedsMotion, Readied, Staged,
         Stopped, Clientless, Prepared, PairedOnly, Closing, Codes, MonitorStates,
         RecorderStates

\* Up to the first round.
LEMMA StartupRobot ==
  LabelInv /\ RobotInv /\ (Launch \/ StartRobotStack \/ Arm \/ FirstClient \/ Servo)
    => RobotInv'
<1> SUFFICES ASSUME LabelInv, RobotInv,
                    Launch \/ StartRobotStack \/ Arm \/ FirstClient \/ Servo
             PROVE  RobotInv'
  OBVIOUS
<1> USE DEF RobotInv, SessionTyped, Gate, GateNeedsMotion, Readied, Staged, Stopped,
            Clientless, Prepared, PairedOnly, Closing, Codes, ProcessVars, Frame,
            Halting, Over, Proceed, Exit
<1>0. faults \in Nat /\ MaxFaults \in Nat BY SessionAssumption
<1>1. CASE Launch
  <2>1. mode \in Modes BY DEF LabelInv, InTurn
  <2> QED BY <1>0, <1>1, <2>1 DEF Launch, MayFail
<1>2. CASE StartRobotStack
  <2>1. PICK o \in StartStack(robot) :
          /\ robot' = o.robot /\ MayFail(o.bad)
          /\ IF o.ok THEN Proceed("arm") ELSE Exit("error")
    BY <1>2 DEF StartRobotStack
  <2>2. /\ o.robot \in Robot /\ o.bad \in Nat
        /\ \A s \in Parts \ {"nodes"} : o.robot[s] <=> robot[s]
        /\ o.robot["nodes"] \/ ~robot["nodes"]
    BY StartStackStarts
  <2>3. {"policy", "power", "gripper", "motion"} \subseteq Parts \ {"nodes"}
    BY DEF Parts, Switches
  <2>4. faults' \in 0..MaxFaults /\ faults' >= faults BY <1>0, <2>1, <2>2 DEF MayFail
  <2> QED BY <1>0, <1>2, <2>1, <2>2, <2>3, <2>4 DEF StartRobotStack
<1>3. CASE Arm
  <2>1. CASE Command(Prepare, "client")
    <3>1. /\ Calm(robot, robot')
          /\ faults' \in 0..MaxFaults /\ faults' >= faults
          /\ \/ pc' = "client" /\ code' = code
             \/ pc' = "halt" /\ code' = "error"
      BY <2>1, CommandStep
    <3>2. pc' = "client" => robot'["gripper"]
      BY <2>1, PrepareEnables DEF Command
    <3> QED BY <1>0, <1>3, <3>1, <3>2 DEF Arm, Calm
  <2>2. CASE Exit("ok") /\ UNCHANGED <<robot, faults>>
    BY <1>3, <2>2 DEF Arm
  <2> QED BY <1>3, <2>1, <2>2 DEF Arm
<1>4. CASE FirstClient
  BY <1>0, <1>4 DEF FirstClient, StartClient, ClientStarted, MayFail
<1>5. CASE Servo
  <2>1. Command(EnterServo, "loop") BY <1>5 DEF Servo
  <2>2. /\ Calm(robot, robot')
        /\ faults' \in 0..MaxFaults /\ faults' >= faults
        /\ \/ pc' = "loop" /\ code' = code
           \/ pc' = "halt" /\ code' = "error"
    BY <2>1, CommandStep
  <2>3. robot["gripper"] => robot'["gripper"]
    BY <2>1, ServoKeepsGripper DEF Command
  <2> QED BY <1>0, <1>5, <2>2, <2>3 DEF Servo, Calm
<1> QED BY <1>1, <1>2, <1>3, <1>4, <1>5

\* A round, from its recorder to its label.
LEMMA RoundRobot ==
  /\ SessionInv /\ LabelInv /\ RobotInv
  /\ StartRecorder \/ Move \/ OperatorEnds \/ OperatorAborts \/ RoundEnds \/ CloseRound
       \/ \E outcome \in Outcomes : Label(outcome)
  => RobotInv'
<1> SUFFICES ASSUME SessionInv, LabelInv, RobotInv,
                    StartRecorder \/ Move \/ OperatorEnds \/ OperatorAborts
                      \/ RoundEnds \/ CloseRound
                      \/ \E outcome \in Outcomes : Label(outcome)
             PROVE  RobotInv'
  OBVIOUS
<1> USE DEF RobotInv, SessionTyped, Gate, GateNeedsMotion, Readied, Staged, Stopped,
            Clientless, Prepared, PairedOnly, Closing, Codes, ProcessVars, Frame,
            Halting, Over, Proceed, Exit, MonitorStates, RecorderStates
<1>0. faults \in Nat /\ MaxFaults \in Nat BY SessionAssumption
<1>1. CASE StartRecorder
  BY <1>0, <1>1 DEF StartRecorder, MayFail
<1>2. CASE Move
  <2>1. CASE Command(EnablePolicy, "watch")
    <3>1. PICK o \in CommandOutcomes(EnablePolicy, robot, client # None) :
            /\ robot' = o.robot /\ MayFail(o.bad)
            /\ IF o.ok THEN Proceed("watch") ELSE Exit("error")
      BY <2>1 DEF Command
    <3>2. /\ o.robot \in Robot /\ o.bad \in Nat
          /\ \A s \in Parts \ {"policy"} : o.robot[s] <=> robot[s]
          /\ o.robot["policy"] => robot["policy"] \/ (client # None /\ robot["motion"])
      BY EnableNeeds DEF Result
    <3>3. {"nodes", "power", "gripper", "motion"} \subseteq Parts \ {"policy"}
      BY DEF Parts, Switches
    <3>4. faults' \in 0..MaxFaults /\ faults' >= faults BY <1>0, <3>1, <3>2 DEF MayFail
    <3>5. \/ pc' = "watch" /\ monitor' = "running" /\ code' = code
          \/ pc' = "halt" /\ monitor' = monitor /\ code' = "error"
      BY <1>2, <2>1, <3>1 DEF Move
    <3> QED BY <1>0, <1>2, <3>1, <3>2, <3>3, <3>4, <3>5 DEF Move
  <2>2. CASE Exit("ok") /\ UNCHANGED <<robot, faults, monitor, served>>
    BY <1>2, <2>2 DEF Move
  <2> QED BY <1>2, <2>1, <2>2 DEF Move
<1>3. CASE OperatorEnds
  <2>1. BestEffort(DisablePolicy, "close") BY <1>3 DEF OperatorEnds
  <2>2. pc' = "close" /\ code' = code BY <2>1 DEF BestEffort
  <2>3. Calm(robot, robot') /\ faults' \in 0..MaxFaults /\ faults' >= faults
    BY <2>1, CommandStep
  <2> QED BY <1>0, <1>3, <2>2, <2>3 DEF OperatorEnds, Calm
<1>4. CASE OperatorAborts
  BY <1>0, <1>4 DEF OperatorAborts
<1>5. CASE RoundEnds
  BY <1>0, <1>5 DEF RoundEnds
<1>6. CASE CloseRound
  <2> DEFINE line == IF pc = "close" THEN "label" ELSE "review"
  <2>1. BestEffort(DisablePolicy, line) BY <1>6 DEF CloseRound
  <2>2. pc' = line /\ code' = code BY <2>1 DEF BestEffort
  <2>3. Calm(robot, robot') /\ faults' \in 0..MaxFaults /\ faults' >= faults
    <3> HIDE DEF line
    <3> QED BY <2>1, CommandStep
  <2> QED BY <1>0, <1>6, <2>2, <2>3 DEF CloseRound, Calm
<1>7. CASE \E outcome \in Outcomes : Label(outcome)
  BY <1>0, <1>7 DEF Label
<1> QED BY <1>1, <1>2, <1>3, <1>4, <1>5, <1>6, <1>7

\* Between rounds.
LEMMA BetweenRobot ==
  /\ LabelInv /\ RobotInv
  /\ FinalizeRuns \/ Finalized \/ FinalizerFails \/ Finish \/ ResetSameMode \/ FlushQueue
       \/ PressEnter \/ \E m \in Modes : ChooseMode(m)
  => RobotInv'
<1> SUFFICES ASSUME LabelInv, RobotInv,
                    FinalizeRuns \/ Finalized \/ FinalizerFails \/ Finish
                      \/ ResetSameMode \/ FlushQueue \/ PressEnter
                      \/ \E m \in Modes : ChooseMode(m)
             PROVE  RobotInv'
  OBVIOUS
<1> USE DEF RobotInv, SessionTyped, Gate, GateNeedsMotion, Readied, Staged, Stopped,
            Clientless, Prepared, PairedOnly, Closing, Codes, ProcessVars, Frame,
            Halting, Over, Proceed, Exit
<1>0. faults \in Nat /\ MaxFaults \in Nat BY SessionAssumption
<1>1. CASE FinalizeRuns BY <1>0, <1>1 DEF FinalizeRuns, sessionVars
<1>2. CASE Finalized BY <1>0, <1>2 DEF Finalized
<1>3. CASE FinalizerFails BY <1>0, <1>3 DEF FinalizerFails
<1>4. CASE Finish BY <1>0, <1>4 DEF Finish
<1>5. CASE ResetSameMode
  <2>1. Command(ResetRound, "flush") BY <1>5 DEF ResetSameMode
  <2>2. /\ Calm(robot, robot')
        /\ faults' \in 0..MaxFaults /\ faults' >= faults
        /\ \/ pc' = "flush" /\ code' = code
           \/ pc' = "halt" /\ code' = "error"
    BY <2>1, CommandStep
  <2>3. pc' = "flush" => robot'["gripper"] /\ ~robot'["policy"]
    <3>1. robot \in Robot /\ GateNeedsMotion(robot) BY <1>5 DEF ResetSameMode
    <3>2. PICK o \in CommandOutcomes(ResetRound, robot, client # None) :
            robot' = o.robot /\ (o.ok \/ pc' = "halt")
      BY <2>1 DEF Command
    <3> QED BY <3>1, <3>2, ResetRoundReadies
  <2> QED BY <1>0, <1>5, <2>2, <2>3 DEF ResetSameMode, Calm
<1>6. CASE FlushQueue BY <1>0, <1>6 DEF FlushQueue, MayFail
<1>7. CASE PressEnter BY <1>0, <1>7 DEF PressEnter
<1>8. CASE \E m \in Modes : ChooseMode(m) BY <1>0, <1>8 DEF ChooseMode
<1> QED BY <1>1, <1>2, <1>3, <1>4, <1>5, <1>6, <1>7, <1>8

\* The policy of the next mode.
LEMMA PolicyRobot ==
  /\ LabelInv /\ RobotInv
  /\ StopPolicy \/ AwaitPort \/ ResetRobot \/ StartPolicy \/ StartPolicyClient
       \/ PolicyServo
  => RobotInv'
<1> SUFFICES ASSUME LabelInv, RobotInv,
                    StopPolicy \/ AwaitPort \/ ResetRobot \/ StartPolicy
                      \/ StartPolicyClient \/ PolicyServo
             PROVE  RobotInv'
  OBVIOUS
<1> USE DEF RobotInv, SessionTyped, Gate, GateNeedsMotion, Readied, Staged, Stopped,
            Clientless, Prepared, PairedOnly, Closing, Codes, ProcessVars, Frame,
            Halting, Over, Proceed, Exit
<1>0. faults \in Nat /\ MaxFaults \in Nat BY SessionAssumption
<1>1. CASE StopPolicy
  <2>1. /\ client' = None /\ ~robot'["policy"] /\ Calm(robot, robot')
    BY <1>1, ClientStep DEF StopPolicy
  <2> QED BY <1>0, <1>1, <2>1 DEF StopPolicy, ServerStopped, Calm
<1>2. CASE AwaitPort BY <1>0, <1>2 DEF AwaitPort, MayFail
<1>3. CASE ResetRobot
  <2>1. Command(ResetRound, "policy") BY <1>3 DEF ResetRobot
  <2>2. /\ Calm(robot, robot')
        /\ faults' \in 0..MaxFaults /\ faults' >= faults
        /\ \/ pc' = "policy" /\ code' = code
           \/ pc' = "halt" /\ code' = "error"
    BY <2>1, CommandStep
  <2>3. pc' = "policy" => robot'["gripper"] /\ ~robot'["policy"]
    <3>1. robot \in Robot /\ GateNeedsMotion(robot) BY <1>3 DEF ResetRobot
    <3>2. PICK o \in CommandOutcomes(ResetRound, robot, client # None) :
            robot' = o.robot /\ (o.ok \/ pc' = "halt")
      BY <2>1 DEF Command
    <3> QED BY <3>1, <3>2, ResetRoundReadies
  <2> QED BY <1>0, <1>3, <2>2, <2>3 DEF ResetRobot, Calm
<1>4. CASE StartPolicy
  <2>1. mode \in Modes BY DEF LabelInv, InTurn
  <2> QED BY <1>0, <1>4, <2>1 DEF StartPolicy, StartServer, ServerStarted, MayFail
<1>5. CASE StartPolicyClient
  BY <1>0, <1>5 DEF StartPolicyClient, StartClient, ClientStarted, MayFail
<1>6. CASE PolicyServo
  <2>1. Command(EnterServo, "ready") BY <1>6 DEF PolicyServo
  <2>2. /\ Calm(robot, robot')
        /\ faults' \in 0..MaxFaults /\ faults' >= faults
        /\ \/ pc' = "ready" /\ code' = code
           \/ pc' = "halt" /\ code' = "error"
    BY <2>1, CommandStep
  <2>3. robot["gripper"] => robot'["gripper"]
    BY <2>1, ServoKeepsGripper DEF Command
  <2> QED BY <1>0, <1>6, <2>2, <2>3 DEF PolicyServo, Calm
<1> QED BY <1>1, <1>2, <1>3, <1>4, <1>5, <1>6

\* The trap.
LEMMA HaltRobot == RobotInv /\ (Halt \/ Interrupt) => RobotInv'
<1> SUFFICES ASSUME RobotInv, Halt \/ Interrupt PROVE RobotInv'
  OBVIOUS
<1> USE DEF RobotInv, SessionTyped, Gate, GateNeedsMotion, Readied, Staged, Stopped,
            Clientless, Prepared, PairedOnly, Closing, Codes, ProcessVars, Frame,
            Halting, Over, Proceed, Exit, MonitorStates, RecorderStates
<1>0. faults \in Nat /\ MaxFaults \in Nat BY SessionAssumption
<1>1. CASE HaltRecorder BY <1>0, <1>1 DEF HaltRecorder
<1>2. CASE HaltDelete BY <1>0, <1>2 DEF HaltDelete
<1>3. CASE HaltStack
  <2>1. PICK o \in StopStack(robot, client # None) : robot' = o.robot /\ MayFail(o.bad)
    BY <1>3 DEF HaltStack
  <2>2. /\ o.robot \in Robot /\ o.bad \in Nat
        /\ o.robot["policy"] => robot["policy"]
        /\ ~o.robot["nodes"] /\ ~o.robot["motion"]
        /\ o.robot["power"] => (robot["power"] /\ ~robot["nodes"]) \/ o.bad > 0
    BY StopStackStep
  <2>3. faults' = faults + o.bad /\ faults' <= MaxFaults BY <2>1 DEF MayFail
  <2> QED BY <1>0, <1>3, <2>1, <2>2, <2>3 DEF HaltStack
<1>4. CASE HaltPolicy
  <2>1. /\ client' = None /\ ~robot'["policy"] /\ Calm(robot, robot')
        /\ ~robot["motion"] => ~robot'["motion"]
    BY <1>4, ClientStep DEF HaltPolicy
  <2> QED BY <1>0, <1>4, <2>1 DEF HaltPolicy, Calm
<1>5. CASE Interrupt BY <1>0, <1>5 DEF Interrupt, MayFail
<1> QED BY <1>1, <1>2, <1>3, <1>4, <1>5 DEF Halt

\* What happens around the script.
LEMMA EnvironmentRobot == RobotInv /\ Environment => RobotInv'
<1> SUFFICES ASSUME RobotInv, Environment PROVE RobotInv'
  OBVIOUS
<1> USE DEF RobotInv, SessionTyped, Gate, GateNeedsMotion, Readied, Staged, Stopped,
            Clientless, Prepared, PairedOnly, Closing, Codes, ProcessVars, Frame,
            Halting, Over, MonitorStates, RecorderStates
<1>0. faults \in Nat /\ MaxFaults \in Nat BY SessionAssumption
<1>1. CASE TaskCompletes
  <2> DEFINE x == Stop(robot)
  <2>1. /\ x \in Robot
        /\ \A s \in Parts : x[s] <=> robot[s] /\ s \notin {"policy", "gripper"}
    BY StopOnly
  <2>2. {"policy", "nodes", "power", "motion"} \subseteq Parts BY DEF Parts, Switches
  <2>3. robot' = x BY <1>1 DEF TaskCompletes
  <2> HIDE DEF x
  <2> QED BY <1>0, <1>1, <2>1, <2>2, <2>3 DEF TaskCompletes
<1>2. CASE MonitorEnds BY <1>0, <1>2 DEF MonitorEnds
<1>3. CASE RobotStops
  <2>1. Calm(robot, robot') /\ Gentle(robot, robot') /\ (~robot["motion"] => ~robot'["motion"])
    BY <1>3, ProtectiveStop DEF RobotStops
  <2>2. /\ faults' \in 1..MaxFaults
        /\ UNCHANGED <<pc, code, paired, scene, attempt, current, server, listener,
                       client, queueScene, recorder, monitor>>
    BY <1>0, <1>3 DEF RobotStops, MayFail
  <2> QED BY <1>0, <2>1, <2>2 DEF Calm, Gentle
<1>4. CASE ClientDies
  <2>1. /\ client' = None /\ ~robot'["policy"] /\ Calm(robot, robot')
        /\ ~robot["motion"] => ~robot'["motion"]
    BY <1>4, ClientStep DEF ClientDies
  <2> QED BY <1>0, <1>4, <2>1 DEF ClientDies, Calm, MayFail
<1>5. CASE RecorderSticks BY <1>0, <1>5 DEF RecorderSticks, MayFail
<1>6. CASE SecondLauncher
  <2>1. PICK o \in StopStack(robot, client # None) :
          /\ robot' = IF client = None THEN o.robot ELSE Stop(o.robot)
          /\ MayFail(o.bad + 1)
    BY <1>6 DEF SecondLauncher
  <2>2. /\ o.robot \in Robot /\ Stop(o.robot) \in Robot /\ o.bad \in Nat
        /\ o.robot["policy"] => robot["policy"]
        /\ ~o.robot["nodes"] /\ ~o.robot["motion"]
        /\ ~Stop(o.robot)["policy"] /\ ~Stop(o.robot)["nodes"] /\ ~Stop(o.robot)["motion"]
    BY StopStackStep
  <2>3. /\ robot' \in Robot /\ ~robot'["policy"] /\ ~robot'["nodes"] /\ ~robot'["motion"]
        /\ faults' \in 1..MaxFaults
    <3>1. client = None => ~robot["policy"] OBVIOUS
    <3>2. faults' = faults + (o.bad + 1) /\ faults' <= MaxFaults BY <2>1 DEF MayFail
    <3> QED BY <1>0, <2>1, <2>2, <3>1, <3>2
  <2> QED BY <1>0, <1>6, <2>3 DEF SecondLauncher
<1>7. CASE ManualStep BY <1>0, <1>7 DEF ManualStep, MayFail
<1>8. CASE \E i \in DOMAIN episodes : Discarded(i) BY <1>0, <1>8 DEF Discarded, MayFail
<1>9. CASE RecorderEnds BY <1>0, <1>9 DEF RecorderEnds, MayFail
<1> QED
  BY <1>1, <1>2, <1>3, <1>4, <1>5, <1>6, <1>7, <1>8, <1>9 DEF Environment

\* RobotInv in every reachable state.
THEOREM RobotInvariant == Spec => []RobotInv
<1>1. RobotInv /\ UNCHANGED vars => RobotInv'
  BY DEF RobotInv, SessionTyped, Gate, Readied, Staged, Stopped, vars, sessionVars
<1>2. SessionInv /\ LabelInv /\ RobotInv /\ Scripted => RobotInv'
  BY StartupRobot, RoundRobot, BetweenRobot, PolicyRobot, HaltRobot DEF Scripted
<1>3. SessionInv /\ LabelInv /\ RobotInv /\ Operator => RobotInv'
  BY StartupRobot, RoundRobot, BetweenRobot, HaltRobot DEF Operator
<1>4. SessionInv /\ LabelInv /\ RobotInv /\ [Next]_vars => RobotInv'
  BY <1>1, <1>2, <1>3, EnvironmentRobot DEF Next
<1> QED BY <1>4, InitRobot, SessionInvariant, LabelInvariant, PTL DEF Spec

-----------------------------------------------------------------------------
(* A round starts on a robot that is ready. *)

\* The gate is opened in this step.
Opens == ~robot["policy"] /\ robot'["policy"]

\* No step but the one that enables the policy opens the gate.
LEMMA OnlyMoveOpens == RobotInv /\ Next /\ Opens => Move
<1> SUFFICES ASSUME RobotInv, Next, ~robot["policy"], ~Move PROVE ~robot'["policy"]
  BY DEF Opens
<1>0. robot \in Robot BY DEF RobotInv, SessionTyped
<1>1. CASE UNCHANGED robot BY <1>1
<1>2. CASE StartRobotStack
  <2>1. PICK o \in StartStack(robot) : robot' = o.robot BY <1>2 DEF StartRobotStack
  <2>2. "policy" \in Parts \ {"nodes"} BY DEF Parts, Switches
  <2> QED BY <1>0, <2>1, <2>2, StartStackStarts
<1>3. ASSUME NEW command \in {Prepare, EnterServo, DisablePolicy, ResetRound}, NEW line,
             Command(command, line) \/ BestEffort(command, line)
      PROVE  ~robot'["policy"]
  BY <1>3, CommandStep DEF Calm
<1>4. CASE Arm BY <1>1, <1>3, <1>4 DEF Arm
<1>5. CASE Servo \/ PolicyServo BY <1>3, <1>5 DEF Servo, PolicyServo
<1>6. CASE OperatorEnds BY <1>3, <1>6 DEF OperatorEnds
<1>7. CASE CloseRound BY <1>3, <1>7 DEF CloseRound
<1>8. CASE ResetSameMode \/ ResetRobot
  BY <1>3, <1>8 DEF ResetSameMode, ResetRobot
<1>9. CASE ClientStopped BY <1>9, ClientStep
<1>10. CASE HaltStack \/ SecondLauncher
  <2>1. PICK o \in StopStack(robot, client # None) :
          robot' = o.robot \/ robot' = Stop(o.robot)
    BY <1>10 DEF HaltStack, SecondLauncher
  <2> QED BY <2>1, StopStackStep
<1>11. CASE TaskCompletes
  <2>1. robot["policy"] BY <1>11 DEF TaskCompletes
  <2> QED BY <2>1
<1>12. CASE RobotStops BY <1>0, <1>12, ProtectiveStop DEF RobotStops, Calm
<1>13. CASE Scripted
  BY <1>1, <1>2, <1>5, <1>7, <1>8, <1>9, <1>10, <1>13
     DEF Scripted, Launch, FirstClient, StartRecorder, RoundEnds, FinalizeRuns,
         Finalized, FinalizerFails, FlushQueue, StopPolicy, AwaitPort, StartPolicy,
         StartPolicyClient, Halt, HaltRecorder, HaltDelete, HaltPolicy, sessionVars
<1>14. CASE Operator
  BY <1>1, <1>4, <1>6, <1>8, <1>14
     DEF Operator, OperatorAborts, Finish, Label, ChooseMode, PressEnter, Interrupt
<1>15. CASE Environment
  BY <1>1, <1>9, <1>10, <1>11, <1>12, <1>15
     DEF Environment, MonitorEnds, ClientDies, RecorderSticks, RecorderEnds,
         ManualStep, Discarded
<1> QED BY <1>13, <1>14, <1>15 DEF Next

\* What RoundStartsReady says of one step.
Ready == /\ robot'["gripper"] /\ robot'["motion"]
         /\ current = attempt /\ client # None
         /\ ~paired => queueScene = scene

\* The robot was made ready by the lines before, whatever failed in between.
LEMMA MoveIsReady == SessionInv /\ RobotInv /\ Move /\ Opens => Ready
<1> SUFFICES ASSUME SessionInv, RobotInv, Move, Opens PROVE Ready
  OBVIOUS
<1>1. /\ robot \in Robot /\ pc = "move"
      /\ current = None \/ current = attempt
      /\ robot["gripper"] \/ client = None
      /\ ~paired => queueScene = scene
  BY DEF Move, RobotInv, SessionTyped, Staged, Readied, Prepared
<1>2. current # None
  BY <1>1, SessionAssumption, FinalizerAssumption
     DEF SessionInv, Owners, InRound, Attempts
<1>3. PICK o \in CommandOutcomes(EnablePolicy, robot, client # None) : robot' = o.robot
  BY DEF Move, Command, Opens
<1>4. /\ \A s \in Parts \ {"policy"} : o.robot[s] <=> robot[s]
      /\ o.robot["policy"] => robot["policy"] \/ (client # None /\ robot["motion"])
  BY <1>1, EnableNeeds
<1>5. {"gripper", "motion"} \subseteq Parts \ {"policy"} BY DEF Parts, Switches
<1> QED BY <1>1, <1>2, <1>3, <1>4, <1>5 DEF Opens, Ready

(* Whatever failed before, and in whatever order processes die, for any number
   of rounds and of faults: the gate opens only on a robot whose gripper is
   enabled and whose arm may move, for the attempt whose staging directory is
   the current one, with a client that is alive and, within one mode, a chunk
   of this scene. *)
THEOREM RoundsStartReady == Spec => RoundStartsReady
<1>1. SessionInv /\ RobotInv /\ [Next]_vars => [Opens => Ready]_vars
  BY OnlyMoveOpens, MoveIsReady
<1>2. [][Opens => Ready]_vars => RoundStartsReady
  BY PTL DEF Opens, Ready, RoundStartsReady
<1> QED BY <1>1, <1>2, SessionInvariant, RobotInvariant, PTL DEF Spec

-----------------------------------------------------------------------------
(* The session leaves nothing behind. *)

\* The lines at which the session may have a capture.
Holding == InRound \union Saving \union {"halt", "halt_delete", "killed"}

\* Only the current attempt has a staging directory, until it is renamed or
\* removed, and the attempt is current no longer than that.
Cleared ==
  /\ \A c \in Attempts : capture[c].state # "absent" => c = current
  /\ current # None => pc \in Holding
  /\ pc \in Saving /\ job[Session].step \in Renamed \union {"saved", "discarded"}
       => capture[current].state = "absent"

\* A step that leaves captures and jobs alone.
LEMMA QuietCleared ==
  ASSUME Cleared, UNCHANGED <<capture, job, current>>,
         pc' = pc \/ pc' \notin Saving,
         current # None => pc' \in Holding
  PROVE  Cleared'
BY DEF Cleared, Attempts

\* A finalizer makes no staging directory; it has removed the one of its
\* capture when it goes on after the rename.
LEMMA StepClears ==
  ASSUME StoreInv, NEW p \in Finalizers, FinalizerStep(p)
  PROVE  /\ \A c \in Captures : capture'[c].state \in {capture[c].state, "absent"}
         /\ \A c \in Captures \ {job[p].capture} : capture'[c] = capture[c]
         /\ job'[p].step \in Renamed \union {"saved", "discarded"} =>
              \/ job[p].step \in Renamed /\ capture' = capture
              \/ capture'[job[p].capture].state = "absent"
<1> USE DEF StoreInv, Shape, At, Goto, JobFields, Renamed
<1>0. job[p].step \in Active => job[p].capture \in Captures BY DEF Works
<1>1. CASE Convert(p) BY <1>0, <1>1 DEF Convert, Active
<1>2. CASE Allocate(p) BY <1>2 DEF Allocate
<1>3. CASE Annotate(p) BY <1>0, <1>3 DEF Annotate, Active, Locked
<1>4. CASE Rename(p) BY <1>0, <1>4 DEF Rename, Active, Locked, Absent
<1>5. CASE ListEpisodes(p) BY <1>5 DEF ListEpisodes
<1>6. CASE Publish(p) BY <1>6 DEF Publish
<1>7. CASE Summarise(p) BY <1>7 DEF Summarise
<1> QED BY <1>1, <1>2, <1>3, <1>4, <1>5, <1>6, <1>7 DEF FinalizerStep

\* The lines that create, close, label and delete a capture.
LEMMA CaptureCleared ==
  /\ SessionInv /\ LabelInv /\ Cleared
  /\ StartRecorder \/ CloseRound \/ HaltDelete \/ \E outcome \in Outcomes : Label(outcome)
  => Cleared'
<1> SUFFICES ASSUME SessionInv, LabelInv, Cleared,
                    StartRecorder \/ CloseRound \/ HaltDelete
                      \/ \E outcome \in Outcomes : Label(outcome)
             PROVE  Cleared'
  OBVIOUS
<1> USE DEF Holding, InRound, Saving, Proceed, Exit
<1>0. /\ attempt \in Nat /\ Attempts \subseteq Captures /\ DOMAIN capture = Captures
      /\ None \notin Attempts /\ UNCHANGED Attempts
      /\ \A c \in Captures : DOMAIN capture[c] = {"state", "reward", "label"}
      /\ pc \in InRound => current \in Attempts
      /\ DOMAIN job = Finalizers /\ Session \in Finalizers
  BY SessionAssumption, FinalizerAssumption
     DEF SessionInv, Owners, StoreInv, Shape, Attempts
<1>1. CASE StartRecorder
  <2>1. /\ current = None /\ current' = attempt + 1 /\ pc' \in {"move", "halt"}
        /\ capture' = [capture EXCEPT ![attempt + 1] = [Absent EXCEPT !.state = "unusable"]]
    BY <1>1 DEF StartRecorder, Cleared
  <2>2. \A c \in Attempts : c # attempt + 1 => capture'[c] = capture[c]
    BY <1>0, <2>1
  <2> QED BY <1>0, <2>1, <2>2 DEF Cleared
<1>2. CASE CloseRound
  <2>1. /\ pc' \in {"label", "review"} /\ UNCHANGED <<job, current>>
        /\ \A c \in Attempts : c # current => capture'[c] = capture[c]
    BY <1>0, <1>2 DEF CloseRound, BestEffort, LeftBehind
  <2> QED BY <1>0, <2>1 DEF Cleared
<1>3. CASE HaltDelete
  <2>1. current' = None /\ pc' = "halt_stack" BY <1>3 DEF HaltDelete
  <2>2. \A c \in Attempts : capture'[c].state = "absent"
    BY <1>0, <1>3 DEF HaltDelete, Absent, Cleared
  <2> QED BY <1>0, <2>1, <2>2 DEF Cleared
<1>4. ASSUME NEW outcome \in Outcomes, Label(outcome) PROVE Cleared'
  <2>1. /\ pc \in {"label", "review"} /\ pc' \in Saving /\ current' = current
        /\ current \in Attempts
    BY <1>0, <1>4 DEF Label
  <2>2. CASE outcome = "discard"
    <3>1. capture' = [capture EXCEPT ![current] = Absent]
      BY <1>4, <2>2 DEF Label, Begin
    <3> QED BY <1>0, <2>1, <3>1 DEF Cleared, Absent
  <2>3. CASE outcome # "discard"
    <3>1. capture' = capture /\ job'[Session].step = "convert"
      BY <1>0, <1>4, <2>3 DEF Label, Begin, Idle
    <3> QED BY <1>0, <2>1, <3>1 DEF Cleared, Renamed
  <2> QED BY <2>2, <2>3
<1> QED BY <1>1, <1>2, <1>3, <1>4

\* The session's finalizer, its end, and the signal that ends it.
LEMMA FinalizerCleared ==
  SessionInv /\ LabelInv /\ Cleared /\ (FinalizeRuns \/ Finalized \/ Interrupt) => Cleared'
<1> SUFFICES ASSUME SessionInv, LabelInv, Cleared, FinalizeRuns \/ Finalized \/ Interrupt
             PROVE  Cleared'
  OBVIOUS
<1>0. /\ Attempts \subseteq Captures /\ None \notin Attempts /\ UNCHANGED Attempts
      /\ StoreInv /\ Session \in Finalizers /\ DOMAIN job = Finalizers
  BY SessionAssumption, FinalizerAssumption
     DEF SessionInv, Owners, StoreInv, Shape, Attempts
<1>1. CASE FinalizeRuns
  <2>1. /\ pc \in Saving /\ FinalizerStep(Session) /\ UNCHANGED <<pc, current>>
        /\ job[Session].capture = current /\ current \in Attempts
    BY <1>1 DEF FinalizeRuns, sessionVars, LabelInv, Underway, Saving
  <2>2. /\ \A c \in Captures : capture'[c].state # "absent" => capture[c].state # "absent"
        /\ job'[Session].step \in Renamed \union {"saved", "discarded"} =>
              \/ job[Session].step \in Renamed /\ capture' = capture
              \/ capture'[current].state = "absent"
    BY <1>0, <2>1, StepClears
  <2> QED BY <1>0, <2>1, <2>2 DEF Cleared
<1>2. CASE Finalized
  <2>1. /\ capture[current].state = "absent" /\ capture' = capture
        /\ current' = None /\ pc' \in {"next", "halt"}
    BY <1>2 DEF Finalized, Cleared, Saving, Proceed, Exit
  <2> QED BY <1>0, <2>1 DEF Cleared, Saving
<1>3. CASE Interrupt
  BY <1>0, <1>3 DEF Interrupt, Exit, Cleared, Holding, Saving
<1> QED BY <1>1, <1>2, <1>3

\* Somebody else's finalizer works on a capture that is not the session's.
LEMMA ManualCleared == SessionInv /\ LabelInv /\ Cleared /\ ManualStep => Cleared'
<1> SUFFICES ASSUME SessionInv, LabelInv, Cleared, ManualStep PROVE Cleared'
  OBVIOUS
<1>0. /\ Leftover \in Captures /\ Attempts \subseteq Captures /\ Leftover \notin Attempts
      /\ UNCHANGED <<pc, current, Attempts>>
      /\ StoreInv /\ Manual \in Finalizers /\ Session \in Finalizers \ {Manual}
      /\ DOMAIN job = Finalizers /\ DOMAIN capture = Captures
  BY SessionAssumption, FinalizerAssumption
     DEF ManualStep, SessionInv, StoreInv, Shape, Attempts
<1>1. job'[Session] = job[Session] /\ \A c \in Attempts : capture'[c] = capture[c]
  <2>1. CASE \E outcome \in Outcomes : Begin(Manual, Leftover, outcome)
    BY <1>0, <2>1 DEF Begin
  <2>2. CASE FinalizerStep(Manual)
    <3>1. job[Manual].capture = Leftover
      BY <1>0, <2>2, FinalizerStepIsOwn DEF SessionInv, Owners
    <3> QED BY <1>0, <2>2, <3>1, StepClears, FinalizerStepIsOwn
  <2>3. CASE KillFinalizer(Manual) BY <1>0, <2>3 DEF KillFinalizer, Killed
  <2> QED BY <2>1, <2>2, <2>3 DEF ManualStep
<1>2. pc \in Saving => current \in Attempts BY DEF LabelInv, Underway
<1> QED BY <1>0, <1>1, <1>2 DEF Cleared

\* Each line of the script.
LEMMA ScriptCleared == SessionInv /\ LabelInv /\ Cleared /\ Scripted => Cleared'
<1> SUFFICES ASSUME SessionInv, LabelInv, Cleared, Scripted PROVE Cleared'
  OBVIOUS
<1> USE DEF Proceed, Exit, ProcessVars, Frame, storeVars, Holding, Saving, InRound
<1>0. current # None => pc \in Holding BY DEF Cleared
<1>1. CASE Launch BY <1>0, <1>1, QuietCleared DEF Launch
<1>2. CASE StartRobotStack BY <1>0, <1>2, QuietCleared DEF StartRobotStack
<1>3. CASE FirstClient BY <1>0, <1>3, QuietCleared DEF FirstClient, StartClient
<1>4. CASE Servo BY <1>0, <1>4, QuietCleared DEF Servo, Command
<1>5. CASE RoundEnds BY <1>0, <1>5, QuietCleared DEF RoundEnds
<1>6. CASE FinalizerFails BY <1>0, <1>6, QuietCleared DEF FinalizerFails
<1>7. CASE FlushQueue BY <1>0, <1>7, QuietCleared DEF FlushQueue
<1>8. CASE StopPolicy BY <1>0, <1>8, QuietCleared DEF StopPolicy
<1>9. CASE AwaitPort BY <1>0, <1>9, QuietCleared DEF AwaitPort
<1>10. CASE ResetRobot BY <1>0, <1>10, QuietCleared DEF ResetRobot, Command
<1>11. CASE StartPolicy BY <1>0, <1>11, QuietCleared DEF StartPolicy, StartServer
<1>12. CASE StartPolicyClient
  BY <1>0, <1>12, QuietCleared DEF StartPolicyClient, StartClient
<1>13. CASE PolicyServo BY <1>0, <1>13, QuietCleared DEF PolicyServo, Command
<1>14. CASE HaltRecorder BY <1>0, <1>14, QuietCleared DEF HaltRecorder
<1>15. CASE HaltStack BY <1>0, <1>15, QuietCleared DEF HaltStack
<1>16. CASE HaltPolicy BY <1>0, <1>16, QuietCleared DEF HaltPolicy
<1> QED
  BY <1>1, <1>2, <1>3, <1>4, <1>5, <1>6, <1>7, <1>8, <1>9, <1>10, <1>11, <1>12, <1>13,
     <1>14, <1>15, <1>16, CaptureCleared, FinalizerCleared DEF Scripted, Halt

\* Each action of the operator.
LEMMA OperatorCleared == SessionInv /\ LabelInv /\ Cleared /\ Operator => Cleared'
<1> SUFFICES ASSUME SessionInv, LabelInv, Cleared, Operator PROVE Cleared'
  OBVIOUS
<1> USE DEF Proceed, Exit, ProcessVars, Frame, storeVars, Holding, Saving, InRound
<1>0. current # None => pc \in Holding BY DEF Cleared
<1>1. CASE Arm BY <1>0, <1>1, QuietCleared DEF Arm, Command
<1>2. CASE Move BY <1>0, <1>2, QuietCleared DEF Move, Command
<1>3. CASE OperatorEnds BY <1>0, <1>3, QuietCleared DEF OperatorEnds, BestEffort
<1>4. CASE OperatorAborts BY <1>0, <1>4, QuietCleared DEF OperatorAborts
<1>5. CASE Finish BY <1>0, <1>5, QuietCleared DEF Finish
<1>6. CASE ResetSameMode BY <1>0, <1>6, QuietCleared DEF ResetSameMode, Command
<1>7. CASE \E m \in Modes : ChooseMode(m) BY <1>0, <1>7, QuietCleared DEF ChooseMode
<1>8. CASE PressEnter BY <1>0, <1>8, QuietCleared DEF PressEnter
<1> QED
  BY <1>1, <1>2, <1>3, <1>4, <1>5, <1>6, <1>7, <1>8, CaptureCleared, FinalizerCleared
     DEF Operator

\* Each step of the robot and of other processes.
LEMMA EnvironmentCleared == SessionInv /\ LabelInv /\ Cleared /\ Environment => Cleared'
<1> SUFFICES ASSUME SessionInv, LabelInv, Cleared, Environment PROVE Cleared'
  OBVIOUS
<1> USE DEF ProcessVars, Frame, storeVars
<1>0. current # None => pc \in Holding BY DEF Cleared
<1>1. CASE TaskCompletes BY <1>0, <1>1, QuietCleared DEF TaskCompletes
<1>2. CASE MonitorEnds BY <1>0, <1>2, QuietCleared DEF MonitorEnds
<1>3. CASE RobotStops BY <1>0, <1>3, QuietCleared DEF RobotStops
<1>4. CASE ClientDies BY <1>0, <1>4, QuietCleared DEF ClientDies
<1>5. CASE RecorderSticks BY <1>0, <1>5, QuietCleared DEF RecorderSticks
<1>6. CASE SecondLauncher BY <1>0, <1>6, QuietCleared DEF SecondLauncher
<1>7. CASE \E i \in DOMAIN episodes : Discarded(i)
  BY <1>0, <1>7, QuietCleared DEF Discarded, DeleteEpisode
<1>8. CASE RecorderEnds
  <2>1. /\ UNCHANGED <<pc, job, current>>
        /\ \A c \in Attempts : c # current => capture'[c] = capture[c]
    <3>1. Attempts \subseteq Captures /\ DOMAIN capture = Captures
      BY SessionAssumption DEF Attempts, SessionInv, StoreInv, Shape
    <3> QED BY <1>8, <3>1 DEF RecorderEnds, LeftBehind
  <2>2. CASE pc \notin Saving
    BY <1>0, <2>1, <2>2 DEF Cleared, Attempts
  <2>3. CASE pc \in Saving
    <3>1. UNCHANGED capture BY <1>8, <2>3 DEF RecorderEnds, Saving
    <3> QED BY <1>0, <2>1, <3>1, QuietCleared
  <2> QED BY <2>2, <2>3
<1> QED
  BY <1>1, <1>2, <1>3, <1>4, <1>5, <1>6, <1>7, <1>8, ManualCleared DEF Environment

\* No attempt has a directory before the first round.
LEMMA InitCleared == Init => Cleared
<1> SUFFICES ASSUME Init PROVE Cleared
  OBVIOUS
<1>1. PICK s \in {"unusable", "usable"} :
        StoreInit([c \in Captures |->
                     IF c = Leftover THEN [Absent EXCEPT !.state = s] ELSE Absent])
  BY DEF Init
<1>2. \A c \in Attempts : capture[c].state = "absent"
  BY <1>1, SessionAssumption DEF StoreInit, Attempts, Absent
<1>3. current = None /\ pc = "launch" BY DEF Init
<1> QED BY <1>2, <1>3 DEF Cleared, Saving

\* Cleared in every reachable state.
THEOREM ClearedInvariant == Spec => []Cleared
<1>1. Cleared /\ UNCHANGED vars => Cleared'
  BY DEF Cleared, vars, storeVars, sessionVars, Attempts
<1>2. SessionInv /\ LabelInv /\ Cleared /\ [Next]_vars => Cleared'
  BY <1>1, ScriptCleared, OperatorCleared, EnvironmentCleared DEF Next
<1> QED BY <1>2, InitCleared, SessionInvariant, LabelInvariant, PTL DEF Spec

(* Whatever fails, dies or is interrupted on the way, and for any number of
   attempts: a session whose trap has run to its end leaves no policy, no moving
   arm, no process and no half-finished capture of its own behind, and no power
   unless something had failed. *)
THEOREM NothingIsLeft == Spec => []NothingSurvives
<1>1. RobotInv /\ Cleared => NothingSurvives
  <2> SUFFICES ASSUME RobotInv, Cleared, pc = "done" PROVE NothingSurvives
    BY DEF NothingSurvives
  <2>1. current = None BY DEF Cleared, Holding, InRound, Saving
  <2>2. \A c \in Attempts : capture[c].state = "absent"
    BY <2>1, SessionAssumption, FinalizerAssumption DEF Cleared, Attempts
  <2>3. faults \in Nat /\ (robot["power"] => robot["nodes"] \/ faults > 0)
    BY DEF RobotInv, SessionTyped, Gate
  <2> QED BY <2>2, <2>3 DEF RobotInv, Stopped, Closing, NothingSurvives
<1> QED BY <1>1, RobotInvariant, ClearedInvariant, PTL

-----------------------------------------------------------------------------
(* The types of the data set.  The summary never counts more episodes than     *)
(* there are captures, because a capture becomes one episode at most.          *)

\* What a finalizer works on, and for which label.
Jobs ==
  \A p \in Finalizers : /\ job[p].capture \in Captures \union {None}
                        /\ job[p].outcome \in Outcomes \union {None}
                        /\ job[p].step \in Active => job[p].outcome \in Labels

\* A capture that was accepted stays usable until it is renamed.
Converted == {"wait", "annotate", "rename"}
Accepted ==
  \A p \in Finalizers : job[p].step \in Converted => capture[job[p].capture].state = "usable"

\* An episode has its capture to itself, and the staging directory is gone.
Episode == [capture : Captures, reward : Labels, label : Labels]
Moved ==
  \A i \in DOMAIN episodes :
    /\ episodes[i] \in Episode
    /\ capture[episodes[i].capture].state = "absent"
    /\ \A j \in DOMAIN episodes : episodes[j].capture = episodes[i].capture => j = i

\* A list of labels, no longer than there are captures.
Listing(f) == /\ IsFiniteSet(DOMAIN f) /\ Cardinality(DOMAIN f) <= Cardinality(Captures)
              /\ \A i \in DOMAIN f : f[i] \in Labels
Tallied == summary \in [Labels -> 0..Cardinality(Captures)]
Listings == Listing(manifest) /\ \A p \in Finalizers : Listing(job[p].listing)

StoreTyped == /\ capture \in [Captures -> Staging]
              /\ Jobs /\ Accepted /\ Moved /\ Listings /\ Tallied

\* What is not there is a list too.
LEMMA EmptyListing == Listing(<< >>)
<1>1. DOMAIN << >> = {} OBVIOUS
<1>2. Cardinality(Captures) \in Nat BY FinalizerAssumption, FS_CardinalityType
<1> QED BY <1>1, <1>2, FS_EmptySet DEF Listing

\* The labels of the episodes are such a list: their captures are distinct.
LEMMA EpisodesAreFew ==
  ASSUME Moved
  PROVE  Listing([i \in DOMAIN episodes |-> episodes[i].label])
<1> DEFINE D == DOMAIN episodes
           f == [i \in D |-> episodes[i].capture]
<1>1. \A i \in D : /\ episodes[i].capture \in Captures /\ episodes[i].label \in Labels
                   /\ \A j \in D : episodes[j].capture = episodes[i].capture => j = i
  BY DEF Moved, Episode
<1> HIDE DEF D
<1>2. f \in Injection(D, Captures) BY <1>1 DEF Injection, IsInjective
<1>3. IsFiniteSet(D) /\ Cardinality(D) <= Cardinality(Captures)
  <2> HIDE DEF f
  <2> QED BY <1>2, FinalizerAssumption, FS_Injection
<1>4. Listing([i \in D |-> episodes[i].label]) BY <1>1, <1>3 DEF Listing
<1> QED BY <1>4 DEF D

\* The counts of such a list are bounded by the number of captures.
LEMMA CountsAreFew ==
  ASSUME NEW f, Listing(f)
  PROVE  Count(f) \in [Labels -> 0..Cardinality(Captures)]
<1>1. Cardinality(Captures) \in Nat BY FinalizerAssumption, FS_CardinalityType
<1>2. ASSUME NEW l \in Labels
      PROVE  Cardinality({i \in DOMAIN f : f[i] = l}) \in 0..Cardinality(Captures)
  <2> DEFINE S == {i \in DOMAIN f : f[i] = l}
  <2>1. IsFiniteSet(DOMAIN f) /\ Cardinality(DOMAIN f) <= Cardinality(Captures)
    BY DEF Listing
  <2>2. S \in SUBSET DOMAIN f OBVIOUS
  <2> HIDE DEF S
  <2>3. IsFiniteSet(S) /\ Cardinality(S) <= Cardinality(DOMAIN f)
    BY <2>1, <2>2, FS_Subset
  <2>4. Cardinality(S) \in Nat /\ Cardinality(DOMAIN f) \in Nat
    BY <2>1, <2>3, FS_CardinalityType
  <2>5. Cardinality(S) \in 0..Cardinality(Captures) BY <1>1, <2>1, <2>3, <2>4
  <2> QED BY <2>5 DEF S
<1> QED BY <1>2 DEF Count

\* A job moves on, or is given up or begun, and at most the directory of its
\* capture is written to or removed.
LEMMA JobTyped ==
  ASSUME StoreInv, StoreTyped, NEW p \in Finalizers, NEW d,
         \A q \in Finalizers \ {p} : job'[q] = job[q],
         job'[p].capture \in Captures \union {None},
         job'[p].outcome \in Outcomes \union {None},
         job'[p].step \in Active => job'[p].outcome \in Labels,
         job'[p].step \in Converted => capture'[job'[p].capture].state = "usable",
         Listing(job'[p].listing),
         capture' \in [Captures -> Staging],
         \A x \in Captures \ {d} : capture'[x] = capture[x],
         d \in Captures => capture'[d].state \in {capture[d].state, "absent"},
         \A q \in Finalizers \ {p} : job[q].step \in Active => job[q].capture # d,
         episodes' = episodes, Listing(manifest'), Tallied'
  PROVE  StoreTyped'
<1>1. Jobs'
  <2> SUFFICES ASSUME NEW q \in Finalizers
               PROVE  /\ job'[q].capture \in Captures \union {None}
                      /\ job'[q].outcome \in Outcomes \union {None}
                      /\ job'[q].step \in Active => job'[q].outcome \in Labels
    BY DEF Jobs
  <2>1. CASE q # p BY <2>1 DEF StoreTyped, Jobs
  <2> QED BY <2>1
<1>2. Accepted'
  <2> SUFFICES ASSUME NEW q \in Finalizers, job'[q].step \in Converted
               PROVE  capture'[job'[q].capture].state = "usable"
    BY DEF Accepted
  <2>1. CASE q # p
    <3>1. job'[q] = job[q] /\ job[q].step \in Active /\ job[q].step \in Converted
      BY <2>1 DEF Converted, Active, Locked
    <3>2. job[q].capture \in Captures \ {d} BY <2>1, <3>1 DEF StoreInv, Works
    <3> QED BY <3>1, <3>2 DEF StoreTyped, Accepted
  <2> QED BY <2>1
<1>3. Moved'
  <2> SUFFICES ASSUME NEW i \in DOMAIN episodes
               PROVE  capture'[episodes[i].capture].state = "absent"
    BY DEF StoreTyped, Moved
  <2>1. episodes[i].capture \in Captures /\ capture[episodes[i].capture].state = "absent"
    BY DEF StoreTyped, Moved, Episode
  <2> QED BY <2>1
<1>4. Listings'
  <2>1. \A q \in Finalizers : Listing(job'[q].listing) BY DEF StoreTyped, Listings
  <2> QED BY <2>1 DEF Listings
<1> QED BY <1>1, <1>2, <1>3, <1>4 DEF StoreTyped

\* Nothing is at work on a directory that is written by somebody else; it is
\* not one that has become an episode, or it is removed.
LEMMA CaptureTyped ==
  ASSUME StoreInv, StoreTyped, NEW d, capture' \in [Captures -> Staging],
         \A x \in Captures \ {d} : capture'[x] = capture[x],
         \A q \in Finalizers : job[q].step \in Active => job[q].capture # d,
         \/ d \in Captures => capture'[d].state = "absent"
         \/ \A i \in DOMAIN episodes : episodes[i].capture # d,
         UNCHANGED <<episodes, manifest, summary, job>>
  PROVE  StoreTyped'
<1>1. Accepted'
  <2> SUFFICES ASSUME NEW q \in Finalizers, job[q].step \in Converted
               PROVE  capture'[job[q].capture].state = "usable"
    BY DEF Accepted
  <2>1. job[q].step \in Active BY DEF Converted, Active, Locked
  <2>2. job[q].capture \in Captures \ {d} BY <2>1 DEF StoreInv, Works
  <2> QED BY <2>2 DEF StoreTyped, Accepted
<1>2. Moved'
  <2> SUFFICES ASSUME NEW i \in DOMAIN episodes
               PROVE  capture'[episodes[i].capture].state = "absent"
    BY DEF StoreTyped, Moved
  <2>1. episodes[i].capture \in Captures /\ capture[episodes[i].capture].state = "absent"
    BY DEF StoreTyped, Moved, Episode
  <2> QED BY <2>1
<1>3. Jobs' /\ Listings' /\ Tallied'
  BY DEF StoreTyped, Jobs, Listings, Listing, Tallied
<1> QED BY <1>1, <1>2, <1>3 DEF StoreTyped

\* The field of a directory that is written stays in its type.
LEMMA WrittenStays ==
  ASSUME capture \in [Captures -> Staging], NEW c \in Captures,
         NEW f \in {"reward", "label"}, NEW v \in Labels,
         capture' = [capture EXCEPT ![c] = [@ EXCEPT ![f] = v]]
  PROVE  /\ capture' \in [Captures -> Staging]
         /\ \A x \in Captures \ {c} : capture'[x] = capture[x]
         /\ capture'[c].state = capture[c].state
<1>1. capture[c] \in Staging OBVIOUS
<1>2. [capture[c] EXCEPT ![f] = v] \in Staging
  BY <1>1 DEF Staging
<1>3. [capture[c] EXCEPT ![f] = v].state = capture[c].state
  BY <1>1 DEF Staging
<1> QED BY <1>2, <1>3

\* A step of a finalizer, except the rename.
LEMMA StepTyped ==
  ASSUME StoreInv, StoreTyped, NEW p \in Finalizers, FinalizerStep(p), ~Rename(p)
  PROVE  StoreTyped'
<1> DEFINE c == job[p].capture
           s == job'[p].step
<1>1. /\ job[p].step \in Active /\ c \in Captures
      /\ \A q \in Finalizers \ {p} : job[q].step \in Active => job[q].capture # c
      /\ \A q \in Finalizers \ {p} : job'[q] = job[q]
      /\ job'[p].capture = c
      /\ job'[p].outcome = job[p].outcome /\ job[p].outcome \in Labels
      /\ DOMAIN job = Finalizers /\ DOMAIN job[p] = JobFields
  <2>1. job[p].step \in Active BY FinalizerStepIsOwn
  <2> QED
    BY <2>1, FinalizerStepIsOwn, StepsForward DEF StoreInv, Works, Shape, StoreTyped, Jobs
<1>2. /\ Listing(manifest) /\ Listing(job[p].listing) /\ Tallied
      /\ capture \in [Captures -> Staging]
      /\ job[p].step \in Converted => capture[c].state = "usable"
  BY DEF StoreTyped, Listings, Accepted
<1>3. ASSUME /\ capture' \in [Captures -> Staging]
             /\ \A x \in Captures \ {c} : capture'[x] = capture[x]
             /\ capture'[c].state = capture[c].state
             /\ s \in Converted => capture[c].state = "usable"
             /\ episodes' = episodes
             /\ Listing(manifest') /\ Tallied' /\ Listing(job'[p].listing)
      PROVE  StoreTyped'
  <2> HIDE DEF c
  <2>1. /\ capture'[c].state \in {capture[c].state, "absent"}
        /\ s \in Converted => capture'[job'[p].capture].state = "usable"
        /\ job'[p].capture \in Captures \union {None}
        /\ job'[p].outcome \in Outcomes \union {None}
        /\ s \in Active => job'[p].outcome \in Labels
    BY <1>1, <1>3 DEF Outcomes
  <2> QED BY <1>1, <1>3, <2>1, JobTyped
<1> HIDE DEF Listing, Staging
<1>4. CASE Convert(p)
  <2>1. job'[p].listing = job[p].listing /\ episodes' = episodes /\ manifest' = manifest
        /\ Tallied'
    BY <1>1, <1>2, <1>4 DEF Convert, Goto, JobFields, Tallied
  <2>2. CASE capture[c].state = "usable"
    <3>1. capture' = [capture EXCEPT ![c] = [@ EXCEPT !["reward"] = job[p].outcome]]
      BY <1>4, <2>2 DEF Convert
    <3> QED BY <1>1, <1>2, <1>3, <2>1, <2>2, <3>1, WrittenStays
  <2>3. CASE capture[c].state # "usable"
    <3>1. capture' = capture /\ s = "failed"
      BY <1>1, <1>4, <2>3 DEF Convert, Goto, JobFields
    <3> QED BY <1>1, <1>2, <1>3, <2>1, <3>1 DEF Converted
  <2> QED BY <2>2, <2>3
<1>5. CASE Allocate(p)
  <2>1. /\ job'[p].listing = job[p].listing /\ job[p].step \in Converted
        /\ UNCHANGED <<capture, episodes, manifest, summary>>
    BY <1>1, <1>5 DEF Allocate, At, JobFields, Converted
  <2> QED BY <1>1, <1>2, <1>3, <2>1 DEF Tallied
<1>6. CASE Annotate(p)
  <2>1. /\ job'[p].listing = job[p].listing /\ job[p].step \in Converted
        /\ UNCHANGED <<episodes, manifest, summary>>
        /\ capture' = [capture EXCEPT ![c] = [@ EXCEPT !["label"] = job[p].outcome]]
    BY <1>1, <1>6 DEF Annotate, At, Goto, JobFields, Converted
  <2> QED BY <1>1, <1>2, <1>3, <2>1, WrittenStays DEF Tallied
<1>7. CASE ListEpisodes(p)
  <2>1. /\ job'[p].listing = [i \in DOMAIN episodes |-> episodes[i].label]
        /\ s = "publish" /\ UNCHANGED <<capture, episodes, manifest, summary>>
    BY <1>1, <1>7 DEF ListEpisodes, JobFields
  <2>2. Listing(job'[p].listing) BY <2>1, EpisodesAreFew DEF StoreTyped
  <2> QED BY <1>1, <1>2, <1>3, <2>1, <2>2 DEF Converted, Tallied
<1>8. CASE Publish(p)
  <2>1. /\ manifest' = job[p].listing /\ job'[p].listing = job[p].listing
        /\ s = "summarise" /\ UNCHANGED <<capture, episodes, summary>>
    BY <1>1, <1>8 DEF Publish, Goto, JobFields
  <2> QED BY <1>1, <1>2, <1>3, <2>1 DEF Converted, Tallied
<1>9. CASE Summarise(p)
  <2>1. /\ summary' = Count(job[p].listing) /\ job'[p].listing = << >>
        /\ s = "saved" /\ UNCHANGED <<capture, episodes, manifest>>
    BY <1>1, <1>9 DEF Summarise, JobFields
  <2>2. Tallied' BY <1>2, <2>1, CountsAreFew DEF Tallied
  <2> QED BY <1>1, <1>2, <1>3, <2>1, <2>2, EmptyListing DEF Converted
<1> QED BY <1>4, <1>5, <1>6, <1>7, <1>8, <1>9 DEF FinalizerStep

\* The rename moves a capture out of the staging directory into the data set.
LEMMA RenameTyped ==
  ASSUME StoreInv, StoreTyped, NEW p \in Finalizers, Rename(p)
  PROVE  StoreTyped'
<1> DEFINE c == job[p].capture
           i == job[p].index
<1>1. /\ job[p].step = "rename" /\ c \in Captures /\ i \notin DOMAIN episodes
      /\ \A q \in Finalizers \ {p} : job[q].step \in Active => job[q].capture # c
      /\ job[p].outcome \in Labels
      /\ DOMAIN job = Finalizers /\ DOMAIN job[p] = JobFields
  BY DEF Rename, At, StoreInv, Works, Shape, Active, Locked, Indices, Above,
         StoreTyped, Jobs
<1>2. /\ capture[c].reward = job[p].outcome /\ capture[c].label = job[p].outcome
      /\ capture[c].state = "usable"
  BY <1>1 DEF StoreInv, Labelled, StoreTyped, Accepted, Converted
<1>3. /\ capture' = [capture EXCEPT ![c] = Absent]
      /\ Goto(p, "list")
      /\ UNCHANGED <<lock, manifest, summary, interrupted>>
      /\ DOMAIN episodes' = DOMAIN episodes \union {i}
      /\ \A j \in DOMAIN episodes : episodes'[j] = episodes[j]
      /\ episodes'[i] = [capture |-> c, reward |-> job[p].outcome, label |-> job[p].outcome]
  BY <1>1, <1>2 DEF Rename
<1>4. /\ capture \in [Captures -> Staging] /\ Absent \in Staging /\ Absent.state = "absent"
  BY DEF StoreTyped, Absent, Staging
<1>5. /\ capture' \in [Captures -> Staging] /\ capture'[c].state = "absent"
      /\ \A x \in Captures \ {c} : capture'[x] = capture[x]
  <2> HIDE DEF Staging, Absent
  <2> QED BY <1>1, <1>3, <1>4
<1>6. /\ \A q \in Finalizers \ {p} : job'[q] = job[q]
      /\ job'[p].step = "list" /\ job'[p].capture = c
      /\ job'[p].outcome = job[p].outcome /\ job'[p].listing = job[p].listing
  BY <1>1, <1>3, GotoShape DEF StoreInv, Steps
<1>7. Jobs'
  <2> SUFFICES ASSUME NEW q \in Finalizers
               PROVE  /\ job'[q].capture \in Captures \union {None}
                      /\ job'[q].outcome \in Outcomes \union {None}
                      /\ job'[q].step \in Active => job'[q].outcome \in Labels
    BY DEF Jobs
  <2>1. CASE q # p BY <1>6, <2>1 DEF StoreTyped, Jobs
  <2>2. CASE q = p BY <1>1, <1>6, <2>2 DEF Outcomes
  <2> QED BY <2>1, <2>2
<1>8. Accepted'
  <2> SUFFICES ASSUME NEW q \in Finalizers, job'[q].step \in Converted
               PROVE  capture'[job'[q].capture].state = "usable"
    BY DEF Accepted
  <2>1. q # p BY <1>6 DEF Converted
  <2>2. job'[q] = job[q] /\ job[q].step \in Active /\ job[q].step \in Converted
    BY <1>6, <2>1 DEF Converted, Active, Locked
  <2>3. job[q].capture \in Captures \ {c} BY <1>1, <2>1, <2>2 DEF StoreInv, Works
  <2> QED BY <1>5, <2>2, <2>3 DEF StoreTyped, Accepted
<1>9. Moved'
  <2>1. \A j \in DOMAIN episodes :
          /\ episodes[j] \in Episode /\ episodes[j].capture \in Captures \ {c}
          /\ capture[episodes[j].capture].state = "absent"
          /\ \A k \in DOMAIN episodes : episodes[k].capture = episodes[j].capture => k = j
    BY <1>2 DEF StoreTyped, Moved, Episode
  <2>2. episodes'[i] \in Episode /\ episodes'[i].capture = c
    BY <1>1, <1>3 DEF Episode
  <2> QED BY <1>1, <1>3, <1>5, <2>1, <2>2 DEF Moved
<1>10. Listings'
  BY <1>3, <1>6 DEF StoreTyped, Listings
<1>11. Tallied' BY <1>3 DEF StoreTyped, Tallied
<1> QED BY <1>5, <1>7, <1>8, <1>9, <1>10, <1>11 DEF StoreTyped

\* A finalization begins, or a capture is discarded.
LEMMA BeginTyped ==
  ASSUME StoreInv, StoreTyped, NEW p \in Finalizers, NEW c \in Captures,
         NEW outcome \in Outcomes, Begin(p, c, outcome),
         \A q \in Finalizers \ {p} : job[q].step \in Active => job[q].capture # c
  PROVE  StoreTyped'
<1>1. /\ \A q \in Finalizers \ {p} : job'[q] = job[q]
      /\ job'[p].capture = c /\ job'[p].outcome = outcome /\ job'[p].listing = << >>
      /\ job'[p].step = IF outcome = "discard" THEN "discarded" ELSE "convert"
      /\ UNCHANGED <<episodes, manifest, summary>>
  BY DEF Begin, StoreInv, Shape, Idle
<1>2. Listing(job'[p].listing) BY <1>1, EmptyListing
<1>3. /\ job'[p].step \notin Converted
      /\ job'[p].step \in Active => job'[p].outcome \in Labels
  BY <1>1 DEF Converted, Active, Locked, Outcomes
<1>4. /\ capture \in [Captures -> Staging] /\ Absent \in Staging /\ Absent.state = "absent"
      /\ Listing(manifest') /\ Tallied'
  BY <1>1 DEF StoreTyped, Absent, Staging, Listings, Tallied
<1>5. /\ capture' \in [Captures -> Staging]
      /\ \A x \in Captures \ {c} : capture'[x] = capture[x]
      /\ capture'[c].state \in {capture[c].state, "absent"}
  <2>1. capture' = capture \/ capture' = [capture EXCEPT ![c] = Absent] BY DEF Begin
  <2> HIDE DEF Staging, Absent
  <2> QED BY <1>4, <2>1
<1> QED BY <1>1, <1>2, <1>3, <1>4, <1>5, JobTyped

\* A finalizer that is killed, or whose result has been taken, drops its list.
LEMMA LeavingTyped ==
  ASSUME StoreInv, StoreTyped, NEW p \in Finalizers,
         \/ Killed(p)
         \/ job' = [job EXCEPT ![p] = Idle],
         UNCHANGED <<capture, episodes, manifest, summary>>
  PROVE  StoreTyped'
<1>1. /\ \A q \in Finalizers \ {p} : job'[q] = job[q]
      /\ job'[p].listing = << >>
      /\ job'[p].step \in {"failed", "idle"}
      /\ job'[p].capture \in {None, job[p].capture}
      /\ job'[p].outcome \in {None, job[p].outcome}
  BY DEF Killed, StoreInv, Shape, Idle, JobFields
<1>2. Listing(job'[p].listing) BY <1>1, EmptyListing
<1>3. job'[p].step \notin Converted /\ job'[p].step \notin Active
  BY <1>1 DEF Converted, Active, Locked
<1>4. /\ job'[p].capture \in Captures \union {None}
      /\ job'[p].outcome \in Outcomes \union {None}
      /\ Listing(manifest') /\ Tallied'
      /\ capture' \in [Captures -> Staging]
  BY <1>1 DEF StoreTyped, Jobs, Listings, Tallied
<1>5. None \notin Captures BY FinalizerAssumption
<1>6. \A q \in Finalizers \ {p} : job[q].step \in Active => job[q].capture # None
  BY <1>5 DEF StoreInv, Works
<1> QED BY <1>1, <1>2, <1>3, <1>4, <1>5, <1>6, JobTyped

\* A deletion takes an episode away.
LEMMA DeleteTyped ==
  ASSUME StoreTyped, NEW i \in DOMAIN episodes, DeleteEpisode(i)
  PROVE  StoreTyped'
<1>1. /\ DOMAIN episodes' = DOMAIN episodes \ {i}
      /\ \A j \in DOMAIN episodes' : episodes'[j] = episodes[j]
      /\ UNCHANGED <<capture, manifest, summary, job>>
  BY DEF DeleteEpisode, Restrict
<1>2. Moved' BY <1>1 DEF StoreTyped, Moved
<1>3. Jobs' /\ Accepted' /\ Listings' /\ Tallied'
  BY <1>1 DEF StoreTyped, Jobs, Accepted, Listings, Listing, Tallied
<1> QED BY <1>1, <1>2, <1>3 DEF StoreTyped

\* A step that leaves the data set alone.
LEMMA QuietTyped == StoreTyped /\ UNCHANGED storeVars => StoreTyped'
BY DEF StoreTyped, storeVars, Jobs, Accepted, Moved, Listings, Listing, Tallied

\* The recorder and the trap write to the directory of an attempt without a
\* label, which is no episode, or remove it.
LEMMA AttemptTyped ==
  /\ SessionInv /\ LabelInv /\ StoreTyped
  /\ StartRecorder \/ CloseRound \/ RecorderEnds \/ HaltDelete
  => StoreTyped'
<1> SUFFICES ASSUME SessionInv, LabelInv, StoreTyped,
                    StartRecorder \/ CloseRound \/ RecorderEnds \/ HaltDelete
             PROVE  StoreTyped'
  OBVIOUS
<1>0. /\ StoreInv /\ attempt \in Nat /\ Attempts \subseteq Captures /\ None \notin Captures
      /\ Leftover \notin Attempts
      /\ pc \in InRound => current \in Attempts
      /\ current \in Attempts \union {None}
      /\ capture \in [Captures -> Staging]
  BY SessionAssumption, FinalizerAssumption
     DEF SessionInv, Owners, Attempts, StoreTyped
<1>1. ASSUME NEW d \in Attempts \union {None}, pc \notin Saving,
             capture' \in [Captures -> Staging],
             \A x \in Captures \ {d} : capture'[x] = capture[x],
             \/ d \in Captures => capture'[d].state = "absent"
             \/ d \in Attempts /\ verdict[d] = None,
             UNCHANGED <<episodes, manifest, summary, job>>
      PROVE  StoreTyped'
  <2>1. \A q \in Finalizers : job[q].step \in Active => job[q].capture # d
    BY <1>1, SessionIsIdle
  <2>2. \/ d \in Captures => capture'[d].state = "absent"
        \/ \A i \in DOMAIN episodes : episodes[i].capture # d
    BY <1>0, <1>1 DEF LabelInv, Faithful, Own
  <2> QED BY <1>0, <1>1, <2>1, <2>2, CaptureTyped
<1>2. CASE StartRecorder
  <2>1. /\ attempt + 1 \in Attempts /\ pc \notin Saving
        /\ capture' = [capture EXCEPT ![attempt + 1] = [Absent EXCEPT !.state = "unusable"]]
        /\ UNCHANGED <<episodes, manifest, summary, job>>
    BY <1>0, <1>2, SessionAssumption DEF StartRecorder, Attempts, Saving
  <2>2. verdict[attempt + 1] = None BY <1>0, <2>1 DEF LabelInv, InTurn
  <2>3. [Absent EXCEPT !.state = "unusable"] \in Staging BY DEF Absent, Staging
  <2>4. /\ capture' \in [Captures -> Staging]
        /\ \A x \in Captures \ {attempt + 1} : capture'[x] = capture[x]
    <3> HIDE DEF Staging, Absent
    <3> QED BY <1>0, <2>1, <2>3
  <2> QED BY <1>1, <2>1, <2>2, <2>4
<1>3. ASSUME pc \in {"watch", "close", "abnormal"},
             NEW s \in {"usable", "unusable"}, LeftBehind(s),
             UNCHANGED <<episodes, manifest, summary, job>>
      PROVE  StoreTyped'
  <2>1. capture' = [capture EXCEPT ![current].state = s] BY <1>3 DEF LeftBehind
  <2>2. /\ pc \notin Saving /\ current \in Attempts /\ verdict[current] = None
        /\ UNCHANGED <<episodes, manifest, summary, job>>
    BY <1>0, <1>3 DEF Saving, InRound, LabelInv, InTurn
  <2>3. [capture[current] EXCEPT !.state = s] \in Staging BY <1>0, <2>2 DEF Staging
  <2>4. /\ capture' \in [Captures -> Staging]
        /\ \A x \in Captures \ {current} : capture'[x] = capture[x]
    <3> HIDE DEF Staging
    <3> QED BY <1>0, <2>1, <2>2, <2>3
  <2> QED BY <1>1, <2>2, <2>4
<1>4. CASE HaltDelete
  <2>1. /\ capture' = IF current = None THEN capture
                                        ELSE [capture EXCEPT ![current] = Absent]
        /\ pc \notin Saving /\ UNCHANGED <<episodes, manifest, summary, job>>
    BY <1>4 DEF HaltDelete, Saving
  <2>2. Absent \in Staging /\ Absent.state = "absent" BY DEF Absent, Staging
  <2>3. /\ capture' \in [Captures -> Staging]
        /\ \A x \in Captures \ {current} : capture'[x] = capture[x]
        /\ current \in Captures => capture'[current].state = "absent"
    <3> HIDE DEF Staging, Absent
    <3> QED BY <1>0, <2>1, <2>2
  <2> QED BY <1>0, <1>1, <2>1, <2>3
<1>5. CASE UNCHANGED storeVars BY <1>5, QuietTyped
<1>6. CASE CloseRound
  <2>1. /\ pc \in {"watch", "close", "abnormal"}
        /\ UNCHANGED <<episodes, manifest, summary, lock, job, interrupted>>
        /\ UNCHANGED capture \/ \E s \in {"usable", "unusable"} : LeftBehind(s)
    BY <1>6 DEF CloseRound
  <2> QED BY <1>3, <1>5, <2>1 DEF storeVars
<1>7. CASE RecorderEnds
  <2>1. /\ UNCHANGED <<episodes, manifest, summary, lock, job, interrupted>>
        /\ \/ UNCHANGED capture
           \/ /\ pc \in {"watch", "close", "abnormal"}
              /\ \E s \in {"usable", "unusable"} : LeftBehind(s)
    BY <1>7 DEF RecorderEnds
  <2> QED BY <1>3, <1>5, <2>1 DEF storeVars
<1> QED BY <1>2, <1>4, <1>6, <1>7

\* Any step of a finalizer.
LEMMA FinalizerStepTyped ==
  ASSUME StoreInv, StoreTyped, NEW p \in Finalizers, FinalizerStep(p)
  PROVE  StoreTyped'
BY StepTyped, RenameTyped

\* What the session's lines do to the data set.
LEMMA ScriptTyped ==
  SessionInv /\ LabelInv /\ StoreTyped /\ (Scripted \/ Operator) => StoreTyped'
<1> SUFFICES ASSUME SessionInv, LabelInv, StoreTyped, Scripted \/ Operator
             PROVE  StoreTyped'
  OBVIOUS
<1>0. StoreInv /\ Session \in Finalizers BY SessionAssumption DEF SessionInv
<1>1. CASE FinalizeRuns BY <1>0, <1>1, FinalizerStepTyped DEF FinalizeRuns
<1>2. CASE Finalized BY <1>0, <1>2, LeavingTyped DEF Finalized
<1>3. CASE Interrupt
  <2>1. CASE Killed(Session)
    BY <1>0, <1>3, <2>1, LeavingTyped DEF Interrupt
  <2>2. CASE UNCHANGED storeVars BY <2>2, QuietTyped
  <2> QED BY <1>3, <2>1, <2>2 DEF Interrupt, storeVars
<1>4. ASSUME NEW outcome \in Outcomes, Label(outcome) PROVE StoreTyped'
  <2>1. pc \notin Saving /\ Begin(Session, current, outcome)
    BY <1>4 DEF Label, Saving
  <2>2. current \in Attempts /\ current \in Captures
    BY <1>4, SessionAssumption DEF Label, SessionInv, Owners, InRound, Attempts
  <2>3. \A q \in Finalizers : job[q].step \in Active => job[q].capture # current
    BY <2>1, <2>2, SessionIsIdle
  <2> QED BY <1>0, <2>1, <2>2, <2>3, BeginTyped
<1>5. CASE UNCHANGED storeVars BY <1>5, QuietTyped
<1>6. CASE Scripted
  BY <1>1, <1>2, <1>5, <1>6, AttemptTyped
     DEF Scripted, Launch, StartRobotStack, FirstClient, Servo, RoundEnds,
         FinalizerFails, FlushQueue, StopPolicy, AwaitPort, ResetRobot, StartPolicy,
         StartPolicyClient, PolicyServo, Halt, HaltRecorder, HaltStack, HaltPolicy
<1>7. CASE Operator
  BY <1>3, <1>4, <1>5, <1>7
     DEF Operator, Arm, Move, OperatorEnds, OperatorAborts, Finish, ResetSameMode,
         ChooseMode, PressEnter
<1> QED BY <1>6, <1>7

\* What other processes do to it.
LEMMA EnvironmentTyped ==
  SessionInv /\ LabelInv /\ StoreTyped /\ Environment => StoreTyped'
<1> SUFFICES ASSUME SessionInv, LabelInv, StoreTyped, Environment PROVE StoreTyped'
  OBVIOUS
<1>0. /\ StoreInv /\ Manual \in Finalizers /\ Session \in Finalizers
      /\ Leftover \in Captures /\ Leftover \notin Attempts
  BY SessionAssumption DEF SessionInv, Attempts
<1>1. CASE ManualStep
  <2>1. ASSUME NEW outcome \in Outcomes, Begin(Manual, Leftover, outcome)
        PROVE  StoreTyped'
    <3>1. \A q \in Finalizers \ {Manual} :
            job[q].step \in Active => job[q].capture # Leftover
      BY <1>0 DEF SessionInv, Owners
    <3> QED BY <1>0, <2>1, <3>1, BeginTyped
  <2>2. CASE FinalizerStep(Manual) BY <1>0, <2>2, FinalizerStepTyped
  <2>3. CASE KillFinalizer(Manual) BY <1>0, <2>3, LeavingTyped DEF KillFinalizer
  <2> QED BY <1>1, <2>1, <2>2, <2>3 DEF ManualStep
<1>2. CASE \E i \in DOMAIN episodes : Discarded(i)
  BY <1>2, DeleteTyped DEF Discarded
<1>3. CASE UNCHANGED storeVars BY <1>3, QuietTyped
<1> QED
  BY <1>1, <1>2, <1>3, AttemptTyped
     DEF Environment, TaskCompletes, MonitorEnds, RobotStops, ClientDies,
         RecorderSticks, SecondLauncher

\* An empty data set.
LEMMA InitTyped == Init => StoreTyped
<1> SUFFICES ASSUME Init PROVE StoreTyped
  OBVIOUS
<1>1. PICK s \in {"unusable", "usable"} :
        StoreInit([c \in Captures |->
                     IF c = Leftover THEN [Absent EXCEPT !.state = s] ELSE Absent])
  BY DEF Init
<1>2. capture \in [Captures -> Staging] BY <1>1 DEF StoreInit, Absent, Staging
<1>3. Jobs /\ Accepted
  BY <1>1 DEF StoreInit, Idle, Jobs, Accepted, Active, Converted, Locked
<1>4. Moved BY <1>1 DEF StoreInit, Moved
<1>5. /\ manifest = << >> /\ summary = Count(<< >>)
      /\ \A p \in Finalizers : job[p].listing = << >>
  BY <1>1 DEF StoreInit, Idle
<1>6. Listings /\ Tallied
  BY <1>5, EmptyListing, CountsAreFew DEF Listings, Tallied
<1> QED BY <1>2, <1>3, <1>4, <1>6 DEF StoreTyped

\* The types of the data set, in every reachable state.
THEOREM StoreTypedInvariant == Spec => []StoreTyped
<1>1. SessionInv /\ LabelInv /\ StoreTyped /\ [Next]_vars => StoreTyped'
  BY ScriptTyped, EnvironmentTyped, QuietTyped DEF Next, vars
<1> QED BY <1>1, InitTyped, SessionInvariant, LabelInvariant, PTL DEF Spec

(* The session and the data set keep their types, for any numbers of attempts,
   captures, finalizers and faults; among them: a monitor runs only while its
   round is watched, the lock is held by the finalizer that is between its index
   and its summary, and the summary counts at most one episode per capture. *)
THEOREM TypesAreKept == Spec => []TypeOK
<1>1. SessionInv /\ RobotInv /\ StoreTyped => TypeOK
  <2> SUFFICES ASSUME SessionInv, RobotInv, StoreTyped PROVE TypeOK
    OBVIOUS
  <2>1. \A i \in DOMAIN episodes :
          episodes[i] \in [capture : Captures, reward : Labels, label : Labels]
    BY DEF StoreTyped, Moved, Episode
  <2>2. \A p \in Finalizers :
          /\ job[p].step \in Steps
          /\ job[p].capture \in Captures \union {None}
          /\ job[p].outcome \in Outcomes \union {None}
          /\ (lock = p) = (job[p].step \in Locked)
    BY DEF StoreTyped, Jobs, SessionInv, StoreInv, Shape, Locking
  <2>3. StoreTypeOK
    BY <2>1, <2>2 DEF StoreTypeOK, StoreTyped, Listings, Listing, Tallied,
                      SessionInv, StoreInv, Shape
  <2> QED
    BY <2>3 DEF TypeOK, RobotInv, SessionTyped, RecorderStates, MonitorStates, Codes
<1> QED BY <1>1, SessionInvariant, RobotInvariant, StoreTypedInvariant, PTL
-----------------------------------------------------------------------------
(* The modes in the notes.  A round that was enabled without a recorder at     *)
(* work leaves nothing the finalizer accepts, so it becomes no episode.        *)

\* The lines of a round whose recorder may still write.
Watched == {"watch", "close", "abnormal"}

\* Whatever is accepted, or is an episode, was recorded from its beginning.
Witnessed ==
  /\ \A c \in Attempts :
       served[c] = None \/ (pc = "move" /\ c = attempt) => capture[c].state # "usable"
  /\ \A i \in DOMAIN episodes :
       episodes[i].capture \in Attempts => served[episodes[i].capture] # None
  /\ pc \in Watched /\ recorder = "recording" => served[attempt] # None

\* A step that makes no capture usable and no episode.
LEMMA QuietWitnessed ==
  ASSUME Witnessed, UNCHANGED <<attempt, served>>,
         \A c \in Attempts : capture'[c].state = "usable" => capture[c].state = "usable",
         \A i \in DOMAIN episodes' : i \in DOMAIN episodes /\ episodes'[i] = episodes[i],
         recorder' \in {recorder, "off", "stuck"},
         pc' \in Watched => pc \in Watched,
         pc' = "move" => pc = "move"
  PROVE  Witnessed'
<1>0. UNCHANGED Attempts BY DEF Attempts
<1>1. \A c \in Attempts :
        served'[c] = None \/ (pc' = "move" /\ c = attempt') => capture'[c].state # "usable"
  BY DEF Witnessed
<1>2. \A i \in DOMAIN episodes' :
        episodes'[i].capture \in Attempts => served'[episodes'[i].capture] # None
  BY DEF Witnessed
<1>3. pc' \in Watched /\ recorder' = "recording" => served'[attempt'] # None
  BY DEF Witnessed
<1> QED BY <1>0, <1>1, <1>2, <1>3 DEF Witnessed

\* An episode is made from a capture that was accepted.
LEMMA StepWitnessed ==
  ASSUME StoreInv, StoreTyped, Witnessed, NEW p \in Finalizers, FinalizerStep(p),
         UNCHANGED <<pc, attempt, served, recorder>>
  PROVE  Witnessed'
<1>0. Attempts \subseteq Captures /\ UNCHANGED Attempts
  BY SessionAssumption DEF Attempts
<1>1. \A c \in Attempts : capture'[c].state = "usable" => capture[c].state = "usable"
  BY <1>0, StepClears
<1>2. CASE Rename(p)
  <2> DEFINE d == job[p].capture
             k == job[p].index
  <2>1. job[p].step = "rename" /\ capture[d].state = "usable"
    BY <1>2 DEF Rename, At, StoreTyped, Accepted, Converted
  <2>2. /\ DOMAIN episodes' = DOMAIN episodes \union {k}
        /\ \A i \in DOMAIN episodes : i # k => episodes'[i] = episodes[i]
        /\ episodes'[k].capture = d
    <3>1. k \notin DOMAIN episodes
      BY <2>1 DEF StoreInv, Shape, Works, Indices, Above, Active, Locked
    <3> QED BY <1>2, <3>1 DEF Rename
  <2>3. d \in Attempts => served[d] # None BY <2>1 DEF Witnessed
  <2> HIDE DEF d, k
  <2>4. \A i \in DOMAIN episodes' :
          episodes'[i].capture \in Attempts => served'[episodes'[i].capture] # None
    BY <2>2, <2>3 DEF Witnessed
  <2> QED BY <1>0, <1>1, <2>4 DEF Witnessed
<1>3. CASE ~Rename(p)
  <2>1. UNCHANGED episodes
    BY <1>3 DEF FinalizerStep, Convert, Allocate, Annotate, ListEpisodes, Publish,
                Summarise
  <2> QED BY <1>1, <2>1, QuietWitnessed
<1> QED BY <1>2, <1>3

\* A recorder that was at work when the round began may leave a usable capture.
LEMMA LeavingWitnessed ==
  ASSUME SessionInv, LabelInv, Witnessed, pc \in Watched, recorder' = "off",
         pc' \in Watched \union {"label", "review"},
         \/ UNCHANGED capture
         \/ recorder = "recording" /\ \E s \in {"usable", "unusable"} : LeftBehind(s),
         UNCHANGED <<episodes, attempt, served>>
  PROVE  Witnessed'
<1>0. /\ UNCHANGED Attempts /\ Attempts \subseteq Captures /\ DOMAIN capture = Captures
      /\ current \in Attempts /\ current = attempt
  BY SessionAssumption
     DEF Attempts, Watched, SessionInv, Owners, InRound, StoreInv, Shape, LabelInv, InTurn
<1>1. \A c \in Attempts : served[c] = None => capture'[c].state # "usable"
  <2>1. CASE UNCHANGED capture BY <2>1 DEF Witnessed
  <2>2. CASE recorder = "recording" /\ \E s \in {"usable", "unusable"} : LeftBehind(s)
    <3>1. served[current] # None BY <1>0, <2>2 DEF Witnessed
    <3>2. \A c \in Attempts \ {current} : capture'[c] = capture[c]
      BY <1>0, <2>2 DEF LeftBehind
    <3> QED BY <3>1, <3>2 DEF Witnessed
  <2> QED BY <2>1, <2>2
<1>2. pc' # "move" BY DEF Watched
<1> QED BY <1>0, <1>1, <1>2 DEF Witnessed

\* The round is served by the client's server, and recorded, or it is not.
LEMMA MoveWitnessed ==
  SessionInv /\ LabelInv /\ ModeInv /\ Witnessed /\ Move => Witnessed'
<1> SUFFICES ASSUME SessionInv, LabelInv, ModeInv, Witnessed, Move PROVE Witnessed'
  OBVIOUS
<1>0. /\ UNCHANGED <<Attempts, storeVars, attempt, recorder>> /\ pc = "move"
      /\ attempt \in Attempts /\ current = attempt
  BY SessionAssumption
     DEF Move, Attempts, SessionInv, Owners, InRound, LabelInv, InTurn
<1>1. CASE pc' # "watch"
  <2>1. UNCHANGED served /\ pc' = "halt"
    BY <1>1 DEF Move, Command, Proceed, Exit
  <2> QED BY <1>0, <2>1, QuietWitnessed DEF Watched, storeVars
<1>2. CASE pc' = "watch"
  <2>1. /\ Command(EnablePolicy, "watch")
        /\ served' = [served EXCEPT ![attempt] =
                        IF recorder = "recording" THEN client ELSE None]
    BY <1>2 DEF Move, Exit
  <2>2. client # None
    <3>1. PICK o \in CommandOutcomes(EnablePolicy, robot, client # None) : o.ok
      BY <1>2, <2>1 DEF Command, Exit
    <3>2. SUFFICES ASSUME client = None PROVE FALSE
      OBVIOUS
    <3>3. o \in CommandOutcomes(EnablePolicy, robot, FALSE) BY <3>1, <3>2
    <3> QED BY <3>1, <3>3, NoClientNoPolicy
  <2>3. \A c \in Attempts : capture[c].state = "usable" =>
                             c # attempt /\ served[c] # None
    BY <1>0 DEF Witnessed
  <2>4. \A c \in Attempts \ {attempt} : served'[c] = served[c] BY <2>1
  <2>5. \A i \in DOMAIN episodes : episodes[i].capture # attempt
    <3>1. verdict[attempt] = None /\ attempt # Leftover
      BY <1>0, SessionAssumption DEF LabelInv, InTurn, InRound, Attempts
    <3> QED BY <3>1 DEF LabelInv, Faithful, Own
  <2>6. recorder = "recording" => served'[attempt] # None
    BY <1>0, <2>1, <2>2 DEF ModeInv, Noting
  <2> QED
    BY <1>0, <1>2, <2>3, <2>4, <2>5, <2>6 DEF Witnessed, storeVars
<1> QED BY <1>1, <1>2

\* The directory of a new round is not usable yet; a directory that is removed
\* or labelled is no episode.
LEMMA DirectoryWitnessed ==
  /\ SessionInv /\ LabelInv /\ Witnessed
  /\ StartRecorder \/ HaltDelete \/ \E outcome \in Outcomes : Label(outcome)
  => Witnessed'
<1> SUFFICES ASSUME SessionInv, LabelInv, Witnessed,
                    StartRecorder \/ HaltDelete \/ \E outcome \in Outcomes : Label(outcome)
             PROVE  Witnessed'
  OBVIOUS
<1> USE DEF Watched, Proceed, Exit
<1>0. /\ UNCHANGED Attempts /\ Attempts \subseteq Captures /\ DOMAIN capture = Captures
      /\ attempt \in Nat /\ None \notin Captures
      /\ pc \in {"label", "review"} => current \in Attempts
  BY SessionAssumption, FinalizerAssumption
     DEF Attempts, SessionInv, Owners, InRound, StoreInv, Shape
<1>1. CASE StartRecorder
  <2>1. /\ attempt' = attempt + 1 /\ pc' \in {"move", "halt"}
        /\ UNCHANGED <<episodes, served>>
        /\ capture' = [capture EXCEPT ![attempt + 1] = [Absent EXCEPT !.state = "unusable"]]
    BY <1>1 DEF StartRecorder
  <2>2. [Absent EXCEPT !.state = "unusable"].state # "usable" BY DEF Absent
  <2>3. \A c \in Attempts : /\ c # attempt + 1 => capture'[c] = capture[c]
                            /\ c = attempt + 1 => capture'[c].state # "usable"
    <3> HIDE DEF Absent
    <3> QED BY <1>0, <2>1, <2>2
  <2> QED BY <1>0, <2>1, <2>3 DEF Witnessed
<1>2. CASE HaltDelete
  <2>1. /\ pc' = "halt_stack" /\ UNCHANGED <<episodes, attempt, served, recorder>>
        /\ capture' = IF current = None THEN capture
                                        ELSE [capture EXCEPT ![current] = Absent]
    BY <1>2 DEF HaltDelete
  <2>2. \A c \in Attempts : capture'[c].state = "usable" => capture[c].state = "usable"
    BY <1>0, <2>1 DEF Absent
  <2> QED BY <2>1, <2>2, QuietWitnessed
<1>3. ASSUME NEW outcome \in Outcomes, Label(outcome) PROVE Witnessed'
  <2>1. /\ pc' \in {"saving", "saving_last"}
        /\ UNCHANGED <<episodes, attempt, served, recorder>>
        /\ capture' = capture \/ capture' = [capture EXCEPT ![current] = Absent]
    BY <1>3 DEF Label, Begin
  <2>2. \A c \in Attempts : capture'[c].state = "usable" => capture[c].state = "usable"
    BY <1>0, <2>1 DEF Absent
  <2> QED BY <2>1, <2>2, QuietWitnessed
<1> QED BY <1>1, <1>2, <1>3

\* Each line of the script.
LEMMA ScriptWitnessed ==
  /\ SessionInv /\ LabelInv /\ RobotInv /\ StoreTyped /\ Witnessed
  /\ Scripted
  => Witnessed'
<1> SUFFICES ASSUME SessionInv, LabelInv, RobotInv, StoreTyped, Witnessed, Scripted
             PROVE  Witnessed'
  OBVIOUS
<1> USE DEF Proceed, Exit, Watched, ProcessVars, Frame, storeVars
<1>1. ASSUME UNCHANGED <<capture, episodes, attempt, served>>,
             recorder' \in {recorder, "off"},
             pc' \in Watched => pc \in Watched,
             pc' # "move"
      PROVE  Witnessed'
  BY <1>1, QuietWitnessed
<1>2. CASE Launch BY <1>1, <1>2 DEF Launch
<1>3. CASE StartRobotStack BY <1>1, <1>3 DEF StartRobotStack
<1>4. CASE FirstClient BY <1>1, <1>4 DEF FirstClient, StartClient
<1>5. CASE Servo BY <1>1, <1>5 DEF Servo, Command
<1>6. CASE RoundEnds BY <1>1, <1>6 DEF RoundEnds
<1>7. CASE CloseRound
  <2>1. /\ pc \in Watched /\ recorder' = "off"
        /\ pc' \in Watched \union {"label", "review"}
        /\ \/ UNCHANGED capture
           \/ recorder \notin {"off", "stuck"}
              /\ \E s \in {"usable", "unusable"} : LeftBehind(s)
        /\ UNCHANGED <<episodes, attempt, served>>
    BY <1>7 DEF CloseRound, BestEffort
  <2>2. recorder \notin {"off", "stuck"} => recorder = "recording"
    BY DEF RobotInv, SessionTyped, RecorderStates
  <2> QED BY <2>1, <2>2, LeavingWitnessed
<1>8. CASE FinalizeRuns
  <2>1. StoreInv /\ Session \in Finalizers BY SessionAssumption DEF SessionInv
  <2> QED BY <1>8, <2>1, StepWitnessed DEF FinalizeRuns, sessionVars
<1>9. CASE Finalized BY <1>1, <1>9 DEF Finalized
<1>10. CASE FinalizerFails BY <1>1, <1>10 DEF FinalizerFails
<1>11. CASE FlushQueue BY <1>1, <1>11 DEF FlushQueue
<1>12. CASE StopPolicy BY <1>1, <1>12 DEF StopPolicy
<1>13. CASE AwaitPort BY <1>1, <1>13 DEF AwaitPort
<1>14. CASE ResetRobot BY <1>1, <1>14 DEF ResetRobot, Command
<1>15. CASE StartPolicy BY <1>1, <1>15 DEF StartPolicy, StartServer
<1>16. CASE StartPolicyClient BY <1>1, <1>16 DEF StartPolicyClient, StartClient
<1>17. CASE PolicyServo BY <1>1, <1>17 DEF PolicyServo, Command
<1>18. CASE HaltRecorder BY <1>1, <1>18 DEF HaltRecorder
<1>19. CASE HaltStack BY <1>1, <1>19 DEF HaltStack
<1>20. CASE HaltPolicy BY <1>1, <1>20 DEF HaltPolicy
<1> QED
  BY <1>2, <1>3, <1>4, <1>5, <1>6, <1>7, <1>8, <1>9, <1>10, <1>11, <1>12, <1>13, <1>14,
     <1>15, <1>16, <1>17, <1>18, <1>19, <1>20, DirectoryWitnessed DEF Scripted, Halt

\* Each action of the operator.
LEMMA OperatorWitnessed ==
  SessionInv /\ LabelInv /\ ModeInv /\ Witnessed /\ Operator => Witnessed'
<1> SUFFICES ASSUME SessionInv, LabelInv, ModeInv, Witnessed, Operator PROVE Witnessed'
  OBVIOUS
<1> USE DEF Proceed, Exit, Watched, ProcessVars, Frame, storeVars
<1>1. ASSUME UNCHANGED <<capture, episodes, attempt, served, recorder>>,
             pc' \in Watched => pc \in Watched,
             pc' # "move"
      PROVE  Witnessed'
  BY <1>1, QuietWitnessed
<1>2. CASE Arm BY <1>1, <1>2 DEF Arm, Command
<1>3. CASE OperatorEnds BY <1>1, <1>3 DEF OperatorEnds, BestEffort
<1>4. CASE OperatorAborts BY <1>1, <1>4 DEF OperatorAborts
<1>5. CASE Finish BY <1>1, <1>5 DEF Finish
<1>6. CASE ResetSameMode BY <1>1, <1>6 DEF ResetSameMode, Command
<1>7. CASE \E m \in Modes : ChooseMode(m) BY <1>1, <1>7 DEF ChooseMode
<1>8. CASE PressEnter BY <1>1, <1>8 DEF PressEnter
<1>9. CASE Interrupt BY <1>1, <1>9 DEF Interrupt
<1> QED
  BY <1>2, <1>3, <1>4, <1>5, <1>6, <1>7, <1>8, <1>9, MoveWitnessed, DirectoryWitnessed
     DEF Operator

\* Other processes: a recorder that ends, a finalizer of the leftover.
LEMMA EnvironmentWitnessed ==
  SessionInv /\ LabelInv /\ StoreTyped /\ Witnessed /\ Environment => Witnessed'
<1> SUFFICES ASSUME SessionInv, LabelInv, StoreTyped, Witnessed, Environment
             PROVE  Witnessed'
  OBVIOUS
<1> USE DEF ProcessVars, Frame, storeVars
<1>0. /\ StoreInv /\ Manual \in Finalizers /\ Leftover \notin Attempts
      /\ Attempts \subseteq Captures /\ DOMAIN capture = Captures
  BY SessionAssumption DEF SessionInv, StoreInv, Shape, Attempts
<1>1. ASSUME UNCHANGED <<pc, attempt, served>>, UNCHANGED <<capture, episodes>>,
             recorder' \in {recorder, "off", "stuck"}
      PROVE  Witnessed'
  BY <1>1, QuietWitnessed
<1>2. CASE TaskCompletes BY <1>1, <1>2 DEF TaskCompletes
<1>3. CASE MonitorEnds BY <1>1, <1>3 DEF MonitorEnds
<1>4. CASE RobotStops BY <1>1, <1>4 DEF RobotStops
<1>5. CASE ClientDies BY <1>1, <1>5 DEF ClientDies
<1>6. CASE RecorderSticks BY <1>1, <1>6 DEF RecorderSticks
<1>7. CASE RecorderEnds
  <2>1. /\ recorder' = "off" /\ UNCHANGED <<pc, episodes, attempt, served>>
        /\ \/ UNCHANGED capture
           \/ /\ recorder = "recording" /\ pc \in Watched
              /\ \E s \in {"usable", "unusable"} : LeftBehind(s)
    BY <1>7 DEF RecorderEnds, Watched
  <2>2. CASE UNCHANGED capture BY <1>1, <2>1, <2>2
  <2>3. CASE ~UNCHANGED capture BY <2>1, <2>3, LeavingWitnessed
  <2> QED BY <2>2, <2>3
<1>8. CASE SecondLauncher BY <1>1, <1>8 DEF SecondLauncher
<1>9. CASE ManualStep
  <2>1. UNCHANGED <<pc, attempt, served, recorder>> BY <1>9 DEF ManualStep
  <2>2. ASSUME NEW outcome \in Outcomes, Begin(Manual, Leftover, outcome)
        PROVE  Witnessed'
    <3>1. /\ UNCHANGED episodes
          /\ capture' = capture \/ capture' = [capture EXCEPT ![Leftover] = Absent]
      BY <2>2 DEF Begin
    <3>2. \A c \in Attempts : capture'[c] = capture[c] BY <1>0, <3>1
    <3> QED BY <2>1, <3>1, <3>2, QuietWitnessed
  <2>3. CASE FinalizerStep(Manual) BY <1>0, <2>1, <2>3, StepWitnessed
  <2>4. CASE KillFinalizer(Manual)
    BY <1>1, <2>1, <2>4 DEF KillFinalizer, Killed
  <2> QED BY <1>9, <2>2, <2>3, <2>4 DEF ManualStep
<1>10. ASSUME NEW i \in DOMAIN episodes, Discarded(i) PROVE Witnessed'
  <2>1. /\ \A j \in DOMAIN episodes' : j \in DOMAIN episodes /\ episodes'[j] = episodes[j]
        /\ UNCHANGED <<pc, attempt, served, recorder, capture>>
    BY <1>10 DEF Discarded, DeleteEpisode, Restrict
  <2> QED BY <2>1, QuietWitnessed
<1> QED
  BY <1>2, <1>3, <1>4, <1>5, <1>6, <1>7, <1>8, <1>9, <1>10 DEF Environment

\* No round has begun.
LEMMA InitWitnessed == Init => Witnessed
<1> SUFFICES ASSUME Init PROVE Witnessed
  OBVIOUS
<1>1. PICK s \in {"unusable", "usable"} :
        StoreInit([c \in Captures |->
                     IF c = Leftover THEN [Absent EXCEPT !.state = s] ELSE Absent])
  BY DEF Init
<1>2. \A c \in Attempts : capture[c].state = "absent"
  BY <1>1, SessionAssumption DEF StoreInit, Attempts, Absent
<1>3. DOMAIN episodes = {} BY <1>1 DEF StoreInit
<1>4. pc = "launch" BY DEF Init
<1> QED BY <1>2, <1>3, <1>4 DEF Witnessed, Watched

\* Witnessed in every reachable state.
THEOREM WitnessedInvariant == Spec => []Witnessed
<1>1. Witnessed /\ UNCHANGED vars => Witnessed'
  BY DEF Witnessed, Watched, vars, storeVars, sessionVars, Attempts
<1>2. /\ SessionInv /\ LabelInv /\ ModeInv /\ RobotInv /\ StoreTyped /\ Witnessed
      /\ [Next]_vars
      => Witnessed'
  BY <1>1, ScriptWitnessed, OperatorWitnessed, EnvironmentWitnessed DEF Next
<1> QED
  BY <1>2, InitWitnessed, SessionInvariant, LabelInvariant, ModeInvariant,
     RobotInvariant, StoreTypedInvariant, PTL DEF Spec

(* However often the server and its port change hands, and whatever becomes of
   the recorder after the script has looked for it: the mode in an episode's
   notes is the mode of the server that drove the robot in it, and a recorder
   was at work when the server's actions began.  A round without one becomes no
   episode. *)
THEOREM NotedModesWereServed == Spec => []NotedModeWasServed
<1>1. LabelInv /\ ModeInv /\ Witnessed => NotedModeWasServed
  <2> SUFFICES ASSUME LabelInv, ModeInv, Witnessed, NEW i \in DOMAIN episodes,
                      episodes[i].capture # Leftover
               PROVE  noted[episodes[i].capture] = served[episodes[i].capture]
    BY DEF NotedModeWasServed
  <2>1. /\ episodes[i].capture \in Attempts
        /\ verdict[episodes[i].capture] # None
    BY DEF LabelInv, Faithful, Own
  <2>2. served[episodes[i].capture] # None BY <2>1 DEF Witnessed
  <2> QED BY <2>1, <2>2 DEF ModeInv, Noting
<1> QED BY <1>1, LabelInvariant, ModeInvariant, WitnessedInvariant, PTL
=============================================================================
