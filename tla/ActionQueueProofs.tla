-------------------------- MODULE ActionQueueProofs --------------------------
(***************************************************************************)
(* The client never skips a time step and never executes an action of an   *)
(* earlier scene, for every size of a chunk and any number of steps and    *)
(* episodes.  The invariant follows a step number, and a scene, on its way *)
(* round: from the observation to the server, into the chunk, the merge,   *)
(* the queue, and the control loop.                                        *)
(***************************************************************************)
EXTENDS ActionQueue, WellFoundedInduction, TLAPS

USE QueueAssumption

\* actions of consecutive time steps, none of them ahead of the trajectory
Run(s)    == \A i \in 1 .. Len(s) : s[i].step = s[1].step + i - 1
NextUp(s) == s # << >> => s[1].step <= reached + 1
Lined(s)  == s \in Seq(Action) /\ Len(s) <= Chunk /\ Run(s) /\ NextUp(s)

\* who holds an observation or a merged chunk
Places ==
  /\ main \in {"must", "stream"} <=> observation # Nothing
  /\ receiver \in {"infer", "merge"} <=> chunk # Nothing
  /\ receiver # "swap" => future = << >>

NotAhead ==
  /\ Lined(queue) /\ Lined(future)
  /\ latest <= reached /\ popped.step <= reached
  /\ \A o \in {observation, waiting, chunk} : o.step <= reached + 1

\* once the queue was reset, only the scene of this episode is on the way
OfScene(s) == \A i \in 1 .. Len(s) : s[i].scene = scene
OneScene ==
  /\ enabled => ros = "idle" /\ episode = "started"
  /\ ros # "idle" => episode = "changed"
  /\ episode # "changed" \/ ros # "idle" =>
       /\ OfScene(queue) /\ OfScene(future)
       /\ \A o \in {observation, waiting, chunk} : o # Nothing => o.scene = scene
       /\ main = "send" => popped.scene = scene

QueueInv == TypeOK /\ Places /\ NotAhead /\ OneScene
------------------------------------------------------------------------------
(* The least of some numbers is one of them.                               *)
LEMMA LeastIsThere ==
  ASSUME NEW S \in SUBSET Nat, S # {}
  PROVE  Min(S) \in S
<1> DEFINE Less == OpToRel(<, Nat)
<1>1. PICK b \in S : \A y \in S : <<y, b>> \notin Less
  BY NatLessThanWellFounded, WFMin
<1>2. \A y \in S : b =< y
  <2> SUFFICES ASSUME NEW y \in S, ~(b =< y) PROVE FALSE
    OBVIOUS
  <2>1. y < b OBVIOUS
  <2>2. <<y, b>> \in Less BY <2>1 DEF OpToRel
  <2> QED BY <2>2, <1>1
<1> QED BY <1>2 DEF Min

(* What an action holds.                                                   *)
LEMMA ActionHolds ==
  ASSUME NEW a \in Action
  PROVE  a.step \in Int /\ a.scene \in 0 .. MaxScene
BY DEF Action

(* A queue in the order of its steps is what TypeOK asks for.              *)
LEMMA LineIsOrdered ==
  ASSUME NEW s \in Seq(Action), Run(s)
  PROVE  \A i \in 2 .. Len(s) : s[i].step = s[i - 1].step + 1
<1>1. Len(s) \in Nat OBVIOUS
<1>2. ASSUME NEW i \in 2 .. Len(s) PROVE s[i].step = s[i - 1].step + 1
  <2>1. i \in 1 .. Len(s) /\ i - 1 \in 1 .. Len(s) /\ 1 \in 1 .. Len(s) BY <1>1
  <2>2. s[i].step = s[1].step + i - 1 /\ s[i - 1].step = s[1].step + (i - 1) - 1
    BY <2>1 DEF Run
  <2>3. s[1] \in Action BY <1>1, <2>1
  <2>4. s[1].step \in Int BY <2>3, ActionHolds
  <2> QED BY <2>2, <2>4
<1> QED BY <1>1, <1>2

(* An empty queue.                                                         *)
LEMMA EmptyIsLine == Lined(<< >>) /\ OfScene(<< >>)
  BY DEF Lined, Run, NextUp, OfScene

(* What is left when the head is executed.                                 *)
LEMMA TailIsLine ==
  ASSUME NEW s, Lined(s), s # << >>, reached' >= s[1].step, reached' \in Int
  PROVE  /\ Head(s) = s[1] /\ s[1] \in Action
         /\ s[1].step <= reached + 1
         /\ Tail(s) \in Seq(Action) /\ Len(Tail(s)) <= Chunk /\ Run(Tail(s))
         /\ Tail(s) # << >> => Tail(s)[1].step <= reached' + 1
         /\ OfScene(s) => OfScene(Tail(s)) /\ s[1].scene = scene
<1>1. s \in Seq(Action) /\ Len(s) <= Chunk /\ Len(s) \in Nat /\ Len(s) >= 1
  BY DEF Lined
<1> DEFINE t == Tail(s)
<1>2. /\ t \in Seq(Action) /\ Len(t) = Len(s) - 1
      /\ \A i \in 1 .. Len(t) : t[i] = s[i + 1]
      /\ Head(s) = s[1] /\ s[1] \in Action
  BY <1>1
<1>3. t # << >> => 1 \in 1 .. Len(t) BY <1>2
<1>4. \A i \in 1 .. Len(t) : s[i + 1].step = s[1].step + (i + 1) - 1
  BY <1>1, <1>2 DEF Lined, Run
<1>5. s[1].step \in Int BY <1>2, ActionHolds
<1>6. \A i \in 1 .. Len(t) : t[i].step = s[1].step + i
  <2> SUFFICES ASSUME NEW i \in 1 .. Len(t) PROVE t[i].step = s[1].step + i
    OBVIOUS
  <2>1. t[i].step = s[1].step + (i + 1) - 1 BY <1>2, <1>4
  <2>2. i \in Int BY <1>1, <1>2
  <2> HIDE DEF t
  <2> QED BY <2>1, <2>2, <1>5
<1>7. t # << >> => t[1].step = s[1].step + 1 BY <1>3, <1>6
<1>8. OfScene(s) => OfScene(t) /\ s[1].scene = scene
  BY <1>1, <1>2 DEF OfScene
<1>9. s[1].step <= reached + 1 BY DEF Lined, NextUp
<1> HIDE DEF t
<1>10. Run(t)
  <2> SUFFICES ASSUME NEW i \in 1 .. Len(t) PROVE t[i].step = t[1].step + i - 1
    BY DEF Run
  <2>1. t # << >> BY <1>2
  <2> QED BY <2>1, <1>2, <1>5, <1>6, <1>7
<1>11. t # << >> => t[1].step <= reached' + 1 BY <1>5, <1>7
<1>12. Len(t) <= Chunk BY <1>1, <1>2
<1> QED BY <1>2, <1>8, <1>9, <1>10, <1>11, <1>12 DEF t

(* What an observation's chunk adds to the queue.                          *)
LEMMA MergedIsLine ==
  ASSUME NEW o \in Observation, queue \in Seq(Action),
         latest \in -1 .. MaxStep, reached \in Int,
         latest <= reached, o.step <= reached + 1
  PROVE  /\ Lined(Merged(o))
         /\ OfScene(queue) /\ o.scene = scene => OfScene(Merged(o))
<1> DEFINE first == IF o.step > latest THEN o.step ELSE latest + 1
           older(n) == {queue[i].scene : i \in {j \in DOMAIN queue : queue[j].step = n}}
           n == o.step + Chunk - first
           m == Merged(o)
<1>1. /\ o.step \in 0 .. MaxStep /\ o.scene \in 0 .. MaxScene
      /\ first \in Int /\ first >= o.step /\ first >= 0 /\ first <= reached + 1
      /\ n \in Int /\ n <= Chunk
  BY DEF Observation
<1>2. m = [i \in 1 .. n |-> [step |-> first + i - 1,
                             scene |-> Min(older(first + i - 1) \cup {o.scene})]]
  BY DEF Merged
<1>3. ASSUME NEW k
      PROVE  /\ Min(older(k) \cup {o.scene}) \in 0 .. MaxScene
             /\ OfScene(queue) /\ o.scene = scene =>
                  Min(older(k) \cup {o.scene}) = scene
  <2> DEFINE S == older(k) \cup {o.scene}
  <2>1. S \subseteq 0 .. MaxScene /\ S # {}
    <3>1. \A j \in DOMAIN queue : queue[j].scene \in 0 .. MaxScene
      BY ActionHolds
    <3> QED BY <1>1, <3>1
  <2>2. OfScene(queue) /\ o.scene = scene => S = {scene} BY DEF OfScene
  <2>3. Min(S) \in S
    <3> HIDE DEF S
    <3> QED BY <2>1, LeastIsThere
  <2> QED BY <2>1, <2>2, <2>3
<1> HIDE DEF first, older
<1>4. \A i \in 1 .. n : m[i] \in Action
  <2> SUFFICES ASSUME NEW i \in 1 .. n PROVE m[i] \in Action
    OBVIOUS
  <2>1. m[i] = [step |-> first + i - 1,
                scene |-> Min(older(first + i - 1) \cup {o.scene})]
    BY <1>2
  <2>2. first + i - 1 \in 0 .. MaxStep + Chunk BY <1>1
  <2>3. Min(older(first + i - 1) \cup {o.scene}) \in 0 .. MaxScene BY <1>3
  <2> HIDE DEF m
  <2> QED BY <2>1, <2>2, <2>3 DEF Action
<1> DEFINE size == IF n < 0 THEN 0 ELSE n
<1>5. 1 .. n = 1 .. size /\ size \in Nat /\ size <= Chunk BY <1>1
<1>6. DOMAIN m = 1 .. size BY <1>2, <1>5
<1>7. m \in [1 .. size -> Action] BY <1>2, <1>4, <1>5
<1>8. m \in Seq(Action) /\ Len(m) = size
  <2> HIDE DEF m, size
  <2>1. m \in Seq(Action) BY <1>5, <1>7
  <2> QED BY <2>1, <1>5, <1>6
<1>9. \A i \in 1 .. Len(m) :
        /\ m[i].step = first + i - 1
        /\ m[i].scene = Min(older(first + i - 1) \cup {o.scene})
  <2> HIDE DEF m, size
  <2> SUFFICES ASSUME NEW i \in 1 .. n
               PROVE  /\ m[i].step = first + i - 1
                      /\ m[i].scene = Min(older(first + i - 1) \cup {o.scene})
    BY <1>5, <1>8
  <2> QED BY <1>2
<1>10. OfScene(queue) /\ o.scene = scene => OfScene(m)
  <2> HIDE DEF m
  <2> QED BY <1>3, <1>9 DEF OfScene
<1>11. m # << >> => 1 \in 1 .. Len(m)
  <2> HIDE DEF m, size
  <2> QED BY <1>8
<1> HIDE DEF m, size
<1>12. Run(m)
  <2> SUFFICES ASSUME NEW i \in 1 .. Len(m) PROVE m[i].step = m[1].step + i - 1
    BY DEF Run
  <2>1. 1 \in 1 .. Len(m) BY <1>8
  <2>2. m[i].step = first + i - 1 /\ m[1].step = first + 1 - 1 BY <1>9, <2>1
  <2>3. first \in Int BY <1>1
  <2> QED BY <2>2, <2>3
<1>13. NextUp(m)
  <2> SUFFICES ASSUME m # << >> PROVE m[1].step <= reached + 1
    BY DEF NextUp
  <2>1. m[1].step = first + 1 - 1 BY <1>9, <1>11
  <2>2. first \in Int /\ first <= reached + 1 BY <1>1
  <2> QED BY <2>1, <2>2
<1> QED BY <1>5, <1>8, <1>10, <1>12, <1>13 DEF Lined, m
------------------------------------------------------------------------------
(* The steps.  Most of them leave the queues and the scene as they are.    *)
Kept == UNCHANGED <<queue, future, reached, scene>>

\* The queues are what they were.
LEMMA LinesStay ==
  ASSUME Kept
  PROVE  /\ Lined(queue) => Lined(queue)'
         /\ Lined(future) => Lined(future)'
         /\ OfScene(queue)' <=> OfScene(queue)
         /\ OfScene(future)' <=> OfScene(future)
BY DEF Kept, Lined, Run, NextUp, OfScene

\* The part of the type invariant that is not about the queues.
Typed ==
  /\ latest \in -1 .. MaxStep
  /\ chunkSize \in {-1, Chunk}
  /\ mustGo \in BOOLEAN /\ ready \in BOOLEAN /\ enabled \in BOOLEAN
  /\ main \in {"loop", "sync_act", "sync_want", "sync_size", "sync_loop",
               "act", "pop", "send", "advance", "want", "size", "observe",
               "must", "stream", "clear"}
  /\ popped \in Action \cup {NoAction}
  /\ observation \in Observation \cup {Nothing}
  /\ sample \in Samples \cup {NoSample} /\ logged \in Samples \cup {NoSample}
  /\ receiver \in {"wait", "infer", "merge", "swap", "must"}
  /\ waiting \in Observation \cup {Nothing}
  /\ chunk \in Observation \cup {Nothing}
  /\ ros \in {"idle", "must"} \cup Samples
  /\ scene \in 0 .. MaxScene
  /\ episode \in {"changed", "prepared", "started"}
  /\ reached \in -1 .. MaxStep

\* With the lines it is the type invariant.
LEMMA TypedIsEnough ==
  /\ TypeOK => Typed
  /\ Typed /\ NotAhead => TypeOK
  /\ Typed' /\ NotAhead' => TypeOK'
<1>1. TypeOK => Typed BY DEF TypeOK, Typed
<1>2. Typed /\ NotAhead => TypeOK
  BY LineIsOrdered DEF Typed, TypeOK, NotAhead, Lined
<1>3. Typed' /\ NotAhead' => TypeOK'
  BY LineIsOrdered DEF Typed, TypeOK, NotAhead, Lined, Run
<1> QED BY <1>1, <1>2, <1>3

\* A measure is one of the two reports.
LEMMA MeasuredIsSample == Measured \in Samples
BY DEF Measured, Samples

(* Steps that pass on what is there: an observation, or nothing.           *)
LEMMA MoveKeeps ==
  ASSUME QueueInv, Kept, UNCHANGED <<ros, operator>>, Typed', Places',
         latest' <= reached, popped'.step <= reached,
         \A o \in {observation', waiting', chunk'} :
           o \in {observation, waiting, chunk, Nothing},
         main' = "send" => main = "send" /\ popped' = popped
  PROVE  QueueInv'
<1>1. -1 <= reached + 1 BY DEF QueueInv, TypeOK
<1>2. NotAhead'
  BY <1>1, LinesStay DEF QueueInv, NotAhead, Kept, Nothing
<1>3. OneScene' BY LinesStay DEF QueueInv, OneScene, operator, Kept
<1> QED BY <1>2, <1>3, TypedIsEnough DEF QueueInv

\* The control loop goes on, measures, or reports.
LEMMA GoesKeeps ==
  ASSUME QueueInv, NEW from, NEW to,
         Goes(from, to) \/ Measure(from, to) \/ Report(from, to),
         to \in {"loop", "sync_act", "sync_want", "sync_size", "sync_loop",
                 "act", "pop", "advance", "want", "size", "observe"},
         from \notin {"must", "stream"}
  PROVE  QueueInv'
<1> USE DEF Goes, Measure, Report
<1>1. Kept /\ UNCHANGED <<ros, operator, latest, popped, observation, waiting, chunk>>
  BY DEF Kept, client, rxVars, operator
<1>2. Typed'
  <2>1. Typed BY TypedIsEnough DEF QueueInv
  <2>2. /\ UNCHANGED <<latest, chunkSize, mustGo, enabled, popped, observation,
                       logged, receiver, waiting, chunk, ros, scene, episode,
                       reached>>
        /\ main' = to
    BY DEF client, rxVars, operator
  <2>3. sample' \in Samples \cup {NoSample} /\ ready' \in BOOLEAN
    BY <2>1, MeasuredIsSample DEF client, Typed
  <2> HIDE DEF Goes, Measure, Report
  <2> QED BY <2>1, <2>2, <2>3 DEF Typed
<1>3. Places' BY DEF QueueInv, Places, rxVars
<1>4. latest' <= reached /\ popped'.step <= reached
  BY <1>1 DEF QueueInv, NotAhead
<1> QED BY <1>1, <1>2, <1>3, <1>4, MoveKeeps

\* The next action leaves the queue.
LEMMA PopKeeps ==
  ASSUME QueueInv, Pop
  PROVE  QueueInv' /\ Head(queue).step <= reached + 1
<1> USE DEF Pop
<1>0. Typed /\ Lined(queue) /\ queue # << >> BY TypedIsEnough DEF QueueInv, NotAhead
<1>1. reached' \in Int /\ reached' >= reached /\ Head(queue).step <= reached'
  <2>1. Head(queue) \in Action BY <1>0 DEF Lined
  <2> QED BY <1>0, <2>1, ActionHolds DEF Typed
<1>2. Head(queue) = queue[1] BY <1>0 DEF Lined
<1>3. /\ queue[1] \in Action /\ queue[1].step <= reached + 1
      /\ Lined(queue)'
      /\ OfScene(queue) => OfScene(queue)' /\ queue[1].scene = scene
  <2> DEFINE t == Tail(queue)
  <2>1. /\ queue[1] \in Action /\ queue[1].step <= reached + 1
        /\ t \in Seq(Action) /\ Len(t) <= Chunk /\ Run(t)
        /\ t # << >> => t[1].step <= reached' + 1
        /\ OfScene(queue) => OfScene(t) /\ queue[1].scene = scene
    BY <1>0, <1>1, <1>2, TailIsLine
  <2>2. queue' = t /\ scene' = scene BY DEF operator
  <2> HIDE DEF t, Pop
  <2> QED BY <2>1, <2>2 DEF Lined, Run, NextUp, OfScene
<1>4. UNCHANGED <<future, scene, latest, observation, waiting, chunk, ros,
                  enabled, episode, receiver>>
  BY DEF rxVars, operator
<1>5. Typed'
  <2>1. popped' \in Action /\ popped'.step < MaxStep BY <1>2, <1>3
  <2>2. reached' \in -1 .. MaxStep BY <1>0, <1>2, <1>3, ActionHolds DEF Typed
  <2>3. UNCHANGED <<chunkSize, mustGo, ready, sample, logged>> /\ main' = "send"
    OBVIOUS
  <2> HIDE DEF Pop
  <2> QED BY <1>0, <1>4, <2>1, <2>2, <2>3 DEF Typed
<1>6. Places' BY <1>4 DEF QueueInv, Places
<1>7. NotAhead'
  <2>1. Lined(future)'
    BY <1>1, <1>4, <1>0, ActionHolds
       DEF QueueInv, NotAhead, Lined, Run, NextUp, Typed
  <2>2. \A o \in {observation, waiting, chunk} :
          o.step <= reached + 1 /\ o.step \in Int
    BY <1>0 DEF QueueInv, NotAhead, Typed, Observation, Nothing
  <2>3. \A o \in {observation', waiting', chunk'} : o.step <= reached' + 1
    BY <1>0, <1>1, <1>4, <2>2 DEF Typed
  <2>4. latest' <= reached' /\ popped'.step <= reached'
    BY <1>0, <1>1, <1>4 DEF QueueInv, NotAhead, Typed
  <2>5. Lined(queue)' BY <1>3
  <2> QED BY <2>1, <2>3, <2>4, <2>5 DEF NotAhead
<1>8. OneScene'
  <2>1. popped' = queue[1] BY <1>2
  <2>2. OfScene(future)' <=> OfScene(future) BY <1>4 DEF OfScene
  <2> QED BY <1>3, <1>4, <2>1, <2>2 DEF QueueInv, OneScene
<1> QED BY <1>2, <1>3, <1>5, <1>6, <1>7, <1>8, TypedIsEnough DEF QueueInv

\* The step that was executed is recorded, or the action is lost.
LEMMA ActedKeeps ==
  ASSUME QueueInv, Advance \/ SendFails
  PROVE  QueueInv'
<1> USE DEF Advance, SendFails
<1>1. Typed BY TypedIsEnough DEF QueueInv
<1>2. Kept /\ UNCHANGED <<ros, operator, observation, waiting, chunk>>
  BY DEF Kept, client, rxVars, operator
<1>3. latest' \in {latest, popped.step} /\ popped' = NoAction
  BY DEF client
<1>4. popped.step \in Int /\ popped.step >= -1 /\ popped.step <= reached
  BY <1>1 DEF QueueInv, NotAhead, Typed, Action, NoAction
<1>5. /\ latest' \in -1 .. MaxStep /\ latest' <= reached
      /\ popped'.step <= reached
  BY <1>1, <1>3, <1>4 DEF QueueInv, NotAhead, Typed, NoAction
<1>6. Typed'
  <2>1. /\ UNCHANGED <<chunkSize, mustGo, ready, enabled, observation, logged,
                       receiver, waiting, chunk, ros, scene, episode, reached>>
        /\ main' \in {"want", "sync_want"}
    BY DEF client, rxVars, operator
  <2>2. sample' \in Samples \cup {NoSample} BY <1>1, MeasuredIsSample DEF Typed
  <2> HIDE DEF Advance, SendFails
  <2> QED BY <1>1, <1>3, <1>5, <2>1, <2>2 DEF Typed
<1>7. Places' BY DEF QueueInv, Places, rxVars
<1>8. main' # "send" OBVIOUS
<1> QED BY <1>2, <1>5, <1>6, <1>7, <1>8, MoveKeeps

\* An observation is taken: its step follows what was executed, its scene is
\* the present one.
LEMMA ObserveKeeps ==
  ASSUME QueueInv, Observe
  PROVE  QueueInv'
<1> USE DEF Observe
<1>1. Typed BY TypedIsEnough DEF QueueInv
<1>2. Kept /\ UNCHANGED <<ros, operator, latest, popped, waiting, chunk, receiver>>
  BY DEF Kept, client, rxVars, operator
<1>3. /\ observation' \in Observation
      /\ observation'.step <= reached + 1 /\ observation'.scene = scene
  BY <1>1 DEF QueueInv, NotAhead, Typed, Observation
<1>4. Typed'
  <2>1. UNCHANGED <<chunkSize, mustGo, ready, sample, logged>> /\ main' = "must"
    BY DEF client
  <2> HIDE DEF Observe
  <2> QED BY <1>1, <1>2, <1>3, <2>1 DEF Typed, Kept, operator
<1>5. observation' # Nothing BY <1>3 DEF Observation, Nothing
<1>6. Places' BY <1>2, <1>5 DEF QueueInv, Places, Kept
<1>7. NotAhead' BY <1>2, <1>3, LinesStay DEF QueueInv, NotAhead, Kept
<1>8. OneScene' BY <1>2, <1>3, LinesStay DEF QueueInv, OneScene, Kept, operator
<1> QED BY <1>4, <1>6, <1>7, <1>8, TypedIsEnough DEF QueueInv

\* It is marked as mandatory or not.
LEMMA MarkKeeps ==
  ASSUME QueueInv, MarkMustGo
  PROVE  QueueInv'
<1> USE DEF MarkMustGo
<1>1. Typed BY TypedIsEnough DEF QueueInv
<1>2. Kept /\ UNCHANGED <<ros, operator, latest, popped, waiting, chunk, receiver>>
  BY DEF Kept, client, rxVars, operator
<1>3. observation \in Observation BY <1>1 DEF QueueInv, Places, Typed
<1>4. /\ observation' \in Observation
      /\ observation'.step = observation.step
      /\ observation'.scene = observation.scene
  <2>1. (mustGo /\ Low) \in BOOLEAN OBVIOUS
  <2> QED BY <1>3, <2>1 DEF Observation
<1>5. Typed'
  <2>1. UNCHANGED <<chunkSize, mustGo, ready, sample, logged>> /\ main' = "stream"
    BY DEF client
  <2> HIDE DEF MarkMustGo
  <2> QED BY <1>1, <1>2, <1>4, <2>1 DEF Typed, Kept, operator
<1>6. observation' # Nothing /\ observation # Nothing
  BY <1>3, <1>4 DEF Observation, Nothing
<1>7. Places' BY <1>2, <1>6 DEF QueueInv, Places, Kept
<1>8. NotAhead' BY <1>2, <1>4, LinesStay DEF QueueInv, NotAhead, Kept
<1>9. OneScene'
  BY <1>2, <1>4, <1>6, LinesStay DEF QueueInv, OneScene, Kept, operator
<1> QED BY <1>5, <1>7, <1>8, <1>9, TypedIsEnough DEF QueueInv

\* It reaches the server or not.
LEMMA StreamKeeps ==
  ASSUME QueueInv, Stream \/ StreamFails \/ ClearMustGo
  PROVE  QueueInv'
<1> USE DEF Stream, StreamFails, ClearMustGo
<1>1. Typed BY TypedIsEnough DEF QueueInv
<1>2. Kept /\ UNCHANGED <<ros, operator, latest, popped, chunk, receiver>>
  BY DEF Kept, client, rxVars, operator
<1>3. waiting' \in {waiting, observation} /\ observation' \in {observation, Nothing}
  OBVIOUS
<1>4. Typed'
  <2>1. UNCHANGED <<chunkSize, ready, sample, logged>> /\ main' \in {"clear", "loop"}
    BY DEF client
  <2>2. mustGo' \in BOOLEAN BY <1>1 DEF client, Typed
  <2> HIDE DEF Stream, StreamFails, ClearMustGo
  <2> QED BY <1>1, <1>2, <1>3, <2>1, <2>2 DEF Typed, Kept, operator
<1>5. Places' BY <1>2 DEF QueueInv, Places, Kept
<1>6. latest' <= reached /\ popped'.step <= reached
  BY <1>2 DEF QueueInv, NotAhead
<1>7. main' # "send" OBVIOUS
<1> QED BY <1>2, <1>3, <1>4, <1>5, <1>6, <1>7, MoveKeeps

\* The control loop, apart from the next action.
LEMMA LoopKeeps ==
  ASSUME QueueInv, ControlLoop
  PROVE  QueueInv'
<1>1. CASE ActionsAvailable BY <1>1, GoesKeeps DEF ActionsAvailable
<1>2. CASE ActionGateClosed BY <1>2, GoesKeeps DEF ActionGateClosed
<1>3. CASE ActionGateOpen BY <1>3, GoesKeeps DEF ActionGateOpen
<1>4. CASE PopEmpty BY <1>4, GoesKeeps DEF PopEmpty
<1>5. CASE Pop BY <1>5, PopKeeps
<1>6. CASE Send BY <1>6, GoesKeeps DEF Send
<1>7. CASE SendFails \/ Advance BY <1>7, ActedKeeps
<1>8. CASE KeepFirstChunk BY <1>8, GoesKeeps DEF KeepFirstChunk
<1>9. CASE GateOpen BY <1>9, GoesKeeps DEF GateOpen
<1>10. CASE QueueLow BY <1>10, GoesKeeps DEF QueueLow
<1>11. CASE QueueHigh BY <1>11, GoesKeeps DEF QueueHigh
<1>12. CASE NoObservation BY <1>12, GoesKeeps DEF NoObservation
<1>13. CASE Observe BY <1>13, ObserveKeeps
<1>14. CASE MarkMustGo BY <1>14, MarkKeeps
<1>15. CASE Stream \/ StreamFails \/ ClearMustGo BY <1>15, StreamKeeps
<1>16. CASE ReportStep BY <1>16, GoesKeeps DEF ReportStep
<1> QED
  BY <1>1, <1>2, <1>3, <1>4, <1>5, <1>6, <1>7, <1>8, <1>9, <1>10, <1>11,
     <1>12, <1>13, <1>14, <1>15, <1>16
     DEF ControlLoop, ActionStep, ObservationStep
------------------------------------------------------------------------------
(* The receiver thread passes an observation on to its chunk, and sets its *)
(* flags.                                                                  *)
LEMMA PassesKeeps ==
  ASSUME QueueInv, Infer \/ ReceiveChunk \/ ChunkSetsMustGo
  PROVE  QueueInv'
<1> USE DEF Infer, ReceiveChunk, ChunkSetsMustGo
<1>1. Typed BY TypedIsEnough DEF QueueInv
<1>2. Kept /\ UNCHANGED <<ros, operator, latest, popped, observation, main>>
  BY DEF Kept, client, mainVars, operator
<1>3. /\ waiting' \in {waiting, Nothing} /\ chunk' \in {chunk, waiting}
      /\ receiver' \in {"infer", "merge", "wait"}
  OBVIOUS
<1>4. Typed'
  <2>1. UNCHANGED <<ready, sample, logged>>
    BY DEF client, mainVars
  <2>2. mustGo' \in BOOLEAN /\ chunkSize' \in {-1, Chunk}
    BY <1>1 DEF client, Typed
  <2> HIDE DEF Infer, ReceiveChunk, ChunkSetsMustGo
  <2> QED BY <1>1, <1>2, <1>3, <2>1, <2>2 DEF Typed, Kept, operator
<1>5. Places' BY <1>2 DEF QueueInv, Places, Kept
<1>6. latest' <= reached /\ popped'.step <= reached
  BY <1>2 DEF QueueInv, NotAhead
<1> QED BY <1>2, <1>3, <1>4, <1>5, <1>6, MoveKeeps

\* The merged queue is in line.
LEMMA MergeKeeps ==
  ASSUME QueueInv, MergeChunk
  PROVE  QueueInv'
<1> USE DEF MergeChunk
<1>1. Typed BY TypedIsEnough DEF QueueInv
<1>2. /\ UNCHANGED <<queue, reached, scene, ros, enabled, episode, latest, popped,
                     observation, main, waiting>>
      /\ chunk' = Nothing /\ receiver' = "swap" /\ receiver = "merge"
  BY DEF client, mainVars, operator
<1>3. chunk \in Observation /\ chunk # Nothing
  BY <1>1 DEF QueueInv, Places, Typed
<1>4. /\ Lined(Merged(chunk))
      /\ OfScene(queue) /\ chunk.scene = scene => OfScene(Merged(chunk))
  BY <1>1, <1>3, MergedIsLine DEF QueueInv, NotAhead, Lined, Typed
<1>5. /\ Lined(future)' /\ Lined(queue)'
      /\ OfScene(queue) /\ chunk.scene = scene => OfScene(future)'
      /\ OfScene(queue)' <=> OfScene(queue)
  <2>1. future' = Merged(chunk) OBVIOUS
  <2>2. Lined(queue) BY DEF QueueInv, NotAhead
  <2> HIDE DEF MergeChunk
  <2> QED BY <1>2, <1>4, <2>1, <2>2 DEF Lined, Run, NextUp, OfScene
<1>6. Typed'
  <2>1. UNCHANGED <<chunkSize, mustGo, ready, sample, logged>>
    BY DEF client, mainVars
  <2> HIDE DEF MergeChunk
  <2> QED BY <1>1, <1>2, <2>1 DEF Typed
<1>7. Places' BY <1>2 DEF QueueInv, Places
<1>8. NotAhead'
  <2>1. Nothing.step <= reached + 1 BY <1>1 DEF Nothing, Typed
  <2> QED BY <1>2, <1>5, <2>1 DEF QueueInv, NotAhead
<1>9. OneScene' BY <1>2, <1>3, <1>5 DEF QueueInv, OneScene
<1> QED BY <1>6, <1>7, <1>8, <1>9, TypedIsEnough DEF QueueInv

\* It replaces the queue.
LEMMA SwapKeeps ==
  ASSUME QueueInv, SwapQueue
  PROVE  QueueInv'
<1> USE DEF SwapQueue
<1>1. Typed BY TypedIsEnough DEF QueueInv
<1>2. /\ UNCHANGED <<reached, scene, ros, enabled, episode, latest, popped,
                     observation, main, waiting, chunk>>
      /\ receiver' = "must" /\ receiver = "swap"
      /\ queue' = future /\ future' = << >>
  BY DEF mainVars, operator
<1>3. Lined(queue)' /\ (OfScene(queue)' <=> OfScene(future))
  BY <1>2 DEF QueueInv, NotAhead, Lined, Run, NextUp, OfScene
<1>4. Lined(future)' /\ OfScene(future)'
  BY <1>2, EmptyIsLine DEF Lined, Run, NextUp, OfScene
<1>5. Typed'
  <2>1. UNCHANGED <<chunkSize, mustGo, ready, sample, logged>> BY DEF mainVars
  <2> HIDE DEF SwapQueue
  <2> QED BY <1>1, <1>2, <2>1 DEF Typed
<1>6. Places' BY <1>2 DEF QueueInv, Places
<1>7. NotAhead' BY <1>2, <1>3, <1>4 DEF QueueInv, NotAhead
<1>8. OneScene' BY <1>2, <1>3, <1>4 DEF QueueInv, OneScene
<1> QED BY <1>5, <1>6, <1>7, <1>8, TypedIsEnough DEF QueueInv

\* The logger reports what it measured.
LEMMA LoggerKeeps ==
  ASSUME QueueInv, Logger
  PROVE  QueueInv'
<1> USE DEF Logger, LogMeasures, LogReports
<1>1. Typed BY TypedIsEnough DEF QueueInv
<1>2. Kept /\ UNCHANGED <<ros, operator, latest, popped, observation, main,
                          waiting, chunk, receiver>>
  BY DEF Kept, client, mainVars, rxVars, operator
<1>3. Typed'
  <2>1. UNCHANGED <<chunkSize, mustGo, sample>> BY DEF client, mainVars
  <2>2. ready' \in BOOLEAN /\ logged' \in Samples \cup {NoSample}
    BY <1>1, MeasuredIsSample DEF client, Typed
  <2> HIDE DEF Logger, LogMeasures, LogReports
  <2> QED BY <1>1, <1>2, <2>1, <2>2 DEF Typed, Kept, operator
<1>4. Places' BY <1>2 DEF QueueInv, Places, Kept
<1>5. latest' <= reached /\ popped'.step <= reached
  BY <1>2 DEF QueueInv, NotAhead
<1> QED BY <1>2, <1>3, <1>4, <1>5, MoveKeeps
------------------------------------------------------------------------------
(* The reset empties the queue when nothing of the last episode is on its  *)
(* way.                                                                    *)
LEMMA ResetKeeps ==
  ASSUME QueueInv, ResetQueue
  PROVE  QueueInv'
<1> USE DEF ResetQueue
<1>1. Typed BY TypedIsEnough DEF QueueInv
<1>2. /\ UNCHANGED <<reached, scene, enabled, episode, latest, popped, future,
                     observation, main, waiting, chunk, receiver>>
      /\ queue' = << >> /\ ros' = "must" /\ episode = "changed" /\ ~enabled
  BY DEF mainVars, rxVars, operator
<1>3. /\ waiting = Nothing /\ chunk = Nothing /\ observation = Nothing
      /\ future = << >> /\ main # "send"
  BY DEF QueueInv, Places, Settled
<1>4. Lined(queue)' /\ Lined(future)' /\ OfScene(queue)' /\ OfScene(future)'
  BY <1>2, <1>3, EmptyIsLine DEF Lined, Run, NextUp, OfScene
<1>5. Typed'
  <2>1. UNCHANGED <<mustGo, ready, sample, logged>> /\ chunkSize' = -1
    BY DEF mainVars
  <2> HIDE DEF ResetQueue
  <2> QED BY <1>1, <1>2, <2>1 DEF Typed
<1>6. Places' BY <1>2 DEF QueueInv, Places
<1>7. NotAhead' BY <1>2, <1>4 DEF QueueInv, NotAhead
<1>8. OneScene' BY <1>2, <1>3, <1>4 DEF QueueInv, OneScene
<1> QED BY <1>5, <1>6, <1>7, <1>8, TypedIsEnough DEF QueueInv

\* The rest of the reset, and the operator: the gate opens only after it, and
\* a scene is changed only when the gate is closed.
LEMMA EpisodeKeeps ==
  ASSUME QueueInv, ResetMustGo \/ ResetReports \/ Operator
  PROVE  QueueInv'
<1> USE DEF ResetMustGo, ResetReports, Operator, OpenGate, CloseGate, ChangeScene
<1>1. Typed BY TypedIsEnough DEF QueueInv
<1>2. UNCHANGED <<queue, future, reached, latest, popped, observation, main,
                  waiting, chunk, receiver>>
  BY DEF client, mainVars, rxVars
<1>3. Lined(queue)' /\ Lined(future)'
  BY <1>2 DEF QueueInv, NotAhead, Lined, Run, NextUp
<1>4. Typed'
  <2>1. UNCHANGED <<chunkSize, sample, logged>> BY DEF client, mainVars
  <2>2. mustGo' \in BOOLEAN /\ ready' \in BOOLEAN
    BY <1>1 DEF client, Typed
  <2>3. /\ ros' \in {"idle", "must"} \cup Samples
        /\ episode' \in {"changed", "prepared", "started"}
        /\ enabled' \in BOOLEAN
    BY <1>1, MeasuredIsSample DEF Typed, operator
  <2>4. scene' \in 0 .. MaxScene
    <3>1. scene \in 0 .. MaxScene BY <1>1 DEF Typed
    <3>2. scene' = scene \/ (scene < MaxScene /\ scene' = scene + 1)
      BY DEF operator
    <3> HIDE DEF ResetMustGo, ResetReports, Operator
    <3> QED BY <3>1, <3>2
  <2> HIDE DEF ResetMustGo, ResetReports, Operator
  <2> QED BY <1>1, <1>2, <2>1, <2>2, <2>3, <2>4 DEF Typed
<1>5. Places' BY <1>2 DEF QueueInv, Places
<1>6. NotAhead' BY <1>2, <1>3 DEF QueueInv, NotAhead
<1>7. CASE scene' = scene
  <2>1. (OfScene(queue)' <=> OfScene(queue)) /\ (OfScene(future)' <=> OfScene(future))
    BY <1>2, <1>7 DEF OfScene
  <2>2. "must" \notin Samples /\ "idle" \notin Samples BY DEF Samples
  <2>3. ros' # "idle" => ros # "idle" /\ episode' = episode
    BY <2>2 DEF operator
  <2>4. enabled' => ros' = "idle" /\ episode' = "started"
    BY <2>2 DEF QueueInv, OneScene, operator
  <2>5. episode' # "changed" \/ ros' # "idle" => episode # "changed" \/ ros # "idle"
    BY <2>2, <2>3 DEF operator
  <2> QED
    BY <1>2, <1>4, <1>5, <1>6, <1>7, <2>1, <2>3, <2>4, <2>5, TypedIsEnough
       DEF QueueInv, OneScene
<1>8. CASE scene' # scene
  <2>1. ros' = "idle" /\ episode' = "changed" /\ ~enabled'
    BY <1>8 DEF operator
  <2> QED BY <1>4, <1>5, <1>6, <2>1, TypedIsEnough DEF QueueInv, OneScene
<1> QED BY <1>7, <1>8

\* In the beginning nothing is there.
LEMMA InitKeeps == Init => QueueInv
<1> SUFFICES ASSUME Init PROVE QueueInv
  OBVIOUS
<1> USE DEF Init
<1>1. /\ MaxStep \in Nat /\ MaxScene \in Nat
      /\ -1 \in -1 .. MaxStep /\ 0 \in 0 .. MaxScene
  OBVIOUS
<1>5. Typed BY <1>1 DEF Typed
<1>2. NotAhead BY EmptyIsLine DEF NotAhead, NoAction, Nothing
<1>3. Places BY DEF Places
<1>4. OneScene BY EmptyIsLine DEF OneScene
<1> QED BY <1>2, <1>3, <1>4, <1>5, TypedIsEnough DEF QueueInv

\* Every step keeps the invariant.
LEMMA StepKeeps == QueueInv /\ [Next]_vars => QueueInv'
<1> SUFFICES ASSUME QueueInv, [Next]_vars PROVE QueueInv'
  OBVIOUS
<1>1. CASE Receiver
  BY <1>1, PassesKeeps, MergeKeeps, SwapKeeps DEF Receiver
<1>2. CASE ResetEpisode
  BY <1>2, ResetKeeps, EpisodeKeeps DEF ResetEpisode
<1>3. CASE UNCHANGED vars
  <2>1. /\ UNCHANGED <<client, mainVars, logged, rxVars, waiting, ros, operator,
                       reached>>
    BY <1>3 DEF vars
  <2>2. QueueInv' <=> QueueInv
    BY <2>1 DEF client, mainVars, rxVars, operator, QueueInv, TypeOK, Places,
       NotAhead, OneScene, Lined, Run, NextUp, OfScene
  <2> QED BY <2>2
<1> QED BY <1>1, <1>2, <1>3, LoopKeeps, LoggerKeeps, EpisodeKeeps DEF Next

\* The strengthened invariant holds in every reachable state.
THEOREM QueueInvariant == Spec => []QueueInv
BY InitKeeps, StepKeeps, PTL DEF Spec

(* The queue never holds more than a chunk, and its steps follow one another. *)
THEOREM QueueIsTyped == Spec => []TypeOK
<1>1. QueueInv => TypeOK BY DEF QueueInv
<1> QED BY <1>1, QueueInvariant, PTL

(* No action that was predicted from the scene of an earlier episode, or   *)
(* averaged with one, is executed once the queue was reset for this one.   *)
THEOREM ScenesStayApart == Spec => []NoActionOfOldScene
<1>1. QueueInv => NoActionOfOldScene
  BY DEF QueueInv, OneScene, NoActionOfOldScene
<1> QED BY <1>1, QueueInvariant, PTL

(* The control loop never runs ahead of the trajectory, whatever merges,   *)
(* failures, closings and resets overlap.                                  *)
THEOREM StepsFollow == Spec => NoStepSkipped
<1>1. ASSUME QueueInv, [Next]_vars, main = "pop", main' = "send"
      PROVE  Head(queue).step <= reached + 1
  <2>1. Pop
    BY <1>1 DEF Next, ControlLoop, ActionStep, ObservationStep, ReportStep,
       Receiver, Logger, ResetEpisode, Operator, vars, ActionsAvailable,
       ActionGateClosed, ActionGateOpen, PopEmpty, Send, SendFails, Advance,
       KeepFirstChunk, GateOpen, QueueLow, QueueHigh, NoObservation, Observe,
       MarkMustGo, Stream, StreamFails, ClearMustGo, Goes, Measure, Report,
       Infer, ReceiveChunk, MergeChunk, SwapQueue, ChunkSetsMustGo,
       LogMeasures, LogReports, ResetQueue, ResetMustGo, ResetReports,
       OpenGate, CloseGate, ChangeScene, mainVars
  <2> QED BY <1>1, <2>1, PopKeeps
<1> QED BY <1>1, QueueInvariant, PTL DEF Spec, NoStepSkipped
==============================================================================
