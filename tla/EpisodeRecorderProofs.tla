------------------------ MODULE EpisodeRecorderProofs ------------------------
(***************************************************************************)
(* What a finished capture guarantees, for every queue size and every      *)
(* number of frames.  The invariant follows the frames of one camera on    *)
(* their way through its queue: no frame is lost between the counters, the *)
(* end mark is behind all of them, and without a drop they are in order.   *)
(***************************************************************************)
EXTENDS EpisodeRecorder, TLAPS

USE CapacityAssumption

\* where the executor thread is before it puts the end mark of a sink, and
\* after it has joined its worker without an error
Unended == [chest |-> {"spin", "put_chest"},
            wrist |-> {"spin", "put_chest", "join_chest", "put_wrist"}]
Joined  == [chest |-> {"put_wrist", "join_wrist", "summary", "done"},
            wrist |-> {"summary", "done"}]

\* the frames in a queue, without the end mark
Ending(c)  == queue[c] # << >> /\ queue[c][Len(queue[c])] = End
Waiting(c) == IF Ending(c) THEN Len(queue[c]) - 1 ELSE Len(queue[c])

MarkIsLast(c) ==
  /\ \A i \in 1 .. Len(queue[c]) : queue[c][i] = End => i = Len(queue[c])
  /\ main \in Unended[c] => ~Ending(c) /\ worker[c] = "running"
  /\ worker[c] = "done" => queue[c] = << >>
  /\ main \in Joined[c] => worker[c] = "done" /\ ~failed[c]

Accounted(c) ==
  /\ encoded[c] + dropped[c] + Waiting(c) <= received[c]
  /\ ~failed[c] => /\ encoded[c] + dropped[c] + Waiting(c) = received[c]
                   /\ Len(archive[c]) = encoded[c]
                   /\ writer[c] # "broken"

InOrder(c) ==
  ~failed[c] /\ dropped[c] = 0 =>
    /\ Len(video[c]) = encoded[c]
    /\ \A i \in 1 .. Len(video[c]) : video[c][i] = i - 1
    /\ \A i \in 1 .. Waiting(c) : queue[c][i] = encoded[c] + i - 1

SinkInv == \A c \in Camera : MarkIsLast(c) /\ Accounted(c) /\ InOrder(c)

RecorderInv == TypeOK /\ SinkInv
------------------------------------------------------------------------------
(* A frame or an end mark behind a queue without an end mark.              *)
LEMMA Appended ==
  ASSUME NEW q \in Seq(Frame \cup {End}), NEW x \in Frame \cup {End}
  PROVE  /\ Append(q, x) \in Seq(Frame \cup {End})
         /\ Len(Append(q, x)) = Len(q) + 1 /\ Len(q) \in Nat
         /\ Append(q, x)[Len(q) + 1] = x
         /\ \A i \in 1 .. Len(q) : Append(q, x)[i] = q[i]
         /\ Append(q, x) # << >>
  OBVIOUS

(* What is left of a queue when its head is taken.                         *)
LEMMA Taken ==
  ASSUME NEW q \in Seq(Frame \cup {End}), q # << >>
  PROVE  /\ Tail(q) \in Seq(Frame \cup {End}) /\ Head(q) = q[1]
         /\ Head(q) \in Frame \cup {End}
         /\ Len(Tail(q)) = Len(q) - 1 /\ Len(q) \in Nat /\ Len(q) >= 1
         /\ \A i \in 1 .. Len(Tail(q)) : Tail(q)[i] = q[i + 1]
         /\ Len(q) = 1 => Tail(q) = << >>
         /\ Len(q) # 1 => Tail(q) # << >>
<1>1. Len(q) \in Nat /\ Len(q) >= 1 OBVIOUS
<1>2. Head(q) = q[1] /\ Head(q) \in Frame \cup {End} BY <1>1
<1>3. /\ Tail(q) \in Seq(Frame \cup {End})
      /\ Len(Tail(q)) = Len(q) - 1
      /\ \A i \in 1 .. Len(Tail(q)) : Tail(q)[i] = q[i + 1]
  BY <1>1
<1>4. Len(q) = 1 => Tail(q) = << >>
  <2>1. \A s \in Seq(Frame \cup {End}) : Len(s) = 0 => s = << >> OBVIOUS
  <2> DEFINE t == Tail(q)
  <2>2. t \in Seq(Frame \cup {End}) /\ Len(t) = Len(q) - 1 BY <1>3
  <2> HIDE DEF t
  <2>3. Len(q) = 1 => t = << >> BY <2>1, <2>2
  <2>4. QED BY <2>3 DEF t
<1>5. Len(q) # 1 => Tail(q) # << >> BY <1>1, <1>3
<1>6. QED BY <1>1, <1>2, <1>3, <1>4, <1>5

(* The places of the executor thread.                                      *)
LEMMA SpinIsBefore ==
  \A c \in Camera : "spin" \in Unended[c] /\ "spin" \notin Joined[c]
  BY DEF Camera, Unended, Joined

\* A frame is not the end mark.
LEMMA FrameIsNoMark ==
  ASSUME NEW f \in Frame PROVE f # End /\ f \in Nat
  BY DEF Frame, End
------------------------------------------------------------------------------
(* A step that leaves the sink alone and moves the executor thread by no   *)
(* more than it may.                                                       *)
LEMMA MarkStays ==
  ASSUME NEW d \in Camera, MarkIsLast(d),
         queue'[d] = queue[d], worker'[d] = worker[d], failed'[d] = failed[d],
         main' \in Unended[d] => main \in Unended[d],
         main' \in Joined[d] => main \in Joined[d]
  PROVE  MarkIsLast(d)'
<1>1. Ending(d)' <=> Ending(d) BY DEF Ending
<1>2. \A i \in 1 .. Len(queue'[d]) : queue'[d][i] = End => i = Len(queue'[d])
  BY DEF MarkIsLast
<1>3. main' \in Unended[d] => ~Ending(d)' /\ worker'[d] = "running"
  BY <1>1 DEF MarkIsLast
<1>4. worker'[d] = "done" => queue'[d] = << >> BY DEF MarkIsLast
<1>5. main' \in Joined[d] => worker'[d] = "done" /\ ~failed'[d]
  BY DEF MarkIsLast
<1>6. Unended' = Unended /\ Joined' = Joined BY DEF Unended, Joined
<1>7. QED BY <1>2, <1>3, <1>4, <1>5, <1>6 DEF MarkIsLast

\* A sink that does not move keeps its counts.
LEMMA CountsStay ==
  ASSUME NEW d \in Camera, Accounted(d), InOrder(d),
         queue'[d] = queue[d], failed'[d] = failed[d],
         received'[d] = received[d], dropped'[d] = dropped[d],
         archive'[d] = archive[d], video'[d] = video[d],
         encoded'[d] = encoded[d], writer'[d] = writer[d]
  PROVE  Accounted(d)' /\ InOrder(d)'
<1>1. Waiting(d)' = Waiting(d) BY DEF Waiting, Ending
<1>2. QED BY <1>1 DEF Accounted, InOrder

(* A camera message.                                                       *)
LEMMA CameraStep ==
  ASSUME RecorderInv, NEW c \in Camera, CameraCallback(c)
  PROVE  RecorderInv'
<1> USE DEF RecorderInv, CameraCallback
<1>0. main' = main OBVIOUS
<1>1. /\ received[c] \in Frame /\ received[c] # End
      /\ received' = [received EXCEPT ![c] = received[c] + 1]
      /\ latest' = [latest EXCEPT ![c] = received[c]]
      /\ received[c] \in 0 .. MaxFrames
  BY DEF TypeOK, Frame, End
<1>2. /\ queue[c] \in Seq(Frame \cup {End})
      /\ main \in Unended[c] /\ ~Ending(c) /\ worker[c] = "running"
      /\ main \notin Joined[c]
  BY SpinIsBefore DEF TypeOK, SinkInv, MarkIsLast
<1>3. /\ queue' \in [Camera -> Seq(Frame \cup {End})]
      /\ \A d \in Camera : Len(queue'[d]) <= Capacity
  <2>1. CASE Len(queue[c]) < Capacity
    <3>1. queue' = [queue EXCEPT ![c] = Append(queue[c], received[c])]
      BY <2>1 DEF Enqueue
    <3>2. /\ Append(queue[c], received[c]) \in Seq(Frame \cup {End})
          /\ Len(Append(queue[c], received[c])) <= Capacity
      BY <1>1, <1>2, <2>1, Appended
    <3>3. QED BY <3>1, <3>2 DEF TypeOK
  <2>2. CASE ~(Len(queue[c]) < Capacity)
    BY <2>2 DEF Enqueue, TypeOK
  <2>3. QED BY <2>1, <2>2
<1>4. ASSUME NEW d \in Camera, d # c
      PROVE  /\ queue'[d] = queue[d] /\ received'[d] = received[d]
             /\ dropped'[d] = dropped[d] /\ latest'[d] = latest[d]
  BY <1>4 DEF TypeOK, Enqueue
<1>5. ASSUME NEW d \in Camera, d # c
      PROVE  MarkIsLast(d)' /\ Accounted(d)' /\ InOrder(d)'
  BY <1>4, <1>5 DEF SinkInv, MarkIsLast, Accounted, InOrder, Waiting, Ending,
     files
<1> DEFINE kept == /\ MarkIsLast(c)' /\ Accounted(c)' /\ InOrder(c)'
                    /\ dropped' \in [Camera -> 0 .. MaxFrames]
<1>6. ASSUME Len(queue[c]) < Capacity PROVE kept
  <2>1. /\ queue'[c] = Append(queue[c], received[c]) /\ dropped' = dropped
        /\ received'[c] = received[c] + 1
    BY <1>6 DEF TypeOK, Enqueue
  <2>2. /\ Len(queue'[c]) = Len(queue[c]) + 1 /\ Len(queue[c]) \in Nat
        /\ queue'[c][Len(queue[c]) + 1] = received[c]
        /\ \A i \in 1 .. Len(queue[c]) : queue'[c][i] = queue[c][i]
        /\ queue'[c] # << >>
    BY <1>1, <1>2, <2>1, Appended
  <2>3. ~Ending(c)' BY <1>1, <2>2 DEF Ending
  <2>4. Waiting(c) = Len(queue[c]) /\ Waiting(c)' = Len(queue[c]) + 1
    BY <1>2, <2>2, <2>3 DEF Waiting
  <2>5. MarkIsLast(c)'
    <3>1. ASSUME NEW i \in 1 .. Len(queue[c]) PROVE queue[c][i] # End
      <4>1. queue[c][i] = End => i = Len(queue[c])
        BY DEF SinkInv, MarkIsLast
      <4>2. QED BY <1>2, <2>2, <4>1 DEF Ending
    <3>2. \A i \in 1 .. Len(queue'[c]) :
            queue'[c][i] = End => i = Len(queue'[c])
      <4> SUFFICES ASSUME NEW i \in 1 .. Len(queue[c]) + 1, queue'[c][i] = End
                   PROVE  i = Len(queue[c]) + 1
        BY <2>2
      <4>1. i \in 1 .. Len(queue[c]) \/ i = Len(queue[c]) + 1 BY <2>2
      <4>2. i \notin 1 .. Len(queue[c]) BY <2>2, <3>1
      <4> QED BY <4>1, <4>2
    <3>3. worker'[c] = "running" /\ main' \notin Joined[c] BY <1>0, <1>2
    <3>4. QED BY <2>3, <3>2, <3>3 DEF MarkIsLast
  <2>6. Accounted(c)'
    <3>1. /\ encoded[c] \in Nat /\ dropped[c] \in Nat /\ received[c] \in Nat
      BY DEF TypeOK
    <3>2. Accounted(c) BY DEF SinkInv
    <3>3. QED BY <1>2, <2>1, <2>2, <2>4, <3>1, <3>2 DEF Accounted, files
  <2>7. InOrder(c)'
    <3>1. SUFFICES ASSUME ~failed[c], dropped[c] = 0
                   PROVE  \A i \in 1 .. Waiting(c)' :
                            queue'[c][i] = encoded[c] + i - 1
      BY <2>1 DEF SinkInv, InOrder, files
    <3>2. received[c] = encoded[c] + Len(queue[c]) /\ encoded[c] \in Nat
      BY <2>4, <3>1 DEF SinkInv, Accounted, TypeOK
    <3>3. \A i \in 1 .. Len(queue[c]) : queue[c][i] = encoded[c] + i - 1
      BY <2>4, <3>1 DEF SinkInv, InOrder
    <3>4. QED BY <2>2, <2>4, <3>2, <3>3
  <2>8. dropped' \in [Camera -> 0 .. MaxFrames] BY <2>1 DEF TypeOK
  <2>9. QED BY <2>5, <2>6, <2>7, <2>8
<1>7. ASSUME ~(Len(queue[c]) < Capacity) PROVE kept
  <2>1. /\ queue' = queue /\ dropped'[c] = dropped[c] + 1
        /\ received'[c] = received[c] + 1
        /\ dropped' = [dropped EXCEPT ![c] = dropped[c] + 1]
    BY <1>7 DEF TypeOK, Enqueue
  <2>2. Waiting(c)' = Waiting(c) /\ Waiting(c) \in Nat
    BY <1>2, <2>1 DEF Waiting, Ending
  <2>3. MarkIsLast(c)'
    <3>1. MarkIsLast(c) BY DEF SinkInv
    <3>2. queue'[c] = queue[c] /\ worker'[c] = worker[c] /\ failed'[c] = failed[c]
      BY <2>1 DEF files
    <3>3. /\ main' \in Unended[c] => main \in Unended[c]
          /\ main' \in Joined[c] => main \in Joined[c]
      BY <1>0
    <3> HIDE DEF RecorderInv, CameraCallback
    <3>4. QED BY <3>1, <3>2, <3>3, MarkStays
  <2>4. Accounted(c)'
    BY <2>1, <2>2 DEF SinkInv, Accounted, TypeOK, files
  <2>5. InOrder(c)' BY <2>1 DEF InOrder, TypeOK
  <2>6. dropped[c] + 1 \in 0 .. MaxFrames
    BY <1>1, <2>2 DEF SinkInv, Accounted, TypeOK, Frame
  <2>7. dropped' \in [Camera -> 0 .. MaxFrames]
    BY <2>1, <2>6 DEF TypeOK
  <2>8. QED BY <2>3, <2>4, <2>5, <2>7
<1>8. kept BY <1>6, <1>7
<1>9. TypeOK'
  <2>1. received' \in [Camera -> 0 .. MaxFrames]
    BY <1>1 DEF TypeOK
  <2>2. latest' = [d \in Camera |-> received'[d] - 1]
    <3>1. latest'[c] = received'[c] - 1 BY <1>1 DEF TypeOK
    <3>2. \A d \in Camera : latest'[d] = received'[d] - 1
      BY <1>4, <3>1 DEF TypeOK
    <3>3. latest' = [d \in Camera |-> latest'[d]] BY <1>1 DEF TypeOK
    <3>4. QED BY <3>2, <3>3
  <2>3. \A d \in Camera : rows'[d] \subseteq 0 .. latest'[d]
    <3>1. \A d \in Camera : latest'[d] \in Int /\ latest[d] <= latest'[d]
      BY <1>1, <1>4 DEF TypeOK
    <3>2. QED BY <3>1 DEF TypeOK
  <2>4. QED BY <1>3, <1>8, <2>1, <2>2, <2>3 DEF TypeOK, files
<1>10. QED BY <1>5, <1>8, <1>9 DEF SinkInv
------------------------------------------------------------------------------
(* The writer thread takes a frame: the rest moves up.                     *)
LEMMA TakeMovesUp ==
  ASSUME RecorderInv, NEW c \in Camera, Take(c)
  PROVE  /\ Head(queue[c]) \in Frame /\ Head(queue[c]) = queue[c][1]
         /\ queue' \in [Camera -> Seq(Frame \cup {End})]
         /\ \A d \in Camera : Len(queue'[d]) <= Capacity
         /\ Waiting(c) \in Nat /\ Waiting(c) >= 1
         /\ Waiting(c)' = Waiting(c) - 1
         /\ \A i \in 1 .. Waiting(c)' : queue'[c][i] = queue[c][i + 1]
         /\ main \notin Joined[c]
         /\ \A i \in 1 .. Len(queue'[c]) :
              queue'[c][i] = End => i = Len(queue'[c])
         /\ main \in Unended[c] => ~Ending(c)'
<1> USE DEF RecorderInv
<1>1. /\ queue[c] \in Seq(Frame \cup {End}) /\ queue[c] # << >>
      /\ Head(queue[c]) # End /\ worker[c] = "running"
      /\ queue' = [queue EXCEPT ![c] = Tail(queue[c])]
      /\ queue'[c] = Tail(queue[c]) /\ main' = main
  BY DEF Take, TypeOK
<1>2. /\ Tail(queue[c]) \in Seq(Frame \cup {End})
      /\ Head(queue[c]) = queue[c][1]
      /\ Head(queue[c]) \in Frame \cup {End}
      /\ Len(queue'[c]) = Len(queue[c]) - 1
      /\ Len(queue[c]) \in Nat /\ Len(queue[c]) >= 1
      /\ \A i \in 1 .. Len(queue'[c]) : queue'[c][i] = queue[c][i + 1]
      /\ Len(queue[c]) = 1 => queue'[c] = << >>
      /\ Len(queue[c]) # 1 => queue'[c] # << >>
  BY <1>1, Taken
<1>3. Ending(c)' <=> Ending(c)
  <2>1. CASE Len(queue[c]) = 1 BY <1>1, <1>2, <2>1 DEF Ending
  <2>2. CASE Len(queue[c]) # 1
    <3>1. queue'[c][Len(queue'[c])] = queue[c][Len(queue[c])]
      <4>1. Len(queue'[c]) \in 1 .. Len(queue'[c]) BY <1>2, <2>2
      <4>2. queue'[c][Len(queue'[c])] = queue[c][Len(queue'[c]) + 1]
        BY <1>2, <4>1
      <4>3. Len(queue'[c]) + 1 = Len(queue[c]) BY <1>2
      <4>4. QED BY <4>2, <4>3
    <3>2. QED BY <1>1, <1>2, <2>2, <3>1 DEF Ending
  <2>3. QED BY <2>1, <2>2
<1>4. Ending(c) => Len(queue[c]) # 1 BY <1>1, <1>2 DEF Ending
<1>5. /\ Waiting(c) \in Nat /\ Waiting(c) >= 1
      /\ Waiting(c)' = Waiting(c) - 1 /\ Waiting(c)' <= Len(queue'[c])
  BY <1>2, <1>3, <1>4 DEF Waiting
<1>6. \A i \in 1 .. Waiting(c)' : queue'[c][i] = queue[c][i + 1]
  <2>1. Waiting(c)' \in Int BY <1>5
  <2>2. QED BY <1>2, <1>5, <2>1
<1>7. MarkIsLast(c) BY DEF SinkInv
<1>8. \A i \in 1 .. Len(queue'[c]) : queue'[c][i] = End => i = Len(queue'[c])
  <2>1. ASSUME NEW i \in 1 .. Len(queue'[c]), queue'[c][i] = End
        PROVE  i = Len(queue'[c])
    <3>1. i + 1 \in 1 .. Len(queue[c]) /\ queue[c][i + 1] = End
      BY <1>2, <2>1
    <3>2. i + 1 = Len(queue[c]) BY <1>7, <3>1 DEF MarkIsLast
    <3>3. QED BY <1>2, <3>2
  <2>2. QED BY <2>1
<1>9. /\ main \notin Joined[c]
      /\ main \in Unended[c] => ~Ending(c)'
  BY <1>1, <1>3, <1>7 DEF MarkIsLast
<1>10. queue' \in [Camera -> Seq(Frame \cup {End})]
  BY <1>1, <1>2 DEF TypeOK
<1>11. \A d \in Camera : Len(queue'[d]) <= Capacity
  <2>1. Len(queue'[c]) <= Capacity BY <1>2 DEF TypeOK
  <2>2. QED BY <1>1, <2>1 DEF TypeOK
<1>12. QED BY <1>1, <1>2, <1>5, <1>6, <1>8, <1>9, <1>10, <1>11

(* The sink of the other camera is not touched by a writer thread.         *)
LEMMA OtherSink ==
  ASSUME RecorderInv, NEW c \in Camera, Worker(c), NEW d \in Camera, d # c
  PROVE  MarkIsLast(d)' /\ Accounted(d)' /\ InOrder(d)'
<1>1. /\ queue'[d] = queue[d] /\ worker'[d] = worker[d]
      /\ failed'[d] = failed[d] /\ received'[d] = received[d]
      /\ dropped'[d] = dropped[d] /\ archive'[d] = archive[d]
      /\ video'[d] = video[d] /\ encoded'[d] = encoded[d]
      /\ writer'[d] = writer[d] /\ main' = main
  BY DEF RecorderInv, TypeOK, Worker, CannotDecode, CannotOpen, WriteFrame,
     EndWorker, Take, executor, files
<1>2. MarkIsLast(d) /\ Accounted(d) /\ InOrder(d) BY DEF RecorderInv, SinkInv
<1>3. /\ main' \in Unended[d] => main \in Unended[d]
      /\ main' \in Joined[d] => main \in Joined[d]
  BY <1>1
<1>4. QED BY <1>1, <1>2, <1>3, MarkStays, CountsStay

(* A frame that cannot be decoded or whose video cannot be opened.         *)
LEMMA FailedStep ==
  ASSUME RecorderInv, NEW c \in Camera, CannotDecode(c) \/ CannotOpen(c)
  PROVE  RecorderInv'
<1> USE DEF RecorderInv
<1>1. /\ Take(c) /\ failed' = [failed EXCEPT ![c] = TRUE]
      /\ encoded' = encoded /\ video' = video
  BY DEF CannotDecode, CannotOpen
<1>2. /\ Head(queue[c]) \in Frame
      /\ queue' \in [Camera -> Seq(Frame \cup {End})]
      /\ \A d \in Camera : Len(queue'[d]) <= Capacity
      /\ Waiting(c) \in Nat /\ Waiting(c) >= 1
      /\ Waiting(c)' = Waiting(c) - 1
      /\ main \notin Joined[c]
      /\ \A i \in 1 .. Len(queue'[c]) :
           queue'[c][i] = End => i = Len(queue'[c])
      /\ main \in Unended[c] => ~Ending(c)'
  BY <1>1, TakeMovesUp
<1>3. /\ main' = main /\ worker' = worker /\ received' = received
      /\ dropped' = dropped /\ enabled' = enabled /\ latest' = latest
      /\ rows' = rows /\ worker[c] = "running" /\ failed'[c] = TRUE
  BY <1>1 DEF Take, executor, TypeOK
<1>4. TypeOK'
  <2>1. failed' \in [Camera -> BOOLEAN] BY <1>1 DEF TypeOK
  <2>2. archive' \in [Camera -> Seq(Frame)]
    <3>1. archive[c] \in Seq(Frame) BY DEF TypeOK
    <3>2. Append(archive[c], Head(queue[c])) \in Seq(Frame) BY <1>2, <3>1
    <3>3. CASE CannotDecode(c) BY <3>3 DEF CannotDecode, TypeOK
    <3>4. CASE CannotOpen(c) BY <3>2, <3>4 DEF CannotOpen, TypeOK
    <3>5. QED BY <3>3, <3>4
  <2>3. writer' \in [Camera -> {"none", "open", "broken"}]
    BY DEF CannotDecode, CannotOpen, TypeOK
  <2>4. QED BY <1>1, <1>2, <1>3, <2>1, <2>2, <2>3 DEF TypeOK
<1>5. MarkIsLast(c)' BY <1>2, <1>3 DEF MarkIsLast
<1>6. Accounted(c)'
  <2>1. /\ encoded[c] \in Nat /\ dropped[c] \in Nat /\ received[c] \in Nat
    BY DEF TypeOK
  <2>2. Accounted(c) BY DEF SinkInv
  <2>3. QED BY <1>1, <1>2, <1>3, <2>1, <2>2 DEF Accounted
<1>7. InOrder(c)' BY <1>3 DEF InOrder
<1>8. QED BY <1>4, <1>5, <1>6, <1>7, OtherSink DEF SinkInv, Worker

(* A frame that is written.                                                *)
LEMMA WriteStep ==
  ASSUME RecorderInv, NEW c \in Camera, WriteFrame(c)
  PROVE  RecorderInv'
<1> USE DEF RecorderInv
<1> DEFINE head == Head(queue[c])
<1>1. /\ Take(c) /\ failed' = failed
      /\ encoded' = [encoded EXCEPT ![c] = encoded[c] + 1]
      /\ archive' = [archive EXCEPT ![c] = Append(archive[c], head)]
      /\ writer' = [writer EXCEPT ![c] = IF writer[c] = "none" THEN "open"
                                         ELSE writer[c]]
      /\ video' = [video EXCEPT ![c] = IF writer[c] = "broken" THEN video[c]
                                       ELSE Append(video[c], head)]
  BY DEF WriteFrame
<1>2. /\ head \in Frame /\ head = queue[c][1]
      /\ queue' \in [Camera -> Seq(Frame \cup {End})]
      /\ \A d \in Camera : Len(queue'[d]) <= Capacity
      /\ Waiting(c) \in Nat /\ Waiting(c) >= 1
      /\ Waiting(c)' = Waiting(c) - 1
      /\ \A i \in 1 .. Waiting(c)' : queue'[c][i] = queue[c][i + 1]
      /\ main \notin Joined[c]
      /\ \A i \in 1 .. Len(queue'[c]) :
           queue'[c][i] = End => i = Len(queue'[c])
      /\ main \in Unended[c] => ~Ending(c)'
  BY <1>1, TakeMovesUp
<1> HIDE DEF head
<1>3. /\ main' = main /\ worker' = worker /\ received' = received
      /\ dropped' = dropped /\ enabled' = enabled /\ latest' = latest
      /\ rows' = rows /\ worker[c] = "running"
  BY <1>1 DEF Take, executor
<1>4. /\ encoded[c] \in Nat /\ dropped[c] \in Nat /\ received[c] \in 0 .. MaxFrames
      /\ archive[c] \in Seq(Frame) /\ video[c] \in Seq(Frame)
      /\ failed[c] \in BOOLEAN /\ writer[c] \in {"none", "open", "broken"}
  BY DEF TypeOK
<1>5. /\ encoded'[c] = encoded[c] + 1
      /\ archive'[c] = Append(archive[c], head)
      /\ writer'[c] = IF writer[c] = "none" THEN "open" ELSE writer[c]
      /\ video'[c] = IF writer[c] = "broken" THEN video[c]
                     ELSE Append(video[c], head)
  BY <1>1 DEF TypeOK
<1>6. Accounted(c) /\ InOrder(c) BY DEF SinkInv
<1>7. encoded[c] + 1 \in 0 .. MaxFrames
  BY <1>2, <1>4, <1>6 DEF Accounted
<1>8. Append(archive[c], head) \in Seq(Frame)
      /\ Len(Append(archive[c], head)) = Len(archive[c]) + 1
      /\ Append(video[c], head) \in Seq(Frame)
      /\ Len(Append(video[c], head)) = Len(video[c]) + 1
      /\ Len(video[c]) \in Nat
      /\ Append(video[c], head)[Len(video[c]) + 1] = head
      /\ \A i \in 1 .. Len(video[c]) : Append(video[c], head)[i] = video[c][i]
  BY <1>2, <1>4
<1>9. TypeOK'
  <2>1. encoded' \in [Camera -> 0 .. MaxFrames] BY <1>1, <1>7 DEF TypeOK
  <2>2. archive' \in [Camera -> Seq(Frame)] BY <1>1, <1>8 DEF TypeOK
  <2>3. video' \in [Camera -> Seq(Frame)] BY <1>1, <1>8 DEF TypeOK
  <2>4. writer' \in [Camera -> {"none", "open", "broken"}]
    BY <1>1, <1>4 DEF TypeOK
  <2>5. QED BY <1>1, <1>2, <1>3, <2>1, <2>2, <2>3, <2>4 DEF TypeOK
<1>10. MarkIsLast(c)' BY <1>2, <1>3 DEF MarkIsLast
<1>11. Accounted(c)'
  <2>1. encoded'[c] + dropped'[c] + Waiting(c)' <= received'[c]
    BY <1>2, <1>3, <1>4, <1>5, <1>6 DEF Accounted
  <2>2. ASSUME ~failed'[c]
        PROVE  /\ encoded'[c] + dropped'[c] + Waiting(c)' = received'[c]
               /\ Len(archive'[c]) = encoded'[c]
               /\ writer'[c] # "broken"
    <3>1. /\ encoded[c] + dropped[c] + Waiting(c) = received[c]
          /\ Len(archive[c]) = encoded[c] /\ writer[c] # "broken"
      BY <1>1, <1>6, <2>2 DEF Accounted
    <3>2. encoded'[c] + dropped'[c] + Waiting(c)' = received'[c]
      <4>1. /\ Waiting(c) \in Nat /\ Waiting(c)' = Waiting(c) - 1
            /\ dropped'[c] = dropped[c] /\ received'[c] = received[c]
        BY <1>2, <1>3
      <4>2. QED BY <1>4, <1>5, <3>1, <4>1
    <3>3. Len(archive'[c]) = encoded'[c] BY <1>5, <1>8, <3>1
    <3>4. writer'[c] # "broken" BY <1>5, <3>1
    <3>5. QED BY <3>2, <3>3, <3>4
  <2>3. QED BY <2>1, <2>2 DEF Accounted
<1>12. InOrder(c)'
  <2>1. SUFFICES ASSUME ~failed[c], dropped[c] = 0
                 PROVE  /\ Len(video'[c]) = encoded'[c]
                        /\ \A i \in 1 .. Len(video'[c]) : video'[c][i] = i - 1
                        /\ \A i \in 1 .. Waiting(c)' :
                             queue'[c][i] = encoded'[c] + i - 1
    BY <1>1, <1>3 DEF InOrder
  <2>2. /\ Len(video[c]) = encoded[c]
        /\ \A i \in 1 .. Len(video[c]) : video[c][i] = i - 1
        /\ \A i \in 1 .. Waiting(c) : queue[c][i] = encoded[c] + i - 1
    BY <1>6, <2>1 DEF InOrder
  <2>3. video'[c] = Append(video[c], head)
    BY <1>5, <1>6, <2>1 DEF Accounted
  <2>4. head = encoded[c]
    <3>1. 1 \in 1 .. Waiting(c) BY <1>2
    <3>2. QED BY <1>2, <1>4, <2>2, <3>1
  <2>5. \A i \in 1 .. Len(video'[c]) : video'[c][i] = i - 1
    <3>1. Len(video'[c]) = Len(video[c]) + 1 BY <1>8, <2>3
    <3>2. ASSUME NEW i \in 1 .. Len(video'[c]) PROVE video'[c][i] = i - 1
      <4>1. CASE i = Len(video[c]) + 1
        <5>1. video'[c][i] = head BY <1>8, <2>3, <4>1
        <5>2. QED BY <1>4, <1>8, <2>2, <2>4, <4>1, <5>1
      <4>2. CASE i # Len(video[c]) + 1
        <5>1. i \in 1 .. Len(video[c]) BY <1>8, <3>1, <4>2
        <5>2. video'[c][i] = video[c][i] BY <1>8, <2>3, <5>1
        <5>3. QED BY <2>2, <5>1, <5>2
      <4>3. QED BY <4>1, <4>2
    <3>3. QED BY <3>2
  <2>6. \A i \in 1 .. Waiting(c)' : queue'[c][i] = encoded'[c] + i - 1
    <3>1. ASSUME NEW i \in 1 .. Waiting(c)'
          PROVE  queue'[c][i] = encoded'[c] + i - 1
      <4>1. i + 1 \in 1 .. Waiting(c) BY <1>2
      <4>2. queue'[c][i] = encoded[c] + (i + 1) - 1 BY <1>2, <2>2, <4>1
      <4>3. QED BY <1>4, <1>5, <4>2
    <3>2. QED BY <3>1
  <2>7. QED BY <1>5, <1>8, <2>2, <2>3, <2>5, <2>6
<1>13. QED BY <1>9, <1>10, <1>11, <1>12, OtherSink DEF SinkInv, Worker

(* The end mark, and nothing behind it.                                    *)
LEMMA EndStep ==
  ASSUME RecorderInv, NEW c \in Camera, EndWorker(c)
  PROVE  RecorderInv'
<1> USE DEF RecorderInv
<1>1. /\ queue[c] \in Seq(Frame \cup {End}) /\ queue[c] # << >>
      /\ Head(queue[c]) = End /\ worker[c] = "running"
      /\ queue' = [queue EXCEPT ![c] = Tail(queue[c])]
      /\ queue'[c] = Tail(queue[c]) /\ main' = main
      /\ worker' = [worker EXCEPT ![c] = "done"]
      /\ received' = received /\ dropped' = dropped /\ enabled' = enabled
      /\ latest' = latest /\ rows' = rows
      /\ failed' = failed /\ encoded' = encoded /\ archive' = archive
      /\ video' = video /\ writer' = writer
  BY DEF EndWorker, TypeOK, executor, files
<1>2. MarkIsLast(c) /\ Accounted(c) /\ InOrder(c) BY DEF SinkInv
<1>3. /\ Tail(queue[c]) \in Seq(Frame \cup {End})
      /\ queue[c][1] = End /\ Len(queue[c]) \in Nat /\ Len(queue[c]) >= 1
      /\ Len(queue[c]) = 1 => queue'[c] = << >>
  BY <1>1, Taken
<1>4. Len(queue[c]) = 1 /\ queue'[c] = << >>
  <2>1. 1 \in 1 .. Len(queue[c]) /\ queue[c][1] = End BY <1>3
  <2>2. 1 = Len(queue[c]) BY <1>2, <2>1 DEF MarkIsLast
  <2>3. QED BY <1>3, <2>2
<1>5. Ending(c) /\ Waiting(c) = 0
  BY <1>1, <1>3, <1>4 DEF Ending, Waiting
<1>6. ~Ending(c)' /\ Waiting(c)' = 0 BY <1>4 DEF Ending, Waiting
<1>7. main \notin Unended[c] /\ main \notin Joined[c]
  BY <1>1, <1>2, <1>5 DEF MarkIsLast
<1>8. MarkIsLast(c)' BY <1>1, <1>4, <1>7 DEF MarkIsLast
<1>9. Accounted(c)' BY <1>1, <1>2, <1>5, <1>6 DEF Accounted
<1>10. InOrder(c)' BY <1>1, <1>2, <1>6 DEF InOrder
<1>11. TypeOK'
  <2>1. queue' \in [Camera -> Seq(Frame \cup {End})]
    BY <1>1, <1>3 DEF TypeOK
  <2>2. \A d \in Camera : Len(queue'[d]) <= Capacity
    <3>1. Len(queue'[c]) <= Capacity BY <1>4
    <3>2. QED BY <1>1, <3>1 DEF TypeOK
  <2>3. worker' \in [Camera -> {"running", "done"}] BY <1>1 DEF TypeOK
  <2>4. QED BY <1>1, <2>1, <2>2, <2>3 DEF TypeOK
<1>12. QED BY <1>8, <1>9, <1>10, <1>11, OtherSink DEF SinkInv, Worker
------------------------------------------------------------------------------
(* The steps of the executor thread that leave both sinks alone.           *)
LEMMA ExecutorStep ==
  ASSUME RecorderInv,
         UNCHANGED <<received, dropped, latest, queue, files, worker>>,
         enabled' \in BOOLEAN, main' \in Places, rows' \in [Camera -> SUBSET Frame],
         \A d \in Camera : rows'[d] \subseteq 0 .. latest[d],
         \A d \in Camera : /\ main' \in Unended[d] => main \in Unended[d]
                           /\ main' \in Joined[d] => \/ main \in Joined[d]
                                                     \/ /\ worker[d] = "done"
                                                        /\ ~failed[d]
  PROVE  RecorderInv'
<1>1. TypeOK' BY DEF RecorderInv, TypeOK, files
<1>2. ASSUME NEW d \in Camera
      PROVE  MarkIsLast(d)' /\ Accounted(d)' /\ InOrder(d)'
  <2>1. /\ queue'[d] = queue[d] /\ worker'[d] = worker[d]
        /\ failed'[d] = failed[d] /\ received'[d] = received[d]
        /\ dropped'[d] = dropped[d] /\ archive'[d] = archive[d]
        /\ video'[d] = video[d] /\ encoded'[d] = encoded[d]
        /\ writer'[d] = writer[d]
    BY DEF files
  <2>2. MarkIsLast(d) /\ Accounted(d) /\ InOrder(d)
    BY DEF RecorderInv, SinkInv
  <2>3. MarkIsLast(d)'
    <3>1. CASE main' \in Joined[d] /\ main \notin Joined[d]
      <4>1. Ending(d)' <=> Ending(d) BY <2>1 DEF Ending
      <4>2. worker'[d] = "done" /\ ~failed'[d] BY <2>1, <3>1
      <4>3. main' \in Unended[d] => ~Ending(d)' /\ worker'[d] = "running"
        BY <2>1, <2>2, <4>1 DEF MarkIsLast
      <4>4. QED BY <2>1, <2>2, <4>2, <4>3 DEF MarkIsLast
    <3>2. CASE main' \in Joined[d] => main \in Joined[d]
      BY <2>1, <2>2, <3>2, MarkStays
    <3>3. QED BY <3>1, <3>2
  <2>4. QED BY <2>1, <2>2, <2>3, CountsStay
<1>3. QED BY <1>1, <1>2 DEF RecorderInv, SinkInv

(* The end mark is put.                                                    *)
LEMMA PutStep ==
  ASSUME RecorderInv, NEW c \in Camera, PutEnd(c)
  PROVE  RecorderInv'
<1> USE DEF RecorderInv
<1>1. /\ queue[c] \in Seq(Frame \cup {End}) /\ Len(queue[c]) < Capacity
      /\ queue' = [queue EXCEPT ![c] = Append(queue[c], End)]
      /\ queue'[c] = Append(queue[c], End)
      /\ main = PutAt[c] /\ main' = JoinAt[c]
      /\ worker' = worker
      /\ received' = received /\ dropped' = dropped /\ enabled' = enabled
      /\ latest' = latest /\ rows' = rows
      /\ failed' = failed /\ encoded' = encoded /\ archive' = archive
      /\ video' = video /\ writer' = writer
  BY DEF PutEnd, TypeOK, executor, files
<1>2. MarkIsLast(c) /\ Accounted(c) /\ InOrder(c) BY DEF SinkInv
<1>3. /\ main \in Unended[c] /\ main' \notin Unended[c]
      /\ main' \notin Joined[c] /\ main' \in Places
      /\ \A d \in Camera : d # c =>
           /\ main' \in Unended[d] => main \in Unended[d]
           /\ main' \in Joined[d] => main \in Joined[d]
  BY <1>1 DEF Camera, PutAt, JoinAt, Unended, Joined, Places
<1>4. ~Ending(c) /\ worker[c] = "running" BY <1>2, <1>3 DEF MarkIsLast
<1>5. /\ queue'[c] \in Seq(Frame \cup {End})
      /\ Len(queue'[c]) = Len(queue[c]) + 1 /\ Len(queue[c]) \in Nat
      /\ queue'[c][Len(queue[c]) + 1] = End
      /\ \A i \in 1 .. Len(queue[c]) : queue'[c][i] = queue[c][i]
      /\ queue'[c] # << >>
  BY <1>1, Appended
<1>6. Ending(c)' BY <1>5 DEF Ending
<1>7. Waiting(c)' = Waiting(c) /\ Waiting(c) = Len(queue[c])
  BY <1>4, <1>5, <1>6 DEF Waiting
<1>8. MarkIsLast(c)'
  <2>1. ASSUME NEW i \in 1 .. Len(queue[c]) PROVE queue[c][i] # End
    <3>1. queue[c][i] = End => i = Len(queue[c]) BY <1>2 DEF MarkIsLast
    <3>2. queue[c] # << >> BY <1>1
    <3>3. QED BY <1>4, <3>1, <3>2 DEF Ending
  <2>2. ASSUME NEW i \in 1 .. Len(queue'[c]), queue'[c][i] = End
        PROVE  i = Len(queue'[c])
    <3>1. CASE i \in 1 .. Len(queue[c]) BY <1>5, <2>1, <2>2, <3>1
    <3>2. CASE i \notin 1 .. Len(queue[c]) BY <1>5, <3>2
    <3>3. QED BY <3>1, <3>2
  <2>3. worker'[c] # "done" BY <1>1, <1>4
  <2>4. QED BY <1>3, <2>2, <2>3 DEF MarkIsLast
<1>9. Accounted(c)' BY <1>1, <1>2, <1>7 DEF Accounted
<1>10. InOrder(c)'
  <2>1. SUFFICES ASSUME ~failed[c], dropped[c] = 0
                 PROVE  \A i \in 1 .. Waiting(c)' :
                          queue'[c][i] = encoded[c] + i - 1
    BY <1>1, <1>2 DEF InOrder
  <2>2. \A i \in 1 .. Waiting(c) : queue[c][i] = encoded[c] + i - 1
    BY <1>2, <2>1 DEF InOrder
  <2>3. QED BY <1>5, <1>7, <2>2
<1>11. TypeOK'
  <2>1. queue' \in [Camera -> Seq(Frame \cup {End})]
    BY <1>1, <1>5 DEF TypeOK
  <2>2. \A d \in Camera : Len(queue'[d]) <= Capacity
    <3>1. Len(queue'[c]) <= Capacity BY <1>1, <1>5
    <3>2. QED BY <1>1, <3>1 DEF TypeOK
  <2>3. QED BY <1>1, <1>3, <2>1, <2>2 DEF TypeOK
<1>12. ASSUME NEW d \in Camera, d # c
       PROVE  MarkIsLast(d)' /\ Accounted(d)' /\ InOrder(d)'
  <2>1. /\ queue'[d] = queue[d] /\ worker'[d] = worker[d]
        /\ failed'[d] = failed[d] /\ received'[d] = received[d]
        /\ dropped'[d] = dropped[d] /\ archive'[d] = archive[d]
        /\ video'[d] = video[d] /\ encoded'[d] = encoded[d]
        /\ writer'[d] = writer[d]
    BY <1>1, <1>12 DEF TypeOK
  <2>2. MarkIsLast(d) /\ Accounted(d) /\ InOrder(d) BY DEF SinkInv
  <2>3. QED BY <1>3, <1>12, <2>1, <2>2, MarkStays, CountsStay
<1>13. QED BY <1>8, <1>9, <1>10, <1>11, <1>12 DEF SinkInv

(* A worker is joined.                                                     *)
LEMMA JoinStep ==
  ASSUME RecorderInv, NEW c \in Camera, Join(c)
  PROVE  RecorderInv'
<1>1. /\ main = JoinAt[c] /\ worker[c] = "done"
      /\ main' = IF failed[c] THEN "raised" ELSE After(c)
      /\ UNCHANGED <<received, dropped, latest, queue, files, worker>>
      /\ enabled' = enabled /\ rows' = rows
  BY DEF Join, executor
<1>2. /\ enabled' \in BOOLEAN /\ rows' \in [Camera -> SUBSET Frame]
      /\ \A d \in Camera : rows'[d] \subseteq 0 .. latest[d]
  BY <1>1 DEF RecorderInv, TypeOK
<1>3. CASE failed[c]
  <2>1. main' = "raised" BY <1>1, <1>3
  <2>2. /\ main' \in Places
        /\ \A d \in Camera : main' \notin Unended[d] /\ main' \notin Joined[d]
    BY <2>1 DEF Places, Camera, Unended, Joined
  <2>3. QED BY <1>1, <1>2, <2>2, ExecutorStep
<1>4. CASE ~failed[c]
  <2>1. main' = After(c) BY <1>1, <1>4
  <2>2. /\ main' \in Places
        /\ \A d \in Camera : main' \in Unended[d] => main \in Unended[d]
        /\ \A d \in Camera : d # c /\ main' \in Joined[d] => main \in Joined[d]
    BY <1>1, <2>1 DEF Places, Camera, Unended, Joined, After, JoinAt
  <2>3. QED BY <1>1, <1>2, <1>4, <2>2, ExecutorStep
<1>5. QED BY <1>3, <1>4
------------------------------------------------------------------------------
(* Type correctness, and what is true of each sink.                        *)
LEMMA RecorderInvariant == Spec => []RecorderInv
<1>1. Init => RecorderInv
  <2> SUFFICES ASSUME Init PROVE RecorderInv OBVIOUS
  <2> USE DEF Init, Each
  <2>1. TypeOK
    <3>1. "spin" \in Places BY DEF Places
    <3>2. latest = [c \in Camera |-> received[c] - 1] OBVIOUS
    <3>3. rows \in [Camera -> SUBSET Frame] OBVIOUS
    <3>4. /\ received \in [Camera -> 0 .. MaxFrames]
          /\ dropped \in [Camera -> 0 .. MaxFrames]
          /\ encoded \in [Camera -> 0 .. MaxFrames]
      OBVIOUS
    <3>5. /\ queue \in [Camera -> Seq(Frame \cup {End})]
          /\ archive \in [Camera -> Seq(Frame)]
          /\ video \in [Camera -> Seq(Frame)]
          /\ \A c \in Camera : Len(queue[c]) <= Capacity
      OBVIOUS
    <3>6. \A c \in Camera : rows[c] \subseteq 0 .. latest[c] OBVIOUS
    <3>7. /\ writer \in [Camera -> {"none", "open", "broken"}]
          /\ failed \in [Camera -> BOOLEAN]
          /\ worker \in [Camera -> {"running", "done"}]
          /\ enabled \in BOOLEAN
      OBVIOUS
    <3>8. main \in Places BY <3>1
    <3> HIDE DEF Init
    <3>9. QED BY <3>2, <3>3, <3>4, <3>5, <3>6, <3>7, <3>8 DEF TypeOK
  <2>2. ASSUME NEW c \in Camera PROVE MarkIsLast(c) /\ Accounted(c) /\ InOrder(c)
    <3>1. queue[c] = << >> /\ ~Ending(c) /\ Waiting(c) = 0
      BY DEF Ending, Waiting
    <3>2. MarkIsLast(c) BY <3>1, SpinIsBefore DEF MarkIsLast
    <3>3. Accounted(c) BY <3>1 DEF Accounted
    <3>4. InOrder(c) BY <3>1 DEF InOrder
    <3>5. QED BY <3>2, <3>3, <3>4
  <2>3. QED BY <2>1, <2>2 DEF RecorderInv, SinkInv
<1>2. RecorderInv /\ [Next]_vars => RecorderInv'
  <2> SUFFICES ASSUME RecorderInv, [Next]_vars PROVE RecorderInv' OBVIOUS
  <2>1. /\ enabled \in BOOLEAN /\ main \in Places
        /\ rows \in [Camera -> SUBSET Frame]
        /\ \A d \in Camera : rows[d] \subseteq 0 .. latest[d]
        /\ \A d \in Camera : latest[d] >= 0 => latest[d] \in Frame
    BY DEF RecorderInv, TypeOK, Frame
  <2>2. CASE NoteGate
    <3> USE <2>2 DEF NoteGate
    <3>1. /\ UNCHANGED <<received, dropped, latest, queue, files, worker>>
          /\ main' = main /\ rows' = rows /\ enabled' \in BOOLEAN
      OBVIOUS
    <3>2. QED BY <2>1, <3>1, ExecutorStep
  <2>3. CASE WriteRow
    <3>1. /\ UNCHANGED <<received, dropped, latest, queue, files, worker>>
          /\ main' = main /\ enabled' = enabled
          /\ rows' = [c \in Camera |-> rows[c] \cup {latest[c]}]
          /\ \A c \in Camera : latest[c] >= 0
      BY <2>3 DEF WriteRow
    <3>2. rows' \in [Camera -> SUBSET Frame] BY <2>1, <3>1
    <3>3. \A d \in Camera : rows'[d] \subseteq 0 .. latest[d]
      <4>1. \A d \in Camera : latest[d] \in 0 .. latest[d]
        BY <3>1 DEF RecorderInv, TypeOK
      <4>2. QED BY <2>1, <3>1, <4>1
    <3>4. QED BY <2>1, <3>1, <3>2, <3>3, ExecutorStep
  <2>4. CASE RequestStop
    <3>1. /\ UNCHANGED <<received, dropped, latest, queue, files, worker>>
          /\ main = "spin" /\ main' = "put_chest"
          /\ rows' = rows /\ enabled' = enabled
      BY <2>4 DEF RequestStop, executor
    <3>2. /\ main' \in Places
          /\ \A d \in Camera : main \in Unended[d] /\ main' \notin Joined[d]
      BY <3>1 DEF Places, Camera, Unended, Joined
    <3>3. QED BY <2>1, <3>1, <3>2, ExecutorStep
  <2>5. CASE WriteSummary
    <3>1. /\ UNCHANGED <<received, dropped, latest, queue, files, worker>>
          /\ main = "summary" /\ main' = "done"
          /\ rows' = rows /\ enabled' = enabled
      BY <2>5 DEF WriteSummary, executor
    <3>2. /\ main' \in Places
          /\ \A d \in Camera : main' \notin Unended[d] /\ main \in Joined[d]
      BY <3>1 DEF Places, Camera, Unended, Joined
    <3>3. QED BY <2>1, <3>1, <3>2, ExecutorStep
  <2>6. ASSUME NEW c \in Camera, PutEnd(c) \/ Join(c) PROVE RecorderInv'
    BY <2>6, PutStep, JoinStep
  <2>7. ASSUME NEW c \in Camera, CameraCallback(c) \/ Worker(c)
        PROVE  RecorderInv'
    BY <2>7, CameraStep, FailedStep, WriteStep, EndStep DEF Worker
  <2>8. CASE UNCHANGED vars
    <3>1. /\ UNCHANGED <<received, dropped, latest, queue, files, worker>>
          /\ main' = main /\ rows' = rows /\ enabled' = enabled
      BY <2>8 DEF vars, executor
    <3>2. QED BY <2>1, <3>1, ExecutorStep
  <2>9. QED BY <2>2, <2>3, <2>4, <2>5, <2>6, <2>7, <2>8 DEF Next, Close
<1>3. QED BY <1>1, <1>2, PTL DEF Spec

(* A finished recorder has joined both workers.                            *)
LEMMA DoneIsJoined ==
  ASSUME RecorderInv, main = "done", NEW c \in Camera
  PROVE  /\ ~failed[c] /\ Waiting(c) = 0
         /\ Accounted(c) /\ InOrder(c)
<1>1. main \in Joined[c] BY DEF Camera, Joined
<1>2. MarkIsLast(c) /\ Accounted(c) /\ InOrder(c) BY DEF RecorderInv, SinkInv
<1>3. ~failed[c] /\ queue[c] = << >> BY <1>1, <1>2 DEF MarkIsLast
<1>4. Waiting(c) = 0 BY <1>3 DEF Waiting, Ending
<1>5. QED BY <1>2, <1>3, <1>4

(* The summary adds up: each frame a camera delivered was encoded or       *)
(* dropped, and none is still with a writer thread when the counters are   *)
(* read.                                                                   *)
THEOREM CountersAddUp == Spec => []SummaryAddsUp
<1>1. RecorderInv => SummaryAddsUp
  <2>1. SUFFICES ASSUME RecorderInv, main = "done", NEW c \in Camera
                 PROVE  /\ received[c] = encoded[c] + dropped[c]
                        /\ Len(archive[c]) = encoded[c]
    BY DEF SummaryAddsUp
  <2>2. /\ encoded[c] + dropped[c] + 0 = received[c]
        /\ Len(archive[c]) = encoded[c]
    BY <2>1, DoneIsJoined DEF Accounted
  <2>3. QED BY <2>1, <2>2 DEF RecorderInv, TypeOK
<1>2. QED BY <1>1, RecorderInvariant, PTL

(* When nothing was dropped, the frame that a row refers to by its index   *)
(* is the frame at that position of the MP4.                               *)
THEOREM FramesAreFound == Spec => []RowsFindTheirFrames
<1>1. RecorderInv => RowsFindTheirFrames
  <2>1. SUFFICES ASSUME RecorderInv, main = "done", NEW c \in Camera,
                        dropped[c] = 0, NEW frame \in rows[c]
                 PROVE  frame < Len(video[c]) /\ video[c][frame + 1] = frame
    BY DEF RowsFindTheirFrames
  <2>2. /\ encoded[c] + dropped[c] + 0 = received[c]
        /\ Len(video[c]) = encoded[c]
        /\ \A i \in 1 .. Len(video[c]) : video[c][i] = i - 1
    BY <2>1, DoneIsJoined DEF Accounted, InOrder
  <2>3. /\ encoded[c] \in Nat /\ received[c] \in Nat
        /\ frame \in 0 .. received[c] - 1
    BY <2>1 DEF RecorderInv, TypeOK
  <2>4. frame < Len(video[c]) /\ frame + 1 \in 1 .. Len(video[c])
    BY <2>1, <2>2, <2>3
  <2>5. QED BY <2>2, <2>3, <2>4
<1>2. QED BY <1>1, RecorderInvariant, PTL
==============================================================================
