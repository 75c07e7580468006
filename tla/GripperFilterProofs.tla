------------------------- MODULE GripperFilterProofs --------------------------
(***************************************************************************)
(* What a change of the gripper command presupposes, for every number of   *)
(* confirmation frames, dwell and contact hold.  The filter keeps one      *)
(* candidate with a count and two times; the histories of the properties   *)
(* see every output and every contact, and the invariant relates the two.  *)
(***************************************************************************)
EXTENDS GripperFilter, TLAPS

USE FramesAssumption, TimesAssumption

\* the candidate was the output of the last count updates
CandidateCounted ==
  /\ filter.count = 0 <=> filter.candidate = "undecided"
  /\ filter.count <= Len(recent)
  /\ \A i \in 1 .. Len(recent) :
       i > Len(recent) - filter.count => recent[i] = filter.candidate

\* the times of the code are the times that passed
TimesKept ==
  /\ sinceTransition = settled
  /\ IF contactActive THEN contactAge = gripped ELSE contactAge = Absent

FilterInv == TypeOK /\ CandidateCounted /\ TimesKept
------------------------------------------------------------------------------
\* A filter at rest is a filter.
LEMMA RestIsFilter ==
  ASSUME NEW p \in Position
  PROVE  /\ Rest(p) \in Filter /\ Rest(p).candidate # Rest(p).command
         /\ Rest(p).count = 0 /\ Rest(p).candidate = "undecided"
         /\ Rest(p).command = p
  BY DEF Rest, Filter, Position, Band

(* An update changes the command only to a confirmed band that nothing     *)
(* holds back; else it keeps, extends, starts or drops the candidate.      *)
LEMMA FilterCases ==
  ASSUME NEW f \in Filter, f.candidate # f.command,
         NEW band \in Band, NEW held \in BOOLEAN
  PROVE  LET g == Update(f, band, held)
         IN  /\ g \in Filter /\ g.candidate # g.command
             /\ g.command # f.command =>
                  /\ ~held /\ g = Rest(band) /\ band = g.command
                  /\ \/ Frames = 1
                     \/ band = f.candidate /\ f.count >= Frames - 1
             /\ g.command = f.command =>
                  \/ g.count = 0 /\ g.candidate = "undecided"
                  \/ g.count = 1 /\ g.candidate = band /\ band # "undecided"
                  \/ /\ g.candidate = band /\ f.candidate = band
                     /\ band # "undecided"
                     /\ g.count \in 1 .. f.count + 1
<1> DEFINE g == Update(f, band, held)
<1>1. /\ f.command \in Position /\ f.candidate \in Band
      /\ f.count \in 0 .. Frames
  BY DEF Filter
<1>2. CASE band \in {"undecided", f.command}
  <2>1. Pending(f, band) = Rest(f.command) BY <1>2 DEF Pending
  <2>2. ~Confirmed(f, band) BY <1>1, <2>1, RestIsFilter DEF Confirmed
  <2>3. g = Rest(f.command) BY <2>1, <2>2 DEF Update
  <2>4. QED BY <1>1, <2>3, RestIsFilter
<1>3. CASE band \notin {"undecided", f.command}
  <2> DEFINE p == Pending(f, band)
  <2>1. band \in Position BY <1>3 DEF Band
  <2>2. p = [command |-> f.command, candidate |-> band,
             count |-> IF band # f.candidate THEN 1
                       ELSE IF f.count < Frames THEN f.count + 1 ELSE Frames]
    BY <1>3 DEF Pending
  <2>3. /\ p \in Filter /\ p.command = f.command /\ p.candidate = band
        /\ p.count \in 1 .. Frames
        /\ band # f.candidate => p.count = 1
        /\ band = f.candidate => p.count \in 1 .. f.count + 1
    BY <1>1, <2>1, <2>2 DEF Filter
  <2> HIDE DEF p
  <2>4. Confirmed(f, band) <=> p.count = Frames BY DEF Confirmed, p
  <2>5. CASE p.count = Frames /\ ~held
    <3>1. g = Rest(band) BY <2>4, <2>5 DEF Update
    <3>2. Frames = 1 \/ (band = f.candidate /\ f.count >= Frames - 1)
      BY <1>1, <2>3, <2>5
    <3>3. QED BY <1>3, <2>1, <2>5, <3>1, <3>2, RestIsFilter
  <2>6. CASE ~(p.count = Frames /\ ~held)
    <3>1. g = p BY <2>4, <2>6 DEF Update, p
    <3>2. QED BY <1>3, <2>3, <3>1
  <2>7. QED BY <2>5, <2>6
<1>4. QED BY <1>2, <1>3
------------------------------------------------------------------------------
\* t is s with one more output, at most Frames of them
Continues(t, s, band) ==
  /\ t \in Seq(Band) /\ Len(t) <= Frames
  /\ Len(t) \in 1 .. Len(s) + 1 /\ Len(t) >= Len(s)
  /\ Len(s) < Frames => Len(t) = Len(s) + 1
  /\ t[Len(t)] = band
  /\ \A i \in 1 .. Len(t) - 1 :
       /\ i + Len(s) + 1 - Len(t) \in 1 .. Len(s)
       /\ t[i] = s[i + Len(s) + 1 - Len(t)]

(* The sequence of the last outputs, after one more.                       *)
LEMMA LastOutputs ==
  ASSUME NEW s \in Seq(Band), Len(s) <= Frames, NEW band \in Band
  PROVE  Continues(Last(Append(s, band)), s, band)
<1> DEFINE a == Append(s, band)
           t == Last(a)
<1> USE DEF Continues
<1>1. /\ a \in Seq(Band) /\ Len(a) = Len(s) + 1 /\ a[Len(s) + 1] = band
      /\ \A i \in 1 .. Len(s) : a[i] = s[i]
      /\ Len(s) \in Nat
  OBVIOUS
<1>2. CASE Len(s) < Frames
  <2>1. t = a BY <1>1, <1>2 DEF Last
  <2>2. QED BY <1>1, <1>2, <2>1
<1>3. CASE Len(s) = Frames
  <2>1. t = Tail(a) BY <1>1, <1>3 DEF Last
  <2>2. /\ t \in Seq(Band) /\ Len(t) = Len(s)
        /\ \A i \in 1 .. Len(s) : t[i] = a[i + 1]
    BY <1>1, <2>1
  <2>3. QED BY <1>1, <1>3, <2>2
<1>4. QED BY <1>1, <1>2, <1>3
------------------------------------------------------------------------------
(* The parts of the invariant that an update disturbs.                     *)
LEMMA UpdateCounts ==
  ASSUME FilterInv, UpdateFilter
  PROVE  /\ CandidateCounted'
         /\ recent' \in Seq(Band) /\ Len(recent') <= Frames
         /\ filter' \in Filter /\ filter'.candidate # filter'.command
<1> USE DEF FilterInv, TypeOK
<1> DEFINE held == MinimumDwell \/ ContactHold
<1>1. /\ filter' = Update(filter, wish, held)
      /\ recent' = Last(Append(recent, wish))
      /\ wish \in Band
  BY DEF UpdateFilter
<1>2. held \in BOOLEAN BY DEF MinimumDwell, ContactHold
<1> HIDE DEF held
<1>3. /\ Continues(recent', recent, wish)
      /\ Len(recent) \in Nat /\ Len(recent') \in Nat
  <2>1. Continues(recent', recent, wish) BY <1>1, LastOutputs
  <2>2. QED BY <2>1 DEF Continues
<1>4. filter' \in Filter /\ filter'.candidate # filter'.command
  BY <1>1, <1>2, FilterCases
<1>5. filter.count \in 0 .. Frames /\ filter'.count \in 0 .. Frames
  BY <1>4 DEF Filter
<1>6. CandidateCounted'
  <2> USE DEF Continues
  <2>1. CASE filter'.count = 0 /\ filter'.candidate = "undecided"
    BY <1>3, <2>1 DEF CandidateCounted
  <2>2. CASE filter'.count = 1 /\ filter'.candidate = wish
               /\ wish # "undecided"
    BY <1>3, <2>2 DEF CandidateCounted
  <2>3. CASE /\ filter'.candidate = wish /\ filter.candidate = wish
             /\ wish # "undecided" /\ filter'.count \in 1 .. filter.count + 1
    <3>1. filter'.count <= Len(recent') BY <1>3, <1>5, <2>3 DEF CandidateCounted
    <3>2. ASSUME NEW i \in 1 .. Len(recent'), i > Len(recent') - filter'.count
          PROVE  recent'[i] = filter'.candidate
      <4>1. CASE i = Len(recent') BY <1>3, <2>3, <4>1
      <4>2. CASE i # Len(recent')
        <5> DEFINE k == i + Len(recent) + 1 - Len(recent')
        <5>1. i \in 1 .. Len(recent') - 1 BY <1>3, <4>2
        <5>2. k \in 1 .. Len(recent) /\ recent'[i] = recent[k] BY <1>3, <5>1
        <5>3. k > Len(recent) - filter.count BY <1>3, <1>5, <2>3, <3>2
        <5>4. QED BY <5>2, <5>3, <2>3 DEF CandidateCounted
      <4>3. QED BY <4>1, <4>2
    <3>3. filter'.count # 0 /\ filter'.candidate # "undecided" BY <2>3, <1>5
    <3>4. QED BY <3>1, <3>2, <3>3 DEF CandidateCounted
  <2>4. CASE filter'.command # filter.command
    <3>1. filter' = Rest(wish) /\ wish \in Position
      BY <1>1, <1>2, <1>4, <2>4, FilterCases DEF Filter
    <3>2. filter'.count = 0 /\ filter'.candidate = "undecided"
      BY <3>1, RestIsFilter
    <3>3. QED BY <2>1, <3>2
  <2>5. QED BY <1>1, <1>2, <2>1, <2>2, <2>3, <2>4, FilterCases
<1>7. QED BY <1>3, <1>4, <1>6 DEF Continues

\* What an update leaves in the clocks.
LEMMA UpdateTimes ==
  ASSUME FilterInv, UpdateFilter
  PROVE  /\ TimesKept'
         /\ sinceTransition' \in 0 .. Dwell /\ contactAge' \in 0 .. Absent
         /\ contactActive' \in BOOLEAN
         /\ gripped' \in 0 .. Hold /\ settled' \in 0 .. Dwell
<1> USE DEF FilterInv, TypeOK, UpdateFilter
<1>1. sinceTransition' = settled'
  BY DEF TimesKept, Transitioned
<1>2. sinceTransition' \in 0 .. Dwell OBVIOUS
<1>3. CASE touch
  BY <1>1, <1>2, <1>3 DEF NoteContact, TimesKept, Absent
<1>4. CASE ~touch
  BY <1>1, <1>2, <1>4 DEF NoteContact, TimesKept, Absent
<1>5. QED BY <1>3, <1>4

(* The invariant holds.                                                    *)
LEMMA FilterInvariant == Spec => []FilterInv
<1>1. Init => FilterInv
  <2> SUFFICES ASSUME Init PROVE FilterInv OBVIOUS
  <2> USE DEF Init
  <2>1. "open" \in Position BY DEF Position
  <2>2. TypeOK
    <3>1. filter \in Filter /\ filter.candidate # filter.command
      BY <2>1, RestIsFilter
    <3>2. contactAge \in 0 .. Absent BY DEF Absent
    <3>3. wish \in Band BY DEF Band
    <3>4. recent \in Seq(Band) /\ Len(recent) <= Frames OBVIOUS
    <3>5. /\ sinceTransition \in 0 .. Dwell /\ settled \in 0 .. Dwell
          /\ gripped \in 0 .. Hold /\ resets \in 0 .. MaxResets
      OBVIOUS
    <3>6. contactActive \in BOOLEAN /\ touch \in BOOLEAN OBVIOUS
    <3> HIDE DEF Init
    <3>7. QED BY <3>1, <3>2, <3>3, <3>4, <3>5, <3>6 DEF TypeOK
  <2>3. CandidateCounted BY <2>1, RestIsFilter DEF CandidateCounted
  <2>4. TimesKept BY DEF TimesKept
  <2>5. QED BY <2>2, <2>3, <2>4 DEF FilterInv
<1>2. FilterInv /\ [Next]_vars => FilterInv'
  <2> SUFFICES ASSUME FilterInv, [Next]_vars PROVE FilterInv' OBVIOUS
  <2> USE DEF FilterInv
  <2>1. CASE UpdateFilter
    <3>1. TypeOK'
      BY <2>1, UpdateCounts, UpdateTimes DEF TypeOK, UpdateFilter
    <3>2. QED BY <2>1, <3>1, UpdateCounts, UpdateTimes
  <2>2. CASE Tick
    <3> USE <2>2 DEF Tick
    <3> USE DEF TypeOK
    <3>0. /\ sinceTransition' \in 0 .. Dwell /\ settled' \in 0 .. Dwell
          /\ contactAge' \in 0 .. Absent /\ gripped' \in 0 .. Hold
      BY DEF Older, Absent
    <3>1. TypeOK' BY <3>0
    <3>2. CandidateCounted' BY DEF CandidateCounted
    <3>3. TimesKept'
      <4>1. sinceTransition' = settled' BY DEF TimesKept
      <4>2. CASE contactActive
        BY <4>1, <4>2 DEF TimesKept, TypeOK
      <4>3. CASE ~contactActive
        BY <4>1, <4>3 DEF TimesKept, TypeOK, Older, Absent
      <4>4. QED BY <4>2, <4>3 DEF TypeOK
    <3>4. QED BY <3>1, <3>2, <3>3
  <2>3. CASE PolicyDecides
    BY <2>3 DEF PolicyDecides, TypeOK, CandidateCounted, TimesKept
  <2>4. CASE ContactMessage
    BY <2>4 DEF ContactMessage, TypeOK, CandidateCounted, TimesKept
  <2>5. ASSUME NEW position \in Position, Reset(position) PROVE FilterInv'
    <3> USE <2>5 DEF Reset, inputs
    <3>1. TypeOK'
      <4>1. filter' \in Filter /\ filter'.candidate # filter'.command
        BY RestIsFilter
      <4>2. /\ resets' \in 0 .. MaxResets
            /\ sinceTransition' \in 0 .. Dwell /\ settled' \in 0 .. Dwell
            /\ contactAge' \in 0 .. Absent /\ gripped' \in 0 .. Hold
        BY DEF TypeOK, Absent
      <4>3. recent' \in Seq(Band) /\ Len(recent') <= Frames OBVIOUS
      <4>4. /\ contactActive' \in BOOLEAN
            /\ wish' \in Band /\ touch' \in BOOLEAN
        BY DEF TypeOK
      <4> HIDE <2>5 DEF Reset
      <4>5. QED BY <4>1, <4>2, <4>3, <4>4 DEF TypeOK
    <3>2. CandidateCounted' BY RestIsFilter DEF CandidateCounted
    <3>3. TimesKept' BY DEF TimesKept
    <3>4. QED BY <3>1, <3>2, <3>3
  <2>6. CASE UNCHANGED vars
    BY <2>6 DEF vars, TypeOK, CandidateCounted, TimesKept
  <2>7. QED BY <2>1, <2>2, <2>3, <2>4, <2>5, <2>6 DEF Next
<1>3. QED BY <1>1, <1>2, PTL DEF Spec
------------------------------------------------------------------------------
(* Only an update commands, and it commands the band it was given.         *)
LEMMA CommandIsUpdate ==
  ASSUME FilterInv, [Next]_vars, Commanded
  PROVE  /\ UpdateFilter /\ ~MinimumDwell /\ ~ContactHold
         /\ filter'.command = wish
         /\ Frames = 1 \/ (wish = filter.candidate /\ filter.count >= Frames - 1)
<1>1. UpdateFilter
  <2>1. \A position \in Position : ~Reset(position)
    BY DEF Commanded, Reset
  <2>2. filter' # filter BY DEF Commanded
  <2>3. QED BY <2>1, <2>2 DEF Next, vars, Tick, PolicyDecides, ContactMessage
<1> DEFINE held == MinimumDwell \/ ContactHold
<1>2. held \in BOOLEAN BY DEF MinimumDwell, ContactHold
<1>3. /\ filter' = Update(filter, wish, held) /\ wish \in Band
      /\ filter \in Filter /\ filter.candidate # filter.command
  BY <1>1 DEF UpdateFilter, FilterInv, TypeOK
<1>4. /\ ~held /\ filter'.command = wish
      /\ Frames = 1 \/ (wish = filter.candidate /\ filter.count >= Frames - 1)
  <2> HIDE DEF held
  <2>1. filter'.command # filter.command BY DEF Commanded
  <2>2. QED BY <1>2, <1>3, <2>1, FilterCases
<1>5. QED BY <1>1, <1>4

(* A command changes only after Frames consecutive outputs that were all   *)
(* decisive for the new state, none of them from before the last reset.    *)
THEOREM CommandsAreConfirmed == Spec => ConfirmedByConsecutiveFrames
<1>1. ASSUME FilterInv, [Next]_vars, Commanded
      PROVE  /\ Len(recent') = Frames
             /\ \A i \in 1 .. Frames : recent'[i] = filter'.command
  <2> USE DEF FilterInv, TypeOK
  <2>1. /\ recent' = Last(Append(recent, wish)) /\ wish \in Band
        /\ filter'.command = wish
        /\ Frames = 1 \/ (wish = filter.candidate /\ filter.count >= Frames - 1)
    BY <1>1, CommandIsUpdate DEF UpdateFilter
  <2>2. filter.count \in 0 .. Frames BY <1>1 DEF Filter
  <2>3. /\ Continues(recent', recent, wish)
        /\ Len(recent) \in Nat /\ Len(recent') \in Nat
    <3>1. Continues(recent', recent, wish) BY <1>1, <2>1, LastOutputs
    <3>2. QED BY <1>1, <3>1 DEF Continues
  <2> USE DEF Continues
  <2>4. Len(recent') = Frames
    BY <1>1, <2>1, <2>2, <2>3 DEF CandidateCounted
  <2>5. ASSUME NEW i \in 1 .. Frames PROVE recent'[i] = wish
    <3>1. CASE i = Frames BY <2>3, <2>4, <3>1
    <3>2. CASE i # Frames
      <4> DEFINE k == i + Len(recent) + 1 - Len(recent')
      <4>0. i \in 1 .. Len(recent') - 1 BY <2>3, <2>4, <3>2
      <4>1. k \in 1 .. Len(recent) /\ recent'[i] = recent[k]
        BY <2>3, <4>0
      <4>2. Frames # 1 BY <3>2
      <4>3. wish = filter.candidate /\ filter.count >= Frames - 1
        BY <2>1, <4>2
      <4>4. k > Len(recent) - filter.count BY <2>2, <2>3, <2>4, <4>3
      <4>5. QED BY <1>1, <4>1, <4>3, <4>4 DEF CandidateCounted
    <3>3. QED BY <3>1, <3>2
  <2>6. QED BY <2>1, <2>4, <2>5
<1>2. QED BY <1>1, FilterInvariant, PTL
      DEF Spec, ConfirmedByConsecutiveFrames

(* Two commands, or a reset and a command, are never closer than the       *)
(* dwell.                                                                  *)
THEOREM DwellBetweenCommands == Spec => CommandsAreDwellApart
<1>1. ASSUME FilterInv, [Next]_vars, Commanded PROVE settled >= Dwell
  BY <1>1, CommandIsUpdate DEF MinimumDwell, FilterInv, TypeOK, TimesKept
<1>2. QED BY <1>1, FilterInvariant, PTL DEF Spec, CommandsAreDwellApart

(* An opening commanded while the gripper reports contact means that every *)
(* update of the whole contact hold has seen the contact.                  *)
THEOREM HoldBeforeOpening == Spec => OpenedOnlyAfterHold
<1>1. ASSUME FilterInv, [Next]_vars, Commanded, filter'.command = "open", touch
      PROVE  gripped >= Hold
  <2>1. wish = "open" /\ NoteContact /\ ~(contactAge' < Hold)
    BY <1>1, CommandIsUpdate DEF ContactHold, UpdateFilter
  <2>2. CASE contactActive
    BY <1>1, <2>1, <2>2 DEF NoteContact, FilterInv, TypeOK, TimesKept
  <2>3. CASE ~contactActive
    BY <1>1, <2>1, <2>3 DEF NoteContact, FilterInv, TypeOK, TimesKept
  <2>4. QED BY <2>2, <2>3
<1>2. QED BY <1>1, FilterInvariant, PTL DEF Spec, OpenedOnlyAfterHold
==============================================================================
