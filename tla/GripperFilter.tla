---------------------------- MODULE GripperFilter ----------------------------
(***************************************************************************)
(* GripperTemporalFilter (smolvla_guard.py): the stateful, time-aware      *)
(* filter between the model's continuous gripper output and the binary     *)
(* gripper command.  One action per method of the class, and one for each  *)
(* input it samples: the band the model's output is in, the contact flag   *)
(* of the gripper, and the monotonic clock.                                *)
(*                                                                         *)
(* Times are kept as ages that saturate where the code stops telling them  *)
(* apart: update() compares only `now - last_transition_time` with the     *)
(* dwell and `now - contact_started_time` with the contact hold.           *)
(***************************************************************************)
EXTENDS GripperConfirmation, Sequences

CONSTANTS
  Dwell,          \* min_state_dwell_seconds, in clock ticks
  Hold,           \* contact_hold_seconds, in clock ticks
  MaxResets       \* bound: resets (gate closings and openings) of a behaviour

ASSUME TimesAssumption == Dwell \in Nat /\ Hold \in Nat /\ MaxResets \in Nat

VARIABLES
  filter,         \* command_closed, candidate_closed, candidate_count
  sinceTransition,\* age of last_transition_time
  contactAge,     \* age of contact_started_time, Absent for None
  contactActive,  \* contact_active: the contact flag of the last update
  wish,           \* the band of the model's current output
  touch,          \* the adapter's current _gripper_contact
  resets,
  recent,         \* history: bands of the last Frames updates since the reset
  gripped,        \* history: ticks every update has seen contact, saturated
  settled         \* history: ticks since the command changed or was reset

vars == <<filter, sinceTransition, contactAge, contactActive, wish, touch,
          resets, recent, gripped, settled>>
inputs == <<wish, touch>>

Absent == Hold + 1          \* not an age: ages saturate at Hold
Older(age, limit) == IF age < limit THEN age + 1 ELSE age
Last(s) == IF Len(s) > Frames THEN Tail(s) ELSE s

TypeOK ==
  /\ filter \in Filter
  /\ filter.candidate # filter.command
  /\ sinceTransition \in 0 .. Dwell
  /\ contactAge \in 0 .. Absent
  /\ contactActive \in BOOLEAN
  /\ wish \in Band
  /\ touch \in BOOLEAN
  /\ resets \in 0 .. MaxResets
  /\ recent \in Seq(Band) /\ Len(recent) <= Frames
  /\ gripped \in 0 .. Hold
  /\ settled \in 0 .. Dwell
------------------------------------------------------------------------------
\* Constructed with initial_closed=False when the adapter is built.
Init ==
  /\ filter = Rest("open")
  /\ sinceTransition = 0
  /\ contactAge = Absent
  /\ contactActive = FALSE
  /\ wish = "undecided"
  /\ touch = FALSE
  /\ resets = 0
  /\ recent = << >>
  /\ gripped = 0
  /\ settled = 0

Reset(position) ==
  /\ resets < MaxResets
  /\ resets' = resets + 1
  /\ filter' = Rest(position)
  /\ sinceTransition' = 0
  /\ contactAge' = Absent
  /\ contactActive' = FALSE
  /\ recent' = << >>
  /\ gripped' = 0
  /\ settled' = 0
  /\ UNCHANGED inputs

\* Fault: the hold is lost when the flag stays up (the edge is never recorded).
Bug_NoteContact ==
  /\ contactActive' = touch
  /\ contactAge' = IF touch THEN contactAge ELSE Absent

\* Fault: the hold starts anew at every update that sees the contact.
Bug_NoteContactRestarts ==
  /\ contactActive' = touch
  /\ contactAge' = IF touch THEN 0 ELSE Absent

\* note_contact(): the rising edge starts the hold, losing contact drops it.
NoteContact ==
  /\ contactActive' = touch
  /\ contactAge' = IF ~touch THEN Absent
                   ELSE IF contactActive THEN contactAge ELSE 0

\* The two reasons update() gives for holding a confirmed candidate back.
Bug_NoDwell == FALSE
MinimumDwell == sinceTransition < Dwell

ContactHold  == wish = "open" /\ contactAge' < Hold

\* Fault: the dwell starts anew at every update, not only at transitions.
Bug_UpdateFilter ==
  LET held == MinimumDwell \/ ContactHold
  IN  /\ NoteContact
      /\ filter' = Update(filter, wish, held)
      /\ sinceTransition' = 0
      /\ recent' = Last(Append(recent, wish))
      /\ gripped' = IF touch /\ contactActive THEN gripped ELSE 0
      /\ settled' = IF filter'.command = filter.command THEN settled ELSE 0
      /\ UNCHANGED <<wish, touch, resets>>

UpdateFilter ==
  LET held == MinimumDwell \/ ContactHold
  IN  /\ NoteContact
      /\ filter' = Update(filter, wish, held)
      /\ sinceTransition' = IF Transitioned(filter, wish, held) THEN 0
                            ELSE sinceTransition
      /\ recent' = Last(Append(recent, wish))
      /\ gripped' = IF touch /\ contactActive THEN gripped ELSE 0
      /\ settled' = IF filter'.command = filter.command THEN settled ELSE 0
      /\ UNCHANGED <<wish, touch, resets>>

Tick ==
  /\ sinceTransition' = Older(sinceTransition, Dwell)
  /\ contactAge' = Older(contactAge, Hold)
  /\ gripped' = Older(gripped, Hold)
  /\ settled' = Older(settled, Dwell)
  /\ UNCHANGED <<filter, contactActive, wish, touch, resets, recent>>

PolicyDecides == /\ wish' \in Band
                 /\ UNCHANGED <<filter, sinceTransition, contactAge,
                       contactActive, touch, resets, recent, gripped, settled>>

ContactMessage == /\ touch' \in BOOLEAN
                  /\ UNCHANGED <<filter, sinceTransition, contactAge,
                        contactActive, wish, resets, recent, gripped, settled>>

Next ==
  \/ UpdateFilter
  \/ Tick
  \/ PolicyDecides
  \/ ContactMessage
  \/ \E position \in Position : Reset(position)

\* Actions keep coming while the gate is open, and the clock never stops.
Fairness == WF_vars(UpdateFilter) /\ WF_vars(Tick)

Spec == Init /\ [][Next]_vars
FairSpec == Spec /\ Fairness
------------------------------------------------------------------------------
Commanded == filter'.command # filter.command /\ recent' # << >>

(* A command changes only after Frames consecutive outputs that were all   *)
(* decisive for the new state, none of them from before the last reset.    *)
ConfirmedByConsecutiveFrames ==
  [][Commanded => /\ Len(recent') = Frames
                  /\ \A i \in 1 .. Frames : recent'[i] = filter'.command]_vars

(* Two commands, or a reset and a command, are never closer than the       *)
(* dwell: a chunk cannot undo what the previous one just commanded.        *)
CommandsAreDwellApart == [][Commanded => settled >= Dwell]_vars

(* An opening commanded while the gripper reports contact means that every *)
(* update of the whole contact hold has seen the contact.                  *)
OpenedOnlyAfterHold ==
  [][Commanded /\ filter'.command = "open" /\ touch => gripped >= Hold]_vars

(* A model that keeps asking for a closed gripper gets it: neither the     *)
(* dwell nor any contact sequence starves a closing.                       *)
ClosingIsNeverStarved ==
  <>[](wish = "closed") => <>[](filter.command = "closed")

(* A model that keeps asking for an open gripper gets it once the contact  *)
(* flag stops flapping: the hold delays the opening, it never vetoes it.   *)
OpeningIsOnlyDelayed ==
  (\E b \in BOOLEAN : <>[](wish = "open" /\ touch = b))
    => <>[](filter.command = "open")
==============================================================================
