------------------------- MODULE GripperConfirmation -------------------------
(***************************************************************************)
(* The time-free half of GripperTemporalFilter (smolvla_guard.py): which   *)
(* band of the model's gripper output is a candidate for a transition, how *)
(* many consecutive decisive outputs confirm it, and what an update leaves *)
(* in the filter.  Whether a confirmed candidate is still held back by the *)
(* dwell or by the contact hold is the parameter `held': module            *)
(* GripperFilter computes it from the clock, module ActionGate, which has  *)
(* no clock, leaves it open.                                               *)
(***************************************************************************)
EXTENDS Naturals

CONSTANT Frames     \* gripper_confirmation_frames

ASSUME FramesAssumption == Frames \in Nat \ {0}

Position == {"open", "closed"}          \* command_closed = FALSE, TRUE
\* raw_value <= open_threshold, >= close_threshold, or strictly between.
Band     == Position \cup {"undecided"}

Filter == [command : Position, candidate : Band, count : 0 .. Frames]

\* reset(): the command is the measured state, nothing is pending.
Rest(position) == [command |-> position, candidate |-> "undecided", count |-> 0]

\* Fault: the candidate survives an indecisive output and a change of mind.
Bug_PendingKeepsCount(f, band) ==
  IF band \in {"undecided", f.command} THEN f
  ELSE [f EXCEPT !.candidate = band,
                 !.count = IF @ < Frames THEN @ + 1 ELSE Frames]

\* An indecisive output, or one asking for the current state, drops the
\* candidate; any other one extends it or starts a new one.
\* The count saturates at Frames: update() only compares it with Frames.
Pending(f, band) ==
  IF band \in {"undecided", f.command} THEN Rest(f.command)
  ELSE [command |-> f.command, candidate |-> band,
        count |-> IF band # f.candidate THEN 1
                  ELSE IF f.count < Frames THEN f.count + 1 ELSE Frames]

Confirmed(f, band) == Pending(f, band).count = Frames

Update(f, band, held) ==
  IF Confirmed(f, band) /\ ~held THEN Rest(band) ELSE Pending(f, band)

Transitioned(f, band, held) == Update(f, band, held).command # f.command
==============================================================================
