--------------------------- MODULE GatedPublisher ----------------------------
(***************************************************************************)
(* What the adapter promises of its action gate, without the threads: a    *)
(* command is admitted only while the gate is open, an admitted command is *)
(* published at most once and nobody looks at the gate again, and no other *)
(* command is admitted before.  So each closing of the gate is followed by *)
(* at most one late command.                                               *)
(***************************************************************************)
EXTENDS Naturals

VARIABLES
  open,       \* the gate
  admitted,   \* a command has passed the gate and is not yet published
  late        \* commands published since the gate was closed

vars == <<open, admitted, late>>

Init == open = FALSE /\ admitted = FALSE /\ late = 0

Open     == open' = TRUE /\ late' = 0 /\ UNCHANGED admitted
Close    == open' = FALSE /\ UNCHANGED <<admitted, late>>
Admit    == /\ open /\ ~admitted
            /\ admitted' = TRUE
            /\ UNCHANGED <<open, late>>
Publish  == /\ admitted
            /\ admitted' = FALSE
            /\ late' = IF open THEN late ELSE late + 1
            /\ UNCHANGED open
Withdraw == admitted /\ admitted' = FALSE /\ UNCHANGED <<open, late>>

Next == Open \/ Close \/ Admit \/ Publish \/ Withdraw

Spec == Init /\ [][Next]_vars
==============================================================================
