------------------------ MODULE MCCollectionSession ------------------------
(* Two attempts, so that a session changes its mode once and saves an episode
   after another one; targets of one episode per mode, or two in all.
   The modes are symmetric, so a session need not start with both. *)
EXTENDS CollectionSession, TLC

MCFinalizers == {Session, Manual}
MCCaptures == {Leftover} \union 1..MaxAttempts
MCInitialModes == {"qgf"}
MCPairedTarget == [m \in Modes |-> 1]
=============================================================================
