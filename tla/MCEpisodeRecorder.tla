-------------------------- MODULE MCEpisodeRecorder --------------------------
(***************************************************************************)
(* EpisodeRecorder for TLC: three frames of each camera and a queue of     *)
(* fewer, so that a frame is dropped between two that are kept.            *)
(***************************************************************************)
EXTENDS EpisodeRecorder
==============================================================================
