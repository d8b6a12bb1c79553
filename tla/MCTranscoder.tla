---------------------------- MODULE MCTranscoder ----------------------------
(* Instances of Transcoder for TLC. *)
EXTENDS Transcoder, TLC
=============================================================================
