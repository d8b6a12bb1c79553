--------------------------- MODULE MCVideoObjects ---------------------------
(* Instances of VideoObjects for TLC. *)
EXTENDS VideoObjects, TLC

(* The pixel formats, and an encoder with one of them and one with three.  *)
CONSTANTS f1, f2, f3
TwoCodecs == {<<f1>>, <<f2, f1, f3>>}
=============================================================================
