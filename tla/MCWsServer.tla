----------------------------- MODULE MCWsServer -----------------------------
(* Instances of WsServer for TLC. *)
EXTENDS WsServer, TLC

(* Sessions are interchangeable: no definition tells two of them apart. *)
Symmetry == Permutations(Sessions)
=============================================================================
