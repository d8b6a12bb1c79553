-------------------------- MODULE SessionRegistry --------------------------
(***************************************************************************)
(* What the WebSocket server promises about its sessions, whatever its     *)
(* threads do: the application is told of a session's end before the       *)
(* session stops carrying data, a session is freed only after it was       *)
(* closed, never comes back, and none is left when the server has stopped. *)
(***************************************************************************)
EXTENDS TLAPS

CONSTANT Sessions   \* the sessions the server may have

VARIABLES
  life,    \* per session: "absent", "connected", "closed" or "gone"
  told,    \* per session: the application was told that it ends
  server   \* "up" or "stopped"

vars == <<life, told, server>>

Init ==
  /\ life = [s \in Sessions |-> "absent"]
  /\ told = [s \in Sessions |-> FALSE]
  /\ server = "up"

Move(s, from, to) ==
  /\ server = "up" /\ life[s] = from
  /\ life' = [life EXCEPT ![s] = to]
  /\ UNCHANGED <<told, server>>

Connect(s) == Move(s, "absent", "connected")

Tell(s) ==
  /\ server = "up" /\ life[s] \in {"connected", "closed"}
  /\ told' = [told EXCEPT ![s] = TRUE]
  /\ UNCHANGED <<life, server>>

Close(s) == told[s] /\ Move(s, "connected", "closed")

Free(s) == Move(s, "closed", "gone")

Stop ==
  /\ \A s \in Sessions : life[s] \in {"absent", "gone"}
  /\ server' = "stopped"
  /\ UNCHANGED <<life, told>>

Next == Stop \/ \E s \in Sessions : Connect(s) \/ Tell(s) \/ Close(s) \/ Free(s)

Spec == Init /\ [][Next]_vars

-----------------------------------------------------------------------------
(* What this means *)

(* A session that is closed or freed was announced before.                 *)
ToldBeforeEnd == \A s \in Sessions : life[s] \in {"closed", "gone"} => told[s]

(* A server that has stopped has no session left.                          *)
NoneLeft == server = "stopped" => \A s \in Sessions : life[s] \in {"absent", "gone"}

(* What a session has behind it: it only ever goes forward.                *)
NoWayBack ==
  [][\A s \in Sessions : life[s] \in {"closed", "gone"} => life'[s] \in {"closed", "gone"}]_vars

Typed ==
  /\ life \in [Sessions -> {"absent", "connected", "closed", "gone"}]
  /\ told \in [Sessions -> BOOLEAN]

(* The application is told before a session's end, no session comes back,  *)
(* and none is left when the server has stopped.                           *)
THEOREM Promised == Spec => [](ToldBeforeEnd /\ NoneLeft) /\ NoWayBack
<1> DEFINE Inv == Typed /\ ToldBeforeEnd /\ NoneLeft
<1> USE DEF Typed, ToldBeforeEnd, NoneLeft
<1>1. Init => Inv
  BY DEF Init
<1>2. Inv /\ [Next]_vars
        => Inv' /\ \A s \in Sessions : life[s] \in {"closed", "gone"} => life'[s] \in {"closed", "gone"}
  <2> SUFFICES ASSUME Inv, [Next]_vars
               PROVE  Inv' /\ \A s \in Sessions : life[s] \in {"closed", "gone"}
                                                => life'[s] \in {"closed", "gone"}
    OBVIOUS
  <2>1. CASE Stop
    BY <2>1 DEF Stop
  <2>2. ASSUME NEW s \in Sessions, Connect(s) \/ Tell(s) \/ Close(s) \/ Free(s)
        PROVE  Inv' /\ \A q \in Sessions : life[q] \in {"closed", "gone"}
                                         => life'[q] \in {"closed", "gone"}
    BY <2>2 DEF Connect, Tell, Close, Free, Move
  <2>3. CASE UNCHANGED vars
    BY <2>3 DEF vars
  <2> QED
    BY <2>1, <2>2, <2>3 DEF Next
<1> QED
  BY <1>1, <1>2, PTL DEF Spec, NoWayBack
=============================================================================
