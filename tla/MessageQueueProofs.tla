------------------------- MODULE MessageQueueProofs -------------------------
(***************************************************************************)
(* Theorems about MessageQueue, for any servers, any clients and any       *)
(* number of queues, messages and restarts.  TypeOK and NumberInv hold in  *)
(* any case; what a server hears is its own when the listeners recreate    *)
(* the queue, as the Application tells them to (Recreate).                 *)
(***************************************************************************)
EXTENDS MessageQueue, TLAPS

(* A message has the number of a command that was sent; only a process     *)
(* whose listener runs has a thread for it; a client sends to a queue it   *)
(* has opened.                                                             *)
NumberInv ==
  /\ \A i \in 1..Len(content) : content[i].id <= sent
  /\ \A v \in Servers : got[v] # None => got[v].id <= sent
  /\ \A v \in Servers : lpc[v] # "none" => pc[v] \in {"run", "stopFlag", "stopJoin"}
  /\ \A c \in Clients : pc[c] = "send" => msqId[c] # 0

(* The places at which a server holds the id of a queue it has created.    *)
Owns(v) == pc[v] \in {"probeRemove", "run", "stopFlag", "stopJoin"}

(* No two servers created the same queue.                                  *)
OwnInv == \A v, w \in Servers : Owns(v) /\ Owns(w) /\ msqId[v] = msqId[w] /\ msqId[v] # 0 => v = w

(* What is in the queue of a server, and what it handles, was sent after   *)
(* the server was started.                                                 *)
FreshInv ==
  \A v \in Servers :
    /\ Owns(v) /\ msqId[v] = registered /\ registered # 0
         => \A i \in 1..Len(content) : content[i].id > born[v]
    /\ got[v] # None => got[v].id > born[v]

Inv == OwnInv /\ FreshInv

USE ProcessesAssumption, BoundsAssumption, RecreateAssumption

-----------------------------------------------------------------------------
(* Types *)

(* The initial state has the declared types.                               *)
LEMMA InitType == Init => TypeOK /\ NumberInv
  BY DEF Init, TypeOK, NumberInv, Procs

USE DEF Procs, Step, kernel, listener

(* Types are preserved by a server's main thread.                          *)
LEMMA ServerType ==
  ASSUME TypeOK, NumberInv, NEW v \in Servers, ServerStep(v) PROVE TypeOK' /\ NumberInv'
<1> USE DEF TypeOK, NumberInv
<1>1. CASE Launch(v)
  <2>1. launches' \in 0..MaxLaunches
    BY <1>1 DEF Launch
  <2>2. born' \in [Servers -> 0..sent'] /\ sent' \in 0..MaxMessages
    BY <1>1 DEF Launch
  <2>3. /\ pc' = [pc EXCEPT ![v] = "probe"] /\ pc[v] = "off"
        /\ UNCHANGED <<registered, content, made, msqId, lpc, running, got, handled, sent>>
    BY <1>1 DEF Launch
  <2> HIDE BoundsAssumption
  <2>4. NumberInv'
    BY <2>3
  <2> QED
    BY <2>1, <2>2, <2>3, <2>4
<1>2. CASE Probe(v)
  BY <1>2, SMTT(30) DEF Probe, CreateQueue, NewQueue, CreateId
<1>3. CASE ProbeRemove(v)
  BY <1>3, SMTT(30) DEF ProbeRemove, RemoveQueue
<1>4. CASE GetQueue(v)
  BY <1>4 DEF GetQueue
<1>5. CASE RemoveOld(v)
  BY <1>5 DEF RemoveOld, RemoveQueue
<1>6. CASE Create(v)
  <2>1. CASE registered = 0
    BY <1>6, <2>1 DEF Create, CreateQueue, NewQueue, CreateId
  <2>2. CASE registered # 0
    BY <1>6, <2>2 DEF Create, CreateQueue, NewQueue, CreateId
  <2> QED
    BY <2>1, <2>2
<1>7. CASE Run(v)
  BY <1>7 DEF Run
<1>8. CASE DestroyQueue(v)
  BY <1>8, SMTT(30) DEF DestroyQueue, RemoveQueue
<1>9. CASE StopFlag(v)
  BY <1>9 DEF StopFlag
<1>10. CASE StopJoin(v)
  BY <1>10 DEF StopJoin, Exit
<1>11. CASE Crash(v)
  BY <1>11 DEF Crash, Exit
<1> QED
  BY <1>1, <1>2, <1>3, <1>4, <1>5, <1>6, <1>7, <1>8, <1>9, <1>10, <1>11 DEF ServerStep

(* Types are preserved by a listener's thread.                             *)
LEMMA ListenerType ==
  ASSUME TypeOK, NumberInv, NEW v \in Servers, ListenerStep(v) PROVE TypeOK' /\ NumberInv'
<1> USE DEF TypeOK, NumberInv
<1>1. CASE Check(v)
  BY <1>1 DEF Check, Listen
<1>2. CASE Pop(v)
  BY <1>2, SMTT(30) DEF Pop, Listen, Receivable
<1>3. CASE PopFails(v)
  BY <1>3 DEF PopFails, Listen
<1>4. CASE Handle(v)
  <2>1. got[v] \in Messages /\ got[v].id <= sent /\ lpc[v] = "handle"
    BY <1>4 DEF Handle, Listen
  <2>2. got[v].id \in 1..sent
    BY <2>1 DEF Messages
  <2> QED
    BY <1>4, <2>1, <2>2 DEF Handle, Listen
<1> QED
  BY <1>1, <1>2, <1>3, <1>4 DEF ListenerStep

(* Types are preserved by a client.                                        *)
LEMMA ClientType ==
  ASSUME TypeOK, NumberInv, NEW c \in Clients, ClientStep(c) PROVE TypeOK' /\ NumberInv'
<1> USE DEF TypeOK, NumberInv
<1>1. CASE Exists(c)
  BY <1>1 DEF Exists
<1>2. CASE ClientGet(c)
  BY <1>2, SMTT(30) DEF ClientGet, CreateQueue, NewQueue, CreateId
<1>3. CASE SendFails(c)
  BY <1>3 DEF SendFails
<1>4. ASSUME NEW fits \in BOOLEAN, Send(c, fits) PROVE TypeOK' /\ NumberInv'
  <2> DEFINE m == [id |-> sent + 1, fits |-> fits]
  <2>1. sent + 1 \in 1..MaxMessages /\ sent' = sent + 1 /\ content' = Append(content, m)
    BY <1>4 DEF Send
  <2>2. m \in Messages /\ m.id = sent'
    BY <2>1 DEF Messages
  <2>3. registered # 0
    BY <1>4 DEF Send
  <2> HIDE DEF m
  <2>4. content' \in Seq(Messages)
    BY <2>1, <2>2
  <2>5. \A i \in 1..Len(content') : content'[i].id <= sent'
    <3>1. /\ Len(content') = Len(content) + 1 /\ content'[Len(content) + 1] = m
          /\ \A i \in 1..Len(content) : content'[i] = content[i] /\ content[i] \in Messages
      BY <2>1, <2>2
    <3>2. \A i \in 1..Len(content) : content'[i].id <= sent'
      BY <2>1, <3>1 DEF Messages
    <3> QED
      BY <2>1, <2>2, <3>1, <3>2
  <2>6. \A v \in Servers : got'[v] # None => got'[v].id <= sent'
    BY <1>4, <2>1 DEF Send, Messages
  <2> QED
    BY <1>4, <2>1, <2>3, <2>4, <2>5, <2>6, SMTT(30) DEF Send
<1> QED
  BY <1>1, <1>2, <1>3, <1>4 DEF ClientStep

(* Types are preserved by every step.                                      *)
LEMMA TypeStep == ASSUME TypeOK, NumberInv, [Next]_vars PROVE TypeOK' /\ NumberInv'
<1>1. CASE UNCHANGED vars
  BY <1>1 DEF vars, TypeOK, NumberInv
<1> QED
  BY <1>1, ServerType, ListenerType, ClientType DEF Next, Rest

-----------------------------------------------------------------------------
(* Whose queue it is *)

(* Initially there is no queue, and nobody holds one.                      *)
LEMMA InitInv == Init => Inv
  BY DEF Init, Inv, OwnInv, FreshInv, Owns

(* Ownership is preserved by a server's main thread.                       *)
LEMMA ServerInv ==
  ASSUME Recreate, TypeOK, NumberInv, Inv, NEW v \in Servers, ServerStep(v) PROVE Inv'
<1> USE DEF TypeOK, NumberInv, Inv, OwnInv, FreshInv, Owns
<1>1. CASE Launch(v)
  BY <1>1 DEF Launch
<1>2. CASE Probe(v)
  BY <1>2, SMTT(30) DEF Probe, CreateQueue, NewQueue, CreateId
<1>3. CASE ProbeRemove(v)
  BY <1>3 DEF ProbeRemove, RemoveQueue
<1>4. CASE GetQueue(v)
  BY <1>4 DEF GetQueue
<1>5. CASE RemoveOld(v)
  BY <1>5 DEF RemoveOld, RemoveQueue
<1>6. CASE Create(v)
  BY <1>6, SMTT(30) DEF Create, CreateQueue, NewQueue, CreateId
<1>7. CASE Run(v)
  BY <1>7 DEF Run
<1>8. CASE DestroyQueue(v)
  BY <1>8, SMTT(30) DEF DestroyQueue, RemoveQueue
<1>9. CASE StopFlag(v)
  BY <1>9 DEF StopFlag
<1>10. CASE StopJoin(v)
  BY <1>10, SMTT(30) DEF StopJoin, Exit
<1>11. CASE Crash(v)
  BY <1>11 DEF Crash, Exit
<1> QED
  BY <1>1, <1>2, <1>3, <1>4, <1>5, <1>6, <1>7, <1>8, <1>9, <1>10, <1>11 DEF ServerStep

(* Ownership is preserved by a listener's thread.                          *)
LEMMA ListenerInv ==
  ASSUME Recreate, TypeOK, NumberInv, Inv, NEW v \in Servers, ListenerStep(v) PROVE Inv'
<1> USE DEF TypeOK, NumberInv, Inv, OwnInv, FreshInv, Owns
<1>1. CASE Check(v)
  BY <1>1 DEF Check, Listen
<1>2. CASE Pop(v)
  BY <1>2 DEF Pop, Listen, Receivable
<1>3. CASE PopFails(v)
  BY <1>3 DEF PopFails, Listen
<1>4. CASE Handle(v)
  BY <1>4 DEF Handle, Listen
<1> QED
  BY <1>1, <1>2, <1>3, <1>4 DEF ListenerStep

(* Ownership is preserved by a client.                                     *)
LEMMA ClientInv ==
  ASSUME Recreate, TypeOK, NumberInv, Inv, NEW c \in Clients, ClientStep(c) PROVE Inv'
<1> USE DEF TypeOK, NumberInv, Inv, OwnInv, FreshInv, Owns
<1>1. CASE Exists(c)
  BY <1>1 DEF Exists
<1>2. CASE ClientGet(c)
  BY <1>2 DEF ClientGet, CreateQueue, NewQueue, CreateId
<1>3. CASE SendFails(c)
  BY <1>3 DEF SendFails
<1>4. ASSUME NEW fits \in BOOLEAN, Send(c, fits) PROVE Inv'
  BY <1>4 DEF Send
<1> QED
  BY <1>1, <1>2, <1>3, <1>4 DEF ClientStep

(* Ownership is preserved by every step.                                   *)
LEMMA InvStep == ASSUME Recreate, TypeOK, NumberInv, Inv, [Next]_vars PROVE Inv'
<1>1. CASE UNCHANGED vars
  BY <1>1 DEF vars, TypeOK, NumberInv, Inv, OwnInv, FreshInv, Owns
<1> QED
  BY <1>1, ServerInv, ListenerInv, ClientInv DEF Next, Rest

-----------------------------------------------------------------------------
(* The theorems *)

(* Types and numbers hold in every reachable state.                        *)
THEOREM Typed == Spec => [](TypeOK /\ NumberInv)
<1>1. TypeOK /\ NumberInv /\ [Next]_vars => (TypeOK /\ NumberInv)'
  BY TypeStep
<1> QED
  BY <1>1, InitType, PTL DEF Spec

(* Type correctness.                                                       *)
THEOREM TypeCorrect == Spec => []TypeOK
  BY Typed, PTL

(* Every server's queue is its own and holds commands to it only.          *)
THEOREM Inductive == ASSUME Recreate PROVE Spec => [](TypeOK /\ NumberInv /\ Inv)
<1>1. TypeOK /\ NumberInv /\ Inv /\ [Next]_vars => Inv'
  BY InvStep
<1> QED
  BY <1>1, InitInv, Typed, PTL DEF Spec

(* A server never handles a command that was sent before it was started,   *)
(* whatever a crashed process, another server or a client left behind.     *)
THEOREM NothingStale == Spec => []NoStaleCommand
<1>1. CASE Recreate
  <2>1. Inv => NoStaleCommand
    BY DEF Inv, FreshInv, NoStaleCommand
  <2> QED
    BY <1>1, <2>1, Inductive, PTL
<1>2. CASE ~Recreate
  <2>1. NoStaleCommand
    BY <1>2 DEF NoStaleCommand
  <2> QED
    BY <2>1, PTL
<1> QED
  BY <1>1, <1>2

(* Two servers never share a queue.                                        *)
THEOREM SoleListener == Spec => []OneListener
<1>1. CASE Recreate
  <2>1. Inv => OneListener
    BY DEF Inv, OwnInv, Owns, Hears, OneListener
  <2> QED
    BY <1>1, <2>1, Inductive, PTL
<1>2. CASE ~Recreate
  <2>1. OneListener
    BY <1>2 DEF OneListener
  <2> QED
    BY <2>1, PTL
<1> QED
  BY <1>1, <1>2

(* A server that listens loses its queue only by its own stop or to a      *)
(* server that is starting: a server that stops or probes removes only the *)
(* queue it created.                                                       *)
THEOREM QueueKept == ASSUME Recreate PROVE Spec => OnlyTakeoverSilences
<1>1. TypeOK /\ NumberInv /\ Inv /\ [Next]_vars =>
        [\A v \in Servers :
           Hears(v) /\ pc'[v] = "run" /\ registered' # registered
             => \E w \in Servers \ {v} : pc[w] = "remove"]_vars
  <2> SUFFICES ASSUME TypeOK, Inv, Next, NEW v \in Servers,
                      Hears(v), pc'[v] = "run", registered' # registered
               PROVE  \E w \in Servers \ {v} : pc[w] = "remove"
    OBVIOUS
  <2> USE DEF TypeOK, Hears
  <2>1. ASSUME NEW w \in Servers, ServerStep(w) PROVE w # v /\ pc[w] = "remove"
    <3>1. RemoveQueue(msqId[w]) /\ msqId[w] = registered
          /\ (ProbeRemove(w) \/ RemoveOld(w) \/ DestroyQueue(w))
      BY <2>1 DEF ServerStep, Launch, Probe, ProbeRemove, GetQueue, RemoveOld, Create, Run,
         DestroyQueue, StopFlag, StopJoin, Crash, Exit, CreateQueue, RemoveQueue
    <3>2. CASE ProbeRemove(w)
      BY <3>1, <3>2 DEF ProbeRemove, Inv, OwnInv, Owns
    <3>3. CASE RemoveOld(w)
      BY <3>3 DEF RemoveOld
    <3>4. CASE DestroyQueue(w)
      BY <3>1, <3>4 DEF DestroyQueue, Inv, OwnInv, Owns
    <3> QED
      BY <3>1, <3>2, <3>3, <3>4
  <2>2. ASSUME NEW w \in Servers, ListenerStep(w) PROVE FALSE
    BY <2>2 DEF ListenerStep, Check, Pop, PopFails, Handle
  <2>3. ASSUME NEW c \in Clients, ClientStep(c) PROVE FALSE
    BY <2>3 DEF ClientStep, Exists, ClientGet, SendFails, Send, CreateQueue
  <2>4. CASE Rest
    BY <2>4 DEF Rest, vars
  <2> QED
    BY <2>1, <2>2, <2>3, <2>4 DEF Next
<1> QED
  BY <1>1, Inductive, PTL DEF Spec, OnlyTakeoverSilences
=============================================================================
