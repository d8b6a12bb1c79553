------------------------------ MODULE WsServer ------------------------------
(***************************************************************************)
(* The WebSocket server of src/src/ws: Server, ServerRequestAcceptor,      *)
(* ServerCallback and Session, over one life of a Server object, from      *)
(* run() to the return of stop().                                          *)
(*                                                                         *)
(* Threads.  Ctl is the thread that owns the Server (the one that runs     *)
(* Application::start and Application::stopWs); Srv is the Server's own    *)
(* LoopInside thread (Server::loop); Bcast is the broadcast task, the only *)
(* caller of Server::broadcast; and each session s \in Sessions has the    *)
(* LoopInside thread of its Session object.  One TLC step is one access to *)
(* state that two threads share: a lock, a read or a write of readyState,  *)
(* a write of a running flag, a socket call.                               *)
(*                                                                         *)
(* The clients, the TCP/HTTP/WebSocket library and the Application's       *)
(* callbacks appear as the outcomes of the socket calls.                   *)
(*                                                                         *)
(* A definition D_Xyz is D with the bug Xyz put in.  Nothing here uses it: *)
(* it is there to show that a property notices the bug.                    *)
(***************************************************************************)
EXTENDS Naturals, FiniteSets

CONSTANTS Sessions,    \* the Session objects the server may create
          None,        \* no session, nobody holds the mutex
          MaxBacklog   \* bound on the chunks waiting to be broadcast

Srv   == "srv"
Bcast == "bcast"
Ctl   == "ctl"
Workers == {Srv, Bcast, Ctl}
Threads == Sessions \cup Workers

ASSUME ThreadsAssumption == Sessions \cap Workers = {} /\ None \notin Threads
ASSUME BacklogAssumption == MaxBacklog \in Nat \ {0}

VARIABLES
  running,     \* Server's LoopInside::running
  accepting,   \* the acceptor socket is open
  mtx,         \* owner of Server::sessionsMtx
  sessions,    \* the pointers in Server::sessions
  toFree,      \* the local vector of Server::clearup
  obj,         \* per session: memory of the Session object
  readyState,  \* per session: Session::_readyState
  type,        \* per session: Session::_type
  srunning,    \* per session: its LoopInside::running
  announced,   \* per session: the application was told by onClose
  pc,          \* per thread: where it is
  cur,         \* per worker: the session it is working on
  todo,        \* per worker: the rest of the vector it iterates over
  ret,         \* where Ctl's call of Session::close() returns to
  backlog      \* chunks the broadcast task has still to send

srvVars  == <<running, accepting, sessions, toFree>>
sessVars == <<obj, readyState, type, srunning, announced>>
locVars  == <<cur, todo, ret>>
vars == <<srvVars, mtx, sessVars, pc, locVars, backlog>>

CloseLabels     == {"close", "closeBegin", "closeTeardown", "closeStop"}
CloseCodeLabels == {"closeCode", "closeCodeBegin", "closeCodeSend"}
DeleteLabels    == {"delete", "deleteFlag", "deleteJoin"}
SetupLabels     == {"open", "flag", "spawn", "onConnection"}
SessionLabels == {"none", "loop", "read", "ended"} \cup CloseLabels \cup CloseCodeLabels
BcastLabels   == {"idle", "next", "send", "write"} \cup CloseLabels \cup CloseCodeLabels
SrvLabels == {"none", "check", "accept", "handshake", "push", "clearup", "clearLock",
              "clearScan", "clearNext", "ended"}
             \cup SetupLabels \cup CloseLabels \cup DeleteLabels
CtlLabels == {"new", "up", "stopAcceptor", "stopFlag", "stopJoin", "stopLock", "stopNext",
              "stopped"} \cup CloseLabels \cup DeleteLabels

TypeOK ==
  /\ running \in BOOLEAN /\ accepting \in BOOLEAN
  /\ mtx \in {Srv, Bcast, Ctl, None}
  /\ sessions \subseteq Sessions /\ toFree \subseteq Sessions
  /\ obj \in [Sessions -> {"absent", "live", "freed"}]
  /\ readyState \in [Sessions -> {"CONNECTING", "OPEN", "CLOSING", "CLOSED"}]
  /\ type \in [Sessions -> {"TEXT", "BINARY"}]
  /\ srunning \in [Sessions -> BOOLEAN]
  /\ announced \in [Sessions -> BOOLEAN]
  /\ pc \in [Threads -> SessionLabels \cup BcastLabels \cup SrvLabels \cup CtlLabels]
  /\ \A s \in Sessions : pc[s] \in SessionLabels
  /\ pc[Srv] \in SrvLabels /\ pc[Bcast] \in BcastLabels /\ pc[Ctl] \in CtlLabels
  /\ cur \in [Workers -> Sessions \cup {None}]
  /\ todo \in [Workers -> SUBSET Sessions]
  /\ ret \in {"delete", "deleteFlag"}
  /\ backlog \in 0..MaxBacklog

(* The Session object thread t is inside: its own for a session's thread. *)
Target(t) == IF t \in Sessions THEN t ELSE cur[t]

(* Where Session::close() returns to in each of its callers. *)
Return_BroadcastDeletes(t) == CASE t \in Sessions -> "loop"
                                [] t \in {Srv, Bcast} -> "deleteFlag"
                                [] t = Ctl -> ret
Return(t) == CASE t \in Sessions -> "loop"
               [] t = Bcast      -> "next"
               [] t = Srv        -> "deleteFlag"
               [] t = Ctl        -> ret

Goto(t, label) == pc' = [pc EXCEPT ![t] = label]

(* The steps that write one field of the session at hand, or none. *)
Local(t, from, to) ==
  /\ pc[t] = from /\ Goto(t, to)
  /\ UNCHANGED <<srvVars, mtx, sessVars, locVars, backlog>>
SetReadyState(t, from, value, to) ==
  /\ pc[t] = from /\ Goto(t, to)
  /\ readyState' = [readyState EXCEPT ![Target(t)] = value]
  /\ UNCHANGED <<srvVars, mtx, obj, type, srunning, announced, locVars, backlog>>
SetRunning(t, from, value, to) ==
  /\ pc[t] = from /\ Goto(t, to)
  /\ srunning' = [srunning EXCEPT ![Target(t)] = value]
  /\ UNCHANGED <<srvVars, mtx, obj, readyState, type, announced, locVars, backlog>>

(* Thread::stop(true) returns: thread t never started, or it is over. *)
Joined_NoWait(t) == TRUE
Joined(t) == pc[t] \in {"none", "ended"}

(* ServerCallback::onClose reaches the application. *)
Announce_Lost(s) == UNCHANGED announced
Announce(s) == announced' = [announced EXCEPT ![s] = TRUE]
Report(t, from, to) ==
  /\ pc[t] = from /\ Goto(t, to)
  /\ Announce(Target(t))
  /\ UNCHANGED <<srvVars, mtx, obj, readyState, type, srunning, locVars, backlog>>

(* The tests of Session::send, of Session::setType and of clearup. *)
Sendable_Early(s) == readyState[s] \in {"CONNECTING", "OPEN"}
Sendable(s)  == readyState[s] = "OPEN"
Typeable_Late(s) == readyState[s] = "CONNECTING"
Typeable(s)  == readyState[s] \in {"OPEN", "CONNECTING"}
Removable_Closing(s) == readyState[s] = "CLOSING"
Removable(s) == readyState[s] = "CLOSED"

Init ==
  /\ running = FALSE /\ accepting = TRUE /\ mtx = None
  /\ sessions = {} /\ toFree = {}
  /\ obj = [s \in Sessions |-> "absent"]
  /\ readyState = [s \in Sessions |-> "CONNECTING"]
  /\ type = [s \in Sessions |-> "TEXT"]
  /\ srunning = [s \in Sessions |-> FALSE]
  /\ announced = [s \in Sessions |-> FALSE]
  /\ pc = [t \in Threads |-> CASE t \in Sessions -> "none"
                               [] t = Srv -> "none"
                               [] t = Bcast -> "idle"
                               [] t = Ctl -> "new"]
  /\ cur = [w \in Workers |-> None]
  /\ todo = [w \in Workers |-> {}]
  /\ ret = "delete"
  /\ backlog = 0

-----------------------------------------------------------------------------
(* Ctl: Server::run, Server::stop *)

(* LoopInside::run: the flag is set before the thread exists. *)
ServerRun ==
  /\ pc[Ctl] = "new"
  /\ running' = TRUE
  /\ pc' = [pc EXCEPT ![Ctl] = "up", ![Srv] = "check"]
  /\ UNCHANGED <<accepting, sessions, toFree, mtx, sessVars, locVars, backlog>>

(* stop() returns at once on a server that never ran. *)
StopCall ==
  /\ pc[Ctl] \in {"new", "up"}
  /\ Goto(Ctl, IF running THEN "stopAcceptor" ELSE "stopped")
  /\ UNCHANGED <<srvVars, mtx, sessVars, locVars, backlog>>

StopAcceptor ==
  /\ pc[Ctl] = "stopAcceptor"
  /\ accepting' = FALSE
  /\ Goto(Ctl, "stopFlag")
  /\ UNCHANGED <<running, sessions, toFree, mtx, sessVars, locVars, backlog>>

StopFlag ==
  /\ pc[Ctl] = "stopFlag"
  /\ running' = FALSE
  /\ Goto(Ctl, "stopJoin")
  /\ UNCHANGED <<accepting, sessions, toFree, mtx, sessVars, locVars, backlog>>

StopJoin == Joined(Srv) /\ Local(Ctl, "stopJoin", "stopLock")

StopLock ==
  /\ pc[Ctl] = "stopLock" /\ mtx = None
  /\ mtx' = Ctl
  /\ todo' = [todo EXCEPT ![Ctl] = sessions]
  /\ Goto(Ctl, "stopNext")
  /\ UNCHANGED <<srvVars, sessVars, cur, ret, backlog>>

(* For each session: onClose with going_away, close(), then delete. *)
StopNext(s) ==
  /\ pc[Ctl] = "stopNext" /\ s \in todo[Ctl]
  /\ todo' = [todo EXCEPT ![Ctl] = @ \ {s}]
  /\ cur' = [cur EXCEPT ![Ctl] = s]
  /\ Announce(s)
  /\ ret' = "delete"
  /\ Goto(Ctl, "close")
  /\ UNCHANGED <<srvVars, mtx, obj, readyState, type, srunning, backlog>>

StopDone_KeepsRegistry ==
  /\ pc[Ctl] = "stopNext" /\ todo[Ctl] = {}
  /\ mtx' = None
  /\ Goto(Ctl, "stopped")
  /\ UNCHANGED <<srvVars, sessVars, locVars, backlog>>
StopDone ==
  /\ pc[Ctl] = "stopNext" /\ todo[Ctl] = {}
  /\ sessions' = {}
  /\ mtx' = None
  /\ Goto(Ctl, "stopped")
  /\ UNCHANGED <<running, accepting, toFree, sessVars, locVars, backlog>>

-----------------------------------------------------------------------------
(* Srv: LoopInside's while(running) around Server::loop *)

SrvCheck == Local(Srv, "check", IF running THEN "accept" ELSE "ended")

(* The non-blocking accept throws: no client, or the acceptor is closed. *)
AcceptNone == Local(Srv, "accept", "clearup")

AcceptSocket == accepting /\ Local(Srv, "accept", "handshake")

(* http::read throws, the request is not an upgrade, or ws.accept throws. *)
HandshakeFails == Local(Srv, "handshake", "clearup")

HandshakeDone(s) ==
  /\ pc[Srv] = "handshake" /\ obj[s] = "absent"
  /\ obj' = [obj EXCEPT ![s] = "live"]
  /\ readyState' = [readyState EXCEPT ![s] = "CONNECTING"]
  /\ type' = [type EXCEPT ![s] = "TEXT"]
  /\ srunning' = [srunning EXCEPT ![s] = FALSE]
  /\ cur' = [cur EXCEPT ![Srv] = s]
  /\ Goto(Srv, "push")
  /\ UNCHANGED <<srvVars, mtx, announced, todo, ret, backlog>>

(* lock, push_back, unlock: nothing else happens under this lock. *)
Push ==
  /\ pc[Srv] = "push" /\ mtx = None
  /\ sessions' = sessions \cup {cur[Srv]}
  /\ Goto(Srv, "open")
  /\ UNCHANGED <<running, accepting, toFree, mtx, sessVars, locVars, backlog>>

RunOpen == SetReadyState(Srv, "open", "OPEN", "flag")

RunFlag == SetRunning(Srv, "flag", TRUE, "spawn")

RunSpawn ==
  /\ pc[Srv] = "spawn"
  /\ pc' = [pc EXCEPT ![Srv] = "onConnection", ![cur[Srv]] = "loop"]
  /\ UNCHANGED <<srvVars, mtx, sessVars, locVars, backlog>>

(* The application answers onConnection with setType(BINARY). *)
OnConnection ==
  /\ pc[Srv] = "onConnection"
  /\ type' = [type EXCEPT ![cur[Srv]] =
                IF Typeable(cur[Srv]) THEN "BINARY" ELSE @]
  /\ cur' = [cur EXCEPT ![Srv] = None]
  /\ Goto(Srv, "clearup")
  /\ UNCHANGED <<srvVars, mtx, obj, readyState, srunning, announced, todo, ret, backlog>>

ClearCheck == Local(Srv, "clearup", IF running THEN "clearLock" ELSE "check")

ClearLock ==
  /\ pc[Srv] = "clearLock" /\ mtx = None
  /\ mtx' = Srv
  /\ todo' = [todo EXCEPT ![Srv] = sessions]
  /\ Goto(Srv, "clearScan")
  /\ UNCHANGED <<srvVars, sessVars, cur, ret, backlog>>

(* The predicate of remove_if, one session at a time. *)
ClearScan(s) ==
  /\ pc[Srv] = "clearScan" /\ s \in todo[Srv]
  /\ todo' = [todo EXCEPT ![Srv] = @ \ {s}]
  /\ IF Removable(s)
       THEN sessions' = sessions \ {s} /\ toFree' = toFree \cup {s}
       ELSE UNCHANGED <<sessions, toFree>>
  /\ UNCHANGED <<running, accepting, mtx, sessVars, pc, cur, ret, backlog>>

ClearUnlock ==
  /\ pc[Srv] = "clearScan" /\ todo[Srv] = {}
  /\ mtx' = None
  /\ Goto(Srv, "clearNext")
  /\ UNCHANGED <<srvVars, sessVars, locVars, backlog>>

ClearNext(s) ==
  /\ pc[Srv] = "clearNext" /\ s \in toFree
  /\ toFree' = toFree \ {s}
  /\ cur' = [cur EXCEPT ![Srv] = s]
  /\ Goto(Srv, "delete")
  /\ UNCHANGED <<running, accepting, sessions, mtx, sessVars, todo, ret, backlog>>

ClearDone == toFree = {} /\ Local(Srv, "clearNext", "check")

-----------------------------------------------------------------------------
(* ~Session, in Srv (clearup) or Ctl (stop) *)

DeleteCheck(w) ==
  /\ pc[w] = "delete"
  /\ Goto(w, IF readyState[cur[w]] = "CLOSED" THEN "deleteFlag" ELSE "close")
  /\ ret' = IF w = Ctl THEN "deleteFlag" ELSE ret
  /\ UNCHANGED <<srvVars, mtx, sessVars, cur, todo, backlog>>

DeleteFlag_Kept(w) == Local(w, "deleteFlag", "deleteJoin")
DeleteFlag(w) == SetRunning(w, "deleteFlag", FALSE, "deleteJoin")

(* join() waits for the session's thread; then the memory is released. *)
DeleteJoin(w) ==
  /\ pc[w] = "deleteJoin" /\ Joined(cur[w])
  /\ obj' = [obj EXCEPT ![cur[w]] = "freed"]
  /\ cur' = [cur EXCEPT ![w] = None]
  /\ Goto(w, IF w = Ctl THEN "stopNext" ELSE "clearNext")
  /\ UNCHANGED <<srvVars, mtx, readyState, type, srunning, announced, todo, ret, backlog>>

-----------------------------------------------------------------------------
(* Session::close() and Session::close(code), in any thread *)

CloseCheck(t) ==
  Local(t, "close", IF readyState[Target(t)] = "CLOSED" THEN Return(t) ELSE "closeBegin")

CloseBegin(t) == SetReadyState(t, "closeBegin", "CLOSING", "closeTeardown")

(* teardown of the TCP stream, then CLOSED: what clearup looks for. *)
CloseTeardown(t) == SetReadyState(t, "closeTeardown", "CLOSED", "closeStop")

CloseStop(t) == SetRunning(t, "closeStop", FALSE, Return(t))

CloseCodeCheck(t) ==
  Local(t, "closeCode", IF readyState[Target(t)] = "CLOSED" THEN Return(t) ELSE "closeCodeBegin")

CloseCodeBegin(t) == SetReadyState(t, "closeCodeBegin", "CLOSING", "closeCodeSend")

(* socket.close(code): it may throw, and the exception is dropped. *)
CloseCodeSend(t) == Local(t, "closeCodeSend", "close")

-----------------------------------------------------------------------------
(* The thread of a session: while(running) around Session::loop.  A pass   *)
(* that finds readyState other than OPEN changes nothing.                  *)

LoopRead(s) == srunning[s] /\ readyState[s] = "OPEN" /\ Local(s, "loop", "read")

LoopExit(s) == ~srunning[s] /\ Local(s, "loop", "ended")

(* A message, eof, or an error that onError leaves alone. *)
ReadReturns(s) == Local(s, "read", "loop")

(* websocket::error::closed or another exception: onClose, then close(). *)
ReadClosed(s) == Report(s, "read", "close")

(* bad_file_descriptor, operation_canceled, broken_pipe: onError closes. *)
ReadFatal(s) == Report(s, "read", "closeCode")

-----------------------------------------------------------------------------
(* Bcast: Server::broadcast, once per chunk *)

(* The encoder appends a chunk; stopVideo comes before Server::stop. *)
Produce ==
  /\ pc[Ctl] = "up" /\ backlog < MaxBacklog
  /\ backlog' = backlog + 1
  /\ UNCHANGED <<srvVars, mtx, sessVars, pc, locVars>>

BcastLock ==
  /\ pc[Bcast] = "idle" /\ backlog > 0 /\ mtx = None
  /\ backlog' = backlog - 1
  /\ mtx' = Bcast
  /\ todo' = [todo EXCEPT ![Bcast] = sessions]
  /\ Goto(Bcast, "next")
  /\ UNCHANGED <<srvVars, sessVars, cur, ret>>

BcastNext(s) ==
  /\ pc[Bcast] = "next" /\ s \in todo[Bcast]
  /\ todo' = [todo EXCEPT ![Bcast] = @ \ {s}]
  /\ cur' = [cur EXCEPT ![Bcast] = s]
  /\ Goto(Bcast, "send")
  /\ UNCHANGED <<srvVars, mtx, sessVars, ret, backlog>>

BcastDone ==
  /\ pc[Bcast] = "next" /\ todo[Bcast] = {}
  /\ mtx' = None
  /\ cur' = [cur EXCEPT ![Bcast] = None]
  /\ Goto(Bcast, "idle")
  /\ UNCHANGED <<srvVars, sessVars, todo, ret, backlog>>

SendCheck == Local(Bcast, "send", IF Sendable(cur[Bcast]) THEN "write" ELSE "next")

(* Written, or an error that onError leaves alone. *)
WriteReturns == Local(Bcast, "write", "next")

WriteFatal == Report(Bcast, "write", "closeCode")

-----------------------------------------------------------------------------
(* Everything is over: the one state in which the program may rest. *)
Finished ==
  /\ pc[Ctl] = "stopped" /\ pc[Bcast] = "idle" /\ backlog = 0
  /\ UNCHANGED vars

Stopping  == StopCall \/ StopAcceptor \/ StopFlag \/ StopJoin \/ StopLock \/ StopDone
             \/ \E s \in Sessions : StopNext(s)
Accepting == SrvCheck \/ AcceptNone \/ AcceptSocket \/ HandshakeFails
             \/ (\E s \in Sessions : HandshakeDone(s))
             \/ Push \/ RunOpen \/ RunFlag \/ RunSpawn \/ OnConnection
Clearing  == ClearCheck \/ ClearLock \/ ClearUnlock \/ ClearDone
             \/ \E s \in Sessions : ClearScan(s) \/ ClearNext(s)
Deleting(w) == DeleteCheck(w) \/ DeleteFlag(w) \/ DeleteJoin(w)
Closing(t) == CloseCheck(t) \/ CloseBegin(t) \/ CloseTeardown(t) \/ CloseStop(t)
              \/ CloseCodeCheck(t) \/ CloseCodeBegin(t) \/ CloseCodeSend(t)
Reading(s) == ReadReturns(s) \/ ReadClosed(s) \/ ReadFatal(s)
Looping(s) == LoopRead(s) \/ LoopExit(s)
Broadcasting == BcastLock \/ BcastDone \/ SendCheck \/ WriteReturns \/ WriteFatal
                \/ \E s \in Sessions : BcastNext(s)

Next ==
  \/ ServerRun \/ Stopping \/ Accepting \/ Clearing
  \/ \E w \in {Srv, Ctl} : Deleting(w)
  \/ \E t \in Threads : Closing(t)
  \/ \E s \in Sessions : Looping(s) \/ Reading(s)
  \/ Produce \/ Broadcasting \/ Finished

Spec == Init /\ [][Next]_vars

(***************************************************************************)
(* Fairness.  A thread that can run eventually runs.  Nobody has to start, *)
(* use or stop the server, and no client has to do anything: the code sets *)
(* no deadline on a handshake, a write, a close handshake or the teardown, *)
(* which reads until the client has closed its side, so that a thread may  *)
(* wait there for ever.  A read is only bound to return once the session's *)
(* stream has been torn down.                                              *)
(***************************************************************************)
AwaitsClient(t) == pc[t] \in {"handshake", "write", "closeCodeSend", "closeTeardown"}

StopOnly == Stopping /\ ~StopCall
Fairness ==
  /\ WF_vars(StopOnly) /\ WF_vars(Clearing)
  /\ WF_vars(Accepting /\ ~AwaitsClient(Srv))
  /\ WF_vars(Broadcasting /\ ~AwaitsClient(Bcast))
  /\ \A w \in {Srv, Ctl} : WF_vars(Deleting(w))
  /\ \A t \in Threads : WF_vars(Closing(t) /\ ~AwaitsClient(t))
  /\ \A s \in Sessions : /\ WF_vars(Looping(s))
                         /\ WF_vars(readyState[s] = "CLOSED" /\ Reading(s))

FairSpec == Spec /\ Fairness

(* While chunks keep coming, weak fairness lets the broadcast win every    *)
(* race for the mutex.  It holds the mutex for a few writes per chunk and  *)
(* chunks come at the pace of the video, so that the server's thread finds *)
(* the mutex free again and again: strong fairness of its two lock() calls.*)
FairMutexSpec == FairSpec /\ SF_vars(Push) /\ SF_vars(ClearLock)

-----------------------------------------------------------------------------
(* Properties *)

(* The labels at which a thread's next step touches the Session object. *)
UsesSession(t) ==
  pc[t] \in SetupLabels \cup {"push", "send", "write"}
            \cup CloseLabels \cup CloseCodeLabels \cup DeleteLabels

(* No thread ever touches a Session after its destructor released it: not  *)
(* the session's own thread, which nobody but the destructor waits for,    *)
(* nor the broadcast iterating over the vector while clearup deletes, nor  *)
(* a second deleter.                                                       *)
NoUseAfterFree ==
  /\ \A s \in Sessions : pc[s] \notin {"none", "ended"} => obj[s] = "live"
  /\ \A w \in Workers : UsesSession(w) => obj[cur[w]] = "live"

(* A dead pointer is in Server::sessions only while Server::stop, holding  *)
(* the mutex, is deleting what it iterates over.                           *)
NoDanglingRegistry ==
  \A s \in sessions : obj[s] = "live" \/ mtx = Ctl

(* No session leaves the OPEN state before the application heard of it:    *)
(* the destructor's own close() never closes a session unannounced.        *)
AnnouncedBeforeClosed ==
  \A s \in Sessions : readyState[s] \in {"CLOSING", "CLOSED"} => announced[s]

(* Once stop() has returned no Session object and no session thread is     *)
(* left, the ones accepted while stop() was under way included.            *)
NoSessionLeaked ==
  pc[Ctl] = "stopped" =>
    \A s \in Sessions : obj[s] # "live" /\ pc[s] \in {"none", "ended"}

(* The stream is binary for every open session whose onConnection returned *)
(* (a frame may go out as text only between run() and onConnection).       *)
OpenIsBinary ==
  \A s \in sessions :
    readyState[s] = "OPEN" /\ ~(pc[Srv] \in SetupLabels /\ cur[Srv] = s)
      => type[s] = "BINARY"

(* A session that began to close never carries data again, although run()  *)
(* writes OPEN without looking at the state, and racing closers may move   *)
(* a session from CLOSED back to CLOSING.                                  *)
NeverReopened ==
  [][\A s \in Sessions : readyState[s] \in {"CLOSING", "CLOSED"}
                           => readyState'[s] \in {"CLOSING", "CLOSED"}]_vars

(* Only a client that never answers can hold the server up for ever.       *)
ClientBlocks == \E t \in Threads : <>[]AwaitsClient(t)

(* stop() returns, whatever the sessions, the acceptor and the broadcast   *)
(* are doing, unless some thread waits for a client for ever: no thread it *)
(* joins waits for the mutex it holds.                                     *)
StopCompletes ==
  ClientBlocks \/ (pc[Ctl] = "stopAcceptor" ~> pc[Ctl] = "stopped")

(* A session that is closed is freed, by clearup or by stop(), even when   *)
(* run() set its flag again after the close (its thread spins till then),  *)
(* unless some thread waits for a client for ever.                         *)
ClosedIsFreed ==
  ClientBlocks \/ \A s \in Sessions : readyState[s] = "CLOSED" ~> obj[s] = "freed"

(* The server's threads, its mutex and the two steps of every close keep   *)
(* what SessionRegistry promises.  CLOSED may become CLOSING again, so the *)
(* two are one state there.                                                *)
LifeOf(s) == IF obj[s] # "live" THEN (IF obj[s] = "freed" THEN "gone" ELSE "absent")
             ELSE IF readyState[s] \in {"CLOSING", "CLOSED"} THEN "closed" ELSE "connected"
Life == [s \in Sessions |-> LifeOf(s)]
ServerState == IF pc[Ctl] = "stopped" THEN "stopped" ELSE "up"
Registry == INSTANCE SessionRegistry WITH
  life <- Life, told <- announced, server <- ServerState
ImplementsRegistry == Registry!Spec

-----------------------------------------------------------------------------
(* The inductive invariant behind the safety properties *)

CtlHolds == {"stopNext"} \cup CloseLabels \cup DeleteLabels

(* Who holds sessionsMtx is decided by where the threads are. *)
MutexInv ==
  /\ mtx = Ctl   <=> pc[Ctl] \in CtlHolds
  /\ mtx = Bcast <=> pc[Bcast] # "idle"
  /\ mtx = Srv   <=> pc[Srv] = "clearScan"

(* stop() touches the registry only after it joined the server's thread. *)
JoinInv ==
  /\ running <=> pc[Ctl] \in {"up", "stopAcceptor", "stopFlag"}
  /\ pc[Ctl] = "new" => pc[Srv] = "none"
  /\ pc[Ctl] \in {"stopLock", "stopped"} \cup CtlHolds => Joined(Srv)

(* Every live object is owned by whoever may delete it: the vector, the    *)
(* local vector of clearup, or the local pointer of the server's thread.   *)
SrvOwns ==
  /\ \A s \in toFree : obj[s] = "live" /\ s \notin sessions
  /\ pc[Srv] = "clearScan" => todo[Srv] \subseteq sessions
  /\ pc[Srv] \in {"push"} \cup CloseLabels \cup DeleteLabels =>
       cur[Srv] \in Sessions /\ cur[Srv] \notin sessions \cup toFree
  /\ pc[Srv] \in SetupLabels => cur[Srv] \in sessions
CtlOwns ==
  /\ pc[Ctl] \in CtlHolds =>
       todo[Ctl] \subseteq sessions /\ \A s \in todo[Ctl] : obj[s] = "live"
  /\ pc[Ctl] \in CloseLabels \cup DeleteLabels => cur[Ctl] \in sessions \ todo[Ctl]
BcastBorrows ==
  pc[Bcast] # "idle" =>
    /\ todo[Bcast] \subseteq sessions
    /\ pc[Bcast] # "next" => cur[Bcast] \in sessions

Inv ==
  /\ MutexInv /\ JoinInv /\ SrvOwns /\ CtlOwns /\ BcastBorrows
  /\ NoDanglingRegistry /\ NoUseAfterFree

(* Whoever closes or deletes a session announced it, or found it closed.   *)
AnnounceInv ==
  /\ AnnouncedBeforeClosed
  /\ \A s \in toFree : announced[s]
  /\ \A t \in Threads : pc[t] \in CloseLabels \cup CloseCodeLabels \cup DeleteLabels
                          => announced[Target(t)]

(* Nobody closes a session before run() opened it.                         *)
OpenInv ==
  /\ \A s \in Sessions : obj[s] = "absent" => readyState[s] = "CONNECTING"
  /\ \A s \in Sessions : pc[s] # "none" => readyState[s] # "CONNECTING"
  /\ pc[Srv] \in {"push", "open"} =>
       readyState[cur[Srv]] = "CONNECTING" /\ pc[cur[Srv]] = "none"
  /\ pc[Srv] \in {"flag", "spawn"} => readyState[cur[Srv]] # "CONNECTING"
  /\ pc[Bcast] \in {"write"} \cup CloseLabels \cup CloseCodeLabels =>
       readyState[cur[Bcast]] # "CONNECTING"
  /\ OpenIsBinary

(* Every live object has an owner, until stop() has deleted them all.      *)
LeakInv ==
  /\ \A s \in Sessions : obj[s] = "live" =>
       \/ s \in sessions \cup toFree
       \/ pc[Srv] \in {"push"} \cup CloseLabels \cup DeleteLabels /\ cur[Srv] = s
  /\ toFree # {} => pc[Srv] \in {"clearScan", "clearNext"} \cup CloseLabels \cup DeleteLabels
  /\ pc[Srv] = "none" => sessions = {}
  /\ pc[Ctl] \in CtlHolds => \A s \in sessions :
       \/ s \in todo[Ctl] \/ obj[s] = "freed"
       \/ pc[Ctl] \in CloseLabels \cup DeleteLabels /\ cur[Ctl] = s
  /\ pc[Ctl] = "stopped" => sessions = {}

LifeInv == AnnounceInv /\ OpenInv /\ LeakInv
=============================================================================
