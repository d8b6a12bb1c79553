----------------------------- MODULE Broadcast -----------------------------
(***************************************************************************)
(* The way of a chunk through the Application (src/src/Application.cpp):   *)
(* the memory output's callback puts it into broadcastQueue, the broadcast *)
(* task takes it out and hands it to the Server, while a third thread      *)
(* builds the stream up and takes it down again.                           *)
(*                                                                         *)
(*   Enc    the transcoder's encoder task, running the callback;           *)
(*   Bcast  the broadcast LoopTask;                                        *)
(*   Ctl    whoever runs onStart, onStop or stop().                        *)
(*                                                                         *)
(* Each stream has a Server object of its own, numbered like the stream;   *)
(* the pointer Application::server is such a number, or 0 for NULL.        *)
(* A definition D_Xyz is D with the bug Xyz put in, for the mutation runs. *)
(***************************************************************************)
EXTENDS Naturals, Sequences

CONSTANTS MaxStreams,  \* bound on the streams, one after the other
          MaxChunks    \* bound on the chunks of a stream

ASSUME BoundsAssumption == MaxStreams \in Nat /\ MaxChunks \in Nat

Enc   == "enc"
Bcast == "bcast"
Ctl   == "ctl"
Streams == 1..MaxStreams

VARIABLES
  stream,     \* streams set up so far
  server,     \* the pointer Application::server
  srv,        \* per stream: its Server object
  callee,     \* the Server whose broadcast() Bcast is in, holding sessionsMtx, or 0
  task,       \* the pointer broadcastTask is set
  running,    \* the broadcast task's Thread::running
  queue,      \* broadcastQueue; a chunk is a pair of stream and number
  qmtx,       \* owner of broadcastQueueMtx, or "none"
  chunk,      \* the broadcast task's local buffer
  made,       \* chunks the encoder made in this stream
  delivered,  \* what the Servers were given: chunk and server, in order
  pc,         \* per thread: where it is
  fate        \* "alive", or how the process died

shared == <<server, srv, callee, task, running>>
data   == <<queue, chunk, made, delivered>>
vars == <<stream, shared, qmtx, data, pc, fate>>

Chunks == Streams \X (1..MaxChunks)
EncLabels   == {"off", "idle", "lock", "push", "unlock"}
BcastLabels == {"none", "check", "lock", "test", "guard", "call", "write", "ended"}
CtlLabels   == {"off", "init", "task", "server", "encoder", "on", "stopServer",
                "deleteServer", "nullServer", "taskFlag", "taskJoin", "flushLock", "flush"}

TypeOK ==
  /\ stream \in 0..MaxStreams /\ server \in 0..MaxStreams
  /\ srv \in [Streams -> {"absent", "ready", "live", "stopped", "freed"}]
  /\ callee \in 0..MaxStreams /\ task \in BOOLEAN /\ running \in BOOLEAN
  /\ queue \in Seq(Chunks) /\ Len(queue) <= made
  /\ qmtx \in {Enc, Bcast, Ctl, "none"}
  /\ chunk \in Chunks \cup {<<>>}
  /\ made \in 0..MaxChunks
  /\ delivered \in Seq([chunk : Chunks, by : Streams])
  /\ DOMAIN pc = {Enc, Bcast, Ctl}
  /\ pc[Enc] \in EncLabels /\ pc[Bcast] \in BcastLabels /\ pc[Ctl] \in CtlLabels
  /\ fate \in {"alive", "nullDeref", "useAfterFree"}

Init ==
  /\ stream = 0 /\ server = 0 /\ srv = [e \in Streams |-> "absent"] /\ callee = 0
  /\ task = FALSE /\ running = FALSE
  /\ queue = <<>> /\ qmtx = "none" /\ chunk = <<>> /\ made = 0 /\ delivered = <<>>
  /\ pc = [t \in {Enc, Bcast, Ctl} |-> IF t = Bcast THEN "none" ELSE "off"]
  /\ fate = "alive"

Step(t, from, to) ==
  /\ fate = "alive" /\ pc[t] = from
  /\ pc' = [pc EXCEPT ![t] = to]

Lock(t)   == qmtx = "none" /\ qmtx' = t
Unlock(t) == qmtx' = "none"

(* Steps of which nothing is seen, or which only take or leave the mutex.  *)
Quiet(t, from, to)   == Step(t, from, to) /\ UNCHANGED <<stream, shared, qmtx, data, fate>>
Acquire(t, from, to) == Lock(t) /\ Step(t, from, to) /\ UNCHANGED <<stream, shared, data, fate>>
Release(t, from, to) == Unlock(t) /\ Step(t, from, to) /\ UNCHANGED <<stream, shared, data, fate>>

-----------------------------------------------------------------------------
(* Ctl: initWs, start *)

InitWs ==
  /\ stream < MaxStreams /\ Step(Ctl, "off", "init")
  /\ stream' = stream + 1
  /\ server' = stream'
  /\ srv' = [srv EXCEPT ![stream'] = "ready"]
  /\ task' = TRUE
  /\ made' = 0 /\ delivered' = <<>>
  /\ UNCHANGED <<callee, running, queue, chunk, qmtx, fate>>

(* In initVideo, writing the header of the file may fill the first buffer: *)
(* the callback then runs here, before there is any other thread.          *)
HeaderChunk ==
  /\ Step(Ctl, "init", "init") /\ qmtx = "none" /\ made = 0 /\ made < MaxChunks
  /\ made' = 1
  /\ queue' = Append(queue, <<stream, 1>>)
  /\ UNCHANGED <<stream, shared, qmtx, chunk, delivered, fate>>

(* initVideo throws: stopVideo has no thread to stop, then stopWs. *)
InitVideoFails == Quiet(Ctl, "init", "stopServer")

InitVideo == Quiet(Ctl, "init", "task")

(* start(): the broadcast task, the server, the transcoder. *)
RunTask ==
  /\ fate = "alive" /\ pc[Ctl] = "task"
  /\ pc' = [pc EXCEPT ![Ctl] = "server", ![Bcast] = "check"]
  /\ running' = TRUE
  /\ UNCHANGED <<stream, server, srv, callee, task, qmtx, data, fate>>

RunServer ==
  /\ Step(Ctl, "server", "encoder")
  /\ srv' = [srv EXCEPT ![server] = "live"]
  /\ UNCHANGED <<stream, server, callee, task, running, qmtx, data, fate>>

RunEncoder ==
  /\ fate = "alive" /\ pc[Ctl] = "encoder"
  /\ pc' = [pc EXCEPT ![Ctl] = "on", ![Enc] = "idle"]
  /\ UNCHANGED <<stream, shared, qmtx, data, fate>>

-----------------------------------------------------------------------------
(* Ctl: stopVideo, stopWs *)

(* Transcoder::stop joins the encoder, which ends between two callbacks. *)
StopVideo_NoJoin == Quiet(Ctl, "on", "stopServer")
StopVideo ==
  /\ fate = "alive" /\ pc[Ctl] = "on" /\ pc[Enc] = "idle"
  /\ pc' = [pc EXCEPT ![Ctl] = "stopServer", ![Enc] = "off"]
  /\ UNCHANGED <<stream, shared, qmtx, data, fate>>

(* Server::stop needs sessionsMtx if the server runs. *)
StopServer ==
  /\ Step(Ctl, "stopServer", "deleteServer")
  /\ srv[server] = "live" => callee = 0
  /\ srv' = [srv EXCEPT ![server] = IF @ = "live" THEN "stopped" ELSE @]
  /\ UNCHANGED <<stream, server, callee, task, running, qmtx, data, fate>>

DeleteServer ==
  /\ Step(Ctl, "deleteServer", "nullServer")
  /\ srv' = [srv EXCEPT ![server] = "freed"]
  /\ UNCHANGED <<stream, server, callee, task, running, qmtx, data, fate>>

NullServer ==
  /\ Step(Ctl, "nullServer", IF task THEN "taskFlag" ELSE "off")
  /\ server' = 0
  /\ UNCHANGED <<stream, srv, callee, task, running, qmtx, data, fate>>

TaskFlag_Forgotten == Quiet(Ctl, "taskFlag", "taskJoin")
TaskFlag ==
  /\ Step(Ctl, "taskFlag", "taskJoin")
  /\ running' = FALSE
  /\ UNCHANGED <<stream, server, srv, callee, task, qmtx, data, fate>>

TaskJoin ==
  /\ fate = "alive" /\ pc[Ctl] = "taskJoin" /\ pc[Bcast] \in {"none", "ended"}
  /\ pc' = [pc EXCEPT ![Ctl] = "flushLock", ![Bcast] = "none"]
  /\ task' = FALSE
  /\ UNCHANGED <<stream, server, srv, callee, running, qmtx, data, fate>>

FlushLock == Acquire(Ctl, "flushLock", "flush")

Flush_OneOnly ==
  /\ Step(Ctl, "flush", "off") /\ Unlock(Ctl)
  /\ queue' = IF queue = <<>> THEN <<>> ELSE Tail(queue)
  /\ UNCHANGED <<stream, shared, chunk, made, delivered, fate>>
Flush ==
  /\ Step(Ctl, "flush", "off") /\ Unlock(Ctl)
  /\ queue' = <<>>
  /\ UNCHANGED <<stream, shared, chunk, made, delivered, fate>>

-----------------------------------------------------------------------------
(* Enc: the callback of the memory output *)

(* Called with a chunk; it returns at once if there is no server. *)
Callback ==
  /\ made < MaxChunks
  /\ Step(Enc, "idle", IF server = 0 THEN "idle" ELSE "lock")
  /\ made' = IF server = 0 THEN made ELSE made + 1
  /\ UNCHANGED <<stream, shared, qmtx, queue, chunk, delivered, fate>>

EncLock == Acquire(Enc, "lock", "push")

EncPush_Front ==
  /\ Step(Enc, "push", "unlock")
  /\ queue' = <<<<stream, made>>>> \o queue
  /\ UNCHANGED <<stream, shared, qmtx, chunk, made, delivered, fate>>
EncPush ==
  /\ Step(Enc, "push", "unlock")
  /\ queue' = Append(queue, <<stream, made>>)
  /\ UNCHANGED <<stream, shared, qmtx, chunk, made, delivered, fate>>

EncUnlock == Release(Enc, "unlock", "idle")

-----------------------------------------------------------------------------
(* Bcast: LoopTask's while(running) around the lambda of initWs *)

BcastCheck == Quiet(Bcast, "check", IF running THEN "lock" ELSE "ended")

BcastLock == Acquire(Bcast, "lock", "test")

BcastEmpty_KeepsLock == queue = <<>> /\ Quiet(Bcast, "test", "check")
BcastEmpty == queue = <<>> /\ Release(Bcast, "test", "check")

(* front, pop, unlock. *)
BcastTake ==
  /\ queue # <<>> /\ Step(Bcast, "test", "guard") /\ Unlock(Bcast)
  /\ chunk' = Head(queue)
  /\ queue' = Tail(queue)
  /\ UNCHANGED <<stream, shared, made, delivered, fate>>

(* if(me.server != NULL) *)
BcastGuard ==
  /\ Step(Bcast, "guard", IF server = 0 THEN "check" ELSE "call")
  /\ chunk' = IF server = 0 THEN <<>> ELSE chunk
  /\ UNCHANGED <<stream, shared, qmtx, queue, made, delivered, fate>>

ServerExists == server # 0 /\ srv[server] # "freed"

(* me.server->broadcast(buffer): the pointer is read a second time, and    *)
(* the Server it leads to locks its sessionsMtx.                           *)
BcastCall ==
  /\ ServerExists /\ Step(Bcast, "call", "write")
  /\ callee' = server
  /\ UNCHANGED <<stream, server, srv, task, running, qmtx, data, fate>>

BcastCallsNothing ==
  /\ ~ServerExists /\ Step(Bcast, "call", "call")
  /\ fate' = IF server = 0 THEN "nullDeref" ELSE "useAfterFree"
  /\ UNCHANGED <<stream, shared, qmtx, data>>

(* Every session was sent the chunk; sessionsMtx is released.              *)
BcastWrite ==
  /\ Step(Bcast, "write", "check") /\ srv[callee] # "freed"
  /\ callee' = 0
  /\ delivered' = Append(delivered, [chunk |-> chunk, by |-> callee])
  /\ chunk' = <<>>
  /\ UNCHANGED <<stream, server, srv, task, running, qmtx, queue, made, fate>>

(* A Server that was stopped before it was called is deleted during the    *)
(* call: stop() found sessionsMtx free, and nobody waits for it again.     *)
BcastWritesNothing ==
  /\ Step(Bcast, "write", "write") /\ srv[callee] = "freed"
  /\ fate' = "useAfterFree"
  /\ UNCHANGED <<stream, shared, qmtx, data>>

-----------------------------------------------------------------------------
(* The process died, or rests between streams. *)
Resting == (fate # "alive" \/ pc[Ctl] = "off") /\ UNCHANGED vars

Starting  == HeaderChunk \/ InitVideoFails \/ InitVideo \/ RunTask \/ RunServer \/ RunEncoder
Stopping  == StopServer \/ DeleteServer \/ NullServer \/ TaskFlag \/ TaskJoin
             \/ FlushLock \/ Flush
Encoding  == EncLock \/ EncPush \/ EncUnlock
Broadcasting == BcastCheck \/ BcastLock \/ BcastEmpty \/ BcastTake \/ BcastGuard
                \/ BcastCall \/ BcastCallsNothing \/ BcastWrite
                \/ BcastWritesNothing

Next == InitWs \/ Starting \/ StopVideo \/ Stopping \/ Callback \/ Encoding
        \/ Broadcasting \/ Resting

Spec == Init /\ [][Next]_vars

(* The threads behind a Server have no deadline (see WsServer): a write to *)
(* a client that has stopped reading may never return, nor the stop of a   *)
(* server whose thread reads from a silent client.                         *)
AwaitsClient(t) == \/ t = Bcast /\ pc[Bcast] = "write"
                   \/ t = Ctl /\ pc[Ctl] = "stopServer" /\ srv[server] = "live"
ClientBlocks == \E t \in {Bcast, Ctl} : <>[]AwaitsClient(t)

(* Threads that can run do, and the broadcast task, which polls the queue  *)
(* without a pause, leaves broadcastQueueMtx free again and again: a lock() *)
(* that keeps finding it free in between succeeds.  Nobody has to start or *)
(* stop a stream, no chunk has to be made and no client has to take one.   *)
Fairness ==
  /\ WF_vars(Encoding)
  /\ WF_vars(Stopping /\ ~AwaitsClient(Ctl)) /\ WF_vars(Broadcasting /\ ~AwaitsClient(Bcast))
  /\ SF_vars(EncLock) /\ SF_vars(BcastLock) /\ SF_vars(FlushLock)

FairSpec == Spec /\ Fairness

-----------------------------------------------------------------------------
(* Properties *)

(* The chunk the broadcast task has taken and not delivered. *)
InFlight == IF pc[Bcast] \in {"guard", "call", "write"} THEN <<chunk>> ELSE <<>>

(* A stream begins and ends with nothing in the queue, no Server object    *)
(* and no thread: nothing of one stream is left for the next.              *)
RestIsEmpty ==
  pc[Ctl] = "off" =>
    /\ queue = <<>> /\ InFlight = <<>> /\ server = 0
    /\ pc[Enc] = "off" /\ pc[Bcast] = "none"
    /\ \A e \in Streams : srv[e] \in {"absent", "freed"}

(* No client of one stream gets a chunk of another.                        *)
NoForeignChunk ==
  \A i \in 1..Len(delivered) : delivered[i].chunk[1] = delivered[i].by

(* broadcastTask only calls a Server that exists.  The code breaks this:   *)
(* stopWs deletes the Server and resets the pointer while the broadcast    *)
(* task, between its test of the pointer and its call, still relies on it. *)
ServerExistsWhenCalled == fate = "alive"

(* Every chunk of the callback is broadcast, unless the stream is stopped  *)
(* first or a client keeps the broadcast, or the stop, from returning.     *)
EveryChunkDelivered ==
  ClientBlocks \/
    \A n \in 1..MaxChunks :
      (pc[Ctl] = "on" /\ made = n)
        ~> (pc[Ctl] # "on" \/ \E i \in 1..Len(delivered) : delivered[i].chunk = <<stream, n>>)

(* A stream that is being stopped is stopped in the end, unless the        *)
(* process dies on the way or a client does not let go.                    *)
StopCompletes ==
  ClientBlocks \/ (pc[Ctl] = "stopServer" ~> (pc[Ctl] = "off" \/ fate # "alive"))

(* The abstract stream: in order, nothing twice, nothing lost while open.  *)
Numbers(s) == [i \in 1..Len(s) |-> s[i][2]]
Pushing == IF pc[Enc] \in {"lock", "push"} THEN <<made>> ELSE <<>>
Pending == (Numbers(InFlight) \o Numbers(queue)) \o Pushing
Given   == [i \in 1..Len(delivered) |-> delivered[i].chunk[2]]
Phase == CASE pc[Ctl] \in {"init", "task", "server", "encoder", "on"} -> "open"
           [] pc[Ctl] = "off" -> "closed"
           [] OTHER -> "closing"
Stream == INSTANCE ChunkStream WITH
            phase     <- Phase,
            pending   <- Pending,
            delivered <- Given
ImplementsStream == Stream!Spec
=============================================================================
