# Verification of the MPEG-TS over WebSocket streamer

The program (`src/src`) reads video from a V4L2 camera, transcodes it to
MPEG-1 in an MPEG-TS container and sends every chunk of the container to all
WebSocket clients. A System V message queue carries the commands `start` and
`stop`; a status file carries the state back. This directory holds TLA+ models
of its parts, the TLC runs that check them, and machine-checked proofs of what
the runs check, except liveness, for instances of any size. `PROJECT.json` maps
every definition to its lines.

## The system

| Part | State it keeps | Operations | Threads in it |
|---|---|---|---|
| Application (`Application.cpp`, `main.cpp`) | state, loop, hasUpdate, status file, pointers to the listener and the five parts of the pipeline | main, exit, stop, onStart, onStop, initWs, initVideo, start, stopVideo, stopWs, updateStatusFile | main, the SIGINT handler, the queue listener |
| Broadcast (`Application.cpp`, `LoopTask`) | broadcastQueue and its mutex, broadcastTask | the output's callback, the task's lambda, the flush in stopWs | encoder task, broadcast task, whoever runs stop |
| WebSocket server (`ws/Server*`) | the vector of sessions and its mutex, the acceptor, running | run, loop (accept, clearup), broadcast, stop | its own thread, broadcast task, owner |
| Session (`ws/Session.cpp`) | readyState, type, running, the socket | run, loop, send, setType, close, close(code), destructor | its own thread, and all of the server's |
| Transcoder (`av/Transcoder.cpp`) | filter graph and its mutex, _readError, skippedFrames, two tasks | init, run, stop, destructor, onDecoded | decoder task, encoder task, owner |
| Inputs and outputs (`av/V*`, `FilterGraph`) | libav's contexts and buffers | init, read, push, decode, encode, close | one at a time |
| Message queue (`UnixMessageQueueListener`) | the queue's id; the kernel keeps the queue itself between processes | init (probe, remove, create), loop, destroyQueue, stop | its own thread, main, the handler; clients and other servers |
| Runtime (`Thread`, `LoopInside`, `LoopTask`, `Signal`) | running, the map of callbacks | run, stop, join, attach, detach | - |

Calls go down the list (the Application owns a Server, a broadcast task, an
input, an output and a Transcoder per stream); callbacks go up (the output
calls the Application with each chunk, the Server with each connection). The
shared state is guarded by three mutexes (`sessionsMtx`, `broadcastQueueMtx`,
`filterGraphMtx`); everything else (`running`, `readyState`, `state`,
`server`, `_readError`) is plain memory that several threads read and write.

What is hard here: deleting sessions and servers that other threads may still
be using; a signal handler that runs `stop()` in the middle of anything; starts
that fail half-way; the order in which the pipeline is taken down; flags and
states that are tested and written in two steps; a queue that outlives the
process and that others create and remove meanwhile. `PROJECT.json` lists each of
these under `hazards` with its line and the properties that answer it.

## Modules

| Module | Models | Main properties |
|---|---|---|
| `WsServer` | Server, acceptor, callbacks, sessions: one life of a Server object | `NoUseAfterFree`, `NoDanglingRegistry`, `AnnouncedBeforeClosed`, `NoSessionLeaked`, `OpenIsBinary`, `NeverReopened`, `StopCompletes`, `ClosedIsFreed` |
| `SessionRegistry` | abstract: what the server promises about its sessions | implemented by `WsServer` (`ImplementsRegistry`); `Promised` says what that means |
| `Application` | main, `Signal`, SIGINT in main and on top of the other threads, commands, status file | `StateMatchesPipeline`, `OwnStepsSafe`, `NoServerLost`, `StoppedIsFinal`, `FinalReport`, `ChangeReported`, `InterruptEnds` |
| `Broadcast` | callback, queue, task, and the take-down, over several streams | `RestIsEmpty`, `NoForeignChunk`, `EveryChunkDelivered`, `StopCompletes`, `ImplementsStream` |
| `ChunkStream` | abstract: what a stream promises about its chunks | implemented by `Broadcast` (`ImplementsStream`); `Promised` says what that means |
| `Transcoder` | decoder task, encoder task, owner, filter graph | `InOrder`, `ChosenAccountedFor`, `GraphHasOneUser`, `ErrorIsFinal`, `GraphDrains`, `StopTerminates` |
| `VideoObjects` | what inputs, outputs and the filter graph allocate and release, with a failure at every call; the choice of the pixel format | `AllReleased`, `CloseIsSafe`, `RunningIsComplete` |
| `MessageQueue` | the queue behind a status file: several servers that crash and restart, and clients | `NoStaleCommand`, `OneListener`, `OnlyTakeoverSilences`, `CommandHandled` |
| `WsServerProofs`, `ApplicationProofs`, `BroadcastProofs`, `TranscoderProofs`, `VideoObjectsProofs`, `MessageQueueProofs` | the theorems about the module each is named after | |
| `MC*` | the instances TLC checks | |

Each variable is named after the member it stands for, each action after the
line or call it stands for. One step is one access to state that two threads
share: a lock, a read or write of `readyState`, a flag, a socket call, so that
every interleaving of the C++ code at that grain is explored. `pc[t]` is the
place of thread `t` in its function; a call is a jump to the callee's labels
(`Session::close` is modelled once, for all its callers). Locals that outlive
a step (`cur`, `todo`, `toFree`, `chunk`, `seen`) are variables.

How the modules fit together:

* `Application` sees the pipeline as five pointers. `WsServer` is what is
  behind `server`, `Broadcast` what happens on `broadcastQueue`, `Transcoder`
  and `VideoObjects` what is behind the other three.
* In `WsServer` a chunk is a unit of `backlog`; `Produce` is `Broadcast`'s
  `EncPush`, `BcastLock` its `BcastCall`. In `Broadcast` a Server is only
  "ready", "live", "stopped" or "freed".
* `Broadcast`'s `StopVideo` waits for an idle encoder. That the encoder does
  end there is `StopTerminates` of `Transcoder`. `Transcoder`'s `Encode` is
  where a chunk may come out.
* `Transcoder` takes init as success or failure; `VideoObjects` opens it up.
* `Application`'s `MainCreate`, `MainRun`, `StopQueue`, `StopFlag` and
  `StopJoin` are `MessageQueue`'s steps from `Probe` to `StopJoin` for a server
  that is alone on its file; `PopMessage` is `Pop` and the commands are `Handle`.
* `WsServer` maps to `SessionRegistry`: a session is connected from the
  accept on, closed when its state is CLOSING or CLOSED, gone when it is freed.

A definition `D_Xyz` is `D` with a plausible bug: it is used by nothing, and
shows, when put in place of `D`, that a property notices the bug.

## Runs

| Run | Configuration | Bounds | Shows |
|---|---|---|---|
| `ws_safety` | `MCWsServer` | 2 sessions (symmetric), backlog 1 | the safety properties of the server, and that it implements `SessionRegistry` |
| `ws_live` | `MCWsServerLive` | 1 session, backlog 2 | stop returns unless a client blocks it; a closed session is freed |
| `app` | `MCApplication` | 2 ports, 1 message queued, 2 SIGINTs | state, pipeline and pointers agree; changes are reported; SIGINT ends the process unless a client blocks it |
| `bcast` | `MCBroadcast` | 3 streams of 4 chunks | order, loss, left-overs; refinement of `ChunkStream`; delivery, and the end of a stream, unless a client blocks |
| `trans` | `MCTranscoder` | 5 packets, quotients 0, 2 and 3, decoder delay 1 | conservation and order of frames; draining and stopping |
| `video_objects` | `MCVideoObjects` | 2 streams, 2 encoders with one and three formats | every failing init is cleaned up, and what runs is complete |
| `queue` | `MCMessageQueue` | 2 servers, 1 client, 3 queues, 2 messages, 3 launches | who hears which command, across crashes and restarts |
| `app_early`, `app_twice`, `bcast_delete`, `video_close`, `queue_deaf` | see below | small | where the code differs from what it says |

Why the bounds are enough. Two sessions give every pair of a session being
deleted and another one being served; more sessions behave like one of these,
and for the safety properties the proofs cover any number. A backlog of 1 lets
a broadcast meet any other step; `ws_live` uses 2, so that the task returns for
a second round. Two ports are the smallest set on which a second
server can be started beside a forgotten one. Two SIGINTs let a second one meet
what the first left behind, or come on another thread while the first is being
handled. One waiting message is enough for the next one to be sent while the
first is handled. Three streams let a left-over of one reach the next
and a second time. Five packets cross the counter's
reset twice at a quotient of 2 and once at 3; the quotient 0 is the case of an
encoder faster than the camera. An encoder with more formats than
`supportsPixFmt` looks at needs three of them. Three launches of two servers
are two that run at once and a restart of either; three queues are one for each
launch (a probe uses one up, so that a launch on an empty key needs two); of two
messages the first can be the stale or the oversized one.

`CHECK_DEADLOCK` is on in every run: each module has one action for the state
in which the program may rest (`Finished`, `Ended`, `Resting`, `Rest`).

### Fairness

Weak fairness of each thread's steps: the operating system runs a thread that
can run. Nothing obliges anybody to start, stop, connect, send or read. The
assumptions that go beyond this are stated with `Fairness` in each module:

* Nothing obliges a client. A handshake, a write, a close handshake or a
  teardown (which reads until the client has closed its side) may never return,
  as the code sets no deadline on them; nor may `Server::stop`, which joins or
  waits for the threads that are in them. `AwaitsClient` names these places in
  `WsServer`, `Broadcast` and `Application`, and the fairness leaves them out. The
  liveness properties of the three modules hold, or some thread stays at such a
  place for ever (`ClientBlocks`). A read of a session that is CLOSED returns,
  since that state is written only after the teardown has returned.
* `WsServer`'s `FairMutexSpec` (used by `ws_live`), `Broadcast` and `Transcoder`: strong fairness of
  a `lock()` that finds the mutex free again and again (the other side polls).
* `Application`: what a command does otherwise ends (opening the device and the
  codecs, and stopping the video, return). A status file that cannot be opened
  may stay so for ever.
* `Transcoder`: `av_read_frame` returns, and the decoder does not keep a frame
  for ever.
* `MessageQueue`: only the listeners' threads, outside of the callback, which may
  wait for a client like any `stopWs` (`CallbackBlocks`); any process may crash,
  and nobody has to start or to send.

### Disagreements found

* `bcast_delete`: `stopWs` deletes the Server before it stops the broadcast
  task, whose test `if(me.server != NULL)` (`Application.cpp:336`) does not
  protect its call.
* `app_early`: main writes WAITTING (`:104`) after it started the listener
  (`:101`); a start handled in between runs in state WAITTING, and `stop` is
  ignored. `app` assumes a client that waits for a status
  (`PatientSender = TRUE`).
* `app_twice`: `stop()` returns at once in state STOPPED (`:232`), so that it may
  be called again, but writes that state (`:240`) long after it deleted the
  listener (`:236`), to which the pointer still leads. While main's handler is in
  between, a second SIGINT is handled in a thread of the pipeline and uses it.
  The same happens to the Application between `:71` and `:72`. `OwnStepsSafe`
  states what does hold: nothing but such a SIGINT uses a deleted pointer.
* `video_close`: when an output's init throws after `initFormat`, `close()`
  writes a trailer although no header was written; when the filter graph's init
  throws, the destructor flushes a graph without a source or a sink.
* `queue_deaf`: `init()` removes the old queue (or its own probe) and creates a
  new one without looking at the result. A client that found the queue and
  opens it after the removal has created it by then; the server keeps -1 as its
  queue and prints "Waitting for command...".

Others are part of the models, without a run of their own:

* Without an argument the program dereferences the NULL listener on its way out
  (`Application.cpp:234`); `OwnStepsSafe` and `NoInvalidPointer` exempt this case.
* main compares the state (`:108`) and writes it as it is later (`:143`); a state
  that is left and entered again in between is not reported. `ChangeReported`
  states what does hold: a state main has not seen is reported.
* `updateStatusFile` clears `hasUpdate` (`:139`) before it opens the file: a report
  whose open fails (`:161-167`) is lost. `FinalReport` and `ChangeReported` exempt
  that one report, and only that one.
* A session is in the registry and OPEN (`Server.cpp:45`) before `onConnection`
  makes it binary; a broadcast in between sends a text frame. `OpenIsBinary`
  states what holds afterwards.
* `supportsPixFmt` (`Codec.cpp:36`) looks at two entries of the table, and
  `VideoFileOutput.cpp:56` shadows the pixel format: the encoder never gets the
  one that was checked (`SupportsPixFmt`, `SetupCodec`).
* A message that does not fit the listener's buffer stays at the head of the
  queue, and nothing behind it is received. `CommandHandled` is about the
  messages before it.
* The first EAGAIN of the camera ends reading for good, as an error does
  (`Transcoder.cpp:89`); `ErrorIsFinal` states it.

## Proofs

Every invariant and every action property that a passing run checks, and both
refinements, are also theorems: the run shows them on a small instance, the
theorem for every value of the constants. `PROJECT.json` pairs them. In each
module `TypeCorrect` and the other properties follow from one inductive
invariant (theorem `Inductive`, or `Typed` and `Flowing`), because none of the
properties is inductive as it stands. TLC checked each of these invariants on the
module's instance before it was proved.

**`WsServerProofs`**, for any sessions and any bound on the backlog, under
`ThreadsAssumption` (sessions are not named like the server's own threads) and
`BacklogAssumption`. `NoUseAfterFree` says nothing about why a pointer in the
registry is live, or why nobody holds it when it is deleted. `Inv` adds the
argument the code relies on:

* `MutexInv`: who holds `sessionsMtx` is decided by where the threads are;
* `JoinInv`: `stop()` touches the registry only after it joined the server's
  thread;
* `SrvOwns`, `CtlOwns`: every session that may be deleted has one owner, the
  registry, `toFree`, or one thread's local pointer, and these are disjoint;
* `BcastBorrows`: the broadcast uses only sessions of the registry, whose mutex
  it holds.

`LifeInv` adds that whoever closes a session announced it before
(`AnnounceInv`), that nobody closes a session before `run()` opened it
(`OpenInv`), and that every live object has an owner (`LeakInv`). For the
refinement (`Implements`) `ClosedInv` adds that a session whose socket is torn
down, or which is being deleted, is closed. Each step is then one of
`SessionRegistry`'s actions (`Moves`, `Tells`) or changes none of its variables
(`Stutters`, `Quiescent`).

**`BroadcastProofs`**, for any number of streams and chunks. `Inv` says what the
Servers, the tasks and the mutex are while the owner is at each place of a start
or a take-down (`ThreadInv`, `ServerInv`, `MutexInv`), that the queue and the
task's buffer hold chunks of the current stream (`ChunkInv`), and that no more of
them wait than were made (`CountInv`).
`Implements` maps the queue, the chunk being pushed and the one in flight to
`ChunkStream`'s `pending`.

**`ApplicationProofs`**, for any ports, any bound on the queue and any number of
SIGINTs. `TypeCorrect` and `LastReport` hold of every client. `LastReport` rests
on `EndInv`: only the handler's first `stop()` gets past its first line, and main
leaves its loop only after it, when nobody else writes the state; a destructor
that does not find STOPPED uses the deleted listener and does not end by itself.
What main wrote last says STOPPED if its open was good (`written`).
The others assume `PatientSender`,
a client that sends nothing before a status was reported, which is also the
instance of the run `app`: without it TLC finds `StateMatchesPipeline` (that is
`app_early`), `OwnStepsSafe` and `NoServerLost` violated, since main's
write of WAITTING may overwrite a STOPPED or a RUNNING. `Inv` follows the life of
the process: without a file (`NoFileInv`), before the loop (`EarlyInv`), up
(`UpInv`), after the loop was told to end (`DownInv`); how far the listener or
`stop()` has come with the pipeline (`PipeInv`); and that the port that is bound
is the Server's (`BoundInv`). For `PointersValid` it says that the `stop()` that
gets past its first line finds the listener alive; no theorem covers the SIGINT
of `app_twice`, which violates it.

**`TranscoderProofs`**, for any number of packets, any quotient of the rates
that 16 bits can hold and any delay of the decoder. `PlaceInv` and `TaskInv` say
where the tasks may be and what they hold there; `GraphHasOneUser` and
`ErrorIsFinal` follow. `InOrder` and `ChosenAccountedFor` rest on `Flow`: the
counter of skipped frames is the remainder of the packets read (`SkipInv`), and
the encoded frames, the graph, the decoder's delay and the frame in hand are
increasing, one after the other (`OrderInv`), and are together the packets
chosen so far, less the lost ones (`AccountInv`). The lemmas `Remainder` to
`ChosenUpTo` are the arithmetic of "every n-th".

**`VideoObjectsProofs`**, for any number of streams and any encoders whose table
has an entry. `SetUpInv` is what has been set up when an init has come to a
place, `LiveInv` ties each pointer to live memory, `FileInv` ties the output's
`pb` to the one resource that its kind of `closeFile` releases, and `CloseInv` is
what the calls of `close()` have released, so that the second and the third find
nothing.

**`MessageQueueProofs`**, for any servers, clients, queues, messages and
restarts. `NumberInv` holds in any case. `OwnInv` (no two servers hold the id of
one queue) and `FreshInv` (what is in a server's queue was sent after its start)
assume `Recreate`, which is what `Application.cpp` passes to the listener and
what `NoStaleCommand` and `OneListener` are about.

**`ChunkStream`** and **`SessionRegistry`** hold one theorem each, `Promised`:
what the abstract specification means, in invariants. `Delivered` and
`RegistryPromised` carry it over to the detailed modules: the numbers of the
chunks a client gets increase, and none is missing while the stream is open; no
session ends unannounced, comes back, or outlives `stop()`.

Proving found three things that TLC had not: in the mapping to `SessionRegistry`
two arms of a `CASE` overlapped for a freed session, so its value was not
determined (TLC takes the first arm; the mapping is now `LifeOf`, an `IF`); `None`
must not be a state of `Application` nor a message of `MessageQueue`; and the
assumption on the encoders has to say that entry 1 exists, not that the table is
not `<<>>`.

Only model-checked: the liveness properties (`StopCompletes` and `ClosedIsFreed`
of `WsServer`; `ChangeReported`, `InterruptEnds`; `EveryChunkDelivered` and
`StopCompletes` of `Broadcast`; `GraphDrains`, `StopTerminates`;
`CommandHandled`), because fairness and ENABLED are out of the prover's reach.
The five runs that expect a violation have no theorem.

## What is not modelled

* libav, Boost.Beast and the operating system, except as the results of their
  calls; the contents of frames, chunks, messages and requests.
* Torn or reordered accesses to the plain variables that threads share: a read
  sees the last write. The C++ standard calls these data races.
* Delivery of SIGINT to a thread other than main while main's handler does not
  run, and what a signal handler may not call. A thread of the pipeline that
  handles a second SIGINT is taken to fail at once; in the code it may get as far
  as main's `stop()` lets it. A SIGINT after `Application.cpp:72` makes a new
  Application, in state STOPPED, and does nothing else.
* The moment at which the status file is truncated and not written yet.
* Queue permissions: the processes of `MessageQueue` may remove each other's
  queues. PHP's `msg_get_queue` gets or creates in one step. The memory around
  the listener's buffer (`UnixMessageQueueListener.hpp:93-94`).
* Codecs without a table of pixel formats; buffers that libav reallocates.
* `AsyncTask::run` and `Signal::trigger`, which only test programs use.
* The chain of exceptions, the one-line wrappers in `Codec` and `Format`, the
  text of the filters' arguments.

## Plan

Done: the six models and the two abstract specifications, their runs, and proofs
of every safety and action property and of both refinements.

Next:

1. What holds of the steps that the violation runs refute as a whole: a theorem
   that `ClosableAfterFailure` holds while no init has failed, and that a Server
   is there for every call before `stopWs`.
2. The steps on which the liveness properties rest, as invariants: a thread that
   `stop()` joins is on its way out, a decoder that has ended leaves a graph that
   only shrinks.
