---------------------------- MODULE Application ----------------------------
(***************************************************************************)
(* The Application of src/src/Application.cpp and the two threads and the  *)
(* signal handler that drive it:                                           *)
(*   Main      main(): start-up, the 10 ms status loop, exit();            *)
(*   Handler   the SIGINT handler, Application::stop() on top of whatever  *)
(*             main was doing (main does not run while the handler does);  *)
(*   Listener  the thread of the message queue listener, which runs the    *)
(*             commands start and stop.                                    *)
(* A SIGINT that comes while main's handler runs is handled in some other  *)
(* thread, which dies of it or does nothing: InterruptListener and         *)
(* InterruptPipeline need no thread of their own.                          *)
(* The pipeline (Server, broadcast task, V4L2 input, memory output,        *)
(* transcoder) appears as five pointers; WsServer models the first one.    *)
(* The queue is the one that MessageQueue creates; the client that sends   *)
(* commands is the environment.                                            *)
(* A definition D_Xyz is D with the bug Xyz put in, for the mutation runs. *)
(***************************************************************************)
EXTENDS Naturals, Sequences, FiniteSets

CONSTANTS Ports,          \* the ports a start command may name
          None,           \* no port; a local variable not yet assigned
          QueueCap,       \* bound on the messages waiting in the queue
          MaxSignals,     \* bound on the SIGINTs delivered
          PatientSender   \* clients send only once a status is reported

Main     == "main"
Handler  == "handler"
Listener == "listener"

ASSUME BoundsAssumption == QueueCap \in Nat \ {0} /\ MaxSignals \in Nat
ASSUME ModesAssumption == PatientSender \in BOOLEAN

States == {"STOPPED", "WAITTING", "RUNNING", "ERROR"}
ASSUME PortsAssumption == None \notin Ports \cup States
Parts  == {"server", "broadcastTask", "videoIn", "videoOut", "transcoder"}
Video  == {"videoIn", "videoOut", "transcoder"}
Ws     == Parts \ Video

(* What a message says, once parsed.  Port None: serverPort is missing or  *)
(* out of range; device FALSE: the input or the codecs cannot be set up.   *)
(* "other" stands for every message that is ignored as soon as it is read. *)
Commands == [op : {"start"}, port : Ports \cup {None}, device : BOOLEAN]
            \cup [op : {"stop", "other"}, port : {None}, device : {FALSE}]
NoCommand == [op |-> "other", port |-> None, device |-> FALSE]

VARIABLES
  hasFile,    \* the program was given an argument, the status file
  caught,     \* SIGINT: its default action, or Signal::entryPoint
  callback,   \* Signal::callbacks has a task for SIGINT
  state,      \* Application::state
  loop,       \* Application::loop
  hasUpdate,  \* Application::hasUpdate
  file,       \* what the status file says
  written,    \* the last fout.open of updateStatusFile was good
  seen,       \* main's local variable s
  mql,        \* the listener object: "null", "live" or "deleted"
  lrunning,   \* its LoopInside::running
  queue,      \* the messages in the system's queue
  open,       \* the queue exists
  res,        \* per part of the pipeline: "null", "ready" or "running"
  port,       \* the port of the current server
  bound,      \* the ports on which servers of this process listen
  pc, cmd,    \* per thread: where it is; the command being handled
  signals,    \* SIGINTs delivered so far
  fate        \* "alive", or how the process died

sgnl == <<caught, callback, signals>>
stat == <<file, written, hasUpdate, seen>>
lstn == <<mql, lrunning, queue, open>>
pipe == <<res, port, bound>>
vars == <<hasFile, sgnl, state, loop, stat, lstn, pipe, pc, cmd, fate>>

MainLabels == {"start", "detach", "attach", "signal", "create", "run", "read", "wait", "loop", "compare",
               "update", "exit", "clear", "done"}
StopLabels == {"stop", "stopFlag", "stopJoin", "stopVideo", "stopWs", "stopState", "stopLoop"}
ListenerLabels == {"none", "check", "pop", "onStart", "initWs", "initVideo", "launch",
                   "setRunning", "undoVideo", "undoWs", "onStop", "cmdVideo", "cmdWs",
                   "setWaiting", "ended"}

PcOK ==
  /\ pc \in [{Main, Handler, Listener} -> MainLabels \cup StopLabels \cup ListenerLabels
                                          \cup {"idle"}]
  /\ pc[Main] \in MainLabels \cup StopLabels
  /\ pc[Handler] \in {"idle"} \cup StopLabels
  /\ pc[Listener] \in ListenerLabels

TypeOK ==
  /\ hasFile \in BOOLEAN /\ caught \in BOOLEAN /\ callback \in BOOLEAN
  /\ state \in States /\ loop \in BOOLEAN
  /\ file \in States \cup {None} /\ written \in BOOLEAN /\ hasUpdate \in BOOLEAN
  /\ seen \in States \cup {None}
  /\ pc[Main] \in {"wait", "loop", "compare", "update"} => seen \in States
  /\ mql \in {"null", "live", "deleted"} /\ lrunning \in BOOLEAN
  /\ queue \in Seq(Commands) /\ Len(queue) <= QueueCap /\ open \in BOOLEAN
  /\ res \in [Parts -> {"null", "ready", "running"}]
  /\ port \in Ports \cup {None} /\ bound \subseteq Ports
  /\ PcOK
  /\ cmd \in Commands
  /\ signals \in 0..MaxSignals
  /\ fate \in {"alive", "killed", "nullDeref", "useAfterFree", "terminate"}

Init ==
  /\ hasFile \in BOOLEAN /\ caught = FALSE /\ callback = FALSE
  /\ state = "STOPPED" /\ loop = TRUE /\ hasUpdate = TRUE
  /\ file = None /\ written = TRUE /\ seen = None
  /\ mql = "null" /\ lrunning = FALSE /\ queue = <<>> /\ open = FALSE
  /\ res = [p \in Parts |-> "null"] /\ port = None /\ bound = {}
  /\ pc = [t \in {Main, Handler, Listener} |->
             CASE t = Main -> "start" [] t = Handler -> "idle" [] t = Listener -> "none"]
  /\ cmd = NoCommand /\ signals = 0 /\ fate = "alive"

(* Thread t can step from one label to another: main waits for a handler.  *)
(* Quiet is such a step of which nothing is seen, StateStep one that only  *)
(* writes the state.                                                       *)
Step(t, from, to) ==
  /\ fate = "alive" /\ pc[t] = from
  /\ t = Main => pc[Handler] = "idle"
  /\ pc' = [pc EXCEPT ![t] = to]
  /\ UNCHANGED hasFile
Quiet(t, from, to) ==
  Step(t, from, to) /\ UNCHANGED <<sgnl, state, loop, stat, lstn, pipe, cmd, fate>>
StateStep(t, from, to, value) ==
  /\ Step(t, from, to) /\ state' = value
  /\ UNCHANGED <<sgnl, loop, stat, lstn, pipe, cmd, fate>>

-----------------------------------------------------------------------------
(* Main *)

(* updateStatusFile, when hasUpdate was just set to h.  The flag is cleared *)
(* first: when the file cannot be opened this report is dropped.           *)
UpdateStatusFile(h, value) ==
  /\ hasUpdate' = FALSE
  /\ IF h THEN \/ file' = value /\ written' = TRUE
               \/ file' = file /\ written' = FALSE
          ELSE UNCHANGED <<file, written>>

(* Without an argument main returns 1, otherwise it reports STOPPED. *)
MainStart ==
  /\ Step(Main, "start", IF hasFile THEN "detach" ELSE "exit")
  /\ IF hasFile THEN UpdateStatusFile(hasUpdate, state)
                ELSE UNCHANGED <<file, written, hasUpdate>>
  /\ UNCHANGED <<sgnl, state, loop, seen, lstn, pipe, cmd, fate>>

(* Signal::attach: the old callback goes, the new one is there before the  *)
(* handler is.                                                             *)
Catch(from, to, c, cb) ==
  /\ Step(Main, from, to) /\ caught' = c /\ callback' = cb
  /\ UNCHANGED <<signals, state, loop, stat, lstn, pipe, cmd, fate>>
MainDetach == Catch("detach", "attach", FALSE, FALSE)
MainAttach == Catch("attach", "signal", caught, TRUE)
MainSignal == Catch("signal", "create", TRUE, callback)

(* The listener removes an old queue and creates a new one. *)
MainCreate ==
  /\ Step(Main, "create", "run")
  /\ mql' = "live" /\ open' = TRUE /\ queue' = <<>>
  /\ UNCHANGED <<sgnl, state, loop, stat, lrunning, pipe, cmd, fate>>

MainRun ==
  /\ fate = "alive" /\ pc[Main] = "run" /\ pc[Handler] = "idle"
  /\ pc' = [pc EXCEPT ![Main] = "read", ![Listener] = "check"]
  /\ lrunning' = TRUE
  /\ UNCHANGED <<hasFile, sgnl, state, loop, stat, mql, queue, open, pipe, cmd, fate>>

MainRead_Skipped == Quiet(Main, "read", "wait")
MainRead ==
  /\ Step(Main, "read", "wait") /\ seen' = state
  /\ UNCHANGED <<sgnl, state, loop, file, written, hasUpdate, lstn, pipe, cmd, fate>>

MainWait == StateStep(Main, "wait", "loop", "WAITTING")

MainLoop == Quiet(Main, "loop", IF loop THEN "compare" ELSE "exit")

Compare(trigger) ==
  /\ Step(Main, "compare", "update") /\ seen' = state
  /\ hasUpdate' = (hasUpdate \/ trigger)
  /\ UNCHANGED <<sgnl, state, loop, file, written, lstn, pipe, cmd, fate>>
MainCompare_NoTrigger == Compare(FALSE)
MainCompare == Compare(seen # state)

MainUpdate ==
  /\ Step(Main, "update", "loop") /\ UpdateStatusFile(hasUpdate, state)
  /\ UNCHANGED <<sgnl, state, loop, seen, lstn, pipe, cmd, fate>>

(* exit(): a last report, which without an argument names no file, then    *)
(* ~Application, which calls stop(), and instance = NULL.                  *)
MainExit_Silent == Quiet(Main, "exit", "stop")
MainExit ==
  /\ Step(Main, "exit", "stop")
  /\ state' = IF hasFile THEN state ELSE "ERROR"
  /\ IF hasFile THEN UpdateStatusFile(TRUE, state')
                ELSE file' = file /\ written' = FALSE /\ hasUpdate' = FALSE
  /\ UNCHANGED <<sgnl, loop, seen, lstn, pipe, cmd, fate>>

MainClear == Quiet(Main, "clear", "done")

-----------------------------------------------------------------------------
(* stopVideo and stopWs: delete what is there, reset the pointers. *)

StopVideo_KeepsInput ==
  /\ res' = [p \in Parts |-> IF p \in {"videoOut", "transcoder"} THEN "null" ELSE res[p]]
  /\ UNCHANGED <<port, bound>>
StopVideo ==
  /\ res' = [p \in Parts |-> IF p \in Video THEN "null" ELSE res[p]]
  /\ UNCHANGED <<port, bound>>
StopWs ==
  /\ res' = [p \in Parts |-> IF p \in Ws THEN "null" ELSE res[p]]
  /\ bound' = bound \ {port}
  /\ port' = None

-----------------------------------------------------------------------------
(* Application::stop, in the handler or in ~Application *)

AfterStop(t) == IF t = Main THEN "clear" ELSE "idle"

StopReturns(t) == state = "STOPPED" /\ Quiet(t, "stop", AfterStop(t))

(* mql->destroyQueue() *)
StopQueue(t) ==
  /\ state # "STOPPED" /\ Step(t, "stop", "stopFlag")
  /\ fate' = CASE mql = "null" -> "nullDeref"
               [] mql = "live" -> "alive"
               [] mql = "deleted" -> "useAfterFree"
  /\ open' = FALSE /\ queue' = <<>>
  /\ UNCHANGED <<sgnl, state, loop, stat, mql, lrunning, pipe, cmd>>

(* mql->stop(true): the flag, then the join; then delete mql. *)
StopFlag_Forgotten(t) == Quiet(t, "stopFlag", "stopJoin")
StopFlag(t) ==
  /\ Step(t, "stopFlag", "stopJoin") /\ lrunning' = FALSE
  /\ UNCHANGED <<sgnl, state, loop, stat, mql, queue, open, pipe, cmd, fate>>

ListenerOver_NoJoin == TRUE
ListenerOver == pc[Listener] \in {"none", "ended"}
StopJoin(t) ==
  /\ Step(t, "stopJoin", "stopVideo") /\ ListenerOver
  /\ mql' = "deleted"
  /\ UNCHANGED <<sgnl, state, loop, stat, lrunning, queue, open, pipe, cmd, fate>>

TakeDown(t, from, to, action) ==
  Step(t, from, to) /\ action /\ UNCHANGED <<sgnl, state, loop, stat, lstn, cmd, fate>>
StopStopVideo(t) == TakeDown(t, "stopVideo", "stopWs", StopVideo)
StopStopWs(t)    == TakeDown(t, "stopWs", "stopState", StopWs)

StopState_Forgotten(t) == Quiet(t, "stopState", "stopLoop")
StopState(t) == StateStep(t, "stopState", "stopLoop", "STOPPED")
StopLoop(t) ==
  /\ Step(t, "stopLoop", AfterStop(t)) /\ loop' = FALSE
  /\ UNCHANGED <<sgnl, state, stat, lstn, pipe, cmd, fate>>

(* SIGINT is delivered to the main thread, between any two of its steps,   *)
(* unless its handler is already running there.  Before Signal::attach is  *)
(* over it kills the process; while instance still leads to the deleted    *)
(* Application, the handler calls that one's stop().                       *)
Interrupt ==
  /\ signals < MaxSignals /\ signals' = signals + 1
  /\ pc[Main] # "done"
  /\ Step(Handler, "idle", IF caught /\ callback THEN "stop" ELSE "idle")
  /\ fate' = CASE ~caught -> "killed"
               [] caught /\ callback /\ pc[Main] = "clear" -> "useAfterFree"
               [] OTHER -> "alive"
  /\ UNCHANGED <<caught, callback, state, loop, stat, lstn, pipe, cmd>>

(* A SIGINT while the handler runs in main is delivered to another thread. *)
(* In the listener's, stop() joins the thread it runs in: the system_error *)
(* ends the process, unless stop() returned early.                         *)
InterruptListener ==
  /\ fate = "alive" /\ signals < MaxSignals /\ signals' = signals + 1
  /\ pc[Handler] # "idle" /\ ~ListenerOver
  /\ fate' = IF state = "STOPPED" THEN "alive" ELSE "terminate"
  /\ UNCHANGED <<hasFile, caught, callback, state, loop, stat, lstn, pipe, pc, cmd>>

(* In a thread of a running pipeline (server, session, broadcast, decoder  *)
(* or encoder) a second stop() goes past line 232 as long as the state is  *)
(* not STOPPED.  The listener that it stops is deleted already, or is      *)
(* deleted by both; or it first joins the thread it runs in.               *)
InterruptPipeline ==
  /\ fate = "alive" /\ signals < MaxSignals /\ signals' = signals + 1
  /\ pc[Handler] # "idle" /\ \E p \in Parts : res[p] = "running"
  /\ fate' \in CASE state = "STOPPED" -> {"alive"}
                 [] state # "STOPPED" /\ mql = "deleted" -> {"useAfterFree"}
                 [] OTHER -> {"useAfterFree", "terminate"}
  /\ UNCHANGED <<hasFile, caught, callback, state, loop, stat, lstn, pipe, pc, cmd>>

-----------------------------------------------------------------------------
(* Listener: onQueueMessage, onStart and onStop *)

ListenerCheck == Quiet(Listener, "check", IF lrunning THEN "pop" ELSE "ended")

PopNothing == queue = <<>> /\ Quiet(Listener, "pop", "check")

PopMessage ==
  /\ queue # <<>>
  /\ Step(Listener, "pop", CASE Head(queue).op = "start" -> "onStart"
                             [] Head(queue).op = "stop"  -> "onStop"
                             [] Head(queue).op = "other" -> "check")
  /\ queue' = Tail(queue) /\ cmd' = Head(queue)
  /\ UNCHANGED <<sgnl, state, loop, stat, mql, lrunning, open, pipe, fate>>

OnStart_Always == Quiet(Listener, "onStart", "initWs")
OnStart == Quiet(Listener, "onStart", IF state = "RUNNING" THEN "check" ELSE "initWs")

(* InvalidJsonConfigException: caught in onStart. *)
InitWsInvalid == cmd.port = None /\ Quiet(Listener, "initWs", "undoVideo")

(* The port is taken, here or in another process: new Server throws a      *)
(* system_error, which is no exceptions::Exception and ends the process.   *)
InitWsBindFails ==
  /\ cmd.port # None /\ Step(Listener, "initWs", "initWs")
  /\ fate' = "terminate"
  /\ UNCHANGED <<sgnl, state, loop, stat, lstn, pipe, cmd>>

InitWs ==
  /\ cmd.port \notin bound \cup {None} /\ Step(Listener, "initWs", "initVideo")
  /\ res' = [p \in Parts |-> IF p \in Ws THEN "ready" ELSE res[p]]
  /\ port' = cmd.port
  /\ bound' = bound \cup {cmd.port}
  /\ UNCHANGED <<sgnl, state, loop, stat, lstn, cmd, fate>>

MakeVideo(from, to, parts) ==
  /\ Step(Listener, from, to)
  /\ res' = [p \in Parts |-> IF p \in parts THEN "ready" ELSE res[p]]
  /\ UNCHANGED <<sgnl, state, loop, stat, lstn, port, bound, cmd, fate>>

(* The configuration is refused before, or init() throws after the objects *)
(* were created.                                                           *)
InitVideoFails ==
  ~cmd.device /\ \E parts \in {{}, Video} : MakeVideo("initVideo", "undoVideo", parts)
InitVideo == cmd.device /\ MakeVideo("initVideo", "launch", Video)

Launch ==
  /\ Step(Listener, "launch", "setRunning")
  /\ res' = [p \in Parts |-> IF res[p] = "null" THEN "null" ELSE "running"]
  /\ UNCHANGED <<sgnl, state, loop, stat, lstn, port, bound, cmd, fate>>

SetRunning == StateStep(Listener, "setRunning", "check", "RUNNING")

UndoVideo == TakeDown(Listener, "undoVideo", "undoWs", StopVideo)
UndoWs    == TakeDown(Listener, "undoWs", "check", StopWs)

OnStop   == Quiet(Listener, "onStop", IF state = "WAITTING" THEN "check" ELSE "cmdVideo")
CmdVideo == TakeDown(Listener, "cmdVideo", "cmdWs", StopVideo)
CmdWs    == TakeDown(Listener, "cmdWs", "setWaiting", StopWs)
SetWaiting == StateStep(Listener, "setWaiting", "check", "WAITTING")

-----------------------------------------------------------------------------
(* A client sends a message, as soon as there is a queue or, when patient, *)
(* once the status file says that commands are waited for.                 *)
Send(c) ==
  /\ fate = "alive" /\ open /\ Len(queue) < QueueCap
  /\ PatientSender => file \in {"WAITTING", "RUNNING"}
  /\ queue' = Append(queue, c)
  /\ UNCHANGED <<hasFile, sgnl, state, loop, stat, mql, lrunning, open, pipe, pc, cmd, fate>>

(* The process ended, in one way or another. *)
Over == fate # "alive" \/ pc[Main] = "done"
Ended == Over /\ UNCHANGED vars

MainStep == \/ MainStart \/ MainDetach \/ MainAttach \/ MainSignal \/ MainCreate \/ MainRun
            \/ MainRead \/ MainWait \/ MainLoop \/ MainCompare \/ MainUpdate \/ MainExit
            \/ MainClear
StopStep(t) == \/ StopReturns(t) \/ StopQueue(t) \/ StopFlag(t) \/ StopJoin(t)
               \/ StopStopVideo(t) \/ StopStopWs(t) \/ StopState(t) \/ StopLoop(t)
ListenerStep == \/ ListenerCheck \/ PopNothing \/ PopMessage \/ OnStart \/ InitWsInvalid
                \/ InitWsBindFails \/ InitWs \/ InitVideoFails \/ InitVideo \/ Launch
                \/ SetRunning \/ UndoVideo \/ UndoWs \/ OnStop \/ CmdVideo \/ CmdWs
                \/ SetWaiting

Next == \/ MainStep \/ ListenerStep \/ Ended
        \/ Interrupt \/ InterruptListener \/ InterruptPipeline
        \/ \E t \in {Main, Handler} : StopStep(t)
        \/ \E c \in Commands : Send(c)

Spec == Init /\ [][Next]_vars

(* Server::stop joins a thread that may be reading from a silent client,   *)
(* or waits for sessionsMtx, which is held while one is written to: see    *)
(* WsServer.  There is no deadline, so nothing obliges it to return.       *)
AwaitsClient(t) == pc[t] \in {"stopWs", "cmdWs", "undoWs"} /\ res["server"] = "running"

(* A client keeps stopWs from returning for ever.  Only one thread at a    *)
(* time runs it: stop() has joined the listener before.                    *)
ClientBlocks == <>[](\E t \in {Main, Handler, Listener} : AwaitsClient(t))

(* A thread that can run eventually does.  Nobody has to send a command or *)
(* a signal.  Everything else that a command does ends: opening the device *)
(* and the codecs, and stopping the video, are assumed to return.          *)
Fairness ==
  /\ WF_vars(MainStep)
  /\ WF_vars(ListenerStep /\ ~AwaitsClient(Listener))
  /\ \A t \in {Main, Handler} : WF_vars(StopStep(t) /\ ~AwaitsClient(t))

FairSpec == Spec /\ Fairness

-----------------------------------------------------------------------------
(* Properties *)

(* No pointer of the Application is used when it is NULL or deleted.  The  *)
(* code breaks this: stop() returns at once when it finds STOPPED (232),   *)
(* so that it may be called again, but it deletes the listener (236) long  *)
(* before it writes STOPPED (240), and does not reset the pointer.  A      *)
(* second SIGINT in between is handled in a thread of the pipeline.        *)
NoInvalidPointer == fate \in {"nullDeref", "useAfterFree"} => ~hasFile

(* A SIGINT while main's handler is in stop(), or between the delete of    *)
(* the Application and the reset of the pointer to it.                     *)
UntimelySignal ==
  signals' = signals + 1 /\ (pc[Handler] # "idle" \/ pc[Main] = "clear")

(* Of everything else the pointers are safe: no step of main, of a command *)
(* or of a stop(), be it the second one, in the destructor, and no SIGINT  *)
(* at any other moment uses one that is NULL or deleted.  The exception is *)
(* a program started without an argument, which destroys the queue of a    *)
(* listener it never made.                                                 *)
OwnStepsSafe ==
  [][fate = "alive" /\ fate' \in {"nullDeref", "useAfterFree"} => ~hasFile \/ UntimelySignal]_vars

(* Somebody is building the pipeline up or taking it down. *)
Changing ==
  \/ pc[Listener] \in {"initVideo", "launch", "setRunning", "undoVideo", "undoWs",
                       "cmdVideo", "cmdWs", "setWaiting"}
  \/ \E t \in {Main, Handler} : pc[t] \in {"stopVideo", "stopWs", "stopState"}

(* What the Application says it does is what it does: the whole pipeline   *)
(* runs in RUNNING, and nothing is left of it, not even of a start that    *)
(* failed half-way, in the other states.                                   *)
StateMatchesPipeline ==
  fate = "alive" /\ ~Changing =>
    \A p \in Parts : res[p] = IF state = "RUNNING" THEN "running" ELSE "null"

(* There is never a listening socket that no pointer leads to any more.    *)
NoServerLost == bound \subseteq {port}

(* Once the loop is told to end, nothing brings the application back: no   *)
(* command in progress, no further SIGINT, not main itself.                *)
StoppedIsFinal == [][~loop => state' = state /\ res' = res /\ mql' = mql]_vars

(* A process that ended by itself says so in the status file, if this last *)
(* write of the file did not fail.                                         *)
FinalReport == pc[Main] = "done" /\ fate = "alive" => file = "STOPPED" \/ ~written

(* The report of x was made, and the file could not be opened.             *)
Unwritten(x) ==
  /\ ~written
  /\ (seen = x /\ pc[Main] # "update") \/ pc[Main] \in {"stop", "clear", "done"}

(* A state that main has not seen yet is reported, if it lasts, whatever   *)
(* happened to the reports before it; only its own write may fail.  (Of a  *)
(* state that main has seen this need not hold: the loop compares at 108   *)
(* but writes the state as it is later, at 143; a state that is left and   *)
(* entered again in between stays unreported.)                             *)
ChangeReported ==
  ClientBlocks \/
    \A x \in States :
      (state = x /\ seen # x) ~> (file = x \/ Unwritten(x) \/ state # x \/ fate # "alive")

(* SIGINT ends the process, whatever command is being handled, when it     *)
(* comes after main entered its loop or while something is streaming; only *)
(* a client can prevent it.                                                *)
InterruptEnds ==
  ClientBlocks \/ ((pc[Handler] = "stop" /\ state # "STOPPED") ~> Over)
=============================================================================
