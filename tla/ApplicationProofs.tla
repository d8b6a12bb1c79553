------------------------- MODULE ApplicationProofs -------------------------
(***************************************************************************)
(* Theorems about Application, for any ports, any length of the queue and  *)
(* any number of SIGINTs.  TypeOK and FinalReport hold of every client,    *)
(* FinalReport by the invariant EndInv.  The other theorems assume         *)
(* PatientSender: a client that sends before a status was reported can     *)
(* make main overwrite what a SIGINT has just stopped.  They rest on one   *)
(* invariant, Inv, about a process that is alive.                          *)
(***************************************************************************)
EXTENDS Application, TLAPS

(* Main has not entered its loop. *)
Early    == {"start", "detach", "attach", "signal", "create", "run", "read", "wait"}
(* stop() has deleted the listener. *)
Joined   == {"stopVideo", "stopWs", "stopState", "stopLoop"}
AllNull  == \A p \in Parts : res[p] = "null"
VideoNull == \A p \in Video : res[p] = "null"
Matches  == \A p \in Parts : res[p] = IF state = "RUNNING" THEN "running" ELSE "null"

(* Without a file nothing is set up, and nobody catches SIGINT.            *)
NoFileInv ==
  ~hasFile =>
    /\ pc[Main] \in {"start", "exit", "stop"} /\ pc[Handler] = "idle" /\ pc[Listener] = "none"
    /\ pc[Main] = "stop" => state = "ERROR"
    /\ ~caught /\ loop /\ mql = "null" /\ file = None /\ queue = <<>> /\ AllNull

(* Before main's loop the state is STOPPED, no client knows of the queue,  *)
(* and a SIGINT that is caught does nothing.                               *)
EarlyInv ==
  hasFile /\ pc[Main] \in Early =>
    /\ state = "STOPPED" /\ loop /\ file \in {None, "STOPPED"} /\ queue = <<>> /\ AllNull
    /\ pc[Handler] \in {"idle", "stop"}
    /\ mql = IF pc[Main] \in {"run", "read", "wait"} THEN "live" ELSE "null"
    /\ IF pc[Main] \in {"read", "wait"} THEN pc[Listener] \in {"check", "pop"} /\ lrunning
                                        ELSE pc[Listener] = "none"

(* From then on the application is up until stop() has ended the loop;     *)
(* only the handler runs that stop(), main's own one returns at once.      *)
UpInv ==
  hasFile /\ pc[Main] \notin Early /\ loop =>
    /\ pc[Main] \in {"loop", "compare", "update"}
    /\ state \in IF pc[Handler] = "stopLoop" THEN {"STOPPED"} ELSE {"WAITTING", "RUNNING"}
    /\ mql = IF pc[Handler] \in Joined THEN "deleted" ELSE "live"
    /\ pc[Listener] # "none"
    /\ pc[Handler] \in Joined => pc[Listener] = "ended"
    /\ pc[Handler] \in {"idle", "stop", "stopFlag"} => lrunning
    /\ pc[Listener] = "ended" => ~lrunning
    /\ pc[Handler] = "stopWs" => VideoNull
    /\ pc[Handler] \in {"stopState", "stopLoop"} => AllNull

(* Once the loop is told to end, everything is taken down for good.        *)
DownInv ==
  hasFile /\ ~loop =>
    /\ pc[Main] \in {"loop", "compare", "update", "exit", "stop", "clear", "done"}
    /\ state = "STOPPED" /\ mql = "deleted" /\ AllNull
    /\ pc[Handler] \in {"idle", "stop"} /\ pc[Listener] = "ended"

(* How far a command has built the pipeline up, or taken it down.          *)
PipeInv ==
  /\ pc[Listener] \in {"none", "check", "pop", "onStart", "onStop", "ended"}
     /\ pc[Handler] \notin {"stopWs", "stopState"} => Matches
  /\ pc[Listener] \in {"initWs", "initVideo", "launch", "setRunning", "undoVideo", "undoWs"}
       => state # "RUNNING"
  /\ pc[Listener] = "initWs" => AllNull
  /\ pc[Listener] = "initVideo" => \A p \in Ws : res[p] = "ready"
  /\ pc[Listener] = "launch" => \A p \in Parts : res[p] = "ready"
  /\ pc[Listener] = "setRunning" => \A p \in Parts : res[p] = "running"
  /\ pc[Listener] \in {"undoWs", "cmdWs"} => VideoNull
  /\ pc[Listener] = "setWaiting" => AllNull

(* The port that is bound is the one of the Server, if there is one.       *)
BoundInv ==
  IF res["server"] = "null" THEN bound = {} /\ port = None
                            ELSE bound = {port} /\ port # None

Inv ==
  /\ fate = "alive" => NoFileInv /\ EarlyInv /\ UpInv /\ DownInv /\ PipeInv
  /\ BoundInv

USE PortsAssumption, BoundsAssumption, ModesAssumption

-----------------------------------------------------------------------------
(* Types *)

(* The initial state has the declared types.                               *)
LEMMA InitType == Init => TypeOK
<1> SUFFICES ASSUME Init PROVE TypeOK
  OBVIOUS
<1> USE DEF Init
<1>1. /\ pc[Main] = "start" /\ pc[Handler] = "idle" /\ pc[Listener] = "none"
      /\ pc \in [{Main, Handler, Listener} -> {"start", "idle", "none"}]
  BY DEF Main, Handler, Listener
<1>2. cmd \in Commands
  BY DEF NoCommand, Commands
<1>3. queue \in Seq(Commands) /\ Len(queue) <= QueueCap
  OBVIOUS
<1>4. res \in [Parts -> {"null", "ready", "running"}] /\ signals \in 0..MaxSignals
  OBVIOUS
<1> QED
  BY <1>1, <1>2, <1>3, <1>4 DEF TypeOK, PcOK, States, MainLabels, StopLabels, ListenerLabels

USE DEF Main, Handler, Listener, MainLabels, StopLabels, ListenerLabels, States, Step, Quiet,
        StateStep, TakeDown, sgnl, stat, lstn, pipe

(* Types are preserved by main.                                            *)
LEMMA MainType == ASSUME TypeOK, MainStep PROVE TypeOK'
<1> USE DEF TypeOK, PcOK
<1>1. CASE MainStart
  <2>1. written' \in BOOLEAN /\ hasUpdate' \in BOOLEAN
    BY <1>1 DEF MainStart, UpdateStatusFile
  <2> QED
    BY <1>1, <2>1 DEF MainStart, UpdateStatusFile
<1>2. CASE MainDetach
  <2>1. caught' \in BOOLEAN /\ callback' \in BOOLEAN
    BY <1>2 DEF MainDetach, Catch
  <2> QED
    BY <1>2, <2>1 DEF MainDetach, Catch
<1>3. CASE MainAttach
  BY <1>3 DEF MainAttach, Catch
<1>4. CASE MainSignal
  BY <1>4 DEF MainSignal, Catch
<1>5. CASE MainCreate
  BY <1>5 DEF MainCreate
<1>6. CASE MainRun
  BY <1>6 DEF MainRun
<1>7. CASE MainRead
  BY <1>7 DEF MainRead
<1>8. CASE MainWait
  BY <1>8 DEF MainWait
<1>9. CASE MainLoop
  BY <1>9 DEF MainLoop
<1>10. CASE MainCompare
  BY <1>10 DEF MainCompare, Compare
<1>11. CASE MainUpdate
  <2>1. written' \in BOOLEAN /\ hasUpdate' \in BOOLEAN
    BY <1>11 DEF MainUpdate, UpdateStatusFile
  <2> QED
    BY <1>11, <2>1 DEF MainUpdate, UpdateStatusFile
<1>12. CASE MainExit
  <2>1. written' \in BOOLEAN /\ hasUpdate' \in BOOLEAN
    BY <1>12 DEF MainExit, UpdateStatusFile
  <2> QED
    BY <1>12, <2>1 DEF MainExit, UpdateStatusFile
<1>13. CASE MainClear
  BY <1>13 DEF MainClear
<1> QED
  BY <1>1, <1>2, <1>3, <1>4, <1>5, <1>6, <1>7, <1>8, <1>9, <1>10, <1>11, <1>12, <1>13 DEF MainStep

(* Types are preserved by stop() in main or the handler.                   *)
LEMMA StopType == ASSUME TypeOK, NEW t \in {Main, Handler}, StopStep(t) PROVE TypeOK'
<1> USE DEF TypeOK, PcOK
<1>1. CASE StopReturns(t)
  BY <1>1 DEF StopReturns, AfterStop
<1>2. CASE StopQueue(t)
  <2>1. open' \in BOOLEAN
    BY <1>2 DEF StopQueue
  <2> QED
    BY <1>2, <2>1 DEF StopQueue
<1>3. CASE StopFlag(t)
  <2>1. lrunning' \in BOOLEAN
    BY <1>3 DEF StopFlag
  <2> QED
    BY <1>3, <2>1 DEF StopFlag
<1>4. CASE StopJoin(t)
  BY <1>4 DEF StopJoin, ListenerOver
<1>5. CASE StopStopVideo(t)
  BY <1>5 DEF StopStopVideo, StopVideo
<1>6. CASE StopStopWs(t)
  BY <1>6 DEF StopStopWs, StopWs
<1>7. CASE StopState(t)
  BY <1>7 DEF StopState
<1>8. CASE StopLoop(t)
  <2>1. loop' \in BOOLEAN
    BY <1>8 DEF StopLoop, AfterStop
  <2> QED
    BY <1>8, <2>1 DEF StopLoop, AfterStop
<1> QED
  BY <1>1, <1>2, <1>3, <1>4, <1>5, <1>6, <1>7, <1>8 DEF StopStep

(* Types are preserved by the listener's thread.                           *)
LEMMA ListenerType == ASSUME TypeOK, ListenerStep PROVE TypeOK'
<1> USE DEF TypeOK, PcOK
<1>1. CASE ListenerCheck
  BY <1>1 DEF ListenerCheck
<1>2. CASE PopNothing
  BY <1>2 DEF PopNothing
<1>3. CASE PopMessage
  <2>1. Head(queue) \in Commands /\ Tail(queue) \in Seq(Commands) /\ Len(Tail(queue)) <= QueueCap
    BY <1>3 DEF PopMessage
  <2>2. Head(queue).op \in {"start", "stop", "other"}
    BY <2>1 DEF Commands
  <2> QED
    BY <1>3, <2>1, <2>2 DEF PopMessage
<1>4. CASE OnStart
  BY <1>4 DEF OnStart
<1>5. CASE InitWsInvalid
  BY <1>5 DEF InitWsInvalid
<1>6. CASE InitWsBindFails
  BY <1>6 DEF InitWsBindFails
<1>7. CASE InitWs
  <2>1. port' \in Ports /\ bound' \subseteq Ports
    <3>1. cmd.port \in Ports \cup {None}
      BY DEF Commands
    <3> QED
      BY <1>7, <3>1 DEF InitWs
  <2> QED
    BY <1>7, <2>1 DEF InitWs
<1>8. CASE InitVideoFails
  BY <1>8 DEF InitVideoFails, MakeVideo
<1>9. CASE InitVideo
  BY <1>9 DEF InitVideo, MakeVideo
<1>10. CASE Launch
  BY <1>10 DEF Launch
<1>11. CASE SetRunning
  BY <1>11 DEF SetRunning
<1>12. CASE UndoVideo
  BY <1>12 DEF UndoVideo, StopVideo
<1>13. CASE UndoWs
  BY <1>13 DEF UndoWs, StopWs
<1>14. CASE OnStop
  BY <1>14 DEF OnStop
<1>15. CASE CmdVideo
  BY <1>15 DEF CmdVideo, StopVideo
<1>16. CASE CmdWs
  BY <1>16 DEF CmdWs, StopWs
<1>17. CASE SetWaiting
  BY <1>17 DEF SetWaiting
<1> QED
  BY <1>1, <1>2, <1>3, <1>4, <1>5, <1>6, <1>7, <1>8, <1>9, <1>10, <1>11, <1>12, <1>13, <1>14,
     <1>15, <1>16, <1>17 DEF ListenerStep

(* Types are preserved by signals, clients, and no step at all.            *)
LEMMA EnvType ==
  ASSUME TypeOK, Interrupt \/ InterruptListener \/ InterruptPipeline
         \/ (\E c \in Commands : Send(c)) \/ UNCHANGED vars
  PROVE  TypeOK'
<1> USE DEF TypeOK, PcOK
<1>1. CASE Interrupt
  BY <1>1 DEF Interrupt
<1>2. CASE InterruptListener
  BY <1>2 DEF InterruptListener
<1>3. CASE InterruptPipeline
  BY <1>3 DEF InterruptPipeline
<1>4. ASSUME NEW c \in Commands, Send(c) PROVE TypeOK'
  BY <1>4 DEF Send
<1>5. CASE UNCHANGED vars
  BY <1>5 DEF vars
<1> QED
  BY <1>1, <1>2, <1>3, <1>4, <1>5

(* Types are preserved by every step.                                      *)
LEMMA TypeStep == ASSUME TypeOK, [Next]_vars PROVE TypeOK'
  BY MainType, StopType, ListenerType, EnvType DEF Next, Ended

(* Types hold of every client, patient or not.                             *)
THEOREM TypeCorrect == Spec => []TypeOK
<1>1. TypeOK /\ [Next]_vars => TypeOK'
  BY TypeStep
<1> QED
  BY <1>1, InitType, PTL DEF Spec

-----------------------------------------------------------------------------
(* What holds of every client *)

(* Main has not started the listener's thread. *)
Unheard == {"start", "detach", "attach", "signal", "create", "run"}

(* Without a file there is no queue, and the destructor finds ERROR.       *)
NoQueueInv ==
  ~hasFile =>
    /\ pc[Main] \in {"start", "exit", "stop"} /\ pc[Handler] = "idle" /\ pc[Listener] = "none"
    /\ pc[Main] = "stop" => state = "ERROR"
    /\ ~caught /\ mql = "null"

(* Before there is a thread for it no command is read.                     *)
UnheardInv ==
  hasFile =>
    IF pc[Main] \in Unheard
    THEN /\ pc[Listener] = "none" /\ state = "STOPPED" /\ loop
         /\ pc[Handler] \in {"idle", "stop"}
    ELSE pc[Listener] # "none"

(* The only stop() that gets past its first line is the handler's first    *)
(* one: a later one would use the deleted listener.                        *)
OneStopInv ==
  hasFile =>
    /\ pc[Main] \notin {"stopFlag", "stopJoin"} \cup Joined
    /\ pc[Handler] \in {"stopFlag", "stopJoin"} \cup Joined => loop
    /\ ~loop \/ pc[Handler] \in Joined => mql = "deleted" /\ pc[Listener] = "ended"

(* Main leaves its loop only after that stop(), when nobody but main       *)
(* writes the state any more.                                              *)
LeaveInv ==
  hasFile =>
    /\ pc[Main] \in {"exit", "stop", "clear", "done"} => ~loop
    /\ pc[Main] \in {"stop", "clear", "done"} /\ state = "STOPPED" /\ written => file = "STOPPED"
    /\ pc[Main] \in {"clear", "done"} => state = "STOPPED"

EndInv == fate = "alive" => NoQueueInv /\ UnheardInv /\ OneStopInv /\ LeaveInv

(* The steps of main preserve it.                                          *)
LEMMA EndMain == ASSUME TypeOK, EndInv, MainStep PROVE EndInv'
<1> USE DEF TypeOK, PcOK, EndInv, NoQueueInv, UnheardInv, OneStopInv, LeaveInv, Unheard, Joined
<1>1. CASE MainStart
  BY <1>1 DEF MainStart, UpdateStatusFile
<1>2. CASE MainDetach
  BY <1>2 DEF MainDetach, Catch
<1>3. CASE MainAttach
  BY <1>3 DEF MainAttach, Catch
<1>4. CASE MainSignal
  BY <1>4 DEF MainSignal, Catch
<1>5. CASE MainCreate
  BY <1>5 DEF MainCreate
<1>6. CASE MainRun
  BY <1>6 DEF MainRun
<1>7. CASE MainRead
  BY <1>7 DEF MainRead
<1>8. CASE MainWait
  BY <1>8 DEF MainWait
<1>9. CASE MainLoop
  BY <1>9 DEF MainLoop
<1>10. CASE MainCompare
  BY <1>10 DEF MainCompare, Compare
<1>11. CASE MainUpdate
  BY <1>11 DEF MainUpdate, UpdateStatusFile
<1>12. CASE MainExit
  BY <1>12 DEF MainExit, UpdateStatusFile
<1>13. CASE MainClear
  BY <1>13 DEF MainClear
<1> QED
  BY <1>1, <1>2, <1>3, <1>4, <1>5, <1>6, <1>7, <1>8, <1>9, <1>10, <1>11, <1>12, <1>13 DEF MainStep

(* The steps of stop() preserve it, in main or in the handler.             *)
LEMMA EndStop == ASSUME TypeOK, EndInv, NEW t \in {Main, Handler}, StopStep(t) PROVE EndInv'
<1> USE DEF TypeOK, PcOK, EndInv, NoQueueInv, UnheardInv, OneStopInv, LeaveInv, Unheard, Joined
<1>1. CASE StopReturns(t)
  BY <1>1 DEF StopReturns, AfterStop
<1>2. CASE StopQueue(t)
  BY <1>2 DEF StopQueue
<1>3. CASE StopFlag(t)
  BY <1>3 DEF StopFlag
<1>4. CASE StopJoin(t)
  BY <1>4 DEF StopJoin, ListenerOver
<1>5. CASE StopStopVideo(t)
  BY <1>5 DEF StopStopVideo
<1>6. CASE StopStopWs(t)
  BY <1>6 DEF StopStopWs
<1>7. CASE StopState(t)
  BY <1>7 DEF StopState
<1>8. CASE StopLoop(t)
  BY <1>8 DEF StopLoop, AfterStop
<1> QED
  BY <1>1, <1>2, <1>3, <1>4, <1>5, <1>6, <1>7, <1>8 DEF StopStep

(* The steps of the listener's thread preserve it.                         *)
LEMMA EndListener == ASSUME TypeOK, EndInv, ListenerStep PROVE EndInv'
<1> USE DEF TypeOK, PcOK, EndInv, NoQueueInv, UnheardInv, OneStopInv, LeaveInv, Unheard, Joined
<1>1. CASE ListenerCheck
  BY <1>1 DEF ListenerCheck
<1>2. CASE PopNothing
  BY <1>2 DEF PopNothing
<1>3. CASE PopMessage
  <2>1. Head(queue) \in Commands
    BY <1>3 DEF PopMessage
  <2>2. Head(queue).op \in {"start", "stop", "other"}
    BY <2>1 DEF Commands
  <2> QED
    BY <1>3, <2>2 DEF PopMessage
<1>4. CASE OnStart
  BY <1>4 DEF OnStart
<1>5. CASE InitWsInvalid
  BY <1>5 DEF InitWsInvalid
<1>6. CASE InitWsBindFails
  BY <1>6 DEF InitWsBindFails
<1>7. CASE InitWs
  BY <1>7 DEF InitWs
<1>8. CASE InitVideoFails
  BY <1>8 DEF InitVideoFails, MakeVideo
<1>9. CASE InitVideo
  BY <1>9 DEF InitVideo, MakeVideo
<1>10. CASE Launch
  BY <1>10 DEF Launch
<1>11. CASE SetRunning
  BY <1>11 DEF SetRunning
<1>12. CASE UndoVideo
  BY <1>12 DEF UndoVideo
<1>13. CASE UndoWs
  BY <1>13 DEF UndoWs
<1>14. CASE OnStop
  BY <1>14 DEF OnStop
<1>15. CASE CmdVideo
  BY <1>15 DEF CmdVideo
<1>16. CASE CmdWs
  BY <1>16 DEF CmdWs
<1>17. CASE SetWaiting
  BY <1>17 DEF SetWaiting
<1> QED
  BY <1>1, <1>2, <1>3, <1>4, <1>5, <1>6, <1>7, <1>8, <1>9, <1>10, <1>11, <1>12, <1>13, <1>14,
     <1>15, <1>16, <1>17 DEF ListenerStep

(* Signals, clients that send at any time, and no step at all preserve it. *)
LEMMA EndEnv ==
  ASSUME TypeOK, EndInv,
         Interrupt \/ InterruptListener \/ InterruptPipeline
         \/ (\E c \in Commands : Send(c)) \/ UNCHANGED vars
  PROVE  EndInv'
<1> USE DEF TypeOK, PcOK, EndInv, NoQueueInv, UnheardInv, OneStopInv, LeaveInv, Unheard, Joined
<1>1. CASE Interrupt
  BY <1>1 DEF Interrupt
<1>2. CASE InterruptListener
  BY <1>2 DEF InterruptListener
<1>3. CASE InterruptPipeline
  BY <1>3 DEF InterruptPipeline
<1>4. ASSUME NEW c \in Commands, Send(c) PROVE EndInv'
  BY <1>4 DEF Send
<1>5. CASE UNCHANGED vars
  BY <1>5 DEF vars
<1> QED
  BY <1>1, <1>2, <1>3, <1>4, <1>5

(* It holds in every reachable state, whoever sends commands and when.     *)
THEOREM EndsInOrder == Spec => [](TypeOK /\ EndInv)
<1>1. Init => EndInv
  BY DEF Init, EndInv, NoQueueInv, UnheardInv, OneStopInv, LeaveInv, Unheard, Joined
<1>2. TypeOK /\ EndInv /\ [Next]_vars => EndInv'
  BY EndMain, EndStop, EndListener, EndEnv DEF Next, Ended
<1>3. TypeOK /\ [Next]_vars => TypeOK'
  BY TypeStep
<1> QED
  BY <1>1, <1>2, <1>3, InitType, PTL DEF Spec

(* A process that ended by itself says so in the status file, unless its   *)
(* last write of the file failed: of every client, since a stop() that     *)
(* finds another state than STOPPED in the destructor does not end well.   *)
THEOREM LastReport == Spec => []FinalReport
<1>1. TypeOK /\ EndInv => FinalReport
  BY DEF TypeOK, EndInv, NoQueueInv, LeaveInv, FinalReport
<1> QED
  BY <1>1, EndsInOrder, PTL

-----------------------------------------------------------------------------
(* The invariant *)

(* The invariant holds initially: nothing is set up.                       *)
LEMMA InitInv == Init => Inv
  BY DEF Init, Inv, NoFileInv, EarlyInv, UpInv, DownInv, PipeInv, BoundInv, Early, Joined,
       AllNull, VideoNull, Matches, Parts, Video, Ws

(* The invariant is preserved by main.                                     *)
LEMMA MainInv == ASSUME PatientSender, TypeOK, Inv, MainStep PROVE Inv'
<1> USE DEF TypeOK, PcOK, Inv, NoFileInv, EarlyInv, UpInv, DownInv, PipeInv, BoundInv, Early,
       Joined, AllNull, VideoNull, Matches, Parts, Video, Ws
<1>1. CASE MainStart
  BY <1>1 DEF MainStart, UpdateStatusFile
<1>2. CASE MainDetach
  BY <1>2 DEF MainDetach, Catch
<1>3. CASE MainAttach
  BY <1>3 DEF MainAttach, Catch
<1>4. CASE MainSignal
  BY <1>4 DEF MainSignal, Catch
<1>5. CASE MainCreate
  BY <1>5 DEF MainCreate
<1>6. CASE MainRun
  BY <1>6 DEF MainRun
<1>7. CASE MainRead
  BY <1>7 DEF MainRead
<1>8. CASE MainWait
  BY <1>8 DEF MainWait
<1>9. CASE MainLoop
  BY <1>9 DEF MainLoop
<1>10. CASE MainCompare
  BY <1>10 DEF MainCompare, Compare
<1>11. CASE MainUpdate
  BY <1>11 DEF MainUpdate, UpdateStatusFile
<1>12. CASE MainExit
  BY <1>12 DEF MainExit, UpdateStatusFile
<1>13. CASE MainClear
  BY <1>13 DEF MainClear
<1> QED
  BY <1>1, <1>2, <1>3, <1>4, <1>5, <1>6, <1>7, <1>8, <1>9, <1>10, <1>11, <1>12, <1>13 DEF MainStep

(* The invariant is preserved by stop() in main or the handler.            *)
LEMMA StopInv ==
  ASSUME PatientSender, TypeOK, Inv, NEW t \in {Main, Handler}, StopStep(t)
  PROVE  Inv'
<1> USE DEF TypeOK, PcOK, Inv, NoFileInv, EarlyInv, UpInv, DownInv, PipeInv, BoundInv, Early,
       Joined, AllNull, VideoNull, Matches, Parts, Video, Ws
<1>1. CASE StopReturns(t)
  BY <1>1 DEF StopReturns, AfterStop
<1>2. CASE StopQueue(t)
  BY <1>2 DEF StopQueue
<1>3. CASE StopFlag(t)
  BY <1>3 DEF StopFlag
<1>4. CASE StopJoin(t)
  BY <1>4 DEF StopJoin, ListenerOver
<1>5. CASE StopStopVideo(t)
  BY <1>5 DEF StopStopVideo, StopVideo
<1>6. CASE StopStopWs(t)
  BY <1>6 DEF StopStopWs, StopWs
<1>7. CASE StopState(t)
  BY <1>7 DEF StopState
<1>8. CASE StopLoop(t)
  BY <1>8 DEF StopLoop, AfterStop
<1> QED
  BY <1>1, <1>2, <1>3, <1>4, <1>5, <1>6, <1>7, <1>8 DEF StopStep

(* The invariant is preserved by the listener's thread.                    *)
LEMMA ListenerInv == ASSUME PatientSender, TypeOK, Inv, ListenerStep PROVE Inv'
<1> USE DEF TypeOK, PcOK, Inv, NoFileInv, EarlyInv, UpInv, DownInv, PipeInv, BoundInv, Early,
       Joined, AllNull, VideoNull, Matches, Parts, Video, Ws
<1>1. CASE ListenerCheck
  BY <1>1 DEF ListenerCheck
<1>2. CASE PopNothing
  BY <1>2 DEF PopNothing
<1>3. CASE PopMessage
  <2>1. Head(queue) \in Commands
    BY <1>3 DEF PopMessage
  <2>2. Head(queue).op \in {"start", "stop", "other"}
    BY <2>1 DEF Commands
  <2> QED
    BY <1>3, <2>2 DEF PopMessage
<1>4. CASE OnStart
  BY <1>4 DEF OnStart
<1>5. CASE InitWsInvalid
  BY <1>5 DEF InitWsInvalid
<1>6. CASE InitWsBindFails
  BY <1>6 DEF InitWsBindFails
<1>7. CASE InitWs
  BY <1>7 DEF InitWs
<1>8. CASE InitVideoFails
  BY <1>8 DEF InitVideoFails, MakeVideo
<1>9. CASE InitVideo
  BY <1>9 DEF InitVideo, MakeVideo
<1>10. CASE Launch
  BY <1>10 DEF Launch
<1>11. CASE SetRunning
  BY <1>11 DEF SetRunning
<1>12. CASE UndoVideo
  BY <1>12 DEF UndoVideo, StopVideo
<1>13. CASE UndoWs
  BY <1>13 DEF UndoWs, StopWs
<1>14. CASE OnStop
  BY <1>14 DEF OnStop
<1>15. CASE CmdVideo
  BY <1>15 DEF CmdVideo, StopVideo
<1>16. CASE CmdWs
  BY <1>16 DEF CmdWs, StopWs
<1>17. CASE SetWaiting
  BY <1>17 DEF SetWaiting
<1> QED
  BY <1>1, <1>2, <1>3, <1>4, <1>5, <1>6, <1>7, <1>8, <1>9, <1>10, <1>11, <1>12, <1>13, <1>14,
     <1>15, <1>16, <1>17 DEF ListenerStep

(* The invariant is preserved by signals, clients, and no step at all.     *)
LEMMA EnvInv ==
  ASSUME PatientSender, TypeOK, Inv,
         Interrupt \/ InterruptListener \/ InterruptPipeline
         \/ (\E c \in Commands : Send(c)) \/ UNCHANGED vars
  PROVE  Inv'
<1> USE DEF TypeOK, PcOK, Inv, NoFileInv, EarlyInv, UpInv, DownInv, PipeInv, BoundInv, Early,
       Joined, AllNull, VideoNull, Matches, Parts, Video, Ws
<1>1. CASE Interrupt
  BY <1>1 DEF Interrupt
<1>2. CASE InterruptListener
  BY <1>2 DEF InterruptListener
<1>3. CASE InterruptPipeline
  BY <1>3 DEF InterruptPipeline
<1>4. ASSUME NEW c \in Commands, Send(c) PROVE Inv'
  <2>1. file \in {"WAITTING", "RUNNING"}
    BY <1>4 DEF Send
  <2>2. hasFile /\ pc[Main] \notin Early
    BY <1>4, <2>1 DEF Send
  <2> QED
    BY <1>4, <2>2 DEF Send
<1>5. CASE UNCHANGED vars
  BY <1>5 DEF vars
<1> QED
  BY <1>1, <1>2, <1>3, <1>4, <1>5

(* The invariant is preserved by every step.                               *)
LEMMA InvStep == ASSUME PatientSender, TypeOK, Inv, [Next]_vars PROVE Inv'
  BY MainInv, StopInv, ListenerInv, EnvInv DEF Next, Ended

(* The inductive invariant holds in every reachable state.                 *)
THEOREM Inductive == ASSUME PatientSender PROVE Spec => [](TypeOK /\ Inv)
<1>1. Init => TypeOK /\ Inv
  BY InitType, InitInv
<1>2. TypeOK /\ Inv /\ [Next]_vars => (TypeOK /\ Inv)'
  BY TypeStep, InvStep
<1> QED
  BY <1>1, <1>2, PTL DEF Spec

-----------------------------------------------------------------------------
(* The theorems *)

(* Whatever is being started or stopped when a SIGINT comes, and although  *)
(* the destructor calls stop() again, only a SIGINT during another one, or *)
(* while the Application is already deleted, makes the process use a NULL  *)
(* or deleted pointer.                                                     *)
THEOREM PointersValid == ASSUME PatientSender PROVE Spec => OwnStepsSafe
<1>1. TypeOK /\ Inv /\ [Next]_vars =>
        [fate = "alive" /\ fate' \in {"nullDeref", "useAfterFree"} => ~hasFile \/ UntimelySignal]_vars
  <2> SUFFICES ASSUME TypeOK, Inv, Next, hasFile, fate = "alive", ~UntimelySignal
               PROVE  fate' \notin {"nullDeref", "useAfterFree"}
    OBVIOUS
  <2> USE DEF TypeOK, PcOK
  <2>1. CASE Ended
    BY <2>1 DEF Ended, vars
  <2>2. CASE MainStep
    BY <2>2 DEF MainStep, MainStart, MainDetach, MainAttach, MainSignal, Catch, MainCreate, MainRun,
       MainRead, MainWait, MainLoop, MainCompare, Compare, MainUpdate, MainExit, MainClear
  <2>3. ASSUME NEW t \in {Main, Handler}, StopStep(t) PROVE fate' \notin {"nullDeref", "useAfterFree"}
    <3>1. CASE StopQueue(t)
      <4>1. mql = "live"
        BY <3>1 DEF StopQueue, Inv, EarlyInv, UpInv, DownInv, Early, Joined
      <4> QED
        BY <3>1, <4>1 DEF StopQueue
    <3>2. CASE ~StopQueue(t)
      BY <2>3, <3>2 DEF StopStep, StopReturns, StopFlag, StopJoin, StopStopVideo, StopStopWs,
         StopState, StopLoop
    <3> QED
      BY <3>1, <3>2
  <2>4. CASE ListenerStep
    BY <2>4 DEF ListenerStep, ListenerCheck, PopNothing, PopMessage, OnStart, InitWsInvalid,
       InitWsBindFails, InitWs, InitVideoFails, InitVideo, MakeVideo, Launch, SetRunning, UndoVideo,
       UndoWs, OnStop, CmdVideo, CmdWs, SetWaiting
  <2>5. CASE Interrupt \/ InterruptListener \/ InterruptPipeline
    BY <2>5 DEF Interrupt, InterruptListener, InterruptPipeline, UntimelySignal
  <2>6. ASSUME NEW c \in Commands, Send(c) PROVE fate' \notin {"nullDeref", "useAfterFree"}
    BY <2>6 DEF Send
  <2> QED
    BY <2>1, <2>2, <2>3, <2>4, <2>5, <2>6 DEF Next
<1> QED
  BY <1>1, Inductive, PTL DEF Spec, OwnStepsSafe

(* The whole pipeline runs in RUNNING, and nothing is left of it in the    *)
(* other states, unless somebody is about to change that.                  *)
THEOREM StateTrue == ASSUME PatientSender PROVE Spec => []StateMatchesPipeline
<1>1. TypeOK /\ Inv => StateMatchesPipeline
  <2> SUFFICES ASSUME TypeOK, Inv, fate = "alive", ~Changing PROVE Matches
    BY DEF StateMatchesPipeline, Matches
  <2> USE DEF TypeOK, PcOK, Inv, NoFileInv, EarlyInv, UpInv, DownInv, PipeInv, Early, Joined, AllNull,
        Matches, Changing
  <2>1. CASE pc[Listener] = "initWs"
    BY <2>1
  <2>2. CASE pc[Listener] # "initWs"
    BY <2>2
  <2> QED
    BY <2>1, <2>2
<1> QED
  BY <1>1, Inductive, PTL

(* A pointer leads to every socket this process listens on.                *)
THEOREM ServerReachable == ASSUME PatientSender PROVE Spec => []NoServerLost
<1>1. Inv => NoServerLost
  BY DEF Inv, BoundInv, NoServerLost
<1> QED
  BY <1>1, Inductive, PTL

(* Once the loop is told to end, no command in progress, no further SIGINT *)
(* and not main itself brings the application back.                        *)
THEOREM StaysStopped == ASSUME PatientSender PROVE Spec => StoppedIsFinal
<1>1. TypeOK /\ Inv /\ [Next]_vars => [~loop => state' = state /\ res' = res /\ mql' = mql]_vars
  <2> SUFFICES ASSUME TypeOK, Inv, Next, ~loop
               PROVE  state' = state /\ res' = res /\ mql' = mql
    OBVIOUS
  <2> USE DEF TypeOK, PcOK
  <2>1. CASE Ended
    BY <2>1 DEF Ended, vars
  <2>2. CASE fate = "alive"
    <3>1. /\ hasFile /\ state = "STOPPED" /\ pc[Listener] = "ended" /\ pc[Handler] \in {"idle", "stop"}
          /\ pc[Main] \in {"loop", "compare", "update", "exit", "stop", "clear", "done"}
      BY <2>2 DEF Inv, NoFileInv, DownInv
    <3>2. CASE MainStep
      BY <3>1, <3>2 DEF MainStep, MainStart, MainDetach, MainAttach, MainSignal, Catch, MainCreate,
         MainRun, MainRead, MainWait, MainLoop, MainCompare, Compare, MainUpdate, MainExit,
         MainClear
    <3>3. ASSUME NEW t \in {Main, Handler}, StopStep(t)
          PROVE  state' = state /\ res' = res /\ mql' = mql
      BY <3>1, <3>3 DEF StopStep, StopReturns, StopQueue, StopFlag, StopJoin, StopStopVideo,
         StopStopWs, StopState, StopLoop
    <3>4. CASE ListenerStep
      BY <3>1, <3>4 DEF ListenerStep, ListenerCheck, PopNothing, PopMessage, OnStart, InitWsInvalid,
         InitWsBindFails, InitWs, InitVideoFails, InitVideo, MakeVideo, Launch, SetRunning, UndoVideo,
         UndoWs, OnStop, CmdVideo, CmdWs, SetWaiting
    <3>5. CASE \/ Interrupt \/ InterruptListener \/ InterruptPipeline
               \/ \E c \in Commands : Send(c)
      BY <3>5 DEF Interrupt, InterruptListener, InterruptPipeline, Send
    <3> QED
      BY <2>1, <3>2, <3>3, <3>4, <3>5 DEF Next
  <2>3. Ended \/ fate = "alive"
    BY DEF Next, MainStep, MainStart, MainDetach, MainAttach, MainSignal, Catch, MainCreate,
       MainRun, MainRead, MainWait, MainLoop, MainCompare, Compare, MainUpdate, MainExit, MainClear, StopStep,
       StopReturns, StopQueue, StopFlag, StopJoin, StopStopVideo, StopStopWs, StopState, StopLoop,
       ListenerStep, ListenerCheck, PopNothing, PopMessage, OnStart, InitWsInvalid,
       InitWsBindFails, InitWs, InitVideoFails, InitVideo, MakeVideo, Launch, SetRunning, UndoVideo,
       UndoWs, OnStop, CmdVideo, CmdWs, SetWaiting, Interrupt, InterruptListener, InterruptPipeline,
       Send
  <2> QED
    BY <2>1, <2>2, <2>3
<1> QED
  BY <1>1, Inductive, PTL DEF Spec, StoppedIsFinal
=============================================================================
