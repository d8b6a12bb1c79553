---------------------------- MODULE MessageQueue ----------------------------
(***************************************************************************)
(* The System V message queue behind one status file: the listener of      *)
(* src/headers/runtime/UnixMessageQueueListener.hpp, its system calls      *)
(* (src/src/runtime/UnixMessageQueueListener.cpp) and the clients that     *)
(* send commands (src/tests/sender-start.php, sender-stop.php).            *)
(*                                                                         *)
(* Several server processes may run on the same file, crash at any step    *)
(* and be started again; the kernel keeps the queue meanwhile.  A process  *)
(* has the thread that creates and stops the listener (pc) and the         *)
(* listener's own (lpc).  The key has at most one queue, so that a queue   *)
(* exists as long as its id is the registered one; 0 is no queue, or the   *)
(* -1 of a system call that failed.  The processes are allowed to remove   *)
(* each other's queues.                                                    *)
(* A definition D_Xyz is D with the bug Xyz put in, for the mutation runs. *)
(***************************************************************************)
EXTENDS Naturals, Sequences

CONSTANTS Servers, Clients,  \* processes that listen, and that send
          None,              \* nobody, no message
          Recreate,          \* the listener's constructor is told to recreate
          MaxQueues,         \* bound on the queues created
          MaxMessages,       \* bound on the messages sent
          MaxLaunches        \* bound on the processes started

(* A message has a number and fits the buffer (S + 1 bytes) or does not.   *)
Messages == [id : 1..MaxMessages, fits : BOOLEAN]

ASSUME ProcessesAssumption ==
  Servers \cap Clients = {} /\ None \notin Servers \cup Clients \cup Messages
ASSUME BoundsAssumption == {MaxQueues, MaxMessages, MaxLaunches} \subseteq Nat
ASSUME RecreateAssumption == Recreate \in BOOLEAN

Procs == Servers \cup Clients

VARIABLES
  registered,  \* the queue the key leads to, or 0
  content,     \* its messages, oldest first
  made,        \* queues created so far
  msqId,       \* per process: the id it holds
  pc, lpc,     \* per process, per listener thread: where it is
  running,     \* per server: the listener's LoopInside::running
  got,         \* per server: the message being handled
  sent,        \* messages sent so far
  handled,     \* the numbers of the messages that were handled
  born,        \* per server: the messages sent before it was started
  launches     \* processes started so far

kernel == <<registered, content, made>>
listener == <<lpc, running, got, handled>>
vars == <<kernel, msqId, pc, listener, sent, born, launches>>

TypeOK ==
  /\ registered \in 0..made /\ made \in 0..MaxQueues
  /\ content \in Seq(Messages) /\ (registered = 0 => content = <<>>)
  /\ msqId \in [Procs -> 0..made]
  /\ pc \in [Procs -> {"off", "probe", "probeRemove", "get", "remove", "create", "run",
                       "stopFlag", "stopJoin", "exists", "send"}]
  /\ lpc \in [Servers -> {"none", "check", "pop", "handle", "ended"}]
  /\ running \in [Servers -> BOOLEAN]
  /\ got \in [Servers -> Messages \cup {None}]
  /\ \A v \in Servers : got[v] # None <=> lpc[v] = "handle"
  /\ sent \in 0..MaxMessages /\ handled \subseteq 1..sent
  /\ born \in [Servers -> 0..sent] /\ launches \in 0..MaxLaunches

Init ==
  /\ registered = 0 /\ content = <<>> /\ made = 0
  /\ msqId = [p \in Procs |-> 0]
  /\ pc = [p \in Procs |-> IF p \in Servers THEN "off" ELSE "exists"]
  /\ lpc = [v \in Servers |-> "none"] /\ running = [v \in Servers |-> FALSE]
  /\ got = [v \in Servers |-> None]
  /\ sent = 0 /\ handled = {} /\ born = [v \in Servers |-> 0] /\ launches = 0

(* Process p steps and holds an id afterwards; the rest of it stays.       *)
Step(p, from, to, id) ==
  /\ pc[p] = from
  /\ pc' = [pc EXCEPT ![p] = to]
  /\ msqId' = [msqId EXCEPT ![p] = id]
  /\ UNCHANGED <<listener, sent, born, launches>>

-----------------------------------------------------------------------------
(* msgget and msgctl *)

(* IPC_CREAT | IPC_EXCL: a new queue, or -1 when the key has one.          *)
NewQueue ==
  /\ made < MaxQueues
  /\ made' = made + 1 /\ registered' = made' /\ content' = <<>>

CreateId_Shared == IF registered = 0 THEN made + 1 ELSE registered
CreateId == IF registered = 0 THEN made + 1 ELSE 0
CreateQueue == IF registered = 0 THEN NewQueue ELSE UNCHANGED kernel

(* IPC_RMID: nothing happens when the queue is gone already.               *)
RemoveQueue_ByKey(id) ==
  /\ registered' = 0 /\ content' = <<>>
  /\ UNCHANGED made
RemoveQueue(id) ==
  /\ registered' = IF id = registered THEN 0 ELSE registered
  /\ content' = IF id = registered THEN <<>> ELSE content
  /\ UNCHANGED made

-----------------------------------------------------------------------------
(* A server: UnixMessageQueueListener::init, run, destroyQueue, stop *)

Launch(v) ==
  /\ pc[v] = "off" /\ launches < MaxLaunches
  /\ pc' = [pc EXCEPT ![v] = "probe"]
  /\ born' = [born EXCEPT ![v] = sent]
  /\ launches' = launches + 1
  /\ UNCHANGED <<kernel, msqId, listener, sent>>

(* existsQueue: creates a queue that nobody may use, to see if it can. *)
Probe(v) ==
  /\ CreateQueue
  /\ Step(v, "probe", IF registered = 0 THEN "probeRemove" ELSE "get", CreateId)

ProbeRemove(v) == RemoveQueue(msqId[v]) /\ Step(v, "probeRemove", "create", 0)

(* getQueue: -1 when the queue was removed in between. *)
GetQueue_Kept(v) == Step(v, "get", "run", registered) /\ UNCHANGED kernel
GetQueue(v) ==
  /\ Step(v, "get", IF Recreate THEN "remove" ELSE "run", registered)
  /\ UNCHANGED kernel

RemoveOld(v) == RemoveQueue(msqId[v]) /\ Step(v, "remove", "create", msqId[v])

Create(v) == CreateQueue /\ Step(v, "create", "run", CreateId)

Run(v) ==
  /\ pc[v] = "run" /\ lpc[v] = "none"
  /\ lpc' = [lpc EXCEPT ![v] = "check"]
  /\ running' = [running EXCEPT ![v] = TRUE]
  /\ UNCHANGED <<kernel, msqId, pc, got, handled, sent, born, launches>>

(* Application::stop: destroyQueue, the flag, the join. *)
DestroyQueue(v) ==
  /\ lpc[v] # "none" /\ RemoveQueue(msqId[v])
  /\ Step(v, "run", "stopFlag", msqId[v])

StopFlag(v) ==
  /\ pc[v] = "stopFlag"
  /\ pc' = [pc EXCEPT ![v] = "stopJoin"]
  /\ running' = [running EXCEPT ![v] = FALSE]
  /\ UNCHANGED <<kernel, msqId, lpc, got, handled, sent, born, launches>>

(* The process ends, after stop() joined the listener or in a crash.       *)
Exit(v) ==
  /\ pc' = [pc EXCEPT ![v] = "off"]
  /\ lpc' = [lpc EXCEPT ![v] = "none"]
  /\ running' = [running EXCEPT ![v] = FALSE]
  /\ got' = [got EXCEPT ![v] = None]
  /\ msqId' = [msqId EXCEPT ![v] = 0] /\ born' = [born EXCEPT ![v] = 0]
  /\ UNCHANGED <<kernel, handled, sent, launches>>
StopJoin(v) == pc[v] = "stopJoin" /\ lpc[v] = "ended" /\ Exit(v)
Crash(v)    == pc[v] # "off" /\ Exit(v)

-----------------------------------------------------------------------------
(* The listener's thread: while(running) around loop() *)

Listen(v, from, to) ==
  /\ lpc[v] = from
  /\ lpc' = [lpc EXCEPT ![v] = to]
  /\ UNCHANGED <<msqId, pc, running, sent, born, launches>>

Check_Once(v) ==
  /\ Listen(v, "check", IF running[v] /\ handled = {} THEN "pop" ELSE "ended")
  /\ UNCHANGED <<kernel, got, handled>>
Check(v) ==
  /\ Listen(v, "check", IF running[v] THEN "pop" ELSE "ended")
  /\ UNCHANGED <<kernel, got, handled>>

(* msgrcv takes the oldest message, unless it is too long for the buffer:  *)
(* then it fails and leaves the message where it is.                       *)
Receivable(v) == msqId[v] = registered /\ content # <<>> /\ Head(content).fits

Pop(v) ==
  /\ Receivable(v) /\ Listen(v, "pop", "handle")
  /\ got' = [got EXCEPT ![v] = Head(content)]
  /\ content' = Tail(content)
  /\ UNCHANGED <<registered, made, handled>>

PopFails(v) ==
  /\ ~Receivable(v) /\ Listen(v, "pop", "check")
  /\ UNCHANGED <<kernel, got, handled>>

(* The callback. *)
Handle_Kept(v) ==
  /\ Listen(v, "handle", "check")
  /\ handled' = handled \cup {got[v].id}
  /\ UNCHANGED <<kernel, got>>
Handle(v) ==
  /\ Listen(v, "handle", "check")
  /\ handled' = handled \cup {got[v].id}
  /\ got' = [got EXCEPT ![v] = None]
  /\ UNCHANGED kernel

-----------------------------------------------------------------------------
(* A client: msg_queue_exists, msg_get_queue, msg_send *)

Exists(c) ==
  /\ registered # 0 /\ Step(c, "exists", "get", 0)
  /\ UNCHANGED kernel

(* msg_get_queue creates the queue if it is gone by now. *)
ClientGet(c) ==
  /\ Step(c, "get", "send", IF registered = 0 THEN CreateId ELSE registered)
  /\ CreateQueue

Send(c, fits) ==
  /\ pc[c] = "send" /\ msqId[c] = registered /\ sent < MaxMessages
  /\ sent' = sent + 1
  /\ content' = Append(content, [id |-> sent', fits |-> fits])
  /\ pc' = [pc EXCEPT ![c] = "exists"]
  /\ msqId' = [msqId EXCEPT ![c] = 0]
  /\ UNCHANGED <<registered, made, listener, born, launches>>

(* The queue was removed, it is the probe, or the client gave up. *)
SendFails(c) == Step(c, "send", "exists", 0) /\ UNCHANGED kernel

-----------------------------------------------------------------------------
ServerStep(v) ==
  \/ Launch(v) \/ Probe(v) \/ ProbeRemove(v) \/ GetQueue(v) \/ RemoveOld(v) \/ Create(v)
  \/ Run(v) \/ DestroyQueue(v) \/ StopFlag(v) \/ StopJoin(v) \/ Crash(v)
ListenerStep(v) == Check(v) \/ Pop(v) \/ PopFails(v) \/ Handle(v)
ClientStep(c) == Exists(c) \/ ClientGet(c) \/ SendFails(c) \/ \E fits \in BOOLEAN : Send(c, fits)

(* No process is running, and none is started any more. *)
Rest == (\A v \in Servers : pc[v] = "off") /\ UNCHANGED vars

Next == \/ \E v \in Servers : ServerStep(v) \/ ListenerStep(v)
        \/ \E c \in Clients : ClientStep(c)
        \/ Rest

Spec == Init /\ [][Next]_vars

(* A listener's thread that can run does; nobody has to start, stop or     *)
(* send anything, and any process may crash.  Nor does the callback have   *)
(* to return: a command that stops the pipeline may wait for a silent      *)
(* client for ever (see Application).                                      *)
FairSpec == Spec /\ \A v \in Servers : WF_vars(ListenerStep(v) /\ lpc[v] # "handle")
CallbackBlocks(v) == <>[](lpc[v] = "handle")

-----------------------------------------------------------------------------
(* Properties *)

(* Server v receives what is sent to the key. *)
Hears(v) == pc[v] = "run" /\ lpc[v] # "none" /\ msqId[v] = registered /\ registered # 0

(* A server never handles a command that was sent before it was started,   *)
(* to itself before a crash or to another one on the same file.            *)
NoStaleCommand ==
  Recreate => \A v \in Servers : got[v] # None => got[v].id > born[v]

(* Two servers never share a queue: each command has one receiver.         *)
OneListener ==
  Recreate => \A v, w \in Servers : Hears(v) /\ Hears(w) => v = w

(* A server that listens loses its queue only by its own stop or to a      *)
(* server that is starting: not to one that stops or probes, and not to a  *)
(* client.                                                                 *)
OnlyTakeoverSilences ==
  [][\A v \in Servers :
       Hears(v) /\ pc'[v] = "run" /\ registered' # registered
         => \E w \in Servers \ {v} : pc[w] = "remove"]_vars

(* A message in the queue of a server that listens is handled, unless one  *)
(* that does not fit is ahead of it, or the server stops, crashes, loses   *)
(* its queue or hangs in another command first.                            *)
Ahead(n) == {i \in 1..Len(content) : content[i].id <= n}
CommandHandled ==
  \A v \in Servers : CallbackBlocks(v) \/
    \A n \in 1..MaxMessages :
      (Hears(v) /\ (\E i \in Ahead(n) : content[i].id = n)
                /\ (\A i \in Ahead(n) : content[i].fits))
        ~> (n \in handled \/ ~Hears(v))

(* "Waitting for command...": a server that waits for commands is the one  *)
(* that clients reach.  The code breaks this even for a single server: a   *)
(* client that found the old queue or the probe creates a queue of its own *)
(* when it opens it after the removal; createQueue then fails, the -1 is   *)
(* kept as the queue's id, and the listener is deaf for ever.              *)
WaitingIsReachable == \A v \in Servers : pc[v] = "run" => msqId[v] = registered
=============================================================================
