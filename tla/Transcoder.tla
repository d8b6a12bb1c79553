----------------------------- MODULE Transcoder -----------------------------
(***************************************************************************)
(* The Transcoder (src/src/av/Transcoder.cpp): a decoder task reads        *)
(* packets, decodes every skipFrames-th of them and pushes the frames into *)
(* the filter graph; an encoder task pops them and encodes them.           *)
(*                                                                         *)
(*   Dec    decoderTask, with VideoInput::read, push and decode;           *)
(*   Enc    encoderTask, with VideoOutput::encode;                         *)
(*   Ctl    the thread that inits, runs, stops and deletes the Transcoder. *)
(*                                                                         *)
(* A packet is its number, and so is the frame made of it.  libav is       *)
(* outside src/: any of its calls may fail where the code has a case for   *)
(* the failure.  The device never hands out a packet of another stream.    *)
(* A definition D_Xyz is D with the bug Xyz put in, for the mutation runs. *)
(***************************************************************************)
EXTENDS Naturals, Sequences

CONSTANTS MaxPackets,  \* bound on the packets the device delivers
          Rates,       \* decoder's frame rate divided by the encoder's: the cases
          Delay        \* packets the decoder may hold before it gives a frame

MaxUint16 == 65535   \* skipFrames and skippedFrames are of 16 bits

ASSUME SkipAssumption == /\ MaxPackets \in Nat /\ Delay \in Nat
                         /\ Rates \subseteq 0..MaxUint16

Dec == "dec"
Enc == "enc"
Ctl == "ctl"
Packets == 1..MaxPackets

VARIABLES
  running,    \* per task: its Thread::running
  readError,  \* _readError
  skipFrames, \* skipFrames
  skipped,    \* skippedFrames
  next,       \* number of the last packet read
  held,       \* packets inside the decoder
  decFrame,   \* the frame being passed to onDecoded, or 0
  graph,      \* frames inside the filter graph
  gmtx,       \* owner of filterGraphMtx, or "none"
  encFrame,   \* the encoder task's frame, or 0
  encoded,    \* frames given to the encoder, in order
  lost,       \* packets and frames that were dropped
  pc          \* per thread: where it is

reading  == <<readError, skipFrames, skipped, next>>
decoding == <<held, decFrame>>
encoding == <<encFrame, encoded>>
vars == <<running, reading, decoding, graph, gmtx, encoding, lost, pc>>

DecLabels == {"off", "check", "read", "push", "receive", "lock", "add", "unlock",
              "count", "ended"}
EncLabels == {"off", "check", "lock", "pop", "unlock", "encode", "ended"}
CtlLabels == {"new", "ready", "started", "on", "decJoin", "encFlag", "encJoin",
              "stopped", "halfInit", "crashed", "deleted"}

TypeOK ==
  /\ running \in [{Dec, Enc} -> BOOLEAN] /\ readError \in BOOLEAN
  /\ skipFrames \in Rates \cup {0}
  /\ skipped \in 0..MaxUint16 /\ (skipped < skipFrames \/ skipped = 0)
  /\ next \in 0..MaxPackets
  /\ held \in Seq(Packets) /\ Len(held) <= Delay + 1
  /\ decFrame \in 0..MaxPackets /\ graph \in Seq(Packets)
  /\ gmtx \in {Dec, Enc, "none"}
  /\ encFrame \in 0..MaxPackets /\ encoded \in Seq(Packets)
  /\ lost \subseteq Packets
  /\ DOMAIN pc = {Dec, Enc, Ctl}
  /\ pc[Dec] \in DecLabels /\ pc[Enc] \in EncLabels /\ pc[Ctl] \in CtlLabels

Init ==
  /\ running = [t \in {Dec, Enc} |-> FALSE] /\ readError = TRUE
  /\ skipFrames = 0 /\ skipped = 0 /\ next = 0
  /\ held = <<>> /\ decFrame = 0
  /\ graph = <<>> /\ gmtx = "none"
  /\ encFrame = 0 /\ encoded = <<>> /\ lost = {}
  /\ pc = [t \in {Dec, Enc, Ctl} |-> IF t = Ctl THEN "new" ELSE "off"]

Step(t, from, to) == pc[t] = from /\ pc' = [pc EXCEPT ![t] = to]

Lock(t)   == gmtx = "none" /\ gmtx' = t
Unlock(t) == gmtx = t /\ gmtx' = "none"
NumbersIn(s) == {s[i] : i \in DOMAIN s}

(* Steps of which nothing is seen, or which only take or leave the mutex.  *)
Quiet(t, from, to) ==
  Step(t, from, to) /\ UNCHANGED <<running, reading, decoding, graph, gmtx, encoding, lost>>
Acquire(t, from, to) ==
  Lock(t) /\ Step(t, from, to) /\ UNCHANGED <<running, reading, decoding, graph, encoding, lost>>
Release(t, from, to) ==
  Unlock(t) /\ Step(t, from, to) /\ UNCHANGED <<running, reading, decoding, graph, encoding, lost>>

-----------------------------------------------------------------------------
(* Ctl *)

(* init: decoder and encoder, the filter graph, skipFrames, the tasks. *)
InitOk ==
  /\ Step(Ctl, "new", "ready")
  /\ skipFrames' \in Rates
  /\ UNCHANGED <<running, readError, skipped, next, decoding, graph, gmtx, encoding, lost>>

(* The decoder's or the encoder's init throws: nothing to stop or flush. *)
InitFails == Quiet(Ctl, "new", "stopped")

(* FilterGraph::init throws: there is a graph, but it is not connected. *)
GraphFails == Quiet(Ctl, "new", "halfInit")

Start(t, from, to) ==
  /\ pc[Ctl] = from /\ pc' = [pc EXCEPT ![Ctl] = to, ![t] = "check"]
  /\ running' = [running EXCEPT ![t] = TRUE]

RunDecoder ==
  /\ Start(Dec, "ready", "started")
  /\ readError' = FALSE
  /\ UNCHANGED <<skipFrames, skipped, next, decoding, graph, gmtx, encoding, lost>>

RunEncoder ==
  /\ Start(Enc, "started", "on")
  /\ UNCHANGED <<reading, decoding, graph, gmtx, encoding, lost>>

(* stop: Thread::stop(true) of the decoder task, then of the encoder task. *)
StopDecoder_Forgotten == Quiet(Ctl, "on", "encFlag")
StopDecoder ==
  /\ Step(Ctl, "on", "decJoin")
  /\ running' = [running EXCEPT ![Dec] = FALSE]
  /\ UNCHANGED <<reading, decoding, graph, gmtx, encoding, lost>>

JoinDecoder == pc[Dec] = "ended" /\ Quiet(Ctl, "decJoin", "encFlag")

StopEncoder_Forgotten == Quiet(Ctl, "encFlag", "encJoin")
StopEncoder ==
  /\ Step(Ctl, "encFlag", "encJoin")
  /\ running' = [running EXCEPT ![Enc] = FALSE]
  /\ UNCHANGED <<reading, decoding, graph, gmtx, encoding, lost>>

JoinEncoder == pc[Enc] = "ended" /\ Quiet(Ctl, "encJoin", "stopped")

(* The destructor flushes the graph, without filterGraphMtx and without an *)
(* output: what is left in it, and in the decoder, is dropped.             *)
Delete ==
  /\ Step(Ctl, "stopped", "deleted")
  /\ readError' = TRUE
  /\ graph' = <<>> /\ held' = <<>>
  /\ lost' = lost \cup NumbersIn(graph) \cup NumbersIn(held)
  /\ UNCHANGED <<running, skipFrames, skipped, next, decFrame, gmtx, encoding>>

(* flush() on a graph that has no source, or whose parts are not connected *)
(* yet, is undefined; on one that was only not configured it does nothing. *)
DeleteHalfInit ==
  /\ \E to \in {"crashed", "deleted"} : Step(Ctl, "halfInit", to)
  /\ readError' = TRUE
  /\ UNCHANGED <<running, skipFrames, skipped, next, decoding, graph, gmtx, encoding, lost>>

-----------------------------------------------------------------------------
(* Dec *)

(* LoopTask's while(running), and the lambda's return if there was an error. *)
DecCheck_IgnoresError == Quiet(Dec, "check", IF running[Dec] THEN "read" ELSE "ended")
DecCheck ==
  Quiet(Dec, "check", IF ~running[Dec] THEN "ended" ELSE IF readError THEN "check" ELSE "read")

ReadPacket ==
  /\ next < MaxPackets
  /\ Step(Dec, "read", IF skipped = 0 THEN "push" ELSE "count")
  /\ next' = next + 1
  /\ UNCHANGED <<running, readError, skipFrames, skipped, decoding, graph, gmtx, encoding, lost>>

(* End of file, or EAGAIN. *)
ReadNothing ==
  /\ Step(Dec, "read", "count")
  /\ readError' = TRUE
  /\ UNCHANGED <<running, skipFrames, skipped, next, decoding, graph, gmtx, encoding, lost>>

ReadThrows ==
  /\ Step(Dec, "read", "check")
  /\ readError' = TRUE
  /\ UNCHANGED <<running, skipFrames, skipped, next, decoding, graph, gmtx, encoding, lost>>

(* The decoder was drained after the last packet, so it takes this one. *)
PushPacket ==
  /\ Step(Dec, "push", "receive")
  /\ held' = Append(held, next)
  /\ UNCHANGED <<running, reading, decFrame, graph, gmtx, encoding, lost>>

PushThrows ==
  /\ Step(Dec, "push", "check")
  /\ readError' = TRUE /\ lost' = lost \cup {next}
  /\ UNCHANGED <<running, skipFrames, skipped, next, decoding, graph, gmtx, encoding>>

(* decode: avcodec_receive_frame until it wants another packet. *)
ReceiveFrame ==
  /\ held # <<>> /\ Step(Dec, "receive", "lock")
  /\ decFrame' = Head(held) /\ held' = Tail(held)
  /\ UNCHANGED <<running, reading, graph, gmtx, encoding, lost>>

ReceiveNothing == Len(held) <= Delay /\ Quiet(Dec, "receive", "count")

ReceiveThrows ==
  /\ held # <<>> /\ Step(Dec, "receive", "check")
  /\ readError' = TRUE
  /\ held' = Tail(held) /\ lost' = lost \cup {Head(held)}
  /\ UNCHANGED <<running, skipFrames, skipped, next, decFrame, graph, gmtx, encoding>>

(* onDecoded; the graph may refuse the frame, and nobody looks at that. *)
DecLock == Acquire(Dec, "lock", "add")

AddFrame_Front ==
  /\ Step(Dec, "add", "unlock")
  /\ graph' = <<decFrame>> \o graph /\ decFrame' = 0
  /\ UNCHANGED <<running, reading, held, gmtx, encoding, lost>>
AddFrame ==
  /\ Step(Dec, "add", "unlock")
  /\ graph' = Append(graph, decFrame) /\ decFrame' = 0
  /\ UNCHANGED <<running, reading, held, gmtx, encoding, lost>>

AddFrameFails ==
  /\ Step(Dec, "add", "unlock")
  /\ lost' = lost \cup {decFrame} /\ decFrame' = 0
  /\ UNCHANGED <<running, reading, held, graph, gmtx, encoding>>

DecUnlock == Release(Dec, "unlock", "receive")

(* skippedFrames++, back to 0 at skipFrames. *)
Count_OffByOne ==
  /\ Step(Dec, "count", "check")
  /\ skipped' = IF skipped >= skipFrames THEN 0 ELSE skipped + 1
  /\ UNCHANGED <<running, readError, skipFrames, next, decoding, graph, gmtx, encoding, lost>>
Count ==
  /\ Step(Dec, "count", "check")
  /\ skipped' = IF skipped + 1 >= skipFrames THEN 0 ELSE skipped + 1
  /\ UNCHANGED <<running, readError, skipFrames, next, decoding, graph, gmtx, encoding, lost>>

-----------------------------------------------------------------------------
(* Enc *)

EncCheck == Quiet(Enc, "check", IF running[Enc] THEN "lock" ELSE "ended")

EncLock == Acquire(Enc, "lock", "pop")

PopFrame ==
  /\ graph # <<>> /\ Step(Enc, "pop", "unlock")
  /\ encFrame' = Head(graph) /\ graph' = Tail(graph)
  /\ UNCHANGED <<running, reading, decoding, gmtx, encoded, lost>>

PopNothing == graph = <<>> /\ Quiet(Enc, "pop", "unlock")

(* while(hasFrame) is left when there was none. *)
EncUnlock_Forgotten == Quiet(Enc, "unlock", IF encFrame = 0 THEN "check" ELSE "encode")
EncUnlock == Release(Enc, "unlock", IF encFrame = 0 THEN "check" ELSE "encode")

Encode ==
  /\ Step(Enc, "encode", "lock")
  /\ encoded' = Append(encoded, encFrame) /\ encFrame' = 0
  /\ UNCHANGED <<running, reading, decoding, graph, gmtx, lost>>

(* The encoder refuses the frame or the output fails: the exception is     *)
(* dropped and the next frame is tried.                                    *)
EncodeFails ==
  /\ Step(Enc, "encode", "lock")
  /\ lost' = lost \cup {encFrame} /\ encFrame' = 0
  /\ UNCHANGED <<running, reading, decoding, graph, gmtx, encoded>>

-----------------------------------------------------------------------------
Rest == pc[Ctl] \in {"deleted", "crashed"} /\ UNCHANGED vars

Setup    == InitOk \/ InitFails \/ GraphFails \/ RunDecoder \/ RunEncoder
Stopping == JoinDecoder \/ StopEncoder \/ JoinEncoder \/ Delete \/ DeleteHalfInit
Reading  == DecCheck \/ ReadPacket \/ ReadNothing \/ ReadThrows
Decoding == PushPacket \/ PushThrows \/ ReceiveFrame \/ ReceiveNothing \/ ReceiveThrows
            \/ DecLock \/ AddFrame \/ AddFrameFails \/ DecUnlock \/ Count
Encoding == EncCheck \/ EncLock \/ PopFrame \/ PopNothing \/ EncUnlock
            \/ Encode \/ EncodeFails

Next == Setup \/ StopDecoder \/ Stopping \/ Reading \/ Decoding \/ Encoding \/ Rest

Spec == Init /\ [][Next]_vars

(* Every thread that can run does.  av_read_frame returns, with a packet   *)
(* or with an error.  The decoder does not hold a frame back for ever; and *)
(* a thread that waits for filterGraphMtx gets it, though the other one    *)
(* takes it again and again.                                               *)
Fairness ==
  /\ WF_vars(Setup) /\ WF_vars(Stopping)
  /\ WF_vars(Reading \/ Decoding) /\ WF_vars(Encoding)
  /\ SF_vars(DecLock) /\ SF_vars(EncLock)

FairSpec == Spec /\ Fairness

-----------------------------------------------------------------------------
(* Properties *)

One(frame) == IF frame = 0 THEN <<>> ELSE <<frame>>

(* Everything between the encoder and the device, first in first.          *)
Pipeline == encoded \o One(encFrame) \o graph \o One(decFrame) \o held

(* Frames are encoded in the order of their packets, none twice, whatever  *)
(* the two tasks do meanwhile.                                             *)
InOrder == \A i, j \in 1..Len(Pipeline) : i < j => Pipeline[i] < Pipeline[j]

(* The packets chosen by skipFrames: the first and then every              *)
(* skipFrames-th; every packet when the ratio of the rates rounds to 0.    *)
Ratio == IF skipFrames = 0 THEN 1 ELSE skipFrames
Chosen(n) == {k \in 1..n : (k - 1) % Ratio = 0}

(* The packets read so far that are past avcodec_send_packet. *)
Pushed == IF pc[Dec] = "push" THEN next - 1 ELSE next

(* Each chosen packet is in one place of the pipeline or was dropped by a  *)
(* call that failed, and no other packet is anywhere.                      *)
ChosenAccountedFor ==
  /\ NumbersIn(Pipeline) \cup lost = Chosen(Pushed)
  /\ NumbersIn(Pipeline) \cap lost = {}

(* The filter graph is used by one thread at a time.  The tasks hold       *)
(* filterGraphMtx for that; the destructor does not, and relies on stop()  *)
(* having joined both tasks.                                               *)
GraphHasOneUser ==
  /\ ~(pc[Dec] = "add" /\ pc[Enc] = "pop")
  /\ pc[Ctl] \in {"stopped", "deleted"} =>
       pc[Dec] \in {"off", "ended"} /\ pc[Enc] \in {"off", "ended"}

(* An error is final: from the first read that fails, EAGAIN included, to  *)
(* the next run(), no packet is read.                                      *)
ErrorIsFinal == [][readError /\ pc[Ctl] # "ready" => readError' /\ next' = next]_vars

(* A frame in the graph is encoded or dropped, unless the Transcoder is    *)
(* stopped before.                                                         *)
GraphDrains ==
  \A n \in Packets :
    n \in NumbersIn(graph) ~> (n \in NumbersIn(encoded) \cup lost \/ pc[Ctl] = "encJoin")

(* stop() returns: both tasks end, though the encoder task's inner loop    *)
(* never looks at running.                                                 *)
StopTerminates == pc[Ctl] = "decJoin" ~> pc[Ctl] = "deleted"
=============================================================================
