-------------------------- MODULE BroadcastProofs --------------------------
(***************************************************************************)
(* Theorems about Broadcast, for any number of streams and of chunks: what *)
(* the queue and the Servers may hold, and that Broadcast implements       *)
(* ChunkStream.  One invariant carries them all: Inv, whose parts say what *)
(* each variable is when Ctl is at a given place.                          *)
(***************************************************************************)
EXTENDS Broadcast, SequenceTheorems, TLAPS

-----------------------------------------------------------------------------
(* Sequences of chunks *)

(* A function on the first numbers is a sequence. *)
LEMMA FunctionIsSeq ==
  ASSUME NEW S, NEW n \in Nat, NEW f \in [1..n -> S]
  PROVE  f \in Seq(S) /\ Len(f) = n
<1>1. f \in Seq(S)
  BY SeqDef
<1> QED
  BY <1>1, LenProperties

(* The numbers of a sequence of chunks are a sequence as long as it.       *)
LEMMA NumbersType ==
  ASSUME NEW s \in Seq(Chunks)
  PROVE  /\ Numbers(s) \in Seq(Nat) /\ Len(Numbers(s)) = Len(s)
         /\ \A i \in 1..Len(s) : Numbers(s)[i] = s[i][2]
<1>1. \A i \in 1..Len(s) : s[i][2] \in Nat
  BY DEF Chunks
<1>2. Numbers(s) \in [1..Len(s) -> Nat]
  BY <1>1 DEF Numbers
<1>3. Len(s) \in Nat
  OBVIOUS
<1>4. Numbers(s) \in Seq(Nat) /\ Len(Numbers(s)) = Len(s)
  BY <1>2, <1>3, FunctionIsSeq
<1> QED
  BY <1>4 DEF Numbers

(* The numbers of nothing. *)
LEMMA NumbersEmpty == Numbers(<<>>) = <<>>
<1>1. <<>> \in Seq(Chunks) /\ Len(<<>>) = 0
  OBVIOUS
<1>2. Numbers(<<>>) \in Seq(Nat) /\ Len(Numbers(<<>>)) = 0
  BY <1>1, NumbersType
<1> QED
  BY <1>2, EmptySeq

(* The number of one chunk. *)
LEMMA NumbersOne == ASSUME NEW c \in Chunks PROVE Numbers(<<c>>) = <<c[2]>>
<1> DEFINE s == <<c>>
<1>1. s \in Seq(Chunks) /\ Len(s) = 1 /\ s[1] = c
  OBVIOUS
<1>2. <<c[2]>> \in Seq(Nat) /\ Len(<<c[2]>>) = 1 /\ <<c[2]>>[1] = c[2]
  BY DEF Chunks
<1> HIDE DEF s
<1>3. Numbers(s) \in Seq(Nat) /\ Len(Numbers(s)) = 1 /\ Numbers(s)[1] = c[2]
  BY <1>1, NumbersType
<1>4. Numbers(s) = <<c[2]>>
  BY <1>2, <1>3, SeqEqual
<1> QED
  BY <1>4 DEF s

(* A chunk pushed at the end of the queue is the last number. *)
LEMMA NumbersAppend ==
  ASSUME NEW s \in Seq(Chunks), NEW c \in Chunks
  PROVE  Numbers(Append(s, c)) = Append(Numbers(s), c[2])
<1> DEFINE t == Append(s, c)
           m == Append(Numbers(s), c[2])
<1>1. /\ t \in Seq(Chunks) /\ Len(t) = Len(s) + 1 /\ Len(s) \in Nat
      /\ \A i \in 1..Len(s) : t[i] = s[i]
      /\ t[Len(s) + 1] = c
  BY AppendProperties
<1>2. /\ Numbers(s) \in Seq(Nat) /\ Len(Numbers(s)) = Len(s) /\ c[2] \in Nat
      /\ \A i \in 1..Len(s) : Numbers(s)[i] = s[i][2]
  BY NumbersType DEF Chunks
<1>3. /\ m \in Seq(Nat) /\ Len(m) = Len(s) + 1
      /\ \A i \in 1..Len(s) : m[i] = Numbers(s)[i]
      /\ m[Len(s) + 1] = c[2]
  BY <1>2, AppendProperties
<1> HIDE DEF t, m
<1>4. Numbers(t) \in Seq(Nat) /\ Len(Numbers(t)) = Len(t) /\ \A i \in 1..Len(t) : Numbers(t)[i] = t[i][2]
  BY <1>1, NumbersType
<1>5. \A i \in 1..Len(t) : Numbers(t)[i] = m[i]
  <2> TAKE i \in 1..Len(t)
  <2>1. CASE i \in 1..Len(s)
    <3>1. Numbers(t)[i] = t[i][2] /\ t[i] = s[i]
      BY <1>1, <1>4, <2>1
    <3>2. m[i] = s[i][2]
      BY <1>2, <1>3, <2>1
    <3> QED
      BY <3>1, <3>2
  <2>2. CASE i = Len(s) + 1
    BY <1>1, <1>3, <1>4, <2>2
  <2> QED
    BY <1>1, <2>1, <2>2
<1>6. Numbers(t) = m
  BY <1>1, <1>3, <1>4, <1>5, SeqEqual
<1> QED
  BY <1>6 DEF t, m

(* The first chunk of the queue is the first number. *)
LEMMA NumbersTail ==
  ASSUME NEW s \in Seq(Chunks), s # <<>>
  PROVE  Numbers(s) = <<Head(s)[2]>> \o Numbers(Tail(s))
<1>1. Head(s) = s[1] /\ Head(s) \in Chunks /\ Tail(s) \in Seq(Chunks) /\ Len(Tail(s)) = Len(s) - 1
      /\ Len(s) \in Nat \ {0} /\ \A i \in 1..Len(Tail(s)) : Tail(s)[i] = s[i + 1]
  BY HeadTailProperties, EmptySeq
<1> DEFINE t == Tail(s)
           one == <<Head(s)[2]>>
           rest == Numbers(t)
<1>2. one \in Seq(Nat) /\ Len(one) = 1 /\ one[1] = s[1][2]
  BY <1>1 DEF Chunks
<1> HIDE DEF t, one
<1>3. rest \in Seq(Nat) /\ Len(rest) = Len(s) - 1
      /\ \A i \in 1..(Len(s) - 1) : rest[i] = s[i + 1][2]
  <2>1. t \in Seq(Chunks) /\ Len(t) = Len(s) - 1 /\ \A i \in 1..(Len(s) - 1) : t[i] = s[i + 1]
    BY <1>1 DEF t
  <2> QED
    BY <2>1, NumbersType
<1> HIDE DEF rest
<1>4. /\ one \o rest \in Seq(Nat) /\ Len(one \o rest) = Len(s)
      /\ \A i \in 1..Len(s) : (one \o rest)[i] = IF i <= 1 THEN one[i] ELSE rest[i - 1]
  <2>1. Len(one) + Len(rest) = Len(s)
    BY <1>1, <1>2, <1>3
  <2>2. /\ one \o rest \in Seq(Nat) /\ Len(one \o rest) = Len(one) + Len(rest)
        /\ \A i \in 1..(Len(one) + Len(rest)) :
             (one \o rest)[i] = IF i <= Len(one) THEN one[i] ELSE rest[i - Len(one)]
    BY <1>2, <1>3, ConcatProperties
  <2> QED
    BY <1>2, <2>1, <2>2
<1>5. \A i \in 1..Len(s) : Numbers(s)[i] = (one \o rest)[i]
  <2> TAKE i \in 1..Len(s)
  <2>1. Numbers(s)[i] = s[i][2]
    BY NumbersType
  <2>2. CASE i = 1
    BY <1>2, <1>4, <2>1, <2>2
  <2>3. CASE i # 1
    <3>1. i - 1 \in 1..(Len(s) - 1) /\ (i - 1) + 1 = i
      BY <1>1, <2>3
    <3> QED
      BY <1>3, <1>4, <2>1, <2>3, <3>1
  <2> QED
    BY <2>2, <2>3
<1>6. Numbers(s) = one \o rest
  BY <1>4, <1>5, NumbersType, SeqEqual
<1> QED
  BY <1>6 DEF t, one, rest

(* Putting a number behind two sequences. *)
LEMMA ConcatAppend ==
  ASSUME NEW a \in Seq(Nat), NEW b \in Seq(Nat), NEW n \in Nat
  PROVE  /\ a \o Append(b, n) = Append(a \o b, n)
         /\ (a \o b) \o <<n>> = Append(a \o b, n)
<1>1. Append(b, n) = b \o <<n>> /\ <<n>> \in Seq(Nat)
  BY AppendIsConcat
<1>2. a \o b \in Seq(Nat)
  BY ConcatProperties
<1>3. Append(a \o b, n) = (a \o b) \o <<n>>
  BY <1>2, AppendIsConcat
<1>4. (a \o b) \o <<n>> = a \o (b \o <<n>>)
  BY <1>1, ConcatAssociative
<1> QED
  BY <1>1, <1>3, <1>4

(* The first of a number and two sequences. *)
LEMMA ConcatFirst ==
  ASSUME NEW n \in Nat, NEW a \in Seq(Nat), NEW b \in Seq(Nat)
  PROVE  /\ (<<n>> \o a) \o b # <<>>
         /\ Head((<<n>> \o a) \o b) = n
         /\ Tail((<<n>> \o a) \o b) = a \o b
<1>1. <<n>> \in Seq(Nat) /\ Len(<<n>>) = 1 /\ <<n>>[1] = n
  OBVIOUS
<1>2. (<<n>> \o a) \o b = <<n>> \o (a \o b)
  BY <1>1, ConcatAssociative
<1> DEFINE one == <<n>>
           ab == a \o b
           all == one \o ab
<1> HIDE DEF one
<1>3. ab \in Seq(Nat) /\ Len(ab) \in Nat
  BY ConcatProperties, LenProperties
<1> HIDE DEF ab
<1>4. /\ all \in Seq(Nat) /\ Len(all) = 1 + Len(ab)
      /\ \A i \in 1..(1 + Len(ab)) : all[i] = IF i <= 1 THEN n ELSE ab[i - 1]
  <2>1. /\ all \in Seq(Nat) /\ Len(all) = Len(one) + Len(ab)
        /\ \A i \in 1..(Len(one) + Len(ab)) :
             all[i] = IF i <= Len(one) THEN one[i] ELSE ab[i - Len(one)]
    BY <1>1, <1>3, ConcatProperties DEF one
  <2> QED
    BY <1>1, <1>3, <2>1 DEF one
<1> HIDE DEF all
<1>5. all # <<>> /\ Head(all) = n
  BY <1>3, <1>4
<1>6. /\ Tail(all) \in Seq(Nat) /\ Len(Tail(all)) = Len(ab)
      /\ \A i \in 1..Len(ab) : Tail(all)[i] = all[i + 1]
  <2>1. /\ Tail(all) \in Seq(Nat) /\ Len(Tail(all)) = Len(all) - 1
        /\ \A i \in 1..Len(Tail(all)) : Tail(all)[i] = all[i + 1]
    BY <1>4, <1>5, HeadTailProperties
  <2> QED
    BY <1>3, <1>4, <2>1
<1>7. \A i \in 1..Len(ab) : all[i + 1] = ab[i]
  <2> TAKE i \in 1..Len(ab)
  <2>1. i + 1 \in 1..(1 + Len(ab)) /\ ~(i + 1 <= 1) /\ (i + 1) - 1 = i
    BY <1>3
  <2> QED
    BY <1>4, <2>1
<1>8. Tail(all) = ab
  BY <1>3, <1>6, <1>7, SeqEqual
<1> QED
  BY <1>2, <1>5, <1>8 DEF all, ab, one

-----------------------------------------------------------------------------
(* The invariant *)

USE BoundsAssumption

(* The streams Ctl has a Server object, and a task, for. *)
Opening == {"init", "task", "server", "encoder", "on"}
HasServer == Opening \cup {"stopServer", "deleteServer", "nullServer"}
HasTask == HasServer \cup {"taskFlag", "taskJoin"}

(* Which thread exists when: the encoder while the stream is on, the       *)
(* broadcast task from start() to the join.                                *)
ThreadInv ==
  /\ (pc[Enc] = "off") <=> (pc[Ctl] # "on")
  /\ pc[Bcast] # "none" => pc[Ctl] \in HasTask \ {"init", "task"}
  /\ task <=> pc[Ctl] \in HasTask

(* The pointer leads to the Server of this stream; every earlier one is    *)
(* freed, every later one does not exist yet.                              *)
ServerInv ==
  /\ server = IF pc[Ctl] \in HasServer THEN stream ELSE 0
  /\ pc[Ctl] # "off" => stream > 0
  /\ \A e \in Streams :
       /\ e > stream => srv[e] = "absent"
       /\ e < stream => srv[e] = "freed"
       /\ e = stream /\ pc[Ctl] \notin HasServer \ {"nullServer"} => srv[e] = "freed"
  /\ callee = IF pc[Bcast] = "write" THEN stream ELSE 0

(* Who holds broadcastQueueMtx.                                            *)
MutexInv ==
  /\ (qmtx = Enc) <=> (pc[Enc] \in {"push", "unlock"})
  /\ (qmtx = Bcast) <=> (pc[Bcast] = "test")
  /\ (qmtx = Ctl) <=> (pc[Ctl] = "flush")

(* The queue and the buffer hold chunks of this stream only, and nothing   *)
(* between two streams.                                                    *)
ChunkInv ==
  /\ \A i \in 1..Len(queue) : queue[i][1] = stream
  /\ IF pc[Bcast] \in {"guard", "call", "write"}
       THEN chunk \in Chunks /\ chunk[1] = stream
       ELSE chunk = <<>>
  /\ pc[Ctl] = "off" => queue = <<>>
  /\ pc[Enc] \in {"lock", "push"} => made > 0

(* At most one chunk of the made ones is counted for each in the queue.    *)
CountInv ==
  Len(queue) + (IF pc[Enc] \in {"lock", "push"} THEN 1 ELSE 0) <= made

Inv == ThreadInv /\ ServerInv /\ MutexInv /\ ChunkInv /\ CountInv

(* The types and the invariant hold initially: nothing has been set up.    *)
LEMMA InitInv == Init => TypeOK /\ Inv
<1> SUFFICES ASSUME Init PROVE TypeOK /\ Inv
  OBVIOUS
<1> USE DEF Init, Enc, Bcast, Ctl, Streams
<1>1. /\ DOMAIN pc = {Enc, Bcast, Ctl}
      /\ pc[Enc] = "off" /\ pc[Bcast] = "none" /\ pc[Ctl] = "off"
  OBVIOUS
<1>2. queue \in Seq(Chunks) /\ delivered \in Seq([chunk : Chunks, by : Streams]) /\ Len(queue) = 0
  OBVIOUS
<1>3. TypeOK
  <2>1. pc[Enc] \in EncLabels /\ pc[Bcast] \in BcastLabels /\ pc[Ctl] \in CtlLabels
    BY <1>1 DEF EncLabels, BcastLabels, CtlLabels
  <2>2. stream \in 0..MaxStreams /\ server \in 0..MaxStreams /\ callee \in 0..MaxStreams
        /\ made \in 0..MaxChunks /\ Len(queue) <= made
    BY <1>2
  <2>3. srv \in [Streams -> {"absent", "ready", "live", "stopped", "freed"}]
    OBVIOUS
  <2> QED
    BY <1>1, <1>2, <2>1, <2>2, <2>3 DEF TypeOK
<1>4. Inv
  BY <1>1, <1>2 DEF Inv, ThreadInv, ServerInv, MutexInv, ChunkInv, CountInv, HasTask, HasServer,
       Opening
<1> QED
  BY <1>3, <1>4

USE DEF Enc, Bcast, Ctl, EncLabels, BcastLabels, CtlLabels, Streams, Opening, HasServer,
        HasTask, Step, Lock, Unlock, Quiet, Acquire, Release, shared, data

(* The types and the invariant are preserved by the steps of the callback. *)
LEMMA EncInv == ASSUME TypeOK, Inv, Callback \/ Encoding PROVE TypeOK' /\ Inv'
<1> USE DEF TypeOK, Inv, ThreadInv, ServerInv, MutexInv, ChunkInv, CountInv
<1>1. CASE Callback
  BY <1>1 DEF Callback
<1>2. CASE EncLock
  BY <1>2 DEF EncLock
<1>3. CASE EncPush
  <2>1. <<stream, made>> \in Chunks
    BY <1>3 DEF EncPush, Chunks
  <2> QED
    BY <1>3, <2>1 DEF EncPush
<1>4. CASE EncUnlock
  BY <1>4 DEF EncUnlock
<1> QED
  BY <1>1, <1>2, <1>3, <1>4 DEF Encoding

(* The types and the invariant are preserved by the broadcast task.        *)
LEMMA BcastInv == ASSUME TypeOK, Inv, Broadcasting PROVE TypeOK' /\ Inv'
<1> USE DEF TypeOK, Inv, ThreadInv, ServerInv, MutexInv, ChunkInv, CountInv
<1>1. CASE BcastCheck
  BY <1>1 DEF BcastCheck
<1>2. CASE BcastLock
  BY <1>2 DEF BcastLock
<1>3. CASE BcastEmpty
  BY <1>3 DEF BcastEmpty
<1>4. CASE BcastTake
  <2>1. Head(queue) = queue[1] /\ Head(queue) \in Chunks
    BY <1>4 DEF BcastTake
  <2> QED
    BY <1>4, <2>1 DEF BcastTake
<1>5. CASE BcastGuard
  BY <1>5 DEF BcastGuard
<1>6. CASE BcastCall
  BY <1>6 DEF BcastCall, ServerExists
<1>7. CASE BcastCallsNothing
  BY <1>7 DEF BcastCallsNothing
<1>8. CASE BcastWrite
  BY <1>8 DEF BcastWrite
<1>9. CASE BcastWritesNothing
  BY <1>9 DEF BcastWritesNothing
<1> QED
  BY <1>1, <1>2, <1>3, <1>4, <1>5, <1>6, <1>7, <1>8, <1>9 DEF Broadcasting

(* The types and the invariant are preserved by initWs, initVideo, start.  *)
LEMMA StartInv == ASSUME TypeOK, Inv, InitWs \/ Starting PROVE TypeOK' /\ Inv'
<1> USE DEF TypeOK, Inv, ThreadInv, ServerInv, MutexInv, ChunkInv, CountInv
<1>1. CASE InitWs
  BY <1>1 DEF InitWs
<1>2. CASE HeaderChunk
  <2>1. <<stream, 1>> \in Chunks
    BY <1>2 DEF HeaderChunk, Chunks, ServerInv
  <2> QED
    BY <1>2, <2>1 DEF HeaderChunk
<1>3. CASE InitVideoFails
  BY <1>3 DEF InitVideoFails
<1>4. CASE InitVideo
  BY <1>4 DEF InitVideo
<1>5. CASE RunTask
  BY <1>5 DEF RunTask
<1>6. CASE RunServer
  BY <1>6 DEF RunServer
<1>7. CASE RunEncoder
  BY <1>7 DEF RunEncoder
<1> QED
  BY <1>1, <1>2, <1>3, <1>4, <1>5, <1>6, <1>7 DEF Starting

(* The types and the invariant are preserved by stopVideo and stopWs.      *)
LEMMA StopInv == ASSUME TypeOK, Inv, StopVideo \/ Stopping PROVE TypeOK' /\ Inv'
<1> USE DEF TypeOK, Inv, ThreadInv, ServerInv, MutexInv, ChunkInv, CountInv
<1>1. CASE StopVideo
  BY <1>1 DEF StopVideo
<1>2. CASE StopServer
  BY <1>2 DEF StopServer
<1>3. CASE DeleteServer
  BY <1>3 DEF DeleteServer
<1>4. CASE NullServer
  BY <1>4 DEF NullServer
<1>5. CASE TaskFlag
  BY <1>5 DEF TaskFlag
<1>6. CASE TaskJoin
  BY <1>6 DEF TaskJoin
<1>7. CASE FlushLock
  BY <1>7 DEF FlushLock
<1>8. CASE Flush
  BY <1>8 DEF Flush
<1> QED
  BY <1>1, <1>2, <1>3, <1>4, <1>5, <1>6, <1>7, <1>8 DEF Stopping

(* The types and the invariant are preserved by every step.                *)
LEMMA InvStep == ASSUME TypeOK, Inv, [Next]_vars PROVE TypeOK' /\ Inv'
<1>1. CASE UNCHANGED vars
  BY <1>1 DEF vars, TypeOK, Inv, ThreadInv, ServerInv, MutexInv, ChunkInv, CountInv
<1>2. CASE Next
  BY <1>1, <1>2, EncInv, BcastInv, StartInv, StopInv DEF Next, Resting
<1> QED
  BY <1>1, <1>2

(* What the Servers were given before a step was of their stream; so is    *)
(* what they are given in it.                                              *)
LEMMA ForeignStep == ASSUME TypeOK, Inv, NoForeignChunk, [Next]_vars PROVE NoForeignChunk'
<1> USE DEF TypeOK, NoForeignChunk
<1>1. CASE InitWs
  BY <1>1 DEF InitWs
<1>2. CASE BcastWrite
  <2>1. chunk[1] = callee /\ delivered' = Append(delivered, [chunk |-> chunk, by |-> callee])
    BY <1>2 DEF BcastWrite, Inv, ChunkInv, ServerInv
  <2> QED
    BY <2>1
<1>3. CASE UNCHANGED delivered
  BY <1>3
<1> QED
  BY <1>1, <1>2, <1>3 DEF Next, vars, Starting, HeaderChunk, InitVideoFails, InitVideo, RunTask,
     RunServer, RunEncoder, StopVideo, Stopping, StopServer, DeleteServer, NullServer, TaskFlag,
     TaskJoin, FlushLock, Flush, Callback, Encoding, EncLock, EncPush, EncUnlock, Broadcasting,
     BcastCheck, BcastLock, BcastEmpty, BcastTake, BcastGuard, BcastCall, BcastCallsNothing,
     BcastWritesNothing, Resting

(* The inductive invariant holds in every reachable state.                 *)
THEOREM Inductive == Spec => [](TypeOK /\ Inv /\ NoForeignChunk)
<1>1. Init => TypeOK /\ Inv /\ NoForeignChunk
  BY InitInv DEF Init, NoForeignChunk
<1>2. TypeOK /\ Inv /\ NoForeignChunk /\ [Next]_vars => (TypeOK /\ Inv /\ NoForeignChunk)'
  BY InvStep, ForeignStep
<1> QED
  BY <1>1, <1>2, PTL DEF Spec

(* Type correctness.                                                       *)
THEOREM TypeCorrect == Spec => []TypeOK
  BY Inductive, PTL

(* Nothing of a stream is left for the next one, wherever its start failed *)
(* or its stop found the broadcast task.                                   *)
THEOREM NothingLeft == Spec => []RestIsEmpty
<1>1. TypeOK /\ Inv => RestIsEmpty
  BY DEF TypeOK, Inv, ThreadInv, ServerInv, ChunkInv, RestIsEmpty, InFlight
<1> QED
  BY <1>1, Inductive, PTL

(* No client of one stream gets a chunk of another.                        *)
THEOREM OwnChunksOnly == Spec => []NoForeignChunk
  BY Inductive, PTL

-----------------------------------------------------------------------------
(* Broadcast implements ChunkStream *)

(* The chunks that are pending, in three parts. *)
LEMMA PendingParts ==
  ASSUME TypeOK, Inv
  PROVE  /\ Numbers(queue) \in Seq(Nat) /\ Pushing \in Seq(Nat)
         /\ Numbers(InFlight) \in Seq(Nat)
         /\ pc[Bcast] \in {"guard", "call", "write"}
              => chunk[2] \in Nat /\ Numbers(InFlight) = <<chunk[2]>>
         /\ pc[Bcast] \notin {"guard", "call", "write"} => Numbers(InFlight) = <<>>
         /\ Given \in Seq(Nat)
<1> USE DEF TypeOK
<1>1. Numbers(queue) \in Seq(Nat)
  BY NumbersType
<1>2. Pushing \in Seq(Nat)
  BY DEF Pushing
<1>3. ASSUME pc[Bcast] \in {"guard", "call", "write"}
      PROVE  chunk[2] \in Nat /\ Numbers(InFlight) = <<chunk[2]>> /\ Numbers(InFlight) \in Seq(Nat)
  <2>1. chunk \in Chunks /\ InFlight = <<chunk>>
    BY <1>3 DEF Inv, ChunkInv, InFlight
  <2>2. chunk[2] \in Nat /\ <<chunk[2]>> \in Seq(Nat)
    BY <2>1 DEF Chunks
  <2> QED
    BY <2>1, <2>2, NumbersOne
<1>4. ASSUME pc[Bcast] \notin {"guard", "call", "write"}
      PROVE  Numbers(InFlight) = <<>> /\ Numbers(InFlight) \in Seq(Nat)
  <2>1. InFlight = <<>>
    BY <1>4 DEF InFlight
  <2>2. <<>> \in Seq(Nat)
    OBVIOUS
  <2> QED
    BY <2>1, <2>2, NumbersEmpty
<1>5. Given \in Seq(Nat)
  <2>1. \A i \in 1..Len(delivered) : delivered[i].chunk[2] \in Nat
    <3> TAKE i \in 1..Len(delivered)
    <3>1. delivered[i] \in [chunk : Chunks, by : Streams]
      BY ElementOfSeq
    <3> QED
      BY <3>1, SMTT(30) DEF Chunks
  <2>2. Given \in [1..Len(delivered) -> Nat] /\ Len(delivered) \in Nat
    BY <2>1 DEF Given
  <2> QED
    BY <2>2, FunctionIsSeq
<1> QED
  BY <1>1, <1>2, <1>3, <1>4, <1>5

(* A step that moves no chunk and leaves the phase is a stutter.           *)
LEMMA Unseen ==
  ASSUME UNCHANGED <<stream, made, queue, delivered>>,
         Phase' = Phase, InFlight' = InFlight, Pushing' = Pushing
  PROVE  UNCHANGED Stream!vars
<1>1. Pending' = Pending
  BY DEF Pending, Numbers
<1>2. Given' = Given
  BY DEF Given
<1> QED
  BY <1>1, <1>2 DEF Stream!vars

(* Setting a stream up opens it; the header may make a chunk.              *)
LEMMA StartRefines ==
  ASSUME TypeOK, Inv, InitWs \/ Starting PROVE [Stream!Next]_Stream!vars
<1> USE DEF TypeOK, Inv, ThreadInv, ChunkInv
<1>1. CASE InitWs
  <2>1. queue = <<>> /\ InFlight = <<>> /\ InFlight' = <<>> /\ Pushing = <<>> /\ Pushing' = <<>>
    BY <1>1 DEF InitWs, InFlight, Pushing
  <2>2. Numbers(queue') = <<>> /\ Numbers(InFlight') = <<>>
    BY <1>1, <2>1, NumbersEmpty DEF InitWs
  <2>3. Pending' = <<>>
    <3>1. Pending' = (Numbers(InFlight') \o Numbers(queue')) \o Pushing'
      BY DEF Pending, Numbers
    <3> QED
      BY <2>1, <2>2, <3>1
  <2>4. Given' = <<>>
    <3>1. delivered' = <<>> /\ Given' \in [1..0 -> Nat]
      BY <1>1 DEF InitWs, Given
    <3>2. Given' \in Seq(Nat) /\ Len(Given') = 0
      BY <3>1, FunctionIsSeq
    <3> QED
      BY <3>2, EmptySeq
  <2>5. Phase = "closed" /\ Phase' = "open"
    BY <1>1 DEF InitWs, Phase
  <2> QED
    BY <1>1, <2>3, <2>4, <2>5 DEF InitWs, Stream!Next, Stream!Open
<1>2. CASE HeaderChunk
  <2>1. /\ <<stream, 1>> \in Chunks /\ queue' = Append(queue, <<stream, 1>>)
        /\ made = 0 /\ made' = 1 /\ made < MaxChunks /\ UNCHANGED <<stream, delivered, chunk>>
    BY <1>2 DEF HeaderChunk, Chunks, ServerInv
  <2>2. InFlight' = InFlight /\ Pushing = <<>> /\ Pushing' = <<>> /\ Phase = "open" /\ Phase' = "open"
    BY <1>2 DEF HeaderChunk, InFlight, Pushing, Phase
  <2>3. Numbers(queue') = Append(Numbers(queue), 1)
    BY <2>1, NumbersAppend
  <2>4. Pending' = Append(Pending, 1)
    <3>1. Pending' = (Numbers(InFlight) \o Append(Numbers(queue), 1)) \o <<>>
      BY <2>2, <2>3 DEF Pending, Numbers
    <3>2. Pending = (Numbers(InFlight) \o Numbers(queue)) \o <<>>
      BY <2>2 DEF Pending
    <3>3. /\ Numbers(InFlight) \in Seq(Nat) /\ Numbers(queue) \in Seq(Nat)
          /\ Append(Numbers(queue), 1) \in Seq(Nat)
      BY PendingParts, AppendProperties
    <3>4. /\ Pending' = Numbers(InFlight) \o Append(Numbers(queue), 1)
          /\ Pending = Numbers(InFlight) \o Numbers(queue)
      BY <3>1, <3>2, <3>3, ConcatProperties, ConcatEmptySeq
    <3>5. Numbers(InFlight) \o Append(Numbers(queue), 1) = Append(Numbers(InFlight) \o Numbers(queue), 1)
      BY <3>3, ConcatAppend, SMTT(30)
    <3> QED
      BY <3>4, <3>5
  <2>5. Given' = Given
    BY <2>1 DEF Given
  <2> QED
    BY <2>1, <2>2, <2>4, <2>5 DEF Stream!Next, Stream!Make
<1>3. CASE InitVideoFails
  <2>1. /\ UNCHANGED <<stream, made, queue, delivered>>
        /\ InFlight' = InFlight /\ Pushing' = Pushing /\ Phase = "open" /\ Phase' = "closing"
    BY <1>3 DEF InitVideoFails, InFlight, Pushing, Phase
  <2>2. Pending' = Pending /\ Given' = Given
    BY <2>1 DEF Pending, Given, Numbers
  <2> QED
    BY <2>1, <2>2 DEF Stream!Next, Stream!Close
<1>4. CASE InitVideo \/ RunTask \/ RunServer \/ RunEncoder
  <2>1. /\ UNCHANGED <<stream, made, queue, delivered>>
        /\ InFlight' = InFlight /\ Pushing' = Pushing /\ Phase' = Phase
    BY <1>4 DEF InitVideo, RunTask, RunServer, RunEncoder, InFlight, Pushing, Phase
  <2> QED
    BY <2>1, Unseen
<1> QED
  BY <1>1, <1>2, <1>3, <1>4 DEF Starting

(* Taking a stream down closes it; the flush drops what is left.           *)
LEMMA StopRefines ==
  ASSUME TypeOK, Inv, StopVideo \/ Stopping PROVE [Stream!Next]_Stream!vars
<1> USE DEF TypeOK, Inv, ThreadInv, ChunkInv
<1>1. CASE StopVideo
  <2>1. /\ UNCHANGED <<stream, made, queue, delivered>>
        /\ InFlight' = InFlight /\ Pushing' = Pushing /\ Phase = "open" /\ Phase' = "closing"
    BY <1>1 DEF StopVideo, InFlight, Pushing, Phase
  <2>2. Pending' = Pending /\ Given' = Given
    BY <2>1 DEF Pending, Given, Numbers
  <2> QED
    BY <2>1, <2>2 DEF Stream!Next, Stream!Close
<1>2. CASE Flush
  <2>1. UNCHANGED <<stream, made, delivered>> /\ Phase = "closing" /\ Phase' = "closed"
    BY <1>2 DEF Flush, Phase
  <2>2. queue' = <<>> /\ InFlight' = <<>> /\ Pushing' = <<>>
    BY <1>2 DEF Flush, InFlight, Pushing
  <2>3. Numbers(queue') = <<>> /\ Numbers(InFlight') = <<>>
    BY <2>2, NumbersEmpty
  <2>4. Pending' = <<>> /\ Given' = Given
    BY <2>1, <2>2, <2>3 DEF Pending, Given, Numbers
  <2> QED
    BY <2>1, <2>4 DEF Stream!Next, Stream!Closed
<1>3. CASE StopServer \/ DeleteServer \/ NullServer \/ TaskFlag \/ TaskJoin \/ FlushLock
  <2>1. UNCHANGED <<stream, made, queue, delivered>>
    BY <1>3 DEF StopServer, DeleteServer, NullServer, TaskFlag, TaskJoin, FlushLock
  <2>2. Pushing' = Pushing
    BY <1>3 DEF StopServer, DeleteServer, NullServer, TaskFlag, TaskJoin, FlushLock, Pushing
  <2>3. Phase' = Phase
    BY <1>3 DEF StopServer, DeleteServer, NullServer, TaskFlag, TaskJoin, FlushLock, Phase
  <2>4. InFlight' = InFlight
    <3>1. CASE TaskJoin
      BY <3>1 DEF TaskJoin, InFlight
    <3>2. CASE StopServer \/ DeleteServer \/ NullServer \/ TaskFlag \/ FlushLock
      BY <3>2 DEF StopServer, DeleteServer, NullServer, TaskFlag, FlushLock, InFlight
    <3> QED
      BY <1>3, <3>1, <3>2
  <2> QED
    BY <2>1, <2>2, <2>3, <2>4, Unseen
<1> QED
  BY <1>1, <1>2, <1>3 DEF Stopping

(* One more chunk given to a Server is one more number at the end.         *)
LEMMA GivenAppend ==
  ASSUME TypeOK, Inv, pc[Bcast] = "write",
         delivered' = Append(delivered, [chunk |-> chunk, by |-> callee])
  PROVE  Given' = Append(Given, chunk[2])
<1> DEFINE n == Len(delivered)
           r == [chunk |-> chunk, by |-> callee]
<1>1. n \in Nat /\ delivered \in Seq([chunk : Chunks, by : Streams])
      /\ r \in [chunk : Chunks, by : Streams] /\ r.chunk = chunk /\ chunk[2] \in Nat
  BY DEF TypeOK, Inv, ChunkInv, ServerInv, ThreadInv, Chunks
<1> HIDE DEF r
<1>2. /\ Len(delivered') = n + 1 /\ delivered'[n + 1] = r
      /\ \A i \in 1..n : delivered'[i] = delivered[i]
  BY <1>1, AppendProperties DEF r
<1>3. Given' = [i \in 1..(n + 1) |-> delivered'[i].chunk[2]]
  BY <1>2 DEF Given
<1>4. Given \in Seq(Nat) /\ Len(Given) = n /\ \A i \in 1..n : Given[i] = delivered[i].chunk[2]
  BY PendingParts, LenProperties DEF Given
<1>5. /\ Append(Given, chunk[2]) \in Seq(Nat) /\ Len(Append(Given, chunk[2])) = n + 1
      /\ \A i \in 1..n : Append(Given, chunk[2])[i] = Given[i]
      /\ Append(Given, chunk[2])[n + 1] = chunk[2]
  BY <1>1, <1>4, AppendProperties
<1>6. \A i \in 1..(n + 1) : delivered'[i].chunk[2] = Append(Given, chunk[2])[i]
  <2> TAKE i \in 1..(n + 1)
  <2>1. CASE i \in 1..n
    BY <1>2, <1>4, <1>5, <2>1
  <2>2. CASE i = n + 1
    <3>1. delivered'[i] = r /\ Append(Given, chunk[2])[i] = chunk[2]
      BY <1>2, <1>5, <2>2
    <3> QED
      BY <1>1, <3>1
  <2>3. i \in 1..n \/ i = n + 1
    BY <1>1
  <2> QED
    BY <2>1, <2>2, <2>3
<1>7. Append(Given, chunk[2]) = [i \in 1..(n + 1) |-> Append(Given, chunk[2])[i]]
  BY <1>1, <1>5, LenProperties
<1> QED
  BY <1>3, <1>6, <1>7

(* The callback makes a chunk; pushing it leaves what is pending.          *)
LEMMA EncRefines ==
  ASSUME TypeOK, Inv, Callback \/ Encoding PROVE [Stream!Next]_Stream!vars
<1> USE DEF TypeOK, Inv, ThreadInv, ServerInv, ChunkInv
<1> DEFINE a == Numbers(InFlight)
           b == Numbers(queue)
<1>0. a \in Seq(Nat) /\ b \in Seq(Nat) /\ a \o b \in Seq(Nat)
  BY PendingParts, ConcatProperties
<1>1. CASE Callback
  <2>1. /\ Phase = "open" /\ Phase' = "open" /\ made < MaxChunks /\ made' = made + 1
        /\ UNCHANGED <<stream, queue, delivered>> /\ InFlight' = InFlight
        /\ Pushing = <<>> /\ Pushing' = <<made + 1>> /\ made + 1 \in Nat
    BY <1>1 DEF Callback, InFlight, Pushing, Phase
  <2>2. Pending = (a \o b) \o <<>> /\ Pending' = (a \o b) \o <<made + 1>>
    BY <2>1 DEF Pending, Numbers
  <2> HIDE DEF a, b
  <2>3. Pending' = Append(Pending, made + 1)
    BY <1>0, <2>1, <2>2, ConcatAppend, ConcatEmptySeq
  <2>4. Given' = Given
    BY <2>1 DEF Given
  <2> QED
    BY <2>1, <2>3, <2>4 DEF Stream!Next, Stream!Make
<1>2. CASE EncPush
  <2>1. /\ UNCHANGED <<stream, made, delivered, Phase, InFlight>> /\ made \in Nat
        /\ <<stream, made>> \in Chunks /\ queue' = Append(queue, <<stream, made>>)
        /\ Pushing = <<made>> /\ Pushing' = <<>>
    BY <1>2 DEF EncPush, InFlight, Pushing, Phase, Chunks
  <2>2. Numbers(queue') = Append(b, made)
    BY <2>1, NumbersAppend
  <2>3. Pending = (a \o b) \o <<made>> /\ Pending' = (a \o Append(b, made)) \o <<>>
    BY <2>1, <2>2 DEF Pending, Numbers
  <2> HIDE DEF a, b
  <2>4. Append(b, made) \in Seq(Nat) /\ a \o Append(b, made) \in Seq(Nat)
    BY <1>0, <2>1, AppendProperties, ConcatProperties
  <2>5. Pending' = Pending
    <3>1. a \o Append(b, made) = (a \o b) \o <<made>>
      BY <1>0, <2>1, ConcatAppend, SMTT(30)
    <3>2. (a \o Append(b, made)) \o <<>> = a \o Append(b, made)
      BY <2>4, ConcatEmptySeq
    <3> QED
      BY <2>3, <3>1, <3>2
  <2>6. Given' = Given
    BY <2>1 DEF Given
  <2> QED
    BY <2>1, <2>5, <2>6 DEF Stream!vars
<1>3. CASE EncLock \/ EncUnlock
  <2>1. /\ UNCHANGED <<stream, made, queue, delivered>>
        /\ InFlight' = InFlight /\ Pushing' = Pushing /\ Phase' = Phase
    BY <1>3 DEF EncLock, EncUnlock, InFlight, Pushing, Phase
  <2> QED
    BY <2>1, Unseen
<1> QED
  BY <1>1, <1>2, <1>3 DEF Encoding

(* The broadcast task delivers the oldest chunk, or drops it when the      *)
(* Server's pointer is gone, which it is in a closing stream only.         *)
LEMMA BcastRefines ==
  ASSUME TypeOK, Inv, Broadcasting PROVE [Stream!Next]_Stream!vars
<1> USE DEF TypeOK, Inv, ThreadInv, ServerInv, ChunkInv
<1> DEFINE b == Numbers(queue)
           p == Pushing
<1>0. b \in Seq(Nat) /\ p \in Seq(Nat) /\ b \o p \in Seq(Nat) /\ <<>> \o b = b
  BY PendingParts, ConcatProperties, ConcatEmptySeq
<1>1. ASSUME UNCHANGED queue, Pushing' = Pushing, pc[Bcast] \in {"guard", "call", "write"},
             InFlight' = <<>>
      PROVE  Pending # <<>> /\ Head(Pending) = chunk[2] /\ Pending' = Tail(Pending)
  <2>1. chunk[2] \in Nat /\ Numbers(InFlight) = <<chunk[2]>>
    BY <1>1, PendingParts
  <2>2. Pending = (<<chunk[2]>> \o b) \o p
    BY <2>1 DEF Pending
  <2>3. Pending' = (<<>> \o b) \o p
    <3>1. Pending' = (Numbers(<<>>) \o b) \o p
      BY <1>1 DEF Pending, Numbers
    <3> QED
      BY <3>1, NumbersEmpty
  <2> HIDE DEF b, p
  <2> QED
    <3>1. /\ (<<chunk[2]>> \o b) \o p # <<>>
          /\ Head((<<chunk[2]>> \o b) \o p) = chunk[2]
          /\ Tail((<<chunk[2]>> \o b) \o p) = b \o p
      BY <1>0, <2>1, ConcatFirst, Zenon
    <3> QED
      BY <1>0, <2>2, <2>3, <3>1
<1>2. CASE BcastTake
  <2>1. /\ UNCHANGED <<stream, made, delivered, Phase, Pushing>>
        /\ queue # <<>> /\ queue' = Tail(queue) /\ InFlight = <<>> /\ InFlight' = <<Head(queue)>>
    BY <1>2 DEF BcastTake, InFlight, Pushing, Phase
  <2>2. Numbers(InFlight') = <<Head(queue)[2]>> /\ Numbers(InFlight) = <<>>
    BY <2>1, NumbersOne, NumbersEmpty, HeadTailProperties
  <2>3. b = <<Head(queue)[2]>> \o Numbers(queue')
    BY <2>1, NumbersTail
  <2>4. Pending' = b \o p
    BY <2>1, <2>2, <2>3 DEF Pending, Numbers
  <2>5. Pending = (<<>> \o b) \o p
    BY <2>2 DEF Pending
  <2>6. Given' = Given
    BY <2>1 DEF Given
  <2> QED
    BY <1>0, <2>1, <2>4, <2>5, <2>6 DEF Stream!vars
<1>3. CASE BcastGuard /\ server = 0
  <2>1. /\ UNCHANGED <<stream, made, queue, delivered>> /\ Pushing' = Pushing
        /\ pc[Bcast] = "guard" /\ InFlight' = <<>> /\ Phase = "closing" /\ Phase' = "closing"
    BY <1>3 DEF BcastGuard, InFlight, Pushing, Phase
  <2>2. Given' = Given
    BY <2>1 DEF Given
  <2> QED
    BY <1>1, <2>1, <2>2 DEF Stream!Next, Stream!Drop
<1>4. CASE BcastWrite
  <2>1. /\ UNCHANGED <<stream, made, queue, Phase>> /\ Pushing' = Pushing /\ Phase # "closed"
        /\ pc[Bcast] = "write" /\ InFlight' = <<>>
        /\ delivered' = Append(delivered, [chunk |-> chunk, by |-> callee])
    BY <1>4 DEF BcastWrite, InFlight, Pushing, Phase
  <2>2. Given' = Append(Given, chunk[2])
    BY <2>1, GivenAppend
  <2> QED
    BY <1>1, <2>1, <2>2 DEF Stream!Next, Stream!Deliver
<1>5. CASE \/ BcastGuard /\ server # 0
           \/ BcastCheck \/ BcastLock \/ BcastEmpty \/ BcastCall \/ BcastCallsNothing
           \/ BcastWritesNothing
  <2>1. /\ UNCHANGED <<stream, made, queue, delivered>>
        /\ InFlight' = InFlight /\ Pushing' = Pushing /\ Phase' = Phase
    BY <1>5 DEF BcastGuard, BcastCheck, BcastLock, BcastEmpty, BcastCall, BcastCallsNothing,
       BcastWritesNothing, InFlight, Pushing, Phase
  <2> QED
    BY <2>1, Unseen
<1> QED
  BY <1>2, <1>3, <1>4, <1>5 DEF Broadcasting

(* Broadcast implements ChunkStream: the chunks of a stream are delivered  *)
(* in the order they were made, none twice, and none is lost while the     *)
(* stream is open.                                                         *)
THEOREM Implements == Spec => ImplementsStream
<1>1. Init => Stream!Init
  <2> SUFFICES ASSUME Init PROVE Stream!Init
    OBVIOUS
  <2> USE DEF Init
  <2>1. pc[Enc] = "off" /\ pc[Bcast] = "none" /\ pc[Ctl] = "off"
    OBVIOUS
  <2>2. InFlight = <<>> /\ Pushing = <<>> /\ Phase = "closed"
    BY <2>1 DEF InFlight, Pushing, Phase
  <2>3. Pending = <<>>
    BY <2>2, NumbersEmpty DEF Pending
  <2>4. Given = <<>>
    <3>1. Given \in [1..0 -> Nat]
      BY DEF Given
    <3> QED
      BY <3>1, FunctionIsSeq, EmptySeq
  <2> QED
    BY <2>2, <2>3, <2>4 DEF Stream!Init
<1>2. TypeOK /\ Inv /\ [Next]_vars => [Stream!Next]_Stream!vars
  <2> SUFFICES ASSUME TypeOK, Inv, [Next]_vars PROVE [Stream!Next]_Stream!vars
    OBVIOUS
  <2>1. CASE UNCHANGED vars
    BY <2>1, Unseen DEF vars, InFlight, Pushing, Phase
  <2> QED
    BY <2>1, StartRefines, StopRefines, EncRefines, BcastRefines DEF Next, Resting
<1> QED
  BY <1>1, <1>2, Inductive, PTL DEF Spec, ImplementsStream, Stream!Spec

(* What the clients are given of a stream has increasing numbers, and      *)
(* while the stream is open it and what is on its way to them are all that *)
(* was made.                                                               *)
THEOREM Delivered == Spec => [](Stream!InOrder /\ Stream!Lossless)
  BY Implements, Stream!Promised, PTL DEF ImplementsStream
=============================================================================
