-------------------------- MODULE TranscoderProofs --------------------------
(***************************************************************************)
(* Theorems about Transcoder, for any number of packets, any rates and any *)
(* delay of the decoder.  TypeOK with PlaceInv and TaskInv says where each *)
(* thread may be and what it holds there; OrderInv and AccountInv follow   *)
(* the frames from the device to the encoder, as sets of packet numbers    *)
(* for each part of the pipeline.                                          *)
(***************************************************************************)
EXTENDS Transcoder, SequenceTheorems, TLAPS

(* What a task holds between two of its calls.                             *)
PlaceInv ==
  /\ decFrame # 0 <=> pc[Dec] \in {"lock", "add"}
  /\ encFrame # 0 => pc[Enc] \in {"unlock", "encode"}
  /\ pc[Enc] = "encode" => encFrame # 0
  /\ pc[Dec] \in {"off", "check", "read", "push", "count", "ended"} => Len(held) <= Delay
  /\ pc[Dec] = "push" => next # 0
  /\ pc[Ctl] \in {"new", "ready"} => next = 0 /\ skipped = 0

(* Who holds filterGraphMtx, and who runs while Ctl is where it is.        *)
TaskInv ==
  /\ gmtx = Dec <=> pc[Dec] \in {"add", "unlock"}
  /\ gmtx = Enc <=> pc[Enc] \in {"pop", "unlock"}
  /\ pc[Ctl] \in {"new", "ready", "halfInit", "crashed"} => pc[Dec] = "off"
  /\ pc[Ctl] \in {"new", "ready", "started", "halfInit", "crashed"} => pc[Enc] = "off"
  /\ pc[Ctl] \in {"encFlag", "encJoin", "stopped", "deleted"} => pc[Dec] \in {"off", "ended"}
  /\ pc[Ctl] \in {"stopped", "deleted"} => pc[Enc] \in {"off", "ended"}
  /\ pc[Dec] \in {"read", "push"} => ~readError

(* The bound of the counters is a number.                                  *)
LEMMA CounterBound == MaxUint16 \in Nat
  BY DEF MaxUint16

USE SkipAssumption, CounterBound

-----------------------------------------------------------------------------
(* Types, and where the threads are *)

(* Initially the tasks do not run.                                         *)
LEMMA InitType == Init => TypeOK /\ PlaceInv /\ TaskInv
<1> SUFFICES ASSUME Init PROVE TypeOK /\ PlaceInv /\ TaskInv
  OBVIOUS
<1>1. pc[Ctl] = "new" /\ pc[Dec] = "off" /\ pc[Enc] = "off" /\ DOMAIN pc = {Dec, Enc, Ctl}
  BY DEF Init, Dec, Enc, Ctl
<1> QED
  BY <1>1 DEF Init, TypeOK, PlaceInv, TaskInv, DecLabels, EncLabels, CtlLabels, Dec, Enc, Packets

USE DEF Dec, Enc, Ctl, DecLabels, EncLabels, CtlLabels, Step, Lock, Unlock, Quiet, Acquire,
        Release, Start, reading, decoding, encoding

(* Preserved by the thread that owns the Transcoder. *)
LEMMA CtlType ==
  ASSUME TypeOK, PlaceInv, TaskInv, Setup \/ StopDecoder \/ Stopping PROVE TypeOK' /\ PlaceInv' /\ TaskInv'
<1> USE DEF TypeOK, PlaceInv, TaskInv
<1>1. CASE InitOk
  BY <1>1 DEF InitOk
<1>2. CASE InitFails
  BY <1>2 DEF InitFails
<1>3. CASE GraphFails
  BY <1>3 DEF GraphFails
<1>4. CASE RunDecoder
  BY <1>4 DEF RunDecoder
<1>5. CASE RunEncoder
  BY <1>5 DEF RunEncoder
<1>6. CASE StopDecoder
  BY <1>6 DEF StopDecoder
<1>7. CASE JoinDecoder
  BY <1>7 DEF JoinDecoder
<1>8. CASE StopEncoder
  BY <1>8 DEF StopEncoder
<1>9. CASE JoinEncoder
  BY <1>9 DEF JoinEncoder
<1>10. CASE Delete
  <2>1. NumbersIn(graph) \subseteq Packets /\ NumbersIn(held) \subseteq Packets
    BY DEF NumbersIn
  <2>2. graph' = <<>> /\ held' = <<>> /\ lost' \subseteq Packets
    BY <1>10, <2>1 DEF Delete
  <2> QED
    BY <1>10, <2>2 DEF Delete
<1>11. CASE DeleteHalfInit
  BY <1>11 DEF DeleteHalfInit
<1> QED
  BY <1>1, <1>2, <1>3, <1>4, <1>5, <1>6, <1>7, <1>8, <1>9, <1>10, <1>11 DEF Setup, Stopping

(* Preserved by the decoder task. *)
LEMMA DecType ==
  ASSUME TypeOK, PlaceInv, TaskInv, Reading \/ Decoding PROVE TypeOK' /\ PlaceInv' /\ TaskInv'
<1> USE DEF TypeOK, PlaceInv, TaskInv
<1>1. CASE DecCheck
  BY <1>1 DEF DecCheck
<1>2. CASE ReadPacket
  BY <1>2 DEF ReadPacket
<1>3. CASE ReadNothing
  BY <1>3 DEF ReadNothing
<1>4. CASE ReadThrows
  BY <1>4 DEF ReadThrows
<1>5. CASE PushPacket
  <2>1. next \in Packets
    BY <1>5 DEF PushPacket, Packets
  <2>2. Append(held, next) \in Seq(Packets) /\ Len(Append(held, next)) = Len(held) + 1
    BY <2>1
  <2> QED
    BY <1>5, <2>2 DEF PushPacket
<1>6. CASE PushThrows
  BY <1>6 DEF PushThrows, Packets
<1>7. CASE ReceiveFrame
  <2>1. Head(held) \in Packets /\ Tail(held) \in Seq(Packets) /\ Len(Tail(held)) = Len(held) - 1
    BY <1>7 DEF ReceiveFrame
  <2> QED
    BY <1>7, <2>1 DEF ReceiveFrame, Packets
<1>8. CASE ReceiveNothing
  BY <1>8 DEF ReceiveNothing
<1>9. CASE ReceiveThrows
  <2>1. Head(held) \in Packets /\ Tail(held) \in Seq(Packets) /\ Len(Tail(held)) = Len(held) - 1
    BY <1>9 DEF ReceiveThrows
  <2> QED
    BY <1>9, <2>1 DEF ReceiveThrows
<1>10. CASE DecLock
  BY <1>10 DEF DecLock
<1>11. CASE AddFrame
  <2>1. decFrame \in Packets
    BY <1>11 DEF AddFrame, Packets
  <2>2. Append(graph, decFrame) \in Seq(Packets)
    BY <2>1
  <2> QED
    BY <1>11, <2>2 DEF AddFrame
<1>12. CASE AddFrameFails
  BY <1>12 DEF AddFrameFails, Packets
<1>13. CASE DecUnlock
  BY <1>13 DEF DecUnlock
<1>14. CASE Count
  BY <1>14 DEF Count
<1> QED
  BY <1>1, <1>2, <1>3, <1>4, <1>5, <1>6, <1>7, <1>8, <1>9, <1>10, <1>11, <1>12, <1>13, <1>14 DEF Reading, Decoding

(* Preserved by the encoder task. *)
LEMMA EncType ==
  ASSUME TypeOK, PlaceInv, TaskInv, Encoding PROVE TypeOK' /\ PlaceInv' /\ TaskInv'
<1> USE DEF TypeOK, PlaceInv, TaskInv
<1>1. CASE EncCheck
  BY <1>1 DEF EncCheck
<1>2. CASE EncLock
  BY <1>2 DEF EncLock
<1>3. CASE PopFrame
  <2>1. Head(graph) \in Packets /\ Tail(graph) \in Seq(Packets)
    BY <1>3 DEF PopFrame
  <2> QED
    BY <1>3, <2>1 DEF PopFrame, Packets
<1>4. CASE PopNothing
  BY <1>4 DEF PopNothing
<1>5. CASE EncUnlock
  BY <1>5 DEF EncUnlock
<1>6. CASE Encode
  <2>1. encFrame \in Packets
    BY <1>6 DEF Encode, Packets
  <2>2. Append(encoded, encFrame) \in Seq(Packets)
    BY <2>1
  <2> QED
    BY <1>6, <2>2 DEF Encode
<1>7. CASE EncodeFails
  BY <1>7 DEF EncodeFails, Packets
<1> QED
  BY <1>1, <1>2, <1>3, <1>4, <1>5, <1>6, <1>7 DEF Encoding

(* Preserved by every step.                                                *)
LEMMA TypeStep ==
  ASSUME TypeOK, PlaceInv, TaskInv, [Next]_vars PROVE TypeOK' /\ PlaceInv' /\ TaskInv'
<1>1. CASE UNCHANGED vars
  BY <1>1 DEF vars, TypeOK, PlaceInv, TaskInv
<1> QED
  BY <1>1, CtlType, DecType, EncType DEF Next, Rest

(* Types and places hold in every reachable state.                         *)
THEOREM Typed == Spec => [](TypeOK /\ PlaceInv /\ TaskInv)
<1>1. TypeOK /\ PlaceInv /\ TaskInv /\ [Next]_vars => (TypeOK /\ PlaceInv /\ TaskInv)'
  BY TypeStep
<1> QED
  BY <1>1, InitType, PTL DEF Spec

(* Type correctness.                                                       *)
THEOREM TypeCorrect == Spec => []TypeOK
  BY Typed, PTL

(* The filter graph is used by one thread at a time: by the tasks under    *)
(* filterGraphMtx, by the destructor after both tasks were joined.         *)
THEOREM OneUser == Spec => []GraphHasOneUser
<1>1. TaskInv => GraphHasOneUser
  BY DEF TaskInv, GraphHasOneUser
<1> QED
  BY <1>1, Typed, PTL

(* After a read that failed no packet is read: the decoder task looks at   *)
(* readError before every read, and only run() resets it.                  *)
THEOREM StaysFailed == Spec => ErrorIsFinal
<1>1. TypeOK /\ TaskInv /\ [Next]_vars
        => [readError /\ pc[Ctl] # "ready" => readError' /\ next' = next]_vars
  <2> SUFFICES ASSUME TypeOK, TaskInv, Next, readError, pc[Ctl] # "ready"
               PROVE  readError' /\ next' = next
    OBVIOUS
  <2> USE DEF TypeOK, TaskInv
  <2>1. CASE Setup \/ StopDecoder \/ Stopping
    BY <2>1 DEF Setup, Stopping, InitOk, InitFails, GraphFails, RunDecoder, RunEncoder,
       StopDecoder, JoinDecoder, StopEncoder, JoinEncoder, Delete, DeleteHalfInit
  <2>2. CASE Reading \/ Decoding
    BY <2>2 DEF Reading, Decoding, DecCheck, ReadPacket, ReadNothing, ReadThrows, PushPacket,
       PushThrows, ReceiveFrame, ReceiveNothing, ReceiveThrows, DecLock, AddFrame,
       AddFrameFails, DecUnlock, Count
  <2>3. CASE Encoding
    BY <2>3 DEF Encoding, EncCheck, EncLock, PopFrame, PopNothing, EncUnlock, Encode,
       EncodeFails
  <2>4. CASE Rest
    BY <2>4 DEF Rest, vars
  <2> QED
    BY <2>1, <2>2, <2>3, <2>4 DEF Next
<1> QED
  BY <1>1, Typed, PTL DEF Spec, ErrorIsFinal

-----------------------------------------------------------------------------
(* Which packets are chosen *)

Remainder(n, r) == n % r

(* Division with a remainder, hidden from the solver from here on.         *)
LEMMA Division ==
  ASSUME NEW n \in Nat, NEW r \in Nat \ {0}
  PROVE  Remainder(n, r) \in 0..(r - 1) /\ \E q \in Nat : n = r * q + Remainder(n, r)
<1> DEFINE q == n \div r
           m == Remainder(n, r)
<1>1. q \in Nat
  OBVIOUS
<1>2. m \in 0..(r - 1)
  BY DEF Remainder
<1>3. m = n - r * q
  BY DEF Remainder
<1> HIDE DEF q, m
<1>4. r * q \in Nat
  BY <1>1
<1>5. n = r * q + m
  BY <1>2, <1>3, <1>4
<1> QED
  BY <1>1, <1>2, <1>5 DEF m

(* The remainder is unique.                                                *)
LEMMA Unique ==
  ASSUME NEW r \in Nat \ {0}, NEW p \in Nat, NEW q \in Nat,
         NEW a \in 0..(r - 1), NEW b \in 0..(r - 1), r * p + a = r * q + b
  PROVE  a = b
<1>1. r * (p - q) = b - a /\ r * (q - p) = a - b
  OBVIOUS
<1>2. p - q >= 1 => r * (p - q) >= r
  OBVIOUS
<1>3. q - p >= 1 => r * (q - p) >= r
  OBVIOUS
<1> QED
  BY <1>1, <1>2, <1>3

(* Counting by one, and back to 0 at r: what skippedFrames does.           *)
LEMMA Successor ==
  ASSUME NEW n \in Nat, NEW r \in Nat \ {0}
  PROVE  Remainder(n + 1, r) = IF Remainder(n, r) + 1 = r THEN 0 ELSE Remainder(n, r) + 1
<1> DEFINE a == Remainder(n, r)
           b == Remainder(n + 1, r)
<1>1. a \in 0..(r - 1) /\ \E q \in Nat : n = r * q + a
  BY Division
<1>2. b \in 0..(r - 1) /\ \E q \in Nat : n + 1 = r * q + b
  <2>1. n + 1 \in Nat
    OBVIOUS
  <2> QED
    BY <2>1, Division
<1> HIDE DEF a, b
<1>3. PICK p \in Nat : n = r * p + a
  BY <1>1
<1>4. PICK q \in Nat : n + 1 = r * q + b
  BY <1>2
<1>5. CASE a + 1 = r
  <2>1. n + 1 = r * (p + 1) + 0 /\ p + 1 \in Nat /\ 0 \in 0..(r - 1)
    BY <1>1, <1>3, <1>5
  <2>2. b = 0
    BY <1>2, <1>4, <2>1, Unique
  <2> QED
    BY <1>5, <2>2 DEF a, b
<1>6. CASE a + 1 # r
  <2>1. n + 1 = r * p + (a + 1) /\ a + 1 \in 0..(r - 1)
    BY <1>1, <1>3, <1>6
  <2>2. b = a + 1
    BY <1>2, <1>4, <2>1, Unique
  <2> QED
    BY <1>6, <2>2 DEF a, b
<1> QED
  BY <1>5, <1>6

(* It begins at 0.                                                         *)
LEMMA Zero == ASSUME NEW r \in Nat \ {0} PROVE Remainder(0, r) = 0
  BY DEF Remainder

(* The packets chosen up to n + 1, from those up to n.                     *)
LEMMA ChosenNext ==
  ASSUME TypeOK, NEW n \in Nat
  PROVE  Chosen(n + 1) = Chosen(n) \cup {k \in {n + 1} : Remainder(n, Ratio) = 0}
<1>1. \A m \in Nat : \A k : k \in Chosen(m) <=> k \in 1..m /\ Remainder(k - 1, Ratio) = 0
  BY DEF Chosen, Remainder
<1>2. \A k : k \in 1..(n + 1) <=> k \in 1..n \/ k = n + 1
  OBVIOUS
<1>3. (n + 1) - 1 = n /\ n + 1 \in Nat
  OBVIOUS
<1> QED
  BY <1>1, <1>2, <1>3

(* They are packets, and none is chosen before one was read.               *)
LEMMA ChosenUpTo == ASSUME NEW n \in Nat PROVE Chosen(n) \subseteq 1..n
  BY DEF Chosen

(* The counter of skipped packets counts the packets read, modulo Ratio,   *)
(* until a read fails.                                                     *)
SkipInv ==
  /\ pc[Dec] = "push" => skipped = 0 /\ Remainder(next - 1, Ratio) = 0
  /\ ~readError /\ pc[Dec] \in {"check", "read"} => skipped = Remainder(next, Ratio)
  /\ ~readError /\ pc[Dec] \in {"receive", "lock", "add", "unlock", "count"} =>
       next # 0 /\ skipped = Remainder(next - 1, Ratio)

Known == TypeOK /\ PlaceInv /\ TaskInv /\ SkipInv

(* SkipInv is preserved by every step.                                     *)
LEMMA SkipStep == ASSUME Known, [Next]_vars PROVE SkipInv'
<1> USE DEF Known, TypeOK, PlaceInv, TaskInv, SkipInv
<1>1. CASE UNCHANGED vars \/ Rest
  BY <1>1 DEF vars, Rest, Ratio
<1>2. CASE InitOk
  BY <1>2 DEF InitOk
<1>3. CASE RunDecoder
  <2>1. Ratio \in Nat \ {0} /\ Ratio' = Ratio
    BY <1>3 DEF RunDecoder, Ratio
  <2>2. Remainder(0, Ratio) = 0
    BY <2>1, Zero
  <2> QED
    BY <1>3, <2>1, <2>2 DEF RunDecoder
<1>4. CASE \/ InitFails \/ GraphFails \/ RunEncoder \/ StopDecoder \/ JoinDecoder
           \/ StopEncoder \/ JoinEncoder \/ Delete \/ DeleteHalfInit
  BY <1>4, SMTT(30) DEF InitFails, GraphFails, RunEncoder, StopDecoder, JoinDecoder, StopEncoder,
     JoinEncoder, Delete, DeleteHalfInit, Ratio
<1>5. CASE ReadPacket
  <2>1. next' = next + 1 /\ next' - 1 = next /\ next' # 0
    BY <1>5 DEF ReadPacket
  <2> QED
    BY <1>5, <2>1 DEF ReadPacket, Ratio
<1>6. CASE Count
  <2>1. Ratio \in Nat \ {0} /\ Ratio' = Ratio
    BY <1>6 DEF Count, Ratio
  <2>2. CASE ~readError
    <3> DEFINE n == next - 1
    <3>1. n \in Nat /\ n + 1 = next
      BY <1>6, <2>2 DEF Count
    <3>2. Remainder(n, Ratio) \in 0..(Ratio - 1)
      BY <2>1, <3>1, Division
    <3> HIDE DEF n
    <3>3. Remainder(next, Ratio) = IF skipped + 1 = Ratio THEN 0 ELSE skipped + 1
      <4>1. Remainder(n + 1, Ratio)
              = IF Remainder(n, Ratio) + 1 = Ratio THEN 0 ELSE Remainder(n, Ratio) + 1
        BY <2>1, <3>1, Successor
      <4>2. skipped = Remainder(n, Ratio)
        BY <1>6, <2>2 DEF Count, n
      <4> QED
        BY <3>1, <4>1, <4>2
    <3>4. skipped \in 0..(Ratio - 1)
      BY <1>6, <2>2, <3>2 DEF Count, n
    <3>5. skipped' = IF skipped + 1 = Ratio THEN 0 ELSE skipped + 1
      BY <1>6, <3>4 DEF Count, Ratio
    <3> QED
      BY <1>6, <2>1, <3>3, <3>5 DEF Count
  <2>3. CASE readError
    BY <1>6, <2>3 DEF Count
  <2> QED
    BY <2>2, <2>3
<1>7. CASE \/ DecCheck \/ ReadNothing \/ ReadThrows \/ PushPacket \/ PushThrows \/ ReceiveFrame
           \/ ReceiveNothing \/ ReceiveThrows \/ DecLock \/ AddFrame \/ AddFrameFails
           \/ DecUnlock
  BY <1>7, SMTT(30) DEF DecCheck, ReadNothing, ReadThrows, PushPacket, PushThrows, ReceiveFrame,
     ReceiveNothing, ReceiveThrows, DecLock, AddFrame, AddFrameFails, DecUnlock, Ratio
<1>8. CASE Encoding
  BY <1>8 DEF Encoding, EncCheck, EncLock, PopFrame, PopNothing, EncUnlock, Encode,
     EncodeFails, Ratio
<1> QED
  BY <1>1, <1>2, <1>3, <1>4, <1>5, <1>6, <1>7, <1>8
     DEF Next, Setup, Stopping, Reading, Decoding

-----------------------------------------------------------------------------
(* Sequences of packet numbers, and the sets of their members *)

Below(A, B) == \A x \in A, y \in B : x < y
Increasing(s) == \A i, j \in 1..Len(s) : i < j => s[i] < s[j]

(* A longer sequence has one number more.                                  *)
LEMMA Appended ==
  ASSUME NEW s \in Seq(Packets), NEW x \in Packets
  PROVE  /\ NumbersIn(Append(s, x)) = NumbersIn(s) \cup {x}
         /\ Increasing(s) /\ Below(NumbersIn(s), {x}) => Increasing(Append(s, x))
<1> DEFINE t == Append(s, x)
<1>1. /\ t \in Seq(Packets) /\ Len(t) = Len(s) + 1 /\ t[Len(s) + 1] = x
      /\ \A i \in 1..Len(s) : t[i] = s[i]
  OBVIOUS
<1> HIDE DEF t
<1>2. NumbersIn(t) = NumbersIn(s) \cup {x}
  BY <1>1 DEF NumbersIn
<1>3. Increasing(s) /\ Below(NumbersIn(s), {x}) => Increasing(t)
  BY <1>1 DEF NumbersIn, Increasing, Below
<1> QED
  BY <1>2, <1>3 DEF t

(* A sequence is its first number and the rest.                            *)
LEMMA Taken ==
  ASSUME NEW s \in Seq(Packets), s # <<>>
  PROVE  /\ NumbersIn(s) = {Head(s)} \cup NumbersIn(Tail(s)) /\ Head(s) \in Packets
         /\ Increasing(s) => Increasing(Tail(s)) /\ Below({Head(s)}, NumbersIn(Tail(s)))
<1> DEFINE t == Tail(s)
<1>1. /\ t \in Seq(Packets) /\ Len(t) = Len(s) - 1 /\ Len(s) >= 1 /\ s[1] = Head(s)
      /\ \A i \in 1..Len(t) : t[i] = s[i + 1]
  OBVIOUS
<1>2. Head(s) \in Packets
  OBVIOUS
<1> HIDE DEF t
<1>3. NumbersIn(s) = {s[1]} \cup NumbersIn(t)
  <2>1. \A i \in 1..Len(s) : i = 1 \/ (i - 1 \in 1..Len(t) /\ t[i - 1] = s[i])
    BY <1>1
  <2>2. NumbersIn(s) \subseteq {s[1]} \cup NumbersIn(t)
    BY <2>1, <1>1 DEF NumbersIn
  <2>3. {s[1]} \cup NumbersIn(t) \subseteq NumbersIn(s)
    BY <1>1 DEF NumbersIn
  <2> QED
    BY <2>2, <2>3
<1>4. Increasing(s) => Increasing(t) /\ Below({s[1]}, NumbersIn(t))
  BY <1>1, SMTT(30) DEF NumbersIn, Increasing, Below
<1> QED
  BY <1>1, <1>2, <1>3, <1>4 DEF t

(* The empty sequence.                                                     *)
LEMMA Nothing == NumbersIn(<<>>) = {} /\ Increasing(<<>>)
  BY DEF NumbersIn, Increasing

(* The numbers are packets.                                                *)
LEMMA ArePackets == ASSUME NEW s \in Seq(Packets) PROVE NumbersIn(s) \subseteq Packets
  BY DEF NumbersIn

(* Two sequences, one after the other.                                     *)
LEMMA Joined ==
  ASSUME NEW s \in Seq(Packets), NEW t \in Seq(Packets)
  PROVE  /\ s \o t \in Seq(Packets) /\ NumbersIn(s \o t) = NumbersIn(s) \cup NumbersIn(t)
         /\ Increasing(s) /\ Increasing(t) /\ Below(NumbersIn(s), NumbersIn(t))
              => Increasing(s \o t)
<1> DEFINE u == s \o t
<1>1. /\ u \in Seq(Packets) /\ Len(u) = Len(s) + Len(t)
      /\ \A i \in 1..Len(u) : u[i] = IF i <= Len(s) THEN s[i] ELSE t[i - Len(s)]
  BY ConcatProperties
<1> HIDE DEF u
<1>2. NumbersIn(u) = NumbersIn(s) \cup NumbersIn(t)
  <2>1. NumbersIn(u) \subseteq NumbersIn(s) \cup NumbersIn(t)
    <3>1. \A i \in 1..Len(u) : i <= Len(s) => i \in 1..Len(s)
      BY <1>1
    <3>2. \A i \in 1..Len(u) : ~(i <= Len(s)) => i - Len(s) \in 1..Len(t)
      BY <1>1
    <3> QED
      BY <1>1, <3>1, <3>2 DEF NumbersIn
  <2>2. NumbersIn(s) \subseteq NumbersIn(u)
    BY <1>1 DEF NumbersIn
  <2>3. NumbersIn(t) \subseteq NumbersIn(u)
    <3> SUFFICES ASSUME NEW i \in 1..Len(t) PROVE t[i] \in NumbersIn(u)
      BY DEF NumbersIn
    <3>1. Len(s) + i \in 1..Len(u) /\ u[Len(s) + i] = t[i]
      BY <1>1
    <3> QED
      BY <1>1, <3>1 DEF NumbersIn
  <2> QED
    BY <2>1, <2>2, <2>3
<1>3. ASSUME Increasing(s), Increasing(t), Below(NumbersIn(s), NumbersIn(t))
      PROVE  Increasing(u)
  <2> SUFFICES ASSUME NEW i \in 1..Len(u), NEW j \in 1..Len(u), i < j PROVE u[i] < u[j]
    BY DEF Increasing
  <2>1. CASE j <= Len(s)
    BY <1>1, <1>3, <2>1 DEF Increasing
  <2>2. CASE ~(j <= Len(s)) /\ i <= Len(s)
    <3>1. i \in 1..Len(s) /\ j - Len(s) \in 1..Len(t)
      BY <1>1, <2>2
    <3>2. s[i] \in NumbersIn(s) /\ t[j - Len(s)] \in NumbersIn(t)
      BY <3>1 DEF NumbersIn
    <3> QED
      BY <1>1, <1>3, <2>2, <3>2 DEF Below
  <2>3. CASE ~(i <= Len(s))
    <3>1. i - Len(s) \in 1..Len(t) /\ j - Len(s) \in 1..Len(t) /\ i - Len(s) < j - Len(s)
      BY <1>1, <2>3
    <3>2. u[i] = t[i - Len(s)] /\ u[j] = t[j - Len(s)]
      BY <1>1, <2>3
    <3> QED
      BY <1>3, <3>1, <3>2 DEF Increasing
  <2> QED
    BY <2>1, <2>2, <2>3
<1> QED
  BY <1>1, <1>2, <1>3 DEF u

-----------------------------------------------------------------------------
(* The pipeline *)

InEnc == {encFrame} \ {0}
InDec == {decFrame} \ {0}
All == NumbersIn(encoded) \cup InEnc \cup NumbersIn(graph) \cup InDec \cup NumbersIn(held)

(* The parts of the pipeline are in order, and in order to each other.     *)
OrderInv ==
  /\ Increasing(encoded) /\ Increasing(graph) /\ Increasing(held)
  /\ Below(NumbersIn(encoded), InEnc \cup NumbersIn(graph) \cup InDec \cup NumbersIn(held))
  /\ Below(InEnc, NumbersIn(graph) \cup InDec \cup NumbersIn(held))
  /\ Below(NumbersIn(graph), InDec \cup NumbersIn(held))
  /\ Below(InDec, NumbersIn(held))

(* ChosenAccountedFor, in terms of the parts.                              *)
AccountInv == All \cup lost = Chosen(Pushed) /\ All \cap lost = {}

Flow == OrderInv /\ AccountInv

(* Initially the pipeline is empty.                                        *)
LEMMA InitFlow == Init => SkipInv /\ Flow
<1> SUFFICES ASSUME Init PROVE SkipInv /\ Flow
  OBVIOUS
<1>1. pc[Dec] = "off"
  BY DEF Init
<1>2. /\ NumbersIn(encoded) = {} /\ NumbersIn(graph) = {} /\ NumbersIn(held) = {}
      /\ Increasing(encoded) /\ Increasing(graph) /\ Increasing(held)
  BY Nothing DEF Init
<1>3. InEnc = {} /\ InDec = {} /\ lost = {}
  BY DEF Init, InEnc, InDec
<1>4. OrderInv /\ All = {}
  BY <1>2, <1>3 DEF OrderInv, Below, All
<1>5. Chosen(Pushed) = {}
  BY <1>1, ChosenUpTo DEF Init, Pushed
<1> QED
  BY <1>1, <1>3, <1>4, <1>5 DEF SkipInv, Flow, AccountInv

(* All that is in the pipeline or lost is a packet that was pushed.        *)
LEMMA FlowBound ==
  ASSUME Known, Flow
  PROVE  /\ Pushed \in Nat /\ All \cup lost \subseteq 1..Pushed
         /\ NumbersIn(encoded) \subseteq Nat /\ NumbersIn(graph) \subseteq Nat
         /\ NumbersIn(held) \subseteq Nat /\ InEnc \subseteq Nat /\ InDec \subseteq Nat
<1>1. Pushed \in Nat
  BY DEF Known, TypeOK, PlaceInv, Pushed
<1>2. All \cup lost \subseteq 1..Pushed
  BY <1>1, ChosenUpTo DEF Flow, AccountInv
<1> QED
  BY <1>1, <1>2 DEF All

(* Steps that move no frame: the chosen packets are the same.              *)
LEMMA Unmoved ==
  ASSUME Flow, UNCHANGED <<encoded, encFrame, graph, decFrame, held, lost>>,
         Chosen(Pushed)' = Chosen(Pushed)
  PROVE  Flow'
  BY DEF Flow, OrderInv, AccountInv, All, InEnc, InDec, Increasing, Below, NumbersIn

(* Preserved by the thread that owns the Transcoder.                       *)
LEMMA CtlFlow == ASSUME Known, Flow, Setup \/ StopDecoder \/ Stopping PROVE Flow'
<1> USE DEF Known
<1>1. CASE InitOk
  <2>1. next = 0 /\ pc[Dec] = "off" /\ next' = 0 /\ pc'[Dec] = "off"
    BY <1>1 DEF InitOk, TypeOK, PlaceInv, TaskInv
  <2>2. Pushed = 0 /\ Pushed' = 0
    BY <2>1 DEF Pushed
  <2>3. Chosen(Pushed) = {} /\ Chosen(Pushed)' = {}
    BY <2>2 DEF Chosen
  <2> QED
    BY <1>1, <2>3, Unmoved DEF InitOk
<1>2. CASE Delete
  <2>1. graph' = <<>> /\ held' = <<>> /\ lost' = lost \cup NumbersIn(graph) \cup NumbersIn(held)
        /\ UNCHANGED <<encoded, encFrame, decFrame, skipFrames, next>>
    BY <1>2 DEF Delete
  <2>2. /\ NumbersIn(graph') = {} /\ NumbersIn(held') = {}
        /\ Increasing(graph') /\ Increasing(held')
    BY <2>1, Nothing
  <2>3. UNCHANGED <<NumbersIn(encoded), Increasing(encoded), InEnc, InDec>>
    BY <2>1 DEF NumbersIn, Increasing, InEnc, InDec
  <2>4. Chosen(Pushed)' = Chosen(Pushed)
    BY <1>2, <2>1 DEF Delete, TypeOK, TaskInv, Chosen, Pushed, Ratio
  <2>5. OrderInv'
    BY <2>2, <2>3 DEF Flow, OrderInv, Below
  <2>6. AccountInv'
    <3>1. All' = NumbersIn(encoded) \cup InEnc \cup InDec
      BY <2>2, <2>3 DEF All
    <3>2. lost' = lost \cup NumbersIn(graph) \cup NumbersIn(held)
      BY <2>1
    <3>3. All' \cap (NumbersIn(graph) \cup NumbersIn(held)) = {}
      BY <3>1, FlowBound DEF Flow, OrderInv, Below
    <3> QED
      BY <2>4, <3>1, <3>2, <3>3 DEF Flow, AccountInv, All
  <2> QED
    BY <2>5, <2>6 DEF Flow
<1>3. CASE \/ InitFails \/ GraphFails \/ RunDecoder \/ RunEncoder \/ StopDecoder \/ JoinDecoder
           \/ StopEncoder \/ JoinEncoder \/ DeleteHalfInit
  <2>1. UNCHANGED <<encoded, encFrame, graph, decFrame, held, lost, skipFrames, next>>
    BY <1>3 DEF InitFails, GraphFails, RunDecoder, RunEncoder, StopDecoder, JoinDecoder,
       StopEncoder, JoinEncoder, DeleteHalfInit
  <2>2. pc'[Dec] = "push" <=> pc[Dec] = "push"
    BY <1>3 DEF InitFails, GraphFails, RunDecoder, RunEncoder, StopDecoder, JoinDecoder,
       StopEncoder, JoinEncoder, DeleteHalfInit, TypeOK, TaskInv
  <2>3. Chosen(Pushed)' = Chosen(Pushed)
    BY <2>1, <2>2 DEF Chosen, Pushed, Ratio
  <2> QED
    BY <2>1, <2>3, Unmoved
<1> QED
  BY <1>1, <1>2, <1>3 DEF Setup, Stopping

(* Preserved by the decoder task: reading and decoding.                    *)
LEMMA DecFlow == ASSUME Known, Flow, Reading \/ Decoding PROVE Flow'
<1> USE DEF Known
<1>1. CASE ReadPacket
  <2>1. UNCHANGED <<encoded, encFrame, graph, decFrame, held, lost, skipFrames>>
        /\ next' = next + 1
    BY <1>1 DEF ReadPacket
  <2>2. Chosen(Pushed)' = Chosen(Pushed)
    <3>1. CASE skipped = 0
      <4>1. pc[Dec] = "read" /\ pc'[Dec] = "push"
        BY <1>1, <3>1 DEF ReadPacket, TypeOK
      <4>2. Pushed = next /\ Pushed' = next
        BY <2>1, <4>1 DEF Pushed, TypeOK
      <4> QED
        BY <2>1, <4>2 DEF Chosen, Ratio
    <3>2. CASE skipped # 0
      <4>1. pc[Dec] = "read" /\ pc'[Dec] = "count" /\ ~readError
        BY <1>1, <3>2 DEF ReadPacket, TypeOK, TaskInv
      <4>2. Pushed = next /\ Pushed' = next + 1 /\ next \in Nat
        BY <2>1, <4>1 DEF Pushed, TypeOK
      <4>3. Remainder(next, Ratio) # 0
        BY <3>2, <4>1 DEF SkipInv
      <4>4. Chosen(next + 1) = Chosen(next)
        BY <4>2, <4>3, ChosenNext
      <4>5. Chosen(Pushed)' = Chosen(next + 1)
        BY <2>1, <4>2 DEF Chosen, Ratio
      <4> QED
        BY <4>2, <4>4, <4>5
    <3> QED
      BY <3>1, <3>2
  <2> QED
    BY <2>1, <2>2, Unmoved
<1>2. CASE \/ DecCheck \/ ReadNothing \/ ReadThrows \/ ReceiveNothing \/ DecLock \/ DecUnlock
           \/ Count
  <2>1. UNCHANGED <<encoded, encFrame, graph, decFrame, held, lost, skipFrames, next>>
        /\ pc[Dec] # "push" /\ pc'[Dec] # "push"
    BY <1>2 DEF DecCheck, ReadNothing, ReadThrows, ReceiveNothing, DecLock, DecUnlock, Count,
       TypeOK
  <2>2. Chosen(Pushed)' = Chosen(Pushed)
    BY <2>1 DEF Chosen, Pushed, Ratio
  <2> QED
    BY <2>1, <2>2, Unmoved
<1>3. CASE PushPacket \/ PushThrows
  <2>1. pc[Dec] = "push" /\ pc'[Dec] # "push" /\ next \in Packets
        /\ next \in Nat /\ next - 1 \in Nat /\ (next - 1) + 1 = next
        /\ UNCHANGED <<encoded, encFrame, graph, decFrame, skipFrames, next>>
    <3>1. next \in 1..MaxPackets
      BY <1>3 DEF PushPacket, PushThrows, TypeOK, PlaceInv
    <3> QED
      BY <1>3, <3>1 DEF PushPacket, PushThrows, TypeOK, Packets
  <2>2. Pushed = next - 1 /\ Pushed' = next
    BY <2>1 DEF Pushed
  <2>3. Chosen(Pushed)' = Chosen(Pushed) \cup {next}
    <3>1. Remainder(next - 1, Ratio) = 0
      BY <2>1 DEF SkipInv
    <3>2. Chosen((next - 1) + 1) = Chosen(next - 1) \cup {(next - 1) + 1}
      BY <2>1, <3>1, ChosenNext
    <3>3. Chosen(Pushed)' = Chosen(next)
      BY <2>1, <2>2 DEF Chosen, Ratio
    <3> QED
      BY <2>1, <2>2, <3>2, <3>3
  <2>4. next \notin All \cup lost /\ Below(All, {next})
    <3>1. All \cup lost \subseteq 1..(next - 1)
      BY <2>2, FlowBound
    <3> QED
      BY <2>1, <3>1 DEF Below
  <2>5. UNCHANGED <<NumbersIn(encoded), Increasing(encoded), NumbersIn(graph),
                    Increasing(graph), InEnc, InDec>>
    BY <2>1 DEF NumbersIn, Increasing, InEnc, InDec
  <2>6. CASE PushPacket
    <3>1. held' = Append(held, next) /\ held \in Seq(Packets) /\ lost' = lost
      BY <2>6 DEF PushPacket, TypeOK
    <3>2. /\ NumbersIn(held') = NumbersIn(held) \cup {next}
          /\ Increasing(held) /\ Below(NumbersIn(held), {next}) => Increasing(held')
      BY <2>1, <3>1, Appended
    <3>3. OrderInv'
      BY <2>4, <2>5, <3>2 DEF Flow, OrderInv, Below, All
    <3>4. All' = All \cup {next}
      BY <2>5, <3>2 DEF All
    <3> QED
      BY <2>3, <2>4, <3>1, <3>3, <3>4 DEF Flow, AccountInv
  <2>7. CASE PushThrows
    <3>1. held' = held /\ lost' = lost \cup {next}
      BY <2>7 DEF PushThrows
    <3>2. UNCHANGED <<NumbersIn(held), Increasing(held)>>
      BY <3>1 DEF NumbersIn, Increasing
    <3>3. OrderInv'
      BY <2>5, <3>2 DEF Flow, OrderInv, Below
    <3>4. All' = All
      BY <2>5, <3>2 DEF All
    <3> QED
      BY <2>3, <2>4, <3>1, <3>3, <3>4 DEF Flow, AccountInv
  <2> QED
    BY <1>3, <2>6, <2>7
<1>4. CASE ReceiveFrame \/ ReceiveThrows
  <2>1. held \in Seq(Packets) /\ held # <<>> /\ held' = Tail(held) /\ InDec = {}
        /\ UNCHANGED <<encoded, encFrame, graph, skipFrames, next>>
        /\ pc[Dec] # "push" /\ pc'[Dec] # "push"
    BY <1>4 DEF ReceiveFrame, ReceiveThrows, TypeOK, PlaceInv, InDec
  <2>2. /\ NumbersIn(held) = {Head(held)} \cup NumbersIn(held') /\ Head(held) \in Packets
        /\ Increasing(held) => Increasing(held') /\ Below({Head(held)}, NumbersIn(held'))
    BY <2>1, Taken
  <2>3. UNCHANGED <<NumbersIn(encoded), Increasing(encoded), NumbersIn(graph),
                    Increasing(graph), InEnc>>
    BY <2>1 DEF NumbersIn, Increasing, InEnc
  <2>4. Chosen(Pushed)' = Chosen(Pushed)
    BY <2>1 DEF Chosen, Pushed, Ratio
  <2>5. CASE ReceiveFrame
    <3>1. decFrame' = Head(held) /\ lost' = lost
      BY <2>5 DEF ReceiveFrame
    <3>2. InDec' = {Head(held)}
      BY <2>2, <3>1 DEF InDec, Packets
    <3>3. OrderInv'
      BY <2>1, <2>2, <2>3, <3>2 DEF Flow, OrderInv, Below
    <3>4. All' = All
      BY <2>1, <2>2, <2>3, <3>2 DEF All
    <3> QED
      BY <2>4, <3>1, <3>3, <3>4 DEF Flow, AccountInv
  <2>6. CASE ReceiveThrows
    <3>1. decFrame' = decFrame /\ lost' = lost \cup {Head(held)}
      BY <2>6 DEF ReceiveThrows
    <3>2. InDec' = {}
      BY <2>1, <3>1 DEF InDec
    <3>3. OrderInv'
      BY <2>1, <2>2, <2>3, <3>2 DEF Flow, OrderInv, Below
    <3>4. All' \cup {Head(held)} = All
      BY <2>1, <2>2, <2>3, <3>2 DEF All
    <3>5. Head(held) \notin All'
      <4>1. Head(held) \in NumbersIn(held) /\ Head(held) \in Nat
        BY <2>2 DEF Packets
      <4>2. Below(NumbersIn(encoded) \cup InEnc \cup NumbersIn(graph), {Head(held)})
        BY <4>1 DEF Flow, OrderInv, Below
      <4>3. Below({Head(held)}, NumbersIn(held'))
        BY <2>2 DEF Flow, OrderInv
      <4>4. All' = NumbersIn(encoded) \cup InEnc \cup NumbersIn(graph) \cup NumbersIn(held')
        BY <2>1, <2>3, <3>2 DEF All
      <4> QED
        BY <4>1, <4>2, <4>3, <4>4 DEF Below
    <3> QED
      BY <2>4, <3>1, <3>3, <3>4, <3>5 DEF Flow, AccountInv
  <2> QED
    BY <1>4, <2>5, <2>6
<1>5. CASE AddFrame \/ AddFrameFails
  <2>1. decFrame \in Packets /\ InDec = {decFrame} /\ InDec' = {} /\ graph \in Seq(Packets)
        /\ UNCHANGED <<encoded, encFrame, held, skipFrames, next>>
        /\ pc[Dec] # "push" /\ pc'[Dec] # "push"
    BY <1>5 DEF AddFrame, AddFrameFails, TypeOK, PlaceInv, InDec, Packets
  <2>2. UNCHANGED <<NumbersIn(encoded), Increasing(encoded), NumbersIn(held),
                    Increasing(held), InEnc>>
    BY <2>1 DEF NumbersIn, Increasing, InEnc
  <2>3. Chosen(Pushed)' = Chosen(Pushed)
    BY <2>1 DEF Chosen, Pushed, Ratio
  <2>4. CASE AddFrame
    <3>1. graph' = Append(graph, decFrame) /\ lost' = lost
      BY <2>4 DEF AddFrame
    <3>2. /\ NumbersIn(graph') = NumbersIn(graph) \cup {decFrame}
          /\ Increasing(graph) /\ Below(NumbersIn(graph), {decFrame}) => Increasing(graph')
      BY <2>1, <3>1, Appended
    <3>3. OrderInv'
      BY <2>1, <2>2, <3>2 DEF Flow, OrderInv, Below
    <3>4. All' = All
      BY <2>1, <2>2, <3>2 DEF All
    <3> QED
      BY <2>3, <3>1, <3>3, <3>4 DEF Flow, AccountInv
  <2>5. CASE AddFrameFails
    <3>1. graph' = graph /\ lost' = lost \cup {decFrame}
      BY <2>5 DEF AddFrameFails
    <3>2. NumbersIn(graph') = NumbersIn(graph) /\ (Increasing(graph') <=> Increasing(graph))
      BY <3>1 DEF NumbersIn, Increasing
    <3>3. OrderInv'
      BY <2>1, <2>2, <3>2 DEF Flow, OrderInv, Below
    <3>4. All' \cup {decFrame} = All
      BY <2>1, <2>2, <3>2 DEF All
    <3>5. decFrame \notin All'
      BY <2>1, <2>2, <3>2, FlowBound, SMTT(30) DEF Flow, OrderInv, Below, All
    <3> QED
      BY <2>3, <3>1, <3>3, <3>4, <3>5 DEF Flow, AccountInv
  <2> QED
    BY <1>5, <2>4, <2>5
<1> QED
  BY <1>1, <1>2, <1>3, <1>4, <1>5 DEF Reading, Decoding

(* Preserved by the encoder task.                                          *)
LEMMA EncFlow == ASSUME Known, Flow, Encoding PROVE Flow'
<1> USE DEF Known
<1>1. UNCHANGED <<decFrame, held, skipFrames, next>> /\ pc'[Dec] = pc[Dec]
  BY DEF Encoding, EncCheck, EncLock, PopFrame, PopNothing, EncUnlock, Encode, EncodeFails, TypeOK
<1>2. Chosen(Pushed)' = Chosen(Pushed)
  BY <1>1 DEF Chosen, Pushed, Ratio
<1>3. UNCHANGED <<NumbersIn(held), Increasing(held), InDec>>
  BY <1>1 DEF NumbersIn, Increasing, InDec
<1>4. CASE EncCheck \/ EncLock \/ PopNothing \/ EncUnlock
  <2>1. UNCHANGED <<encoded, encFrame, graph, lost>>
    BY <1>4 DEF EncCheck, EncLock, PopNothing, EncUnlock
  <2> QED
    BY <1>1, <1>2, <2>1, Unmoved
<1>5. CASE PopFrame
  <2>1. graph \in Seq(Packets) /\ graph # <<>> /\ graph' = Tail(graph) /\ encFrame' = Head(graph)
        /\ InEnc = {} /\ UNCHANGED <<encoded, lost>>
    BY <1>5 DEF PopFrame, TypeOK, PlaceInv, InEnc
  <2>2. /\ NumbersIn(graph) = {Head(graph)} \cup NumbersIn(graph') /\ Head(graph) \in Packets
        /\ Increasing(graph) => Increasing(graph') /\ Below({Head(graph)}, NumbersIn(graph'))
    BY <2>1, Taken
  <2>3. UNCHANGED <<NumbersIn(encoded), Increasing(encoded)>> /\ InEnc' = {Head(graph)}
    BY <2>1, <2>2 DEF NumbersIn, Increasing, InEnc, Packets
  <2>4. OrderInv'
    BY <1>3, <2>1, <2>2, <2>3 DEF Flow, OrderInv, Below
  <2>5. All' = All
    BY <1>3, <2>1, <2>2, <2>3 DEF All
  <2> QED
    BY <1>2, <2>1, <2>4, <2>5 DEF Flow, AccountInv
<1>6. CASE Encode \/ EncodeFails
  <2>1. encFrame \in Packets /\ InEnc = {encFrame} /\ InEnc' = {} /\ encoded \in Seq(Packets)
        /\ graph' = graph
    BY <1>6 DEF Encode, EncodeFails, TypeOK, PlaceInv, InEnc, Packets
  <2>2. UNCHANGED <<NumbersIn(graph), Increasing(graph)>>
    BY <2>1 DEF NumbersIn, Increasing
  <2>3. CASE Encode
    <3>1. encoded' = Append(encoded, encFrame) /\ lost' = lost
      BY <2>3 DEF Encode
    <3>2. /\ NumbersIn(encoded') = NumbersIn(encoded) \cup {encFrame}
          /\ Increasing(encoded) /\ Below(NumbersIn(encoded), {encFrame}) => Increasing(encoded')
      BY <2>1, <3>1, Appended
    <3>3. OrderInv'
      BY <1>3, <2>1, <2>2, <3>2 DEF Flow, OrderInv, Below
    <3>4. All' = All
      BY <1>3, <2>1, <2>2, <3>2 DEF All
    <3> QED
      BY <1>2, <3>1, <3>3, <3>4 DEF Flow, AccountInv
  <2>4. CASE EncodeFails
    <3>1. encoded' = encoded /\ lost' = lost \cup {encFrame}
      BY <2>4 DEF EncodeFails
    <3>2. UNCHANGED <<NumbersIn(encoded), Increasing(encoded)>>
      BY <3>1 DEF NumbersIn, Increasing
    <3>3. OrderInv'
      BY <1>3, <2>1, <2>2, <3>2 DEF Flow, OrderInv, Below
    <3>4. All' \cup {encFrame} = All
      BY <1>3, <2>1, <2>2, <3>2 DEF All
    <3>5. encFrame \notin All'
      BY <1>3, <2>1, <2>2, <3>2, FlowBound DEF Flow, OrderInv, Below, All
    <3> QED
      BY <1>2, <3>1, <3>3, <3>4, <3>5 DEF Flow, AccountInv
  <2> QED
    BY <1>6, <2>3, <2>4
<1> QED
  BY <1>4, <1>5, <1>6 DEF Encoding

(* Preserved by every step.                                                *)
LEMMA FlowStep == ASSUME Known, Flow, [Next]_vars PROVE Flow'
<1>1. CASE UNCHANGED vars \/ Rest
  <2>1. UNCHANGED <<encoded, encFrame, graph, decFrame, held, lost, skipFrames, next, pc>>
    BY <1>1 DEF vars, Rest
  <2>2. Chosen(Pushed)' = Chosen(Pushed)
    BY <2>1 DEF Chosen, Pushed, Ratio
  <2> QED
    BY <2>1, <2>2, Unmoved
<1> QED
  BY <1>1, CtlFlow, DecFlow, EncFlow DEF Next

-----------------------------------------------------------------------------
(* What the order of the parts says of the whole *)

(* Pipeline is one increasing sequence of the members of its parts.        *)
LEMMA Whole ==
  ASSUME TypeOK, OrderInv PROVE Increasing(Pipeline) /\ NumbersIn(Pipeline) = All
<1>1. \A f \in 0..MaxPackets :
        One(f) \in Seq(Packets) /\ NumbersIn(One(f)) = {f} \ {0} /\ Increasing(One(f))
  <2> SUFFICES ASSUME NEW f \in 0..MaxPackets
               PROVE  One(f) \in Seq(Packets) /\ NumbersIn(One(f)) = {f} \ {0}
                      /\ Increasing(One(f))
    OBVIOUS
  <2>1. CASE f = 0
    BY <2>1, Nothing DEF One
  <2>2. CASE f # 0
    <3>1. f \in Packets /\ One(f) = <<f>>
      BY <2>2 DEF Packets, One
    <3>2. NumbersIn(<<f>>) = {f} /\ Increasing(<<f>>)
      BY <3>1 DEF NumbersIn, Increasing
    <3> QED
      BY <2>2, <3>1, <3>2
  <2> QED
    BY <2>1, <2>2
<1> DEFINE e == One(encFrame)
           d == One(decFrame)
           s1 == encoded \o e
           s2 == s1 \o graph
           s3 == s2 \o d
<1>2. /\ encoded \in Seq(Packets) /\ graph \in Seq(Packets) /\ held \in Seq(Packets)
      /\ e \in Seq(Packets) /\ NumbersIn(e) = InEnc /\ Increasing(e)
      /\ d \in Seq(Packets) /\ NumbersIn(d) = InDec /\ Increasing(d)
  BY <1>1 DEF TypeOK, InEnc, InDec
<1>3. Pipeline = s3 \o held
  BY DEF Pipeline
<1> HIDE DEF e, d
<1>4. /\ s1 \in Seq(Packets) /\ NumbersIn(s1) = NumbersIn(encoded) \cup InEnc
      /\ Increasing(s1)
  BY <1>2, Joined DEF OrderInv, Below
<1> HIDE DEF s1
<1>5. /\ s2 \in Seq(Packets) /\ NumbersIn(s2) = NumbersIn(s1) \cup NumbersIn(graph)
      /\ Increasing(s2)
  <2>1. Below(NumbersIn(s1), NumbersIn(graph))
    BY <1>4 DEF OrderInv, Below
  <2> QED
    BY <1>2, <1>4, <2>1, Joined DEF OrderInv
<1> HIDE DEF s2
<1>6. /\ s3 \in Seq(Packets) /\ NumbersIn(s3) = NumbersIn(s2) \cup InDec
      /\ Increasing(s3)
  <2>1. Below(NumbersIn(s2), InDec)
    BY <1>4, <1>5 DEF OrderInv, Below
  <2> QED
    BY <1>2, <1>5, <2>1, Joined
<1> HIDE DEF s3
<1>7. NumbersIn(s3 \o held) = NumbersIn(s3) \cup NumbersIn(held) /\ Increasing(s3 \o held)
  <2>1. Below(NumbersIn(s3), NumbersIn(held))
    BY <1>4, <1>5, <1>6 DEF OrderInv, Below
  <2> QED
    BY <1>2, <1>6, <2>1, Joined DEF OrderInv
<1> QED
  BY <1>3, <1>4, <1>5, <1>6, <1>7 DEF All

(* The flow of the frames, in every reachable state.                       *)
THEOREM Flowing == Spec => [](Known /\ Flow)
<1>1. Known /\ Flow /\ [Next]_vars => SkipInv' /\ Flow'
  BY SkipStep, FlowStep
<1>2. Known <=> TypeOK /\ PlaceInv /\ TaskInv /\ SkipInv
  BY DEF Known
<1> QED
  BY <1>1, <1>2, InitFlow, Typed, PTL DEF Spec

(* Frames are encoded in the order of their packets, none twice.           *)
THEOREM Ordered == Spec => []InOrder
<1>1. Known /\ Flow => InOrder
  BY Whole DEF Known, Flow, InOrder, Increasing
<1> QED
  BY <1>1, Flowing, PTL

(* Each chosen packet is in one place or was dropped, and no other packet  *)
(* is anywhere.                                                            *)
THEOREM Accounted == Spec => []ChosenAccountedFor
<1>1. Known /\ Flow => ChosenAccountedFor
  BY Whole DEF Known, Flow, AccountInv, ChosenAccountedFor
<1> QED
  BY <1>1, Flowing, PTL

=============================================================================
