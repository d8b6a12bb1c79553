---------------------------- MODULE ChunkStream ----------------------------
(***************************************************************************)
(* What the Application promises about a stream: the chunks of one stream  *)
(* are delivered in the order they were made, none twice, none in another  *)
(* stream, and none is lost while the stream is open.  What is still       *)
(* pending when the stream closes may be dropped.                          *)
(***************************************************************************)
EXTENDS Integers, Sequences, TLAPS

CONSTANTS MaxStreams, MaxChunks   \* bounds: streams, chunks per stream

VARIABLES
  stream,     \* the number of the last stream that was opened
  phase,      \* "open", "closing" or "closed"
  made,       \* chunks made in this stream
  pending,    \* chunks made and not delivered, oldest first
  delivered   \* chunks delivered in this stream, in order

vars == <<stream, phase, made, pending, delivered>>

Init == stream = 0 /\ phase = "closed" /\ made = 0 /\ pending = <<>> /\ delivered = <<>>

Open ==
  /\ phase = "closed" /\ stream < MaxStreams
  /\ stream' = stream + 1 /\ phase' = "open"
  /\ made' = 0 /\ pending' = <<>> /\ delivered' = <<>>

Make ==
  /\ phase = "open" /\ made < MaxChunks
  /\ made' = made + 1
  /\ pending' = Append(pending, made + 1)
  /\ UNCHANGED <<stream, phase, delivered>>

Deliver ==
  /\ phase # "closed" /\ pending # <<>>
  /\ delivered' = Append(delivered, Head(pending))
  /\ pending' = Tail(pending)
  /\ UNCHANGED <<stream, phase, made>>

Close ==
  /\ phase = "open"
  /\ phase' = "closing"
  /\ UNCHANGED <<stream, made, pending, delivered>>

Drop ==
  /\ phase = "closing" /\ pending # <<>>
  /\ pending' = Tail(pending)
  /\ UNCHANGED <<stream, phase, made, delivered>>

Closed ==
  /\ phase = "closing"
  /\ phase' = "closed" /\ pending' = <<>>
  /\ UNCHANGED <<stream, made, delivered>>

Next == Open \/ Make \/ Deliver \/ Close \/ Drop \/ Closed

Spec == Init /\ [][Next]_vars

-----------------------------------------------------------------------------
(* What this means *)

(* Nothing is delivered twice or before what was made earlier.             *)
InOrder == \A i, j \in 1..Len(delivered) : i < j => delivered[i] < delivered[j]

(* While the stream is open everything that was made is delivered or       *)
(* pending.                                                                *)
Lossless ==
  phase = "open" => /\ Len(delivered) + Len(pending) = made
                    /\ \A i \in 1..Len(delivered) : delivered[i] = i

(* The newest of m chunks, without a gap: they still are when another one  *)
(* is made, and when the oldest of them is taken away.                     *)
Newest(m, s) == Len(s) <= m /\ \A i \in 1..Len(s) : s[i] = m - Len(s) + i

LEMMA MakeOne ==
  ASSUME NEW m \in Nat, NEW s \in Seq(Nat), Newest(m, s)
  PROVE  /\ Append(s, m + 1) \in Seq(Nat) /\ Len(Append(s, m + 1)) = Len(s) + 1
         /\ Newest(m + 1, Append(s, m + 1))
  BY DEF Newest

LEMMA TakeOne ==
  ASSUME NEW m \in Nat, NEW s \in Seq(Nat), Newest(m, s), s # <<>>
  PROVE  /\ Tail(s) \in Seq(Nat) /\ Len(Tail(s)) = Len(s) - 1
         /\ Newest(m, Tail(s)) /\ Head(s) = m - Len(Tail(s)) /\ Head(s) \in Nat
  BY DEF Newest

(* What was delivered up to chunk n is in order; so is what is delivered   *)
(* with a later chunk at its end.                                          *)
Upto(n, s) == /\ \A i \in 1..Len(s) : s[i] <= n
              /\ \A i, j \in 1..Len(s) : i < j => s[i] < s[j]

LEMMA DeliverOne ==
  ASSUME NEW n \in Nat, NEW k \in Nat, n < k, NEW s \in Seq(Nat), Upto(n, s)
  PROVE  /\ Append(s, k) \in Seq(Nat) /\ Len(Append(s, k)) = Len(s) + 1
         /\ Upto(k, Append(s, k)) /\ Append(s, k)[Len(s) + 1] = k
         /\ \A i \in 1..Len(s) : Append(s, k)[i] = s[i]
  BY DEF Upto

(* What is pending are the newest chunks; what was delivered is in order   *)
(* and was made before them.                                               *)
Numbered ==
  /\ made \in Nat /\ pending \in Seq(Nat) /\ delivered \in Seq(Nat)
  /\ Newest(made, pending) /\ Upto(made - Len(pending), delivered)

(* The chunks of a stream are delivered in the order they were made, none  *)
(* twice, and none is lost while the stream is open.                       *)
THEOREM Promised == Spec => [](InOrder /\ Lossless)
<1>1. Init => Numbered /\ Lossless
  BY DEF Init, Numbered, Lossless, Newest, Upto
<1>2. Numbered /\ Lossless /\ [Next]_vars => Numbered' /\ Lossless'
  <2> SUFFICES ASSUME Numbered, Lossless, [Next]_vars PROVE Numbered' /\ Lossless'
    OBVIOUS
  <2> USE DEF Numbered, Lossless
  <2>1. CASE Open
    BY <2>1 DEF Open, Newest, Upto
  <2>2. CASE Make
    <3>1. /\ pending' \in Seq(Nat) /\ Len(pending') = Len(pending) + 1 /\ Newest(made + 1, pending')
      BY <2>2, MakeOne DEF Make
    <3>2. made' = made + 1 /\ UNCHANGED <<phase, delivered>>
      BY <2>2 DEF Make
    <3> QED
      BY <3>1, <3>2 DEF Newest, Upto
  <2>3. CASE Deliver
    <3> DEFINE k == Head(pending)
    <3>1. /\ pending # <<>> /\ delivered' = Append(delivered, k) /\ UNCHANGED <<made, phase>>
          /\ pending' \in Seq(Nat) /\ Len(pending') = Len(pending) - 1 /\ Newest(made, pending')
          /\ k = made - Len(pending') /\ k \in Nat
      BY <2>3, TakeOne DEF Deliver
    <3> HIDE DEF k
    <3>2. made - Len(pending) = k - 1 /\ k - 1 \in Nat
      BY <3>1 DEF Newest
    <3>3. /\ delivered' \in Seq(Nat) /\ Len(delivered') = Len(delivered) + 1
          /\ Upto(k, delivered') /\ delivered'[Len(delivered) + 1] = k
          /\ \A i \in 1..Len(delivered) : delivered'[i] = delivered[i]
      BY <3>1, <3>2, DeliverOne
    <3>4. Numbered'
      BY <3>1, <3>3
    <3>5. Lossless'
      <4>1. SUFFICES ASSUME phase = "open"
                     PROVE  /\ Len(delivered') + Len(pending') = made
                            /\ \A i \in 1..Len(delivered') : delivered'[i] = i
        BY <3>1
      <4>2. /\ Len(delivered) \in Nat /\ Len(pending) \in Nat /\ made \in Nat
            /\ Len(delivered) + Len(pending) = made
        BY <4>1
      <4>3. k = Len(delivered) + 1 /\ Len(delivered') + Len(pending') = made
        <5>1. Len(pending') = Len(pending) - 1 /\ Len(delivered') = Len(delivered) + 1
          BY <3>1, <3>3
        <5>2. k = made - Len(pending')
          BY <3>1
        <5> HIDE DEF Lossless, Numbered
        <5> QED
          BY <4>2, <5>1, <5>2
      <4>4. \A i \in 1..Len(delivered) : delivered'[i] = i
        BY <3>3, <4>1
      <4>5. delivered'[Len(delivered) + 1] = Len(delivered) + 1
        BY <3>3, <4>3
      <4>6. 1..Len(delivered') = 1..Len(delivered) \cup {Len(delivered) + 1}
        BY <3>3, <4>2
      <4> QED
        BY <4>3, <4>4, <4>5, <4>6
    <3> QED
      BY <3>4, <3>5
  <2>4. CASE Close
    BY <2>4 DEF Close
  <2>5. CASE Drop
    BY <2>5, TakeOne DEF Drop, Upto
  <2>6. CASE Closed
    BY <2>6 DEF Closed, Newest, Upto
  <2>7. CASE UNCHANGED vars
    BY <2>7 DEF vars
  <2> QED
    BY <2>1, <2>2, <2>3, <2>4, <2>5, <2>6, <2>7 DEF Next
<1>3. Numbered => InOrder
  BY DEF Numbered, Upto, InOrder
<1> QED
  BY <1>1, <1>2, <1>3, PTL DEF Spec
=============================================================================
