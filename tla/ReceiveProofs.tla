---------------------------- MODULE ReceiveProofs ----------------------------
(***************************************************************************)
(* Proofs about the receive path: that receive_callback() and loop() bring *)
(* whole packets to the host, in order, for any number of senders, packets *)
(* of any sizes and any losses; and, of the SX1262 driver below it         *)
(* (Modem), that it never loses the edge of RX_DONE, for every timing.     *)
(*                                                                         *)
(* Whole packets need more than the property: what the frames still on air *)
(* may be (OnAir), that a second half finds its first half in pbuf and     *)
(* read_len behind it (Collected), and that a receiver which defers DIO0   *)
(* has no packet queued when a frame may come, so that loop() never copies *)
(* a packet over a half (InLoop).  Given is the host's sequence with the   *)
(* packet loop() has at hand: of a deferring receiver only a frame extends *)
(* it, the steps of loop() leave it as it is.                              *)
(***************************************************************************)
EXTENDS PacketLink, Dio0, TLAPS

(* The packets are cut into two frames at most. *)
NoThirdFrame == \A size \in Sizes : size < 2 * FrameMax

Byte == Nat \X Nat
Packet == [sender : Senders, size : Sizes, seq : Seqs]
Frame == [split : BOOLEAN, seq : Seqs, data : Seq(Byte)]
Stored == { x \in Seq(Byte) : Len(x) <= MTU }

Kinds ==
    /\ packets \in Seq(Packet) /\ air \in [Senders -> Seq(Frame)]
    /\ deferred \in BOOLEAN /\ promisc \in BOOLEAN /\ failed \in BOOLEAN
    /\ read_len \in 0..MTU /\ pbuf \in [1..MTU -> Byte]
    /\ modem_packet_queue \in Seq(Stored) /\ host \in Seq(Stored)
    /\ host_write_len \in 0..MTU /\ pc \in {"top", "drain", "write"}

-----------------------------------------------------------------------------
(* What is on air *)

Cut(p, from, size) == [i \in 1..size |-> <<p, from + i>>]
Single(p, size, q) == [split |-> FALSE, seq |-> q, data |-> Cut(p, 0, size)]
First(p, q) == [split |-> TRUE, seq |-> q, data |-> Cut(p, 0, FrameMax)]
Second(p, size, q) == [split |-> TRUE, seq |-> q, data |-> Cut(p, FrameMax, size - FrameMax)]

(* s still sends packet p. *)
Sends(s, p) ==
    LET k == packets[p]
    IN  /\ k.sender = s
        /\ ~Split(p) => air[s] = <<Single(p, k.size, k.seq)>>
        /\ Split(p) /\ NoThirdFrame =>
             \/ air[s] = <<First(p, k.seq), Second(p, k.size, k.seq)>>
             \/ air[s] = <<Second(p, k.size, k.seq)>>

OnAir == \A s \in Senders : air[s] # <<>> => \E p \in DOMAIN packets : Sends(s, p)

-----------------------------------------------------------------------------
(* One frame, any receiver *)

Unsplit ==
    ~promisc /\ ~failed /\ NoneSplit =>
        /\ seq = SEQ_UNSET /\ read_len = 0
        /\ \A k \in DOMAIN modem_packet_queue :
              \E p \in DOMAIN packets : modem_packet_queue[k] = Bytes(p)

-----------------------------------------------------------------------------
(* A receiver that defers *)

(* What the host was given, with the packet loop() has at hand. *)
Given ==
    IF pc = "write" THEN Append(host, SubSeq(pbuf, 1, host_write_len))
    ELSE IF modem_packet_queue # <<>> THEN Append(host, Head(modem_packet_queue))
    ELSE host

InLoop ==
    /\ promisc => seq = SEQ_UNSET
    /\ deferred =>
        /\ pc # "drain" => modem_packet_queue = <<>>
        /\ Len(modem_packet_queue) <= 1
        /\ modem_packet_queue # <<>> => seq = SEQ_UNSET

Halves == DistinctSeqs /\ (failed => AllSplit)

(* The second half of p is the next frame of s, and the first one is in      *)
(* pbuf.                                                                     *)
HalfHere(s, p) ==
    /\ packets[p].sender = s /\ Split(p)
    /\ air[s] = <<Second(p, packets[p].size, packets[p].seq)>>
    /\ read_len = FrameMax /\ \A i \in 1..FrameMax : pbuf[i] = <<p, i>>

Begun ==
    seq # SEQ_UNSET =>
        /\ \E p \in DOMAIN packets : Split(p) /\ packets[p].seq = seq
        /\ \A s \in Senders :
              air[s] # <<>> /\ Head(air[s]).split /\ Head(air[s]).seq = seq =>
                 \E p \in DOMAIN packets : HalfHere(s, p)

Collected ==
    deferred /\ ~promisc /\ Halves => Begun /\ (seq = SEQ_UNSET => read_len = 0 \/ failed)

IsRaw(x) == \E p \in DOMAIN packets :
              \E f \in ToSet(Frames(p, packets[p].size, packets[p].seq)) : x = Raw(f)
IsPacket(x) == \E p \in DOMAIN packets : x = Bytes(p)

IsWhole(x) == IF promisc THEN IsRaw(x) ELSE IsPacket(x)

GivenWhole ==
    deferred /\ Halves => \A k \in DOMAIN Given : IsWhole(Given[k])

(* The packet of the last byte, and the packet s is sending. *)
Of(x) == x[Len(x)][1]
Playing(s) == Head(air[s]).data[1][1]

GivenInOrder ==
    deferred /\ ~promisc /\ ~failed /\ DistinctSeqs =>
        /\ \A j, k \in DOMAIN Given :
              j < k /\ packets[Of(Given[j])].sender = packets[Of(Given[k])].sender
                => Of(Given[j]) < Of(Given[k])
        /\ \A s \in Senders, k \in DOMAIN Given :
              air[s] # <<>> /\ packets[Of(Given[k])].sender = s => Of(Given[k]) < Playing(s)

-----------------------------------------------------------------------------
(* Frames *)

(* A packet that fits one frame is sent as one. *)
LEMMA FramesSingle ==
  ASSUME NEW p, NEW size \in Sizes, NEW q, size <= FrameMax
  PROVE  Frames(p, size, q) = <<Single(p, size, q)>>
<1>1. size \in Nat /\ FrameMax \in Nat \ {0}
  BY PacketLinkAssumption
<1>2. (IF 1 * FrameMax <= size THEN FrameMax ELSE size - (1 - 1) * FrameMax) = size
  BY <1>1
<1>3. [i \in 1 .. (IF 1 * FrameMax <= size THEN FrameMax ELSE size - (1 - 1) * FrameMax)
         |-> <<p, (1 - 1) * FrameMax + i>>] = Cut(p, 0, size)
  BY <1>1, <1>2 DEF Cut
<1> DEFINE data(k) == [i \in 1 .. (IF k * FrameMax <= size THEN FrameMax
                                  ELSE size - (k - 1) * FrameMax)
                         |-> <<p, (k - 1) * FrameMax + i>>]
           frame(k) == [split |-> FALSE, seq |-> q, data |-> data(k)]
<1>4. (size > FrameMax) = FALSE
  BY <1>1
<1>5. Frames(p, size, q) = [k \in 1..1 |-> frame(k)]
  BY <1>4 DEF Frames
<1>6. frame(1) = Single(p, size, q)
  BY <1>3 DEF Single
<1> HIDE DEF frame
<1>7. [k \in 1..1 |-> frame(k)] = <<frame(1)>>
  OBVIOUS
<1> QED BY <1>5, <1>6, <1>7

(* One that does not, of less than two full frames, is sent as two. *)
LEMMA FramesDouble ==
  ASSUME NEW p, NEW size \in Sizes, NEW q, size > FrameMax, NoThirdFrame
  PROVE  Frames(p, size, q) = <<First(p, q), Second(p, size, q)>>
<1>1. size \in Nat /\ FrameMax \in Nat \ {0} /\ size < 2 * FrameMax
  BY PacketLinkAssumption DEF NoThirdFrame
<1>2. size \div FrameMax = 1
  BY <1>1
<1>3. [i \in 1 .. (IF 1 * FrameMax <= size THEN FrameMax ELSE size - (1 - 1) * FrameMax)
         |-> <<p, (1 - 1) * FrameMax + i>>] = Cut(p, 0, FrameMax)
  BY <1>1 DEF Cut
<1>4. [i \in 1 .. (IF 2 * FrameMax <= size THEN FrameMax ELSE size - (2 - 1) * FrameMax)
         |-> <<p, (2 - 1) * FrameMax + i>>] = Cut(p, FrameMax, size - FrameMax)
  BY <1>1 DEF Cut
<1> DEFINE data(k) == [i \in 1 .. (IF k * FrameMax <= size THEN FrameMax
                                  ELSE size - (k - 1) * FrameMax)
                         |-> <<p, (k - 1) * FrameMax + i>>]
           frame(k) == [split |-> TRUE, seq |-> q, data |-> data(k)]
<1>5. (size > FrameMax) = TRUE /\ size \div FrameMax + 1 = 2
  BY <1>1, <1>2
<1>6. Frames(p, size, q) = [k \in 1..2 |-> frame(k)]
  BY <1>5 DEF Frames
<1>7. frame(1) = First(p, q) /\ frame(2) = Second(p, size, q)
  BY <1>3, <1>4 DEF First, Second
<1> HIDE DEF frame
<1>8. [k \in 1..2 |-> frame(k)] = <<frame(1), frame(2)>>
  OBVIOUS
<1> QED BY <1>6, <1>7, <1>8

(* The frames of a packet have their type. *)
LEMMA FramesKind ==
  ASSUME NEW p \in Nat, NEW size \in Sizes, NEW q \in Seqs
  PROVE  Frames(p, size, q) \in Seq(Frame)
<1>1. size \in Nat /\ FrameMax \in Nat \ {0}
  BY PacketLinkAssumption
<1> DEFINE split == size > FrameMax
           count == IF split THEN size \div FrameMax + 1 ELSE 1
           length(k) == IF k * FrameMax <= size THEN FrameMax ELSE size - (k - 1) * FrameMax
           data(k) == [i \in 1..length(k) |-> <<p, (k - 1) * FrameMax + i>>]
<1>2. count \in Nat
  BY <1>1
<1>3. ASSUME NEW k \in 1..count PROVE data(k) \in Seq(Byte)
  <2>1. (k - 1) * FrameMax \in Nat /\ k * FrameMax = (k - 1) * FrameMax + FrameMax
    BY <1>1, <1>2
  <2>2. CASE k * FrameMax <= size
    BY <1>1, <2>1, <2>2 DEF Byte
  <2>3. CASE ~(k * FrameMax <= size)
    <3>1. (k - 1) * FrameMax <= size
      <4>1. CASE ~split
        BY <1>1, <4>1
      <4>2. CASE split
        <5>1. k - 1 \in Nat /\ k - 1 <= size \div FrameMax /\ size \div FrameMax \in Nat
          BY <1>1, <4>2
        <5>2. FrameMax * (size \div FrameMax) <= size
          BY <1>1
        <5>3. (k - 1) * FrameMax <= FrameMax * (size \div FrameMax)
          BY <1>1, <5>1
        <5> QED BY <1>1, <2>1, <5>1, <5>2, <5>3
      <4> QED BY <4>1, <4>2
    <3>2. length(k) \in Nat
      BY <1>1, <2>1, <2>3, <3>1
    <3> HIDE DEF length
    <3> QED BY <2>1, <3>2 DEF Byte
  <2> QED BY <2>2, <2>3
<1>4. ASSUME NEW k \in 1..count
      PROVE  [split |-> split, seq |-> q, data |-> data(k)] \in Frame
  <2> HIDE DEF data
  <2> QED BY <1>3 DEF Frame
<1>5. Frames(p, size, q) = [k \in 1..count |-> [split |-> split, seq |-> q, data |-> data(k)]]
  BY DEF Frames
<1> HIDE DEF split, count, data
<1> QED BY <1>2, <1>4, <1>5

-----------------------------------------------------------------------------
(* The types *)

(* The first bytes of the buffer. *)
LEMMA Prefix ==
  ASSUME NEW b \in [1..MTU -> Byte], NEW n \in 0..MTU
  PROVE  /\ SubSeq(b, 1, n) \in Stored /\ Len(SubSeq(b, 1, n)) = n
         /\ \A i \in 1..n : SubSeq(b, 1, n)[i] = b[i]
         /\ DOMAIN SubSeq(b, 1, n) = 1..n
<1>1. MTU \in Nat
  BY PacketLinkAssumption
<1>2. b \in Seq(Byte) /\ Len(b) = MTU
  BY <1>1
<1> QED BY <1>1, <1>2 DEF Stored

(* What receive_callback() does with frame f: its payload, `data`, goes to   *)
(* pbuf behind `start`, and the first `size` bytes are the packet so far.    *)
Taken(f, data, start, size, b) ==
    /\ f \in Frame /\ data \in Seq(Byte) /\ start \in 0..MTU /\ size \in 0..MTU
    /\ b \in [1..MTU -> Byte]
    /\ data = IF promisc THEN Raw(f) ELSE f.data
    /\ start = IF promisc THEN 0 ELSE ReadFrom(f)
    /\ size = IF start + Len(data) < MTU THEN start + Len(data) ELSE MTU
    /\ \A i \in 1..MTU : b[i] = IF i - start \in DOMAIN data THEN data[i - start] ELSE pbuf[i]
    /\ pbuf' = b
    /\ seq' = IF promisc THEN seq ELSE NextSeq(f)
    /\ IF promisc \/ Completes(f)
       THEN Enqueue(SubSeq(b, 1, size))
       ELSE read_len' = size /\ UNCHANGED <<failed, modem_packet_queue>>

(* A frame is taken from the air, and nothing else changes. *)
LEMMA ReceiveEffect ==
  ASSUME Kinds, NEW s \in Senders, Receive(s)
  PROVE  /\ air[s] # <<>> /\ air' = [air EXCEPT ![s] = Tail(air[s])]
         /\ UNCHANGED <<packets, host_write_len, host, lost, deferred, promisc>>
         /\ \E data, start, size, b : Taken(Head(air[s]), data, start, size, b)
<1>1. air[s] # <<>> /\ air[s] \in Seq(Frame)
  BY DEF Receive, Kinds
<1>2. PICK f \in Frame : f = Head(air[s])
  BY <1>1
<1>3. PICK data \in Seq(Byte) : data = IF promisc THEN Raw(f) ELSE f.data
  <2>1. f.data \in Seq(Byte) /\ <<0, f.seq>> \in Byte
    BY PacketLinkAssumption DEF Frame, Byte
  <2>2. Raw(f) \in Seq(Byte)
    BY <2>1 DEF Raw
  <2> QED BY <2>1, <2>2
<1>4. MTU \in Nat
  BY PacketLinkAssumption
<1>5. PICK start \in 0..MTU : start = IF promisc THEN 0 ELSE ReadFrom(f)
  BY <1>4 DEF ReadFrom, Kinds
<1>6. PICK size \in 0..MTU : size = IF start + Len(data) < MTU THEN start + Len(data) ELSE MTU
  BY <1>4
<1>7. Filled(data, start) \in [1..MTU -> Byte]
  <2>1. ASSUME NEW i \in 1..MTU
        PROVE  (IF i - start \in DOMAIN data THEN data[i - start] ELSE pbuf[i]) \in Byte
    BY DEF Kinds
  <2> QED BY <2>1 DEF Filled
<1>8. PICK b \in [1..MTU -> Byte] : b = Filled(data, start)
  BY <1>7
<1>9. receive_callback(f)
  BY <1>2 DEF Receive
<1>10. /\ pbuf' = b
       /\ seq' = IF promisc THEN seq ELSE NextSeq(f)
       /\ IF promisc \/ Completes(f)
          THEN Enqueue(SubSeq(pbuf', 1, size))
          ELSE read_len' = size /\ UNCHANGED <<failed, modem_packet_queue>>
       /\ UNCHANGED <<deferred, promisc>>
  BY <1>3, <1>5, <1>6, <1>8, <1>9 DEF receive_callback
<1>11. \A i \in 1..MTU : b[i] = IF i - start \in DOMAIN data THEN data[i - start] ELSE pbuf[i]
  BY <1>8 DEF Filled
<1>12. SubSeq(pbuf', 1, size) = SubSeq(b, 1, size)
  BY <1>10
<1>13. IF promisc \/ Completes(f)
       THEN Enqueue(SubSeq(b, 1, size))
       ELSE read_len' = size /\ UNCHANGED <<failed, modem_packet_queue>>
  BY <1>10, <1>12
<1>14. Taken(f, data, start, size, b)
  BY <1>3, <1>5, <1>6, <1>10, <1>11, <1>13 DEF Taken
<1> QED BY <1>1, <1>2, <1>10, <1>14 DEF Receive

(* A packet goes to the queue, or nowhere. *)
LEMMA Enqueued ==
  ASSUME Kinds, NEW x \in Stored, Enqueue(x)
  PROVE  /\ failed' \in BOOLEAN /\ (failed => failed')
         /\ read_len' \in 0..MTU /\ modem_packet_queue' \in Seq(Stored)
         /\ ~failed' => read_len' = 0
         /\ \/ UNCHANGED modem_packet_queue
            \/ modem_packet_queue' = Append(modem_packet_queue, x)
<1>1. MTU \in Nat /\ Len(x) \in 0..MTU
  BY PacketLinkAssumption DEF Stored
<1>2. CASE failed' = TRUE /\ read_len' = Len(x) /\ UNCHANGED modem_packet_queue
  BY <1>1, <1>2 DEF Kinds
<1>3. CASE /\ read_len' = LengthAfter(x)
           /\ modem_packet_queue' = IF QueueHasRoom THEN Append(modem_packet_queue, x)
                                    ELSE modem_packet_queue
           /\ UNCHANGED failed
  BY <1>1, <1>3 DEF Kinds, LengthAfter
<1> QED BY <1>2, <1>3 DEF Enqueue

(* A frame that is taken keeps the types. *)
LEMMA ReceiveKinds ==
  ASSUME Kinds, NEW s \in Senders, Receive(s), pc' \in {"top", "drain", "write"}
  PROVE  Kinds'
<1>1. /\ air[s] # <<>> /\ air' = [air EXCEPT ![s] = Tail(air[s])]
      /\ UNCHANGED <<packets, host_write_len, host, deferred, promisc>>
  BY ReceiveEffect
<1>2. PICK data, start, size, b : Taken(Head(air[s]), data, start, size, b)
  BY ReceiveEffect
<1>3. air' \in [Senders -> Seq(Frame)]
  BY <1>1 DEF Kinds
<1>4. /\ b \in [1..MTU -> Byte] /\ size \in 0..MTU /\ pbuf' = b
      /\ \/ Enqueue(SubSeq(b, 1, size))
         \/ read_len' = size /\ UNCHANGED <<failed, modem_packet_queue>>
  BY <1>2 DEF Taken
<1>5. failed' \in BOOLEAN /\ read_len' \in 0..MTU /\ modem_packet_queue' \in Seq(Stored)
  <2>1. SubSeq(b, 1, size) \in Stored
    BY <1>4, Prefix
  <2>2. CASE Enqueue(SubSeq(b, 1, size))
    BY <2>1, <2>2, Enqueued
  <2>3. CASE read_len' = size /\ UNCHANGED <<failed, modem_packet_queue>>
    BY <1>4, <2>3 DEF Kinds
  <2> QED BY <1>4, <2>2, <2>3
<1> QED BY <1>1, <1>3, <1>4, <1>5 DEF Kinds

(* Every step keeps the types. *)
LEMMA StepKinds == ASSUME Kinds, [Next]_vars PROVE Kinds'
<1>1. MTU \in Nat
  BY PacketLinkAssumption
<1>2. ASSUME NEW s \in Senders, NEW size \in Sizes, NEW q \in Seqs, transmit(s, size, q)
      PROVE  Kinds'
  <2>1. Len(packets) + 1 \in Nat
    BY DEF Kinds
  <2>2. PICK fs \in Seq(Frame) : fs = Frames(Len(packets) + 1, size, q)
    BY <2>1, FramesKind
  <2>3. air' = [air EXCEPT ![s] = fs]
    BY <1>2, <2>2 DEF transmit
  <2>4. air' \in [Senders -> Seq(Frame)]
    BY <2>3 DEF Kinds
  <2>5. [sender |-> s, size |-> size, seq |-> q] \in Packet
    BY DEF Packet
  <2>6. packets' \in Seq(Packet)
    BY <1>2, <2>5 DEF transmit, Kinds
  <2> QED BY <1>2, <2>4, <2>6 DEF transmit, Kinds, receiver
<1>3. ASSUME NEW s \in Senders, Lose(s) PROVE Kinds'
  <2>1. air' \in [Senders -> Seq(Frame)]
    BY <1>3 DEF Lose, Kinds
  <2> QED BY <1>3, <2>1 DEF Lose, Kinds, receiver
<1>4. ASSUME NEW s \in Senders, handleDio0IfPending(s) \/ onDio0Rise(s) PROVE Kinds'
  <2>1. Receive(s) /\ pc' \in {"top", "drain", "write"}
    BY <1>4 DEF handleDio0IfPending, onDio0Rise, Kinds
  <2> QED BY <2>1, ReceiveKinds
<1>5. CASE NothingPending \/ NothingQueued
  BY <1>5 DEF NothingPending, NothingQueued, Kinds, receiver
<1>6. CASE Drain
  <2>1. modem_packet_queue # <<>> /\ modem_packet_queue \in Seq(Stored)
    BY <1>6 DEF Drain, Kinds
  <2>2. PICK x \in Stored : x = Head(modem_packet_queue)
    BY <2>1
  <2>3. x \in Seq(Byte) /\ Len(x) \in 0..MTU
    BY <1>1 DEF Stored
  <2>4. pbuf' = [i \in 1..MTU |-> IF i \in DOMAIN x THEN x[i] ELSE pbuf[i]]
    BY <1>6, <2>2 DEF Drain
  <2>5. pbuf' \in [1..MTU -> Byte]
    BY <2>3, <2>4 DEF Kinds
  <2>6. modem_packet_queue' \in Seq(Stored) /\ host_write_len' = Len(x)
    BY <1>6, <2>1, <2>2 DEF Drain, Dequeued
  <2> QED BY <1>6, <2>3, <2>5, <2>6 DEF Drain, Kinds
<1>7. CASE kiss_write_packet
  <2>1. SubSeq(pbuf, 1, host_write_len) \in Stored
    BY Prefix DEF Kinds
  <2>2. host' \in Seq(Stored)
    BY <1>7, <2>1 DEF kiss_write_packet, Kinds
  <2> QED BY <1>1, <1>7, <2>2 DEF kiss_write_packet, Kinds, receiver
<1>8. CASE UNCHANGED vars
  BY <1>8 DEF vars, Kinds
<1> QED BY <1>2, <1>3, <1>4, <1>5, <1>6, <1>7, <1>8 DEF Next, Loop, Arrival

-----------------------------------------------------------------------------
(* What is on air *)

(* Packets that were sent stay as they are. *)
LEMMA PacketsGrow ==
  ASSUME Kinds, [Next]_vars
  PROVE  \A p \in DOMAIN packets :
            p \in DOMAIN packets' /\ packets'[p] = packets[p] /\ (Split(p)' <=> Split(p))
<1>1. ASSUME NEW s \in Senders, NEW size \in Sizes, NEW q \in Seqs, transmit(s, size, q)
      PROVE  \A p \in DOMAIN packets : p \in DOMAIN packets' /\ packets'[p] = packets[p]
  BY <1>1 DEF transmit, Kinds
<1>2. CASE UNCHANGED packets
  BY <1>2 DEF Split
<1>3. \A p \in DOMAIN packets : p \in DOMAIN packets' /\ packets'[p] = packets[p]
  BY <1>1, <1>2 DEF Next, Lose, Arrival, handleDio0IfPending, onDio0Rise, Receive, Loop,
                    NothingPending, Drain, NothingQueued, kiss_write_packet, vars
<1> QED BY <1>3 DEF Split

(* A node that sends its next frame, heard or not, still sends the packet. *)
LEMMA NextFrame ==
  ASSUME Kinds, OnAir, NEW s \in Senders, air[s] # <<>>, UNCHANGED packets,
         air' = [air EXCEPT ![s] = Tail(air[s])]
  PROVE  OnAir'
<1>1. SUFFICES ASSUME NEW o \in Senders, air'[o] # <<>>
               PROVE  \E p \in DOMAIN packets : Sends(o, p)'
  BY DEF OnAir
<1>2. CASE o # s
  <2>1. air'[o] = air[o]
    BY <1>2 DEF Kinds
  <2>2. PICK p \in DOMAIN packets : Sends(o, p)
    BY <1>1, <2>1 DEF OnAir
  <2> QED BY <2>1, <2>2 DEF Sends, Split
<1>3. CASE o = s
  <2>1. air'[s] = Tail(air[s])
    BY DEF Kinds
  <2>2. PICK p \in DOMAIN packets : Sends(s, p)
    BY DEF OnAir
  <2>3. PICK k : k = packets[p]
    OBVIOUS
  <2>4. Split(p)
    <3>1. SUFFICES ASSUME ~Split(p) PROVE FALSE
      OBVIOUS
    <3>2. air[s] = <<Single(p, k.size, k.seq)>>
      BY <2>2, <2>3, <3>1 DEF Sends
    <3> QED BY <1>1, <1>3, <2>1, <3>2
  <2>5. CASE NoThirdFrame
    <3>1. ASSUME air[s] = <<Second(p, k.size, k.seq)>> PROVE FALSE
      BY <1>1, <1>3, <2>1, <3>1
    <3>2. air[s] = <<First(p, k.seq), Second(p, k.size, k.seq)>>
      BY <2>2, <2>3, <2>4, <2>5, <3>1 DEF Sends
    <3>3. air'[s] = <<Second(p, k.size, k.seq)>>
      BY <2>1, <3>2
    <3>4. Sends(s, p)'
      BY <2>2, <2>3, <2>4, <3>3 DEF Sends, Split
    <3> QED BY <1>3, <3>4
  <2>6. CASE ~NoThirdFrame
    BY <1>3, <2>2, <2>4, <2>6 DEF Sends, Split
  <2> QED BY <2>5, <2>6
<1> QED BY <1>2, <1>3

(* Packet n was sent by s and is on air whole. *)
Sent(n, s, size, q) ==
    /\ n \in DOMAIN packets' /\ n \notin DOMAIN packets
    /\ DOMAIN packets' = DOMAIN packets \cup {n}
    /\ packets'[n] = [sender |-> s, size |-> size, seq |-> q]
    /\ air'[s] # <<>> /\ Sends(s, n)'
    /\ \A o \in Senders \ {s} : air'[o] = air[o]
    /\ Split(n)' <=> size > FrameMax
    /\ NoThirdFrame /\ size > FrameMax => air'[s] = <<First(n, q), Second(n, size, q)>>
    /\ size <= FrameMax => air'[s] = <<Single(n, size, q)>>

(* transmit() puts a packet on air whole. *)
LEMMA TransmitOnAir ==
  ASSUME Kinds, NEW s \in Senders, NEW size \in Sizes, NEW q \in Seqs, transmit(s, size, q),
         NEW n, n = Len(packets) + 1
  PROVE  Sent(n, s, size, q)
<1>1. n \in Nat /\ n = Len(packets) + 1
  BY DEF Kinds
<1>2. /\ n \in DOMAIN packets' /\ n \notin DOMAIN packets
      /\ DOMAIN packets' = DOMAIN packets \cup {n}
      /\ packets'[n] = [sender |-> s, size |-> size, seq |-> q]
  BY <1>1 DEF transmit, Kinds
<1>3. PICK fs \in Seq(Frame) : fs = Frames(n, size, q)
  BY FramesKind
<1>4. air' = [air EXCEPT ![s] = fs]
  BY <1>1, <1>3 DEF transmit
<1>5. air'[s] = fs /\ \A o \in Senders \ {s} : air'[o] = air[o]
  BY <1>4 DEF Kinds
<1>6. size \in Nat /\ FrameMax \in Nat
  BY PacketLinkAssumption
<1>7. size <= FrameMax => fs = <<Single(n, size, q)>>
  BY <1>3, FramesSingle
<1>8. NoThirdFrame /\ size > FrameMax => fs = <<First(n, q), Second(n, size, q)>>
  BY <1>3, FramesDouble
<1>9. fs # <<>>
  <2>1. (IF size > FrameMax THEN size \div FrameMax + 1 ELSE 1) \in Nat \ {0}
    BY <1>6, PacketLinkAssumption
  <2>2. 1 \in DOMAIN fs
    BY <1>3, <2>1 DEF Frames
  <2> QED BY <2>2
<1>10. packets'[n].size = size /\ packets'[n].seq = q /\ packets'[n].sender = s
  BY <1>2
<1>11. Split(n)' <=> size > FrameMax
  BY <1>10 DEF Split
<1>12. ~(size > FrameMax) => size <= FrameMax
  BY <1>6
<1>13. Sends(s, n)'
  BY <1>5, <1>7, <1>8, <1>10, <1>11, <1>12 DEF Sends
<1> QED BY <1>1, <1>2, <1>5, <1>7, <1>8, <1>9, <1>11, <1>13 DEF Sent

(* OnAir holds after every step. *)
LEMMA StepOnAir == ASSUME Kinds, OnAir, [Next]_vars PROVE OnAir'
<1>1. ASSUME NEW s \in Senders, NEW size \in Sizes, NEW q \in Seqs, transmit(s, size, q)
      PROVE  OnAir'
  <2>1. SUFFICES ASSUME NEW o \in Senders, air'[o] # <<>>
                 PROVE  \E p \in DOMAIN packets' : Sends(o, p)'
    BY DEF OnAir
  <2>0. PICK n : n = Len(packets) + 1
    OBVIOUS
  <2>4. Sent(n, s, size, q)
    BY <1>1, <2>0, TransmitOnAir
  <2>2. CASE o = s
    <3>1. n \in DOMAIN packets' /\ Sends(s, n)'
      BY <2>4 DEF Sent
    <3> QED BY <2>2, <3>1
  <2>3. CASE o # s
    <3>1. air'[o] = air[o]
      BY <2>3, <2>4 DEF Sent
    <3>2. PICK p \in DOMAIN packets : Sends(o, p)
      BY <2>1, <3>1 DEF OnAir
    <3>3. p \in DOMAIN packets' /\ packets'[p] = packets[p] /\ (Split(p)' <=> Split(p))
      BY PacketsGrow
    <3>4. Sends(o, p)'
      BY <3>1, <3>2, <3>3 DEF Sends
    <3> QED BY <3>3, <3>4
  <2> QED BY <2>2, <2>3
<1>2. ASSUME NEW s \in Senders, Lose(s) PROVE OnAir'
  <2>1. air[s] # <<>> /\ UNCHANGED packets /\ air' = [air EXCEPT ![s] = Tail(air[s])]
    BY <1>2 DEF Lose
  <2> QED BY <2>1, NextFrame
<1>3. ASSUME NEW s \in Senders, handleDio0IfPending(s) \/ onDio0Rise(s) PROVE OnAir'
  <2>1. air[s] # <<>> /\ UNCHANGED packets /\ air' = [air EXCEPT ![s] = Tail(air[s])]
    BY <1>3 DEF handleDio0IfPending, onDio0Rise, Receive
  <2> QED BY <2>1, NextFrame
<1>4. CASE Loop \/ UNCHANGED vars
  BY <1>4 DEF Loop, NothingPending, Drain, NothingQueued, kiss_write_packet, vars,
              OnAir, Sends, Split
<1> QED BY <1>1, <1>2, <1>3, <1>4 DEF Next, Arrival

-----------------------------------------------------------------------------
(* Packets of one frame *)

(* A sequence with the bytes of a packet is the packet. *)
LEMMA IsBytes ==
  ASSUME Kinds, NEW p \in DOMAIN packets, NEW x \in Stored, Len(x) = packets[p].size,
         \A i \in 1..Len(x) : x[i] = <<p, i>>
  PROVE  x = Bytes(p)
<1>1. x \in Seq(Byte) /\ x = [i \in 1..Len(x) |-> x[i]]
  BY DEF Stored
<1>2. Bytes(p) = [i \in 1..Len(x) |-> <<p, i>>]
  BY DEF Bytes
<1> QED BY <1>1, <1>2

(* The sizes and numbers of a packet that was sent. *)
LEMMA PacketFacts ==
  ASSUME Kinds, NEW p \in DOMAIN packets
  PROVE  /\ p \in Nat \ {0} /\ packets[p] \in Packet
         /\ packets[p].size \in 1..MTU /\ packets[p].size \in Sizes
         /\ packets[p].seq \in Seqs /\ packets[p].seq # SEQ_UNSET
         /\ packets[p].sender \in Senders
         /\ FrameMax \in Nat \ {0} /\ MTU \in Nat /\ FrameMax < MTU
<1>1. packets[p] \in Packet /\ p \in Nat \ {0}
  BY DEF Kinds
<1>2. packets[p].size \in Sizes /\ packets[p].seq \in Seqs /\ packets[p].sender \in Senders
  BY <1>1 DEF Packet
<1>3. FrameMax \in Nat \ {0} /\ MTU \in Nat /\ 2 * FrameMax <= MTU
  BY PacketLinkAssumption
<1>4. packets[p].size \in 1..MTU /\ packets[p].seq # SEQ_UNSET
  BY <1>2, PacketLinkAssumption DEF SEQ_UNSET
<1> QED BY <1>1, <1>2, <1>3, <1>4

(* A frame that is a packet, read to the start of pbuf. *)
LEMMA SingleTaken ==
  ASSUME Kinds, NEW p \in DOMAIN packets, ~promisc,
         NEW f, NEW data, NEW start, NEW size, NEW b, Taken(f, data, start, size, b),
         f = Single(p, packets[p].size, packets[p].seq), start = 0
  PROVE  SubSeq(b, 1, size) \in Stored /\ SubSeq(b, 1, size) = Bytes(p)
<1>1. PICK n \in 1..MTU : n = packets[p].size
  BY PacketFacts
<1>2. MTU \in Nat
  BY PacketLinkAssumption
<1>3. data = Cut(p, 0, n)
  BY <1>1 DEF Taken, Single
<1>4. Len(data) = n /\ DOMAIN data = 1..n /\ \A i \in 1..n : data[i] = <<p, 0 + i>>
  BY <1>2, <1>3 DEF Cut
<1>5. size = n /\ size \in 0..MTU /\ b \in [1..MTU -> Byte]
  BY <1>2, <1>4 DEF Taken
<1>6. /\ SubSeq(b, 1, size) \in Stored /\ Len(SubSeq(b, 1, size)) = n
      /\ \A i \in 1..n : SubSeq(b, 1, size)[i] = b[i]
  BY <1>5, Prefix
<1>7. ASSUME NEW i \in 1..n PROVE b[i] = <<p, i>>
  <2>1. i \in 1..MTU /\ i - 0 = i /\ 0 + i = i
    BY <1>2
  <2>2. b[i] = IF i - start \in DOMAIN data THEN data[i - start] ELSE pbuf[i]
    BY <2>1 DEF Taken
  <2> QED BY <1>4, <2>1, <2>2
<1>8. PICK x \in Stored : x = SubSeq(b, 1, size)
  BY <1>6
<1>9. Len(x) = packets[p].size /\ \A i \in 1..Len(x) : x[i] = <<p, i>>
  BY <1>1, <1>6, <1>7, <1>8
<1> QED BY <1>8, <1>9, IsBytes

(* While no packet is split, a frame adds a whole packet to the queue, or   *)
(* nothing.                                                                   *)
LEMMA ReceiveUnsplit ==
  ASSUME Kinds, OnAir, Unsplit, NEW s \in Senders, Receive(s)
  PROVE  Unsplit'
<1>1. /\ air[s] # <<>> /\ UNCHANGED <<packets, promisc>>
  BY ReceiveEffect
<1>2. PICK data, start, size, b : Taken(Head(air[s]), data, start, size, b)
  BY ReceiveEffect
<1>3. SUFFICES ASSUME ~promisc, ~failed', NoneSplit
               PROVE  /\ seq' = SEQ_UNSET /\ read_len' = 0
                      /\ \A k \in DOMAIN modem_packet_queue' :
                            \E p \in DOMAIN packets : modem_packet_queue'[k] = Bytes(p)
  BY <1>1 DEF Unsplit, NoneSplit, Split, Bytes
<1>4. PICK p \in DOMAIN packets : Sends(s, p)
  BY <1>1 DEF OnAir
<1>5. PICK f : f = Single(p, packets[p].size, packets[p].seq)
  OBVIOUS
<1>6. air[s] = <<f>> /\ Head(air[s]) = f
  BY <1>3, <1>4, <1>5 DEF Sends, NoneSplit
<1>7. f.split = FALSE
  BY <1>5 DEF Single
<1>8. Taken(f, data, start, size, b)
  BY <1>2, <1>6
<1>9. Enqueue(SubSeq(b, 1, size)) /\ seq' = SEQ_UNSET
  BY <1>3, <1>7, <1>8 DEF Taken, Completes, NextSeq
<1>10. b \in [1..MTU -> Byte] /\ size \in 0..MTU
  BY <1>8 DEF Taken
<1>11. PICK x \in Stored : x = SubSeq(b, 1, size)
  BY <1>10, Prefix
<1>12. Enqueue(x)
  BY <1>9, <1>11
<1>13. /\ failed => failed'
       /\ ~failed' => read_len' = 0
       /\ \/ UNCHANGED modem_packet_queue
          \/ modem_packet_queue' = Append(modem_packet_queue, x)
  BY <1>12, Enqueued
<1>14. /\ seq = SEQ_UNSET /\ read_len = 0
       /\ \A k \in DOMAIN modem_packet_queue :
             \E r \in DOMAIN packets : modem_packet_queue[k] = Bytes(r)
  BY <1>3, <1>13 DEF Unsplit
<1>15. start = 0
  BY <1>3, <1>7, <1>8, <1>14 DEF Taken, ReadFrom
<1>16. x = Bytes(p)
  BY <1>3, <1>5, <1>8, <1>11, <1>15, SingleTaken
<1>17. modem_packet_queue \in Seq(Stored)
  BY DEF Kinds
<1>18. \A k \in DOMAIN modem_packet_queue' :
          \E r \in DOMAIN packets : modem_packet_queue'[k] = Bytes(r)
  BY <1>13, <1>14, <1>16, <1>17
<1> QED BY <1>3, <1>9, <1>13, <1>18

(* Unsplit holds after every step. *)
LEMMA StepUnsplit == ASSUME Kinds, OnAir, Unsplit, [Next]_vars PROVE Unsplit'
<1>1. \A p \in DOMAIN packets :
         p \in DOMAIN packets' /\ packets'[p] = packets[p] /\ (Split(p)' <=> Split(p))
  BY PacketsGrow
<1>2. \A p \in DOMAIN packets : p \in DOMAIN packets' /\ Bytes(p)' = Bytes(p)
  BY <1>1 DEF Bytes
<1>3. NoneSplit' => NoneSplit
  BY <1>1 DEF NoneSplit
<1>4. CASE /\ UNCHANGED <<promisc, failed, seq, read_len>>
           /\ modem_packet_queue' = modem_packet_queue
  BY <1>2, <1>3, <1>4 DEF Unsplit
<1>5. ASSUME NEW s \in Senders, Receive(s) PROVE Unsplit'
  BY <1>5, ReceiveUnsplit
<1>6. CASE Drain
  <2>1. /\ modem_packet_queue # <<>> /\ modem_packet_queue' = Tail(modem_packet_queue)
        /\ UNCHANGED <<promisc, failed, seq, read_len>>
    BY <1>6 DEF Drain, Dequeued
  <2>2. modem_packet_queue \in Seq(Stored)
    BY DEF Kinds
  <2>3. \A k \in DOMAIN modem_packet_queue' :
           k + 1 \in DOMAIN modem_packet_queue /\ modem_packet_queue'[k] = modem_packet_queue[k + 1]
    BY <2>1, <2>2
  <2> QED BY <1>2, <1>3, <2>1, <2>3 DEF Unsplit
<1> QED BY <1>4, <1>5, <1>6 DEF Next, transmit, Lose, Arrival, handleDio0IfPending, onDio0Rise,
           Loop, NothingPending, NothingQueued, kiss_write_packet, receiver, vars

(* The types and what is on air, in the initial state. *)
LEMMA InitKinds == Init => Kinds /\ OnAir /\ Unsplit
<1>1. SUFFICES ASSUME Init PROVE Kinds /\ OnAir /\ Unsplit
  OBVIOUS
<1>2. Blank \in Byte /\ MTU \in Nat
  BY PacketLinkAssumption DEF Blank, Byte
<1>3. Kinds
  <2>1. deferred \in BOOLEAN /\ promisc \in BOOLEAN /\ failed \in BOOLEAN
    BY <1>1, PacketLinkAssumption DEF Init
  <2>2. pbuf \in [1..MTU -> Byte] /\ 0 \in 0..MTU
    BY <1>1, <1>2 DEF Init
  <2>3. packets \in Seq(Packet) /\ air \in [Senders -> Seq(Frame)]
    BY <1>1 DEF Init
  <2> QED BY <1>1, <2>1, <2>2, <2>3 DEF Init, Kinds
<1>4. OnAir /\ Unsplit
  BY <1>1 DEF Init, OnAir, Unsplit
<1> QED BY <1>3, <1>4

(* For any number of senders, packets of any sizes, any queue and any       *)
(* losses, whether receive_callback() runs in loop() or interrupts it: while *)
(* no packet is split and memory has not run out, modem_packet_queue holds   *)
(* only whole packets.                                                        *)
THEOREM QueuedAlwaysWhole == Spec => []QueuedPacketsWhole
<1>1. Kinds /\ OnAir /\ Unsplit /\ [Next]_vars => (Kinds /\ OnAir /\ Unsplit)'
  BY StepKinds, StepOnAir, StepUnsplit
<1>2. Unsplit => QueuedPacketsWhole
  BY DEF Unsplit, QueuedPacketsWhole
<1> QED BY <1>1, <1>2, InitKinds, PTL DEF Spec

-----------------------------------------------------------------------------
(* A receiver that defers: the order of loop() *)

(* After a frame was taken a packet is queued only if no other is begun. *)
LEMMA ReceiveQueues ==
  ASSUME Kinds, InLoop, NEW s \in Senders, Receive(s)
  PROVE  /\ promisc' => seq' = SEQ_UNSET
         /\ failed => failed'
         /\ \/ UNCHANGED modem_packet_queue
            \/ \E x \in Stored : modem_packet_queue' = Append(modem_packet_queue, x)
         /\ modem_packet_queue' # modem_packet_queue => seq' = SEQ_UNSET
<1>1. PICK data, start, size, b : Taken(Head(air[s]), data, start, size, b)
  BY ReceiveEffect
<1>2. promisc' = promisc
  BY ReceiveEffect
<1>3. PICK f \in Frame : f = Head(air[s]) /\ Taken(f, data, start, size, b)
  BY <1>1 DEF Taken
<1>4. PICK x \in Stored : x = SubSeq(b, 1, size)
  <2>1. b \in [1..MTU -> Byte] /\ size \in 0..MTU
    BY <1>3 DEF Taken
  <2> QED BY <2>1, Prefix
<1>5. CASE promisc \/ Completes(f)
  <2>1. Enqueue(x) /\ seq' = IF promisc THEN seq ELSE NextSeq(f)
    BY <1>3, <1>4, <1>5 DEF Taken
  <2>2. seq' = SEQ_UNSET
    BY <1>5, <2>1 DEF NextSeq, Completes, InLoop
  <2> QED BY <2>1, <2>2, Enqueued
<1>6. CASE ~(promisc \/ Completes(f))
  BY <1>2, <1>3, <1>6 DEF Taken
<1> QED BY <1>5, <1>6

(* InLoop holds after every step. *)
LEMMA StepInLoop == ASSUME Kinds, InLoop, [Next]_vars PROVE InLoop'
<1>0. modem_packet_queue \in Seq(Stored)
  BY DEF Kinds
<1>1. ASSUME NEW s \in Senders, handleDio0IfPending(s) PROVE InLoop'
  <2>1. deferred /\ pc = "top" /\ pc' = "drain" /\ Receive(s)
    BY <1>1 DEF handleDio0IfPending
  <2>2. modem_packet_queue = <<>>
    BY <2>1 DEF InLoop
  <2>3. /\ promisc' => seq' = SEQ_UNSET
        /\ \/ UNCHANGED modem_packet_queue
           \/ \E x \in Stored : modem_packet_queue' = Append(modem_packet_queue, x)
        /\ modem_packet_queue' # modem_packet_queue => seq' = SEQ_UNSET
    BY <2>1, ReceiveQueues
  <2>4. Len(modem_packet_queue') <= 1
    <3>1. CASE UNCHANGED modem_packet_queue
      BY <2>2, <3>1
    <3>2. ASSUME NEW x \in Stored, modem_packet_queue' = Append(modem_packet_queue, x)
          PROVE  Len(modem_packet_queue') <= 1
      <4>1. Len(Append(modem_packet_queue, x)) = Len(modem_packet_queue) + 1
        BY <1>0
      <4> QED BY <2>2, <3>2, <4>1
    <3> QED BY <2>3, <3>1, <3>2
  <2> QED BY <2>1, <2>2, <2>3, <2>4 DEF InLoop
<1>2. ASSUME NEW s \in Senders, onDio0Rise(s) PROVE InLoop'
  <2>1. ~deferred /\ Receive(s)
    BY <1>2 DEF onDio0Rise
  <2>2. ~deferred' /\ (promisc' => seq' = SEQ_UNSET)
    <3>1. deferred' = deferred
      BY <2>1, ReceiveEffect
    <3>2. promisc' => seq' = SEQ_UNSET
      BY <2>1, ReceiveQueues
    <3> QED BY <2>1, <3>1, <3>2
  <2> QED BY <2>2 DEF InLoop
<1>3. CASE Drain
  <2>1. /\ modem_packet_queue # <<>> /\ modem_packet_queue' = Tail(modem_packet_queue)
        /\ UNCHANGED <<deferred, promisc, seq>>
    BY <1>3 DEF Drain, Dequeued
  <2>2. deferred => modem_packet_queue' = <<>>
    BY <1>0, <2>1 DEF InLoop
  <2> QED BY <2>1, <2>2 DEF InLoop
<1>4. CASE UNCHANGED <<deferred, promisc, seq, modem_packet_queue, pc>>
  BY <1>4 DEF InLoop
<1>5. CASE NothingPending \/ NothingQueued \/ kiss_write_packet
  BY <1>5 DEF NothingPending, NothingQueued, kiss_write_packet, InLoop, receiver
<1> QED BY <1>1, <1>2, <1>3, <1>4, <1>5
        DEF Next, transmit, Lose, Arrival, Loop, receiver, vars

(* A packet sent does not undo what spoilt the reception before. *)
LEMMA HalvesBefore ==
  ASSUME Kinds, InLoop, [Next]_vars
  PROVE  (DistinctSeqs' => DistinctSeqs) /\ (failed => failed') /\ (Halves' => Halves)
<1>1. \A p \in DOMAIN packets :
         p \in DOMAIN packets' /\ packets'[p] = packets[p] /\ (Split(p)' <=> Split(p))
  BY PacketsGrow
<1>2. DistinctSeqs' => DistinctSeqs
  BY <1>1 DEF DistinctSeqs
<1>3. AllSplit' => AllSplit
  BY <1>1 DEF AllSplit
<1>4. failed => failed'
  <2>1. CASE UNCHANGED failed
    BY <2>1
  <2>2. ASSUME NEW s \in Senders, Receive(s) PROVE failed => failed'
    BY <2>2, ReceiveQueues
  <2> QED BY <2>1, <2>2 DEF Next, transmit, Lose, Arrival, handleDio0IfPending, onDio0Rise, Loop,
             NothingPending, NothingQueued, Drain, kiss_write_packet, receiver, vars
<1> QED BY <1>2, <1>3, <1>4 DEF Halves

-----------------------------------------------------------------------------
(* A receiver that defers: the halves of a packet *)

(* The next frame of s is of packet p, and it is the only one, the first or *)
(* the second.                                                               *)
Plays(s, p) ==
    LET k == packets[p] IN
    \/ /\ ~Split(p)
       /\ Head(air[s]) = Single(p, k.size, k.seq) /\ Tail(air[s]) = <<>>
    \/ /\ Split(p) /\ air[s] = <<First(p, k.seq), Second(p, k.size, k.seq)>>
       /\ Head(air[s]) = First(p, k.seq) /\ Tail(air[s]) = <<Second(p, k.size, k.seq)>>
    \/ /\ Split(p) /\ air[s] = <<Second(p, k.size, k.seq)>>
       /\ Head(air[s]) = Second(p, k.size, k.seq) /\ Tail(air[s]) = <<>>

(* What a node sends next. *)
LEMMA HeadFacts ==
  ASSUME Kinds, NoThirdFrame, OnAir, NEW s \in Senders, air[s] # <<>>
  PROVE  \E p \in DOMAIN packets : Sends(s, p) /\ Plays(s, p)
<1>1. PICK p \in DOMAIN packets : Sends(s, p)
  BY DEF OnAir
<1>2. PICK k : k = packets[p]
  OBVIOUS
<1>3. CASE ~Split(p)
  <2>1. air[s] = <<Single(p, k.size, k.seq)>>
    BY <1>1, <1>2, <1>3 DEF Sends
  <2>2. Head(air[s]) = Single(p, k.size, k.seq) /\ Tail(air[s]) = <<>>
    BY <2>1
  <2> QED BY <1>1, <1>2, <1>3, <2>2 DEF Plays
<1>4. CASE Split(p)
  <2>1. \/ air[s] = <<First(p, k.seq), Second(p, k.size, k.seq)>>
        \/ air[s] = <<Second(p, k.size, k.seq)>>
    BY <1>1, <1>2, <1>4 DEF Sends
  <2>2. CASE air[s] = <<First(p, k.seq), Second(p, k.size, k.seq)>>
    <3>1. Head(air[s]) = First(p, k.seq) /\ Tail(air[s]) = <<Second(p, k.size, k.seq)>>
      BY <2>2
    <3> QED BY <1>1, <1>2, <1>4, <2>2, <3>1 DEF Plays
  <2>3. CASE air[s] = <<Second(p, k.size, k.seq)>>
    <3>1. Head(air[s]) = Second(p, k.size, k.seq) /\ Tail(air[s]) = <<>>
      BY <2>3
    <3> QED BY <1>1, <1>2, <1>4, <2>3, <3>1 DEF Plays
  <2> QED BY <2>1, <2>2, <2>3
<1> QED BY <1>3, <1>4

(* A frame tells of its packet whether it is split and its number. *)
LEMMA HeadHeader ==
  ASSUME NEW s \in Senders, NEW p \in DOMAIN packets, Plays(s, p)
  PROVE  (Head(air[s]).split <=> Split(p)) /\ Head(air[s]).seq = packets[p].seq
  BY DEF Plays, Single, First, Second

(* A first half, read to the start of pbuf. *)
LEMMA FirstTaken ==
  ASSUME Kinds, NEW p \in DOMAIN packets, ~promisc,
         NEW f, NEW data, NEW start, NEW size, NEW b, Taken(f, data, start, size, b),
         f = First(p, packets[p].seq), start = 0
  PROVE  size = FrameMax /\ \A i \in 1..FrameMax : b[i] = <<p, i>>
<1>1. MTU \in Nat /\ FrameMax \in Nat /\ FrameMax < MTU
  BY PacketFacts
<1>2. data = Cut(p, 0, FrameMax)
  BY DEF Taken, First
<1>3. Len(data) = FrameMax /\ DOMAIN data = 1..FrameMax
      /\ \A i \in 1..FrameMax : data[i] = <<p, 0 + i>>
  BY <1>1, <1>2 DEF Cut
<1>4. size = FrameMax
  BY <1>1, <1>3 DEF Taken
<1>5. ASSUME NEW i \in 1..FrameMax PROVE b[i] = <<p, i>>
  <2>1. i \in 1..MTU /\ i - 0 = i /\ 0 + i = i
    BY <1>1
  <2>2. b[i] = IF i - start \in DOMAIN data THEN data[i - start] ELSE pbuf[i]
    BY <2>1 DEF Taken
  <2> QED BY <1>3, <2>1, <2>2
<1> QED BY <1>4, <1>5

(* A second half, read behind the first. *)
LEMMA SecondTaken ==
  ASSUME Kinds, NoThirdFrame, NEW p \in DOMAIN packets, Split(p), ~promisc,
         NEW f, NEW data, NEW start, NEW size, NEW b, Taken(f, data, start, size, b),
         f = Second(p, packets[p].size, packets[p].seq), start = FrameMax,
         \A i \in 1..FrameMax : pbuf[i] = <<p, i>>
  PROVE  SubSeq(b, 1, size) \in Stored /\ SubSeq(b, 1, size) = Bytes(p)
<1>1. PICK n \in 1..MTU : n = packets[p].size
  BY PacketFacts
<1>2. MTU \in Nat /\ FrameMax \in Nat \ {0} /\ 2 * FrameMax <= MTU
  BY PacketLinkAssumption
<1>3. FrameMax < n /\ n < 2 * FrameMax
  <2>1. n \in Sizes
    BY <1>1, PacketFacts
  <2> QED BY <1>1, <1>2, <2>1 DEF Split, NoThirdFrame
<1>4. data = Cut(p, FrameMax, n - FrameMax)
  BY <1>1 DEF Taken, Second
<1>5. /\ Len(data) = n - FrameMax /\ DOMAIN data = 1..(n - FrameMax)
      /\ \A i \in 1..(n - FrameMax) : data[i] = <<p, FrameMax + i>>
  BY <1>2, <1>3, <1>4 DEF Cut
<1>6. size = n /\ size \in 0..MTU /\ b \in [1..MTU -> Byte]
  <2>1. /\ size = IF start + Len(data) < MTU THEN start + Len(data) ELSE MTU
        /\ size \in 0..MTU /\ b \in [1..MTU -> Byte]
    BY DEF Taken
  <2>2. start + Len(data) = n
    BY <1>2, <1>3, <1>5
  <2> QED BY <1>2, <1>3, <2>1, <2>2
<1>7. /\ SubSeq(b, 1, size) \in Stored /\ Len(SubSeq(b, 1, size)) = n
      /\ \A i \in 1..n : SubSeq(b, 1, size)[i] = b[i]
  BY <1>6, Prefix
<1>8. ASSUME NEW i \in 1..n PROVE b[i] = <<p, i>>
  <2>1. i \in 1..MTU
    BY <1>2
  <2>2. b[i] = IF i - start \in DOMAIN data THEN data[i - start] ELSE pbuf[i]
    BY <2>1 DEF Taken
  <2>3. CASE i <= FrameMax
    <3>1. i \in 1..FrameMax /\ i - FrameMax \notin 1..(n - FrameMax)
      BY <1>2, <1>3, <2>3
    <3> QED BY <1>5, <2>2, <3>1
  <2>4. CASE i > FrameMax
    <3>1. i - FrameMax \in 1..(n - FrameMax) /\ FrameMax + (i - FrameMax) = i
      BY <1>2, <1>3, <2>4
    <3> QED BY <1>5, <2>2, <3>1
  <2> QED BY <1>2, <2>3, <2>4
<1>9. PICK x \in Stored : x = SubSeq(b, 1, size)
  BY <1>7
<1>10. Len(x) = packets[p].size /\ \A i \in 1..Len(x) : x[i] = <<p, i>>
  BY <1>1, <1>7, <1>8, <1>9
<1> QED BY <1>9, <1>10, IsBytes

(* What a frame leaves: the queue as it was, or with a packet that its      *)
(* sender has no more frames of; and Collected.                              *)
Received(s) ==
    /\ \/ UNCHANGED modem_packet_queue
       \/ \E p \in DOMAIN packets :
             /\ modem_packet_queue' = Append(modem_packet_queue, Bytes(p))
             /\ Sends(s, p) /\ air'[s] = <<>>
    /\ Begun'
    /\ seq' = SEQ_UNSET => read_len' = 0 \/ failed'

(* A frame that completes packet p. *)
LEMMA Completed ==
  ASSUME Kinds, NEW s \in Senders, NEW p \in DOMAIN packets, Sends(s, p), air'[s] = <<>>,
         NEW x \in Stored, x = Bytes(p), Enqueue(x), seq' = SEQ_UNSET
  PROVE  Received(s)
<1>1. /\ ~failed' => read_len' = 0
      /\ \/ UNCHANGED modem_packet_queue
         \/ modem_packet_queue' = Append(modem_packet_queue, x)
  BY Enqueued
<1>2. Begun'
  BY DEF Begun
<1> QED BY <1>1, <1>2 DEF Received

(* Two nodes with a split packet of the same number are one. *)
LEMMA SameNumber ==
  ASSUME Kinds, NoThirdFrame, OnAir, DistinctSeqs, NEW s \in Senders, NEW p \in DOMAIN packets,
         packets[p].sender = s, Split(p), NEW o \in Senders, air[o] # <<>>,
         Head(air[o]).split, Head(air[o]).seq = packets[p].seq
  PROVE  o = s
<1>1. PICK r \in DOMAIN packets : Sends(o, r) /\ Plays(o, r)
  BY HeadFacts
<1>2. (Head(air[o]).split <=> Split(r)) /\ Head(air[o]).seq = packets[r].seq
  BY <1>1, HeadHeader
<1>3. r = p
  BY <1>2 DEF DistinctSeqs
<1> QED BY <1>1, <1>3 DEF Sends

(* A frame leaves what Received() says: a packet of one frame is read to     *)
(* the start of pbuf, a first half too, and a second half behind its first. *)
LEMMA ReceiveHalf ==
  ASSUME Kinds, NoThirdFrame, OnAir, Collected, deferred, ~promisc, Halves, Halves',
         NEW s \in Senders, Receive(s)
  PROVE  Received(s)
<1>1. /\ air[s] # <<>> /\ air' = [air EXCEPT ![s] = Tail(air[s])]
      /\ UNCHANGED packets
  BY ReceiveEffect
<1>2. /\ air'[s] = Tail(air[s]) /\ \A o \in Senders \ {s} : air'[o] = air[o]
  BY <1>1 DEF Kinds
<1>3. PICK f, data, start, size, b : f = Head(air[s]) /\ Taken(f, data, start, size, b)
  BY ReceiveEffect
<1>4. PICK p \in DOMAIN packets : Sends(s, p) /\ Plays(s, p)
  BY <1>1, HeadFacts
<1>5. (f.split <=> Split(p)) /\ f.seq = packets[p].seq /\ packets[p].sender = s
  BY <1>3, <1>4, HeadHeader DEF Sends
<1>6. Begun /\ (seq = SEQ_UNSET => read_len = 0 \/ failed)
  BY DEF Collected
<1>7. /\ start = ReadFrom(f) /\ seq' = NextSeq(f) /\ pbuf' = b
      /\ IF Completes(f)
         THEN Enqueue(SubSeq(b, 1, size))
         ELSE read_len' = size /\ UNCHANGED <<failed, modem_packet_queue>>
  BY <1>3 DEF Taken
<1>8. f.seq # SEQ_UNSET
  BY <1>5, PacketFacts
<1>9. CASE ~Split(p)
  <2>1. f = Single(p, packets[p].size, packets[p].seq) /\ air'[s] = <<>>
    BY <1>2, <1>3, <1>4, <1>9 DEF Plays
  <2>2. ~failed
    BY <1>9 DEF Halves, AllSplit
  <2>3. start = 0
    BY <1>5, <1>6, <1>7, <1>9, <2>2 DEF ReadFrom
  <2>4. seq' = SEQ_UNSET /\ Enqueue(SubSeq(b, 1, size))
    BY <1>5, <1>7, <1>9 DEF NextSeq, Completes
  <2>5. SubSeq(b, 1, size) \in Stored /\ SubSeq(b, 1, size) = Bytes(p)
    BY <1>3, <2>1, <2>3, SingleTaken
  <2>6. PICK x \in Stored : x = SubSeq(b, 1, size)
    BY <2>5
  <2>7. x = Bytes(p) /\ Enqueue(x)
    BY <2>4, <2>5, <2>6
  <2> QED BY <1>4, <2>1, <2>4, <2>7, Completed
<1>10. CASE Split(p) /\ seq = f.seq
  <2>1. PICK r \in DOMAIN packets : HalfHere(s, r)
    <3>1. Head(air[s]).split /\ Head(air[s]).seq = seq /\ seq # SEQ_UNSET
      BY <1>3, <1>5, <1>8, <1>10
    <3> QED BY <1>1, <1>6, <3>1 DEF Begun
  <2>2. /\ Split(r) /\ air[s] = <<Second(r, packets[r].size, packets[r].seq)>>
        /\ read_len = FrameMax /\ \A i \in 1..FrameMax : pbuf[i] = <<r, i>>
        /\ packets[r].sender = s
    BY <2>1 DEF HalfHere
  <2>3. f = Second(r, packets[r].size, packets[r].seq) /\ air'[s] = <<>>
    BY <1>2, <1>3, <2>2
  <2>4. r = p
    <3>1. f.seq = packets[r].seq
      BY <2>3 DEF Second
    <3> QED BY <1>5, <1>10, <2>2, <3>1 DEF Halves, DistinctSeqs
  <2>5. start = FrameMax /\ seq' = SEQ_UNSET /\ Enqueue(SubSeq(b, 1, size))
    BY <1>5, <1>7, <1>10, <2>2 DEF ReadFrom, NextSeq, Completes
  <2>6. SubSeq(b, 1, size) \in Stored /\ SubSeq(b, 1, size) = Bytes(p)
    BY <1>3, <1>10, <2>2, <2>3, <2>4, <2>5, SecondTaken
  <2>7. PICK x \in Stored : x = SubSeq(b, 1, size)
    BY <2>6
  <2>8. x = Bytes(p) /\ Enqueue(x)
    BY <2>5, <2>6, <2>7
  <2> QED BY <1>4, <2>3, <2>5, <2>8, Completed
<1>11. CASE Split(p) /\ seq # f.seq
  <2>1. /\ start = 0 /\ seq' = f.seq /\ read_len' = size
        /\ UNCHANGED modem_packet_queue
    BY <1>5, <1>7, <1>11 DEF ReadFrom, NextSeq, Completes
  <2>2. ASSUME NEW o \in Senders, air'[o] # <<>>, Head(air'[o]).split, Head(air'[o]).seq = f.seq
        PROVE  HalfHere(o, p)'
    <3>1. o = s
      <4>1. SUFFICES ASSUME o # s PROVE FALSE
        OBVIOUS
      <4>2. air'[o] = air[o]
        BY <1>2, <4>1
      <4>3. air[o] # <<>> /\ Head(air[o]).split /\ Head(air[o]).seq = packets[p].seq
        BY <1>5, <2>2, <4>2
      <4>4. DistinctSeqs /\ Split(p) /\ packets[p].sender = s
        BY <1>5, <1>11 DEF Halves
      <4> QED BY <4>1, <4>3, <4>4, SameNumber
    <3>2. /\ f = First(p, packets[p].seq)
          /\ air'[s] = <<Second(p, packets[p].size, packets[p].seq)>>
      <4>1. Tail(air[s]) # <<>>
        BY <1>2, <2>2, <3>1
      <4> QED BY <1>2, <1>3, <1>4, <1>11, <4>1 DEF Plays
    <3>3. size = FrameMax /\ \A i \in 1..FrameMax : b[i] = <<p, i>>
      <4>1. Taken(f, data, start, size, b) /\ start = 0
        BY <1>3, <2>1
      <4> QED BY <3>2, <4>1, FirstTaken
    <3>4. packets' = packets /\ pbuf' = b
      BY <1>1, <1>7
    <3> QED BY <1>5, <1>11, <2>1, <3>1, <3>2, <3>3, <3>4 DEF HalfHere, Split
  <2>3. p \in DOMAIN packets' /\ Split(p)' /\ packets'[p].seq = seq'
    BY <1>1, <1>5, <1>11, <2>1 DEF Split
  <2>4. Begun'
    BY <2>1, <2>2, <2>3 DEF Begun
  <2> QED BY <1>8, <2>1, <2>4 DEF Received
<1> QED BY <1>9, <1>10, <1>11

-----------------------------------------------------------------------------
(* A receiver that defers: the steps *)

(* A half that was begun is still begun when another packet is sent. *)
LEMMA TransmitBegun ==
  ASSUME Kinds, NoThirdFrame, OnAir, Begun, [Next]_vars, DistinctSeqs',
         NEW s \in Senders, NEW size \in Sizes, NEW q \in Seqs, transmit(s, size, q)
  PROVE  Begun'
<1>1. PICK n : n = Len(packets) + 1
  OBVIOUS
<1>2. /\ n \in DOMAIN packets' /\ n \notin DOMAIN packets
      /\ packets'[n] = [sender |-> s, size |-> size, seq |-> q]
      /\ air'[s] # <<>>
      /\ \A o \in Senders \ {s} : air'[o] = air[o]
      /\ Split(n)' <=> size > FrameMax
      /\ size > FrameMax => air'[s] = <<First(n, q), Second(n, size, q)>>
      /\ size <= FrameMax => air'[s] = <<Single(n, size, q)>>
  <2>1. Sent(n, s, size, q)
    BY <1>1, TransmitOnAir
  <2> QED BY <2>1 DEF Sent
<1>3. \A p \in DOMAIN packets :
         p \in DOMAIN packets' /\ packets'[p] = packets[p] /\ (Split(p)' <=> Split(p))
  BY PacketsGrow
<1>4. UNCHANGED <<seq, read_len, pbuf>>
  BY DEF transmit, receiver
<1>5. SUFFICES ASSUME seq # SEQ_UNSET
               PROVE  /\ \E p \in DOMAIN packets' : Split(p)' /\ packets'[p].seq = seq
                      /\ \A o \in Senders :
                            air'[o] # <<>> /\ Head(air'[o]).split /\ Head(air'[o]).seq = seq =>
                               \E p \in DOMAIN packets' : HalfHere(o, p)'
  BY <1>4 DEF Begun
<1>6. PICK p \in DOMAIN packets : Split(p) /\ packets[p].seq = seq
  BY <1>5 DEF Begun
<1>7. ASSUME NEW o \in Senders, air'[o] # <<>>, Head(air'[o]).split, Head(air'[o]).seq = seq
      PROVE  \E r \in DOMAIN packets' : HalfHere(o, r)'
  <2>1. CASE o # s
    <3>1. air'[o] = air[o]
      BY <1>2, <2>1
    <3>2. PICK r \in DOMAIN packets : HalfHere(o, r)
      BY <1>5, <1>7, <3>1 DEF Begun
    <3>3. r \in DOMAIN packets' /\ packets'[r] = packets[r] /\ (Split(r)' <=> Split(r))
      BY <1>3
    <3>4. HalfHere(o, r)'
      BY <1>4, <3>1, <3>2, <3>3 DEF HalfHere
    <3> QED BY <3>3, <3>4
  <2>2. CASE o = s
    <3>1. size \in Nat /\ FrameMax \in Nat
      BY PacketLinkAssumption
    <3>2. CASE size <= FrameMax
      <4>1. Head(air'[s]) = Single(n, size, q)
        BY <1>2, <3>2
      <4> QED BY <1>7, <2>2, <4>1 DEF Single
    <3>3. CASE size > FrameMax
      <4>1. Head(air'[s]) = First(n, q)
        BY <1>2, <3>3
      <4>2. q = seq
        BY <1>7, <2>2, <4>1 DEF First
      <4>3. packets'[n].seq = seq /\ Split(n)'
        BY <1>2, <3>3, <4>2
      <4>4. p \in DOMAIN packets' /\ packets'[p].seq = seq /\ Split(p)' /\ p # n
        BY <1>2, <1>3, <1>6
      <4> QED BY <1>2, <4>3, <4>4 DEF DistinctSeqs
    <3> QED BY <3>1, <3>2, <3>3
  <2> QED BY <2>1, <2>2
<1> QED BY <1>3, <1>6, <1>7

(* ... and when a frame is lost: its own second half, or another packet's. *)
LEMMA LoseBegun ==
  ASSUME Kinds, NoThirdFrame, OnAir, Begun, NEW s \in Senders, Lose(s)
  PROVE  Begun'
<1>1. /\ air[s] # <<>> /\ air' = [air EXCEPT ![s] = Tail(air[s])]
      /\ UNCHANGED <<packets, seq, read_len, pbuf>>
  BY DEF Lose, receiver
<1>2. /\ air'[s] = Tail(air[s]) /\ \A o \in Senders \ {s} : air'[o] = air[o]
  BY <1>1 DEF Kinds
<1>3. SUFFICES ASSUME seq # SEQ_UNSET,
                      NEW o \in Senders, air'[o] # <<>>, Head(air'[o]).split,
                      Head(air'[o]).seq = seq
               PROVE  \E r \in DOMAIN packets' : HalfHere(o, r)'
  BY <1>1 DEF Begun, Split
<1>4. CASE o # s
  <2>1. air'[o] = air[o]
    BY <1>2, <1>4
  <2>2. PICK r \in DOMAIN packets : HalfHere(o, r)
    BY <1>3, <2>1 DEF Begun
  <2> QED BY <1>1, <2>1, <2>2 DEF HalfHere, Split
<1>5. CASE o = s
  <2>1. PICK p \in DOMAIN packets : Plays(s, p)
    BY <1>1, HeadFacts
  <2>2. Tail(air[s]) # <<>>
    BY <1>2, <1>3, <1>5
  <2>3. PICK f : f = Second(p, packets[p].size, packets[p].seq)
    OBVIOUS
  <2>4. Split(p) /\ Tail(air[s]) = <<f>>
    BY <2>1, <2>2, <2>3 DEF Plays
  <2>5. Head(air'[s]) = f
    <3>1. air'[s] = <<f>>
      BY <1>2, <2>4
    <3> QED BY <3>1
  <2>6. packets[p].seq = seq
    BY <1>3, <1>5, <2>3, <2>5 DEF Second
  <2>7. Head(air[s]).split /\ Head(air[s]).seq = seq
    <3>1. (Head(air[s]).split <=> Split(p)) /\ Head(air[s]).seq = packets[p].seq
      BY <2>1, HeadHeader
    <3> QED BY <2>4, <2>6, <3>1
  <2>8. PICK r \in DOMAIN packets : HalfHere(s, r)
    BY <1>1, <1>3, <2>7 DEF Begun
  <2>9. air[s] = <<Second(r, packets[r].size, packets[r].seq)>>
    BY <2>8 DEF HalfHere
  <2> QED BY <2>2, <2>9
<1> QED BY <1>4, <1>5

(* Every step leaves the mode of the receiver alone. *)
LEMMA ModeStays == ASSUME Kinds, [Next]_vars PROVE UNCHANGED <<deferred, promisc>>
<1>1. ASSUME NEW s \in Senders, Receive(s) PROVE UNCHANGED <<deferred, promisc>>
  BY <1>1, ReceiveEffect
<1> QED BY <1>1 DEF Next, transmit, Lose, Arrival, handleDio0IfPending, onDio0Rise, Loop,
           NothingPending, NothingQueued, Drain, kiss_write_packet, receiver, vars

(* Collected holds after every step. *)
LEMMA StepCollected ==
  ASSUME Kinds, NoThirdFrame, OnAir, InLoop, Collected, [Next]_vars
  PROVE  Collected'
<1>1. UNCHANGED <<deferred, promisc>>
  BY ModeStays
<1>2. (DistinctSeqs' => DistinctSeqs) /\ (failed => failed') /\ (Halves' => Halves)
  BY HalvesBefore
<1>3. SUFFICES ASSUME deferred, ~promisc, Halves'
               PROVE  Begun' /\ (seq' = SEQ_UNSET => read_len' = 0 \/ failed')
  BY <1>1 DEF Collected
<1>4. Halves /\ DistinctSeqs' /\ Begun /\ (seq = SEQ_UNSET => read_len = 0 \/ failed)
  BY <1>2, <1>3 DEF Collected, Halves
<1>5. ASSUME NEW s \in Senders, NEW size \in Sizes, NEW q \in Seqs, transmit(s, size, q)
      PROVE  Begun' /\ (seq' = SEQ_UNSET => read_len' = 0 \/ failed')
  <2>1. Begun'
    BY <1>4, <1>5, TransmitBegun
  <2> QED BY <1>4, <1>5, <2>1 DEF transmit, receiver
<1>6. ASSUME NEW s \in Senders, Lose(s)
      PROVE  Begun' /\ (seq' = SEQ_UNSET => read_len' = 0 \/ failed')
  <2>1. Begun'
    BY <1>4, <1>6, LoseBegun
  <2> QED BY <1>4, <1>6, <2>1 DEF Lose, receiver
<1>7. ASSUME NEW s \in Senders, Receive(s)
      PROVE  Begun' /\ (seq' = SEQ_UNSET => read_len' = 0 \/ failed')
  <2>1. Received(s)
    BY <1>3, <1>4, <1>7, ReceiveHalf
  <2> QED BY <2>1 DEF Received
<1>8. CASE Drain
  <2>1. modem_packet_queue # <<>> /\ UNCHANGED <<seq, read_len, failed>>
    BY <1>8 DEF Drain
  <2>2. seq = SEQ_UNSET
    BY <1>3, <2>1 DEF InLoop
  <2> QED BY <1>4, <2>1, <2>2 DEF Begun
<1>9. CASE UNCHANGED <<packets, air, seq, read_len, pbuf, failed>>
  BY <1>4, <1>9 DEF Begun, HalfHere, Split
<1> QED BY <1>5, <1>6, <1>7, <1>8, <1>9
        DEF Next, Arrival, handleDio0IfPending, onDio0Rise, Loop, NothingPending,
            NothingQueued, kiss_write_packet, receiver, vars

-----------------------------------------------------------------------------
(* A receiver that defers: what the host is given *)

(* Only a frame changes what the host is given: the steps of loop() pass a   *)
(* packet on, through pbuf, as it is.                                        *)
LEMMA LoopGiven ==
  ASSUME Kinds, InLoop, deferred, [Next]_vars
  PROVE  Given' = Given \/ \E s \in Senders : handleDio0IfPending(s)
<1>0. host \in Seq(Stored) /\ modem_packet_queue \in Seq(Stored)
  BY DEF Kinds
<1>1. CASE UNCHANGED <<host, pc, pbuf, modem_packet_queue, host_write_len>>
  BY <1>1 DEF Given
<1>2. CASE NothingPending
  <2>1. /\ pc = "top" /\ pc' = "drain" /\ modem_packet_queue = <<>>
        /\ UNCHANGED <<host, modem_packet_queue>>
    BY <1>2 DEF NothingPending, receiver, InLoop
  <2> QED BY <2>1 DEF Given
<1>3. CASE NothingQueued
  <2>1. /\ pc = "drain" /\ pc' = "top" /\ modem_packet_queue = <<>>
        /\ UNCHANGED <<host, modem_packet_queue>>
    BY <1>3 DEF NothingQueued, receiver
  <2> QED BY <2>1 DEF Given
<1>4. CASE Drain
  <2>1. /\ pc = "drain" /\ pc' = "write" /\ modem_packet_queue # <<>> /\ host' = host
        /\ host_write_len' = Len(Head(modem_packet_queue))
        /\ pbuf' = [i \in 1..MTU |-> IF i \in DOMAIN Head(modem_packet_queue)
                                     THEN Head(modem_packet_queue)[i] ELSE pbuf[i]]
    BY <1>4 DEF Drain
  <2>2. PICK x \in Stored : x = Head(modem_packet_queue)
    BY <1>0, <2>1
  <2>3. x \in Seq(Byte) /\ Len(x) \in 0..MTU /\ DOMAIN x = 1..Len(x) /\ MTU \in Nat
    BY PacketLinkAssumption DEF Stored
  <2>4. PICK b \in [1..MTU -> Byte] :
            pbuf' = b /\ \A i \in 1..MTU : b[i] = IF i \in DOMAIN x THEN x[i] ELSE pbuf[i]
    <3>1. [i \in 1..MTU |-> IF i \in DOMAIN x THEN x[i] ELSE pbuf[i]] \in [1..MTU -> Byte]
      BY <2>3 DEF Kinds
    <3> QED BY <2>1, <2>2, <3>1
  <2>5. PICK y \in Stored : y = SubSeq(b, 1, Len(x))
    BY <2>3, Prefix
  <2>6. y \in Seq(Byte) /\ Len(y) = Len(x) /\ \A i \in 1..Len(x) : y[i] = b[i]
    BY <2>3, <2>5, Prefix DEF Stored
  <2>7. \A i \in 1..Len(x) : y[i] = x[i]
    BY <2>3, <2>4, <2>6
  <2>8. y = x
    BY <2>3, <2>6, <2>7
  <2>9. SubSeq(pbuf', 1, host_write_len') = x
    BY <2>1, <2>2, <2>4, <2>5, <2>8
  <2> QED BY <2>1, <2>2, <2>9 DEF Given
<1>5. CASE kiss_write_packet
  <2>1. /\ pc = "write" /\ pc' = "top" /\ UNCHANGED modem_packet_queue
        /\ host' = Append(host, SubSeq(pbuf, 1, host_write_len))
    BY <1>5 DEF kiss_write_packet, receiver
  <2>2. modem_packet_queue = <<>>
    BY <2>1 DEF InLoop
  <2> QED BY <2>1, <2>2 DEF Given
<1> QED BY <1>1, <1>2, <1>3, <1>4, <1>5
        DEF Next, transmit, Lose, Arrival, onDio0Rise, Loop, receiver, vars

(* A frame is taken while nothing is at hand. *)
LEMMA ReceiveGiven ==
  ASSUME Kinds, InLoop, deferred, NEW s \in Senders, handleDio0IfPending(s)
  PROVE  /\ Given = host /\ modem_packet_queue = <<>>
         /\ UNCHANGED modem_packet_queue => Given' = Given
         /\ \A x \in Stored : modem_packet_queue' = Append(modem_packet_queue, x) =>
                                Given' = Append(Given, x)
<1>1. pc = "top" /\ pc' = "drain" /\ Receive(s)
  BY DEF handleDio0IfPending
<1>2. modem_packet_queue = <<>> /\ host' = host
  BY <1>1, ReceiveEffect DEF InLoop
<1>3. Given = host
  BY <1>1, <1>2 DEF Given
<1>4. UNCHANGED modem_packet_queue => Given' = Given
  BY <1>1, <1>2, <1>3 DEF Given
<1>5. ASSUME NEW x \in Stored, modem_packet_queue' = Append(modem_packet_queue, x)
      PROVE  Given' = Append(Given, x)
  <2>1. modem_packet_queue' = <<x>>
    BY <1>2, <1>5
  <2>2. modem_packet_queue' # <<>> /\ Head(modem_packet_queue') = x
    BY <2>1
  <2> QED BY <1>1, <1>2, <1>3, <2>2 DEF Given
<1> QED BY <1>2, <1>3, <1>4, <1>5

(* Given is a sequence of packets. *)
LEMMA GivenSeq == ASSUME Kinds PROVE Given \in Seq(Stored)
<1>1. SubSeq(pbuf, 1, host_write_len) \in Stored
  BY Prefix DEF Kinds
<1>2. modem_packet_queue # <<>> => Head(modem_packet_queue) \in Stored
  BY DEF Kinds
<1> QED BY <1>1, <1>2 DEF Given, Kinds

(* In promiscuous mode the packet is the frame with its header. *)
LEMMA RawTaken ==
  ASSUME Kinds, NoThirdFrame, OnAir, promisc, NEW s \in Senders, air[s] # <<>>,
         NEW f, f = Head(air[s]),
         NEW data, NEW start, NEW size, NEW b, Taken(f, data, start, size, b)
  PROVE  SubSeq(b, 1, size) = Raw(f) /\ IsRaw(Raw(f))
<1>1. PICK p \in DOMAIN packets : Plays(s, p)
  BY HeadFacts
<1>2. PICK k \in Packet : k = packets[p]
  BY PacketFacts
<1>3. /\ k.size \in Sizes /\ k.size \in 1..MTU /\ FrameMax \in Nat \ {0} /\ MTU \in Nat
      /\ FrameMax < MTU
  BY <1>2, PacketFacts
<1>4. /\ f \in ToSet(Frames(p, k.size, k.seq))
      /\ \E n \in 0..FrameMax : \E from : f.data = Cut(p, from, n)
  <2>1. CASE ~Split(p)
    <3>1. f = Single(p, k.size, k.seq) /\ k.size <= FrameMax
      BY <1>1, <1>2, <1>3, <2>1 DEF Plays, Split
    <3>2. Frames(p, k.size, k.seq) = <<f>>
      BY <1>3, <3>1, FramesSingle
    <3>3. f \in ToSet(<<f>>)
      BY DEF ToSet
    <3>4. k.size \in 0..FrameMax /\ f.data = Cut(p, 0, k.size)
      BY <1>3, <3>1 DEF Single
    <3> QED BY <3>2, <3>3, <3>4
  <2>2. CASE Split(p)
    <3>1. k.size > FrameMax /\ k.size - FrameMax \in 0..FrameMax
      BY <1>2, <1>3, <2>2 DEF Split, NoThirdFrame
    <3>2. Frames(p, k.size, k.seq) = <<First(p, k.seq), Second(p, k.size, k.seq)>>
      BY <1>3, <3>1, FramesDouble
    <3>3. f = First(p, k.seq) \/ f = Second(p, k.size, k.seq)
      BY <1>1, <1>2, <2>2 DEF Plays
    <3>4. f \in ToSet(<<First(p, k.seq), Second(p, k.size, k.seq)>>)
      BY <3>3 DEF ToSet
    <3>5. \E n \in 0..FrameMax : \E from : f.data = Cut(p, from, n)
      BY <1>3, <3>1, <3>3 DEF First, Second
    <3> QED BY <3>2, <3>4, <3>5
  <2> QED BY <2>1, <2>2
<1>5. IsRaw(Raw(f))
  BY <1>2, <1>4 DEF IsRaw
<1>6. Len(f.data) \in 0..FrameMax
  <2>1. PICK n \in 0..FrameMax : \E from : f.data = Cut(p, from, n)
    BY <1>4
  <2> QED BY <1>3, <2>1 DEF Cut
<1>7. data = Raw(f) /\ data \in Seq(Byte) /\ start = 0 /\ f \in Frame
  BY DEF Taken
<1>8. Len(data) = 1 + Len(f.data)
  <2>1. f.data \in Seq(Byte)
    BY <1>7 DEF Frame
  <2> QED BY <1>7, <2>1 DEF Raw
<1>9. Len(data) \in 0..MTU /\ size = Len(data) /\ b \in [1..MTU -> Byte]
  <2>1. /\ size = IF start + Len(data) < MTU THEN start + Len(data) ELSE MTU
        /\ b \in [1..MTU -> Byte]
    BY DEF Taken
  <2> QED BY <1>3, <1>6, <1>7, <1>8, <2>1
<1>10. PICK x \in Stored : x = SubSeq(b, 1, size)
  BY <1>9, Prefix
<1>11. x \in Seq(Byte) /\ Len(x) = Len(data) /\ \A i \in 1..Len(data) : x[i] = b[i]
  BY <1>9, <1>10, Prefix DEF Stored
<1>12. ASSUME NEW i \in 1..Len(data) PROVE b[i] = data[i]
  <2>1. i \in 1..MTU /\ i - 0 = i /\ i \in DOMAIN data
    BY <1>3, <1>7, <1>9
  <2>2. b[i] = IF i - start \in DOMAIN data THEN data[i - start] ELSE pbuf[i]
    BY <2>1 DEF Taken
  <2> QED BY <1>7, <2>1, <2>2
<1>13. x = data
  BY <1>7, <1>11, <1>12
<1> QED BY <1>5, <1>7, <1>10, <1>13

(* What was given stays whole. *)
LEMMA StillWhole ==
  ASSUME Kinds, [Next]_vars, NEW x
  PROVE  (IsRaw(x) => IsRaw(x)') /\ (IsPacket(x) => IsPacket(x)')
<1>1. \A p \in DOMAIN packets : p \in DOMAIN packets' /\ packets'[p] = packets[p]
  BY PacketsGrow
<1>2. ASSUME IsRaw(x) PROVE IsRaw(x)'
  <2>1. PICK p \in DOMAIN packets :
            \E f \in ToSet(Frames(p, packets[p].size, packets[p].seq)) : x = Raw(f)
    BY <1>2 DEF IsRaw
  <2>2. p \in DOMAIN packets' /\ packets'[p] = packets[p]
    BY <1>1
  <2>3. \E f \in ToSet(Frames(p, packets'[p].size, packets'[p].seq)) : x = Raw(f)
    BY <2>1, <2>2
  <2> QED BY <2>2, <2>3 DEF IsRaw
<1>3. ASSUME IsPacket(x) PROVE IsPacket(x)'
  <2>1. PICK p \in DOMAIN packets : x = Bytes(p)
    BY <1>3 DEF IsPacket
  <2>2. p \in DOMAIN packets' /\ Bytes(p)' = Bytes(p)
    BY <1>1 DEF Bytes
  <2> QED BY <2>1, <2>2 DEF IsPacket
<1> QED BY <1>2, <1>3

(* A frame adds to what the host is given one whole packet, or nothing. *)
LEMMA ReceiveAdds ==
  ASSUME Kinds, NoThirdFrame, OnAir, InLoop, Collected, deferred, Halves, Halves',
         NEW s \in Senders, handleDio0IfPending(s)
  PROVE  \/ Given' = Given
         \/ promisc /\ \E x \in Stored : Given' = Append(Given, x) /\ IsRaw(x)
         \/ /\ ~promisc
            /\ \E p \in DOMAIN packets :
                  /\ Bytes(p) \in Stored /\ Given' = Append(Given, Bytes(p))
                  /\ Sends(s, p) /\ air'[s] = <<>>
<1>1. Receive(s)
  BY DEF handleDio0IfPending
<1>2. /\ UNCHANGED modem_packet_queue => Given' = Given
      /\ \A x \in Stored : modem_packet_queue' = Append(modem_packet_queue, x) =>
                             Given' = Append(Given, x)
  BY ReceiveGiven
<1>3. CASE ~promisc
  <2>1. Received(s)
    BY <1>1, <1>3, ReceiveHalf
  <2>2. CASE UNCHANGED modem_packet_queue
    BY <1>2, <2>2
  <2>3. ASSUME NEW p \in DOMAIN packets, Sends(s, p), air'[s] = <<>>,
               modem_packet_queue' = Append(modem_packet_queue, Bytes(p))
        PROVE  Bytes(p) \in Stored /\ Given' = Append(Given, Bytes(p))
    <3>1. Bytes(p) \in Stored
      <4>1. PICK n \in 1..MTU : n = packets[p].size
        BY PacketFacts
      <4>2. p \in Nat /\ MTU \in Nat
        BY PacketFacts
      <4>3. Bytes(p) = [i \in 1..n |-> <<p, i>>]
        BY <4>1 DEF Bytes
      <4>4. [i \in 1..n |-> <<p, i>>] \in Seq(Byte) /\ Len([i \in 1..n |-> <<p, i>>]) = n
        BY <4>2 DEF Byte
      <4> QED BY <4>2, <4>3, <4>4 DEF Stored
    <3> QED BY <1>2, <2>3, <3>1
  <2> QED BY <1>3, <2>1, <2>2, <2>3 DEF Received
<1>4. CASE promisc
  <2>1. PICK f, data, start, size, b : f = Head(air[s]) /\ Taken(f, data, start, size, b)
    BY <1>1, ReceiveEffect
  <2>2. air[s] # <<>>
    BY <1>1, ReceiveEffect
  <2>3. SubSeq(b, 1, size) = Raw(f) /\ IsRaw(Raw(f))
    BY <1>4, <2>1, <2>2, RawTaken
  <2>4. b \in [1..MTU -> Byte] /\ size \in 0..MTU /\ Enqueue(SubSeq(b, 1, size))
    BY <1>4, <2>1 DEF Taken
  <2>5. PICK x \in Stored : x = SubSeq(b, 1, size)
    BY <2>4, Prefix
  <2>6. Enqueue(x) /\ IsRaw(x)
    BY <2>3, <2>4, <2>5
  <2>7. \/ UNCHANGED modem_packet_queue
        \/ modem_packet_queue' = Append(modem_packet_queue, x)
    BY <2>6, Enqueued
  <2> QED BY <1>2, <1>4, <2>6, <2>7
<1> QED BY <1>3, <1>4

(* GivenWhole holds after every step. *)
LEMMA StepGivenWhole ==
  ASSUME Kinds, NoThirdFrame, OnAir, InLoop, Collected, GivenWhole, [Next]_vars
  PROVE  GivenWhole'
<1>1. UNCHANGED <<deferred, promisc>>
  BY ModeStays
<1>2. Halves' => Halves
  BY HalvesBefore
<1>3. SUFFICES ASSUME deferred, Halves', NEW h, h = Given'
               PROVE  \A k \in DOMAIN h : IsWhole(h[k])'
  BY <1>1 DEF GivenWhole
<1>4. \A k \in DOMAIN Given : IsWhole(Given[k])
  BY <1>2, <1>3 DEF GivenWhole
<1>5. ASSUME NEW x, IsWhole(x) PROVE IsWhole(x)'
  <2>1. (IsRaw(x) => IsRaw(x)') /\ (IsPacket(x) => IsPacket(x)')
    BY StillWhole
  <2> QED BY <1>1, <1>5, <2>1 DEF IsWhole
<1>6. PICK g \in Seq(Stored) : g = Given
  BY GivenSeq
<1>7. h = Given'
  BY <1>3
<1>8. h = g \/ \E x \in Stored : h = Append(g, x) /\ IsWhole(x)
  <2>1. CASE Given' = Given
    BY <1>6, <1>7, <2>1
  <2>2. ASSUME NEW s \in Senders, handleDio0IfPending(s)
        PROVE  h = g \/ \E x \in Stored : h = Append(g, x) /\ IsWhole(x)
    <3>1. \/ Given' = Given
          \/ promisc /\ \E x \in Stored : Given' = Append(Given, x) /\ IsRaw(x)
          \/ /\ ~promisc
             /\ \E p \in DOMAIN packets :
                   /\ Bytes(p) \in Stored /\ Given' = Append(Given, Bytes(p))
                   /\ Sends(s, p) /\ air'[s] = <<>>
      BY <1>2, <1>3, <2>2, ReceiveAdds
    <3> QED BY <1>6, <1>7, <3>1 DEF IsWhole, IsPacket
  <2> QED BY <1>3, <2>1, <2>2, LoopGiven
<1>9. \A k \in DOMAIN h : IsWhole(h[k])
  BY <1>4, <1>6, <1>8
<1> QED BY <1>5, <1>9

-----------------------------------------------------------------------------
(* A receiver that defers: the order *)

(* A packet knows itself. *)
LEMMA OfBytes == ASSUME Kinds, NEW p \in DOMAIN packets PROVE Of(Bytes(p)) = p
<1>1. PICK n \in 1..MTU : n = packets[p].size
  BY PacketFacts
<1>2. MTU \in Nat
  BY PacketFacts
<1>3. Bytes(p) = [i \in 1..n |-> <<p, i>>]
  BY <1>1 DEF Bytes
<1>4. Len([i \in 1..n |-> <<p, i>>]) = n /\ n \in 1..n
  BY <1>2
<1> QED BY <1>3, <1>4 DEF Of

(* So does a part of one that is not empty. *)
LEMMA CutFirst ==
  ASSUME NEW p, NEW from, NEW n \in Nat \ {0}
  PROVE  Cut(p, from, n)[1][1] = p
<1>1. 1 \in 1..n
  OBVIOUS
<1> QED BY <1>1 DEF Cut

(* The first byte of a frame tells its packet. *)
LEMMA PlayingIs ==
  ASSUME Kinds, NoThirdFrame, NEW s \in Senders, NEW p \in DOMAIN packets, Plays(s, p)
  PROVE  Playing(s) = p
<1>1. PICK n \in 1..MTU : n = packets[p].size
  BY PacketFacts
<1>2. MTU \in Nat /\ FrameMax \in Nat \ {0} /\ n \in Nat \ {0}
  BY PacketFacts
<1>3. Split(p) => n - FrameMax \in Nat \ {0}
  BY <1>1, <1>2 DEF Split
<1>4. CASE Head(air[s]) = Single(p, n, packets[p].seq)
  <2>1. Head(air[s]).data = Cut(p, 0, n)
    BY <1>4 DEF Single
  <2> QED BY <1>2, <2>1, CutFirst DEF Playing
<1>5. CASE Head(air[s]) = First(p, packets[p].seq)
  <2>1. Head(air[s]).data = Cut(p, 0, FrameMax)
    BY <1>5 DEF First
  <2> QED BY <1>2, <2>1, CutFirst DEF Playing
<1>6. CASE Split(p) /\ Head(air[s]) = Second(p, n, packets[p].seq)
  <2>1. Head(air[s]).data = Cut(p, FrameMax, n - FrameMax)
    BY <1>6 DEF Second
  <2> QED BY <1>3, <1>6, <2>1, CutFirst DEF Playing
<1> QED BY <1>1, <1>4, <1>5, <1>6 DEF Plays

(* The next frame of a node is of the same packet. *)
LEMMA PlayingStays ==
  ASSUME Kinds, NoThirdFrame, OnAir, NEW s \in Senders, air[s] # <<>>, UNCHANGED packets, Kinds',
         air' = [air EXCEPT ![s] = Tail(air[s])], air'[s] # <<>>
  PROVE  Playing(s)' = Playing(s)
<1>1. PICK p \in DOMAIN packets : Plays(s, p)
  BY HeadFacts
<1>2. air'[s] = Tail(air[s])
  BY DEF Kinds
<1>3. PICK f : f = Second(p, packets[p].size, packets[p].seq)
  OBVIOUS
<1>4. Split(p) /\ air'[s] = <<f>>
  <2>1. Tail(air[s]) # <<>>
    BY <1>2
  <2> QED BY <1>1, <1>2, <1>3, <2>1 DEF Plays
<1>5. Head(air'[s]) = f
  <2>1. Head(<<f>>) = f
    OBVIOUS
  <2> QED BY <1>4, <2>1
<1>6. Playing(s)' = p
  <2>1. PICK n \in 1..MTU : n = packets[p].size
    BY PacketFacts
  <2>2. MTU \in Nat /\ FrameMax \in Nat \ {0}
    BY PacketFacts
  <2>3. n - FrameMax \in Nat \ {0}
    BY <1>4, <2>1, <2>2 DEF Split
  <2>4. f.data = Cut(p, FrameMax, n - FrameMax)
    BY <1>3, <2>1 DEF Second
  <2>5. f.data[1][1] = p
    BY <2>3, <2>4, CutFirst
  <2> QED BY <1>5, <2>5 DEF Playing
<1>7. Playing(s) = p
  BY <1>1, PlayingIs
<1> QED BY <1>6, <1>7

(* The two halves of GivenInOrder, for a sequence g. *)
Ascending(g) ==
    \A j, k \in DOMAIN g :
        j < k /\ packets[Of(g[j])].sender = packets[Of(g[k])].sender => Of(g[j]) < Of(g[k])
Passed(g) ==
    \A s \in Senders, k \in DOMAIN g :
        air[s] # <<>> /\ packets[Of(g[k])].sender = s => Of(g[k]) < Playing(s)

(* Frames taken from the air leave Passed as it is. *)
LEMMA NextFramePassed ==
  ASSUME Kinds, Kinds', NoThirdFrame, OnAir, NEW s \in Senders, air[s] # <<>>, UNCHANGED packets,
         air' = [air EXCEPT ![s] = Tail(air[s])], NEW g, Passed(g)
  PROVE  Passed(g)'
<1>1. SUFFICES ASSUME NEW o \in Senders, NEW k \in DOMAIN g, air'[o] # <<>>,
                      packets[Of(g[k])].sender = o
               PROVE  Of(g[k]) < Playing(o)'
  BY DEF Passed
<1>2. air[o] # <<>> /\ Playing(o)' = Playing(o)
  <2>1. CASE o = s
    BY <1>1, <2>1, PlayingStays
  <2>2. CASE o # s
    <3>1. air'[o] = air[o]
      BY <2>2 DEF Kinds
    <3> QED BY <1>1, <3>1 DEF Playing
  <2> QED BY <2>1, <2>2
<1> QED BY <1>1, <1>2 DEF Passed

(* A packet that is sent comes after all that was given. *)
LEMMA TransmitPassed ==
  ASSUME Kinds, Kinds', NoThirdFrame, OnAir, OnAir', [Next]_vars,
         NEW s \in Senders, NEW size \in Sizes, NEW q \in Seqs, transmit(s, size, q),
         NEW g, \A k \in DOMAIN g : Of(g[k]) \in DOMAIN packets, Passed(g)
  PROVE  Passed(g)'
<1>1. PICK n : n = Len(packets) + 1
  OBVIOUS
<1>2. Sent(n, s, size, q)
  BY <1>1, TransmitOnAir
<1>3. SUFFICES ASSUME NEW o \in Senders, NEW k \in DOMAIN g, air'[o] # <<>>,
                      packets'[Of(g[k])].sender = o
               PROVE  Of(g[k]) < Playing(o)'
  BY DEF Passed
<1>4. PICK r \in DOMAIN packets : r = Of(g[k])
  OBVIOUS
<1>5. packets'[r] = packets[r]
  BY PacketsGrow
<1>6. CASE o # s
  <2>1. air'[o] = air[o]
    BY <1>2, <1>6 DEF Sent
  <2>2. Playing(o)' = Playing(o)
    BY <2>1 DEF Playing
  <2> QED BY <1>3, <1>4, <1>5, <2>1, <2>2 DEF Passed
<1>7. CASE o = s
  <2>1. Playing(s)' = n
    <3>1. size \in Nat \ {0} /\ FrameMax \in Nat \ {0}
      BY PacketLinkAssumption
    <3>2. CASE size <= FrameMax
      <4>1. Head(air'[s]) = Single(n, size, q)
        BY <1>2, <3>2 DEF Sent
      <4>2. Head(air'[s]).data = Cut(n, 0, size)
        BY <4>1 DEF Single
      <4> QED BY <3>1, <4>2, CutFirst DEF Playing
    <3>3. CASE size > FrameMax
      <4>1. Head(air'[s]) = First(n, q)
        BY <1>2, <3>3 DEF Sent
      <4>2. Head(air'[s]).data = Cut(n, 0, FrameMax)
        BY <4>1 DEF First
      <4> QED BY <3>1, <4>2, CutFirst DEF Playing
    <3> QED BY <3>1, <3>2, <3>3
  <2>2. r < n
    BY <1>1 DEF Kinds
  <2> QED BY <1>4, <1>7, <2>1, <2>2
<1> QED BY <1>6, <1>7

(* GivenInOrder holds after every step. *)
LEMMA StepGivenInOrder ==
  ASSUME Kinds, Kinds', NoThirdFrame, OnAir, OnAir', InLoop, Collected, GivenWhole, GivenInOrder,
         [Next]_vars
  PROVE  GivenInOrder'
<1>1. UNCHANGED <<deferred, promisc>>
  BY ModeStays
<1>2. (DistinctSeqs' => DistinctSeqs) /\ (failed => failed') /\ (Halves' => Halves)
  BY HalvesBefore
<1>3. SUFFICES ASSUME deferred, ~promisc, ~failed', DistinctSeqs', NEW h, h = Given'
               PROVE  Ascending(h)' /\ Passed(h)'
  BY <1>1 DEF GivenInOrder, Ascending, Passed
<1>4. Halves' /\ Halves
  BY <1>2, <1>3 DEF Halves
<1>5. PICK g \in Seq(Stored) : g = Given
  BY GivenSeq
<1>6. Ascending(g) /\ Passed(g)
  BY <1>2, <1>3, <1>5 DEF GivenInOrder, Ascending, Passed
<1>7. \A k \in DOMAIN g : Of(g[k]) \in DOMAIN packets
  <2>1. \A k \in DOMAIN g : IsPacket(g[k])
    BY <1>3, <1>4, <1>5 DEF GivenWhole, IsWhole
  <2> QED BY <2>1, OfBytes DEF IsPacket
<1>8. \A p \in DOMAIN packets : packets'[p] = packets[p]
  BY PacketsGrow
<1>9. Ascending(g)'
  BY <1>6, <1>7, <1>8 DEF Ascending
<1>10. ASSUME NEW s \in Senders, handleDio0IfPending(s)
       PROVE  Ascending(h)' /\ Passed(h)'
  <2>1. /\ air[s] # <<>> /\ UNCHANGED packets
        /\ air' = [air EXCEPT ![s] = Tail(air[s])]
    BY <1>10 DEF handleDio0IfPending, Receive
  <2>2. Passed(g)'
    BY <1>6, <2>1, NextFramePassed
  <2>3. \/ h = g
        \/ \E p \in DOMAIN packets :
              Bytes(p) \in Stored /\ h = Append(g, Bytes(p)) /\ Sends(s, p) /\ air'[s] = <<>>
    BY <1>3, <1>4, <1>5, <1>10, ReceiveAdds
  <2>4. CASE h = g
    BY <1>9, <2>2, <2>4
  <2>5. ASSUME NEW p \in DOMAIN packets, Bytes(p) \in Stored, h = Append(g, Bytes(p)),
               Sends(s, p), air'[s] = <<>>
        PROVE  Ascending(h)' /\ Passed(h)'
    <3>1. Playing(s) = p /\ packets[p].sender = s
      <4>1. PICK r \in DOMAIN packets : Sends(s, r) /\ Plays(s, r)
        BY <2>1, HeadFacts
      <4>2. Playing(s) = r
        BY <4>1, PlayingIs
      <4>3. Plays(s, p)
        <5>1. PICK k : k = packets[p]
          OBVIOUS
        <5>2. Tail(air[s]) = <<>>
          BY <2>1, <2>5 DEF Kinds
        <5>3. CASE ~Split(p)
          <6>1. air[s] = <<Single(p, k.size, k.seq)>>
            BY <2>5, <5>1, <5>3 DEF Sends
          <6>2. Head(air[s]) = Single(p, k.size, k.seq)
            BY <6>1
          <6> QED BY <5>1, <5>2, <5>3, <6>2 DEF Plays
        <5>4. CASE Split(p)
          <6>1. ASSUME air[s] = <<First(p, k.seq), Second(p, k.size, k.seq)>> PROVE FALSE
            BY <5>2, <6>1
          <6>2. air[s] = <<Second(p, k.size, k.seq)>>
            BY <2>5, <5>1, <5>4, <6>1 DEF Sends
          <6>3. Head(air[s]) = Second(p, k.size, k.seq)
            BY <6>2
          <6> QED BY <5>1, <5>2, <5>4, <6>2, <6>3 DEF Plays
        <5> QED BY <5>3, <5>4
      <4>4. Playing(s) = p
        BY <4>3, PlayingIs
      <4> QED BY <2>5, <4>4 DEF Sends
    <3>2. Of(Bytes(p)) = p
      BY OfBytes
    <3>3. PICK x \in Stored : x = Bytes(p)
      BY <2>5
    <3>4. /\ DOMAIN h = DOMAIN g \cup {Len(g) + 1} /\ h[Len(g) + 1] = x
          /\ \A k \in DOMAIN g : h[k] = g[k] /\ k < Len(g) + 1
      BY <2>5, <3>3
    <3>5. \A k \in DOMAIN g : packets[Of(g[k])].sender = s => Of(g[k]) < p
      BY <1>6, <2>1, <3>1 DEF Passed
    <3>6. Ascending(h)'
      <4>1. SUFFICES ASSUME NEW j \in DOMAIN h, NEW k \in DOMAIN h, j < k,
                            packets[Of(h[j])].sender = packets[Of(h[k])].sender
                     PROVE  Of(h[j]) < Of(h[k])
        BY <2>1 DEF Ascending
      <4>2. j \in DOMAIN g
        BY <3>4, <4>1
      <4>3. CASE k \in DOMAIN g
        BY <1>6, <3>4, <4>1, <4>2, <4>3 DEF Ascending
      <4>4. CASE k = Len(g) + 1
        BY <3>1, <3>2, <3>3, <3>4, <3>5, <4>1, <4>2, <4>4
      <4> QED BY <3>4, <4>3, <4>4
    <3>7. Passed(h)'
      <4>1. SUFFICES ASSUME NEW o \in Senders, NEW k \in DOMAIN h, air'[o] # <<>>,
                            packets[Of(h[k])].sender = o
                     PROVE  Of(h[k]) < Playing(o)'
        BY <2>1 DEF Passed
      <4>2. k \in DOMAIN g
        <5>1. k # Len(g) + 1
          BY <2>5, <3>1, <3>2, <3>3, <3>4, <4>1
        <5> QED BY <3>4, <5>1
      <4> QED BY <2>1, <2>2, <3>4, <4>1, <4>2 DEF Passed
    <3> QED BY <3>6, <3>7
  <2> QED BY <2>3, <2>4, <2>5
<1>11. CASE Given' = Given
  <2>1. h = g
    BY <1>3, <1>5, <1>11
  <2>2. Passed(g)'
    <3>1. ASSUME NEW s \in Senders, NEW size \in Sizes, NEW q \in Seqs, transmit(s, size, q)
          PROVE  Passed(g)'
      BY <1>6, <1>7, <3>1, TransmitPassed
    <3>2. ASSUME NEW s \in Senders, air[s] # <<>>, UNCHANGED packets,
                 air' = [air EXCEPT ![s] = Tail(air[s])]
          PROVE  Passed(g)'
      BY <1>6, <3>2, NextFramePassed
    <3>3. CASE UNCHANGED <<packets, air>>
      BY <1>6, <3>3 DEF Passed, Playing
    <3> QED BY <3>1, <3>2, <3>3 DEF Next, Lose, Arrival, handleDio0IfPending, onDio0Rise, Receive,
               Loop, NothingPending, NothingQueued, Drain, kiss_write_packet, vars
  <2> QED BY <1>9, <2>1, <2>2
<1> QED BY <1>3, <1>10, <1>11, LoopGiven

(* What the proofs need of a receiver that defers. *)
Deferring == Kinds /\ OnAir /\ InLoop /\ Collected /\ GivenWhole /\ GivenInOrder

(* It holds in every state, if no packet has a third frame. *)
LEMMA AlwaysDeferring == ASSUME NoThirdFrame PROVE Spec => []Deferring
<1>1. Init => Deferring
  <2>1. SUFFICES ASSUME Init PROVE InLoop /\ Collected /\ GivenWhole /\ GivenInOrder
    BY InitKinds DEF Deferring
  <2>2. Given = <<>>
    BY <2>1 DEF Init, Given
  <2>3. InLoop /\ Collected
    BY <2>1 DEF Init, InLoop, Collected, Begun
  <2>4. GivenWhole /\ GivenInOrder
    BY <2>2 DEF GivenWhole, GivenInOrder
  <2> QED BY <2>3, <2>4
<1>2. Deferring /\ [Next]_vars => Deferring'
  <2>1. SUFFICES ASSUME Deferring, [Next]_vars PROVE Deferring'
    OBVIOUS
  <2>2. Kinds /\ OnAir /\ InLoop /\ Collected /\ GivenWhole /\ GivenInOrder
    BY <2>1 DEF Deferring
  <2>3. Kinds' /\ OnAir' /\ InLoop'
    BY <2>1, <2>2, StepKinds, StepOnAir, StepInLoop
  <2>4. Collected'
    BY <2>1, <2>2, StepCollected
  <2>5. GivenWhole'
    BY <2>1, <2>2, StepGivenWhole
  <2>6. GivenInOrder'
    BY <2>1, <2>2, <2>3, StepGivenInOrder
  <2> QED BY <2>3, <2>4, <2>5, <2>6 DEF Deferring
<1> QED BY <1>1, <1>2, PTL DEF Spec

(* The host's sequence is the beginning of Given. *)
LEMMA HostGiven ==
  ASSUME Kinds
  PROVE  \A k \in DOMAIN host : k \in DOMAIN Given /\ Given[k] = host[k]
<1>1. host \in Seq(Stored) /\ modem_packet_queue \in Seq(Stored)
  BY DEF Kinds
<1>2. SubSeq(pbuf, 1, host_write_len) \in Stored
  BY Prefix DEF Kinds
<1>3. CASE pc = "write"
  <2>1. PICK x \in Stored : x = SubSeq(pbuf, 1, host_write_len)
    BY <1>2
  <2>2. Given = Append(host, x)
    BY <1>3, <2>1 DEF Given
  <2> QED BY <1>1, <2>2
<1>4. CASE pc # "write" /\ modem_packet_queue # <<>>
  <2>1. PICK x \in Stored : x = Head(modem_packet_queue)
    BY <1>1, <1>4
  <2>2. Given = Append(host, x)
    BY <1>4, <2>1 DEF Given
  <2> QED BY <1>1, <2>2
<1>5. CASE pc # "write" /\ modem_packet_queue = <<>>
  BY <1>5 DEF Given
<1> QED BY <1>3, <1>4, <1>5

(* For any number of senders, packets of any size that need two frames at   *)
(* most and are not filled by two, and any losses and interleavings:         *)
(* receive_callback() and loop() of a board that defers DIO0 give the host   *)
(* only whole packets (whole frames in promiscuous mode).                     *)
THEOREM HostAlwaysGetsWholePackets ==
  ASSUME NoThirdFrame
  PROVE  Spec => []HostGetsWholePackets
<1>1. Deferring => HostGetsWholePackets
  <2>1. SUFFICES ASSUME Deferring, deferred, DistinctSeqs, failed => AllSplit,
                        NEW k \in DOMAIN host
                 PROVE  \E p \in DOMAIN packets :
                           IF promisc
                           THEN \E f \in ToSet(Frames(p, packets[p].size, packets[p].seq)) :
                                   host[k] = Raw(f)
                           ELSE host[k] = Bytes(p)
    BY DEF HostGetsWholePackets
  <2>2. k \in DOMAIN Given /\ Given[k] = host[k]
    BY <2>1, HostGiven DEF Deferring
  <2>3. IsWhole(host[k])
    BY <2>1, <2>2 DEF Deferring, GivenWhole, Halves
  <2> QED BY <2>3 DEF IsWhole, IsRaw, IsPacket
<1> QED BY <1>1, AlwaysDeferring, PTL

(* For the same, while memory has not run out: the packets of one sender     *)
(* reach the host in the order they were sent, none of them twice.            *)
THEOREM AlwaysDeliveredInOrder ==
  ASSUME NoThirdFrame
  PROVE  Spec => []DeliveredInOrder
<1>1. Deferring => DeliveredInOrder
  <2>1. SUFFICES ASSUME Deferring, deferred, ~promisc, ~failed, DistinctSeqs,
                        NEW j \in DOMAIN host, NEW k \in DOMAIN host, j < k,
                        packets[Of(host[j])].sender = packets[Of(host[k])].sender
                 PROVE  Of(host[j]) < Of(host[k])
    BY DEF DeliveredInOrder, Of
  <2>2. j \in DOMAIN Given /\ Given[j] = host[j] /\ k \in DOMAIN Given /\ Given[k] = host[k]
    BY <2>1, HostGiven DEF Deferring
  <2> QED BY <2>1, <2>2 DEF Deferring, GivenInOrder
<1> QED BY <1>1, AlwaysDeferring, PTL

-----------------------------------------------------------------------------
(* The SX1262 driver *)

CONSTANTS PreambleMs, HeaderMs, Gaps, Restarts
VARIABLES phase, preamble_at, header_at, carrier, buf, preambleFor

Modem == INSTANCE Sx126x

(* The interrupt is detached exactly around dcd(). *)
Detached == attached <=> loop_pc \notin {"dcd", "unmask"}

(* NoLostEdge made inductive: what handleDio0Rise() is about to clear is not *)
(* enough, it must have read it as well.                                     *)
EdgeKnown ==
    "RX_DONE" \in irq =>
        \/ _dio0_pending
        \/ ~attached
        \/ loop_pc = "get"
        \/ loop_pc = "clear" /\ "RX_DONE" \in buf

EdgeInv == Detached /\ EdgeKnown

(* Each step of loop() and of the modem keeps EdgeInv. *)
LEMMA EdgeStep == EdgeInv /\ [Modem!Next]_(Modem!vars) => EdgeInv'
<1>1. SUFFICES ASSUME EdgeInv, [Modem!Next]_(Modem!vars)
               PROVE  EdgeInv'
  OBVIOUS
<1>2. CASE Modem!PreambleDetected
  BY <1>1, <1>2 DEF EdgeInv, Detached, EdgeKnown, Modem!PreambleDetected, Modem!detector
<1>3. CASE Modem!HeaderDetected
  BY <1>1, <1>3 DEF EdgeInv, Detached, EdgeKnown, Modem!HeaderDetected, Modem!detector
<1>4. ASSUME NEW bad \in BOOLEAN, Modem!RxDone(bad)
      PROVE  EdgeInv'
  BY <1>1, <1>4 DEF EdgeInv, Detached, EdgeKnown, Modem!RxDone, Modem!detector
<1>5. CASE Modem!Fade
  BY <1>1, <1>5 DEF EdgeInv, Detached, EdgeKnown, Modem!Fade, Modem!detector
<1>6. CASE Modem!Restart
  BY <1>1, <1>6 DEF EdgeInv, Detached, EdgeKnown, Modem!Restart, Modem!detector
<1>7. CASE Modem!handleDio0IfPending
  BY <1>1, <1>7 DEF EdgeInv, Detached, EdgeKnown, Modem!handleDio0IfPending, Modem!modem, Modem!detector
<1>8. CASE Modem!GetIrqStatus
  BY <1>1, <1>8 DEF EdgeInv, Detached, EdgeKnown, Modem!GetIrqStatus, Modem!modem, Modem!detector
<1>9. CASE Modem!ClearIrqStatus
  BY <1>1, <1>9 DEF EdgeInv, Detached, EdgeKnown, Modem!ClearIrqStatus, Modem!Cleared, Modem!detector
<1>10. CASE Modem!onReceive
  BY <1>1, <1>10 DEF EdgeInv, Detached, EdgeKnown, Modem!onReceive, Modem!detector
<1>11. CASE Modem!NoStatus
  BY <1>1, <1>11 DEF EdgeInv, Detached, EdgeKnown, Modem!NoStatus, Modem!modem, Modem!detector
<1>12. CASE Modem!maskDio0
  BY <1>1, <1>12 DEF EdgeInv, Detached, EdgeKnown, Modem!maskDio0, Modem!modem, Modem!detector
<1>13. ASSUME NEW d \in Gaps, Modem!dcd(d)
       PROVE  EdgeInv'
  <2>1. loop_pc = "dcd" /\ loop_pc' = "unmask" /\ attached' = attached
    BY <1>13 DEF Modem!dcd
  <2>2. QED
    BY <1>1, <2>1 DEF EdgeInv, Detached, EdgeKnown
<1>14. CASE Modem!unmaskDio0
  BY <1>1, <1>14 DEF EdgeInv, Detached, EdgeKnown, Modem!unmaskDio0, Modem!EdgeMissed, Modem!modem, Modem!detector
<1>15. CASE UNCHANGED Modem!vars
  BY <1>1, <1>15 DEF EdgeInv, Detached, EdgeKnown, Modem!vars
<1>16. QED
  BY <1>1, <1>2, <1>3, <1>4, <1>5, <1>6, <1>7, <1>8, <1>9, <1>10, <1>11, <1>12,
     <1>13, <1>14, <1>15 DEF Modem!Next, Modem!Loop, Modem!Status

(* A finished packet is always known to the driver: while RX_DONE is set    *)
(* the pending flag is set, or the interrupt is detached and unmaskDio0()    *)
(* will look, or handleDio0Rise() is about to clear it.                       *)
THEOREM EdgeNeverLost == Modem!Spec => []NoLostEdge
<1>1. Modem!Init => EdgeInv
  BY DEF Modem!Init, EdgeInv, Detached, EdgeKnown
<1>2. EdgeInv => NoLostEdge
  BY DEF EdgeInv, EdgeKnown, NoLostEdge
<1>3. QED
  BY <1>1, <1>2, EdgeStep, PTL DEF Modem!Spec
=============================================================================
