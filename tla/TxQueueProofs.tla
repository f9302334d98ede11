--------------------------- MODULE TxQueueProofs ---------------------------
(***************************************************************************)
(* Theorems about the LoRa transmit queue, for every buffer size, MTU and  *)
(* set of frame lengths: its counters agree, nothing queued is             *)
(* overwritten, what is transmitted is what one producer enqueued, and the *)
(* ring implements the abstract PacketQueue.                               *)
(***************************************************************************)
EXTENDS TxQueue, TLAPS

(* The history sequence has the length of the FIFOs it annotates. *)
HistoryAgrees == Len(startedAt) = Len(packet_starts)

(* FifosAgree is inductive only together with the types of the FIFOs. *)
Shape == TypeOK /\ FifosAgree /\ HistoryAgrees

-----------------------------------------------------------------------------
(* A remainder lies below its divisor. *)
LEMMA ModRange == ASSUME NEW a \in Int, NEW b \in Nat \ {0}
                  PROVE  a % b \in 0 .. b - 1
  OBVIOUS

(* A number below the divisor is its own remainder. *)
LEMMA ModSmall == ASSUME NEW a \in Nat, NEW b \in Nat, a < b
                  PROVE  a % b = a
  OBVIOUS

(* The length computed at a closing FEND is never zero and never exceeds    *)
(* the ring, even when no byte was stored.                                  *)
LEMMA FrameLengthRange ==
  ASSUME NEW s \in Slots, NEW c \in Slots
  PROVE  FrameLength(s, c) \in 1..QSize
  BY SizeAssumption DEF FrameLength, Slots

(* Appending to and removing from a FIFO: type and length. *)
LEMMA AppendFacts ==
  ASSUME NEW S, NEW q \in Seq(S), NEW x \in S
  PROVE  /\ Append(q, x) \in Seq(S)
         /\ Len(Append(q, x)) = Len(q) + 1
         /\ Append(q, x) # <<>>
         /\ Append(q, x)[Len(q) + 1] = x
         /\ \A k \in 1..Len(q) : Append(q, x)[k] = q[k]
  OBVIOUS

(* Removing the head of a FIFO. *)
LEMMA TailFacts ==
  ASSUME NEW S, NEW q \in Seq(S), q # <<>>
  PROVE  /\ Tail(q) \in Seq(S)
         /\ Len(Tail(q)) = Len(q) - 1
         /\ Head(q) = q[1] /\ q[1] \in S
         /\ \A k \in 1..Len(Tail(q)) : Tail(q)[k] = q[k + 1]
  OBVIOUS

(* A FIFO is empty when its length is zero. *)
LEMMA EmptyFacts ==
  ASSUME NEW S, NEW q \in Seq(S)
  PROVE  /\ Len(q) \in Nat
         /\ q = <<>> <=> Len(q) = 0
  OBVIOUS

(* An entry of a FIFO has the type of its entries. *)
LEMMA ElementFact ==
  ASSUME NEW S, NEW q \in Seq(S), NEW k \in 1..Len(q) PROVE q[k] \in S
  OBVIOUS

(* setup() leaves empty FIFOs and zero counters. *)
LEMMA InitShape == Init => Shape
<1> SUFFICES ASSUME Init PROVE Shape
  OBVIOUS
<1>1. FrameOK
  BY DEF Init, FrameOK, NoFrame
<1>2. RingOK
  BY DEF Init, RingOK, Blank, Bytes, Sources
<1>3. RegimeOK
  BY DEF Init, RegimeOK
<1>4. CursorOK
  BY SizeAssumption DEF Init, CursorOK, Slots
<1>5. FifoOK
  BY DEF Init, FifoOK
<1>6. FifosAgree /\ HistoryAgrees
  BY SizeAssumption DEF Init, FifosAgree, HistoryAgrees
<1>7. CountersOK
  BY SizeAssumption DEF Init, CountersOK
<1>8. HistoryOK
  BY DEF Init, HistoryOK
<1> QED BY <1>1, <1>2, <1>3, <1>4, <1>5, <1>6, <1>7, <1>8 DEF Shape, TypeOK

-----------------------------------------------------------------------------
(* What stays true because the variables it speaks of stay the same. *)
LEMMA RingStays == RingOK /\ UNCHANGED packet_queue => RingOK'
  BY DEF RingOK
(* The frame being assembled. *)
LEMMA FrameStays == FrameOK /\ UNCHANGED <<frame, offered>> => FrameOK'
  BY DEF FrameOK
(* The rate regime. *)
LEMMA RegimeStays == RegimeOK /\ UNCHANGED should_flush => RegimeOK'
  BY DEF RegimeOK
(* The two cursors. *)
LEMMA CursorStays ==
  CursorOK /\ UNCHANGED <<queue_cursor, current_packet_start>> => CursorOK'
  BY DEF CursorOK
(* The FIFOs, their counter and their history. *)
LEMMA FifosStay ==
  /\ FifoOK /\ FifosAgree /\ HistoryAgrees
  /\ UNCHANGED <<packet_starts, packet_lengths, queue_height, startedAt>>
  => FifoOK' /\ FifosAgree' /\ HistoryAgrees'
  BY DEF FifoOK, FifosAgree, HistoryAgrees

(* Opening a frame and storing a byte leave the FIFOs alone. *)
LEMMA HostOpenShape ==
  ASSUME Shape, NEW n \in HostLens, HostOpen(n) PROVE Shape'
<1>1. FrameOK'
  BY InputAssumption DEF HostOpen, Shape, TypeOK, FrameOK
<1>2. UNCHANGED <<packet_queue, queue_cursor, current_packet_start,
                  packet_starts, packet_lengths, queue_height, queued_bytes,
                  should_flush, written, openedAt, startedAt>>
  BY DEF HostOpen, history
<1>3. CountersOK' /\ HistoryOK'
  BY <1>2 DEF Shape, TypeOK, CountersOK, HistoryOK
<1> QED BY <1>1, <1>2, <1>3, RingStays, RegimeStays, CursorStays, FifosStay
        DEF Shape, TypeOK

(* serial_callback() stores a byte only at the cursor, which wraps. *)
LEMMA HostByteShape ==
  ASSUME Shape, HostByte PROVE Shape'
<1>0. /\ FrameOK /\ RingOK /\ RegimeOK /\ CursorOK /\ FifoOK /\ CountersOK
      /\ HistoryOK /\ FifosAgree /\ HistoryAgrees
  BY DEF Shape, TypeOK
<1>1. FrameOK'
  BY <1>0 DEF HostByte, FrameOK
<1>2. UNCHANGED <<current_packet_start, packet_starts, packet_lengths,
                  queue_height, should_flush, offered, openedAt, startedAt>>
  BY DEF HostByte
<1>3. CASE HasRoom
  <2>1. Byte("host", frame.id, frame.sent + 1, frame.len) \in Bytes
    BY <1>0 DEF FrameOK, Byte, Bytes, Sources
  <2>2. /\ packet_queue' = [packet_queue EXCEPT ![queue_cursor] =
                  Byte("host", frame.id, frame.sent + 1, frame.len)]
        /\ queue_cursor' = Wrap(queue_cursor + 1)
        /\ queued_bytes' = queued_bytes + 1
        /\ written' = written + 1
    BY <1>3 DEF HostByte
  <2>3. RingOK'
    BY <1>0, <2>1, <2>2 DEF RingOK
  <2>4. CursorOK'
    BY <1>0, <1>2, <2>2, SizeAssumption DEF CursorOK, Wrap, Slots
  <2>5. CountersOK'
    <3>1. queued_bytes' = queued_bytes + 1 /\ queue_height' = queue_height
      BY <1>2, <2>2
    <3>2. queued_bytes < QSize /\ QSize < U16 /\ U16 \in Nat /\ QSize \in Nat
      BY <1>3, SizeAssumption DEF HasRoom
    <3> QED BY <1>0, <3>1, <3>2 DEF CountersOK
  <2>6. HistoryOK'
    BY <1>0, <1>2, <2>2 DEF HistoryOK
  <2> QED BY <1>0, <1>1, <1>2, <2>3, <2>4, <2>5, <2>6, RegimeStays, FifosStay
          DEF Shape, TypeOK
<1>4. CASE ~HasRoom
  <2>1. UNCHANGED <<packet_queue, queue_cursor, queued_bytes, written>>
    BY <1>4 DEF HostByte
  <2>2. CountersOK' /\ HistoryOK'
    BY <1>0, <1>2, <2>1 DEF CountersOK, HistoryOK
  <2> QED BY <1>0, <1>1, <1>2, <2>1, <2>2, RingStays, RegimeStays, CursorStays,
             FifosStay DEF Shape, TypeOK
<1> QED BY <1>3, <1>4

(* The closing FEND pushes one entry on each FIFO, or nothing. *)
LEMMA HostCloseShape ==
  ASSUME Shape, HostClose PROVE Shape'
<1> DEFINE l == FrameLength(current_packet_start, queue_cursor)
<1>0. /\ FrameOK /\ RingOK /\ RegimeOK /\ CursorOK /\ FifoOK /\ CountersOK
      /\ HistoryOK /\ FifosAgree /\ HistoryAgrees
  BY DEF Shape, TypeOK
<1>1. FrameOK'
  BY <1>0 DEF HostClose, NoFrame, FrameOK
<1>2. UNCHANGED <<packet_queue, queue_cursor, queued_bytes, should_flush, written>>
  BY DEF HostClose
<1>3. l \in 1..QSize
  BY <1>0, FrameLengthRange DEF CursorOK
<1>4. CASE ~fifo16_isfull /\ queued_bytes < QSize /\ l >= MIN_L
  <2>1. /\ packet_starts' = Append(packet_starts, current_packet_start)
        /\ packet_lengths' = Append(packet_lengths, l)
        /\ startedAt' = Append(startedAt, openedAt)
        /\ queue_height' = queue_height + 1
        /\ current_packet_start' = queue_cursor
        /\ openedAt' = written
    BY <1>4 DEF HostClose
  <2> HIDE DEF l
  <2>2. /\ packet_starts' \in Seq(Slots)
        /\ Len(packet_starts') = Len(packet_starts) + 1
    BY <1>0, <2>1, AppendFacts DEF FifoOK, CursorOK
  <2>3. /\ packet_lengths' \in Seq(1..QSize)
        /\ Len(packet_lengths') = Len(packet_lengths) + 1
    BY <1>0, <1>3, <2>1, AppendFacts DEF FifoOK
  <2>4. /\ startedAt' \in Seq(Nat)
        /\ Len(startedAt') = Len(startedAt) + 1
    BY <1>0, <2>1, AppendFacts DEF HistoryOK
  <2>5. FifoOK' /\ HistoryOK' /\ CursorOK'
    BY <1>0, <1>2, <2>1, <2>2, <2>3, <2>4 DEF FifoOK, HistoryOK, CursorOK
  <2>6. Len(packet_starts) # MaxLen /\ Len(packet_starts) \in Nat
    BY <1>0, <1>4 DEF fifo16_isfull, FifoOK
  <2>7. FifosAgree' /\ HistoryAgrees'
    BY <1>0, <2>1, <2>2, <2>3, <2>4, <2>6, SizeAssumption DEF FifosAgree, HistoryAgrees
  <2>8. CountersOK'
    BY <1>0, <1>2, <2>1, <2>6, SizeAssumption DEF CountersOK, FifosAgree
  <2> QED BY <1>0, <1>1, <1>2, <2>5, <2>7, <2>8, RingStays, RegimeStays
          DEF Shape, TypeOK
<1>5. CASE ~(~fifo16_isfull /\ queued_bytes < QSize /\ l >= MIN_L)
  <2>1. UNCHANGED <<queue_height, packet_starts, packet_lengths, startedAt,
                    current_packet_start, openedAt>>
    BY <1>5 DEF HostClose
  <2>2. CountersOK' /\ HistoryOK'
    BY <1>0, <1>2, <2>1 DEF CountersOK, HistoryOK
  <2> QED BY <1>0, <1>1, <1>2, <2>1, <2>2, RingStays, RegimeStays, CursorStays,
             FifosStay DEF Shape, TypeOK
<1> QED BY <1>4, <1>5

(* The onboard node pushes one entry on each FIFO. *)
LEMMA NodeShape ==
  ASSUME Shape, NEW n \in NodeLens, urns_enqueue_outgoing(n) PROVE Shape'
<1>0. /\ FrameOK /\ RingOK /\ RegimeOK /\ CursorOK /\ FifoOK /\ CountersOK
      /\ HistoryOK /\ FifosAgree /\ HistoryAgrees
  BY DEF Shape, TypeOK
<1>1. n \in 1..QSize /\ n \in Nat
  BY SizeAssumption, InputAssumption
<1>2. /\ offered' = offered + 1 /\ frame' = frame /\ should_flush' = should_flush
      /\ queued_bytes' = queued_bytes + n /\ queued_bytes + n <= QSize
      /\ queue_height' = queue_height + 1 /\ queue_height < MaxLen
      /\ packet_starts' = Append(packet_starts, queue_cursor)
      /\ packet_lengths' = Append(packet_lengths, n)
      /\ startedAt' = Append(startedAt, written)
      /\ written' = written + n /\ openedAt' = written + n
      /\ current_packet_start' = queue_cursor'
  BY DEF urns_enqueue_outgoing, NodeFits
<1>3. FrameOK'
  BY <1>0, <1>2 DEF FrameOK
<1>4. RingOK'
  <2>1. ASSUME NEW c \in Slots
        PROVE  Byte("node", offered + 1, SlotIndex(c, queue_cursor), n) \in Bytes
    <3>1. SlotIndex(c, queue_cursor) \in Nat
      BY <1>0, SizeAssumption DEF SlotIndex, Slots, CursorOK
    <3>2. offered + 1 \in Nat
      BY <1>0 DEF FrameOK
    <3> QED BY <1>1, <3>1, <3>2 DEF Byte, Bytes, Sources
  <2>2. packet_queue' = [c \in Slots |->
            IF SlotIndex(c, queue_cursor) <= n
            THEN Byte("node", offered + 1, SlotIndex(c, queue_cursor), n)
            ELSE packet_queue[c]]
    BY DEF urns_enqueue_outgoing
  <2> QED BY <1>0, <2>1, <2>2 DEF RingOK
<1>5. CursorOK'
  <2>1. queue_cursor' = IF queue_cursor + n >= QSize
                        THEN queue_cursor + n - QSize ELSE queue_cursor + n
    BY DEF urns_enqueue_outgoing
  <2> QED BY <1>0, <1>1, <1>2, <2>1, SizeAssumption DEF CursorOK, Slots
<1>6. /\ packet_starts' \in Seq(Slots)
      /\ Len(packet_starts') = Len(packet_starts) + 1
  BY <1>0, <1>2, AppendFacts DEF FifoOK, CursorOK
<1>7. /\ packet_lengths' \in Seq(1..QSize)
      /\ Len(packet_lengths') = Len(packet_lengths) + 1
  BY <1>0, <1>1, <1>2, AppendFacts DEF FifoOK
<1>8. startedAt' \in Seq(Nat) /\ Len(startedAt') = Len(startedAt) + 1
  BY <1>0, <1>2, AppendFacts DEF HistoryOK
<1>9. FifoOK' /\ HistoryOK'
  BY <1>0, <1>1, <1>2, <1>6, <1>7, <1>8 DEF FifoOK, HistoryOK
<1>10. FifosAgree' /\ HistoryAgrees'
  <2>1. Len(packet_starts) \in Nat
    BY <1>0 DEF FifoOK
  <2> QED BY <1>0, <1>2, <1>6, <1>7, <1>8, <2>1, SizeAssumption
          DEF FifosAgree, HistoryAgrees
<1>11. CountersOK'
  BY <1>0, <1>1, <1>2, SizeAssumption DEF CountersOK
<1> QED BY <1>0, <1>2, <1>3, <1>4, <1>5, <1>9, <1>10, <1>11, RegimeStays
        DEF Shape, TypeOK

(* Both drains remove from the two FIFOs alike. *)
LEMMA FlushShape ==
  ASSUME Shape, flush_queue PROVE Shape'
<1>0. /\ FrameOK /\ RingOK /\ RegimeOK /\ CursorOK
      /\ HistoryOK /\ FifosAgree /\ HistoryAgrees
  BY DEF Shape, TypeOK
<1>1. /\ packet_starts' = <<>> /\ packet_lengths' = <<>> /\ startedAt' = <<>>
      /\ queue_height' = 0 /\ queued_bytes' = 0
      /\ UNCHANGED <<frame, packet_queue, queue_cursor, current_packet_start,
                     should_flush, offered, written, openedAt>>
  BY DEF flush_queue
<1>2. FifoOK' /\ HistoryOK'
  BY <1>0, <1>1 DEF FifoOK, HistoryOK
<1>3. CountersOK' /\ FifosAgree' /\ HistoryAgrees'
  BY <1>1, SizeAssumption DEF CountersOK, FifosAgree, HistoryAgrees
<1> QED BY <1>0, <1>1, <1>2, <1>3, FrameStays, RingStays, RegimeStays, CursorStays
        DEF Shape, TypeOK

(* The FIFOs are not empty when pop_queue is called, and how it changes     *)
(* them.                                                                    *)
LEMMA PopFacts ==
  ASSUME Shape, pop_queue
  PROVE  /\ packet_starts # <<>> /\ packet_lengths # <<>> /\ startedAt # <<>>
         /\ packet_starts' = Tail(packet_starts)
         /\ packet_lengths' = Tail(packet_lengths)
         /\ startedAt' = Tail(startedAt)
         /\ queue_height' = queue_height - 1
         /\ queued_bytes' = (queued_bytes - packet_lengths[1]) % U16
         /\ packet_lengths[1] \in 1..QSize
         /\ UNCHANGED <<frame, packet_queue, queue_cursor, current_packet_start,
                        should_flush, offered, written, openedAt>>
<1>0. /\ packet_starts \in Seq(Slots) /\ packet_lengths \in Seq(1..QSize)
      /\ startedAt \in Seq(Nat)
      /\ Len(packet_lengths) = Len(packet_starts)
      /\ Len(startedAt) = Len(packet_starts)
      /\ queue_height = Len(packet_starts)
      /\ queue_height <= MaxLen
  BY DEF Shape, TypeOK, FifoOK, HistoryOK, FifosAgree, HistoryAgrees
<1>1. queue_height > 0
  BY DEF pop_queue
<1>2. packet_starts # <<>> /\ packet_lengths # <<>> /\ startedAt # <<>>
  BY <1>0, <1>1, EmptyFacts
<1>3. /\ packet_starts' = Tail(packet_starts)
      /\ packet_lengths' = Tail(packet_lengths)
      /\ startedAt' = Tail(startedAt)
      /\ queue_height' = (queue_height - 1) % U8
      /\ queued_bytes' = (queued_bytes - Head(packet_lengths)) % U16
      /\ UNCHANGED <<frame, packet_queue, queue_cursor, current_packet_start,
                     should_flush, offered, written, openedAt>>
  BY <1>2 DEF pop_queue, Uncounted
<1>4. queue_height' = queue_height - 1
  <2>1. queue_height - 1 \in 0 .. U8 - 1 /\ U8 \in Nat
    BY <1>0, <1>1, SizeAssumption
  <2> QED BY <1>3, <2>1
<1>5. Head(packet_lengths) = packet_lengths[1] /\ packet_lengths[1] \in 1..QSize
  BY <1>0, <1>2, TailFacts
<1> QED BY <1>2, <1>3, <1>4, <1>5

(* pop_queue() takes one entry from each FIFO and one from the counter. *)
LEMMA PopShape ==
  ASSUME Shape, pop_queue PROVE Shape'
<1>0. /\ FrameOK /\ RingOK /\ RegimeOK /\ CursorOK /\ FifoOK /\ CountersOK
      /\ HistoryOK /\ FifosAgree /\ HistoryAgrees
  BY DEF Shape, TypeOK
<1>1. /\ packet_starts' \in Seq(Slots)
      /\ Len(packet_starts') = Len(packet_starts) - 1
  BY <1>0, PopFacts, TailFacts DEF FifoOK
<1>2. /\ packet_lengths' \in Seq(1..QSize)
      /\ Len(packet_lengths') = Len(packet_lengths) - 1
  BY <1>0, PopFacts, TailFacts DEF FifoOK
<1>3. startedAt' \in Seq(Nat) /\ Len(startedAt') = Len(startedAt) - 1
  BY <1>0, PopFacts, TailFacts DEF HistoryOK
<1>4. FifoOK' /\ HistoryOK'
  BY <1>0, <1>1, <1>2, <1>3, PopFacts DEF FifoOK, HistoryOK
<1>5. FifosAgree' /\ HistoryAgrees'
  <2>1. Len(packet_starts) \in Nat /\ queue_height' = queue_height - 1
    BY <1>0, PopFacts DEF FifoOK
  <2> QED BY <1>0, <1>1, <1>2, <1>3, <2>1, SizeAssumption
          DEF FifosAgree, HistoryAgrees
<1>6. CountersOK'
  <2>1. queued_bytes' \in 0 .. U16 - 1
    <3>1. queued_bytes - packet_lengths[1] \in Int /\ U16 \in Nat \ {0}
      BY <1>0, PopFacts, SizeAssumption DEF CountersOK
    <3> QED BY <3>1, PopFacts, ModRange
  <2>2. queue_height' \in 0 .. U8 - 1
    <3>1. Len(packet_starts') \in Nat
      BY <1>1
    <3> QED BY <1>5, <3>1, SizeAssumption DEF FifosAgree
  <2> QED BY <2>1, <2>2 DEF CountersOK
<1>7. UNCHANGED <<frame, packet_queue, queue_cursor, current_packet_start,
                  should_flush, offered>>
  BY PopFacts
<1> QED BY <1>0, <1>4, <1>5, <1>6, <1>7, FrameStays, RingStays, RegimeStays,
           CursorStays DEF Shape, TypeOK

(* updateBitrate() touches nothing of the queue. *)
LEMMA RegimeShape ==
  ASSUME Shape, updateBitrate PROVE Shape'
<1>1. RegimeOK'
  BY DEF updateBitrate, RegimeOK
<1>2. UNCHANGED <<frame, packet_queue, queue_cursor, current_packet_start,
                  packet_starts, packet_lengths, queue_height, queued_bytes,
                  offered, written, openedAt, startedAt>>
  BY DEF updateBitrate, history
<1>3. CountersOK' /\ HistoryOK'
  BY <1>2 DEF Shape, TypeOK, CountersOK, HistoryOK
<1> QED BY <1>1, <1>2, <1>3, FrameStays, RingStays, CursorStays, FifosStay
        DEF Shape, TypeOK

(* hard_reset() starts from the state of setup(). *)
LEMMA ResetShape ==
  ASSUME Shape, hard_reset PROVE Shape'
<1>1. /\ frame' = NoFrame /\ packet_queue' = [c \in Slots |-> Blank]
      /\ queue_cursor' = 0 /\ current_packet_start' = 0
      /\ packet_starts' = <<>> /\ packet_lengths' = <<>>
      /\ queue_height' = 0 /\ queued_bytes' = 0
      /\ written' = 0 /\ openedAt' = 0 /\ startedAt' = <<>>
      /\ UNCHANGED <<should_flush, offered>>
  BY DEF hard_reset
<1>2. FrameOK' /\ RegimeOK'
  BY <1>1 DEF Shape, TypeOK, FrameOK, RegimeOK, NoFrame
<1>3. RingOK'
  BY <1>1 DEF RingOK, Blank, Bytes, Sources
<1>4. CursorOK' /\ CountersOK' /\ FifosAgree' /\ HistoryAgrees'
  BY <1>1, SizeAssumption DEF CursorOK, Slots, CountersOK, FifosAgree, HistoryAgrees
<1>5. FifoOK' /\ HistoryOK'
  BY <1>1 DEF FifoOK, HistoryOK
<1> QED BY <1>2, <1>3, <1>4, <1>5 DEF Shape, TypeOK

(* Every step keeps Shape. *)
LEMMA NextShape == Shape /\ [Next]_vars => Shape'
<1> SUFFICES ASSUME Shape, [Next]_vars PROVE Shape'
  OBVIOUS
<1>1. CASE UNCHANGED vars
  <2>1. UNCHANGED <<frame, packet_queue, queue_cursor, current_packet_start,
                    packet_starts, packet_lengths, queue_height, queued_bytes,
                    should_flush, offered, written, openedAt, startedAt>>
    BY <1>1 DEF vars
  <2>2. CountersOK' /\ HistoryOK'
    BY <2>1 DEF Shape, TypeOK, CountersOK, HistoryOK
  <2> QED BY <2>1, <2>2, FrameStays, RingStays, RegimeStays, CursorStays, FifosStay
          DEF Shape, TypeOK
<1> QED BY <1>1, HostOpenShape, HostByteShape, HostCloseShape, NodeShape,
           FlushShape, PopShape, RegimeShape, ResetShape DEF Next

-----------------------------------------------------------------------------
(* Whatever host and node do, in either rate regime, the height counter     *)
(* and the two FIFOs agree, and neither FIFO is pushed past its buffer.     *)
THEOREM FifosAlwaysAgree == Spec => []FifosAgree
<1>1. Shape => FifosAgree
  BY DEF Shape
<1> QED BY <1>1, InitShape, NextShape, PTL DEF Spec

(* Type correctness of the transmit queue: no index leaves the ring and no  *)
(* counter leaves its C type.                                               *)
THEOREM TypeCorrect == Spec => []TypeOK
<1>1. Shape => TypeOK
  BY DEF Shape
<1> QED BY <1>1, InitShape, NextShape, PTL DEF Spec

-----------------------------------------------------------------------------
(* The accounting of the ring, for a radio in the rate-limited regime and a *)
(* host that sends non-empty frames and asks before it sends.               *)
PolitelyLimited ==
    /\ Regimes = {FALSE}
    /\ HostLens \subseteq Nat \ {0}
    /\ HostGate # "any"

(* The cursor is as far past current_packet_start as bytes have been stored *)
(* since, going round the ring at most once.                                *)
CursorTracks ==
    /\ openedAt <= written
    /\ \/ queue_cursor - current_packet_start = written - openedAt
       \/ queue_cursor - current_packet_start + QSize = written - openedAt

(* Queued packets do not overlap one another or the open frame. *)
Disjoint ==
    /\ \A k \in 1..Len(startedAt) : startedAt[k] + packet_lengths[k] <= openedAt
    /\ \A k \in 1 .. Len(startedAt) - 1 :
          startedAt[k] + packet_lengths[k] <= startedAt[k + 1]

(* A frame finds room for its first byte, so it never closes with nothing   *)
(* stored: the case in which FrameLength claims the whole ring.             *)
FrameStores ==
    IN_FRAME => /\ frame.len > 0
                /\ frame.sent = 0 => HasRoom
                /\ frame.sent > 0 => openedAt < written

Accounted == RingAccounted /\ CursorTracks /\ Disjoint /\ FrameStores

IInv == Shape /\ Accounted

(* The bytes of the open frame are among those counted. *)
LEMMA OpenCounted ==
  ASSUME IInv
  PROVE  written - openedAt <= queued_bytes /\ written - openedAt <= QSize
<1>0. /\ openedAt \in Nat /\ written \in Nat /\ startedAt \in Seq(Nat)
      /\ queued_bytes \in Nat /\ QSize \in Nat
      /\ packet_lengths \in Seq(1..QSize)
      /\ Len(startedAt) = Len(packet_lengths)
  BY SizeAssumption DEF IInv, Shape, TypeOK, HistoryOK, CountersOK, FifoOK,
     FifosAgree, HistoryAgrees
<1>1. queued_bytes <= QSize /\ written - OldestByte <= queued_bytes
  BY DEF IInv, Accounted, RingAccounted
<1>2. CASE startedAt = <<>>
  BY <1>0, <1>1, <1>2 DEF OldestByte
<1>3. CASE startedAt # <<>>
  <2>1. 1 \in 1..Len(startedAt)
    BY <1>0, <1>3, EmptyFacts
  <2>2. startedAt[1] \in Nat /\ packet_lengths[1] \in 1..QSize
    BY <1>0, <2>1
  <2>3. startedAt[1] + packet_lengths[1] <= openedAt
    BY <2>1 DEF IInv, Accounted, Disjoint
  <2>4. OldestByte = startedAt[1]
    BY <1>3 DEF OldestByte
  <2> QED BY <1>0, <1>1, <2>2, <2>3, <2>4
<1> QED BY <1>2, <1>3

(* With something stored, the length computed at the FEND is what was       *)
(* stored since the packet was opened.                                      *)
LEMMA FrameLengthExact ==
  ASSUME IInv, openedAt < written
  PROVE  FrameLength(current_packet_start, queue_cursor) = written - openedAt
<1>0. /\ openedAt \in Nat /\ written \in Nat
      /\ queue_cursor \in Slots /\ current_packet_start \in Slots
  BY DEF IInv, Shape, TypeOK, HistoryOK, CursorOK
<1>1. written - openedAt <= QSize
  BY OpenCounted
<1>2. CursorTracks
  BY DEF IInv, Accounted
<1> QED BY <1>0, <1>1, <1>2, SizeAssumption DEF CursorTracks, FrameLength, Slots

(* The facts about the state every action lemma starts from. *)
LEMMA Facts ==
  ASSUME IInv
  PROVE  /\ frame \in [id : Nat, len : Nat, sent : Nat] /\ offered \in Nat
         /\ queue_cursor \in Slots /\ current_packet_start \in Slots
         /\ packet_lengths \in Seq(1..QSize) /\ startedAt \in Seq(Nat)
         /\ Len(startedAt) = Len(packet_lengths)
         /\ queued_bytes \in Nat /\ queue_height \in Nat
         /\ written \in Nat /\ openedAt \in Nat
         /\ QSize \in Nat /\ QSize >= 1 /\ QSize < U16 /\ U16 \in Nat
  BY SizeAssumption DEF IInv, Shape, TypeOK, FrameOK, CursorOK, FifoOK,
     CountersOK, HistoryOK, FifosAgree, HistoryAgrees

(* Accounted speaks only of these variables. *)
LEMMA AccountedStays ==
  /\ Accounted
  /\ UNCHANGED <<frame, queue_cursor, current_packet_start, packet_lengths,
                 queue_height, queued_bytes, written, openedAt, startedAt>>
  => Accounted'
  BY DEF Accounted, RingAccounted, OldestByte, CursorTracks, Disjoint,
         FrameStores, IN_FRAME, HasRoom

(* Opening a frame begins a packet at the cursor. *)
LEMMA HostOpenAccounted ==
  ASSUME PolitelyLimited, IInv, NEW n \in HostLens, HostOpen(n)
  PROVE  Accounted'
<1>1. /\ frame' = [id |-> offered + 1, len |-> n, sent |-> 0]
      /\ UNCHANGED <<queue_cursor, current_packet_start, packet_lengths,
                     queue_height, queued_bytes, written, openedAt, startedAt>>
      /\ HostMayOpen(n)
  BY DEF HostOpen, history
<1>2. RingAccounted' /\ CursorTracks' /\ Disjoint'
  BY <1>1 DEF IInv, Accounted, RingAccounted, OldestByte, CursorTracks, Disjoint
<1>3. n \in Nat /\ n > 0
  BY DEF PolitelyLimited
<1>4. HasRoom
  <2>1. CASE HostGate = "ready"
    <3>1. ~queue_full
      BY <1>1, <2>1 DEF HostMayOpen
    <3> QED BY <3>1, Facts, SizeAssumption DEF queue_full, HasRoom
  <2>2. CASE HostGate = "room"
    <3>1. queue_height < MaxLen /\ queued_bytes + n < QSize
      BY <1>1, <2>2 DEF HostMayOpen
    <3> QED BY <1>3, <3>1, Facts DEF HasRoom
  <2> QED BY <2>1, <2>2, InputAssumption DEF PolitelyLimited
<1>5. FrameStores'
  BY <1>1, <1>3, <1>4 DEF FrameStores, HasRoom
<1> QED BY <1>2, <1>5 DEF Accounted

(* A stored byte is counted and its place was free. *)
LEMMA HostByteAccounted ==
  ASSUME IInv, HostByte
  PROVE  Accounted'
<1>0. RingAccounted /\ CursorTracks /\ Disjoint /\ FrameStores
  BY DEF IInv, Accounted
<1>1. /\ IN_FRAME
      /\ frame' = [frame EXCEPT !.sent = frame.sent + 1]
      /\ UNCHANGED <<current_packet_start, packet_lengths, queue_height,
                     openedAt, startedAt>>
  BY DEF HostByte
<1>2. frame'.len = frame.len /\ frame'.sent = frame.sent + 1 /\ frame.sent \in Nat
  BY <1>1, Facts
<1>3. CASE HasRoom
  <2>1. /\ queue_cursor' = Wrap(queue_cursor + 1)
        /\ queued_bytes' = queued_bytes + 1
        /\ written' = written + 1
    BY <1>3 DEF HostByte
  <2>2. OldestByte' = OldestByte /\ OldestByte \in Nat
    <3>1. OldestByte' = OldestByte
      BY <1>1 DEF OldestByte
    <3>2. CASE startedAt = <<>>
      BY <3>1, <3>2, Facts DEF OldestByte
    <3>3. CASE startedAt # <<>>
      <4>1. startedAt[1] \in Nat
        BY <3>3, Facts, TailFacts
      <4> QED BY <3>1, <3>3, <4>1 DEF OldestByte
    <3> QED BY <3>2, <3>3
  <2>3. RingAccounted'
    <3>1. queued_bytes < QSize /\ written - OldestByte <= queued_bytes
      BY <1>0, <1>3 DEF HasRoom, RingAccounted
    <3> QED BY <2>1, <2>2, <3>1, Facts, SMTT(30) DEF RingAccounted
  <2>4. CursorTracks'
    <3>1. written - openedAt < QSize
      BY <1>3, OpenCounted, Facts DEF HasRoom
    <3>2. openedAt <= written /\ openedAt' = openedAt
      BY <1>0, <1>1 DEF CursorTracks
    <3>3. /\ queue_cursor \in Int /\ 0 <= queue_cursor /\ queue_cursor < QSize
          /\ current_packet_start \in Int /\ 0 <= current_packet_start
          /\ current_packet_start < QSize
          /\ current_packet_start' = current_packet_start
      BY <1>1, Facts DEF Slots
    <3>4. queue_cursor' = IF queue_cursor + 1 = QSize THEN 0 ELSE queue_cursor + 1
      BY <2>1 DEF Wrap
    <3>5. \/ queue_cursor - current_packet_start = written - openedAt
          \/ queue_cursor - current_packet_start + QSize = written - openedAt
      BY <1>0 DEF CursorTracks
    <3>6. written' = written + 1 /\ written \in Nat /\ openedAt \in Nat /\ QSize \in Nat
      BY <2>1, Facts
    <3> QED BY <3>1, <3>2, <3>3, <3>4, <3>5, <3>6 DEF CursorTracks
  <2>5. Disjoint'
    BY <1>0, <1>1 DEF Disjoint
  <2>6. FrameStores'
    <3>1. openedAt' < written'
      BY <1>0, <1>1, <2>1, Facts DEF CursorTracks
    <3>2. frame'.len > 0 /\ frame'.sent # 0
      BY <1>0, <1>1, <1>2 DEF FrameStores
    <3> QED BY <3>1, <3>2 DEF FrameStores
  <2> QED BY <2>3, <2>4, <2>5, <2>6 DEF Accounted
<1>4. CASE ~HasRoom
  <2>1. UNCHANGED <<queue_cursor, queued_bytes, written>>
    BY <1>4 DEF HostByte
  <2>2. RingAccounted' /\ CursorTracks' /\ Disjoint'
    BY <1>0, <1>1, <2>1 DEF RingAccounted, OldestByte, CursorTracks, Disjoint
  <2>3. frame.len > 0 /\ frame.sent # 0 /\ openedAt < written
    BY <1>0, <1>1, <1>2, <1>4 DEF FrameStores
  <2>4. FrameStores'
    BY <1>1, <1>2, <2>1, <2>3 DEF FrameStores
  <2> QED BY <2>2, <2>4 DEF Accounted
<1> QED BY <1>3, <1>4

(* The same facts, without the records and the FIFOs. *)
LEMMA Numbers ==
  ASSUME IInv
  PROVE  /\ queue_cursor \in Int /\ 0 <= queue_cursor /\ queue_cursor < QSize
         /\ queued_bytes \in Nat /\ written \in Nat /\ openedAt \in Nat
         /\ QSize \in Nat /\ QSize >= 1 /\ openedAt <= written
<1>1. openedAt <= written
  BY DEF IInv, Accounted, CursorTracks
<1> QED BY <1>1, Facts DEF Slots

(* Types of the history and the lengths. *)
LEMMA FifoNumbers ==
  ASSUME IInv
  PROVE  /\ Len(startedAt) \in Nat
         /\ \A k \in 1..Len(startedAt) : startedAt[k] \in Nat /\ packet_lengths[k] \in Nat
         /\ startedAt # <<>> => 1 \in 1..Len(startedAt)
<1>1. /\ packet_lengths \in Seq(1..QSize) /\ startedAt \in Seq(Nat)
      /\ Len(startedAt) = Len(packet_lengths)
  BY Facts
<1>2. Len(startedAt) \in Nat /\ (startedAt # <<>> => 1 \in 1..Len(startedAt))
  BY <1>1, EmptyFacts
<1>3. ASSUME NEW k \in 1..Len(startedAt) PROVE startedAt[k] \in Nat
  BY <1>1
<1>4. ASSUME NEW k \in 1..Len(startedAt) PROVE packet_lengths[k] \in Nat
  <2>1. k \in 1..Len(packet_lengths)
    BY <1>1
  <2>2. packet_lengths[k] \in 1..QSize
    BY <1>1, <2>1, ElementFact
  <2> QED BY <2>2, SizeAssumption
<1> QED BY <1>2, <1>3, <1>4

(* A packet appended past the open frame's start overlaps nothing. *)
LEMMA AppendDisjoint ==
  ASSUME IInv, NEW a \in Nat, NEW l \in 1..QSize, openedAt <= a,
         startedAt' = Append(startedAt, a),
         packet_lengths' = Append(packet_lengths, l),
         openedAt' = a + l
  PROVE  /\ Disjoint'
         /\ OldestByte' = IF startedAt = <<>> THEN a ELSE startedAt[1]
<1> DEFINE N == Len(startedAt)
<1>1. /\ packet_lengths \in Seq(1..QSize) /\ startedAt \in Seq(Nat)
      /\ Len(packet_lengths) = N
  BY Facts
<1>2. /\ Len(startedAt') = N + 1 /\ startedAt'[N + 1] = a /\ startedAt' # <<>>
      /\ \A k \in 1..N : startedAt'[k] = startedAt[k]
  BY <1>1, AppendFacts
<1>3. /\ packet_lengths'[N + 1] = l
      /\ \A k \in 1..N : packet_lengths'[k] = packet_lengths[k]
  BY <1>1, AppendFacts
<1>4. /\ N \in Nat
      /\ \A k \in 1..N : startedAt[k] \in Nat /\ packet_lengths[k] \in Nat
  BY FifoNumbers
<1>5. /\ \A k \in 1..N : startedAt[k] + packet_lengths[k] <= openedAt
      /\ \A k \in 1 .. N - 1 : startedAt[k] + packet_lengths[k] <= startedAt[k + 1]
  BY DEF IInv, Accounted, Disjoint
<1>6. openedAt \in Nat /\ l \in Nat
  BY Numbers
<1>N. N \in Nat
  BY <1>4
<1> HIDE DEF N
<1>7. ASSUME NEW k \in 1 .. N + 1
      PROVE  startedAt'[k] + packet_lengths'[k] <= openedAt'
  <2>1. CASE k = N + 1
    <3>1. startedAt'[k] = a /\ packet_lengths'[k] = l
      BY <1>2, <1>3, <2>1
    <3> QED BY <1>6, <3>1
  <2>2. CASE k \in 1..N
    <3>1. startedAt'[k] = startedAt[k] /\ packet_lengths'[k] = packet_lengths[k]
      BY <1>2, <1>3, <2>2
    <3>2. startedAt[k] + packet_lengths[k] <= openedAt
      BY <1>5, <2>2
    <3>3. startedAt[k] \in Nat /\ packet_lengths[k] \in Nat
      BY <1>4, <2>2
    <3> QED BY <1>6, <3>1, <3>2, <3>3
  <2>3. k = N + 1 \/ k \in 1..N
    BY <1>N
  <2> QED BY <2>1, <2>2, <2>3
<1>8. ASSUME NEW k \in 1..N
      PROVE  startedAt'[k] + packet_lengths'[k] <= startedAt'[k + 1]
  <2>1. startedAt'[k] = startedAt[k] /\ packet_lengths'[k] = packet_lengths[k]
    BY <1>2, <1>3
  <2>2. startedAt[k] \in Nat /\ packet_lengths[k] \in Nat
    BY <1>4
  <2>3. CASE k = N
    <3>1. startedAt[k] + packet_lengths[k] <= openedAt
      BY <1>5
    <3>2. startedAt'[k + 1] = a
      BY <1>2, <2>3
    <3> QED BY <1>6, <2>1, <2>2, <3>1, <3>2
  <2>4. CASE k \in 1 .. N - 1
    <3>1. k + 1 \in 1..N
      BY <1>4, <2>4
    <3>2. startedAt'[k + 1] = startedAt[k + 1]
      BY <1>2, <3>1
    <3>3. startedAt[k] + packet_lengths[k] <= startedAt[k + 1]
      BY <1>5, <2>4
    <3> QED BY <2>1, <3>2, <3>3
  <2>5. k = N \/ k \in 1 .. N - 1
    BY <1>N
  <2> QED BY <2>3, <2>4, <2>5
<1>9. Disjoint'
  <2>1. Len(startedAt') - 1 = N
    BY <1>2, <1>4
  <2> QED BY <1>2, <1>7, <1>8, <2>1 DEF Disjoint
<1>10. OldestByte' = IF startedAt = <<>> THEN a ELSE startedAt[1]
  <2>1. OldestByte' = startedAt'[1]
    BY <1>2 DEF OldestByte
  <2>2. CASE startedAt = <<>>
    <3>1. N = 0
      BY <2>2 DEF N
    <3> QED BY <1>2, <2>1, <2>2, <3>1
  <2>3. CASE startedAt # <<>>
    <3>1. 1 \in 1..N
      BY <2>3, FifoNumbers DEF N
    <3> QED BY <1>2, <2>1, <2>3, <3>1
  <2> QED BY <2>2, <2>3
<1> QED BY <1>9, <1>10

(* A closed frame was stored at least in part, so its length is exact. *)
LEMMA HostCloseAccounted ==
  ASSUME IInv, HostClose
  PROVE  Accounted'
<1> DEFINE l == FrameLength(current_packet_start, queue_cursor)
<1>0. RingAccounted /\ CursorTracks /\ Disjoint /\ FrameStores
  BY DEF IInv, Accounted
<1>1. /\ IN_FRAME /\ frame.sent = frame.len /\ frame' = NoFrame
      /\ UNCHANGED <<queue_cursor, queued_bytes, written>>
  BY DEF HostClose
<1>2. FrameStores'
  BY <1>1 DEF FrameStores, IN_FRAME
<1>3. CASE ~fifo16_isfull /\ queued_bytes < QSize /\ l >= MIN_L
  <2>1. /\ packet_lengths' = Append(packet_lengths, l)
        /\ startedAt' = Append(startedAt, openedAt)
        /\ current_packet_start' = queue_cursor
        /\ openedAt' = written
    BY <1>3 DEF HostClose
  <2>2. openedAt < written
    BY <1>0, <1>1, Facts DEF FrameStores
  <2>3. l = written - openedAt
    BY <2>2, FrameLengthExact
  <2>4. l \in 1..QSize
    BY FrameLengthRange, Facts
  <2> HIDE DEF l
  <2>5. openedAt' = openedAt + l
    BY <2>1, <2>3, Numbers
  <2>6. CursorTracks'
    BY <1>1, <2>1, Numbers DEF CursorTracks
  <2>7. /\ Disjoint'
        /\ OldestByte' = IF startedAt = <<>> THEN openedAt ELSE startedAt[1]
    BY <2>1, <2>4, <2>5, Numbers, AppendDisjoint, SMTT(30)
  <2>8. OldestByte' = OldestByte
    BY <2>7 DEF OldestByte
  <2>9. RingAccounted'
    BY <1>0, <1>1, <2>8 DEF RingAccounted
  <2> QED BY <1>2, <2>6, <2>7, <2>9 DEF Accounted
<1>4. CASE ~(~fifo16_isfull /\ queued_bytes < QSize /\ l >= MIN_L)
  <2>1. UNCHANGED <<packet_lengths, startedAt, current_packet_start, openedAt>>
    BY <1>4 DEF HostClose
  <2>2. RingAccounted' /\ CursorTracks' /\ Disjoint'
    BY <1>0, <1>1, <2>1 DEF RingAccounted, OldestByte, CursorTracks, Disjoint
  <2> QED BY <1>2, <2>2 DEF Accounted
<1> QED BY <1>3, <1>4

(* A node packet starts at the cursor, past everything still needed. *)
LEMMA NodeAccounted ==
  ASSUME IInv, NEW n \in NodeLens, urns_enqueue_outgoing(n)
  PROVE  Accounted'
<1>0. RingAccounted /\ CursorTracks /\ Disjoint
  BY DEF IInv, Accounted
<1>1. /\ ~IN_FRAME /\ frame' = frame
      /\ queued_bytes' = queued_bytes + n /\ queued_bytes + n <= QSize
      /\ packet_lengths' = Append(packet_lengths, n)
      /\ startedAt' = Append(startedAt, written)
      /\ written' = written + n /\ openedAt' = written + n
      /\ current_packet_start' = queue_cursor'
      /\ queue_cursor' = IF queue_cursor + n >= QSize
                         THEN queue_cursor + n - QSize ELSE queue_cursor + n
  BY DEF urns_enqueue_outgoing, NodeFits, MidFrame
<1>2. n \in Nat /\ n \in 1..QSize
  BY InputAssumption, SizeAssumption
<1>3. FrameStores'
  BY <1>1 DEF FrameStores, IN_FRAME
<1>4. CursorTracks'
  <2>1. queue_cursor' \in Int /\ written' \in Nat
    BY <1>1, <1>2, Numbers, SMTT(30)
  <2>2. queue_cursor' - current_packet_start' = 0 /\ written' - openedAt' = 0
    BY <1>1, <2>1
  <2>3. openedAt' <= written'
    BY <1>1, <2>1
  <2> QED BY <2>2, <2>3 DEF CursorTracks
<1>5. /\ Disjoint'
      /\ OldestByte' = IF startedAt = <<>> THEN written ELSE startedAt[1]
  BY <1>1, <1>2, Numbers, AppendDisjoint
<1>6. RingAccounted'
  <2>1. /\ queued_bytes' <= QSize
        /\ queued_bytes' = queued_bytes + n /\ written' = written + n
    BY <1>1
  <2>2. CASE startedAt = <<>>
    <3>1. OldestByte' = written
      BY <1>5, <2>2
    <3>2. written + n - written <= queued_bytes + n
      BY <1>2, Numbers
    <3> QED BY <1>2, <2>1, <3>1, <3>2, Numbers DEF RingAccounted
  <2>3. CASE startedAt # <<>>
    <3>1. OldestByte' = startedAt[1] /\ OldestByte = startedAt[1]
      BY <1>5, <2>3 DEF OldestByte
    <3>2. startedAt[1] \in Nat
      BY <2>3, FifoNumbers
    <3>3. written - startedAt[1] <= queued_bytes
      BY <1>0, <3>1 DEF RingAccounted
    <3>4. written + n - startedAt[1] <= queued_bytes + n
      BY <1>2, <3>2, <3>3, Numbers
    <3> QED BY <1>2, <2>1, <3>1, <3>2, <3>4, Numbers DEF RingAccounted
  <2> QED BY <2>2, <2>3
<1> QED BY <1>3, <1>4, <1>5, <1>6 DEF Accounted

(* A packet that leaves was counted, so the counter does not wrap. *)
LEMMA PopAccounted ==
  ASSUME IInv, pop_queue
  PROVE  Accounted'
<1> DEFINE N == Len(startedAt)
<1>0. Shape /\ RingAccounted /\ CursorTracks /\ Disjoint /\ FrameStores
  BY DEF IInv, Accounted
<1>1. /\ startedAt # <<>> /\ packet_lengths # <<>>
      /\ startedAt' = Tail(startedAt) /\ packet_lengths' = Tail(packet_lengths)
      /\ queue_height' = queue_height - 1
      /\ queued_bytes' = (queued_bytes - packet_lengths[1]) % U16
      /\ packet_lengths[1] \in 1..QSize
      /\ UNCHANGED <<frame, queue_cursor, current_packet_start, written, openedAt>>
  BY <1>0, PopFacts
<1>2. /\ packet_lengths \in Seq(1..QSize) /\ startedAt \in Seq(Nat)
      /\ Len(packet_lengths) = N
  BY Facts
<1>3. /\ Len(startedAt') = N - 1 /\ startedAt' \in Seq(Nat)
      /\ \A k \in 1 .. N - 1 : startedAt'[k] = startedAt[k + 1]
  BY <1>1, <1>2, TailFacts
<1>4. \A k \in 1 .. N - 1 : packet_lengths'[k] = packet_lengths[k + 1]
  BY <1>1, <1>2, TailFacts
<1>5. /\ N \in Nat /\ 1 \in 1..N
      /\ \A k \in 1..N : startedAt[k] \in Nat /\ packet_lengths[k] \in Nat
  BY <1>1, FifoNumbers
<1>6. /\ \A k \in 1..N : startedAt[k] + packet_lengths[k] <= openedAt
      /\ \A k \in 1 .. N - 1 : startedAt[k] + packet_lengths[k] <= startedAt[k + 1]
  BY <1>0 DEF Disjoint
<1> HIDE DEF N
<1>7. queued_bytes - packet_lengths[1] \in Nat
      /\ written - startedAt[1] <= queued_bytes
  <2>1. OldestByte = startedAt[1]
    BY <1>1 DEF OldestByte
  <2>2. written - startedAt[1] <= queued_bytes
    BY <1>0, <2>1 DEF RingAccounted
  <2>3. startedAt[1] + packet_lengths[1] <= openedAt
    BY <1>5, <1>6
  <2>4. startedAt[1] \in Nat /\ packet_lengths[1] \in Nat
    BY <1>5
  <2> QED BY <2>2, <2>3, <2>4, Numbers
<1>8. queued_bytes' = queued_bytes - packet_lengths[1]
  <2>1. queued_bytes <= QSize
    BY <1>0 DEF RingAccounted
  <2>2. QSize < U16 /\ U16 \in Nat /\ QSize \in Nat
    BY SizeAssumption
  <2>3. queued_bytes - packet_lengths[1] < U16
    BY <1>1, <2>1, <2>2, Numbers
  <2> QED BY <1>1, <1>7, <2>2, <2>3, ModSmall
<1>9. RingAccounted'
  <2>1. queued_bytes' <= QSize
    BY <1>0, <1>1, <1>8, Numbers DEF RingAccounted
  <2>2. startedAt[1] \in Nat /\ packet_lengths[1] \in Nat
    BY <1>5
  <2>3. CASE startedAt' = <<>>
    <3>1. OldestByte' = openedAt
      BY <1>1, <2>3 DEF OldestByte
    <3>2. startedAt[1] + packet_lengths[1] <= openedAt
      BY <1>5, <1>6
    <3>3. written - openedAt <= queued_bytes - packet_lengths[1]
      BY <1>7, <2>2, <3>2, Numbers
    <3> QED BY <1>1, <1>8, <2>1, <3>1, <3>3 DEF RingAccounted
  <2>4. CASE startedAt' # <<>>
    <3>1. 1 \in 1 .. N - 1
      BY <1>3, <1>5, <2>4, EmptyFacts
    <3>2. OldestByte' = startedAt[2] /\ startedAt[2] \in Nat
      BY <1>3, <1>5, <2>4, <3>1 DEF OldestByte
    <3>3. startedAt[1] + packet_lengths[1] <= startedAt[2]
      BY <1>6, <3>1
    <3>4. written - startedAt[2] <= queued_bytes - packet_lengths[1]
      BY <1>7, <2>2, <3>2, <3>3, Numbers
    <3> QED BY <1>1, <1>8, <2>1, <3>2, <3>4 DEF RingAccounted
  <2> QED BY <2>3, <2>4
<1>10. CursorTracks'
  BY <1>0, <1>1 DEF CursorTracks
<1>11. Disjoint'
  <2>1. ASSUME NEW k \in 1 .. N - 1
        PROVE  startedAt'[k] + packet_lengths'[k] <= openedAt'
    <3>1. k + 1 \in 1..N
      BY <1>5
    <3> QED BY <1>1, <1>3, <1>4, <1>6, <3>1
  <2>2. ASSUME NEW k \in 1 .. (N - 1) - 1
        PROVE  startedAt'[k] + packet_lengths'[k] <= startedAt'[k + 1]
    <3>1. k + 1 \in 1 .. N - 1 /\ k \in 1 .. N - 1
      BY <1>5
    <3>2. startedAt[k + 1] + packet_lengths[k + 1] <= startedAt[(k + 1) + 1]
      BY <1>6, <3>1
    <3> QED BY <1>3, <1>4, <3>1, <3>2
  <2> QED BY <1>3, <2>1, <2>2 DEF Disjoint
<1>12. FrameStores'
  <2>1. HasRoom => HasRoom'
    <3>1. queue_height \in Nat /\ MaxLen \in Nat
      BY Facts, SizeAssumption
    <3>2. packet_lengths[1] \in Nat
      BY <1>5
    <3> QED BY <1>1, <1>8, <3>1, <3>2, Numbers DEF HasRoom
  <2> QED BY <1>0, <1>1, <2>1 DEF FrameStores, IN_FRAME
<1> QED BY <1>9, <1>10, <1>11, <1>12 DEF Accounted

(* hard_reset() empties the ring and its account. *)
LEMMA ResetAccounted ==
  ASSUME hard_reset PROVE Accounted'
<1>1. /\ frame' = NoFrame /\ queue_cursor' = 0 /\ current_packet_start' = 0
      /\ packet_lengths' = <<>> /\ startedAt' = <<>> /\ queued_bytes' = 0
      /\ written' = 0 /\ openedAt' = 0
  BY DEF hard_reset
<1>2. FrameStores' /\ Disjoint'
  BY <1>1 DEF FrameStores, IN_FRAME, Disjoint
<1>3. RingAccounted' /\ CursorTracks'
  BY <1>1, SizeAssumption DEF RingAccounted, OldestByte, CursorTracks
<1> QED BY <1>2, <1>3 DEF Accounted

(* So does setup(). *)
LEMMA InitAccounted == Init => Accounted
<1> SUFFICES ASSUME Init PROVE Accounted
  OBVIOUS
<1>1. /\ frame = NoFrame /\ queue_cursor = 0 /\ current_packet_start = 0
      /\ packet_lengths = <<>> /\ startedAt = <<>> /\ queued_bytes = 0
      /\ written = 0 /\ openedAt = 0
  BY DEF Init
<1>2. FrameStores /\ Disjoint
  BY <1>1 DEF FrameStores, IN_FRAME, Disjoint
<1>3. RingAccounted /\ CursorTracks
  BY <1>1, SizeAssumption DEF RingAccounted, OldestByte, CursorTracks
<1> QED BY <1>2, <1>3 DEF Accounted

(* Every step of a polite host and a rate-limited node keeps IInv. *)
LEMMA NextAccounted ==
  ASSUME PolitelyLimited PROVE IInv /\ [Next]_vars => IInv'
<1> SUFFICES ASSUME IInv, [Next]_vars PROVE IInv'
  OBVIOUS
<1>1. Shape'
  BY NextShape DEF IInv
<1>2. ~should_flush
  BY DEF PolitelyLimited, IInv, Shape, TypeOK, RegimeOK
<1>3. Accounted'
  <2>1. CASE UNCHANGED vars
    BY <2>1, AccountedStays DEF vars, IInv
  <2>2. CASE updateBitrate
    BY <2>2, AccountedStays DEF updateBitrate, history, IInv
  <2>3. CASE flush_queue
    BY <1>2, <2>3 DEF flush_queue
  <2> QED BY <2>1, <2>2, <2>3, HostOpenAccounted, HostByteAccounted,
             HostCloseAccounted, NodeAccounted, PopAccounted, ResetAccounted
          DEF Next
<1> QED BY <1>1, <1>3 DEF IInv

-----------------------------------------------------------------------------
(* In the rate-limited regime, with a host that sends non-empty frames and  *)
(* asks before it sends, queued_bytes never wraps and never promises room   *)
(* that is taken: no byte still needed is overwritten in packet_queue.      *)
THEOREM RingAlwaysAccounted ==
  ASSUME PolitelyLimited PROVE Spec => []RingAccounted
<1>1. Init => IInv
  BY InitShape, InitAccounted DEF IInv
<1>2. IInv /\ [Next]_vars => IInv'
  BY NextAccounted
<1>3. IInv => RingAccounted
  BY DEF IInv, Accounted
<1> QED BY <1>1, <1>2, <1>3, PTL DEF Spec

-----------------------------------------------------------------------------
(* Where the queued packets lie in the ring. *)

(* Slot s of the ring holds position a of the stream of stored bytes: the   *)
(* cursor is as far past the one as `written` is past the other.            *)
LiesAt(s, a) ==
    \/ queue_cursor - s = written - a
    \/ queue_cursor - s + QSize = written - a

StartsTrack == \A k \in 1..Len(startedAt) : LiesAt(packet_starts[k], startedAt[k])

Ordered ==
    \A j, k \in 1..Len(startedAt) :
        j < k => startedAt[j] + packet_lengths[j] <= startedAt[k]

Placed == StartsTrack /\ Ordered

PlacedInv == IInv /\ Placed

(* A sum of two slots wraps at most once. *)
LEMMA Wrapped ==
  ASSUME NEW q \in Nat \ {0}, NEW a \in Nat, a < q + q
  PROVE  a % q = IF a < q THEN a ELSE a - q
<1>1. CASE a < q
  BY <1>1
<1>2. CASE ~(a < q)
  <2>1. PICK k \in Int, r \in Int : k = a \div q /\ r = a % q
    OBVIOUS
  <2>2. a = q * k + r /\ 0 <= r /\ r < q
    BY <2>1
  <2>3. k = 1
    <3>1. CASE k <= 0
      <4>1. q * k <= 0
        BY <3>1
      <4> QED BY <1>2, <2>2, <4>1
    <3>2. CASE k >= 2
      <4>1. q * k >= q + q
        BY <3>2
      <4> QED BY <2>2, <4>1
    <3> QED BY <3>1, <3>2
  <2> QED BY <1>2, <2>1, <2>2, <2>3
<1> QED BY <1>1, <1>2

(* The i-th slot from s on is not among the n slots from the cursor on, if   *)
(* it lies less than the cursor's distance d from s and d + n slots fit.     *)
LEMMA SlotsApart ==
  ASSUME NEW s \in Slots, NEW c \in Slots, NEW d \in Nat, NEW n \in Nat, NEW i \in 1..d,
         c - s = d \/ c - s + QSize = d, d + n <= QSize
  PROVE  /\ (s + i - 1) % QSize \in Slots
         /\ SlotIndex((s + i - 1) % QSize, c) > n
<1>1. QSize \in Nat \ {0}
  BY SizeAssumption
<1>2. PICK a \in Nat : a = s + i - 1
  BY <1>1 DEF Slots
<1>3. a < QSize + QSize
  BY <1>1, <1>2 DEF Slots
<1>4. a % QSize = IF a < QSize THEN a ELSE a - QSize
  BY <1>1, <1>3, Wrapped
<1>5. PICK x \in Int : x = IF a < QSize THEN a ELSE a - QSize
  BY <1>1
<1>6. x \in Slots
  BY <1>1, <1>3, <1>5 DEF Slots
<1>7. SlotIndex(x, c) > n
  BY <1>1, <1>2, <1>3, <1>5 DEF Slots, SlotIndex
<1> QED BY <1>2, <1>4, <1>5, <1>6, <1>7

(* The i-th slot from the cursor on has index i. *)
LEMMA SlotIndexExact ==
  ASSUME NEW c \in Slots, NEW n \in 1..QSize, NEW i \in 1..n
  PROVE  (c + i - 1) % QSize \in Slots /\ SlotIndex((c + i - 1) % QSize, c) = i
<1>1. QSize \in Nat \ {0}
  BY SizeAssumption
<1>2. PICK a \in Nat : a = c + i - 1
  BY <1>1 DEF Slots
<1>3. a < QSize + QSize
  BY <1>1, <1>2 DEF Slots
<1>4. a % QSize = IF a < QSize THEN a ELSE a - QSize
  BY <1>1, <1>3, Wrapped
<1>5. PICK x \in Int : x = IF a < QSize THEN a ELSE a - QSize
  BY <1>1
<1>6. x \in Slots /\ SlotIndex(x, c) = i
  BY <1>1, <1>2, <1>3, <1>5 DEF Slots, SlotIndex
<1> QED BY <1>2, <1>4, <1>5, <1>6

(* The cursor moves n slots on, and every slot lies n further behind it. *)
LEMMA CursorAdvances ==
  ASSUME NEW s \in Slots, NEW c \in Slots, NEW d \in Nat, NEW n \in Nat, NEW e,
         c - s = d \/ c - s + QSize = d, d + n <= QSize,
         e = IF c + n >= QSize THEN c + n - QSize ELSE c + n
  PROVE  e - s = d + n \/ e - s + QSize = d + n
  BY SizeAssumption DEF Slots

(* A queued packet lies behind the cursor, within what is counted. *)
LEMMA Distances ==
  ASSUME PlacedInv, NEW k \in 1..Len(startedAt)
  PROVE  /\ k \in 1..Len(packet_starts) /\ packet_starts[k] \in Slots
         /\ packet_lengths[k] \in 1..QSize /\ startedAt[k] \in Nat
         /\ written - startedAt[k] \in Nat
         /\ packet_lengths[k] <= written - startedAt[k]
         /\ written - startedAt[k] <= queued_bytes
         /\ LiesAt(packet_starts[k], startedAt[k])
<1>0. /\ packet_starts \in Seq(Slots) /\ packet_lengths \in Seq(1..QSize)
      /\ startedAt \in Seq(Nat) /\ Len(startedAt) = Len(packet_starts)
      /\ Len(startedAt) = Len(packet_lengths)
  BY DEF PlacedInv, IInv, Shape, TypeOK, FifoOK, HistoryOK, FifosAgree, HistoryAgrees
<1>1. /\ k \in 1..Len(packet_starts) /\ packet_starts[k] \in Slots
      /\ packet_lengths[k] \in 1..QSize /\ startedAt[k] \in Nat
  BY <1>0, ElementFact
<1>2. startedAt[k] + packet_lengths[k] <= openedAt
  BY DEF PlacedInv, IInv, Accounted, Disjoint
<1>3. IInv
  BY DEF PlacedInv
<1>4. packet_lengths[k] <= written - startedAt[k] /\ written - startedAt[k] \in Nat
  BY <1>1, <1>2, <1>3, Numbers
<1>5. written - startedAt[k] <= queued_bytes
  <2>1. 1 \in 1..Len(startedAt) /\ startedAt # <<>>
    BY <1>0
  <2>2. written - startedAt[1] <= queued_bytes
    BY <1>3, <2>1 DEF IInv, Accounted, RingAccounted, OldestByte
  <2>3. CASE k = 1
    BY <2>2, <2>3
  <2>4. CASE k > 1
    <3>1. startedAt[1] + packet_lengths[1] <= startedAt[k]
      BY <2>1, <2>4 DEF PlacedInv, Placed, Ordered
    <3>2. startedAt[1] \in Nat /\ packet_lengths[1] \in Nat
      BY <1>3, <2>1, FifoNumbers
    <3> QED BY <1>1, <1>3, <2>2, <3>1, <3>2, Numbers
  <2> QED BY <2>3, <2>4
<1>6. LiesAt(packet_starts[k], startedAt[k])
  BY DEF PlacedInv, Placed, StartsTrack
<1> QED BY <1>1, <1>4, <1>5, <1>6

(* Whoever writes n bytes at the cursor after having checked that n more    *)
(* bytes can be counted leaves the bytes of all queued packets alone.        *)
LEMMA QueuedBytesKept ==
  ASSUME PlacedInv, NEW n \in Nat, queued_bytes + n <= QSize,
         \A c \in Slots : SlotIndex(c, queue_cursor) > n => packet_queue'[c] = packet_queue[c],
         NEW k \in 1..Len(startedAt)
  PROVE  [i \in 1..packet_lengths[k] |-> packet_queue'[(packet_starts[k] + i - 1) % QSize]]
            = Payload(packet_starts[k], packet_lengths[k])
<1> DEFINE s == packet_starts[k]
           d == written - startedAt[k]
<1>1. /\ s \in Slots /\ packet_lengths[k] \in 1..QSize /\ d \in Nat
      /\ packet_lengths[k] <= d /\ d <= queued_bytes /\ LiesAt(s, startedAt[k])
  BY Distances
<1>2. queue_cursor \in Slots /\ queued_bytes \in Nat /\ QSize \in Nat
  BY Facts DEF PlacedInv
<1>3. d + n <= QSize /\ (queue_cursor - s = d \/ queue_cursor - s + QSize = d)
  BY <1>1, <1>2 DEF LiesAt
<1> HIDE DEF s, d
<1>4. ASSUME NEW i \in 1..packet_lengths[k]
      PROVE  packet_queue'[(s + i - 1) % QSize] = packet_queue[(s + i - 1) % QSize]
  <2>1. i \in 1..d
    BY <1>1
  <2>2. /\ (s + i - 1) % QSize \in Slots
        /\ SlotIndex((s + i - 1) % QSize, queue_cursor) > n
    BY <1>1, <1>2, <1>3, <2>1, SlotsApart
  <2> QED BY <2>2
<1> QED BY <1>4 DEF s, Payload

(* So the queue of payloads stays as it is while the FIFOs do ... *)
LEMMA QueueUntouched ==
  ASSUME PlacedInv, NEW n \in Nat, queued_bytes + n <= QSize,
         \A c \in Slots : SlotIndex(c, queue_cursor) > n => packet_queue'[c] = packet_queue[c],
         UNCHANGED <<packet_starts, packet_lengths>>
  PROVE  UNCHANGED QueuedPayloads
<1>1. Len(packet_starts) = Len(startedAt)
  BY DEF PlacedInv, IInv, Shape, HistoryAgrees
<1>2. ASSUME NEW k \in 1..Len(packet_starts)
      PROVE  [i \in 1..packet_lengths[k] |-> packet_queue'[(packet_starts[k] + i - 1) % QSize]]
                = Payload(packet_starts[k], packet_lengths[k])
  BY <1>1, QueuedBytesKept
<1>3. QueuedPayloads' = [k \in 1..Len(packet_starts) |->
         [i \in 1..packet_lengths[k] |-> packet_queue'[(packet_starts[k] + i - 1) % QSize]]]
  BY DEF QueuedPayloads, Payload
<1> QED BY <1>2, <1>3 DEF QueuedPayloads

(* ... and grows by one payload when an entry is pushed on them. *)
LEMMA QueueGrows ==
  ASSUME PlacedInv, NEW n \in Nat, queued_bytes + n <= QSize,
         \A c \in Slots : SlotIndex(c, queue_cursor) > n => packet_queue'[c] = packet_queue[c],
         NEW s \in Slots, NEW l \in 1..QSize,
         packet_starts' = Append(packet_starts, s),
         packet_lengths' = Append(packet_lengths, l)
  PROVE  QueuedPayloads' = Append(QueuedPayloads,
            [i \in 1..l |-> packet_queue'[(s + i - 1) % QSize]])
<1> DEFINE N == Len(packet_starts)
           P(k) == [i \in 1..packet_lengths'[k] |->
                      packet_queue'[(packet_starts'[k] + i - 1) % QSize]]
<1>0. /\ packet_starts \in Seq(Slots) /\ packet_lengths \in Seq(1..QSize)
      /\ Len(startedAt) = N /\ Len(packet_lengths) = N
  BY DEF PlacedInv, IInv, Shape, TypeOK, FifoOK, FifosAgree, HistoryAgrees
<1>1. /\ Len(packet_starts') = N + 1 /\ packet_starts'[N + 1] = s
      /\ \A k \in 1..N : packet_starts'[k] = packet_starts[k]
  BY <1>0, AppendFacts
<1>2. /\ packet_lengths'[N + 1] = l
      /\ \A k \in 1..N : packet_lengths'[k] = packet_lengths[k]
  BY <1>0, AppendFacts
<1>3. ASSUME NEW k \in 1..N
      PROVE  P(k) = Payload(packet_starts[k], packet_lengths[k])
  <2>1. P(k) = [i \in 1..packet_lengths[k] |-> packet_queue'[(packet_starts[k] + i - 1) % QSize]]
    BY <1>1, <1>2
  <2> QED BY <1>0, <2>1, QueuedBytesKept
<1>4. QueuedPayloads' = [k \in 1 .. N + 1 |-> P(k)]
  BY <1>1 DEF QueuedPayloads, Payload
<1>5. P(N + 1) = [i \in 1..l |-> packet_queue'[(s + i - 1) % QSize]]
  BY <1>1, <1>2
<1>6. N \in Nat
  BY <1>0
<1>7. QueuedPayloads = [k \in 1..N |-> P(k)]
  BY <1>3 DEF QueuedPayloads
<1> HIDE DEF P, N
<1> QED BY <1>4, <1>5, <1>6, <1>7

(* Placed speaks only of these variables. *)
LEMMA PlacedStays ==
  /\ Placed
  /\ UNCHANGED <<queue_cursor, packet_starts, packet_lengths, written, startedAt>>
  => Placed'
  BY DEF Placed, StartsTrack, Ordered, LiesAt

(* Storing n bytes moves the cursor, and the queued packets lie that much   *)
(* further behind it.                                                       *)
LEMMA StillLieAt ==
  ASSUME PlacedInv, NEW n \in Nat, queued_bytes + n <= QSize, written' = written + n,
         queue_cursor' = IF queue_cursor + n >= QSize
                         THEN queue_cursor + n - QSize ELSE queue_cursor + n,
         NEW k \in 1..Len(startedAt)
  PROVE  \/ queue_cursor' - packet_starts[k] = written' - startedAt[k]
         \/ queue_cursor' - packet_starts[k] + QSize = written' - startedAt[k]
<1> DEFINE s == packet_starts[k]
           d == written - startedAt[k]
<1>1. /\ s \in Slots /\ d \in Nat /\ d <= queued_bytes /\ LiesAt(s, startedAt[k])
      /\ startedAt[k] \in Nat
  BY Distances
<1>2. queue_cursor \in Slots /\ queued_bytes \in Nat /\ QSize \in Nat /\ written \in Nat
  BY Facts DEF PlacedInv
<1>3. d + n <= QSize /\ (queue_cursor - s = d \/ queue_cursor - s + QSize = d)
  BY <1>1, <1>2 DEF LiesAt
<1>4. written' - startedAt[k] = d + n
  BY <1>1, <1>2
<1> HIDE DEF s, d
<1>5. queue_cursor' - s = d + n \/ queue_cursor' - s + QSize = d + n
  BY <1>1, <1>2, <1>3, CursorAdvances, SMTT(30)
<1> QED BY <1>4, <1>5 DEF s

(* One byte is stored at the cursor, which wraps at the end of the ring. *)
LEMMA HostBytePlaced == ASSUME PlacedInv, HostByte PROVE Placed'
<1>1. UNCHANGED <<packet_starts, packet_lengths, startedAt>> /\ Placed
  BY DEF HostByte, PlacedInv
<1>2. CASE HasRoom
  <2>1. queue_cursor' = Wrap(queue_cursor + 1) /\ written' = written + 1
    BY <1>2 DEF HostByte
  <2>2. queue_cursor \in 0 .. QSize - 1 /\ queued_bytes \in Nat /\ QSize \in Nat
    BY Facts DEF PlacedInv, Slots
  <2>3. /\ queue_cursor' = IF queue_cursor + 1 >= QSize
                           THEN queue_cursor + 1 - QSize ELSE queue_cursor + 1
        /\ queued_bytes + 1 <= QSize
    BY <1>2, <2>1, <2>2 DEF Wrap, HasRoom
  <2>4. StartsTrack'
    BY <1>1, <2>1, <2>3, StillLieAt DEF StartsTrack, LiesAt
  <2>5. Ordered'
    BY <1>1 DEF Placed, Ordered
  <2> QED BY <2>4, <2>5 DEF Placed
<1>3. CASE ~HasRoom
  BY <1>1, <1>3, PlacedStays DEF HostByte
<1> QED BY <1>2, <1>3

(* An entry pushed on the FIFOs that begins at or after the open frame and  *)
(* lies where it says.                                                      *)
LEMMA AppendPlaced ==
  ASSUME PlacedInv, NEW s \in Slots, NEW a \in Nat, NEW l \in 1..QSize, openedAt <= a,
         packet_starts' = Append(packet_starts, s),
         packet_lengths' = Append(packet_lengths, l),
         startedAt' = Append(startedAt, a),
         \A k \in 1..Len(startedAt) :
            \/ queue_cursor' - packet_starts[k] = written' - startedAt[k]
            \/ queue_cursor' - packet_starts[k] + QSize = written' - startedAt[k],
         queue_cursor' - s = written' - a \/ queue_cursor' - s + QSize = written' - a
  PROVE  Placed'
<1> DEFINE N == Len(startedAt)
<1>0. /\ packet_starts \in Seq(Slots) /\ packet_lengths \in Seq(1..QSize)
      /\ startedAt \in Seq(Nat)
      /\ Len(packet_starts) = N /\ Len(packet_lengths) = N
  BY DEF PlacedInv, IInv, Shape, TypeOK, FifoOK, HistoryOK, FifosAgree, HistoryAgrees
<1>1. /\ packet_starts'[N + 1] = s
      /\ \A k \in 1..N : packet_starts'[k] = packet_starts[k]
  BY <1>0, AppendFacts
<1>2. \A k \in 1..N : packet_lengths'[k] = packet_lengths[k]
  BY <1>0, AppendFacts
<1>3. /\ Len(startedAt') = N + 1 /\ startedAt'[N + 1] = a
      /\ \A k \in 1..N : startedAt'[k] = startedAt[k]
  BY <1>0, AppendFacts
<1>4. N \in Nat
  BY <1>0
<1>5. \A k \in 1..N : /\ startedAt[k] \in Nat /\ packet_lengths[k] \in Nat
                      /\ startedAt[k] + packet_lengths[k] <= openedAt
  BY FifoNumbers DEF PlacedInv, IInv, Accounted, Disjoint
<1>6. openedAt \in Nat
  BY Facts DEF PlacedInv
<1> HIDE DEF N
<1>7. StartsTrack'
  <2> SUFFICES ASSUME NEW k \in 1 .. N + 1
               PROVE  \/ queue_cursor' - packet_starts'[k] = written' - startedAt'[k]
                      \/ queue_cursor' - packet_starts'[k] + QSize = written' - startedAt'[k]
    BY <1>3 DEF StartsTrack, LiesAt
  <2>1. CASE k = N + 1
    BY <1>1, <1>3, <2>1
  <2>2. CASE k \in 1..N
    BY <1>1, <1>3, <2>2 DEF N
  <2>3. k = N + 1 \/ k \in 1..N
    BY <1>4
  <2> QED BY <2>1, <2>2, <2>3
<1>8. Ordered'
  <2> SUFFICES ASSUME NEW j \in 1 .. N + 1, NEW k \in 1 .. N + 1, j < k
               PROVE  startedAt'[j] + packet_lengths'[j] <= startedAt'[k]
    BY <1>3 DEF Ordered
  <2>0. j \in 1..N
    BY <1>4
  <2>1. CASE k = N + 1
    <3>1. startedAt'[j] = startedAt[j] /\ packet_lengths'[j] = packet_lengths[j]
      BY <1>2, <1>3, <2>0
    <3>2. startedAt'[k] = a
      BY <1>3, <2>1
    <3>3. /\ startedAt[j] \in Nat /\ packet_lengths[j] \in Nat
          /\ startedAt[j] + packet_lengths[j] <= openedAt
      BY <1>5, <2>0
    <3> QED BY <1>6, <3>1, <3>2, <3>3
  <2>2. CASE k \in 1..N
    BY <1>2, <1>3, <2>0, <2>2 DEF N, PlacedInv, Placed, Ordered
  <2>3. k = N + 1 \/ k \in 1..N
    BY <1>4
  <2> QED BY <2>1, <2>2, <2>3
<1> QED BY <1>7, <1>8 DEF Placed

(* A closed frame begins where the packet was opened. *)
LEMMA HostClosePlaced == ASSUME PlacedInv, HostClose PROVE Placed'
<1> DEFINE l == FrameLength(current_packet_start, queue_cursor)
<1>0. IInv /\ Placed
  BY DEF PlacedInv
<1>1. UNCHANGED <<queue_cursor, written>>
  BY DEF HostClose
<1>2. CASE ~fifo16_isfull /\ queued_bytes < QSize /\ l >= MIN_L
  <2>1. /\ packet_starts' = Append(packet_starts, current_packet_start)
        /\ packet_lengths' = Append(packet_lengths, l)
        /\ startedAt' = Append(startedAt, openedAt)
    BY <1>2 DEF HostClose
  <2>2. l \in 1..QSize /\ current_packet_start \in Slots /\ openedAt \in Nat
    BY <1>0, FrameLengthRange, Facts
  <2>3. \/ queue_cursor' - current_packet_start = written' - openedAt
        \/ queue_cursor' - current_packet_start + QSize = written' - openedAt
    BY <1>0, <1>1 DEF IInv, Accounted, CursorTracks
  <2>4. \A k \in 1..Len(startedAt) :
           \/ queue_cursor' - packet_starts[k] = written' - startedAt[k]
           \/ queue_cursor' - packet_starts[k] + QSize = written' - startedAt[k]
    BY <1>0, <1>1 DEF Placed, StartsTrack, LiesAt
  <2>5. openedAt <= openedAt
    BY <2>2
  <2> HIDE DEF l
  <2> QED BY <2>1, <2>2, <2>3, <2>4, <2>5, AppendPlaced
<1>3. CASE ~(~fifo16_isfull /\ queued_bytes < QSize /\ l >= MIN_L)
  <2>1. UNCHANGED <<packet_starts, packet_lengths, startedAt>>
    BY <1>3 DEF HostClose
  <2> QED BY <1>0, <1>1, <2>1, PlacedStays
<1> QED BY <1>2, <1>3

(* A packet of the node begins at the cursor. *)
LEMMA NodePlaced ==
  ASSUME PlacedInv, NEW n \in NodeLens, urns_enqueue_outgoing(n) PROVE Placed'
<1>0. IInv /\ n \in Nat /\ n \in 1..QSize
  BY InputAssumption, SizeAssumption DEF PlacedInv
<1>1. /\ queued_bytes + n <= QSize
      /\ packet_starts' = Append(packet_starts, queue_cursor)
      /\ packet_lengths' = Append(packet_lengths, n)
      /\ startedAt' = Append(startedAt, written)
      /\ written' = written + n
      /\ queue_cursor' = IF queue_cursor + n >= QSize
                         THEN queue_cursor + n - QSize ELSE queue_cursor + n
  BY DEF urns_enqueue_outgoing, NodeFits
<1>2. queue_cursor \in Slots /\ written \in Nat /\ openedAt <= written
  BY <1>0, Facts, Numbers
<1>3. \/ queue_cursor' - queue_cursor = written' - written
      \/ queue_cursor' - queue_cursor + QSize = written' - written
  BY <1>0, <1>1, <1>2, SizeAssumption DEF Slots
<1>4. \A k \in 1..Len(startedAt) :
         \/ queue_cursor' - packet_starts[k] = written' - startedAt[k]
         \/ queue_cursor' - packet_starts[k] + QSize = written' - startedAt[k]
  BY <1>0, <1>1, StillLieAt
<1> QED BY <1>0, <1>1, <1>2, <1>3, <1>4, AppendPlaced

(* The packets behind the first keep their places. *)
LEMMA PopPlaced == ASSUME PlacedInv, pop_queue PROVE Placed'
<1> DEFINE N == Len(startedAt)
<1>0. Shape /\ Placed
  BY DEF PlacedInv, IInv
<1>1. /\ packet_starts # <<>> /\ packet_lengths # <<>> /\ startedAt # <<>>
      /\ packet_starts' = Tail(packet_starts) /\ packet_lengths' = Tail(packet_lengths)
      /\ startedAt' = Tail(startedAt)
      /\ UNCHANGED <<queue_cursor, written>>
  BY <1>0, PopFacts
<1>2. /\ packet_starts \in Seq(Slots) /\ packet_lengths \in Seq(1..QSize)
      /\ startedAt \in Seq(Nat)
      /\ Len(packet_starts) = N /\ Len(packet_lengths) = N
  BY <1>0 DEF Shape, TypeOK, FifoOK, HistoryOK, FifosAgree, HistoryAgrees
<1>3. /\ Len(startedAt') = N - 1
      /\ \A k \in 1 .. N - 1 : startedAt'[k] = startedAt[k + 1]
  BY <1>1, <1>2, TailFacts
<1>4. \A k \in 1 .. N - 1 : /\ packet_starts'[k] = packet_starts[k + 1]
                            /\ packet_lengths'[k] = packet_lengths[k + 1]
  BY <1>1, <1>2, TailFacts
<1>5. N \in Nat /\ \A k \in 1 .. N - 1 : k + 1 \in 1..N
  BY <1>2
<1>6. StartsTrack'
  <2> SUFFICES ASSUME NEW k \in 1 .. N - 1
               PROVE  \/ queue_cursor' - packet_starts'[k] = written' - startedAt'[k]
                      \/ queue_cursor' - packet_starts'[k] + QSize = written' - startedAt'[k]
    BY <1>3 DEF StartsTrack, LiesAt
  <2>1. LiesAt(packet_starts[k + 1], startedAt[k + 1])
    BY <1>0, <1>5 DEF Placed, StartsTrack
  <2> QED BY <1>1, <1>3, <1>4, <2>1 DEF LiesAt
<1>7. Ordered'
  <2> SUFFICES ASSUME NEW j \in 1 .. N - 1, NEW k \in 1 .. N - 1, j < k
               PROVE  startedAt'[j] + packet_lengths'[j] <= startedAt'[k]
    BY <1>3 DEF Ordered
  <2>1. j + 1 \in 1..N /\ k + 1 \in 1..N /\ j + 1 < k + 1
    BY <1>5
  <2>2. startedAt[j + 1] + packet_lengths[j + 1] <= startedAt[k + 1]
    BY <1>0, <2>1 DEF Placed, Ordered
  <2> QED BY <1>3, <1>4, <2>2
<1> QED BY <1>6, <1>7 DEF Placed

(* An empty queue places nothing. *)
LEMMA EmptyPlaced == startedAt' = <<>> => Placed'
  BY DEF Placed, StartsTrack, Ordered

(* Every step of a polite host and a rate-limited node keeps PlacedInv. *)
LEMMA NextPlaced ==
  ASSUME PolitelyLimited PROVE PlacedInv /\ [Next]_vars => PlacedInv'
<1> SUFFICES ASSUME PlacedInv, [Next]_vars PROVE Placed'
  BY NextAccounted DEF PlacedInv
<1>1. ~should_flush
  BY DEF PolitelyLimited, PlacedInv, IInv, Shape, TypeOK, RegimeOK
<1>2. CASE UNCHANGED vars
  BY <1>2, PlacedStays DEF vars, PlacedInv
<1>3. ASSUME NEW n \in HostLens, HostOpen(n) PROVE Placed'
  BY <1>3, PlacedStays DEF HostOpen, history, PlacedInv
<1>4. CASE updateBitrate
  BY <1>4, PlacedStays DEF updateBitrate, history, PlacedInv
<1>5. CASE flush_queue
  BY <1>1, <1>5 DEF flush_queue
<1>6. CASE hard_reset
  BY <1>6, EmptyPlaced DEF hard_reset
<1> QED BY <1>2, <1>3, <1>4, <1>5, <1>6, HostBytePlaced, HostClosePlaced, NodePlaced,
           PopPlaced DEF Next

(* The ring places nothing at boot. *)
LEMMA InitPlaced == Init => PlacedInv
<1> SUFFICES ASSUME Init PROVE PlacedInv
  OBVIOUS
<1>1. IInv
  BY InitShape, InitAccounted DEF IInv
<1>2. Placed
  BY DEF Init, Placed, StartsTrack, Ordered
<1> QED BY <1>1, <1>2 DEF PlacedInv

-----------------------------------------------------------------------------
(* The ring implements a bounded queue of payloads, step by step. *)

(* The queue of payloads is as long as the FIFOs. *)
LEMMA QueueLength ==
  ASSUME Shape
  PROVE  /\ Len(QueuedPayloads) = Len(packet_starts) /\ Len(packet_starts) \in Nat
         /\ QueuedPayloads = <<>> <=> packet_starts = <<>>
<1>1. packet_starts \in Seq(Slots)
  BY DEF Shape, TypeOK, FifoOK
<1> QED BY <1>1 DEF QueuedPayloads

(* A payload is accepted when an entry is pushed on the FIFOs. *)
LEMMA GrowthAccepts ==
  ASSUME Shape, NEW l \in 1..QSize, NEW P,
         Len(packet_starts) < MaxLen, UNCHANGED out, DOMAIN P = 1..l,
         QueuedPayloads' = Append(QueuedPayloads, P)
  PROVE  Abstract!Accept
<1> DEFINE N == Len(packet_starts)
           A == QueuedPayloads
<1>1. N \in Nat /\ Len(A) = N /\ A = [k \in 1..N |-> A[k]]
  BY QueueLength DEF QueuedPayloads
<1>2. P # <<>>
  BY SizeAssumption
<1> HIDE DEF A, N
<1>3. /\ Len(Append(A, P)) = N + 1 /\ SubSeq(Append(A, P), 1, N) = A
      /\ Append(A, P)[N + 1] = P
  BY <1>1
<1> QED BY <1>1, <1>2, <1>3 DEF A, N, Abstract!Accept

(* serial_callback() and urns_enqueue_outgoing() touch no queued payload. *)
LEMMA HostByteStutters ==
  ASSUME PlacedInv, HostByte PROVE UNCHANGED <<QueuedPayloads, out>>
<1>1. UNCHANGED <<packet_starts, packet_lengths, out>>
  BY DEF HostByte
<1>2. CASE HasRoom
  <2>1. /\ queued_bytes + 1 <= QSize /\ queue_cursor \in Slots
        /\ packet_queue \in [Slots -> Bytes]
    BY <1>2, Facts DEF HasRoom, PlacedInv, IInv, Shape, TypeOK, RingOK
  <2>2. ASSUME NEW c \in Slots, SlotIndex(c, queue_cursor) > 1
        PROVE  packet_queue'[c] = packet_queue[c]
    <3>1. c # queue_cursor
      BY <2>1, <2>2, SizeAssumption DEF SlotIndex, Slots
    <3> QED BY <1>2, <2>1, <3>1 DEF HostByte
  <2> QED BY <1>1, <2>1, <2>2, QueueUntouched
<1>3. CASE ~HasRoom
  BY <1>1, <1>3 DEF HostByte, QueuedPayloads, Payload
<1> QED BY <1>2, <1>3

(* A frame's closing FEND accepts it, or leaves the queue as it is. *)
LEMMA HostCloseAccepts ==
  ASSUME PlacedInv, HostClose PROVE Abstract!Accept \/ UNCHANGED <<QueuedPayloads, out>>
<1> DEFINE l == FrameLength(current_packet_start, queue_cursor)
<1>0. IInv /\ Shape
  BY DEF PlacedInv, IInv
<1>1. UNCHANGED <<packet_queue, out>>
  BY DEF HostClose
<1>2. CASE ~fifo16_isfull /\ queued_bytes < QSize /\ l >= MIN_L
  <2>1. /\ packet_starts' = Append(packet_starts, current_packet_start)
        /\ packet_lengths' = Append(packet_lengths, l)
    BY <1>2 DEF HostClose
  <2>2. /\ l \in 1..QSize /\ current_packet_start \in Slots
        /\ queued_bytes + 0 <= QSize /\ 0 \in Nat
    BY <1>0, <1>2, FrameLengthRange, Facts
  <2>3. Len(packet_starts) < MaxLen
    BY <1>0, <1>2, QueueLength, SizeAssumption DEF fifo16_isfull, Shape, FifosAgree
  <2> HIDE DEF l
  <2> DEFINE P == [i \in 1..l |-> packet_queue'[(current_packet_start + i - 1) % QSize]]
  <2>4. QueuedPayloads' = Append(QueuedPayloads, P)
    BY <1>1, <2>1, <2>2, QueueGrows
  <2>5. DOMAIN P = 1..l
    OBVIOUS
  <2> HIDE DEF P
  <2> QED BY <1>0, <1>1, <2>2, <2>3, <2>4, <2>5, GrowthAccepts
<1>3. CASE ~(~fifo16_isfull /\ queued_bytes < QSize /\ l >= MIN_L)
  <2>1. UNCHANGED <<packet_starts, packet_lengths>>
    BY <1>3 DEF HostClose
  <2> QED BY <1>1, <2>1 DEF QueuedPayloads, Payload
<1> QED BY <1>2, <1>3

(* What the onboard node writes, and that it touches nothing else. *)
LEMMA NodeWrites ==
  ASSUME PlacedInv, NEW n \in NodeLens, urns_enqueue_outgoing(n)
  PROVE  /\ n \in 1..QSize /\ n \in Nat /\ queued_bytes + n <= QSize /\ queue_cursor \in Slots
         /\ \A c \in Slots : SlotIndex(c, queue_cursor) > n => packet_queue'[c] = packet_queue[c]
         /\ \A i \in 1..n : packet_queue'[(queue_cursor + i - 1) % QSize]
                               = Byte("node", offered + 1, i, n)
         /\ QueuedPayloads' = Append(QueuedPayloads,
               [i \in 1..n |-> packet_queue'[(queue_cursor + i - 1) % QSize]])
<1>1. /\ n \in 1..QSize /\ n \in Nat /\ queued_bytes + n <= QSize /\ queue_cursor \in Slots
  BY InputAssumption, SizeAssumption, Facts DEF PlacedInv, urns_enqueue_outgoing, NodeFits
<1>2. /\ packet_starts' = Append(packet_starts, queue_cursor)
      /\ packet_lengths' = Append(packet_lengths, n)
      /\ packet_queue' = [c \in Slots |->
            IF SlotIndex(c, queue_cursor) <= n
            THEN Byte("node", offered + 1, SlotIndex(c, queue_cursor), n)
            ELSE packet_queue[c]]
  BY DEF urns_enqueue_outgoing
<1>3. ASSUME NEW c \in Slots, SlotIndex(c, queue_cursor) > n
      PROVE  packet_queue'[c] = packet_queue[c]
  <2>1. ~(SlotIndex(c, queue_cursor) <= n)
    BY <1>1, <1>3, SizeAssumption DEF SlotIndex, Slots
  <2> QED BY <1>2, <2>1
<1>4. ASSUME NEW i \in 1..n
      PROVE  packet_queue'[(queue_cursor + i - 1) % QSize] = Byte("node", offered + 1, i, n)
  <2>1. /\ (queue_cursor + i - 1) % QSize \in Slots
        /\ SlotIndex((queue_cursor + i - 1) % QSize, queue_cursor) = i
    BY <1>1, SlotIndexExact
  <2>2. i <= n
    BY <1>1
  <2> QED BY <1>2, <2>1, <2>2
<1>5. QueuedPayloads' = Append(QueuedPayloads,
         [i \in 1..n |-> packet_queue'[(queue_cursor + i - 1) % QSize]])
  BY <1>1, <1>2, <1>3, QueueGrows
<1> QED BY <1>1, <1>3, <1>4, <1>5

(* A packet of the onboard node is accepted. *)
LEMMA NodeAccepts ==
  ASSUME PlacedInv, NEW n \in NodeLens, urns_enqueue_outgoing(n) PROVE Abstract!Accept
<1> DEFINE P == [i \in 1..n |-> packet_queue'[(queue_cursor + i - 1) % QSize]]
<1>1. Shape /\ UNCHANGED out
  BY DEF PlacedInv, IInv, urns_enqueue_outgoing
<1>2. Len(packet_starts) < MaxLen
  BY <1>1 DEF urns_enqueue_outgoing, Shape, FifosAgree
<1>3. DOMAIN P = 1..n /\ n \in 1..QSize /\ QueuedPayloads' = Append(QueuedPayloads, P)
  BY NodeWrites
<1> HIDE DEF P
<1> QED BY <1>1, <1>2, <1>3, GrowthAccepts

(* pop_queue() takes the oldest payload. *)
LEMMA PopPops == ASSUME Shape, pop_queue PROVE Abstract!Pop
<1> DEFINE N == Len(packet_starts)
           P(k) == Payload(packet_starts[k], packet_lengths[k])
<1>1. /\ packet_starts # <<>> /\ packet_lengths # <<>> /\ UNCHANGED packet_queue
      /\ packet_starts' = Tail(packet_starts) /\ packet_lengths' = Tail(packet_lengths)
  BY PopFacts
<1>2. /\ packet_starts \in Seq(Slots) /\ packet_lengths \in Seq(1..QSize)
      /\ Len(packet_lengths) = N
  BY DEF Shape, TypeOK, FifoOK, FifosAgree
<1>3. Len(packet_starts') = N - 1 /\ N \in Nat /\ N # 0
  BY <1>1, <1>2, TailFacts
<1>4. \A k \in 1 .. N - 1 : /\ packet_starts'[k] = packet_starts[k + 1]
                            /\ packet_lengths'[k] = packet_lengths[k + 1]
  BY <1>1, <1>2, TailFacts
<1>5. QueuedPayloads' = [k \in 1 .. N - 1 |-> P(k + 1)]
  BY <1>1, <1>3, <1>4 DEF QueuedPayloads, Payload
<1>6. QueuedPayloads = [k \in 1..N |-> P(k)]
  BY DEF QueuedPayloads
<1>7. QueuedPayloads # <<>>
  BY <1>1, QueueLength
<1>8. out' = IF Fits(Head(QueuedPayloads)) THEN <<Head(QueuedPayloads)>> ELSE <<>>
  BY <1>1 DEF pop_queue
<1> HIDE DEF N, P
<1>9. QueuedPayloads' = Tail(QueuedPayloads)
  BY <1>3, <1>5, <1>6
<1> QED BY <1>7, <1>8, <1>9 DEF Abstract!Pop

(* hard_reset() loses what is queued. *)
LEMMA ResetResets == ASSUME Shape, ~should_flush, hard_reset PROVE Abstract!Reset
<1>1. /\ queue_height > 0 /\ out' = <<>> /\ packet_starts' = <<>>
  BY DEF hard_reset
<1>2. QueuedPayloads # <<>>
  BY <1>1, QueueLength DEF Shape, FifosAgree
<1>3. QueuedPayloads' = <<>>
  BY <1>1 DEF QueuedPayloads
<1> QED BY <1>1, <1>2, <1>3 DEF Abstract!Reset

(* Every step of the ring is a step of the queue of payloads. *)
LEMMA StepRefines ==
  ASSUME PolitelyLimited
  PROVE  PlacedInv /\ [Next]_vars => [Abstract!Next]_<<QueuedPayloads, out>>
<1> SUFFICES ASSUME PlacedInv, [Next]_vars
             PROVE  Abstract!Next \/ UNCHANGED <<QueuedPayloads, out>>
  OBVIOUS
<1>1. ~should_flush /\ Shape
  BY DEF PolitelyLimited, PlacedInv, IInv, Shape, TypeOK, RegimeOK
<1>2. CASE UNCHANGED vars
  BY <1>2 DEF vars, QueuedPayloads, Payload
<1>3. ASSUME NEW n \in HostLens, HostOpen(n) PROVE UNCHANGED <<QueuedPayloads, out>>
  BY <1>3 DEF HostOpen, QueuedPayloads, Payload
<1>4. CASE updateBitrate
  BY <1>4 DEF updateBitrate, QueuedPayloads, Payload
<1>5. CASE flush_queue
  BY <1>1, <1>5 DEF flush_queue
<1>6. CASE HostByte
  BY <1>6, HostByteStutters
<1>7. CASE HostClose
  BY <1>7, HostCloseAccepts DEF Abstract!Next
<1>8. ASSUME NEW n \in NodeLens, urns_enqueue_outgoing(n) PROVE Abstract!Next
  BY <1>8, NodeAccepts DEF Abstract!Next
<1>9. CASE pop_queue
  BY <1>1, <1>9, PopPops DEF Abstract!Next
<1>10. CASE hard_reset
  BY <1>1, <1>10, ResetResets DEF Abstract!Next
<1> QED BY <1>2, <1>3, <1>4, <1>5, <1>6, <1>7, <1>8, <1>9, <1>10 DEF Next

(* In the rate-limited regime, with a host that sends non-empty frames and  *)
(* asks before it sends, packet_queue, its two FIFOs and its counters        *)
(* implement a bounded queue of payloads: whatever serial_callback(),        *)
(* urns_enqueue_outgoing() and pop_queue() do, an accepted payload changes   *)
(* neither its bytes nor its place until it is transmitted.                  *)
THEOREM ImplementsPacketQueue ==
  ASSUME PolitelyLimited PROVE Spec => RefinesPacketQueue
<1>1. Init => Abstract!Init
  BY DEF Init, Abstract!Init, QueuedPayloads
<1>2. PlacedInv /\ [Next]_vars => PlacedInv'
  BY NextPlaced
<1>3. PlacedInv /\ [Next]_vars => [Abstract!Next]_<<QueuedPayloads, out>>
  BY StepRefines
<1> QED BY <1>1, <1>2, <1>3, InitPlaced, PTL DEF Spec, RefinesPacketQueue, Abstract!Spec

-----------------------------------------------------------------------------
(* What the ring holds while nothing of the host has been refused: the open *)
(* frame as far as it was sent, and whole frames behind it.                 *)
FrameStored ==
    /\ written - openedAt = frame.sent /\ frame.sent <= frame.len
    /\ \A i \in 1..frame.sent :
          packet_queue[(current_packet_start + i - 1) % QSize]
             = Byte("host", frame.id, i, frame.len)

QueueStored == \A k \in 1..Len(QueuedPayloads) : Whole(QueuedPayloads[k])

Stored == ~refused => FrameStored /\ QueueStored /\ HostFramesWhole

WholeInv == PlacedInv /\ Stored /\ refused \in BOOLEAN

(* All the bytes of one frame, in order, are a whole payload. *)
LEMMA BytesWhole ==
  ASSUME NEW src, NEW id, NEW l \in Nat, NEW P,
         P = [i \in 1..l |-> Byte(src, id, i, l)]
  PROVE  Whole(P)
<1> SUFFICES ASSUME NEW i \in 1..Len(P) PROVE P[i] = Byte(P[1].src, P[1].id, i, Len(P))
  BY DEF Whole
<1>1. Len(P) = l
  OBVIOUS
<1>2. P[i] = Byte(src, id, i, l) /\ P[1] = Byte(src, id, 1, l)
  BY <1>1
<1> QED BY <1>1, <1>2 DEF Byte

(* A queue that grows by a whole payload. *)
LEMMA GrowthStored ==
  ASSUME Shape, QueueStored, NEW P, Whole(P), QueuedPayloads' = Append(QueuedPayloads, P)
  PROVE  QueueStored'
<1> DEFINE N == Len(packet_starts)
           A == QueuedPayloads
<1>1. N \in Nat /\ Len(A) = N /\ A = [k \in 1..N |-> A[k]]
  BY QueueLength DEF QueuedPayloads
<1> HIDE DEF A, N
<1>2. /\ Len(Append(A, P)) = N + 1 /\ Append(A, P)[N + 1] = P
      /\ \A k \in 1..N : Append(A, P)[k] = A[k]
  BY <1>1
<1>3. \A k \in 1 .. N + 1 : k = N + 1 \/ k \in 1..N
  BY <1>1
<1>4. \A k \in 1..N : Whole(A[k])
  BY <1>1 DEF QueueStored, A
<1>5. \A k \in 1 .. N + 1 : Whole(Append(A, P)[k])
  BY <1>2, <1>3, <1>4
<1>6. QueueStored' <=> \A k \in 1..Len(Append(A, P)) : Whole(Append(A, P)[k])
  BY DEF QueueStored, A, Whole
<1> QED BY <1>2, <1>5, <1>6

(* Stored speaks only of these. *)
LEMMA StoredStays ==
  Stored /\ UNCHANGED <<frame, packet_queue, current_packet_start, QueuedPayloads, out,
                        written, openedAt, refused>>
  => Stored'
<1>1. FrameStored /\ UNCHANGED <<frame, packet_queue, current_packet_start, written, openedAt>>
      => FrameStored'
  BY DEF FrameStored
<1>2. QueueStored /\ UNCHANGED QueuedPayloads => QueueStored'
  BY DEF QueueStored, Whole
<1>3. HostFramesWhole /\ UNCHANGED <<refused, out>> => HostFramesWhole'
  BY DEF HostFramesWhole, Whole
<1> QED BY <1>1, <1>2, <1>3 DEF Stored

(* A frame begins with nothing stored. *)
LEMMA HostOpenStored ==
  ASSUME WholeInv, NEW n \in HostLens, HostOpen(n) PROVE Stored'
<1>1. /\ frame = NoFrame /\ frame' = [id |-> offered + 1, len |-> n, sent |-> 0]
      /\ UNCHANGED <<packet_queue, packet_starts, packet_lengths, current_packet_start, out,
                     written, openedAt, refused>>
  BY DEF HostOpen, IN_FRAME, history
<1>2. UNCHANGED QueuedPayloads
  BY <1>1 DEF QueuedPayloads, Payload
<1>3. n \in Nat
  BY InputAssumption
<1>4. FrameStored => FrameStored'
  BY <1>1, <1>3 DEF FrameStored, NoFrame
<1> QED BY <1>1, <1>2, <1>4 DEF WholeInv, Stored, QueueStored, HostFramesWhole, Whole

(* The next byte of the frame goes behind those stored before it. *)
LEMMA HostByteStored == ASSUME WholeInv, HostByte PROVE Stored'
<1> DEFINE s == current_packet_start
           d == written - openedAt
           b == Byte("host", frame.id, frame.sent + 1, frame.len)
<1> SUFFICES ASSUME ~refused' PROVE FrameStored' /\ QueueStored' /\ HostFramesWhole'
  BY DEF Stored
<1>1. ~refused /\ HasRoom
  BY DEF HostByte, WholeInv
<1>2. PlacedInv /\ IInv /\ FrameStored /\ QueueStored /\ HostFramesWhole
  BY <1>1 DEF WholeInv, PlacedInv, Stored
<1>3. UNCHANGED <<QueuedPayloads, out>>
  BY <1>2, HostByteStutters
<1>4. QueueStored' /\ HostFramesWhole'
  BY <1>2, <1>3, <1>1 DEF QueueStored, HostFramesWhole, Whole
<1>5. /\ frame.sent < frame.len
      /\ frame' = [frame EXCEPT !.sent = frame.sent + 1]
      /\ packet_queue' = [packet_queue EXCEPT ![queue_cursor] = b]
      /\ written' = written + 1
      /\ UNCHANGED <<current_packet_start, openedAt>>
  BY <1>1 DEF HostByte
<1>6. /\ frame \in [id : Nat, len : Nat, sent : Nat]
      /\ s \in Slots /\ queue_cursor \in Slots /\ written \in Nat /\ openedAt \in Nat
      /\ QSize \in Nat /\ queued_bytes \in Nat /\ packet_queue \in [Slots -> Bytes]
  BY <1>2, Facts DEF IInv, Shape, TypeOK, RingOK
<1>7. d \in Nat /\ d + 1 <= QSize /\ frame.sent = d
  BY <1>1, <1>2, <1>6, OpenCounted DEF HasRoom, FrameStored
<1>8. queue_cursor - s = d \/ queue_cursor - s + QSize = d
  BY <1>2 DEF IInv, Accounted, CursorTracks
<1>9. frame'.sent = d + 1 /\ frame'.id = frame.id /\ frame'.len = frame.len
  BY <1>5, <1>6, <1>7
<1>10. written' - openedAt' = d + 1
  BY <1>5, <1>6
<1> HIDE DEF s, d, b
<1>11. ASSUME NEW i \in 1 .. d + 1
       PROVE  packet_queue'[(s + i - 1) % QSize] = Byte("host", frame.id, i, frame.len)
  <2>1. CASE i = d + 1
    <3>1. PICK a \in Nat : a = s + i - 1
      BY <1>6, <1>7 DEF Slots
    <3>2. a % QSize = queue_cursor
      <4>1. a < QSize + QSize /\ QSize \in Nat \ {0}
        BY <1>6, <1>7, <2>1, <3>1 DEF Slots
      <4>2. a % QSize = IF a < QSize THEN a ELSE a - QSize
        BY <4>1, Wrapped
      <4>3. queue_cursor = IF a < QSize THEN a ELSE a - QSize
        BY <1>6, <1>7, <1>8, <2>1, <3>1 DEF Slots
      <4> QED BY <4>2, <4>3
    <3>3. packet_queue'[queue_cursor] = b
      BY <1>5, <1>6
    <3>4. b = Byte("host", frame.id, i, frame.len)
      BY <1>7, <2>1 DEF b
    <3> QED BY <3>1, <3>2, <3>3, <3>4
  <2>2. CASE i \in 1..d
    <3>1. /\ (s + i - 1) % QSize \in Slots
          /\ SlotIndex((s + i - 1) % QSize, queue_cursor) > 1
      BY <1>6, <1>7, <1>8, <2>2, SlotsApart
    <3>2. SlotIndex(queue_cursor, queue_cursor) = 1
      BY <1>6 DEF SlotIndex, Slots
    <3>3. packet_queue'[(s + i - 1) % QSize] = packet_queue[(s + i - 1) % QSize]
      BY <1>5, <1>6, <3>1, <3>2
    <3> QED BY <1>2, <1>7, <2>2, <3>3 DEF FrameStored, s
  <2>3. i = d + 1 \/ i \in 1..d
    BY <1>7
  <2> QED BY <2>1, <2>2, <2>3
<1>12. d + 1 <= frame.len
  BY <1>5, <1>6, <1>7
<1>13. FrameStored'
  BY <1>5, <1>9, <1>10, <1>11, <1>12 DEF FrameStored, s
<1> QED BY <1>4, <1>13

(* A frame that is accepted was stored from its first byte to its last. *)
LEMMA HostCloseStored == ASSUME WholeInv, HostClose PROVE Stored'
<1> DEFINE l == FrameLength(current_packet_start, queue_cursor)
<1> SUFFICES ASSUME ~refused' PROVE FrameStored' /\ QueueStored' /\ HostFramesWhole'
  BY DEF Stored
<1>1. /\ ~fifo16_isfull /\ queued_bytes < QSize /\ l >= MIN_L /\ ~refused
      /\ UNCHANGED <<packet_queue, out, written, refused>> /\ frame' = NoFrame
      /\ packet_starts' = Append(packet_starts, current_packet_start)
      /\ packet_lengths' = Append(packet_lengths, l)
      /\ openedAt' = written
      /\ frame.sent = frame.len /\ IN_FRAME
  BY DEF HostClose
<1>2. PlacedInv /\ IInv /\ Shape /\ FrameStored /\ QueueStored /\ HostFramesWhole
  BY <1>1 DEF WholeInv, PlacedInv, IInv, Stored
<1>3. /\ current_packet_start \in Slots /\ written \in Nat /\ openedAt \in Nat
      /\ frame \in [id : Nat, len : Nat, sent : Nat] /\ QSize \in Nat
  BY <1>2, Facts
<1>4. HostFramesWhole'
  BY <1>1, <1>2 DEF HostFramesWhole, Whole
<1>5. FrameStored'
  BY <1>1, <1>3 DEF FrameStored, NoFrame
<1>6. l = frame.len /\ l \in 1..QSize
  <2>1. openedAt < written
    BY <1>1, <1>2, <1>3 DEF IInv, Accounted, FrameStores
  <2>2. l = written - openedAt
    BY <1>2, <2>1, FrameLengthExact
  <2>3. written - openedAt = frame.len
    BY <1>1, <1>2 DEF FrameStored
  <2> QED BY <1>2, <2>2, <2>3, FrameLengthRange, Facts
<1> HIDE DEF l
<1> DEFINE P == [i \in 1..l |-> packet_queue'[(current_packet_start + i - 1) % QSize]]
<1>7. QueuedPayloads' = Append(QueuedPayloads, P)
  <2>1. queued_bytes + 0 <= QSize /\ 0 \in Nat
    BY <1>1, <1>2, Facts
  <2> QED BY <1>1, <1>2, <1>3, <1>6, <2>1, QueueGrows
<1>8. P = [i \in 1..l |-> Byte("host", frame.id, i, l)]
  BY <1>1, <1>2, <1>6 DEF FrameStored
<1>9. Whole(P)
  <2>1. l \in Nat
    BY <1>3, <1>6
  <2> HIDE DEF P
  <2> QED BY <1>8, <2>1, BytesWhole
<1> HIDE DEF P
<1>10. QueueStored'
  BY <1>2, <1>7, <1>9, GrowthStored
<1> QED BY <1>4, <1>5, <1>10

(* The onboard node stores a whole packet. *)
LEMMA NodeStored ==
  ASSUME WholeInv, NEW n \in NodeLens, urns_enqueue_outgoing(n) PROVE Stored'
<1> DEFINE P == [i \in 1..n |-> packet_queue'[(queue_cursor + i - 1) % QSize]]
<1> SUFFICES ASSUME ~refused' PROVE FrameStored' /\ QueueStored' /\ HostFramesWhole'
  BY DEF Stored
<1>1. /\ ~refused /\ frame = NoFrame /\ UNCHANGED <<frame, out, refused>>
      /\ written' = written + n /\ openedAt' = written + n
  BY DEF urns_enqueue_outgoing, MidFrame, IN_FRAME
<1>2. PlacedInv /\ Shape /\ QueueStored /\ HostFramesWhole /\ written \in Nat
  BY <1>1, Facts DEF WholeInv, PlacedInv, IInv, Stored
<1>3. HostFramesWhole'
  BY <1>1, <1>2 DEF HostFramesWhole, Whole
<1>4. /\ n \in Nat /\ QueuedPayloads' = Append(QueuedPayloads, P)
      /\ P = [i \in 1..n |-> Byte("node", offered + 1, i, n)]
  BY <1>2, NodeWrites
<1>5. FrameStored'
  BY <1>1, <1>2, <1>4 DEF FrameStored, NoFrame
<1> HIDE DEF P
<1>6. QueueStored'
  BY <1>2, <1>4, BytesWhole, GrowthStored
<1> QED BY <1>3, <1>5, <1>6

(* pop_queue() puts the oldest payload on air, which is whole. *)
LEMMA PopStored == ASSUME WholeInv, pop_queue PROVE Stored'
<1> SUFFICES ASSUME ~refused' PROVE FrameStored' /\ QueueStored' /\ HostFramesWhole'
  BY DEF Stored
<1>1. Shape /\ ~refused /\ refused' = refused
  BY DEF WholeInv, PlacedInv, IInv, pop_queue
<1>2. FrameStored /\ QueueStored
  BY <1>1 DEF WholeInv, Stored
<1>3. FrameStored'
  BY <1>1, <1>2, PopFacts DEF FrameStored
<1> DEFINE A == QueuedPayloads
           N == Len(packet_starts)
<1>4. N \in Nat /\ Len(A) = N /\ A = [k \in 1..N |-> A[k]]
  BY <1>1, QueueLength DEF QueuedPayloads
<1>5. A # <<>> /\ A' = Tail(A) /\ out' = IF Fits(Head(A)) THEN <<Head(A)>> ELSE <<>>
  BY <1>1, PopPops DEF Abstract!Pop
<1>6. \A k \in 1..N : Whole(A[k])
  BY <1>2, <1>4 DEF QueueStored
<1>7. QueueStored' <=> \A k \in 1..Len(A') : Whole(A'[k])
  BY DEF QueueStored, Whole
<1>8. HostFramesWhole' <=> (~refused' => \A k \in 1..Len(out') : Whole(out'[k]))
  BY DEF HostFramesWhole, Whole
<1> HIDE DEF A, N
<1>9. /\ Len(Tail(A)) = N - 1 /\ N # 0 /\ Head(A) = A[1]
      /\ \A k \in 1 .. N - 1 : Tail(A)[k] = A[k + 1] /\ k + 1 \in 1..N
  BY <1>4, <1>5
<1>10. QueueStored'
  BY <1>5, <1>6, <1>7, <1>9
<1>11. HostFramesWhole'
  <2>1. Whole(Head(A))
    BY <1>4, <1>6, <1>9
  <2>2. \A k \in 1..Len(out') : out'[k] = Head(A)
    BY <1>5
  <2> QED BY <1>8, <2>1, <2>2
<1> QED BY <1>3, <1>10, <1>11

(* After hard_reset() nothing is stored and nothing is on air. *)
LEMMA ResetStored == ASSUME ~should_flush, hard_reset PROVE Stored'
<1>1. /\ frame' = NoFrame /\ packet_starts' = <<>> /\ out' = <<>>
      /\ written' = 0 /\ openedAt' = 0
  BY DEF hard_reset
<1>2. FrameStored'
  BY <1>1 DEF FrameStored, NoFrame
<1>3. QueuedPayloads' = <<>>
  BY <1>1 DEF QueuedPayloads
<1> QED BY <1>1, <1>2, <1>3 DEF Stored, QueueStored, HostFramesWhole

(* Every step of a polite host and a rate-limited node keeps WholeInv. *)
LEMMA NextStored ==
  ASSUME PolitelyLimited PROVE WholeInv /\ [Next]_vars => WholeInv'
<1> SUFFICES ASSUME WholeInv, [Next]_vars PROVE WholeInv'
  OBVIOUS
<1>1. PlacedInv'
  BY NextPlaced DEF WholeInv
<1>2. ~should_flush
  BY DEF PolitelyLimited, WholeInv, PlacedInv, IInv, Shape, TypeOK, RegimeOK
<1>3. CASE UNCHANGED vars
  <2>1. UNCHANGED <<frame, packet_queue, current_packet_start, QueuedPayloads, out,
                    written, openedAt, refused>>
    BY <1>3 DEF vars, QueuedPayloads, Payload
  <2> QED BY <1>1, <2>1, StoredStays DEF WholeInv
<1>4. CASE updateBitrate
  <2>1. UNCHANGED <<frame, packet_queue, current_packet_start, QueuedPayloads, out,
                    written, openedAt, refused>>
    BY <1>4 DEF updateBitrate, history, QueuedPayloads, Payload
  <2> QED BY <1>1, <2>1, StoredStays DEF WholeInv
<1>5. ASSUME NEW n \in HostLens, HostOpen(n) PROVE WholeInv'
  BY <1>1, <1>5, HostOpenStored DEF WholeInv, HostOpen, history
<1>6. CASE HostByte
  <2>1. refused' \in BOOLEAN
    BY <1>6 DEF HostByte
  <2> QED BY <1>1, <1>6, <2>1, HostByteStored DEF WholeInv
<1>7. CASE HostClose
  <2>1. refused' \in BOOLEAN
    BY <1>7 DEF HostClose, WholeInv
  <2> QED BY <1>1, <1>7, <2>1, HostCloseStored DEF WholeInv
<1>8. ASSUME NEW n \in NodeLens, urns_enqueue_outgoing(n) PROVE WholeInv'
  BY <1>1, <1>8, NodeStored DEF WholeInv, urns_enqueue_outgoing
<1>9. CASE flush_queue
  BY <1>2, <1>9 DEF flush_queue
<1>10. CASE pop_queue
  BY <1>1, <1>10, PopStored DEF WholeInv, pop_queue
<1>11. CASE hard_reset
  BY <1>1, <1>2, <1>11, ResetStored DEF WholeInv, hard_reset
<1> QED BY <1>3, <1>4, <1>5, <1>6, <1>7, <1>8, <1>9, <1>10, <1>11 DEF Next

(* In the rate-limited regime, as long as nothing of a host that sends       *)
(* non-empty frames and asks before it sends was refused, every payload put  *)
(* on air is one frame of the host or one packet of the onboard node, whole  *)
(* and in order, however bytes, packets, drains and resets interleave.       *)
THEOREM FramesAlwaysWhole ==
  ASSUME PolitelyLimited PROVE Spec => []HostFramesWhole
<1>1. Init => WholeInv
  <2> SUFFICES ASSUME Init PROVE WholeInv
    OBVIOUS
  <2>1. PlacedInv
    BY InitPlaced
  <2>2. FrameStored
    BY DEF Init, FrameStored, NoFrame
  <2>3. QueuedPayloads = <<>>
    BY DEF Init, QueuedPayloads
  <2>4. out = <<>> /\ refused \in BOOLEAN
    BY DEF Init
  <2>5. QueueStored /\ HostFramesWhole
    BY <2>3, <2>4 DEF QueueStored, HostFramesWhole
  <2> QED BY <2>1, <2>2, <2>4, <2>5 DEF WholeInv, Stored
<1>2. WholeInv /\ [Next]_vars => WholeInv'
  BY NextStored
<1>3. WholeInv => HostFramesWhole
  BY DEF WholeInv, Stored, HostFramesWhole
<1> QED BY <1>1, <1>2, <1>3, PTL DEF Spec
=============================================================================
