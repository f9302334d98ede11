------------------------------ MODULE TxQueue ------------------------------
(***************************************************************************)
(* The LoRa transmit queue of RNode_Firmware.ino.                          *)
(*                                                                         *)
(* Payload bytes live in a circular byte buffer, packet_queue; two FIFOs,  *)
(* packet_starts and packet_lengths, say where each queued packet begins   *)
(* and how long it is.  Two producers fill the buffer: the host, one byte  *)
(* at a time through the KISS parser (serial_callback, CMD_DATA), and the  *)
(* onboard Reticulum node, a packet at a time (urns_enqueue_outgoing).     *)
(* One consumer, tx_queue_handler, empties it through flush_queue or       *)
(* pop_queue.  All three run on the one loop() thread, so a step below is  *)
(* a whole call, but loop() runs between any two bytes of a host frame.    *)
(*                                                                         *)
(* When the consumer may run is decided in module Csma; here it may run    *)
(* whenever the queue is not empty.                                        *)
(***************************************************************************)
EXTENDS Integers, Sequences, SequencesExt, FiniteSets

CONSTANTS
    QSize,      \* CONFIG_QUEUE_SIZE: bytes in packet_queue
    MaxLen,     \* CONFIG_QUEUE_MAX_LENGTH: entries in each FIFO
    MTU,        \* longest payload transmit() is given
    HostLens,   \* payload lengths of the frames the host sends
    NodeLens,   \* payload lengths of the packets the onboard node sends
    Regimes,    \* values !lora_limit_rate && !lora_guard_rate can take
    HostGate,   \* when the host opens a frame: "any", "ready" or "room"
    U8, U16,    \* values of a uint8_t and of a uint16_t: 2^8 and 2^16
    MaxFrames   \* bound: frames and packets offered in one behaviour

ASSUME SizeAssumption ==
    /\ QSize \in Nat /\ MTU \in Nat /\ MaxLen \in Nat /\ MaxFrames \in Nat
    /\ U8 \in Nat /\ U16 \in Nat
    /\ 1 <= MTU /\ MTU <= QSize /\ QSize < U16
    /\ 1 <= MaxLen /\ MaxLen < U8

ASSUME InputAssumption ==
    /\ HostLens \subseteq Nat
    /\ NodeLens \subseteq 1..MTU
    /\ Regimes \subseteq BOOLEAN /\ Regimes # {}
    /\ HostGate \in {"any", "ready", "room"}

MIN_L == 1              \* shortest payload accepted

VARIABLES
    frame,          \* the CMD_DATA frame being assembled, or NoFrame
    packet_queue,   \* the circular buffer
    queue_cursor,   \* next byte to write
    current_packet_start,
    packet_starts, packet_lengths,
    queue_height, queued_bytes,
    should_flush,   \* the radio's rate regime
    out,            \* payloads put on air by the latest transmission
    offered,        \* frames and packets offered so far
    (* History: positions in the endless stream of stored bytes. *)
    written,        \* bytes ever stored
    openedAt,       \* stream position of current_packet_start
    startedAt,      \* stream position of each queued packet
    refused         \* a byte or a frame of the host was refused

vars == <<frame, packet_queue, queue_cursor, current_packet_start,
          packet_starts, packet_lengths, queue_height, queued_bytes,
          should_flush, out, offered, written, openedAt, startedAt, refused>>

history == <<written, openedAt, startedAt, refused>>

-----------------------------------------------------------------------------
(* A byte is known by the frame it came from and its place in it.          *)
Sources == {"host", "node", "none"}
Bytes == [src : Sources, id : Nat, pos : Nat, of : Nat]
Blank == [src |-> "none", id |-> 0, pos |-> 0, of |-> 0]
Byte(s, f, i, n) == [src |-> s, id |-> f, pos |-> i, of |-> n]

(* sent: payload bytes of the frame received so far, out of len. *)
NoFrame == [id |-> 0, len |-> 0, sent |-> 0]
IN_FRAME == frame # NoFrame

Slots == 0 .. QSize - 1
Bug_no_wrap(c) == c
Wrap(c) == IF c = QSize THEN 0 ELSE c

Bug_isfull_late == Len(packet_starts) = MaxLen + 1
fifo16_isfull == Len(packet_starts) = MaxLen

(* What serial_callback checks before it stores a payload byte. *)
Bug_room_by_height == queue_height < MaxLen
HasRoom == queue_height < MaxLen /\ queued_bytes < QSize

queue_full == queue_height >= MaxLen \/ queued_bytes >= QSize

(* The payload tx_queue_handler copies into tbuf for one FIFO entry. *)
Payload(s, l) == [i \in 1..l |-> packet_queue[(s + i - 1) % QSize]]

QueuedPayloads ==
    [k \in 1..Len(packet_starts) |-> Payload(packet_starts[k], packet_lengths[k])]

(* Both drains hand transmit() only what fits the MTU. *)
Fits(p) == Len(p) >= MIN_L /\ Len(p) <= MTU

-----------------------------------------------------------------------------
Init ==
    /\ frame = NoFrame
    /\ packet_queue = [c \in Slots |-> Blank]
    /\ queue_cursor = 0
    /\ current_packet_start = 0
    /\ packet_starts = <<>>
    /\ packet_lengths = <<>>
    /\ queue_height = 0
    /\ queued_bytes = 0
    /\ should_flush \in Regimes
    /\ out = <<>>
    /\ offered = 0
    /\ written = 0
    /\ openedAt = 0
    /\ startedAt = <<>>
    /\ refused = FALSE

(* When a host opens a frame of n bytes.  "ready": it asked CMD_READY       *)
(* first; "room": it keeps its own count and never overloads the node.     *)
HostMayOpen(n) ==
    CASE HostGate = "any"   -> TRUE
      [] HostGate = "ready" -> ~queue_full
      [] HostGate = "room"  -> queue_height < MaxLen /\ queued_bytes + n < QSize

(* FEND, then the CMD_DATA command byte. *)
HostOpen(n) ==
    /\ ~IN_FRAME
    /\ offered < MaxFrames
    /\ HostMayOpen(n)
    /\ offered' = offered + 1
    /\ frame' = [id |-> offered + 1, len |-> n, sent |-> 0]
    /\ UNCHANGED <<packet_queue, queue_cursor, current_packet_start,
                   packet_starts, packet_lengths, queue_height, queued_bytes,
                   should_flush, out, history>>

(* One unescaped payload byte: stored if there is room, dropped silently    *)
(* if there is not.                                                         *)
HostByte ==
    /\ IN_FRAME
    /\ frame.sent < frame.len
    /\ frame' = [frame EXCEPT !.sent = frame.sent + 1]
    /\ refused' = (refused \/ ~HasRoom)
    /\ IF HasRoom
       THEN /\ queued_bytes' = queued_bytes + 1
            /\ packet_queue' = [packet_queue EXCEPT ![queue_cursor] =
                  Byte("host", frame.id, frame.sent + 1, frame.len)]
            /\ queue_cursor' = Wrap(queue_cursor + 1)
            /\ written' = written + 1
       ELSE UNCHANGED <<queued_bytes, packet_queue, queue_cursor, written>>
    /\ UNCHANGED <<current_packet_start, packet_starts, packet_lengths,
                   queue_height, should_flush, out, offered, openedAt, startedAt>>

(* The length serial_callback computes at the closing FEND from the first   *)
(* and the last slot of the frame.                                          *)
FrameLength(s, c) ==
    LET e == IF c = 0 THEN QSize - 1 ELSE c - 1
    IN  IF s = e THEN 1
        ELSE IF s < e THEN e - s + 1
        ELSE QSize - s + e + 1

(* The closing FEND: queue what was stored, or leave it lying where it is. *)
HostClose ==
    /\ IN_FRAME
    /\ frame.sent = frame.len
    /\ frame' = NoFrame
    /\ LET l == FrameLength(current_packet_start, queue_cursor)
       IN  IF ~fifo16_isfull /\ queued_bytes < QSize /\ l >= MIN_L
           THEN /\ UNCHANGED refused
                /\ queue_height' = queue_height + 1
                /\ packet_starts' = Append(packet_starts, current_packet_start)
                /\ packet_lengths' = Append(packet_lengths, l)
                /\ startedAt' = Append(startedAt, openedAt)
                /\ current_packet_start' = queue_cursor
                /\ openedAt' = written
           ELSE /\ refused' = TRUE
                /\ UNCHANGED <<queue_height, packet_starts, packet_lengths,
                               startedAt, current_packet_start, openedAt>>
    /\ UNCHANGED <<packet_queue, queue_cursor, queued_bytes, should_flush,
                   out, offered, written>>

(* The slots a packet of n bytes takes from the cursor on. *)
SlotIndex(c, from) == IF c >= from THEN c - from + 1 ELSE c - from + QSize + 1

(* The two checks of urns_enqueue_outgoing that protect the host's bytes:  *)
(* no frame half assembled, and room for the whole packet.                 *)
Bug_never_mid_frame == FALSE
MidFrame == IN_FRAME

Bug_fits_by_height(n) == n > 0
NodeFits(n) == queued_bytes + n <= QSize

(* The onboard node queues a packet; every refusal is an early return. *)
urns_enqueue_outgoing(n) ==
    /\ ~MidFrame
    /\ MIN_L <= n /\ n <= MTU
    /\ ~fifo16_isfull /\ queue_height < MaxLen
    /\ NodeFits(n)
    /\ offered < MaxFrames
    /\ offered' = offered + 1
    /\ packet_queue' = [c \in Slots |->
          IF SlotIndex(c, queue_cursor) <= n
          THEN Byte("node", offered + 1, SlotIndex(c, queue_cursor), n)
          ELSE packet_queue[c]]
    /\ queue_cursor' = IF queue_cursor + n >= QSize
                       THEN queue_cursor + n - QSize ELSE queue_cursor + n
    /\ queued_bytes' = queued_bytes + n
    /\ queue_height' = queue_height + 1
    /\ packet_starts' = Append(packet_starts, queue_cursor)
    /\ packet_lengths' = Append(packet_lengths, n)
    /\ current_packet_start' = queue_cursor'
    /\ written' = written + n
    /\ startedAt' = Append(startedAt, written)
    /\ openedAt' = written + n
    /\ UNCHANGED <<frame, should_flush, out, refused>>

(* Transmit every queued packet, then reset both counters.  A host frame    *)
(* may be half assembled at this moment.                                    *)
flush_queue ==
    /\ should_flush
    /\ queue_height > 0
    /\ out' = SelectSeq(QueuedPayloads, Fits)
    /\ packet_starts' = <<>>
    /\ packet_lengths' = <<>>
    /\ startedAt' = <<>>
    /\ queue_height' = 0
    /\ queued_bytes' = 0
    /\ UNCHANGED <<frame, packet_queue, queue_cursor, current_packet_start,
                   should_flush, offered, written, openedAt, refused>>

(* The counter after a packet of l bytes has left, in uint16_t arithmetic. *)
Bug_not_uncounted(l) == queued_bytes
Uncounted(l) == (queued_bytes - l) % U16

(* Transmit the oldest packet only. *)
pop_queue ==
    /\ ~should_flush
    /\ queue_height > 0
    /\ IF packet_starts = <<>>
       THEN UNCHANGED <<out, packet_starts, packet_lengths, startedAt,
                        queue_height, queued_bytes>>
       ELSE /\ out' = IF Fits(Head(QueuedPayloads)) THEN <<Head(QueuedPayloads)>> ELSE <<>>
            /\ packet_starts' = Tail(packet_starts)
            /\ packet_lengths' = Tail(packet_lengths)
            /\ startedAt' = Tail(startedAt)
            /\ queue_height' = (queue_height - 1) % U8
            /\ queued_bytes' = Uncounted(Head(packet_lengths))
    /\ UNCHANGED <<frame, packet_queue, queue_cursor, current_packet_start,
                   should_flush, offered, written, openedAt, refused>>

(* updateBitrate: a new bandwidth, spreading factor or coding rate moves    *)
(* the radio between the flushing and the rate-limited regime.              *)
updateBitrate ==
    /\ should_flush' \in Regimes \ {should_flush}
    /\ UNCHANGED <<frame, packet_queue, queue_cursor, current_packet_start,
                   packet_starts, packet_lengths, queue_height, queued_bytes,
                   out, offered, history>>

(* endPacket() timed out on some packet of the drain, the first one or a    *)
(* later one of a flush: transmit() calls hard_reset() and the node comes   *)
(* back with everything cleared.                                            *)
hard_reset ==
    /\ queue_height > 0
    /\ \/ out' = <<>>
       \/ /\ should_flush
          /\ \E k \in 1 .. Len(packet_starts) - 1 :
                out' = SelectSeq(SubSeq(QueuedPayloads, 1, k), Fits)
    /\ frame' = NoFrame
    /\ packet_queue' = [c \in Slots |-> Blank]
    /\ queue_cursor' = 0
    /\ current_packet_start' = 0
    /\ packet_starts' = <<>>
    /\ packet_lengths' = <<>>
    /\ queue_height' = 0
    /\ queued_bytes' = 0
    /\ written' = 0
    /\ openedAt' = 0
    /\ startedAt' = <<>>
    /\ refused' = FALSE
    /\ UNCHANGED <<should_flush, offered>>

Transmit == flush_queue \/ pop_queue

Next ==
    \/ \E n \in HostLens : HostOpen(n)
    \/ HostByte
    \/ HostClose
    \/ \E n \in NodeLens : urns_enqueue_outgoing(n)
    \/ flush_queue
    \/ pop_queue
    \/ updateBitrate
    \/ hard_reset

Spec == Init /\ [][Next]_vars

(* loop() runs for ever and calls tx_queue_handler on every pass; Csma      *)
(* shows that it does not hold a packet back for ever while the medium is   *)
(* free again and again.  A host completes a frame it has begun.            *)
Fairness == WF_vars(Transmit) /\ WF_vars(HostByte \/ HostClose)

LiveSpec == Spec /\ Fairness

-----------------------------------------------------------------------------
FrameOK == frame \in [id : Nat, len : Nat, sent : Nat] /\ offered \in Nat
RegimeOK == should_flush \in Regimes
RingOK == packet_queue \in [Slots -> Bytes]
CursorOK == queue_cursor \in Slots /\ current_packet_start \in Slots
FifoOK == packet_starts \in Seq(Slots) /\ packet_lengths \in Seq(1..QSize)
CountersOK == queue_height \in 0 .. U8 - 1 /\ queued_bytes \in 0 .. U16 - 1
HistoryOK == written \in Nat /\ openedAt \in Nat /\ startedAt \in Seq(Nat)

(* Every index stays in its buffer and every counter in its C type. *)
TypeOK ==
    /\ FrameOK
    /\ RegimeOK
    /\ RingOK
    /\ CursorOK
    /\ FifoOK
    /\ CountersOK
    /\ HistoryOK

(* The height counter and the two FIFOs, updated by four different pieces   *)
(* of code, always agree, and never exceed what the FIFO buffers hold:      *)
(* fifo16_push does no bounds check of its own.                             *)
FifosAgree ==
    /\ Len(packet_lengths) = Len(packet_starts)
    /\ queue_height = Len(packet_starts)
    /\ queue_height <= MaxLen

(* Where the bytes still needed begin: the oldest queued packet, or the     *)
(* frame being assembled.                                                   *)
OldestByte == IF startedAt = <<>> THEN openedAt ELSE startedAt[1]

(* queued_bytes, which is all that protects the ring, never promises more   *)
(* room than there is and never wraps below zero: the bytes between the     *)
(* oldest one still needed and the cursor are all counted.                  *)
RingAccounted ==
    /\ queued_bytes <= QSize
    /\ written - OldestByte <= queued_bytes

(* A payload is whole if it is all the bytes of one frame, in order. *)
Whole(p) == \A i \in 1..Len(p) : p[i] = Byte(p[1].src, p[1].id, i, Len(p))

(* While the host overloads nothing, every payload put on air is one frame,  *)
(* whole: the node's packets, the drains and the rate changes never cut into *)
(* a frame that serial_callback is storing.                                  *)
HostFramesWhole == ~refused => \A k \in 1..Len(out) : Whole(out[k])

(* "Checking `command` too narrows this to the one case that's actually     *)
(* unsafe" (urns_enqueue_outgoing): whenever the node is let in, what is    *)
(* queued already keeps its bytes.                                          *)
NodeLeavesQueued ==
    [][(\E n \in NodeLens : urns_enqueue_outgoing(n))
         => SubSeq(QueuedPayloads', 1, Len(QueuedPayloads)) = QueuedPayloads]_vars

(* serial_callback answers CMD_READY only while the queue is not full: a host *)
(* that overloads nothing and gets no answer is answered later.              *)
ReadyAgain == (queue_full /\ ~refused) ~> (~queue_full \/ refused)

(* "drop and let Reticulum re-announce/retry later" (urns_enqueue_outgoing): *)
(* a queue that is full, and refuses the node's packets, is not so for ever. *)
RetrySucceeds == queue_full ~> ~queue_full

(* Refinement: seen through its FIFOs, the ring is a bounded queue of       *)
(* payloads that change neither their bytes nor their order once accepted.  *)
Abstract == INSTANCE PacketQueue WITH queue <- QueuedPayloads, Fits <- Fits
RefinesPacketQueue == Abstract!Spec
=============================================================================
