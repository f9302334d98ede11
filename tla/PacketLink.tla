----------------------------- MODULE PacketLink -----------------------------
(***************************************************************************)
(* Packets over LoRa frames: transmit() cuts a packet that does not fit    *)
(* one frame into frames that carry the same random sequence number, and   *)
(* receive_callback() of another node puts them together again in pbuf and *)
(* hands the packet to loop() through modem_packet_queue; loop() copies it *)
(* back to pbuf and writes it to the host.                                 *)
(*                                                                         *)
(* On SX1262 boards the DIO0 interrupt is deferred and receive_callback()  *)
(* runs in loop(), before the queue is drained (Deferred).  On the other   *)
(* modems it runs in the interrupt, at any point of loop().                *)
(*                                                                         *)
(* A byte of a packet is <<packet, position>>.  A frame is its header, a   *)
(* sequence number and the split flag, and its payload.  The modem reports *)
(* only frames whose CRC is right; others are lost.                        *)
(***************************************************************************)
EXTENDS Integers, Sequences, SequencesExt

CONSTANTS
    Senders,        \* nodes heard by the receiver
    Sizes,          \* packet sizes
    FrameMax,       \* payload of a frame: SINGLE_MTU - HEADER_L
    MTU,            \* size of pbuf
    Seqs,           \* values of the sequence nibble
    QueueSize,      \* MODEM_QUEUE_SIZE
    Deferred,       \* is DIO0 handled in loop()?  A subset of BOOLEAN
    Promisc,        \* modes of the receiver, a subset of BOOLEAN
    MaxPackets,     \* bound on the packets sent to a deferring receiver
    MaxInterrupting \* and to one that receives in the interrupt

ASSUME PacketLinkAssumption ==
    /\ {FrameMax, MTU, QueueSize, MaxPackets, MaxInterrupting} \subseteq Nat \ {0}
    /\ 2 * FrameMax <= MTU
    /\ Sizes \subseteq 1..MTU
    /\ Seqs \subseteq Nat \ {0}     \* 0 stands for SEQ_UNSET, which no nibble is
    /\ Promisc \subseteq BOOLEAN /\ Promisc # {}
    /\ Deferred \subseteq BOOLEAN /\ Deferred # {}

VARIABLES
    packets,        \* the packets sent: sender, size and sequence number
    air,            \* air[s]: frames s has still to send
    deferred, promisc, seq, read_len, pbuf,
    modem_packet_queue,
    pc,             \* where loop() is: "top", "drain" or "write"
    host_write_len,
    host,           \* what the host was given
    (* History *)
    lost,           \* a frame was lost, or two nodes were on air at once
    failed          \* malloc() failed

vars == <<packets, air, deferred, promisc, seq, read_len, pbuf,
          modem_packet_queue, pc, host_write_len, host, lost, failed>>
receiver == <<deferred, promisc, failed, seq, read_len, pbuf, modem_packet_queue>>

SEQ_UNSET == 0
Blank == <<0, 0>>

(* The packet as its sender has it. *)
Bytes(p) == [i \in 1..packets[p].size |-> <<p, i>>]

-----------------------------------------------------------------------------
Init ==
    /\ packets = <<>> /\ air = [s \in Senders |-> <<>>]
    /\ deferred \in Deferred /\ promisc \in Promisc
    /\ lost = FALSE /\ failed = FALSE
    /\ seq = SEQ_UNSET /\ read_len = 0 /\ pbuf = [i \in 1..MTU |-> Blank]
    /\ modem_packet_queue = <<>> /\ pc = "top" /\ host_write_len = 0
    /\ host = <<>>

-----------------------------------------------------------------------------
(* The frames of packet p.  A frame of a split packet is closed, and the    *)
(* next one opened, as soon as it is full.                                  *)
Frames(p, size, sequence) ==
    LET split == size > FrameMax
        count == IF split THEN size \div FrameMax + 1 ELSE 1
        from(k) == (k - 1) * FrameMax
    IN  [k \in 1..count |->
           [split |-> split, seq |-> sequence,
            data  |-> [i \in 1 .. (IF k * FrameMax <= size THEN FrameMax ELSE size - from(k))
                         |-> <<p, from(k) + i>>]]]

(* A node draws a sequence number and sends a packet. *)
transmit(s, size, sequence) ==
    /\ Len(packets) < IF deferred THEN MaxPackets ELSE MaxInterrupting
    /\ air[s] = <<>>
    /\ lost' = (lost \/ \E o \in Senders : air[o] # <<>>)
    /\ packets' = Append(packets, [sender |-> s, size |-> size, seq |-> sequence])
    /\ air' = [air EXCEPT ![s] = Frames(Len(packets) + 1, size, sequence)]
    /\ UNCHANGED <<receiver, pc, host_write_len, host>>

(* Collision, CRC error, or a modem not listening. *)
Lose(s) ==
    /\ air[s] # <<>> /\ lost' = TRUE
    /\ air' = [air EXCEPT ![s] = Tail(@)]
    /\ UNCHANGED <<packets, receiver, pc, host_write_len, host>>

-----------------------------------------------------------------------------
(* getPacketData: pbuf once `data` is read to it from position `start` on. *)
Filled(data, start) ==
    [i \in 1..MTU |-> IF i - start \in DOMAIN data THEN data[i - start] ELSE pbuf[i]]

(* Where a frame's payload goes: a second part follows the first; an unsplit *)
(* frame clears a split packet that was begun, and is otherwise read from    *)
(* read_len on.                                                              *)
Bug_split_not_cleared(f) == IF f.split /\ seq # f.seq THEN 0 ELSE read_len
ReadFrom(f) ==
    IF f.split
    THEN IF seq = f.seq THEN read_len ELSE 0
    ELSE IF seq # SEQ_UNSET THEN 0 ELSE read_len

(* The sequence number waited for after a frame. *)
Bug_number_kept(f) == IF f.split THEN f.seq ELSE SEQ_UNSET
NextSeq(f) == IF f.split /\ seq # f.seq THEN f.seq ELSE SEQ_UNSET

Completes(f) == ~f.split \/ seq = f.seq

(* A full queue drops the packet; without memory for it receive_callback() *)
(* returns before it resets read_len.                                      *)
QueueHasRoom == Len(modem_packet_queue) < QueueSize

Bug_length_kept(packet) == Len(packet)
LengthAfter(packet) == 0

Enqueue(packet) ==
    \/ /\ read_len' = LengthAfter(packet)
       /\ modem_packet_queue' = IF QueueHasRoom
                                THEN Append(modem_packet_queue, packet)
                                ELSE modem_packet_queue
       /\ UNCHANGED failed
    \/ /\ failed' = TRUE
       /\ read_len' = Len(packet)
       /\ UNCHANGED modem_packet_queue

(* A frame with its header, as promiscuous mode hands it on. *)
Raw(f) == <<<<0, f.seq>>>> \o f.data

receive_callback(f) ==
    LET data  == IF promisc THEN Raw(f) ELSE f.data
        start == IF promisc THEN 0 ELSE ReadFrom(f)
        size  == IF start + Len(data) < MTU THEN start + Len(data) ELSE MTU
    IN  /\ pbuf' = Filled(data, start)
        /\ seq' = IF promisc THEN seq ELSE NextSeq(f)
        /\ IF promisc \/ Completes(f)
           THEN Enqueue(SubSeq(pbuf', 1, size))
           ELSE read_len' = size /\ UNCHANGED <<failed, modem_packet_queue>>
        /\ UNCHANGED <<deferred, promisc>>

Receive(s) ==
    /\ air[s] # <<>>
    /\ receive_callback(Head(air[s]))
    /\ air' = [air EXCEPT ![s] = Tail(@)]
    /\ UNCHANGED <<packets, host_write_len, host, lost>>

(* handleDio0IfPending() at the top of loop(): a no-op on other modems. *)
handleDio0IfPending(s) == deferred /\ pc = "top" /\ pc' = "drain" /\ Receive(s)
NothingPending ==
    /\ pc = "top" /\ pc' = "drain"
    /\ UNCHANGED <<packets, air, receiver, host_write_len, host, lost>>

(* The interrupt of the other modems. *)
onDio0Rise(s) == ~deferred /\ UNCHANGED pc /\ Receive(s)

(* loop() takes one packet from the queue to pbuf ... *)
Bug_peeks == modem_packet_queue
Dequeued == Tail(modem_packet_queue)

Drain ==
    /\ pc = "drain" /\ modem_packet_queue # <<>>
    /\ modem_packet_queue' = Dequeued
    /\ pbuf' = [i \in 1..MTU |-> IF i \in DOMAIN Head(modem_packet_queue)
                                 THEN Head(modem_packet_queue)[i] ELSE pbuf[i]]
    /\ host_write_len' = Len(Head(modem_packet_queue))
    /\ pc' = "write"
    /\ UNCHANGED <<packets, air, deferred, promisc, failed, seq, read_len, host, lost>>

NothingQueued ==
    /\ pc = "drain" /\ modem_packet_queue = <<>> /\ pc' = "top"
    /\ UNCHANGED <<packets, air, receiver, host_write_len, host, lost>>

(* ... and writes it to the host from there. *)
kiss_write_packet ==
    /\ pc = "write" /\ pc' = "top"
    /\ host' = Append(host, SubSeq(pbuf, 1, host_write_len))
    /\ host_write_len' = 0
    /\ UNCHANGED <<packets, air, receiver, lost>>

Loop == NothingPending \/ Drain \/ NothingQueued \/ kiss_write_packet
Arrival == \E s \in Senders : handleDio0IfPending(s) \/ onDio0Rise(s)

Next ==
    \/ \E s \in Senders, size \in Sizes, q \in Seqs : transmit(s, size, q)
    \/ \E s \in Senders : Lose(s)
    \/ Arrival
    \/ Loop

Spec == Init /\ [][Next]_vars

(* loop() keeps running, and frames that are sent arrive. *)
LiveSpec == Spec /\ WF_vars(Loop) /\ SF_vars(Arrival)

-----------------------------------------------------------------------------
TypeOK ==
    /\ packets \in Seq([sender : Senders, size : Sizes, seq : Seqs])
    /\ deferred \in Deferred /\ promisc \in Promisc
    /\ {lost, failed} \subseteq BOOLEAN
    /\ seq \in Seqs \union {SEQ_UNSET}
    /\ read_len \in 0..MTU /\ host_write_len \in 0..MTU
    /\ Len(modem_packet_queue) <= QueueSize
    /\ pc \in {"top", "drain", "write"}

Split(p) == packets[p].size > FrameMax
AllSplit == \A p \in DOMAIN packets : Split(p)
NoneSplit == \A p \in DOMAIN packets : ~Split(p)

(* The nibble tells split packets apart. *)
DistinctSeqs ==
    \A p, q \in DOMAIN packets :
        p # q /\ Split(p) /\ Split(q) => packets[p].seq # packets[q].seq

(* "exactly two chunks (matches its 254-byte payload cap fitting the 508 MTU  *)
(* in two)" (ESPNOW.h): receive_callback() and loop() of an SX1262 board give *)
(* the host only what one node sent as one packet, whole, however frames of   *)
(* several nodes are lost and interleaved (in promiscuous mode: one whole     *)
(* frame).  Memory may run out among split packets.  Sizes has no packet that *)
(* fills two frames: transmit() opens a third, empty one for it, and a        *)
(* receiver that missed the first takes the other two for a packet.           *)
HostGetsWholePackets ==
    deferred /\ DistinctSeqs /\ (failed => AllSplit) =>
    \A k \in DOMAIN host : \E p \in DOMAIN packets :
        IF promisc
        THEN \E f \in ToSet(Frames(p, packets[p].size, packets[p].seq)) : host[k] = Raw(f)
        ELSE host[k] = Bytes(p)

(* receive_callback() queues only whole packets of one frame, even when it   *)
(* interrupts loop() while that uses the same buffer.                        *)
QueuedPacketsWhole ==
    ~promisc /\ ~failed /\ NoneSplit =>
    \A k \in DOMAIN modem_packet_queue : \E p \in DOMAIN packets :
        modem_packet_queue[k] = Bytes(p)

(* Packets of one node leave modem_packet_queue for the host in the order    *)
(* sent, none twice.                                                         *)
DeliveredInOrder ==
    deferred /\ ~promisc /\ ~failed /\ DistinctSeqs =>
    \A j, k \in DOMAIN host :
        LET p == host[j][Len(host[j])][1]
            q == host[k][Len(host[k])][1]
        IN  j < k /\ packets[p].sender = packets[q].sender => p < q

(* If no frame is lost, receive_callback() and loop() of an SX1262 board     *)
(* bring every packet to the host, even if successive packets draw the same  *)
(* sequence number.                                                          *)
AllDelivered ==
    \A p \in 1..MaxPackets :
        p \in DOMAIN packets /\ deferred /\ ~promisc
          ~> lost \/ failed \/ (p \in DOMAIN packets /\ Bytes(p) \in ToSet(host))
=============================================================================
