------------------------------- MODULE EspNow -------------------------------
(***************************************************************************)
(* Packets over ESP-NOW (ESPNOW.h).  espnow_send() cuts a packet into      *)
(* chunks and queues them; update_espnow_tx(), called from loop(), hands   *)
(* the WiFi driver one chunk at a time and waits for espnow_send_cb().     *)
(* espnow_recv_cb() of another node puts the chunks together and delivers  *)
(* the packet twice: to the onboard Reticulum node, through a staging slot *)
(* (URNS.h), and to the host, through espnow_packet_queue.                 *)
(*                                                                         *)
(* Both callbacks run in the WiFi driver's task, between any two steps of  *)
(* loop().  Frames are broadcast and never retried; the receiver keeps one *)
(* reassembly buffer for all the nodes it hears.                           *)
(*                                                                         *)
(* A byte of a packet is <<packet, position>>.  All nodes speak the same   *)
(* version: with V1 a frame is a chunk with a sequence nibble and the MORE *)
(* flag, with V2 it is the whole packet and nothing else.                  *)
(***************************************************************************)
EXTENDS Integers, Sequences, SequencesExt, FiniteSets

CONSTANTS
    Senders,        \* nodes heard by the receiver
    Sizes,          \* packet sizes
    ChunkSize,      \* ESPNOW_CHUNK_SIZE
    MTU,            \* size of espnow_rx_buf
    Seqs,           \* values of the sequence nibble
    TxQueueSize,    \* ESPNOW_TX_QUEUE_SIZE
    QueueSize,      \* ESPNOW_QUEUE_SIZE
    MaxPackets,     \* bound on the packets sent
    MaxAlone        \* and on those one node sends while no other does

ASSUME EspNowAssumption ==
    /\ {ChunkSize, MTU, TxQueueSize, QueueSize, MaxPackets, MaxAlone} \subseteq Nat \ {0}
    /\ Sizes \subseteq 1..MTU
    /\ Seqs \subseteq Nat \ {0}

VARIABLES
    packets,        \* the packets sent: sender, size and sequence number
    (* Each sender *)
    espnow_tx_queue, espnow_tx_busy,
    sending,        \* where update_espnow_tx() is: "out", "took", "ok", "failed"
    chunk,          \* the frame it took from the queue
    driver,         \* frames the WiFi driver has accepted and not sent yet
    callbacks,      \* frames sent whose espnow_send_cb() has not run yet
    (* The receiver *)
    config,         \* espnow_mode, espnow_enabled and urns_wants_espnow()
    espnow_rx_seq, espnow_rx_buf,
    espnow_packet_queue,
    staging, urns_rx_pending_espnow,
    handling,       \* loop() is inside handle_incoming()
    host, node,     \* what the host and the onboard node were given
    (* History *)
    open,           \* packets whose first chunks were heard
    closed,         \* packets whose last chunk was heard
    damaged,        \* packets with a lost chunk, or cut into by another node
    delivered       \* packets handed to espnow_rx_deliver()

transmitter == <<espnow_tx_queue, espnow_tx_busy, sending, chunk, driver, callbacks>>
reassembly == <<espnow_rx_seq, espnow_rx_buf, open, closed, delivered>>
consumers == <<espnow_packet_queue, staging, urns_rx_pending_espnow, handling, host, node>>
vars == <<packets, transmitter, config, reassembly, consumers, damaged>>

SEQ_UNSET == 0
NoFrame == [seq |-> SEQ_UNSET, more |-> FALSE, data |-> <<>>]

(* The packet as its sender has it. *)
Bytes(p) == [i \in 1..packets[p].size |-> <<p, i>>]

(* setup(): a node that runs Reticulum over ESP-NOW speaks V2; ESP-NOW is   *)
(* started for the host, for the node or for both.                          *)
Configs ==
    { c \in [v2 : BOOLEAN, host : BOOLEAN, node : BOOLEAN] :
        (c.node => c.v2) /\ (c.host \/ c.node) }

-----------------------------------------------------------------------------
Init ==
    /\ packets = <<>>
    /\ espnow_tx_queue = [s \in Senders |-> <<>>]
    /\ espnow_tx_busy = [s \in Senders |-> FALSE]
    /\ sending = [s \in Senders |-> "out"] /\ chunk = [s \in Senders |-> NoFrame]
    /\ driver = [s \in Senders |-> <<>>] /\ callbacks = [s \in Senders |-> 0]
    /\ config \in Configs
    /\ espnow_rx_seq = SEQ_UNSET /\ espnow_rx_buf = <<>>
    /\ espnow_packet_queue = <<>> /\ staging = <<>>
    /\ urns_rx_pending_espnow = FALSE /\ handling = FALSE
    /\ host = <<>> /\ node = <<>>
    /\ open = {} /\ closed = {} /\ damaged = {} /\ delivered = {}

-----------------------------------------------------------------------------
(* Sending *)

(* The frames of packet p: no chunk is empty, MORE is on all but the last.  *)
Frames(p, size, seq) ==
    LET width == IF config.v2 THEN MTU ELSE ChunkSize
        count == (size + width - 1) \div width
    IN  [k \in 1..count |->
           [seq |-> seq, more |-> k < count,
            data |-> [i \in 1 .. (IF k < count THEN width ELSE size - (k - 1) * width)
                        |-> <<p, (k - 1) * width + i>>]]]

(* The serial parser or the onboard node sends a packet: chunks the queue   *)
(* has no room for are dropped.                                             *)
Enqueued(s, frames) ==
    LET all == espnow_tx_queue[s] \o frames
    IN  SubSeq(all, 1, IF Len(all) > TxQueueSize THEN TxQueueSize ELSE Len(all))

Alone(s) == \A q \in DOMAIN packets : packets[q].sender = s

espnow_send(s, size, seq) ==
    LET p == Len(packets) + 1
        frames == Frames(p, size, seq)
    IN  /\ sending[s] = "out"
        /\ Len(packets) < IF Alone(s) THEN MaxAlone ELSE MaxPackets
        /\ packets' = Append(packets, [sender |-> s, size |-> size, seq |-> seq])
        /\ espnow_tx_queue' = [espnow_tx_queue EXCEPT ![s] = Enqueued(s, frames)]
        /\ damaged' = IF Len(espnow_tx_queue[s]) + Len(frames) > TxQueueSize
                      THEN damaged \cup {p} ELSE damaged
        /\ UNCHANGED <<espnow_tx_busy, sending, chunk, driver, callbacks, config,
                       reassembly, consumers>>

(* update_espnow_tx() up to the call of esp_now_send() ... *)
Bug_busy_later(s) == FALSE
BusyOnTake(s) == TRUE

TakeChunk(s) ==
    /\ sending[s] = "out" /\ ~espnow_tx_busy[s] /\ espnow_tx_queue[s] # <<>>
    /\ chunk' = [chunk EXCEPT ![s] = Head(espnow_tx_queue[s])]
    /\ espnow_tx_queue' = [espnow_tx_queue EXCEPT ![s] = Tail(@)]
    /\ espnow_tx_busy' = [espnow_tx_busy EXCEPT ![s] = BusyOnTake(s)]
    /\ sending' = [sending EXCEPT ![s] = "took"]
    /\ UNCHANGED <<packets, driver, callbacks, config, reassembly, consumers, damaged>>

(* ... the call itself, which the driver may refuse ... *)
esp_now_send(s) ==
    /\ sending[s] = "took"
    /\ \/ /\ driver' = [driver EXCEPT ![s] = Append(@, chunk[s])]
          /\ sending' = [sending EXCEPT ![s] = "ok"]
          /\ UNCHANGED damaged
       \/ /\ sending' = [sending EXCEPT ![s] = "failed"]
          /\ damaged' = damaged \cup {chunk[s].data[1][1]}
          /\ UNCHANGED driver
    /\ UNCHANGED <<packets, espnow_tx_queue, espnow_tx_busy, chunk, callbacks, config,
                   reassembly, consumers>>

(* ... and its return: no callback follows a refusal. *)
Bug_busy_kept(s) == espnow_tx_busy[s]
BusyOnReturn(s) == IF sending[s] = "failed" THEN FALSE ELSE espnow_tx_busy[s]

Return(s) ==
    /\ sending[s] \in {"ok", "failed"}
    /\ sending' = [sending EXCEPT ![s] = "out"]
    /\ chunk' = [chunk EXCEPT ![s] = NoFrame]
    /\ espnow_tx_busy' = [espnow_tx_busy EXCEPT ![s] = BusyOnReturn(s)]
    /\ UNCHANGED <<packets, espnow_tx_queue, driver, callbacks, config, reassembly,
                   consumers, damaged>>

espnow_send_cb(s) ==
    /\ callbacks[s] > 0
    /\ callbacks' = [callbacks EXCEPT ![s] = @ - 1]
    /\ espnow_tx_busy' = [espnow_tx_busy EXCEPT ![s] = FALSE]
    /\ UNCHANGED <<packets, espnow_tx_queue, sending, chunk, driver, config, reassembly,
                   consumers, damaged>>

-----------------------------------------------------------------------------
(* Receiving *)

(* espnow_rx_deliver(): the staging slot is left alone while it is pending; *)
(* the copy for the host is dropped when the queue is full or there is no   *)
(* memory for it.                                                           *)
StageFree == config.node /\ ~urns_rx_pending_espnow

espnow_rx_deliver(payload) ==
    /\ delivered' = delivered \cup {payload}
    /\ urns_rx_pending_espnow' = (urns_rx_pending_espnow \/ StageFree)
    /\ staging' = IF StageFree THEN payload ELSE staging
    /\ \/ /\ Len(espnow_packet_queue) < QueueSize
          /\ espnow_packet_queue' = Append(espnow_packet_queue, payload)
       \/ UNCHANGED espnow_packet_queue

(* Where a chunk goes: it follows what was collected under its number.      *)
Bug_number_ignored(f) == espnow_rx_buf
Collected(f) == IF f.seq = espnow_rx_seq THEN espnow_rx_buf ELSE <<>>

Bug_full_overflows(f) == Len(Collected(f)) + Len(f.data) >= MTU
Overflows(f) == Len(Collected(f)) + Len(f.data) > MTU

SeqAfter(f) == IF Overflows(f) \/ ~f.more THEN SEQ_UNSET ELSE f.seq

espnow_recv_cb(f) ==
    \/ /\ config.v2
       /\ espnow_rx_deliver(f.data)
       /\ UNCHANGED <<espnow_rx_seq, espnow_rx_buf>>
    \/ /\ ~config.v2
       /\ espnow_rx_seq' = SeqAfter(f)
       /\ espnow_rx_buf' = IF ~f.more \/ Overflows(f) THEN <<>> ELSE Collected(f) \o f.data
       /\ IF f.more \/ Overflows(f)
          THEN UNCHANGED <<espnow_packet_queue, staging, urns_rx_pending_espnow, delivered>>
          ELSE espnow_rx_deliver(Collected(f) \o f.data)

(* The driver sends the oldest frame it holds; the receiver hears it.  Every *)
(* other packet that was begun and not finished is cut into by this one.     *)
Heard(s) ==
    /\ driver[s] # <<>>
    /\ driver' = [driver EXCEPT ![s] = Tail(@)]
    /\ callbacks' = [callbacks EXCEPT ![s] = @ + 1]
    /\ espnow_recv_cb(Head(driver[s]))
    /\ LET f == Head(driver[s]) p == f.data[1][1]
       IN  /\ open' = IF f.more THEN open \cup {p} ELSE open \ {p}
           /\ closed' = IF f.more THEN closed ELSE closed \cup {p}
           /\ damaged' = damaged \cup (open \ {p})
    /\ UNCHANGED <<packets, espnow_tx_queue, espnow_tx_busy, sending, chunk, config,
                   handling, host, node>>

(* Or nobody does: noise, a collision, a receiver on another channel. *)
Unheard(s) ==
    /\ driver[s] # <<>>
    /\ driver' = [driver EXCEPT ![s] = Tail(@)]
    /\ callbacks' = [callbacks EXCEPT ![s] = @ + 1]
    /\ damaged' = damaged \cup {Head(driver[s]).data[1][1]}
    /\ UNCHANGED <<packets, espnow_tx_queue, espnow_tx_busy, sending, chunk, config,
                   reassembly, consumers>>

(* loop(): the oldest queued packet goes to the host. *)
update_espnow ==
    /\ config.host /\ ~handling /\ espnow_packet_queue # <<>>
    /\ host' = Append(host, Head(espnow_packet_queue))
    /\ espnow_packet_queue' = Tail(espnow_packet_queue)
    /\ UNCHANGED <<packets, transmitter, config, reassembly, staging,
                   urns_rx_pending_espnow, handling, node, damaged>>

(* urns_lxmf_loop(): the staged packet is handled, then the slot is freed. *)
HandleStaged ==
    /\ urns_rx_pending_espnow /\ ~handling
    /\ handling' = TRUE /\ node' = Append(node, staging)
    /\ UNCHANGED <<packets, transmitter, config, reassembly, espnow_packet_queue, staging,
                   urns_rx_pending_espnow, host, damaged>>

Bug_slot_not_freed == TRUE
PendingWhenHandled == FALSE

FreeStaged ==
    /\ handling /\ handling' = FALSE
    /\ urns_rx_pending_espnow' = PendingWhenHandled
    /\ UNCHANGED <<packets, transmitter, config, reassembly, espnow_packet_queue, staging,
                   host, node, damaged>>

-----------------------------------------------------------------------------
Loop(s) == TakeChunk(s) \/ esp_now_send(s) \/ Return(s)
OnAir(s) == Heard(s) \/ Unheard(s)

Next ==
    \/ \E s \in Senders :
          \/ \E size \in Sizes, seq \in IF config.v2 THEN {SEQ_UNSET} ELSE Seqs :
                espnow_send(s, size, seq)
          \/ TakeChunk(s) \/ esp_now_send(s) \/ Return(s)
          \/ Heard(s) \/ Unheard(s) \/ espnow_send_cb(s)
    \/ update_espnow \/ HandleStaged \/ FreeStaged

Spec == Init /\ [][Next]_vars

(* loop() keeps running, the driver sends what it accepted and calls back   *)
(* once for every frame.                                                    *)
LiveSpec ==
    Spec /\ \A s \in Senders : WF_vars(Loop(s)) /\ WF_vars(OnAir(s)) /\ WF_vars(espnow_send_cb(s))

-----------------------------------------------------------------------------
Payloads == Seq(Nat \X Nat)
Frame == [seq : Nat, more : BOOLEAN, data : Payloads]

TypeOK ==
    /\ packets \in Seq([sender : Senders, size : Sizes, seq : Nat])
    /\ espnow_tx_queue \in [Senders -> Seq(Frame)]
    /\ \A s \in Senders : Len(espnow_tx_queue[s]) <= TxQueueSize
    /\ espnow_tx_busy \in [Senders -> BOOLEAN]
    /\ sending \in [Senders -> {"out", "took", "ok", "failed"}]
    /\ chunk \in [Senders -> Frame] /\ driver \in [Senders -> Seq(Frame)]
    /\ callbacks \in [Senders -> Nat] /\ config \in Configs
    /\ espnow_rx_seq \in Nat /\ espnow_rx_buf \in Payloads /\ Len(espnow_rx_buf) <= MTU
    /\ espnow_packet_queue \in Seq(Payloads) /\ Len(espnow_packet_queue) <= QueueSize
    /\ staging \in Payloads
    /\ urns_rx_pending_espnow \in BOOLEAN /\ handling \in BOOLEAN

(* update_espnow_tx() is paced: the driver never holds a second chunk, and  *)
(* whenever the slot is taken something is still to happen that frees it,   *)
(* the return of a refused call or a callback, even when the callback runs  *)
(* before esp_now_send() has returned.                                      *)
Pacing ==
    \A s \in Senders :
        /\ Len(driver[s]) + callbacks[s] <= 1
        /\ espnow_tx_busy[s] =>
              \/ sending[s] \in {"took", "failed"}
              \/ Len(driver[s]) + callbacks[s] = 1

(* A chunk lost on the way, or another node's chunks between those of a     *)
(* packet, damage packets of that sequence number only: whatever else a     *)
(* consumer is given is a packet as it was sent.  With V2 everything is.    *)
SharesNumber(p) ==
    ~config.v2 /\ \E q \in damaged : packets[q].seq = packets[p].seq

DamageContained ==
    \A d \in delivered : \A i \in 1..Len(d) :
        d = Bytes(d[i][1]) \/ SharesNumber(d[i][1])

(* A packet whose chunks were all heard, and not cut into, is delivered     *)
(* unless a packet with its number was damaged.                             *)
UndamagedDelivered ==
    \A p \in closed \ damaged : Bytes(p) \in delivered \/ SharesNumber(p)

(* A staged packet stays as it is until the onboard node has handled it, and *)
(* neither the host nor the node is given a packet twice.                    *)
GivenOnce ==
    /\ IsInjective(host) /\ IsInjective(node)
    /\ handling => staging = Last(node)

(* A queued chunk does not wait for ever: busy is always cleared again.     *)
QueueDrains ==
    \A s \in Senders : espnow_tx_queue[s] # <<>> ~> espnow_tx_queue[s] = <<>>
=============================================================================
