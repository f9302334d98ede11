------------------------------ MODULE HostLink ------------------------------
(***************************************************************************)
(* Four ways into one parser.  Hosts reach the node over USB, Bluetooth, a *)
(* TCP connection (Remote.h) or a WebSocket (WebSocketRemote.h), at any    *)
(* time and several at once; buffer_serial() reads one byte after another  *)
(* from one of them and serial_poll() gives it to the parser (Kiss).       *)
(*                                                                         *)
(* The loop of buffer_serial() goes on while some transport has a byte     *)
(* (Poll); which one is then read is decided anew (Read).  Bluetooth and   *)
(* TCP events come at any moment, WebSocket events from update_ws(),       *)
(* outside buffer_serial().  serialFIFO is emptied in each pass of loop(), *)
(* sooner than it can fill, so a byte goes straight to the parser.         *)
(*                                                                         *)
(* A host writes a stream of frames and may leave in the middle of one.    *)
(* Neither host_disconnected(), which stops the radio, nor anything else   *)
(* touches the parser's state when a host leaves.                          *)
(***************************************************************************)
EXTENDS Kiss, FiniteSets

CONSTANTS
    Streams,    \* what a host may write: sequences of frames
    WsSize,     \* WS_RX_BUF_SIZE
    RxSize,     \* bound on the bytes the other drivers hold
    MaxHosts    \* bound on the hosts that come in one behaviour

ASSUME HostLinkAssumption ==
    WsSize \in Nat \ {0} /\ {RxSize, MaxHosts} \subseteq Nat

(* Hosts keep to the protocol: what they may do wrong is to leave. *)
ASSUME StreamsAssumption ==
    \A s \in Streams :
        s \in Seq([cmd : Commands, arg : Seq(STRING)]) /\ \A i \in 1..Len(s) : Proper(s[i])

Transports == {"usb", "bt", "tcp", "ws"}

VARIABLES
    hosts,      \* the hosts: transport, stream, still there?, bytes written
    rx,         \* bytes the USB, BT and TCP drivers hold
    ws_rx_buf, ws_rx_head, ws_rx_tail,
    bt_connected,
    connection, \* TCP: "none", "open", or "closed" by the host
    waiting,    \* a TCP client is in the listener's backlog (its number, or 0)
    ws_client,  \* the WebSocket client (its number, or 0)
    polled,     \* buffer_serial() is between its condition and its body
    kiss,       \* the parser
    (* History *)
    alone,      \* the host that had the node for itself since it came, or 0
    overrun,    \* the WebSocket ring had no room for a byte of that host
    clean       \* the host whose bytes, from its first one on, were the last
                \* ones parsed: how many, and what was carried out on them

sockets == <<bt_connected, connection, waiting, ws_client>>
ring == <<ws_rx_buf, ws_rx_head, ws_rx_tail>>
vars == <<hosts, rx, ring, sockets, polled, kiss, alone, overrun, clean>>

(* The byte at place pos of what host h writes. *)
Wire(h) == FlattenSeq([i \in 1..Len(hosts[h].stream) |-> Written(hosts[h].stream[i])])
ByteOf(h, pos) == [host |-> h, pos |-> pos, b |-> Wire(h)[pos]]
Phantom(b) == [host |-> 0, pos |-> 0, b |-> b]
NoClean == [host |-> 0, bytes |-> 0, carried |-> <<>>, escape |-> FALSE, left |-> FALSE]

ws_rx_isempty == ws_rx_head = ws_rx_tail
Bug_never_full == FALSE
ws_rx_isfull == (ws_rx_head + 1) % WsSize = ws_rx_tail

wifi_host_is_connected == connection # "none"
ws_host_is_connected == ws_client # 0

-----------------------------------------------------------------------------
Init ==
    /\ hosts = <<>> /\ rx = [t \in {"usb", "bt", "tcp"} |-> <<>>]
    /\ ws_rx_buf = [i \in 0 .. WsSize - 1 |-> Phantom("00")]
    /\ ws_rx_head = 0 /\ ws_rx_tail = 0
    /\ bt_connected = FALSE /\ connection = "none" /\ waiting = 0 /\ ws_client = 0
    /\ polled = FALSE /\ kiss = ParserInit
    /\ alone = 0 /\ overrun = FALSE /\ clean = NoClean

(* No host is there and no byte is left of any. *)
Quiet ==
    /\ \A h \in DOMAIN hosts : ~hosts[h].there
    /\ \A t \in DOMAIN rx : rx[t] = <<>>
    /\ ws_rx_isempty /\ connection = "none" /\ ~polled

(* A host comes and will write `stream`.  A WebSocket client is turned away  *)
(* (no change of state) while another one or a TCP host is connected.        *)
Comes(t, stream) ==
    /\ Len(hosts) < MaxHosts
    /\ ~\E h \in DOMAIN hosts : hosts[h].on = t /\ hosts[h].there
    /\ hosts' = Append(hosts, [on |-> t, stream |-> stream, written |-> 0, there |-> TRUE])
    /\ alone' = IF Quiet THEN Len(hosts) + 1 ELSE 0
    /\ overrun' = FALSE
    /\ UNCHANGED <<rx, ring, polled, kiss, clean>>

UsbComes(stream) == Comes("usb", stream) /\ UNCHANGED sockets

bt_connect_callback(stream) ==
    /\ Comes("bt", stream) /\ ~bt_connected
    /\ bt_connected' = TRUE
    /\ UNCHANGED <<connection, waiting, ws_client>>

TcpConnects(stream) ==
    /\ Comes("tcp", stream) /\ waiting = 0
    /\ waiting' = Len(hosts) + 1
    /\ UNCHANGED <<bt_connected, connection, ws_client>>

Bug_second_host == ws_client # 0
WsTurnedAway == wifi_host_is_connected \/ ws_host_is_connected

WsConnected(stream) ==
    /\ Comes("ws", stream) /\ ~polled /\ ~WsTurnedAway
    /\ ws_client' = Len(hosts) + 1
    /\ UNCHANGED <<bt_connected, connection, waiting>>

-----------------------------------------------------------------------------
(* The next byte of host h reaches the node. *)
Writes(h) ==
    /\ hosts[h].there /\ hosts[h].written < Len(Wire(h))
    /\ hosts' = [hosts EXCEPT ![h].written = @ + 1]
    /\ UNCHANGED <<sockets, polled, kiss, alone, clean>>

Arrives(h) ==
    /\ Writes(h) /\ hosts[h].on # "ws" /\ Len(rx[hosts[h].on]) < RxSize
    /\ hosts[h].on = "tcp" => connection = "open" /\ waiting # h
    /\ rx' = [rx EXCEPT ![hosts[h].on] = Append(@, ByteOf(h, hosts[h].written + 1))]
    /\ UNCHANGED <<ring, overrun>>

(* A WebSocket message: what the ring has no room for is dropped, without a  *)
(* word to the host.                                                         *)
ws_rx_push(h) ==
    /\ Writes(h) /\ ws_client = h /\ ~polled
    /\ IF ws_rx_isfull
       THEN overrun' = (overrun \/ alone = h) /\ UNCHANGED ring
       ELSE /\ ws_rx_buf' = [ws_rx_buf EXCEPT ![ws_rx_head] = ByteOf(h, hosts[h].written + 1)]
            /\ ws_rx_head' = (ws_rx_head + 1) % WsSize
            /\ UNCHANGED <<ws_rx_tail, overrun>>
    /\ UNCHANGED rx

-----------------------------------------------------------------------------
Departed(h) == [hosts[h] EXCEPT !.there = FALSE, !.written = 0]
Gone(h) == hosts' = [hosts EXCEPT ![h] = Departed(h)]

(* Host h leaves, in the middle of its stream or at its end. *)
Leaves(h) ==
    /\ hosts[h].there /\ Gone(h)
    /\ CASE hosts[h].on = "usb" -> UNCHANGED <<rx, ring, sockets>>
         [] hosts[h].on = "bt"  -> bt_connected' = FALSE
                                   /\ UNCHANGED <<rx, ring, connection, waiting, ws_client>>
         [] hosts[h].on = "tcp" ->
              /\ IF waiting = h
                 THEN waiting' = 0 /\ UNCHANGED <<rx, connection>>
                 ELSE connection' = "closed" /\ rx' = [rx EXCEPT !["tcp"] = <<>>] /\ UNCHANGED waiting
              /\ UNCHANGED <<ring, bt_connected, ws_client>>
         [] hosts[h].on = "ws"  -> ~polled /\ ws_client' = 0
                                   /\ UNCHANGED <<rx, ring, bt_connected, connection, waiting>>
    /\ UNCHANGED <<polled, kiss, alone, overrun, clean>>

(* wifi_remote_close_all(): the connection and every client that waits. *)
TcpHosts == {h \in DOMAIN hosts : hosts[h].on = "tcp"}
wifi_remote_close_all ==
    /\ connection' = "none" /\ waiting' = 0
    /\ rx' = [rx EXCEPT !["tcp"] = <<>>]
    /\ hosts' = [h \in DOMAIN hosts |->
                   IF h \in TcpHosts THEN Departed(h) ELSE hosts[h]]

-----------------------------------------------------------------------------
(* buffer_serial() *)

Bug_bt_only == bt_connected /\ rx["bt"] # <<>>
DirectAvailable == IF bt_connected THEN rx["bt"] # <<>> ELSE rx["usb"] # <<>>

(* wifi_remote_available() when it is called: it reports a byte, drops a     *)
(* connection that its host closed or left idle, or accepts a client.        *)
TcpDropped ==
    /\ connection = "closed" \/ (connection = "open" /\ rx["tcp"] = <<>>)
    /\ wifi_remote_close_all
TcpIdle ==
    /\ connection = "open" \/ (connection = "none" /\ waiting = 0)
    /\ UNCHANGED <<hosts, rx, connection, waiting>>
TcpAccepted ==
    /\ connection = "none" /\ waiting # 0 /\ ~ws_host_is_connected
    /\ connection' = "open" /\ waiting' = 0
    /\ UNCHANGED <<hosts, rx>>
TcpRefused ==
    /\ connection = "none" /\ waiting # 0 /\ ws_host_is_connected
    /\ waiting' = 0 /\ Gone(waiting)
    /\ UNCHANGED <<rx, connection>>

Poll ==
    /\ ~polled
    /\ \/ /\ DirectAvailable /\ polled' = TRUE
          /\ UNCHANGED <<hosts, rx, connection, waiting>>
       \/ /\ ~DirectAvailable
          /\ TcpDropped \/ TcpIdle \/ TcpAccepted \/ TcpRefused
          /\ polled' = ((connection = "open" /\ rx["tcp"] # <<>>) \/ ~ws_rx_isempty)
    /\ UNCHANGED <<ring, bt_connected, ws_client, kiss, alone, overrun, clean>>

(* The body parses one byte. *)
Parse(x) ==
    /\ polled' = FALSE
    /\ kiss' = serial_callback(kiss, x.b)
    /\ clean' =
         CASE x.host # 0 /\ x.pos = 1 ->
                [host |-> x.host, bytes |-> 1, carried |-> Carried(kiss, x.b),
                 escape |-> kiss.ESCAPE,
                 left |-> kiss.IN_FRAME /\ kiss.command \in {CMD_DATA, CMD_SYNC_WORD}]
           [] x.host # 0 /\ x.host = clean.host /\ x.pos = clean.bytes + 1 ->
                [clean EXCEPT !.bytes = @ + 1, !.carried = @ \o Carried(kiss, x.b)]
           [] OTHER -> NoClean

(* SerialBT.read() and Serial.read() *)
ReadDirect(t) ==
    /\ Parse(IF rx[t] = <<>> THEN Phantom(NoByte) ELSE Head(rx[t]))
    /\ rx' = [rx EXCEPT ![t] = IF @ = <<>> THEN @ ELSE Tail(@)]
    /\ UNCHANGED <<hosts, ring, sockets, alone, overrun>>

(* With nothing to read from it the connection is closed. *)
wifi_remote_read ==
    /\ IF rx["tcp"] # <<>>
       THEN /\ Parse(Head(rx["tcp"]))
            /\ rx' = [rx EXCEPT !["tcp"] = Tail(@)]
            /\ UNCHANGED <<hosts, connection, waiting>>
       ELSE Parse(Phantom(FEND)) /\ wifi_remote_close_all
    /\ UNCHANGED <<ring, bt_connected, ws_client, alone, overrun>>

(* ws_rx_pop() does not ask whether the ring is empty. *)
ws_remote_read ==
    /\ Parse(ws_rx_buf[ws_rx_tail])
    /\ ws_rx_tail' = (ws_rx_tail + 1) % WsSize
    /\ UNCHANGED <<hosts, rx, ws_rx_buf, ws_rx_head, sockets, alone, overrun>>

TcpSelected == ~bt_connected /\ wifi_host_is_connected

Read ==
    /\ polled
    /\ \/ bt_connected /\ ReadDirect("bt")
       \/ TcpSelected /\ wifi_remote_read
       \/ ~bt_connected /\ ~TcpSelected /\ ws_host_is_connected /\ ws_remote_read
       \/ ~bt_connected /\ ~TcpSelected /\ ~ws_host_is_connected /\ ReadDirect("usb")

-----------------------------------------------------------------------------
Next ==
    \/ \E s \in Streams :
         UsbComes(s) \/ bt_connect_callback(s) \/ TcpConnects(s) \/ WsConnected(s)
    \/ \E h \in DOMAIN hosts : Arrives(h) \/ ws_rx_push(h) \/ Leaves(h)
    \/ Poll \/ Read

Spec == Init /\ [][Next]_vars

(* loop() calls buffer_serial() again and again. *)
LiveSpec == Spec /\ WF_vars(Poll) /\ WF_vars(Read)

-----------------------------------------------------------------------------
(* What the node holds of host h and has not parsed. *)
RingLen == (ws_rx_head - ws_rx_tail + WsSize) % WsSize
Unread(h) == IF hosts[h].on = "ws" THEN RingLen ELSE Len(rx[hosts[h].on])

TypeOK ==
    /\ rx \in [{"usb", "bt", "tcp"} -> Seq([host : Nat, pos : Nat, b : STRING])]
    /\ ws_rx_head \in 0 .. WsSize - 1 /\ ws_rx_tail \in 0 .. WsSize - 1
    /\ bt_connected \in BOOLEAN /\ polled \in BOOLEAN /\ overrun \in BOOLEAN
    /\ connection \in {"none", "open", "closed"}
    /\ {waiting, ws_client, alone} \subseteq 0..Len(hosts)
    /\ kiss.ESCAPE \in BOOLEAN /\ kiss.IN_FRAME \in BOOLEAN
    /\ Len(kiss.cmdbuf) <= CMD_L

(* At most one network host drives the parser: a TCP connection and a        *)
(* WebSocket client are never accepted side by side, however their events    *)
(* fall.                                                                     *)
ExclusiveHost == ~(wifi_host_is_connected /\ ws_host_is_connected)

(* A host that is the only one there, and found nothing left by another,     *)
(* has its bytes parsed as it wrote them: none is lost, repeated, reordered  *)
(* or slipped in, up to the first byte that the WebSocket ring had no room   *)
(* for.  Such a byte is lost even to a lone host: ws_rx_push() drops it, and *)
(* nothing holds back a host that writes more than WS_RX_BUF_SIZE - 1 bytes  *)
(* before buffer_serial() runs.                                              *)
LoneHostUndisturbed ==
    (alone # 0 /\ hosts[alone].there /\ ~overrun) =>
        LET parsed == hosts[alone].written - Unread(alone)
        IN  parsed = IF clean.host = alone THEN clean.bytes ELSE 0

(* A host whose bytes are parsed undisturbed has every frame carried out     *)
(* once, in order and with its payload, whatever the hosts before left the   *)
(* parser in; unless one of them broke off in a frame that a FEND closes.    *)
(* Then the host's first frame is lost, and at most one command is carried   *)
(* out that it did not send, the rest of the broken frame.  An escape left   *)
(* pending may still alter a byte.                                           *)
FramesParsed(h, n) ==
    {k \in 0..Len(hosts[h].stream) :
        n = Len(FlattenSeq([i \in 1..k |-> Written(hosts[h].stream[i])]))}

FramesCarriedOut ==
    (clean.host # 0 /\ ~clean.escape) =>
        \A k \in FramesParsed(clean.host, clean.bytes) \ {0} :
            LET sent == SubSeq(hosts[clean.host].stream, 1, k)
            IN  \/ clean.carried = sent
                \/ clean.left /\ clean.carried = Tail(sent)
                \/ clean.left /\ clean.carried # <<>> /\ Tail(clean.carried) = Tail(sent)

(* While a host is the only one its bytes do not wait for ever. *)
LoneHostServed ==
    \A h \in 1..MaxHosts :
        (alone = h /\ hosts[h].there /\ Unread(h) > 0) ~>
            (alone # h \/ ~hosts[h].there \/ Unread(h) = 0)
=============================================================================
