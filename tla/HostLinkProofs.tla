---------------------------- MODULE HostLinkProofs ----------------------------
(***************************************************************************)
(* Proofs that a TCP host and a WebSocket host are never connected         *)
(* together, that the bytes of a host that has the node for itself are     *)
(* parsed as it wrote them, and that the parser makes of such bytes the    *)
(* frames they were written from, for any hosts, streams and buffer sizes. *)
(*                                                                         *)
(* ExclusiveHost is not inductive: a TCP host that leaves marks the        *)
(* connection "closed", and only a host that has the connection may do     *)
(* that.  TcpAccounted says so: every TCP host that is there either waits  *)
(* to be accepted or has the connection, because closing it sends all of   *)
(* them away and a refused one is gone.                                    *)
(*                                                                         *)
(* LoneHostUndisturbed counts bytes; that the next byte read is the host's *)
(* next one needs to know which bytes the drivers and the ring hold, that  *)
(* every other buffer is empty, and that the transport buffer_serial()     *)
(* selects is the host's.  LoneHost says so, and SocketsHeld that an open  *)
(* socket belongs to a host that is there.                                 *)
(*                                                                         *)
(* FramesCarriedOut speaks of the ends of frames only.  Tracks says where  *)
(* in which frame of the stream the parser is after any byte, what it has  *)
(* collected by then and what it has carried out; that the next byte       *)
(* keeps this so is the step of an induction over the bytes, and where a   *)
(* byte of the wire is (FlattenSeq, a recursive function) is found by      *)
(* induction over numbers, in the form of a lemma about sets (Induction).  *)
(***************************************************************************)
EXTENDS HostLink, SequenceTheorems, WellFoundedInduction, TLAPS

HostRecord == [on : Transports, stream : Streams, written : Nat, there : BOOLEAN]

TcpAccounted ==
    \A h \in DOMAIN hosts :
        hosts[h].on = "tcp" /\ hosts[h].there => waiting = h \/ connection # "none"

ExclusiveInv ==
    /\ hosts \in Seq(HostRecord)
    /\ waiting # 0 => waiting \in DOMAIN hosts
    /\ TcpAccounted
    /\ ExclusiveHost

-----------------------------------------------------------------------------
(* Departing changes nothing of a host but that it is there. *)
LEMMA DepartedRecord ==
  ASSUME hosts \in Seq(HostRecord), NEW h \in DOMAIN hosts
  PROVE  /\ Departed(h) \in HostRecord
         /\ Departed(h).on = hosts[h].on /\ Departed(h).there = FALSE
<1>1. hosts[h] \in HostRecord
  BY LenProperties
<1>2. \A r \in HostRecord :
         LET d == [r EXCEPT !.there = FALSE, !.written = 0]
         IN  d \in HostRecord /\ d.on = r.on /\ d.there = FALSE
  BY DEF HostRecord
<1> QED BY <1>1, <1>2 DEF Departed

(* At boot nobody is connected. *)
LEMMA ExclusiveInit == Init => ExclusiveInv
BY DEF Init, ExclusiveInv, TcpAccounted, ExclusiveHost, ws_host_is_connected

(* What Comes(t, s) does to the hosts that were there before. *)
LEMMA HostComes ==
  ASSUME ExclusiveInv, NEW t \in Transports, NEW s \in Streams, Comes(t, s)
  PROVE  /\ hosts' \in Seq(HostRecord)
         /\ DOMAIN hosts' = DOMAIN hosts \cup {Len(hosts) + 1}
         /\ \A h \in DOMAIN hosts : hosts'[h] = hosts[h]
         /\ hosts'[Len(hosts) + 1].on = t /\ hosts'[Len(hosts) + 1].there = TRUE
         /\ hosts'[Len(hosts) + 1].written = 0
         /\ Len(hosts) \in Nat /\ Len(hosts') = Len(hosts) + 1
<1> DEFINE r == [on |-> t, stream |-> s, written |-> 0, there |-> TRUE]
<1>1. r \in HostRecord
  BY DEF HostRecord
<1>2. hosts \in Seq(HostRecord) /\ hosts' = Append(hosts, r)
  BY DEF ExclusiveInv, Comes
<1>3. r.on = t /\ r.there = TRUE /\ r.written = 0
  OBVIOUS
<1> HIDE DEF r
<1> QED BY <1>1, <1>2, <1>3

(* A host that comes is turned away or is the only network host. *)
LEMMA ComesExclusive ==
  ASSUME ExclusiveInv, NEW s \in Streams,
         UsbComes(s) \/ bt_connect_callback(s) \/ TcpConnects(s) \/ WsConnected(s)
  PROVE  ExclusiveInv'
<1>1. CASE UsbComes(s)
  BY <1>1, HostComes DEF UsbComes, sockets, Transports, ExclusiveInv, TcpAccounted,
     ExclusiveHost, wifi_host_is_connected, ws_host_is_connected
<1>2. CASE bt_connect_callback(s)
  BY <1>2, HostComes DEF bt_connect_callback, Transports, ExclusiveInv, TcpAccounted,
     ExclusiveHost, wifi_host_is_connected, ws_host_is_connected
<1>3. CASE TcpConnects(s)
  <2>1. Comes("tcp", s) /\ waiting' = Len(hosts) + 1 /\ UNCHANGED <<connection, ws_client>>
    BY <1>3 DEF TcpConnects
  <2>2. \A h \in DOMAIN hosts : ~(hosts[h].on = "tcp" /\ hosts[h].there)
    BY <2>1 DEF Comes
  <2>3. /\ hosts' \in Seq(HostRecord)
        /\ DOMAIN hosts' = DOMAIN hosts \cup {Len(hosts) + 1}
        /\ \A h \in DOMAIN hosts : hosts'[h] = hosts[h]
    BY <2>1, HostComes DEF Transports
  <2> QED BY <2>1, <2>2, <2>3 DEF ExclusiveInv, TcpAccounted, ExclusiveHost,
             wifi_host_is_connected, ws_host_is_connected
<1>4. CASE WsConnected(s)
  BY <1>4, HostComes DEF WsConnected, WsTurnedAway, Transports, ExclusiveInv, TcpAccounted,
     ExclusiveHost, wifi_host_is_connected, ws_host_is_connected
<1> QED BY <1>1, <1>2, <1>3, <1>4

(* A host that writes a byte changes nothing else. *)
LEMMA HostWrites ==
  ASSUME ExclusiveInv, NEW h \in DOMAIN hosts, Writes(h)
  PROVE  /\ hosts' \in Seq(HostRecord) /\ DOMAIN hosts' = DOMAIN hosts
         /\ Len(hosts') = Len(hosts)
         /\ \A i \in DOMAIN hosts : hosts'[i].on = hosts[i].on /\ hosts'[i].there = hosts[i].there
         /\ hosts[h].written \in Nat /\ hosts'[h].written = hosts[h].written + 1
<1> DEFINE r == [hosts[h] EXCEPT !.written = @ + 1]
<1>1. hosts \in Seq(HostRecord) /\ hosts[h] \in HostRecord
  BY LenProperties DEF ExclusiveInv
<1>2. /\ r \in HostRecord /\ r.on = hosts[h].on /\ r.there = hosts[h].there
      /\ hosts[h].written \in Nat /\ r.written = hosts[h].written + 1
  BY <1>1 DEF HostRecord
<1>3. hosts' = [hosts EXCEPT ![h] = r]
  BY <1>1 DEF Writes
<1> HIDE DEF r
<1> QED BY <1>1, <1>2, <1>3, ExceptSeq, LenProperties

(* A byte written, over the ring or not, moves no socket. *)
LEMMA WritesExclusive ==
  ASSUME ExclusiveInv, NEW h \in DOMAIN hosts, Arrives(h) \/ ws_rx_push(h)
  PROVE  ExclusiveInv'
<1>1. Writes(h)
  BY DEF Arrives, ws_rx_push
<1>2. /\ hosts' \in Seq(HostRecord) /\ DOMAIN hosts' = DOMAIN hosts
      /\ \A i \in DOMAIN hosts : hosts'[i].on = hosts[i].on /\ hosts'[i].there = hosts[i].there
  BY <1>1, HostWrites
<1> QED BY <1>1, <1>2 DEF Writes, sockets, ExclusiveInv, TcpAccounted, ExclusiveHost,
           wifi_host_is_connected, ws_host_is_connected

(* The hosts after one of them has left. *)
LEMMA HostGone ==
  ASSUME ExclusiveInv, NEW h \in DOMAIN hosts, Gone(h)
  PROVE  /\ hosts' \in Seq(HostRecord) /\ DOMAIN hosts' = DOMAIN hosts
         /\ \A i \in DOMAIN hosts \ {h} : hosts'[i] = hosts[i]
         /\ hosts'[h].on = hosts[h].on /\ hosts'[h].there = FALSE
         /\ Len(hosts') = Len(hosts)
<1>1. hosts \in Seq(HostRecord) /\ hosts' = [hosts EXCEPT ![h] = Departed(h)]
  BY DEF ExclusiveInv, Gone
<1>2. /\ Departed(h) \in HostRecord
      /\ Departed(h).on = hosts[h].on /\ Departed(h).there = FALSE
  BY <1>1, DepartedRecord
<1>3. hosts' \in Seq(HostRecord) /\ Len(hosts') = Len(hosts)
  BY <1>1, <1>2, ExceptSeq
<1>4. DOMAIN hosts' = DOMAIN hosts
  BY <1>1
<1> QED BY <1>1, <1>2, <1>3, <1>4

(* A host that leaves frees its transport. *)
LEMMA LeavesExclusive ==
  ASSUME ExclusiveInv, NEW h \in DOMAIN hosts, Leaves(h)
  PROVE  ExclusiveInv'
<1>1. Gone(h) /\ hosts[h].there /\ hosts[h].on \in Transports
  <2>1. hosts[h] \in HostRecord
    BY LenProperties DEF ExclusiveInv
  <2> QED BY <2>1 DEF Leaves, HostRecord
<1>2. CASE hosts[h].on \in {"usb", "bt"}
  <2>1. UNCHANGED <<connection, waiting, ws_client>>
    BY <1>2 DEF Leaves, sockets
  <2> QED
    BY <1>1, <2>1, HostGone DEF ExclusiveInv, TcpAccounted, ExclusiveHost,
       wifi_host_is_connected, ws_host_is_connected
<1>3. CASE hosts[h].on = "tcp"
  <2>1. waiting = h \/ connection # "none"
    BY <1>1, <1>3 DEF ExclusiveInv, TcpAccounted
  <2>2. /\ UNCHANGED ws_client
        /\ IF waiting = h THEN waiting' = 0 /\ UNCHANGED connection
                          ELSE connection' = "closed" /\ UNCHANGED waiting
    BY <1>3 DEF Leaves
  <2>3. CASE waiting = h
    BY <1>1, <2>2, <2>3, HostGone DEF ExclusiveInv, TcpAccounted, ExclusiveHost,
       wifi_host_is_connected, ws_host_is_connected
  <2>4. CASE waiting # h
    BY <1>1, <1>3, <2>1, <2>2, <2>4, HostGone DEF ExclusiveInv, TcpAccounted, ExclusiveHost,
       wifi_host_is_connected, ws_host_is_connected
  <2> QED BY <2>3, <2>4
<1>4. CASE hosts[h].on = "ws"
  BY <1>1, <1>4, HostGone DEF Leaves, ExclusiveInv, TcpAccounted, ExclusiveHost,
     wifi_host_is_connected, ws_host_is_connected
<1> QED BY <1>1, <1>2, <1>3, <1>4 DEF Transports

(* Closing the connection leaves no TCP host behind, and sends nobody else  *)
(* away.                                                                     *)
LEMMA HostsClosed ==
  ASSUME ExclusiveInv, wifi_remote_close_all
  PROVE  /\ hosts' \in Seq(HostRecord) /\ DOMAIN hosts' = DOMAIN hosts
         /\ Len(hosts') = Len(hosts)
         /\ \A h \in DOMAIN hosts : hosts'[h].on = "tcp" => ~hosts'[h].there
         /\ \A h \in DOMAIN hosts : hosts[h].on = "tcp" => ~hosts'[h].there
         /\ \A h \in DOMAIN hosts : hosts[h].on # "tcp" => hosts'[h] = hosts[h]
<1>1. hosts \in Seq(HostRecord)
  BY DEF ExclusiveInv
<1>2. hosts' \in Seq(HostRecord) /\ DOMAIN hosts' = DOMAIN hosts /\ Len(hosts') = Len(hosts)
  <2> DEFINE r(h) == IF h \in TcpHosts THEN Departed(h) ELSE hosts[h]
  <2>1. DOMAIN hosts = 1..Len(hosts) /\ Len(hosts) \in Nat
    BY <1>1, LenProperties
  <2>2. \A h \in DOMAIN hosts : r(h) \in HostRecord
    BY <1>1, DepartedRecord, LenProperties
  <2>3. hosts' = [h \in 1..Len(hosts) |-> r(h)]
    BY <2>1 DEF wifi_remote_close_all
  <2> HIDE DEF r
  <2> QED BY <2>1, <2>2, <2>3
<1>3. /\ \A h \in DOMAIN hosts : hosts'[h].on = "tcp" => ~hosts'[h].there
      /\ \A h \in DOMAIN hosts : hosts[h].on = "tcp" => ~hosts'[h].there
      /\ \A h \in DOMAIN hosts : hosts[h].on # "tcp" => hosts'[h] = hosts[h]
  BY <1>1, <1>2, DepartedRecord DEF wifi_remote_close_all, TcpHosts
<1> QED BY <1>2, <1>3

(* So closing it keeps the two kinds of host apart. *)
LEMMA CloseExclusive ==
  ASSUME ExclusiveInv, wifi_remote_close_all, UNCHANGED ws_client
  PROVE  ExclusiveInv'
<1>2. hosts' \in Seq(HostRecord) /\ DOMAIN hosts' = DOMAIN hosts
  BY HostsClosed
<1>3. \A h \in DOMAIN hosts' : hosts'[h].on = "tcp" => ~hosts'[h].there
  BY <1>2, HostsClosed
<1>4. ExclusiveHost' /\ waiting' = 0
  BY DEF wifi_remote_close_all, ExclusiveHost, wifi_host_is_connected
<1> QED BY <1>2, <1>3, <1>4 DEF ExclusiveInv, TcpAccounted

(* A step that moves no socket and sends no host away. *)
LEMMA IdleExclusive ==
  ASSUME ExclusiveInv, UNCHANGED <<hosts, connection, waiting, ws_client>>
  PROVE  ExclusiveInv'
BY DEF ExclusiveInv, TcpAccounted, ExclusiveHost, wifi_host_is_connected, ws_host_is_connected

(* wifi_remote_available() accepts only while no WebSocket client is there. *)
LEMMA PollExclusive == ASSUME ExclusiveInv, Poll PROVE ExclusiveInv'
<1>1. UNCHANGED ws_client
  BY DEF Poll
<1>2. CASE TcpDropped
  BY <1>1, <1>2, CloseExclusive DEF TcpDropped
<1>3. CASE UNCHANGED <<hosts, connection, waiting>>
  BY <1>1, <1>3, IdleExclusive
<1>4. CASE TcpAccepted
  BY <1>1, <1>4 DEF TcpAccepted, ExclusiveInv, TcpAccounted, ExclusiveHost,
     wifi_host_is_connected, ws_host_is_connected
<1>5. CASE TcpRefused
  <2>1. hosts' \in Seq(HostRecord) /\ DOMAIN hosts' = DOMAIN hosts
    BY <1>5, HostGone DEF TcpRefused, ExclusiveInv
  <2>2. \A h \in DOMAIN hosts : hosts'[h].on = "tcp" => ~hosts'[h].there
    <3> SUFFICES ASSUME NEW h \in DOMAIN hosts, hosts'[h].on = "tcp", hosts'[h].there
                 PROVE  FALSE
      OBVIOUS
    <3>1. CASE h = waiting
      <4>1. hosts'[h].there = FALSE
        BY <1>5, <3>1, HostGone DEF TcpRefused
      <4> QED BY <4>1
    <3>2. CASE h # waiting
      <4>1. hosts'[h] = hosts[h]
        BY <1>5, <3>2 DEF TcpRefused, Gone, ExclusiveInv
      <4> QED BY <1>5, <3>2, <4>1 DEF TcpRefused, ExclusiveInv, TcpAccounted
    <3> QED BY <3>1, <3>2
  <2> QED BY <1>1, <1>5, <2>1, <2>2 DEF TcpRefused, ExclusiveInv, TcpAccounted, ExclusiveHost,
             wifi_host_is_connected, ws_host_is_connected
<1> QED BY <1>2, <1>3, <1>4, <1>5 DEF Poll, TcpIdle

(* Reading connects nobody. *)
LEMMA ReadExclusive == ASSUME ExclusiveInv, Read PROVE ExclusiveInv'
<1>1. CASE \E t \in {"bt", "usb"} : ReadDirect(t)
  BY <1>1, IdleExclusive DEF ReadDirect, sockets
<1>2. CASE wifi_remote_read
  BY <1>2, IdleExclusive, CloseExclusive DEF wifi_remote_read
<1>3. CASE ws_remote_read
  BY <1>3, IdleExclusive DEF ws_remote_read, sockets
<1> QED BY <1>1, <1>2, <1>3 DEF Read

(* Every step keeps the two kinds of network host apart. *)
LEMMA ExclusiveStep == ExclusiveInv /\ [Next]_vars => ExclusiveInv'
<1> SUFFICES ASSUME ExclusiveInv, [Next]_vars PROVE ExclusiveInv'
  OBVIOUS
<1>1. ASSUME NEW s \in Streams,
             UsbComes(s) \/ bt_connect_callback(s) \/ TcpConnects(s) \/ WsConnected(s)
      PROVE  ExclusiveInv'
  BY <1>1, ComesExclusive
<1>2. ASSUME NEW h \in DOMAIN hosts, Arrives(h) \/ ws_rx_push(h) PROVE ExclusiveInv'
  BY <1>2, WritesExclusive
<1>3. ASSUME NEW h \in DOMAIN hosts, Leaves(h) PROVE ExclusiveInv'
  BY <1>3, LeavesExclusive
<1>4. CASE Poll
  BY <1>4, PollExclusive
<1>5. CASE Read
  BY <1>5, ReadExclusive
<1>6. CASE UNCHANGED vars
  BY <1>6, IdleExclusive DEF vars, sockets
<1> QED BY <1>1, <1>2, <1>3, <1>4, <1>5, <1>6 DEF Next

(* For any hosts on any transports, whatever they write and whenever they   *)
(* come and leave: wifi_remote_available() and the WebSocket's connect event *)
(* never let both a TCP and a WebSocket host in.                             *)
THEOREM AlwaysExclusive == Spec => []ExclusiveHost
<1>1. ExclusiveInv => ExclusiveHost
  BY DEF ExclusiveInv
<1> QED BY ExclusiveInit, ExclusiveStep, <1>1, PTL DEF Spec

-----------------------------------------------------------------------------
(***************************************************************************)
(* The bytes of a host that is the only one.                               *)
(***************************************************************************)

(* How far behind the tail of the ring slot k is: ws_rx_pop() reads the     *)
(* slots in this order.                                                      *)
InRing(k) == IF k >= ws_rx_tail THEN k - ws_rx_tail ELSE k - ws_rx_tail + WsSize

(* The bytes of host h parsed since its first one. *)
Got(h) == IF clean.host = h THEN clean.bytes ELSE 0

(* The drivers, or the ring, hold what h has written since: byte after byte, *)
(* and at least one when buffer_serial() is about to read.                   *)
DriverHolds(h) ==
    LET q == rx[hosts[h].on]
    IN  /\ hosts[h].written = Got(h) + Len(q)
        /\ \A i \in 1..Len(q) : q[i].host = h /\ q[i].pos = Got(h) + i
        /\ polled => q # <<>>
RingHolds(h) ==
    /\ hosts[h].written = Got(h) + InRing(ws_rx_head)
    /\ \A k \in 0..(WsSize - 1) : InRing(k) < InRing(ws_rx_head) =>
          /\ ws_rx_buf[k].host = h
          /\ ws_rx_buf[k].pos = Got(h) + InRing(k) + 1
    /\ polled => ws_rx_head # ws_rx_tail

(* Nothing else is there to be read. *)
Undisturbed(h) ==
    /\ \A i \in DOMAIN hosts : hosts[i].there => i = h
    /\ \A t \in {"usb", "bt", "tcp"} : t # hosts[h].on => rx[t] = <<>>
    /\ hosts[h].on # "ws" => ws_rx_head = ws_rx_tail
    /\ hosts[h].on # "tcp" => connection = "none"
    /\ hosts[h].on = "tcp" => connection # "closed" /\ (rx["tcp"] # <<>> => connection = "open")
    /\ hosts[h].on = "bt" => bt_connected
    /\ hosts[h].on = "ws" => ws_client = h

LoneHost(h) ==
    /\ Undisturbed(h)
    /\ IF hosts[h].on = "ws" THEN RingHolds(h) ELSE DriverHolds(h)

LoneInv == alone # 0 /\ hosts[alone].there /\ ~overrun => LoneHost(alone)

(* Every socket belongs to a host that is there. *)
SocketsHeld ==
    /\ waiting # 0 => /\ waiting \in DOMAIN hosts
                      /\ hosts[waiting].there /\ hosts[waiting].on = "tcp"
    /\ ws_client # 0 => /\ ws_client \in DOMAIN hosts
                        /\ hosts[ws_client].there /\ hosts[ws_client].on = "ws"
    /\ bt_connected => \E h \in DOMAIN hosts : hosts[h].there /\ hosts[h].on = "bt"

(* Every byte the node holds is of a host that came. *)
Came(x) == x.host \in 0..Len(hosts)
KnownBytes ==
    /\ \A t \in {"usb", "bt", "tcp"} : \A i \in 1..Len(rx[t]) : Came(rx[t][i])
    /\ \A k \in 0..(WsSize - 1) : Came(ws_rx_buf[k])
    /\ Came(clean)

(* A sequence, whatever its elements. *)
IsSeq(q) == \E S : q \in Seq(S)

RxTransports == {"usb", "bt", "tcp"}
Slots == 0..(WsSize - 1)

(* clean has the fields it needs. *)
IsClean(c) ==
    /\ c = [host |-> c.host, bytes |-> c.bytes, carried |-> c.carried, escape |-> c.escape,
            left |-> c.left]
    /\ c.host \in Nat /\ c.bytes \in Nat /\ (c.host # 0 => c.bytes >= 1)

Shapes ==
    /\ DOMAIN rx = RxTransports /\ \A t \in RxTransports : IsSeq(rx[t])
    /\ DOMAIN ws_rx_buf = Slots /\ ws_rx_head \in Slots /\ ws_rx_tail \in Slots
    /\ alone \in 0..Len(hosts) /\ IsClean(clean)
    /\ polled \in BOOLEAN /\ bt_connected \in BOOLEAN

LinkShape == ExclusiveInv /\ Shapes /\ KnownBytes /\ SocketsHeld

-----------------------------------------------------------------------------
(* Sequences of bytes *)

(* What a sequence of anything has. *)
LEMMA SeqShape ==
  ASSUME NEW q, IsSeq(q)
  PROVE  /\ Len(q) \in Nat /\ DOMAIN q = 1..Len(q) /\ (q # <<>> <=> Len(q) >= 1)
         /\ q # <<>> => Head(q) = q[1]
<1>1. PICK S : q \in Seq(S)
  BY DEF IsSeq
<1> QED BY <1>1

(* A byte more. *)
LEMMA SeqMore ==
  ASSUME NEW q, IsSeq(q), NEW x
  PROVE  /\ IsSeq(Append(q, x)) /\ Len(Append(q, x)) = Len(q) + 1
         /\ \A i \in 1..Len(q) : Append(q, x)[i] = q[i]
         /\ Append(q, x)[Len(q) + 1] = x
<1>1. PICK S : q \in Seq(S)
  BY DEF IsSeq
<1>2. q \in Seq(S \cup {x}) /\ x \in S \cup {x}
  BY <1>1, SeqDef
<1>3. Append(q, x) \in Seq(S \cup {x})
  BY <1>2
<1>4. IsSeq(Append(q, x))
  BY <1>3 DEF IsSeq
<1> QED BY <1>2, <1>4

(* A byte less. *)
LEMMA SeqLess ==
  ASSUME NEW q, IsSeq(q), q # <<>>
  PROVE  /\ IsSeq(Tail(q)) /\ Len(Tail(q)) = Len(q) - 1
         /\ \A i \in 1..(Len(q) - 1) : i + 1 \in 1..Len(q) /\ Tail(q)[i] = q[i + 1]
<1>1. PICK S : q \in Seq(S)
  BY DEF IsSeq
<1>2. Tail(q) \in Seq(S)
  BY <1>1
<1>3. IsSeq(Tail(q))
  BY <1>2 DEF IsSeq
<1> QED BY <1>1, <1>3

(* Nothing. *)
LEMMA SeqNone == IsSeq(<<>>) /\ Len(<<>>) = 0
<1>1. <<>> \in Seq({})
  OBVIOUS
<1> QED BY <1>1 DEF IsSeq

-----------------------------------------------------------------------------
(* The ring *)

Following(k) == IF k = WsSize - 1 THEN 0 ELSE k + 1

(* A sum that wraps at most once. *)
LEMMA Wraps ==
  ASSUME NEW q \in Nat \ {0}, NEW a \in Nat, a < q + q
  PROVE  a % q = IF a < q THEN a ELSE a - q
<1>1. CASE a < q
  BY <1>1
<1>2. CASE ~(a < q)
  <2>1. PICK k \in Int, r \in Int : k = a \div q /\ r = a % q
    OBVIOUS
  <2>2. a = q * k + r /\ 0 <= r /\ r < q
    BY <2>1
  <2>3. k = 1
    <3>1. CASE k <= 0
      <4>1. q * k <= 0
        BY <3>1
      <4> QED BY <1>2, <2>2, <4>1
    <3>2. CASE k >= 2
      <4>1. q * k >= q + q
        BY <3>2
      <4> QED BY <2>2, <4>1
    <3> QED BY <3>1, <3>2
  <2> QED BY <1>2, <2>1, <2>2, <2>3
<1> QED BY <1>1, <1>2

(* The arithmetic of ws_rx_head and ws_rx_tail in terms of slots. *)
LEMMA RingShape ==
  ASSUME Shapes
  PROVE  /\ WsSize \in Nat \ {0} /\ RingLen = InRing(ws_rx_head)
         /\ \A k \in Slots : (k + 1) % WsSize = Following(k) /\ Following(k) \in Slots
<1>1. WsSize \in Nat \ {0}
  BY HostLinkAssumption
<1>2. ws_rx_head \in Slots /\ ws_rx_tail \in Slots
  BY DEF Shapes
<1>3. RingLen = InRing(ws_rx_head)
  <2> DEFINE a == ws_rx_head - ws_rx_tail + WsSize
  <2>1. a \in Nat /\ a < WsSize + WsSize
    BY <1>1, <1>2 DEF Slots
  <2>2. a % WsSize = IF a < WsSize THEN a ELSE a - WsSize
    <3> HIDE DEF a
    <3> QED BY <1>1, <2>1, Wraps
  <2> QED BY <1>1, <1>2, <2>2 DEF RingLen, InRing, Slots
<1>4. ASSUME NEW k \in Slots PROVE (k + 1) % WsSize = Following(k) /\ Following(k) \in Slots
  <2> DEFINE a == k + 1
  <2>1. a \in Nat /\ a < WsSize + WsSize
    BY <1>1 DEF Slots
  <2>2. a % WsSize = IF a < WsSize THEN a ELSE a - WsSize
    <3> HIDE DEF a
    <3> QED BY <1>1, <2>1, Wraps
  <2> QED BY <1>1, <2>2 DEF Following, Slots
<1> QED BY <1>1, <1>3, <1>4

(* The place of a slot in the ring. *)
LEMMA RingPlace ==
  ASSUME Shapes, NEW k \in Slots
  PROVE  /\ InRing(k) \in 0..(WsSize - 1) /\ (InRing(k) = 0 <=> k = ws_rx_tail)
         /\ InRing(ws_rx_tail) = 0
         /\ \A j \in Slots : InRing(j) = InRing(k) => j = k
         /\ Following(k) # ws_rx_tail => InRing(Following(k)) = InRing(k) + 1
<1>1. WsSize \in Nat \ {0} /\ ws_rx_tail \in Slots
  BY HostLinkAssumption DEF Shapes
<1> QED BY <1>1 DEF InRing, Slots, Following

(* The places move up by one when ws_rx_pop() has read a slot. *)
LEMMA RingPops ==
  ASSUME Shapes, ws_rx_tail' = Following(ws_rx_tail), NEW k \in Slots, k # ws_rx_tail
  PROVE  InRing(k)' = InRing(k) - 1
<1>1. WsSize \in Nat \ {0} /\ ws_rx_tail \in Slots
  BY HostLinkAssumption DEF Shapes
<1>2. InRing(k)' = IF k >= Following(ws_rx_tail) THEN k - Following(ws_rx_tail)
                   ELSE k - Following(ws_rx_tail) + WsSize
  BY DEF InRing
<1> QED BY <1>1, <1>2 DEF InRing, Slots, Following

-----------------------------------------------------------------------------
(* What every step keeps of the sockets and of the bytes' origin *)

(* At boot no byte is there. *)
LEMMA ShapeInit == Init => LinkShape
<1> SUFFICES ASSUME Init PROVE LinkShape
  OBVIOUS
<1>1. ExclusiveInv
  BY ExclusiveInit
<1>2. WsSize \in Nat \ {0}
  BY HostLinkAssumption
<1>3. Shapes
  <2>1. DOMAIN rx = RxTransports /\ \A t \in RxTransports : IsSeq(rx[t])
    BY SeqNone DEF Init, RxTransports
  <2>2. DOMAIN ws_rx_buf = Slots /\ ws_rx_head \in Slots /\ ws_rx_tail \in Slots
    BY <1>2 DEF Init, Slots
  <2>3. IsClean(clean)
    BY DEF Init, NoClean, IsClean
  <2> QED BY <2>1, <2>2, <2>3 DEF Init, Shapes
<1>4. KnownBytes
  BY SeqNone DEF Init, KnownBytes, Came, NoClean, Phantom
<1>5. SocketsHeld
  BY DEF Init, SocketsHeld
<1> QED BY <1>1, <1>3, <1>4, <1>5 DEF LinkShape

(* The bytes stay known while hosts come and go and nothing is read. *)
LEMMA KnownIdle ==
  ASSUME KnownBytes, Len(hosts) \in Nat, Len(hosts') \in Nat, Len(hosts) <= Len(hosts'),
         \A t \in RxTransports : rx'[t] = rx[t] \/ rx'[t] = <<>>,
         UNCHANGED <<ws_rx_buf, clean>>
  PROVE  KnownBytes'
<1>1. \A x : Came(x) => Came(x)'
  BY DEF Came
<1> QED BY <1>1, SeqNone DEF KnownBytes, RxTransports, Came

(* A host comes. *)
LEMMA ComesShape ==
  ASSUME LinkShape, NEW s \in Streams,
         UsbComes(s) \/ bt_connect_callback(s) \/ TcpConnects(s) \/ WsConnected(s)
  PROVE  LinkShape'
<1> DEFINE n == Len(hosts) + 1
<1>1. ExclusiveInv'
  BY ComesExclusive DEF LinkShape
<1>2. PICK t \in Transports : Comes(t, s) /\ (t = "usb" => UsbComes(s))
        /\ (t = "bt" => bt_connect_callback(s)) /\ (t = "tcp" => TcpConnects(s))
        /\ (t = "ws" => WsConnected(s))
  BY DEF UsbComes, bt_connect_callback, TcpConnects, WsConnected, Transports
<1>3. /\ DOMAIN hosts' = DOMAIN hosts \cup {n} /\ \A h \in DOMAIN hosts : hosts'[h] = hosts[h]
      /\ hosts'[n].on = t /\ hosts'[n].there = TRUE /\ Len(hosts) \in Nat /\ Len(hosts') = n
  BY <1>2, HostComes DEF LinkShape
<1>4. UNCHANGED <<rx, ring, polled, clean>> /\ alone' \in {0, n}
  BY <1>2 DEF Comes
<1>5. Shapes'
  <2>1. bt_connected' \in BOOLEAN
    BY <1>2 DEF LinkShape, Shapes, UsbComes, bt_connect_callback, TcpConnects, WsConnected,
       sockets, Transports
  <2> QED BY <1>3, <1>4, <2>1 DEF LinkShape, Shapes, ring
<1>6. KnownBytes'
  <2>1. Len(hosts') \in Nat /\ Len(hosts) <= Len(hosts')
    BY <1>3
  <2> QED BY <1>3, <1>4, <2>1, KnownIdle DEF LinkShape, ring
<1>7. SocketsHeld'
  <2> HIDE DEF n
  <2>1. waiting' = waiting \/ (waiting' = n /\ t = "tcp")
    BY <1>2 DEF UsbComes, bt_connect_callback, TcpConnects, WsConnected, sockets, Transports, n
  <2>2. ws_client' = ws_client \/ (ws_client' = n /\ t = "ws")
    BY <1>2 DEF UsbComes, bt_connect_callback, TcpConnects, WsConnected, sockets, Transports, n
  <2>3. bt_connected' = bt_connected \/ t = "bt"
    BY <1>2 DEF UsbComes, bt_connect_callback, TcpConnects, WsConnected, sockets, Transports
  <2>4. waiting' # 0 => /\ waiting' \in DOMAIN hosts'
                        /\ hosts'[waiting'].there /\ hosts'[waiting'].on = "tcp"
    BY <1>3, <2>1 DEF LinkShape, SocketsHeld
  <2>5. ws_client' # 0 => /\ ws_client' \in DOMAIN hosts'
                          /\ hosts'[ws_client'].there /\ hosts'[ws_client'].on = "ws"
    BY <1>3, <2>2 DEF LinkShape, SocketsHeld
  <2>6. bt_connected' => \E h \in DOMAIN hosts' : hosts'[h].there /\ hosts'[h].on = "bt"
    BY <1>3, <2>3 DEF LinkShape, SocketsHeld
  <2> QED BY <2>4, <2>5, <2>6 DEF SocketsHeld
<1> QED BY <1>1, <1>5, <1>6, <1>7 DEF LinkShape

(* A byte reaches a driver or the ring. *)
LEMMA WritesShape ==
  ASSUME LinkShape, NEW h \in DOMAIN hosts, Arrives(h) \/ ws_rx_push(h)
  PROVE  LinkShape'
<1>1. ExclusiveInv' /\ Writes(h)
  BY WritesExclusive DEF LinkShape, Arrives, ws_rx_push
<1>2. /\ DOMAIN hosts' = DOMAIN hosts /\ Len(hosts') = Len(hosts)
      /\ \A i \in DOMAIN hosts : hosts'[i].on = hosts[i].on /\ hosts'[i].there = hosts[i].there
  BY <1>1, HostWrites DEF LinkShape
<1>3. Len(hosts) \in Nat /\ h \in 0..Len(hosts) /\ hosts[h].on \in Transports
  <2>1. hosts \in Seq(HostRecord)
    BY DEF LinkShape, ExclusiveInv
  <2>2. Len(hosts) \in Nat /\ h \in 0..Len(hosts) /\ hosts[h] \in HostRecord
    BY <2>1
  <2> QED BY <2>2 DEF HostRecord
<1>4. UNCHANGED <<sockets, polled, clean>>
  BY <1>1 DEF Writes
<1>5. SocketsHeld'
  BY <1>2, <1>4 DEF LinkShape, SocketsHeld, sockets
<1>6. \A x : Came(x)' <=> Came(x)
  BY <1>2 DEF Came
<1>7. CASE Arrives(h)
  <2> DEFINE t == hosts[h].on
  <2>1. PICK x : x = ByteOf(h, hosts[h].written + 1)
    OBVIOUS
  <2>2. /\ rx' = [rx EXCEPT ![t] = Append(rx[t], x)] /\ UNCHANGED <<ring, alone>>
        /\ t \in RxTransports
    BY <1>3, <1>7, <2>1 DEF Arrives, Writes, Transports, RxTransports
  <2>3. Came(x)
    BY <1>3, <2>1 DEF ByteOf, Came
  <2> HIDE DEF t
  <2>4. /\ DOMAIN rx' = RxTransports /\ rx'[t] = Append(rx[t], x) /\ IsSeq(rx[t])
        /\ \A u \in RxTransports \ {t} : rx'[u] = rx[u]
    BY <2>2 DEF LinkShape, Shapes
  <2>5. /\ IsSeq(rx'[t]) /\ Len(rx'[t]) = Len(rx[t]) + 1
        /\ \A i \in 1..Len(rx[t]) : rx'[t][i] = rx[t][i]
        /\ rx'[t][Len(rx[t]) + 1] = x /\ Len(rx[t]) \in Nat
    BY <2>4, SeqMore, SeqShape
  <2>6. \A i \in 1..Len(rx'[t]) : Came(rx'[t][i])
    <3>1. \A i \in 1..Len(rx'[t]) : i \in 1..Len(rx[t]) \/ i = Len(rx[t]) + 1
      BY <2>5
    <3>2. \A i \in 1..Len(rx[t]) : Came(rx[t][i])
      BY <2>2 DEF LinkShape, KnownBytes, RxTransports
    <3> QED BY <2>3, <2>5, <3>1, <3>2
  <2>7. \A u \in RxTransports : IsSeq(rx'[u]) /\ \A i \in 1..Len(rx'[u]) : Came(rx'[u][i])
    <3>1. \A u \in RxTransports : IsSeq(rx[u]) /\ \A i \in 1..Len(rx[u]) : Came(rx[u][i])
      BY DEF LinkShape, Shapes, KnownBytes, RxTransports
    <3> QED BY <2>4, <2>5, <2>6, <3>1
  <2>8. Shapes'
    BY <1>2, <1>4, <2>2, <2>4, <2>7 DEF LinkShape, Shapes, ring, sockets
  <2>9. KnownBytes'
    BY <1>4, <1>6, <2>2, <2>7 DEF LinkShape, KnownBytes, ring, RxTransports
  <2> QED BY <1>1, <1>5, <2>8, <2>9 DEF LinkShape
<1>8. CASE ws_rx_push(h)
  <2>1. UNCHANGED <<rx, alone, ws_rx_tail>>
    BY <1>8 DEF ws_rx_push, Writes, ring
  <2>2. PICK x : x = ByteOf(h, hosts[h].written + 1)
    OBVIOUS
  <2>3. \/ UNCHANGED ring
        \/ /\ ws_rx_buf' = [ws_rx_buf EXCEPT ![ws_rx_head] = x]
           /\ ws_rx_head' = (ws_rx_head + 1) % WsSize
    BY <1>8, <2>2 DEF ws_rx_push
  <2>4. Came(x)
    BY <1>3, <2>2 DEF ByteOf, Came
  <2>5. ws_rx_head' \in Slots
    BY <2>3, RingShape DEF LinkShape, Shapes, ring
  <2>6. DOMAIN ws_rx_buf' = Slots /\ \A k \in Slots : Came(ws_rx_buf'[k])
    BY <2>3, <2>4 DEF LinkShape, Shapes, KnownBytes, ring, Slots
  <2>7. Shapes'
    BY <1>2, <1>3, <1>4, <2>1, <2>5, <2>6 DEF LinkShape, Shapes, sockets
  <2>8. KnownBytes'
    BY <1>4, <1>6, <2>1, <2>6 DEF LinkShape, KnownBytes, Slots
  <2> QED BY <1>1, <1>5, <2>7, <2>8 DEF LinkShape
<1> QED BY <1>7, <1>8

(* A host leaves. *)
LEMMA LeavesShape ==
  ASSUME LinkShape, NEW h \in DOMAIN hosts, Leaves(h)
  PROVE  LinkShape'
<1>1. ExclusiveInv' /\ Gone(h)
  BY LeavesExclusive DEF LinkShape, Leaves
<1>2. /\ DOMAIN hosts' = DOMAIN hosts /\ Len(hosts') = Len(hosts)
      /\ \A i \in DOMAIN hosts \ {h} : hosts'[i] = hosts[i]
  BY <1>1, HostGone DEF LinkShape
<1>3. Len(hosts) \in Nat /\ hosts[h].on \in Transports
  <2>1. hosts \in Seq(HostRecord)
    BY DEF LinkShape, ExclusiveInv
  <2>2. Len(hosts) \in Nat /\ hosts[h] \in HostRecord
    BY <2>1
  <2> QED BY <2>2 DEF HostRecord
<1>4. UNCHANGED <<polled, alone, clean, ring>>
  BY <1>3 DEF Leaves, Transports
<1>5. rx' = rx \/ rx' = [rx EXCEPT !["tcp"] = <<>>]
  BY <1>3 DEF Leaves, Transports
<1>6. DOMAIN rx' = RxTransports /\ \A t \in RxTransports : rx'[t] = rx[t] \/ rx'[t] = <<>>
  BY <1>5 DEF LinkShape, Shapes
<1>7. bt_connected' \in BOOLEAN
  BY <1>3 DEF Leaves, Transports, sockets, LinkShape, Shapes
<1>8. Shapes'
  <2>1. \A t \in RxTransports : IsSeq(rx'[t])
    BY <1>6, SeqNone DEF LinkShape, Shapes
  <2> QED BY <1>2, <1>4, <1>6, <1>7, <2>1 DEF LinkShape, Shapes, ring
<1>9. KnownBytes'
  <2>1. Len(hosts') \in Nat /\ Len(hosts) <= Len(hosts')
    BY <1>2, <1>3
  <2> QED BY <1>3, <1>4, <1>6, <2>1, KnownIdle DEF LinkShape, ring
<1>10. SocketsHeld'
  <2>1. waiting' = 0 \/ (waiting' = waiting /\ waiting # h)
    BY <1>3 DEF Leaves, Transports, sockets, LinkShape, SocketsHeld
  <2>2. ws_client' = 0 \/ (ws_client' = ws_client /\ ws_client # h)
    BY <1>3 DEF Leaves, Transports, sockets, LinkShape, SocketsHeld
  <2>3. bt_connected' = FALSE \/ (bt_connected' = bt_connected /\ hosts[h].on # "bt")
    BY <1>3 DEF Leaves, Transports, sockets
  <2>4. waiting' # 0 => /\ waiting' \in DOMAIN hosts'
                        /\ hosts'[waiting'].there /\ hosts'[waiting'].on = "tcp"
    BY <1>2, <2>1 DEF LinkShape, SocketsHeld
  <2>5. ws_client' # 0 => /\ ws_client' \in DOMAIN hosts'
                          /\ hosts'[ws_client'].there /\ hosts'[ws_client'].on = "ws"
    BY <1>2, <2>2 DEF LinkShape, SocketsHeld
  <2>6. bt_connected' => \E i \in DOMAIN hosts' : hosts'[i].there /\ hosts'[i].on = "bt"
    <3> SUFFICES ASSUME bt_connected' PROVE \E i \in DOMAIN hosts' : hosts'[i].there /\ hosts'[i].on = "bt"
      OBVIOUS
    <3>1. PICK i \in DOMAIN hosts : hosts[i].there /\ hosts[i].on = "bt"
      BY <2>3 DEF LinkShape, SocketsHeld
    <3>2. i # h
      BY <2>3, <3>1
    <3> QED BY <1>2, <3>1, <3>2
  <2> QED BY <2>4, <2>5, <2>6 DEF SocketsHeld
<1> QED BY <1>1, <1>8, <1>9, <1>10 DEF LinkShape

(* wifi_remote_close_all() frees what TCP hosts had, and only that. *)
LEMMA CloseShape ==
  ASSUME LinkShape, wifi_remote_close_all, UNCHANGED <<ring, bt_connected, ws_client, alone>>
  PROVE  /\ SocketsHeld' /\ ExclusiveInv' /\ Len(hosts') = Len(hosts) /\ Len(hosts) \in Nat
         /\ DOMAIN rx' = RxTransports /\ \A t \in RxTransports : IsSeq(rx'[t])
         /\ \A t \in RxTransports : rx'[t] = rx[t] \/ rx'[t] = <<>>
<1>1. /\ DOMAIN hosts' = DOMAIN hosts /\ Len(hosts') = Len(hosts)
      /\ \A h \in DOMAIN hosts : hosts[h].on # "tcp" => hosts'[h] = hosts[h]
  BY HostsClosed DEF LinkShape
<1>2. ExclusiveInv'
  BY CloseExclusive DEF LinkShape
<1>3. Len(hosts) \in Nat
  BY DEF LinkShape, ExclusiveInv
<1>4. DOMAIN rx' = RxTransports /\ \A t \in RxTransports : rx'[t] = rx[t] \/ rx'[t] = <<>>
  BY DEF wifi_remote_close_all, LinkShape, Shapes
<1>5. \A t \in RxTransports : IsSeq(rx'[t])
  BY <1>4, SeqNone DEF LinkShape, Shapes
<1>6. SocketsHeld'
  <2>1. waiting' = 0
    BY DEF wifi_remote_close_all
  <2>2. bt_connected' => \E i \in DOMAIN hosts' : hosts'[i].there /\ hosts'[i].on = "bt"
    <3> SUFFICES ASSUME bt_connected PROVE \E i \in DOMAIN hosts' : hosts'[i].there /\ hosts'[i].on = "bt"
      OBVIOUS
    <3>1. PICK i \in DOMAIN hosts : hosts[i].there /\ hosts[i].on = "bt"
      BY DEF LinkShape, SocketsHeld
    <3> QED BY <1>1, <3>1
  <2> QED BY <1>1, <2>1, <2>2 DEF LinkShape, SocketsHeld
<1> QED BY <1>1, <1>2, <1>3, <1>4, <1>5, <1>6

(* buffer_serial() asks for a byte. *)
LEMMA PollShape == ASSUME LinkShape, Poll PROVE LinkShape'
<1>1. ExclusiveInv'
  BY PollExclusive DEF LinkShape
<1>2. UNCHANGED <<ring, bt_connected, ws_client, alone, clean>> /\ polled' \in BOOLEAN
  BY DEF Poll
<1>3. Len(hosts) \in Nat
  BY DEF LinkShape, ExclusiveInv
<1>4. CASE TcpDropped
  <2>1. /\ SocketsHeld' /\ Len(hosts') = Len(hosts)
        /\ DOMAIN rx' = RxTransports /\ \A t \in RxTransports : IsSeq(rx'[t])
        /\ \A t \in RxTransports : rx'[t] = rx[t] \/ rx'[t] = <<>>
    BY <1>2, <1>4, CloseShape DEF TcpDropped
  <2>2. Shapes'
    BY <1>2, <2>1 DEF LinkShape, Shapes, ring
  <2>3. KnownBytes'
    <3>1. Len(hosts') \in Nat /\ Len(hosts) <= Len(hosts')
      BY <1>3, <2>1
    <3> QED BY <1>2, <1>3, <2>1, <3>1, KnownIdle DEF LinkShape, ring
  <2> QED BY <1>1, <2>1, <2>2, <2>3 DEF LinkShape
<1>5. CASE UNCHANGED <<hosts, rx>> /\ waiting' \in {0, waiting}
  <2>1. Shapes'
    BY <1>2, <1>5 DEF LinkShape, Shapes, ring
  <2>2. KnownBytes'
    BY <1>2, <1>5 DEF LinkShape, KnownBytes, ring, Came
  <2>3. SocketsHeld'
    BY <1>2, <1>5 DEF LinkShape, SocketsHeld
  <2> QED BY <1>1, <2>1, <2>2, <2>3 DEF LinkShape
<1>6. CASE TcpRefused
  <2>1. waiting \in DOMAIN hosts /\ hosts[waiting].on = "tcp" /\ Gone(waiting) /\ waiting' = 0
        /\ UNCHANGED rx
    BY <1>6 DEF TcpRefused, LinkShape, SocketsHeld
  <2>2. /\ DOMAIN hosts' = DOMAIN hosts /\ Len(hosts') = Len(hosts)
        /\ \A i \in DOMAIN hosts \ {waiting} : hosts'[i] = hosts[i]
    BY <2>1, HostGone DEF LinkShape
  <2>3. Shapes'
    BY <1>2, <2>1, <2>2 DEF LinkShape, Shapes, ring
  <2>4. KnownBytes'
    BY <1>2, <2>1, <2>2 DEF LinkShape, KnownBytes, ring, Came
  <2>5. SocketsHeld'
    <3>1. bt_connected' => \E i \in DOMAIN hosts' : hosts'[i].there /\ hosts'[i].on = "bt"
      <4> SUFFICES ASSUME bt_connected
                   PROVE  \E i \in DOMAIN hosts' : hosts'[i].there /\ hosts'[i].on = "bt"
        BY <1>2
      <4>1. PICK i \in DOMAIN hosts : hosts[i].there /\ hosts[i].on = "bt"
        BY DEF LinkShape, SocketsHeld
      <4> QED BY <2>1, <2>2, <4>1
    <3> QED BY <1>2, <2>1, <2>2, <3>1 DEF LinkShape, SocketsHeld
  <2> QED BY <1>1, <2>3, <2>4, <2>5 DEF LinkShape
<1> QED BY <1>4, <1>5, <1>6 DEF Poll, TcpIdle, TcpAccepted

(* Parsing a byte: how many of its host's bytes were parsed in a row. *)
LEMMA ParseClean ==
  ASSUME IsClean(clean), NEW x, x.host \in Nat, Parse(x)
  PROVE  /\ IsClean(clean)' /\ clean'.host \in {0, x.host}
         /\ x.host # 0 /\ x.pos = 1 => clean'.host = x.host /\ clean'.bytes = 1
         /\ x.host # 0 /\ x.host = clean.host /\ x.pos = clean.bytes + 1 =>
               clean'.host = x.host /\ clean'.bytes = x.pos
<1>1. CASE x.host # 0 /\ x.pos = 1
  <2> DEFINE ca == Carried(kiss, x.b)
             le == kiss.IN_FRAME /\ kiss.command \in {CMD_DATA, CMD_SYNC_WORD}
  <2>1. clean' = [host |-> x.host, bytes |-> 1, carried |-> ca, escape |-> kiss.ESCAPE, left |-> le]
    <3> DEFINE first == x.host # 0 /\ x.pos = 1
               next == x.host # 0 /\ x.host = clean.host /\ x.pos = clean.bytes + 1
               a == [host |-> x.host, bytes |-> 1, carried |-> ca, escape |-> kiss.ESCAPE,
                     left |-> le]
               b == [clean EXCEPT !.bytes = @ + 1, !.carried = @ \o Carried(kiss, x.b)]
    <3>1. clean' = CASE first -> a [] next -> b [] OTHER -> NoClean
      BY DEF Parse
    <3> HIDE DEF first, next, a, b
    <3>2. first /\ ~next
      BY <1>1 DEF first, next, IsClean
    <3>3. clean' = a
      BY <3>1, <3>2
    <3> QED BY <3>3 DEF a
  <2> HIDE DEF ca, le
  <2> QED BY <1>1, <2>1 DEF IsClean
<1>2. CASE ~(x.host # 0 /\ x.pos = 1) /\ x.host # 0 /\ x.host = clean.host /\ x.pos = clean.bytes + 1
  <2>1. clean' = [clean EXCEPT !.bytes = @ + 1, !.carried = @ \o Carried(kiss, x.b)]
    BY <1>2 DEF Parse
  <2>2. PICK ca : clean' = [clean EXCEPT !.bytes = clean.bytes + 1, !.carried = ca]
    BY <2>1 DEF IsClean
  <2>3. clean' = [host |-> clean.host, bytes |-> clean.bytes + 1, carried |-> ca,
                  escape |-> clean.escape, left |-> clean.left]
    BY <2>2 DEF IsClean
  <2>4. /\ clean'.host = clean.host /\ clean'.bytes = clean.bytes + 1 /\ clean'.carried = ca
        /\ clean'.escape = clean.escape /\ clean'.left = clean.left
    BY <2>3
  <2> QED BY <1>2, <2>3, <2>4 DEF IsClean
<1>3. CASE ~(x.host # 0 /\ x.pos = 1) /\ ~(x.host # 0 /\ x.host = clean.host /\ x.pos = clean.bytes + 1)
  <2>1. clean' = NoClean
    BY <1>3 DEF Parse
  <2> QED BY <1>3, <2>1 DEF IsClean, NoClean
<1> QED BY <1>1, <1>2, <1>3

(* A byte is read from a driver or from the ring. *)
LEMMA ReadKeeps ==
  ASSUME LinkShape, ExclusiveInv', SocketsHeld', Len(hosts') = Len(hosts),
         NEW x, Came(x), Parse(x), DOMAIN rx' = RxTransports,
         \A t \in RxTransports : \/ rx'[t] = rx[t] \/ rx'[t] = <<>>
                                 \/ rx[t] # <<>> /\ rx'[t] = Tail(rx[t]),
         UNCHANGED <<ws_rx_buf, ws_rx_head, bt_connected, alone>>, ws_rx_tail' \in Slots
  PROVE  LinkShape'
<1>1. Len(hosts) \in Nat
  BY DEF LinkShape, ExclusiveInv
<1>2. x.host \in Nat /\ IsClean(clean) /\ clean.host \in 0..Len(hosts)
  BY <1>1 DEF Came, LinkShape, Shapes, KnownBytes
<1>3. IsClean(clean)' /\ clean'.host \in {0, x.host} /\ polled' = FALSE
  BY <1>2, ParseClean DEF Parse
<1>4. \A y : Came(y)' <=> Came(y)
  BY DEF Came
<1>5. Came(clean)'
  BY <1>1, <1>3 DEF Came
<1>6. ASSUME NEW t \in RxTransports
      PROVE  IsSeq(rx'[t]) /\ \A i \in 1..Len(rx'[t]) : Came(rx'[t][i])
  <2>1. IsSeq(rx[t]) /\ \A i \in 1..Len(rx[t]) : Came(rx[t][i])
    BY DEF LinkShape, Shapes, KnownBytes, RxTransports
  <2>2. CASE rx[t] # <<>> /\ rx'[t] = Tail(rx[t])
    BY <2>1, <2>2, SeqLess
  <2> QED BY <2>1, <2>2, SeqNone
<1>7. Shapes'
  BY <1>3, <1>6 DEF LinkShape, Shapes
<1>8. KnownBytes'
  BY <1>4, <1>5, <1>6 DEF LinkShape, KnownBytes, RxTransports
<1> QED BY <1>7, <1>8 DEF LinkShape

(* Whichever transport buffer_serial() reads from. *)
LEMMA ReadShape == ASSUME LinkShape, Read PROVE LinkShape'
<1>1. ExclusiveInv' /\ Len(hosts) \in Nat
  BY ReadExclusive DEF LinkShape, ExclusiveInv
<1>2. \A b : Came(Phantom(b))
  BY <1>1 DEF Came, Phantom
<1>3. \A t \in RxTransports : rx[t] # <<>> => Came(Head(rx[t]))
  <2> SUFFICES ASSUME NEW t \in RxTransports, rx[t] # <<>> PROVE Came(Head(rx[t]))
    OBVIOUS
  <2>1. IsSeq(rx[t])
    BY DEF LinkShape, Shapes
  <2>2. Head(rx[t]) = rx[t][1] /\ 1 \in 1..Len(rx[t])
    BY <2>1, SeqShape
  <2> QED BY <2>2 DEF LinkShape, KnownBytes, RxTransports
<1>4. ws_rx_tail \in Slots /\ DOMAIN rx = RxTransports
  BY DEF LinkShape, Shapes
<1>5. ASSUME NEW t \in RxTransports, ReadDirect(t) PROVE LinkShape'
  <2>1. PICK x : x = IF rx[t] = <<>> THEN Phantom(NoByte) ELSE Head(rx[t])
    OBVIOUS
  <2>2. Came(x) /\ Parse(x)
    BY <1>2, <1>3, <1>5, <2>1 DEF ReadDirect
  <2>3. UNCHANGED <<hosts, ring, sockets, alone>>
    BY <1>5 DEF ReadDirect
  <2>4. /\ DOMAIN rx' = RxTransports
        /\ \A u \in RxTransports : \/ rx'[u] = rx[u] \/ rx'[u] = <<>>
                                   \/ rx[u] # <<>> /\ rx'[u] = Tail(rx[u])
    BY <1>4, <1>5 DEF ReadDirect
  <2>5. SocketsHeld'
    BY <2>3 DEF LinkShape, SocketsHeld, sockets
  <2> QED BY <1>1, <1>4, <2>2, <2>3, <2>4, <2>5, ReadKeeps DEF ring, sockets
<1>6. CASE wifi_remote_read
  <2>1. UNCHANGED <<ring, bt_connected, ws_client, alone>>
    BY <1>6 DEF wifi_remote_read
  <2>2. CASE rx["tcp"] # <<>>
    <3>1. PICK x : x = Head(rx["tcp"])
      OBVIOUS
    <3>2. Came(x) /\ Parse(x)
      BY <1>3, <1>6, <2>2, <3>1 DEF wifi_remote_read, RxTransports
    <3>3. UNCHANGED <<hosts, connection, waiting>> /\ rx' = [rx EXCEPT !["tcp"] = Tail(@)]
      BY <1>6, <2>2 DEF wifi_remote_read
    <3>4. /\ DOMAIN rx' = RxTransports
          /\ \A u \in RxTransports : \/ rx'[u] = rx[u] \/ rx'[u] = <<>>
                                     \/ rx[u] # <<>> /\ rx'[u] = Tail(rx[u])
      BY <1>4, <2>2, <3>3
    <3>5. SocketsHeld'
      BY <2>1, <3>3 DEF LinkShape, SocketsHeld
    <3> QED BY <1>1, <1>4, <2>1, <3>2, <3>3, <3>4, <3>5, ReadKeeps DEF ring
  <2>3. CASE rx["tcp"] = <<>>
    <3>1. PICK x : x = Phantom(FEND)
      OBVIOUS
    <3>2. Came(x) /\ Parse(x) /\ wifi_remote_close_all
      BY <1>2, <1>6, <2>3, <3>1 DEF wifi_remote_read
    <3>3. /\ SocketsHeld' /\ Len(hosts') = Len(hosts) /\ DOMAIN rx' = RxTransports
          /\ \A t \in RxTransports : rx'[t] = rx[t] \/ rx'[t] = <<>>
      BY <2>1, <3>2, CloseShape
    <3> QED BY <1>1, <1>4, <2>1, <3>2, <3>3, ReadKeeps DEF ring
  <2> QED BY <2>2, <2>3
<1>7. CASE ws_remote_read
  <2>1. PICK x : x = ws_rx_buf[ws_rx_tail]
    OBVIOUS
  <2>2. Came(x) /\ Parse(x)
    BY <1>4, <1>7, <2>1 DEF ws_remote_read, LinkShape, KnownBytes, Slots
  <2>3. /\ UNCHANGED <<hosts, rx, ws_rx_buf, ws_rx_head, sockets, alone>>
        /\ ws_rx_tail' = (ws_rx_tail + 1) % WsSize
    BY <1>7 DEF ws_remote_read
  <2>4. ws_rx_tail' \in Slots
    BY <1>4, <2>3, RingShape DEF LinkShape
  <2>5. SocketsHeld'
    BY <2>3 DEF LinkShape, SocketsHeld, sockets
  <2> QED BY <1>1, <1>4, <2>2, <2>3, <2>4, <2>5, ReadKeeps DEF sockets
<1> QED BY <1>5, <1>6, <1>7 DEF Read, RxTransports

(* Every step keeps it. *)
LEMMA ShapeStep == LinkShape /\ [Next]_vars => LinkShape'
<1> SUFFICES ASSUME LinkShape, [Next]_vars PROVE LinkShape'
  OBVIOUS
<1>1. ASSUME NEW s \in Streams,
             UsbComes(s) \/ bt_connect_callback(s) \/ TcpConnects(s) \/ WsConnected(s)
      PROVE  LinkShape'
  BY <1>1, ComesShape
<1>2. ASSUME NEW h \in DOMAIN hosts, Arrives(h) \/ ws_rx_push(h) PROVE LinkShape'
  BY <1>2, WritesShape
<1>3. ASSUME NEW h \in DOMAIN hosts, Leaves(h) PROVE LinkShape'
  BY <1>3, LeavesShape
<1>4. CASE Poll
  BY <1>4, PollShape
<1>5. CASE Read
  BY <1>5, ReadShape
<1>6. CASE UNCHANGED vars
  <2>1. ExclusiveInv'
    BY <1>6, IdleExclusive DEF LinkShape, vars, sockets
  <2>2. SocketsHeld'
    BY <1>6 DEF LinkShape, SocketsHeld, vars, sockets
  <2>3. KnownBytes'
    BY <1>6 DEF LinkShape, KnownBytes, Came, vars, ring
  <2>4. Shapes'
    BY <1>6 DEF LinkShape, Shapes, vars, ring, sockets
  <2> QED BY <2>1, <2>2, <2>3, <2>4 DEF LinkShape
<1> QED BY <1>1, <1>2, <1>3, <1>4, <1>5, <1>6 DEF Next

-----------------------------------------------------------------------------
(* The steps while host h is the only one *)

(* Every socket that is open is h's. *)
LEMMA LoneSockets ==
  ASSUME LinkShape, NEW h \in DOMAIN hosts, hosts[h].there, LoneHost(h)
  PROVE  /\ hosts[h].on \in Transports /\ hosts[h].written \in Nat /\ h \in Nat \ {0}
         /\ bt_connected <=> hosts[h].on = "bt"
         /\ ws_client # 0 <=> hosts[h].on = "ws"
         /\ waiting # 0 => waiting = h /\ hosts[h].on = "tcp"
         /\ Got(h) \in Nat
<1>1. hosts[h] \in HostRecord /\ h \in Nat \ {0}
  BY DEF LinkShape, ExclusiveInv
<1>2. hosts[h].on \in Transports /\ hosts[h].written \in Nat
  BY <1>1 DEF HostRecord
<1>3. \A i \in DOMAIN hosts : hosts[i].there => i = h
  BY DEF LoneHost, Undisturbed
<1>4. bt_connected <=> hosts[h].on = "bt"
  BY <1>3 DEF LoneHost, Undisturbed, LinkShape, SocketsHeld
<1>5. ws_client # 0 <=> hosts[h].on = "ws"
  BY <1>1, <1>3 DEF LoneHost, Undisturbed, LinkShape, SocketsHeld
<1>6. waiting # 0 => waiting = h /\ hosts[h].on = "tcp"
  BY <1>3 DEF LinkShape, SocketsHeld
<1>7. Got(h) \in Nat
  BY DEF Got, LinkShape, Shapes, IsClean
<1> QED BY <1>1, <1>2, <1>4, <1>5, <1>6, <1>7

(* Its next byte goes behind those its driver holds. *)
LEMMA LoneArrives ==
  ASSUME LinkShape, NEW h \in DOMAIN hosts, hosts[h].there, LoneHost(h), Arrives(h)
  PROVE  LoneHost(h)'
<1>1. PICK t : t = hosts[h].on
  OBVIOUS
<1>2. PICK x : x = ByteOf(h, hosts[h].written + 1)
  OBVIOUS
<1>3. /\ DOMAIN hosts' = DOMAIN hosts
      /\ \A i \in DOMAIN hosts : hosts'[i].on = hosts[i].on /\ hosts'[i].there = hosts[i].there
      /\ hosts'[h].written = hosts[h].written + 1
  BY HostWrites DEF LinkShape, Arrives
<1>4. t \in RxTransports /\ t # "ws" /\ Got(h) \in Nat
  BY <1>1, LoneSockets DEF Arrives, Transports, RxTransports
<1>5. /\ rx' = [rx EXCEPT ![t] = Append(rx[t], x)] /\ UNCHANGED <<ring, sockets, polled, clean>>
      /\ t = "tcp" => connection = "open"
  BY <1>1, <1>2 DEF Arrives, Writes
<1>6. /\ rx'[t] = Append(rx[t], x) /\ \A u \in RxTransports \ {t} : rx'[u] = rx[u]
      /\ IsSeq(rx[t])
  BY <1>4, <1>5 DEF LinkShape, Shapes
<1>7. /\ Len(rx'[t]) = Len(rx[t]) + 1 /\ Len(rx[t]) \in Nat
      /\ \A i \in 1..Len(rx[t]) : rx'[t][i] = rx[t][i]
      /\ rx'[t][Len(rx[t]) + 1] = x /\ IsSeq(rx'[t])
  BY <1>6, SeqMore, SeqShape
<1>8. Got(h)' = Got(h)
  BY <1>5 DEF Got
<1>9. /\ hosts[h].written = Got(h) + Len(rx[t])
      /\ \A i \in 1..Len(rx[t]) : rx[t][i].host = h /\ rx[t][i].pos = Got(h) + i
  BY <1>1, <1>4 DEF LoneHost, DriverHolds
<1>10. x.host = h /\ x.pos = Got(h) + (Len(rx[t]) + 1)
  BY <1>2, <1>4, <1>7, <1>9 DEF ByteOf
<1>11. DriverHolds(h)'
  <2>1. hosts'[h].written = Got(h) + Len(rx'[t])
    BY <1>3, <1>4, <1>7, <1>9
  <2>2. \A i \in 1..Len(rx'[t]) : i \in 1..Len(rx[t]) \/ i = Len(rx[t]) + 1
    BY <1>7
  <2>3. \A i \in 1..Len(rx'[t]) : rx'[t][i].host = h /\ rx'[t][i].pos = Got(h) + i
    BY <1>7, <1>9, <1>10, <2>2
  <2>4. rx'[t] # <<>>
    BY <1>7, SeqShape
  <2>5. hosts'[h].on = t
    BY <1>1, <1>3
  <2> QED BY <1>8, <2>1, <2>3, <2>4, <2>5 DEF DriverHolds
<1>12. Undisturbed(h)'
  BY <1>1, <1>3, <1>4, <1>5, <1>6 DEF LoneHost, Undisturbed, ring, sockets, RxTransports
<1> QED BY <1>1, <1>3, <1>4, <1>11, <1>12 DEF LoneHost

(* Or into the next slot of the ring. *)
LEMMA LonePush ==
  ASSUME LinkShape, NEW h \in DOMAIN hosts, hosts[h].there, LoneHost(h), ws_rx_push(h),
         ~ws_rx_isfull
  PROVE  LoneHost(h)'
<1>1. PICK x, hd : x = ByteOf(h, hosts[h].written + 1) /\ hd = ws_rx_head
  OBVIOUS
<1>2. Shapes /\ hd \in Slots /\ Got(h) \in Nat /\ h # 0 /\ DOMAIN ws_rx_buf = Slots
  BY <1>1, LoneSockets DEF LinkShape, Shapes
<1>3. hosts[h].on = "ws"
  BY <1>2 DEF ws_rx_push, LinkShape, SocketsHeld
<1>4. /\ DOMAIN hosts' = DOMAIN hosts
      /\ \A i \in DOMAIN hosts : hosts'[i].on = hosts[i].on /\ hosts'[i].there = hosts[i].there
      /\ hosts'[h].written = hosts[h].written + 1
  BY HostWrites DEF LinkShape, ws_rx_push
<1>5. /\ ws_rx_buf' = [ws_rx_buf EXCEPT ![hd] = x] /\ ws_rx_head' = (hd + 1) % WsSize
      /\ UNCHANGED <<ws_rx_tail, rx, sockets, polled, clean>> /\ ~polled
      /\ (hd + 1) % WsSize # ws_rx_tail
  BY <1>1 DEF ws_rx_push, Writes, ws_rx_isfull
<1>6. ws_rx_head' = Following(hd) /\ Following(hd) # ws_rx_tail /\ Following(hd) \in Slots
  BY <1>2, <1>5, RingShape
<1>7. InRing(Following(hd)) = InRing(hd) + 1 /\ InRing(hd) \in Nat
  BY <1>2, <1>6, RingPlace
<1>8. \A k : InRing(k)' = InRing(k)
  BY <1>5 DEF InRing
<1>9. InRing(ws_rx_head)' = InRing(hd) + 1
  <2>1. InRing(ws_rx_head)' = InRing(Following(hd))
    BY <1>5, <1>6 DEF InRing
  <2> QED BY <1>7, <2>1
<1>10. /\ hosts[h].written = Got(h) + InRing(hd)
       /\ \A k \in Slots : InRing(k) < InRing(hd) =>
            ws_rx_buf[k].host = h /\ ws_rx_buf[k].pos = Got(h) + InRing(k) + 1
  BY <1>1, <1>3 DEF LoneHost, RingHolds, Slots
<1>11. x.host = h /\ x.pos = Got(h) + InRing(hd) + 1
  BY <1>1, <1>10 DEF ByteOf
<1>12. Got(h)' = Got(h)
  BY <1>5 DEF Got
<1>13. RingHolds(h)'
  <2>1. hosts'[h].written = Got(h) + (InRing(hd) + 1)
    BY <1>2, <1>4, <1>7, <1>10
  <2>2. ASSUME NEW k \in Slots, InRing(k) < InRing(hd) + 1
        PROVE  ws_rx_buf'[k].host = h /\ ws_rx_buf'[k].pos = Got(h) + InRing(k) + 1
    <3>1. InRing(k) \in Nat /\ (InRing(k) = InRing(hd) => k = hd)
      BY <1>2, <2>2, RingPlace
    <3>2. CASE InRing(k) < InRing(hd)
      <4>1. k # hd
        BY <1>7, <3>2
      <4> QED BY <1>2, <1>5, <1>10, <3>2, <4>1
    <3>3. CASE ~(InRing(k) < InRing(hd))
      <4>1. k = hd
        BY <1>7, <2>2, <3>1, <3>3
      <4>2. ws_rx_buf'[k] = x
        BY <1>2, <1>5, <4>1
      <4> QED BY <1>11, <4>1, <4>2
    <3> QED BY <3>2, <3>3
  <2> QED BY <1>5, <1>8, <1>9, <1>12, <2>1, <2>2 DEF RingHolds, Slots
<1>14. Undisturbed(h)'
  BY <1>3, <1>4, <1>5 DEF LoneHost, Undisturbed, sockets
<1> QED BY <1>3, <1>4, <1>13, <1>14 DEF LoneHost

(* Asking for a byte disturbs nothing; a connection it drops was h's own. *)
LEMMA LonePoll ==
  ASSUME LinkShape, NEW h \in DOMAIN hosts, hosts[h].there, LoneHost(h), Poll, hosts'[h].there
  PROVE  LoneHost(h)'
<1>1. /\ hosts[h].on \in Transports /\ (bt_connected <=> hosts[h].on = "bt")
      /\ (ws_client # 0 <=> hosts[h].on = "ws")
      /\ (waiting # 0 => waiting = h /\ hosts[h].on = "tcp")
  BY LoneSockets
<1>2. UNCHANGED <<ring, bt_connected, ws_client, clean>>
  BY DEF Poll
<1>3. Undisturbed(h)
  BY DEF LoneHost
<1>4. ~TcpDropped
  <2> SUFFICES ASSUME TcpDropped PROVE FALSE
    OBVIOUS
  <2>1. connection # "none" /\ wifi_remote_close_all
    BY DEF TcpDropped
  <2>2. hosts[h].on = "tcp"
    BY <1>3, <2>1 DEF Undisturbed
  <2> QED BY <2>1, <2>2, HostsClosed DEF LinkShape
<1>5. ~TcpRefused
  BY <1>1 DEF TcpRefused, ws_host_is_connected
<1>6. /\ UNCHANGED <<hosts, rx>>
      /\ \/ UNCHANGED connection
         \/ connection = "none" /\ connection' = "open" /\ hosts[h].on = "tcp"
  BY <1>1, <1>4, <1>5 DEF Poll, TcpIdle, TcpAccepted
<1>7. Undisturbed(h)'
  BY <1>2, <1>3, <1>6 DEF Undisturbed, ring
<1>8. Got(h)' = Got(h)
  BY <1>2 DEF Got
<1>9. CASE hosts[h].on = "ws"
  <2>1. ~DirectAvailable
    BY <1>1, <1>3, <1>9 DEF DirectAvailable, Undisturbed
  <2>2. connection = "none"
    BY <1>3, <1>9 DEF Undisturbed
  <2>3. polled' => ws_rx_head # ws_rx_tail
    BY <2>1, <2>2 DEF Poll, ws_rx_isempty
  <2>4. /\ InRing(ws_rx_head)' = InRing(ws_rx_head) /\ \A k : InRing(k)' = InRing(k)
    BY <1>2 DEF InRing, ring
  <2>5. RingHolds(h)'
    BY <1>2, <1>6, <1>8, <1>9, <2>3, <2>4 DEF LoneHost, RingHolds, ring
  <2> QED BY <1>6, <1>7, <1>9, <2>5 DEF LoneHost
<1>10. CASE hosts[h].on # "ws"
  <2>1. ws_rx_isempty
    BY <1>3, <1>10 DEF Undisturbed, ws_rx_isempty
  <2>2. polled' => rx[hosts[h].on] # <<>>
    <3>1. CASE DirectAvailable
      BY <1>1, <1>3, <3>1 DEF DirectAvailable, Undisturbed
    <3>2. CASE ~DirectAvailable
      <4>1. polled' => connection = "open" /\ rx["tcp"] # <<>>
        BY <2>1, <3>2 DEF Poll
      <4> QED BY <1>3, <4>1 DEF Undisturbed
    <3> QED BY <3>1, <3>2
  <2>3. DriverHolds(h)'
    BY <1>6, <1>8, <1>10, <2>2 DEF LoneHost, DriverHolds
  <2> QED BY <1>6, <1>7, <1>10, <2>3 DEF LoneHost
<1> QED BY <1>9, <1>10

(* The next byte of h continues those parsed before. *)
LEMMA LoneParse ==
  ASSUME LinkShape, NEW h \in Nat \ {0}, NEW x, Parse(x), x.host = h, x.pos = Got(h) + 1
  PROVE  Got(h)' = Got(h) + 1
<1>1. IsClean(clean) /\ x.host \in Nat /\ x.host # 0
  BY DEF LinkShape, Shapes
<1>2. CASE clean.host = h
  <2>1. x.pos = clean.bytes + 1 /\ Got(h) = clean.bytes
    BY <1>2 DEF Got
  <2> QED BY <1>1, <1>2, <2>1, ParseClean DEF Got
<1>3. CASE clean.host # h
  <2>1. x.pos = 1 /\ Got(h) = 0
    BY <1>3 DEF Got
  <2> QED BY <1>1, <2>1, ParseClean DEF Got
<1> QED BY <1>2, <1>3

(* It is read from its driver, ... *)
LEMMA LoneReadDriver ==
  ASSUME LinkShape, NEW h \in DOMAIN hosts, hosts[h].there, LoneHost(h),
         NEW t \in RxTransports, t = hosts[h].on, polled, Parse(Head(rx[t])),
         rx' = [rx EXCEPT ![t] = Tail(rx[t])], UNCHANGED <<hosts, ring, sockets>>
  PROVE  LoneHost(h)'
<1>1. PICK x : x = Head(rx[t])
  OBVIOUS
<1>2. /\ hosts[h].written = Got(h) + Len(rx[t]) /\ rx[t] # <<>>
      /\ \A i \in 1..Len(rx[t]) : rx[t][i].host = h /\ rx[t][i].pos = Got(h) + i
  BY DEF LoneHost, DriverHolds, RxTransports
<1>3. IsSeq(rx[t]) /\ DOMAIN rx = RxTransports
  BY DEF LinkShape, Shapes
<1>4. Len(rx[t]) \in Nat /\ 1 \in 1..Len(rx[t]) /\ x = rx[t][1]
  BY <1>1, <1>2, <1>3, SeqShape
<1>5. h \in Nat \ {0} /\ Got(h) \in Nat
  BY LoneSockets
<1>6. Got(h)' = Got(h) + 1
  <2>1. x.host = h /\ x.pos = Got(h) + 1 /\ Parse(x)
    BY <1>1, <1>2, <1>4
  <2> QED BY <1>5, <2>1, LoneParse
<1>7. /\ rx'[t] = Tail(rx[t]) /\ \A u \in RxTransports \ {t} : rx'[u] = rx[u]
      /\ polled' = FALSE
  BY <1>3 DEF Parse
<1>8. /\ Len(rx'[t]) = Len(rx[t]) - 1
      /\ \A i \in 1..(Len(rx[t]) - 1) : i + 1 \in 1..Len(rx[t]) /\ rx'[t][i] = rx[t][i + 1]
  BY <1>2, <1>3, <1>7, SeqLess
<1>9. DriverHolds(h)'
  <2>1. hosts[h].written = (Got(h) + 1) + Len(rx'[t])
    BY <1>2, <1>4, <1>5, <1>8
  <2>2. ASSUME NEW i \in 1..Len(rx'[t])
        PROVE  rx'[t][i].host = h /\ rx'[t][i].pos = (Got(h) + 1) + i
    <3>1. i \in 1..(Len(rx[t]) - 1) /\ Got(h) + (i + 1) = (Got(h) + 1) + i
      BY <1>4, <1>5, <1>8
    <3> QED BY <1>2, <1>8, <3>1
  <2> QED BY <1>6, <1>7, <2>1, <2>2 DEF DriverHolds
<1>10. Undisturbed(h)'
  <2>1. rx'["tcp"] # <<>> => rx["tcp"] # <<>>
    BY <1>2, <1>7 DEF RxTransports
  <2> QED BY <1>7, <2>1 DEF LoneHost, Undisturbed, ring, sockets, RxTransports
<1> QED BY <1>9, <1>10 DEF LoneHost, RxTransports

(* ... or from the tail of the ring. *)
LEMMA LoneReadRing ==
  ASSUME LinkShape, NEW h \in DOMAIN hosts, hosts[h].there, LoneHost(h), hosts[h].on = "ws",
         polled, ws_remote_read
  PROVE  LoneHost(h)'
<1>1. PICK x, hd, tl : x = ws_rx_buf[ws_rx_tail] /\ hd = ws_rx_head /\ tl = ws_rx_tail
  OBVIOUS
<1>2. Shapes /\ hd \in Slots /\ tl \in Slots /\ Got(h) \in Nat /\ h \in Nat \ {0}
  BY <1>1, LoneSockets DEF LinkShape, Shapes
<1>3. /\ hosts[h].written = Got(h) + InRing(hd) /\ hd # tl
      /\ \A k \in Slots : InRing(k) < InRing(hd) =>
           ws_rx_buf[k].host = h /\ ws_rx_buf[k].pos = Got(h) + InRing(k) + 1
  BY <1>1 DEF LoneHost, RingHolds, Slots
<1>4. InRing(tl) = 0 /\ InRing(hd) \in Nat /\ InRing(hd) # 0
  BY <1>1, <1>2, <1>3, RingPlace
<1>5. x.host = h /\ x.pos = Got(h) + 1
  BY <1>1, <1>2, <1>3, <1>4
<1>6. /\ Parse(x) /\ ws_rx_tail' = (tl + 1) % WsSize
      /\ UNCHANGED <<hosts, rx, ws_rx_buf, ws_rx_head, sockets>>
  BY <1>1 DEF ws_remote_read
<1>7. Got(h)' = Got(h) + 1
  BY <1>2, <1>5, <1>6, LoneParse
<1>8. ws_rx_tail' = Following(ws_rx_tail)
  BY <1>1, <1>2, <1>6, RingShape
<1>9. \A k \in Slots : k # tl => InRing(k)' = InRing(k) - 1
  BY <1>1, <1>2, <1>8, RingPops
<1>10. InRing(ws_rx_head)' = InRing(hd) - 1
  <2>1. InRing(hd)' = InRing(hd) - 1
    BY <1>2, <1>3, <1>9
  <2> QED BY <1>1, <1>6, <2>1 DEF InRing
<1>11. ASSUME NEW k \in Slots, InRing(k)' < InRing(hd) - 1
       PROVE  ws_rx_buf[k].host = h /\ ws_rx_buf[k].pos = (Got(h) + 1) + InRing(k)' + 1
  <2>1. k # tl
    <3> SUFFICES ASSUME k = tl PROVE FALSE
      OBVIOUS
    <3>1. InRing(k)' = WsSize - 1
      <4>1. WsSize \in Nat \ {0}
        BY HostLinkAssumption
      <4>2. InRing(k)' = IF tl >= Following(tl) THEN tl - Following(tl)
                         ELSE tl - Following(tl) + WsSize
        BY <1>1, <1>8 DEF InRing
      <4> QED BY <1>2, <4>1, <4>2 DEF Following, Slots
    <3>2. InRing(hd) \in 0..(WsSize - 1) /\ WsSize \in Nat
      BY <1>2, RingPlace, RingShape
    <3> QED BY <1>11, <3>1, <3>2
  <2>2. InRing(k)' = InRing(k) - 1 /\ InRing(k) \in Nat
    BY <1>2, <1>9, <2>1, RingPlace
  <2>3. InRing(k) < InRing(hd)
    BY <1>4, <1>11, <2>2
  <2> QED BY <1>2, <1>3, <2>2, <2>3
<1>12. RingHolds(h)'
  <2>1. hosts[h].written = (Got(h) + 1) + (InRing(hd) - 1)
    BY <1>2, <1>3, <1>4
  <2>2. polled' = FALSE
    BY <1>6 DEF Parse
  <2> QED BY <1>6, <1>7, <1>10, <1>11, <2>1, <2>2 DEF RingHolds, Slots
<1>13. Undisturbed(h)'
  BY <1>6 DEF LoneHost, Undisturbed, sockets
<1> QED BY <1>6, <1>12, <1>13 DEF LoneHost

(* buffer_serial() reads from the transport that h is on. *)
LEMMA LoneRead ==
  ASSUME LinkShape, NEW h \in DOMAIN hosts, hosts[h].there, LoneHost(h), Read
  PROVE  LoneHost(h)'
<1>1. /\ hosts[h].on \in Transports /\ (bt_connected <=> hosts[h].on = "bt")
      /\ (ws_client # 0 <=> hosts[h].on = "ws")
  BY LoneSockets
<1>2. polled
  BY DEF Read
<1>3. Undisturbed(h) /\ (hosts[h].on # "ws" => DriverHolds(h))
  BY DEF LoneHost
<1>4. hosts[h].on # "ws" => rx[hosts[h].on] # <<>>
  BY <1>2, <1>3 DEF DriverHolds
<1>5. TcpSelected <=> hosts[h].on = "tcp"
  BY <1>1, <1>3, <1>4 DEF TcpSelected, wifi_host_is_connected, Undisturbed
<1>6. CASE hosts[h].on = "ws"
  <2>1. ws_remote_read
    BY <1>1, <1>5, <1>6 DEF Read, ws_host_is_connected
  <2> QED BY <1>2, <1>6, <2>1, LoneReadRing
<1>7. CASE hosts[h].on \in {"usb", "bt"}
  <2>1. PICK t \in RxTransports : t = hosts[h].on
    BY <1>7 DEF RxTransports
  <2>2. ReadDirect(t)
    BY <1>1, <1>5, <1>7, <2>1 DEF Read, ws_host_is_connected
  <2>3. /\ Parse(Head(rx[t])) /\ rx' = [rx EXCEPT ![t] = Tail(rx[t])]
        /\ UNCHANGED <<hosts, ring, sockets>>
    BY <1>4, <1>7, <2>1, <2>2 DEF ReadDirect
  <2> QED BY <1>2, <2>1, <2>3, LoneReadDriver
<1>8. CASE hosts[h].on = "tcp"
  <2>1. PICK t \in RxTransports : t = hosts[h].on
    BY <1>8 DEF RxTransports
  <2>2. wifi_remote_read
    BY <1>1, <1>5, <1>8 DEF Read
  <2>3. /\ Parse(Head(rx[t])) /\ rx' = [rx EXCEPT ![t] = Tail(rx[t])]
        /\ UNCHANGED <<hosts, ring, sockets>>
    BY <1>4, <1>8, <2>1, <2>2 DEF wifi_remote_read, sockets
  <2> QED BY <1>2, <2>1, <2>3, LoneReadDriver
<1> QED BY <1>1, <1>6, <1>7, <1>8 DEF Transports

(* A host that comes while the node is quiet finds nothing of another one. *)
LEMMA LoneComes ==
  ASSUME LinkShape, NEW s \in Streams, Quiet,
         UsbComes(s) \/ bt_connect_callback(s) \/ TcpConnects(s) \/ WsConnected(s),
         NEW n, n = Len(hosts) + 1
  PROVE  LoneHost(n)'
<1>1. PICK t \in Transports : Comes(t, s) /\ (t = "usb" => UsbComes(s))
        /\ (t = "bt" => bt_connect_callback(s)) /\ (t = "tcp" => TcpConnects(s))
        /\ (t = "ws" => WsConnected(s))
  BY DEF UsbComes, bt_connect_callback, TcpConnects, WsConnected, Transports
<1>2. /\ DOMAIN hosts' = DOMAIN hosts \cup {n} /\ \A h \in DOMAIN hosts : hosts'[h] = hosts[h]
      /\ hosts'[n].on = t /\ hosts'[n].written = 0 /\ Len(hosts) \in Nat
  BY <1>1, HostComes DEF LinkShape
<1>3. /\ UNCHANGED <<rx, ring, polled, clean, connection>>
      /\ t = "bt" => bt_connected'
      /\ t = "ws" => ws_client' = n
  BY <1>1 DEF Comes, UsbComes, bt_connect_callback, TcpConnects, WsConnected, sockets, Transports
<1>4. /\ \A h \in DOMAIN hosts : ~hosts[h].there
      /\ \A u \in RxTransports : rx[u] = <<>>
      /\ ws_rx_head = ws_rx_tail /\ connection = "none" /\ ~polled
  BY DEF Quiet, ws_rx_isempty, LinkShape, Shapes
<1>5. Got(n)' = 0
  <2>1. clean.host \in 0..Len(hosts)
    BY DEF LinkShape, KnownBytes, Came
  <2>2. clean.host # n
    BY <1>2, <2>1
  <2> QED BY <1>3, <2>2 DEF Got
<1>6. Undisturbed(n)'
  BY <1>2, <1>3, <1>4 DEF Undisturbed, ring, RxTransports
<1>7. CASE t = "ws"
  <2>1. ws_rx_head \in Slots /\ WsSize \in Nat \ {0}
    BY HostLinkAssumption DEF LinkShape, Shapes
  <2>2. InRing(ws_rx_head)' = 0
    BY <1>3, <1>4, <2>1 DEF InRing, ring, Slots
  <2>3. \A k \in Slots : ~(InRing(k)' < 0)
    <3>1. \A k \in Slots : InRing(k) \in Nat /\ InRing(k)' = InRing(k)
      BY <1>3, RingPlace DEF LinkShape, InRing, ring
    <3> QED BY <3>1
  <2>4. RingHolds(n)'
    BY <1>2, <1>3, <1>4, <1>5, <2>2, <2>3 DEF RingHolds, Slots
  <2> QED BY <1>2, <1>6, <1>7, <2>4 DEF LoneHost
<1>8. CASE t # "ws"
  <2>1. t \in RxTransports
    BY <1>8 DEF Transports, RxTransports
  <2>2. rx'[t] = <<>> /\ Len(<<>>) = 0
    BY <1>3, <1>4, <2>1
  <2>3. DriverHolds(n)'
    BY <1>2, <1>3, <1>4, <1>5, <2>2 DEF DriverHolds
  <2> QED BY <1>2, <1>6, <1>8, <2>3 DEF LoneHost
<1> QED BY <1>7, <1>8

(* Every step leaves a lone host undisturbed, or it is not alone any more. *)
LEMMA LoneStep == LinkShape /\ LoneInv /\ [Next]_vars => LoneInv'
<1> SUFFICES ASSUME LinkShape, LoneInv, [Next]_vars, alone' # 0, hosts'[alone'].there,
                    ~overrun'
             PROVE  LoneHost(alone)'
  BY DEF LoneInv
<1>1. PICK h : h = alone'
  OBVIOUS
<1>2. SUFFICES LoneHost(h)'
  BY <1>1 DEF LoneHost, Undisturbed, RingHolds, DriverHolds, Got, InRing
<1>3. Len(hosts) \in Nat /\ DOMAIN hosts = 1..Len(hosts) /\ alone \in 0..Len(hosts)
  BY DEF LinkShape, ExclusiveInv, Shapes
<1>4. ASSUME alone' = alone, hosts[h].there, ~overrun
      PROVE  h \in DOMAIN hosts /\ LoneHost(h)
  BY <1>1, <1>3, <1>4 DEF LoneInv
<1>5. ASSUME NEW s \in Streams,
             UsbComes(s) \/ bt_connect_callback(s) \/ TcpConnects(s) \/ WsConnected(s)
      PROVE  LoneHost(h)'
  <2>1. PICK t \in Transports : Comes(t, s)
    BY <1>5 DEF UsbComes, bt_connect_callback, TcpConnects, WsConnected, Transports
  <2>2. Quiet /\ h = Len(hosts) + 1
    BY <1>1, <2>1 DEF Comes
  <2> QED BY <1>5, <2>2, LoneComes
<1>6. ASSUME NEW g \in DOMAIN hosts, Arrives(g) \/ ws_rx_push(g) PROVE LoneHost(h)'
  <2>1. alone' = alone
    BY <1>6 DEF Arrives, ws_rx_push, Writes
  <2> ~overrun /\ (ws_rx_push(g) => ~ws_rx_isfull \/ g # h)
    BY <1>1, <1>6, <2>1 DEF Arrives, ws_rx_push
  <2>2. hosts[h].there
    <3>1. \A i \in DOMAIN hosts : hosts'[i].there = hosts[i].there
      BY <1>6, HostWrites DEF LinkShape, Arrives, ws_rx_push
    <3>2. h \in DOMAIN hosts
      BY <1>1, <1>3, <2>1
    <3> QED BY <1>1, <3>1, <3>2
  <2>3. h \in DOMAIN hosts /\ LoneHost(h)
    BY <1>4, <2>1, <2>2
  <2>4. g = h
    BY <1>6, <2>3 DEF LoneHost, Undisturbed, Arrives, ws_rx_push, Writes
  <2>5. CASE Arrives(g)
    BY <2>2, <2>3, <2>4, <2>5, LoneArrives
  <2>6. CASE ws_rx_push(g)
    <3>1. ~ws_rx_isfull
      BY <2>4, <2>6
    <3> QED BY <2>2, <2>3, <2>4, <2>6, <3>1, LonePush
  <2> QED BY <1>6, <2>5, <2>6
<1>7. ASSUME NEW g \in DOMAIN hosts, Leaves(g) PROVE LoneHost(h)'
  <2>1. alone' = alone /\ Gone(g) /\ hosts[g].there /\ ~overrun
    BY <1>7 DEF Leaves
  <2>2. /\ hosts'[g].there = FALSE
        /\ \A i \in DOMAIN hosts \ {g} : hosts'[i] = hosts[i]
    BY <2>1, HostGone DEF LinkShape
  <2>3. h # g /\ h \in DOMAIN hosts
    BY <1>1, <1>3, <2>1, <2>2
  <2>4. hosts[h].there
    BY <1>1, <2>2, <2>3
  <2>5. LoneHost(h)
    BY <1>4, <2>1, <2>4
  <2> QED BY <2>1, <2>3, <2>5 DEF LoneHost, Undisturbed
<1>8. CASE Poll
  <2>1. alone' = alone /\ ~overrun
    BY <1>8 DEF Poll
  <2>2. h \in DOMAIN hosts
    BY <1>1, <1>3, <2>1
  <2>3. hosts[h].there
    <3>1. CASE TcpDropped
      <4>1. /\ \A i \in DOMAIN hosts : hosts[i].on = "tcp" => ~hosts'[i].there
            /\ \A i \in DOMAIN hosts : hosts[i].on # "tcp" => hosts'[i] = hosts[i]
        BY <3>1, HostsClosed DEF LinkShape, TcpDropped
      <4> QED BY <1>1, <2>2, <4>1
    <3>2. CASE UNCHANGED hosts
      BY <1>1, <3>2
    <3>3. CASE TcpRefused
      <4>1. waiting \in DOMAIN hosts /\ Gone(waiting)
        BY <3>3 DEF TcpRefused, LinkShape, SocketsHeld
      <4>2. /\ hosts'[waiting].there = FALSE
            /\ \A i \in DOMAIN hosts \ {waiting} : hosts'[i] = hosts[i]
        BY <4>1, HostGone DEF LinkShape
      <4> QED BY <1>1, <2>2, <4>2
    <3> QED BY <1>8, <3>1, <3>2, <3>3 DEF Poll, TcpIdle, TcpAccepted
  <2>4. LoneHost(h) /\ hosts'[h].there
    BY <1>1, <1>4, <2>1, <2>3
  <2> QED BY <1>8, <2>2, <2>3, <2>4, LonePoll
<1>9. CASE Read
  <2>1. alone' = alone /\ ~overrun
    BY <1>9 DEF Read, ReadDirect, wifi_remote_read, ws_remote_read
  <2>2. h \in DOMAIN hosts
    BY <1>1, <1>3, <2>1
  <2>3. hosts[h].there
    <3>1. CASE wifi_remote_close_all
      <4>1. /\ \A i \in DOMAIN hosts : hosts[i].on = "tcp" => ~hosts'[i].there
            /\ \A i \in DOMAIN hosts : hosts[i].on # "tcp" => hosts'[i] = hosts[i]
        BY <3>1, HostsClosed DEF LinkShape
      <4> QED BY <1>1, <2>2, <4>1
    <3>2. CASE UNCHANGED hosts
      BY <1>1, <3>2
    <3> QED BY <1>9, <3>1, <3>2 DEF Read, ReadDirect, wifi_remote_read, ws_remote_read
  <2>4. LoneHost(h)
    BY <1>4, <2>1, <2>3
  <2> QED BY <1>9, <2>2, <2>3, <2>4, LoneRead
<1>10. CASE UNCHANGED vars
  <2>1. LoneHost(h)
    BY <1>1, <1>4, <1>10 DEF vars
  <2> QED BY <1>10, <2>1 DEF LoneHost, Undisturbed, RingHolds, DriverHolds, Got, InRing, vars,
             ring, sockets
<1> QED BY <1>5, <1>6, <1>7, <1>8, <1>9, <1>10 DEF Next

(* For any streams and any sizes of the buffers, over whichever transport:   *)
(* while a host that found the node quiet is the only one, and until the     *)
(* WebSocket ring has no room for one of its bytes and drops it,             *)
(* buffer_serial() has parsed exactly the bytes it wrote less those a driver *)
(* or the ring still holds, each once and in order.                          *)
THEOREM LoneHostAlwaysUndisturbed == Spec => []LoneHostUndisturbed
<1>1. Init => LinkShape /\ LoneInv
  BY ShapeInit DEF Init, LoneInv
<1>2. LinkShape /\ LoneInv /\ [Next]_vars => (LinkShape /\ LoneInv)'
  BY ShapeStep, LoneStep
<1>3. LinkShape /\ LoneInv => LoneHostUndisturbed
  <2> SUFFICES ASSUME LinkShape, LoneInv, alone # 0, hosts[alone].there, ~overrun
               PROVE  hosts[alone].written - Unread(alone) = Got(alone)
    BY DEF LoneHostUndisturbed, Got
  <2>1. PICK h : h = alone
    OBVIOUS
  <2>2. h \in DOMAIN hosts /\ hosts[h].there /\ LoneHost(h)
    BY <2>1 DEF LoneInv, LinkShape, Shapes, ExclusiveInv
  <2>3. hosts[h].on \in Transports /\ Got(h) \in Nat
    BY <2>2, LoneSockets
  <2>4. CASE hosts[h].on = "ws"
    <3>1. RingLen = InRing(ws_rx_head)
      BY RingShape DEF LinkShape
    <3>2. InRing(ws_rx_head) \in 0..(WsSize - 1)
      BY RingPlace DEF LinkShape, Shapes
    <3>3. hosts[h].written = Got(h) + InRing(ws_rx_head)
      BY <2>2, <2>4 DEF LoneHost, RingHolds
    <3> QED BY <2>1, <2>3, <2>4, <3>1, <3>2, <3>3 DEF Unread
  <2>5. CASE hosts[h].on # "ws"
    <3>1. hosts[h].written = Got(h) + Len(rx[hosts[h].on])
      BY <2>2, <2>5 DEF LoneHost, DriverHolds
    <3>2. IsSeq(rx[hosts[h].on])
      BY <2>3, <2>5 DEF LinkShape, Shapes, Transports, RxTransports
    <3>3. Len(rx[hosts[h].on]) \in Nat
      BY <3>2, SeqShape
    <3> QED BY <2>1, <2>3, <2>5, <3>1, <3>3 DEF Unread
  <2> QED BY <2>4, <2>5
<1> QED BY <1>1, <1>2, <1>3, PTL DEF Spec

(* Induction over numbers, with a set in the place of the predicate. *)
LEMMA LeastNumber ==
    ASSUME NEW T \in SUBSET Nat, T # {}
    PROVE  \E x \in T : \A y \in T : x <= y
<1>1. DEFINE R == {ss \in Nat \X Nat : ss[1] < ss[2]}
<1>2. R = OpToRel(<, Nat)
  BY Zenon DEF OpToRel
<1>3. IsWellFoundedOn(R, Nat)
  BY <1>2, NatLessThanWellFounded, Zenon
<1>4. \A x, y \in Nat : y < x => <<y, x>> \in R
  OBVIOUS
<1>5. HIDE DEF R
<1>6. PICK x \in T : \A y \in T : ~(<<y, x>> \in R)
  BY <1>3, WFMin
<1>7. ASSUME NEW y \in T
      PROVE  x <= y
  <2>1. x \in Nat /\ y \in Nat /\ ~(y < x)
    BY <1>4, <1>6
  <2>2. QED
    BY <2>1
<1>8. QED
  BY <1>7

(* A set that holds 0, and with a number the next one, holds all up to n. *)
LEMMA Induction ==
    ASSUME NEW n \in Nat, NEW T, 0 \in T,
           \A i \in 0..n - 1 : i \in T => i + 1 \in T
    PROVE  \A i \in 0..n : i \in T
<1>1. SUFFICES ASSUME NEW j \in 0..n, j \notin T
               PROVE  FALSE
  OBVIOUS
<1>2. DEFINE F == {i \in 0..n : i \notin T}
<1>3. F \in SUBSET Nat /\ F # {}
  BY <1>1
<1>4. PICK m \in F : \A y \in F : m <= y
  BY <1>3, LeastNumber
<1>5. m \in 0..n /\ m # 0 /\ m \notin T
  BY <1>4
<1>6. m - 1 \in 0..n - 1 /\ m - 1 \in 0..n /\ ~(m <= m - 1) /\ (m - 1) + 1 = m
  BY <1>5
<1>7. m - 1 \in T
  BY <1>4, <1>6
<1>8. QED
  BY <1>5, <1>6, <1>7

-----------------------------------------------------------------------------
(***************************************************************************)
(* What a host writes: FlattenSeq puts the frames, and in a frame the      *)
(* payload bytes, one after another.                                       *)
(***************************************************************************)

(* G joins the sequences of s: G[i] is the first i of them in a row. *)
Joins(G, s, n) == G = [i \in 1..n |-> IF i = 1 THEN s[i] ELSE G[i - 1] \o s[i]]

(* Such a function exists ... *)
LEMMA JoinExists ==
  ASSUME NEW s, NEW n \in Nat
  PROVE  \E G : Joins(G, s, n)
<1> DEFINE T == {m \in 0..n : \E G : Joins(G, s, m)}
<1>1. 0 \in T
  <2>1. Joins([i \in 1..0 |-> 0], s, 0)
    BY DEF Joins
  <2> QED BY <2>1
<1>2. ASSUME NEW m \in 0..n - 1, m \in T PROVE m + 1 \in T
  <2>1. PICK F : Joins(F, s, m)
    BY <1>2
  <2> DEFINE G == [i \in 1..m + 1 |->
                     IF i = m + 1 THEN IF i = 1 THEN s[i] ELSE F[m] \o s[m + 1] ELSE F[i]]
  <2>2. ASSUME NEW i \in 1..m + 1
        PROVE  G[i] = IF i = 1 THEN s[i] ELSE G[i - 1] \o s[i]
    <3>1. CASE i = 1 /\ m = 0
      BY <3>1
    <3>2. CASE i = m + 1 /\ m # 0
      <4>1. m \in 1..m + 1 /\ m # m + 1 /\ i - 1 = m /\ i # 1
        BY <1>2, <3>2
      <4>2. G[m] = F[m] /\ G[i] = F[m] \o s[m + 1]
        BY <3>2, <4>1
      <4> QED BY <3>2, <4>1, <4>2
    <3>3. CASE i # m + 1
      <4>1. i \in 1..m /\ (i # 1 => i - 1 \in 1..m /\ i - 1 \in 1..m + 1 /\ i - 1 # m + 1)
        BY <1>2, <3>3
      <4>2. G[i] = F[i] /\ (i # 1 => G[i - 1] = F[i - 1])
        BY <4>1, <3>3
      <4>3. F[i] = IF i = 1 THEN s[i] ELSE F[i - 1] \o s[i]
        BY <2>1, <4>1 DEF Joins
      <4> QED BY <4>2, <4>3
    <3> QED BY <3>1, <3>2, <3>3
  <2>3. G = [i \in 1..m + 1 |-> G[i]]
    OBVIOUS
  <2>4. Joins(G, s, m + 1)
    BY <2>2, <2>3, Zenon DEF Joins
  <2>5. m + 1 \in 0..n
    BY <1>2
  <2> QED BY <2>4, <2>5
<1>3. \A m \in 0..n : m \in T
  BY <1>1, <1>2, Induction
<1> QED BY <1>3

Agree(s, t, m) == \A i \in 1..m : s[i] = t[i]

(* ... is the only one ... *)
LEMMA JoinUnique ==
  ASSUME NEW s, NEW t, NEW m \in Nat, NEW n \in Nat, NEW G, NEW H, m <= n,
         Joins(G, s, m), Joins(H, t, n), Agree(s, t, m)
  PROVE  Agree(G, H, m)
<1> DEFINE T == {i \in 0..m : i # 0 => G[i] = H[i]}
<1>1. 0 \in T
  OBVIOUS
<1>2. ASSUME NEW i \in 0..m - 1, i \in T PROVE i + 1 \in T
  <2>1. i + 1 \in 1..m /\ i + 1 \in 1..n /\ (i + 1) - 1 = i
    OBVIOUS
  <2>2. G[i + 1] = IF i + 1 = 1 THEN s[i + 1] ELSE G[i] \o s[i + 1]
    BY <2>1 DEF Joins
  <2>3. H[i + 1] = IF i + 1 = 1 THEN t[i + 1] ELSE H[i] \o t[i + 1]
    BY <2>1 DEF Joins
  <2>4. s[i + 1] = t[i + 1] /\ (i + 1 # 1 => G[i] = H[i])
    BY <1>2, <2>1 DEF Agree
  <2> QED BY <2>1, <2>2, <2>3, <2>4
<1>3. \A i \in 0..m : i \in T
  BY <1>1, <1>2, Induction
<1> QED BY <1>3 DEF Agree

(* ... and FlattenSeq takes its last value. *)
LEMMA FlattenIs ==
  ASSUME NEW s, NEW n \in Nat \ {0}, Len(s) = n
  PROVE  \E G : Joins(G, s, n) /\ FlattenSeq(s) = G[n]
<1> DEFINE F == CHOOSE g : Joins(g, s, n)
<1>1. Joins(F, s, n)
  BY JoinExists
<1>2. n # 0
  OBVIOUS
<1>3. FlattenSeq(s) = F[n]
  BY <1>2, Zenon DEF FlattenSeq, Joins
<1> QED BY <1>1, <1>3

(* The first k sequences of s, and how long they are together. *)
First(s, k) == [i \in 1..k |-> s[i]]
End(s, k) == Len(FlattenSeq(First(s, k)))

(* They are k. *)
LEMMA FirstIs ==
  ASSUME NEW s, NEW k \in Nat
  PROVE  /\ Len(First(s, k)) = k /\ \A i \in 1..k : First(s, k)[i] = s[i]
         /\ k = 0 => First(s, k) = <<>>
<1> DEFINE S == {s[i] : i \in 1..k}
<1>1. First(s, k) \in [1..k -> S] /\ \A i \in 1..k : First(s, k)[i] = s[i]
  BY DEF First
<1> HIDE DEF S
<1>2. First(s, k) \in Seq(S) /\ Len(First(s, k)) = k
  BY <1>1
<1>3. k = 0 => First(s, k) = <<>>
  BY <1>2, EmptySeq
<1> QED BY <1>1, <1>2, <1>3

(* One sequence more. *)
LEMMA FlattenStep ==
  ASSUME NEW S, NEW n \in Nat, NEW s \in [1..n -> Seq(S)], NEW k \in 1..n,
         FlattenSeq(First(s, k - 1)) \in Seq(S)
  PROVE  FlattenSeq(First(s, k)) = FlattenSeq(First(s, k - 1)) \o s[k]
<1> DEFINE a == First(s, k)
           b == First(s, k - 1)
<1>1. k \in Nat \ {0} /\ k - 1 \in Nat /\ k \in 1..k
  OBVIOUS
<1>2. /\ Len(a) = k /\ Len(b) = k - 1 /\ \A i \in 1..k - 1 : b[i] = a[i]
      /\ a[k] = s[k] /\ s[k] \in Seq(S)
  <2>1. Len(a) = k /\ a[k] = s[k] /\ s[k] \in Seq(S)
    BY <1>1 DEF First
  <2>2. Len(b) = k - 1
    BY <1>1, FirstIs
  <2>3. \A i \in 1..k - 1 : b[i] = a[i]
    BY <1>1 DEF First
  <2> QED BY <2>1, <2>2, <2>3
<1> HIDE DEF a, b
<1>3. PICK G : Joins(G, a, k) /\ FlattenSeq(a) = G[k]
  BY <1>1, <1>2, FlattenIs
<1>4. G[k] = IF k = 1 THEN a[k] ELSE G[k - 1] \o a[k]
  BY <1>1, <1>3 DEF Joins
<1>5. CASE k = 1
  <2>1. FlattenSeq(b) = b
    <3>1. Len(b) = 0
      BY <1>2, <1>5
    <3> QED BY <3>1, Zenon DEF FlattenSeq
  <2>2. b = <<>>
    <3>1. k - 1 \in Nat /\ k - 1 = 0
      BY <1>5
    <3> QED BY <3>1, FirstIs DEF b
  <2>3. <<>> \o s[k] = s[k]
    BY <1>2, ConcatEmptySeq
  <2> QED BY <1>2, <1>3, <1>4, <1>5, <2>1, <2>2, <2>3, Zenon DEF a, b
<1>6. CASE k # 1
  <2>1. k - 1 \in Nat \ {0} /\ k - 1 <= k /\ k - 1 \in 1..k - 1
    BY <1>1, <1>6
  <2>2. PICK H : Joins(H, b, k - 1) /\ FlattenSeq(b) = H[k - 1]
    BY <1>2, <2>1, FlattenIs
  <2>3. \A i \in 1..k - 1 : H[i] = G[i]
    <3>1. PICK m \in Nat : m = k - 1 /\ m <= k
      BY <2>1
    <3>2. Joins(H, b, m) /\ Joins(G, a, k) /\ Agree(b, a, m)
      BY <1>2, <1>3, <2>2, <3>1 DEF Agree
    <3>3. Agree(H, G, m)
      BY <1>1, <3>1, <3>2, JoinUnique
    <3> QED BY <3>1, <3>3 DEF Agree
  <2>4. H[k - 1] = G[k - 1]
    BY <2>1, <2>3
  <2> QED BY <1>2, <1>3, <1>4, <1>6, <2>2, <2>4, Zenon DEF a, b
<1> QED BY <1>5, <1>6

(* Where the k-th sequence ends, and which byte is where. *)
LEMMA FlattenFacts ==
  ASSUME NEW S, NEW n \in Nat, NEW s \in [1..n -> Seq(S)]
  PROVE  /\ \A k \in 0..n : FlattenSeq(First(s, k)) \in Seq(S) /\ End(s, k) \in Nat
         /\ End(s, 0) = 0
         /\ \A k \in 1..n : End(s, k) = End(s, k - 1) + Len(s[k])
         /\ \A k \in 1..n : \A j \in 1..Len(s[k]) :
               /\ End(s, k - 1) + j \in 1..End(s, n)
               /\ FlattenSeq(First(s, n))[End(s, k - 1) + j] = s[k][j]
         /\ First(s, n) = s
<1> DEFINE F(k) == FlattenSeq(First(s, k))
<1>1. F(0) = <<>>
  <2>1. First(s, 0) = <<>>
    <3>1. 0 \in Nat
      OBVIOUS
    <3> QED BY <3>1, FirstIs
  <2>2. Len(<<>>) = 0
    BY EmptySeq
  <2>3. FlattenSeq(<<>>) = <<>>
    BY <2>2, Zenon DEF FlattenSeq
  <2> QED BY <2>1, <2>3
<1>2. \A k \in 0..n : F(k) \in Seq(S)
  <2> DEFINE T == {k \in 0..n : F(k) \in Seq(S)}
  <2>1. 0 \in T
    <3>1. <<>> \in Seq(S) /\ 0 \in 0..n
      BY EmptySeq
    <3> HIDE DEF F
    <3> QED BY <1>1, <3>1
  <2>2. ASSUME NEW k \in 0..n - 1, k \in T PROVE k + 1 \in T
    <3>1. k + 1 \in 1..n /\ (k + 1) - 1 = k /\ k + 1 \in 0..n
      OBVIOUS
    <3>2. F(k + 1) = F(k) \o s[k + 1]
      BY <2>2, <3>1, FlattenStep
    <3>3. s[k + 1] \in Seq(S) /\ F(k) \in Seq(S)
      BY <2>2, <3>1
    <3> HIDE DEF F
    <3>4. F(k) \o s[k + 1] \in Seq(S)
      BY <3>3, ConcatProperties
    <3>5. F(k + 1) \in Seq(S)
      BY <3>2, <3>4
    <3> QED BY <3>1, <3>5
  <2> HIDE DEF F
  <2>3. \A k \in 0..n : k \in T
    BY <2>1, <2>2, Induction
  <2> QED BY <2>3
<1>3. \A k \in 1..n : k - 1 \in 0..n /\ F(k) = F(k - 1) \o s[k] /\ s[k] \in Seq(S)
  <2> SUFFICES ASSUME NEW k \in 1..n
               PROVE  k - 1 \in 0..n /\ F(k) = F(k - 1) \o s[k] /\ s[k] \in Seq(S)
    OBVIOUS
  <2>1. k - 1 \in 0..n
    OBVIOUS
  <2>2. F(k - 1) \in Seq(S)
    BY <1>2, <2>1
  <2> QED BY <2>1, <2>2, FlattenStep
<1>4. \A k \in 0..n : End(s, k) = Len(F(k))
  BY DEF End
<1> HIDE DEF F
<1>5. \A k \in 0..n : End(s, k) \in Nat
  BY <1>2, <1>4
<1>6. End(s, 0) = 0
  BY <1>1, <1>4
<1>7. \A k \in 1..n : End(s, k) = End(s, k - 1) + Len(s[k])
  <2> SUFFICES ASSUME NEW k \in 1..n PROVE End(s, k) = End(s, k - 1) + Len(s[k])
    OBVIOUS
  <2>1. k \in 0..n /\ k - 1 \in 0..n /\ F(k) = F(k - 1) \o s[k] /\ s[k] \in Seq(S)
    BY <1>3
  <2>2. F(k - 1) \in Seq(S)
    BY <1>2, <2>1
  <2>3. Len(F(k - 1) \o s[k]) = Len(F(k - 1)) + Len(s[k])
    BY <2>1, <2>2, ConcatProperties
  <2> QED BY <1>4, <2>1, <2>3
<1>8. ASSUME NEW k \in 1..n, NEW j \in 1..Len(s[k])
      PROVE  End(s, k - 1) + j \in 1..End(s, n) /\ F(n)[End(s, k - 1) + j] = s[k][j]
  <2>1. PICK p \in Nat : p = End(s, k - 1) + j /\ p >= 1 /\ p <= End(s, k - 1) + Len(s[k])
    <3>1. k - 1 \in 0..n /\ s[k] \in Seq(S)
      BY <1>3
    <3>2. End(s, k - 1) \in Nat /\ Len(s[k]) \in Nat
      BY <1>5, <3>1
    <3>3. PICK e \in Nat : e = End(s, k - 1)
      BY <3>2
    <3>4. PICK l \in Nat : l = Len(s[k])
      BY <3>2
    <3>5. j \in 1..l
      BY <3>4
    <3>6. e + j \in Nat /\ e + j >= 1 /\ e + j <= e + l
      BY <3>5
    <3> QED BY <3>3, <3>4, <3>6
  <2> DEFINE T == {m \in 0..n : m >= k => p \in 1..End(s, m) /\ F(m)[p] = s[k][j]}
  <2>2. 0 \in T
    OBVIOUS
  <2>3. ASSUME NEW m \in 0..n - 1, m \in T PROVE m + 1 \in T
    <3>1. m + 1 \in 1..n /\ (m + 1) - 1 = m /\ m + 1 \in 0..n /\ m \in 0..n
      OBVIOUS
    <3>2. /\ F(m + 1) = F(m) \o s[m + 1] /\ s[m + 1] \in Seq(S) /\ F(m) \in Seq(S)
          /\ End(s, m + 1) = End(s, m) + Len(s[m + 1])
      BY <1>2, <1>3, <1>7, <3>1
    <3>3. End(s, m) = Len(F(m)) /\ End(s, m) \in Nat /\ Len(s[m + 1]) \in Nat
      BY <1>4, <1>5, <3>1, <3>2
    <3>4. \A i \in 1..End(s, m) + Len(s[m + 1]) :
             F(m + 1)[i] = IF i <= End(s, m) THEN F(m)[i] ELSE s[m + 1][i - End(s, m)]
      BY <3>2, <3>3, ConcatProperties
    <3>5. CASE m + 1 = k
      <4>1. m = k - 1
        BY <3>1, <3>5
      <4>2. p = End(s, m) + j /\ p \in 1..End(s, m) + Len(s[m + 1]) /\ ~(p <= End(s, m))
        BY <2>1, <3>3, <3>5, <4>1
      <4>3. p - End(s, m) = j
        BY <3>3, <4>2
      <4>4. F(m + 1)[p] = s[m + 1][j]
        BY <3>4, <4>2, <4>3
      <4> QED BY <3>1, <3>2, <3>5, <4>2, <4>4
    <3>6. CASE m + 1 > k
      <4>1. p \in 1..End(s, m) /\ F(m)[p] = s[k][j]
        BY <2>3, <3>1, <3>6
      <4>2. p \in 1..End(s, m) + Len(s[m + 1]) /\ p <= End(s, m)
        BY <3>3, <4>1
      <4>3. F(m + 1)[p] = F(m)[p]
        BY <3>4, <4>2
      <4> QED BY <3>1, <3>2, <4>1, <4>2, <4>3
    <3>7. CASE ~(m + 1 >= k)
      BY <3>1, <3>7
    <3> QED BY <3>1, <3>5, <3>6, <3>7
  <2>4. \A m \in 0..n : m \in T
    BY <2>2, <2>3, Induction
  <2> QED BY <2>1, <2>4
<1>9. First(s, n) = s
  BY DEF First
<1> QED BY <1>2, <1>5, <1>6, <1>7, <1>8, <1>9 DEF F

-----------------------------------------------------------------------------
(***************************************************************************)
(* The parser, byte by byte.                                               *)
(***************************************************************************)

(* Strings, among them those the parser names. *)
Bytes ==
    STRING \cup Commands \cup {FEND, FESC, TFEND, TFESC, CMD_UNKNOWN, NoByte, "00", "01"}

ParserState ==
    [IN_FRAME : BOOLEAN, ESCAPE : BOOLEAN, command : Bytes, cmdbuf : Seq(Bytes),
     stored : Seq(Bytes), selected_vport : Bytes]

(* Payload is stored only while a frame of data is open. *)
ParserOK(k) ==
    k \in ParserState /\ (k.stored # <<>> => k.IN_FRAME /\ k.command = CMD_DATA)

(* Between two frames: no FEND is needed to close one. *)
Between(k) == ~Closes(k) /\ k.ESCAPE = FALSE /\ k.stored = <<>>

(* After the FEND that opens a frame ... *)
Started(k) ==
    /\ k.IN_FRAME = TRUE /\ k.ESCAPE = FALSE /\ k.command = CMD_UNKNOWN
    /\ k.cmdbuf = <<>> /\ k.stored = <<>>

(* ... after its command, j bytes of its payload and, when half is TRUE, the *)
(* FESC of the next one ...                                                  *)
Reading(k, f, j, half) ==
    /\ k.IN_FRAME = TRUE /\ k.ESCAPE = half /\ k.command = f.cmd
    /\ k.cmdbuf = IF f.cmd \in {CMD_SYNC_WORD, CMD_FREQUENCY} THEN SubSeq(f.arg, 1, j) ELSE <<>>
    /\ k.stored = IF f.cmd = CMD_DATA THEN SubSeq(f.arg, 1, j) ELSE <<>>

(* ... and in a frame that is ignored, its FEND having closed another. *)
Lost(k) == k.IN_FRAME = FALSE /\ k.ESCAPE = FALSE /\ k.stored = <<>>

(* What is carried out before the closing FEND. *)
Out(f, j) ==
    IF f.cmd \in {CMD_FREQUENCY, CMD_SEL_INT} /\ j = Len(f.arg) THEN <<f>> ELSE <<>>

(* A FEND opens a frame ... *)
LEMMA Opens ==
  ASSUME NEW k, ParserOK(k), ~Closes(k)
  PROVE  LET r == serial_callback(k, FEND)
         IN  /\ r \in ParserState /\ r.IN_FRAME = TRUE /\ r.command = CMD_UNKNOWN
             /\ r.cmdbuf = <<>> /\ r.stored = k.stored /\ r.ESCAPE = k.ESCAPE
             /\ k.stored = <<>> /\ ~Closes(r)
             /\ Carried(k, FEND) = <<>>
<1> DEFINE r == serial_callback(k, FEND)
<1>1. r = Opened(k)
  BY DEF serial_callback
<1>2. k.stored = <<>>
  BY DEF ParserOK, Closes
<1>3. /\ r \in ParserState /\ r.IN_FRAME = TRUE /\ r.command = CMD_UNKNOWN
      /\ r.cmdbuf = <<>> /\ r.stored = k.stored /\ r.ESCAPE = k.ESCAPE
  <2>1. <<>> \in Seq(Bytes) /\ CMD_UNKNOWN \in Bytes
    BY EmptySeq DEF Bytes
  <2> HIDE DEF r
  <2> QED BY <1>1, <2>1 DEF Opened, ParserOK, ParserState
<1>4. ~Closes(r)
  BY <1>3 DEF Closes, CMD_UNKNOWN, CMD_DATA, CMD_SYNC_WORD
<1>5. Carried(k, FEND) = <<>>
  BY DEF Carried
<1> QED BY <1>2, <1>3, <1>4, <1>5

(* ... or closes one. *)
LEMMA ClosesFrame ==
  ASSUME NEW k, ParserOK(k), Closes(k)
  PROVE  LET r == serial_callback(k, FEND)
         IN  /\ r \in ParserState /\ r.IN_FRAME = FALSE /\ r.stored = <<>> /\ r.ESCAPE = k.ESCAPE
             /\ ~Closes(r)
             /\ k.command = CMD_DATA =>
                  Carried(k, FEND) = IF k.stored = <<>> THEN <<>>
                                     ELSE <<[cmd |-> CMD_DATA, arg |-> k.stored]>>
             /\ k.command = CMD_SYNC_WORD =>
                  Carried(k, FEND) = <<[cmd |-> k.command, arg |-> k.cmdbuf]>>
             /\ k.command \in {CMD_DATA, CMD_SYNC_WORD} /\ k.IN_FRAME = TRUE
<1> DEFINE r == serial_callback(k, FEND)
<1>1. r = Closed(k)
  BY DEF serial_callback
<1>2. k.command \in {CMD_DATA, CMD_SYNC_WORD} /\ k.IN_FRAME = TRUE
  BY DEF ParserOK, ParserState, Closes
<1>3. PICK st : st = IF k.command = CMD_DATA THEN <<>> ELSE k.stored
  OBVIOUS
<1>4. st = <<>>
  BY <1>2, <1>3 DEF ParserOK, CMD_DATA, CMD_SYNC_WORD
<1>5. r = [k EXCEPT !.IN_FRAME = FALSE, !.stored = st]
  BY <1>1, <1>3 DEF Closed
<1>6. <<>> \in Seq(Bytes)
  BY EmptySeq
<1>7. r \in ParserState /\ r.IN_FRAME = FALSE /\ r.stored = <<>> /\ r.ESCAPE = k.ESCAPE
  BY <1>4, <1>5, <1>6 DEF ParserOK, ParserState
<1>8. ~Closes(r)
  BY <1>7 DEF Closes
<1>9. k.command = CMD_DATA =>
        Carried(k, FEND) = IF k.stored = <<>> THEN <<>>
                           ELSE <<[cmd |-> CMD_DATA, arg |-> k.stored]>>
  BY Zenon DEF Carried
<1>10. k.command = CMD_SYNC_WORD =>
         Carried(k, FEND) = <<[cmd |-> k.command, arg |-> k.cmdbuf]>>
  <2>1. k.command = CMD_SYNC_WORD => k.command # CMD_DATA
    BY DEF CMD_DATA, CMD_SYNC_WORD
  <2> QED BY <2>1, Zenon DEF Carried
<1> QED BY <1>2, <1>7, <1>8, <1>9, <1>10

(* Outside a frame everything else is ignored. *)
LEMMA Ignores ==
  ASSUME NEW k, ParserOK(k), k.IN_FRAME = FALSE, NEW b, b # FEND
  PROVE  serial_callback(k, b) = k /\ Carried(k, b) = <<>>
<1>1. serial_callback(k, b) = k
  BY DEF serial_callback
<1>2. Carried(k, b) = <<>>
  BY DEF Carried
<1> QED BY <1>1, <1>2

(* The command of a frame. *)
LEMMA TakesCommand ==
  ASSUME NEW k, ParserOK(k), Started(k), NEW b \in Bytes, b # FEND
  PROVE  LET r == serial_callback(k, b)
         IN  /\ r \in ParserState /\ r.IN_FRAME = TRUE /\ r.command = b /\ r.ESCAPE = FALSE
             /\ r.cmdbuf = <<>> /\ r.stored = <<>> /\ Carried(k, b) = <<>>
<1> DEFINE r == serial_callback(k, b)
<1>1. r = [k EXCEPT !.command = b]
  <2>1. /\ ~(b = FEND /\ Closes(k)) /\ ~(b = FEND /\ ~Closes(k))
        /\ ~(b # FEND /\ ~k.IN_FRAME) /\ (b # FEND /\ k.IN_FRAME)
        /\ k.command = CMD_UNKNOWN /\ k.cmdbuf = <<>>
        /\ k.command \notin Escaping /\ k.command # CMD_SEL_INT
    BY DEF Started, Escaping, CMD_UNKNOWN, CMD_DATA, CMD_FREQUENCY, CMD_SYNC_WORD, CMD_SEL_INT
  <2> QED BY <2>1 DEF serial_callback
<1>2. Carried(k, b) = <<>>
  <2>1. b # FEND /\ k.command # CMD_FREQUENCY /\ k.command # CMD_SEL_INT
    BY DEF Started, CMD_UNKNOWN, CMD_FREQUENCY, CMD_SEL_INT
  <2> QED BY <2>1 DEF Carried
<1> QED BY <1>1, <1>2 DEF Started, ParserOK, ParserState

(* A byte is kept as long as there is room. *)
LEMMA KeptIs ==
  ASSUME NEW buf \in Seq(Bytes), NEW u \in Bytes, NEW size \in Nat
  PROVE  /\ Kept(buf, u, size) \in Seq(Bytes)
         /\ Len(buf) < size => Kept(buf, u, size) = Append(buf, u)
  BY AppendProperties DEF Kept

(* A payload byte of a command that knows escapes. *)
LEMMA TakesPayload ==
  ASSUME NEW k, ParserOK(k), k.IN_FRAME = TRUE, k.command \in Escaping,
         NEW b \in Bytes, b # FEND
  PROVE  LET r == serial_callback(k, b)
             u == Unescape(k, b)
         IN  /\ r \in ParserState /\ r.IN_FRAME = TRUE /\ r.command = k.command
             /\ r.ESCAPE = (b = FESC) /\ u \in Bytes
             /\ b = FESC => r.cmdbuf = k.cmdbuf /\ r.stored = k.stored
             /\ b # FESC /\ k.command = CMD_DATA =>
                  r.stored = Kept(k.stored, u, Room) /\ r.cmdbuf = k.cmdbuf
             /\ b # FESC /\ k.command # CMD_DATA =>
                  r.cmdbuf = Kept(k.cmdbuf, u, CMD_L) /\ r.stored = k.stored
<1> DEFINE r == serial_callback(k, b)
           u == Unescape(k, b)
<1>1. r = Payload(k, b)
  <2>1. /\ ~(b = FEND /\ Closes(k)) /\ ~(b = FEND /\ ~Closes(k))
        /\ ~(b # FEND /\ ~k.IN_FRAME) /\ (b # FEND /\ k.IN_FRAME)
        /\ k.command # CMD_UNKNOWN /\ k.command \in Escaping /\ k.command # CMD_SEL_INT
    BY DEF Escaping, CMD_UNKNOWN, CMD_DATA, CMD_FREQUENCY, CMD_SYNC_WORD, CMD_SEL_INT
  <2> QED BY <2>1 DEF serial_callback
<1>2. u \in Bytes
  <2>1. b \in Bytes /\ FEND \in Bytes /\ FESC \in Bytes
    BY DEF Bytes
  <2> QED BY <2>1 DEF Unescape
<1> HIDE DEF u, r
<1>3. Room \in Nat /\ CMD_L \in Nat
  BY KissAssumption
<1>4. k \in ParserState /\ k.stored \in Seq(Bytes) /\ k.cmdbuf \in Seq(Bytes)
  BY DEF ParserOK, ParserState
<1>5. CASE b = FESC
  <2>1. r = [k EXCEPT !.ESCAPE = TRUE]
    BY <1>1, <1>5 DEF Payload
  <2> QED BY <1>2, <1>4, <1>5, <2>1 DEF ParserState, u, r
<1>6. CASE b # FESC /\ k.command = CMD_DATA
  <2>1. PICK q \in Seq(Bytes) : q = Kept(k.stored, u, Room)
    BY <1>2, <1>3, <1>4, KeptIs
  <2>2. r = [k EXCEPT !.ESCAPE = FALSE, !.stored = q]
    BY <1>1, <1>6, <2>1 DEF Payload, u
  <2>3. /\ r \in ParserState /\ r.IN_FRAME = TRUE /\ r.command = k.command /\ r.ESCAPE = FALSE
        /\ r.stored = q /\ r.cmdbuf = k.cmdbuf
    BY <1>4, <2>2 DEF ParserState
  <2> QED BY <1>2, <1>6, <2>1, <2>3 DEF u, r
<1>7. CASE b # FESC /\ k.command # CMD_DATA
  <2>1. PICK q \in Seq(Bytes) : q = Kept(k.cmdbuf, u, CMD_L)
    BY <1>2, <1>3, <1>4, KeptIs
  <2>2. r = [k EXCEPT !.ESCAPE = FALSE, !.cmdbuf = q]
    BY <1>1, <1>7, <2>1 DEF Payload, u
  <2>3. /\ r \in ParserState /\ r.IN_FRAME = TRUE /\ r.command = k.command /\ r.ESCAPE = FALSE
        /\ r.cmdbuf = q /\ r.stored = k.stored
    BY <1>4, <2>2 DEF ParserState
  <2> QED BY <1>2, <1>7, <2>1, <2>3 DEF u, r
<1> QED BY <1>5, <1>6, <1>7

(* What is carried out on a byte that is not a FEND. *)
LEMMA CarriedInside ==
  ASSUME NEW k, k.IN_FRAME = TRUE, NEW b, b # FEND
  PROVE  /\ k.command = CMD_FREQUENCY =>
              Carried(k, b) = IF Len(serial_callback(k, b).cmdbuf) = Counted
                              THEN <<[cmd |-> k.command, arg |-> serial_callback(k, b).cmdbuf]>>
                              ELSE <<>>
         /\ k.command = CMD_SEL_INT => Carried(k, b) = <<[cmd |-> k.command, arg |-> <<b>>]>>
         /\ k.command \notin {CMD_FREQUENCY, CMD_SEL_INT} => Carried(k, b) = <<>>
<1>1. CMD_FREQUENCY # CMD_SEL_INT
  BY DEF CMD_FREQUENCY, CMD_SEL_INT
<1>2. CASE k.command = CMD_FREQUENCY
  BY <1>1, <1>2, Zenon DEF Carried
<1>3. CASE k.command = CMD_SEL_INT
  BY <1>1, <1>3, Zenon DEF Carried
<1>4. CASE k.command \notin {CMD_FREQUENCY, CMD_SEL_INT}
  BY <1>4 DEF Carried
<1> QED BY <1>1, <1>2, <1>3, <1>4

(* A byte of a command that is carried out at once. *)
LEMMA Selects ==
  ASSUME NEW k, ParserOK(k), k.IN_FRAME = TRUE, k.command = CMD_SEL_INT, NEW b \in Bytes, b # FEND
  PROVE  LET r == serial_callback(k, b)
         IN  /\ r \in ParserState /\ r.IN_FRAME = TRUE /\ r.command = k.command
             /\ r.ESCAPE = k.ESCAPE /\ r.cmdbuf = k.cmdbuf /\ r.stored = k.stored
<1> DEFINE r == serial_callback(k, b)
<1>1. PICK v : v = IF b \in {"00", "01"} THEN b ELSE "00"
  OBVIOUS
<1>2. r = [k EXCEPT !.selected_vport = v]
  <2>1. /\ ~(b = FEND /\ Closes(k)) /\ ~(b = FEND /\ ~Closes(k))
        /\ ~(b # FEND /\ ~k.IN_FRAME) /\ (b # FEND /\ k.IN_FRAME)
        /\ k.command # CMD_UNKNOWN /\ k.command \notin Escaping /\ k.command = CMD_SEL_INT
    BY DEF Escaping, CMD_UNKNOWN, CMD_DATA, CMD_FREQUENCY, CMD_SYNC_WORD, CMD_SEL_INT
  <2> QED BY <1>1, <2>1 DEF serial_callback
<1>3. v \in Bytes
  BY <1>1 DEF Bytes
<1> HIDE DEF r
<1>4. /\ r \in ParserState /\ r.IN_FRAME = TRUE /\ r.command = k.command
      /\ r.ESCAPE = k.ESCAPE /\ r.cmdbuf = k.cmdbuf /\ r.stored = k.stored
  BY <1>2, <1>3 DEF ParserOK, ParserState
<1> QED BY <1>4 DEF r

(* serial_callback() keeps payload only in an open frame of data, so a frame *)
(* never begins with what an earlier one left.                               *)
LEMMA ParserStep ==
  ASSUME NEW k, ParserOK(k), NEW b \in Bytes
  PROVE  ParserOK(serial_callback(k, b))
<1> DEFINE r == serial_callback(k, b)
<1>1. CASE b = FEND
  <2>1. CASE Closes(k)
    <3>1. r \in ParserState /\ r.stored = <<>>
      BY <1>1, <2>1, ClosesFrame
    <3> QED BY <3>1 DEF ParserOK
  <2>2. CASE ~Closes(k)
    <3>1. r \in ParserState /\ r.stored = <<>>
      BY <1>1, <2>2, Opens
    <3> QED BY <3>1 DEF ParserOK
  <2> QED BY <2>1, <2>2
<1>2. CASE b # FEND /\ k.IN_FRAME = FALSE
  BY <1>2, Ignores
<1>3. CASE b # FEND /\ k.IN_FRAME = TRUE
  <2>1. k \in ParserState /\ (k.command # CMD_DATA => k.stored = <<>>)
    BY DEF ParserOK
  <2>2. CASE k.command \in Escaping
    <3>1. /\ r \in ParserState /\ r.IN_FRAME = TRUE /\ r.command = k.command
          /\ k.command # CMD_DATA => r.stored = k.stored
      BY <1>3, <2>2, TakesPayload
    <3> QED BY <2>1, <3>1 DEF ParserOK
  <2>3. CASE k.command = CMD_SEL_INT
    <3>1. r \in ParserState /\ r.stored = k.stored /\ k.command # CMD_DATA
      BY <1>3, <2>3, Selects DEF CMD_SEL_INT, CMD_DATA
    <3> QED BY <2>1, <3>1 DEF ParserOK
  <2>4. CASE k.command \notin Escaping /\ k.command # CMD_SEL_INT
    <3>1. r = k \/ r = [k EXCEPT !.command = b]
      <4>1. /\ ~(b = FEND /\ Closes(k)) /\ ~(b = FEND /\ ~Closes(k))
            /\ ~(b # FEND /\ ~k.IN_FRAME) /\ (b # FEND /\ k.IN_FRAME)
        BY <1>3
      <4> QED BY <2>4, <4>1 DEF serial_callback
    <3>2. k.stored = <<>>
      BY <2>1, <2>4 DEF Escaping
    <3> HIDE DEF r
    <3>3. r \in ParserState /\ r.stored = <<>>
      BY <2>1, <3>1, <3>2 DEF ParserState
    <3> QED BY <3>3 DEF ParserOK, r
  <2> QED BY <2>2, <2>3, <2>4
<1>4. k.IN_FRAME \in BOOLEAN
  BY DEF ParserOK, ParserState
<1> QED BY <1>1, <1>2, <1>3, <1>4

-----------------------------------------------------------------------------
(* A frame, byte by byte *)

(* Where the codes of a payload, or the frames of a stream, begin and end. *)
LEMMA EndIs ==
  ASSUME NEW n \in Nat, NEW s \in [1..n -> Seq(Bytes)]
  PROVE  /\ \A k \in 1..n : End(s, k) = End(s, k - 1) + Len(s[k])
         /\ \A k \in 0..n : End(s, k) \in Nat
         /\ End(s, 0) = 0
<1>1. /\ \A k \in 0..n : FlattenSeq(First(s, k)) \in Seq(Bytes) /\ End(s, k) \in Nat
      /\ End(s, 0) = 0
      /\ \A k \in 1..n : End(s, k) = End(s, k - 1) + Len(s[k])
      /\ \A k \in 1..n : \A j \in 1..Len(s[k]) :
            /\ End(s, k - 1) + j \in 1..End(s, n)
            /\ FlattenSeq(First(s, n))[End(s, k - 1) + j] = s[k][j]
      /\ First(s, n) = s
  BY FlattenFacts
<1> QED BY <1>1

(* What a proper frame has. *)
LEMMA ProperIs ==
  ASSUME NEW f, Proper(f)
  PROVE  /\ f = [cmd |-> f.cmd, arg |-> f.arg] /\ f.cmd \in Commands /\ f.cmd \in Bytes
         /\ f.cmd # FEND /\ f.cmd # CMD_UNKNOWN
         /\ f.arg \in Seq(Bytes) /\ Len(f.arg) \in Nat \ {0}
         /\ f.cmd = CMD_DATA => Len(f.arg) <= Room
         /\ f.cmd = CMD_SYNC_WORD => Len(f.arg) <= CMD_L
         /\ f.cmd = CMD_FREQUENCY => Len(f.arg) = Counted
         /\ f.cmd = CMD_SEL_INT => Len(f.arg) = 1 /\ f.arg[1] \notin {FEND, FESC}
         /\ Room \in Nat /\ CMD_L \in Nat /\ Counted \in Nat /\ Counted <= CMD_L
<1>1. f \in [cmd : Commands, arg : Seq(STRING)]
  BY DEF Proper
<1>2. f = [cmd |-> f.cmd, arg |-> f.arg] /\ f.cmd \in Commands /\ f.arg \in Seq(STRING)
  BY <1>1
<1>3. f.cmd \in Bytes /\ STRING \subseteq Bytes
  BY <1>2 DEF Bytes
<1>4. f.arg \in Seq(Bytes)
  BY <1>2, <1>3, SeqMonotonic
<1>5. f.cmd # FEND /\ f.cmd # CMD_UNKNOWN
  BY <1>2 DEF Commands, Escaping, FEND, CMD_UNKNOWN, CMD_DATA, CMD_FREQUENCY, CMD_SYNC_WORD, CMD_SEL_INT
<1>6. /\ Counted \in Nat /\ CMD_L \in Nat /\ Counted <= CMD_L /\ Room \in Nat /\ Counted # 0
  BY KissAssumption
<1>7. Len(f.arg) \in Nat
  BY <1>4
<1>8. Len(f.arg) \in CASE f.cmd = CMD_DATA -> 1..Room
                       [] f.cmd = CMD_SYNC_WORD -> 1..CMD_L
                       [] f.cmd = CMD_FREQUENCY -> {Counted}
                       [] f.cmd = CMD_SEL_INT -> {1}
  BY DEF Proper
<1>9. f.cmd = CMD_SEL_INT => f.arg[1] \notin {FEND, FESC}
  BY DEF Proper
<1>10. f.cmd \in {CMD_DATA, CMD_FREQUENCY, CMD_SYNC_WORD, CMD_SEL_INT}
  BY <1>2 DEF Commands, Escaping
<1>11. CASE f.cmd = CMD_DATA
  <2>1. f.cmd # CMD_SYNC_WORD /\ f.cmd # CMD_FREQUENCY /\ f.cmd # CMD_SEL_INT
    BY <1>11 DEF CMD_DATA, CMD_FREQUENCY, CMD_SYNC_WORD, CMD_SEL_INT
  <2>2. Len(f.arg) \in 1..Room
    BY <1>8, <1>11, <2>1
  <2> QED BY <1>2, <1>3, <1>4, <1>5, <1>6, <1>7, <1>11, <2>1, <2>2
<1>12. CASE f.cmd = CMD_SYNC_WORD
  <2>1. f.cmd # CMD_DATA /\ f.cmd # CMD_FREQUENCY /\ f.cmd # CMD_SEL_INT
    BY <1>12 DEF CMD_DATA, CMD_FREQUENCY, CMD_SYNC_WORD, CMD_SEL_INT
  <2>2. Len(f.arg) \in 1..CMD_L
    BY <1>8, <1>12, <2>1
  <2> QED BY <1>2, <1>3, <1>4, <1>5, <1>6, <1>7, <1>12, <2>1, <2>2
<1>13. CASE f.cmd = CMD_FREQUENCY
  <2>1. f.cmd # CMD_DATA /\ f.cmd # CMD_SYNC_WORD /\ f.cmd # CMD_SEL_INT
    BY <1>13 DEF CMD_DATA, CMD_FREQUENCY, CMD_SYNC_WORD, CMD_SEL_INT
  <2>2. Len(f.arg) = Counted
    BY <1>8, <1>13, <2>1
  <2> QED BY <1>2, <1>3, <1>4, <1>5, <1>6, <1>7, <1>13, <2>1, <2>2
<1>14. CASE f.cmd = CMD_SEL_INT
  <2>1. f.cmd # CMD_DATA /\ f.cmd # CMD_SYNC_WORD /\ f.cmd # CMD_FREQUENCY
    BY <1>14 DEF CMD_DATA, CMD_FREQUENCY, CMD_SYNC_WORD, CMD_SEL_INT
  <2>2. Len(f.arg) = 1
    BY <1>8, <1>14, <2>1
  <2> QED BY <1>2, <1>3, <1>4, <1>5, <1>6, <1>7, <1>9, <1>14, <2>1, <2>2
<1> QED BY <1>10, <1>11, <1>12, <1>13, <1>14

(* How a payload byte is written. *)
LEMMA EscapedIs ==
  ASSUME NEW b \in Bytes
  PROVE  /\ Escaped(b) \in Seq(Bytes)
         /\ b \in {FEND, FESC} => /\ Len(Escaped(b)) = 2 /\ Escaped(b)[1] = FESC
                                  /\ Escaped(b)[2] = IF b = FEND THEN TFEND ELSE TFESC
         /\ b \notin {FEND, FESC} => Len(Escaped(b)) = 1 /\ Escaped(b)[1] = b
<1>1. {FEND, FESC, TFEND, TFESC} \subseteq Bytes
  BY DEF Bytes
<1>2. CASE b = FEND
  <2>1. Escaped(b) = <<FESC, TFEND>>
    BY <1>2 DEF Escaped, FEND, FESC
  <2> QED BY <1>1, <1>2, <2>1
<1>3. CASE b = FESC
  <2>1. b # FEND
    BY <1>3 DEF FEND, FESC
  <2>2. Escaped(b) = <<FESC, TFESC>>
    BY <1>3, <2>1 DEF Escaped
  <2> QED BY <1>1, <1>3, <2>1, <2>2
<1>4. CASE b # FEND /\ b # FESC
  <2>1. Escaped(b) = <<b>>
    BY <1>4 DEF Escaped
  <2> QED BY <1>4, <2>1
<1> QED BY <1>2, <1>3, <1>4

(* The codes of a payload, and where in a frame they are: o bytes of it are  *)
(* the FEND, the command, j codes and, when half is TRUE, the FESC of one.   *)
Codes(f) == [i \in 1..Len(f.arg) |-> Escaped(f.arg[i])]
PlaceIn(f, o, j, half) ==
    /\ j \in 0..Len(f.arg) /\ half \in BOOLEAN
    /\ o = 2 + End(Codes(f), j) + (IF half THEN 1 ELSE 0)
    /\ half => j < Len(f.arg) /\ f.arg[j + 1] \in {FEND, FESC}

(* The bytes of a written frame. *)
LEMMA WrittenIs ==
  ASSUME NEW f, Proper(f)
  PROVE  LET n == Len(f.arg)
             l == End(Codes(f), n)
         IN  /\ n \in Nat \ {0} /\ Codes(f) \in [1..n -> Seq(Bytes)]
             /\ l \in Nat /\ Written(f) \in Seq(Bytes) /\ Len(Written(f)) = l + 3
             /\ Written(f)[1] = FEND /\ Written(f)[2] = f.cmd /\ Written(f)[l + 3] = FEND
             /\ \A j \in 1..n : \A c \in 1..Len(Escaped(f.arg[j])) :
                   /\ End(Codes(f), j - 1) + c \in 1..l
                   /\ Written(f)[2 + (End(Codes(f), j - 1) + c)] = Escaped(f.arg[j])[c]
<1> DEFINE n == Len(f.arg)
           s == Codes(f)
           l == End(s, n)
           P == FlattenSeq(s)
           a == <<FEND, f.cmd>>
           z == <<FEND>>
<1>1. n \in Nat \ {0} /\ f.arg \in Seq(Bytes) /\ f.cmd \in Bytes /\ FEND \in Bytes
  BY ProperIs DEF Bytes
<1>2. \A i \in 1..n : f.arg[i] \in Bytes
  BY <1>1
<1>3. s \in [1..n -> Seq(Bytes)] /\ \A i \in 1..n : s[i] = Escaped(f.arg[i])
  BY <1>2, EscapedIs DEF Codes
<1> HIDE DEF n, s
<1>4. /\ P \in Seq(Bytes) /\ l \in Nat /\ Len(P) = l
      /\ \A j \in 1..n : \A c \in 1..Len(s[j]) :
           End(s, j - 1) + c \in 1..l /\ P[End(s, j - 1) + c] = s[j][c]
  <2>1. n \in 0..n /\ n \in Nat
    BY <1>1
  <2>2. First(s, n) = s /\ FlattenSeq(First(s, n)) \in Seq(Bytes) /\ End(s, n) \in Nat
    BY <1>3, <2>1, FlattenFacts
  <2>3. \A j \in 1..n : \A c \in 1..Len(s[j]) :
           /\ End(s, j - 1) + c \in 1..End(s, n)
           /\ FlattenSeq(First(s, n))[End(s, j - 1) + c] = s[j][c]
    BY <1>3, <2>1, FlattenFacts, SMTT(30)
  <2>4. End(s, n) = Len(P)
    BY <2>2 DEF End
  <2> QED BY <2>2, <2>3, <2>4
<1>5. a \in Seq(Bytes) /\ Len(a) = 2 /\ a[1] = FEND /\ a[2] = f.cmd
  BY <1>1
<1>6. z \in Seq(Bytes) /\ Len(z) = 1 /\ z[1] = FEND
  BY <1>1
<1>7. Written(f) = (a \o P) \o z
  BY DEF Written, s, n, Codes
<1> HIDE DEF a, z, P, l
<1>8. /\ a \o P \in Seq(Bytes) /\ Len(a \o P) = 2 + l
      /\ \A i \in 1..2 + l : (a \o P)[i] = IF i <= 2 THEN a[i] ELSE P[i - 2]
  <2>1. a \in Seq(Bytes) /\ P \in Seq(Bytes)
    BY <1>4, <1>5
  <2>2. /\ a \o P \in Seq(Bytes) /\ Len(a \o P) = Len(a) + Len(P)
        /\ \A i \in 1..Len(a) + Len(P) : (a \o P)[i] = IF i <= Len(a) THEN a[i] ELSE P[i - Len(a)]
    BY <2>1, ConcatProperties
  <2>3. Len(a) = 2 /\ Len(P) = l
    BY <1>4, <1>5
  <2> QED BY <2>2, <2>3
<1>9. PICK w \in Seq(Bytes) : w = a \o P
  BY <1>8
<1>10. /\ w \o z \in Seq(Bytes) /\ Len(w \o z) = 2 + l + 1
       /\ \A i \in 1..2 + l + 1 : (w \o z)[i] = IF i <= 2 + l THEN w[i] ELSE z[i - (2 + l)]
  <2>1. z \in Seq(Bytes) /\ Len(z) = 1 /\ Len(w) = 2 + l
    BY <1>6, <1>8, <1>9
  <2>2. /\ w \o z \in Seq(Bytes) /\ Len(w \o z) = Len(w) + Len(z)
        /\ \A i \in 1..Len(w) + Len(z) : (w \o z)[i] = IF i <= Len(w) THEN w[i] ELSE z[i - Len(w)]
    BY <2>1, ConcatProperties
  <2> QED BY <2>1, <2>2
<1>11. Written(f) \in Seq(Bytes) /\ Len(Written(f)) = l + 3
  BY <1>4, <1>7, <1>9, <1>10
<1>12. \A i \in 1..2 + l + 1 : Written(f)[i] = IF i <= 2 + l THEN w[i] ELSE z[i - (2 + l)]
  BY <1>7, <1>9, <1>10
<1>13. \A i \in 1..2 + l : w[i] = IF i <= 2 THEN a[i] ELSE P[i - 2]
  BY <1>8, <1>9
<1>14. Written(f)[1] = FEND /\ Written(f)[2] = f.cmd
  <2>1. 1 \in 1..2 + l + 1 /\ 2 \in 1..2 + l + 1 /\ 1 \in 1..2 + l /\ 2 \in 1..2 + l
        /\ 1 <= 2 + l /\ 2 <= 2 + l
    BY <1>4
  <2>2. Written(f)[1] = w[1] /\ Written(f)[2] = w[2] /\ w[1] = a[1] /\ w[2] = a[2]
    BY <1>12, <1>13, <2>1
  <2> QED BY <1>5, <2>2
<1>15. Written(f)[l + 3] = FEND
  <2>1. l + 3 \in 1..2 + l + 1 /\ ~(l + 3 <= 2 + l) /\ l + 3 - (2 + l) = 1
    BY <1>4
  <2>2. PICK i : i = l + 3
    OBVIOUS
  <2>3. i \in 1..2 + l + 1 /\ ~(i <= 2 + l) /\ i - (2 + l) = 1
    BY <1>4, <2>2
  <2>4. Written(f)[i] = z[i - (2 + l)]
    BY <1>12, <2>3
  <2> QED BY <1>6, <2>2, <2>3, <2>4
<1>16. ASSUME NEW j \in 1..n, NEW c \in 1..Len(Escaped(f.arg[j]))
       PROVE  /\ End(s, j - 1) + c \in 1..l
              /\ Written(f)[2 + (End(s, j - 1) + c)] = Escaped(f.arg[j])[c]
  <2>1. PICK p : p = End(s, j - 1) + c
    OBVIOUS
  <2>2. p \in 1..l /\ P[p] = Escaped(f.arg[j])[c]
    <3>1. s[j] = Escaped(f.arg[j])
      BY <1>3
    <3>2. c \in 1..Len(s[j])
      BY <3>1
    <3> QED BY <1>4, <2>1, <3>1, <3>2
  <2>3. /\ 2 + p \in 1..2 + l + 1 /\ 2 + p <= 2 + l /\ 2 + p \in 1..2 + l
        /\ ~(2 + p <= 2) /\ (2 + p) - 2 = p
    BY <1>4, <2>2
  <2>4. Written(f)[2 + p] = w[2 + p] /\ w[2 + p] = P[(2 + p) - 2]
    BY <1>12, <1>13, <2>3
  <2> QED BY <2>1, <2>2, <2>3, <2>4
<1> QED BY <1>1, <1>3, <1>4, <1>11, <1>14, <1>15, <1>16 DEF n, s, l

(* The byte after a place in a frame, and the place after it. *)
EndAhead(f, o, half) == half = FALSE /\ o + 1 = Len(Written(f)) /\ Written(f)[o + 1] = FEND
CodeAhead(f, o, j, half) ==
    /\ o + 1 < Len(Written(f)) /\ j + 1 \in 1..Len(f.arg)
    /\ half = FALSE /\ f.arg[j + 1] \in {FEND, FESC} =>
         Written(f)[o + 1] = FESC /\ PlaceIn(f, o + 1, j, TRUE)
    /\ half = FALSE /\ f.arg[j + 1] \notin {FEND, FESC} =>
         Written(f)[o + 1] = f.arg[j + 1] /\ PlaceIn(f, o + 1, j + 1, FALSE)
    /\ half = TRUE =>
         /\ f.arg[j + 1] \in {FEND, FESC}
         /\ Written(f)[o + 1] = IF f.arg[j + 1] = FEND THEN TFEND ELSE TFESC
         /\ PlaceIn(f, o + 1, j + 1, FALSE)

(* A frame ends after its last code, and nowhere else. *)
LEMMA NextPlace ==
  ASSUME NEW f, Proper(f), NEW o, NEW j, NEW half, PlaceIn(f, o, j, half)
  PROVE  /\ o \in Nat /\ o >= 2 /\ o < Len(Written(f)) /\ Len(Written(f)) \in Nat
         /\ j = Len(f.arg) => EndAhead(f, o, half)
         /\ j < Len(f.arg) => CodeAhead(f, o, j, half)
         /\ j = Len(f.arg) \/ j < Len(f.arg)
<1> DEFINE n == Len(f.arg)
           s == Codes(f)
           l == End(s, n)
           w == Written(f)
<1>1. /\ n \in Nat \ {0} /\ s \in [1..n -> Seq(Bytes)]
      /\ l \in Nat /\ Len(w) = l + 3 /\ w[l + 3] = FEND
  BY WrittenIs
<1>2. \A i \in 1..n : \A c \in 1..Len(Escaped(f.arg[i])) :
         End(s, i - 1) + c \in 1..l /\ w[2 + (End(s, i - 1) + c)] = Escaped(f.arg[i])[c]
  BY WrittenIs
<1>3. j \in 0..n /\ half \in BOOLEAN /\ End(s, j) \in Nat
  BY <1>1, FlattenFacts DEF PlaceIn
<1>4. f.arg \in Seq(Bytes)
  BY ProperIs
<1> HIDE DEF n, s, l, w
<1>5. CASE j = n
  <2>1. half = FALSE /\ o = 2 + l
    BY <1>1, <1>3, <1>5 DEF PlaceIn, n, s, l
  <2>2. o \in Nat /\ o >= 2 /\ o < l + 3 /\ o + 1 = l + 3 /\ ~(j < n) /\ l + 3 \in Nat
    BY <1>1, <1>5, <2>1
  <2>3. EndAhead(f, o, half)
    <3>1. w[o + 1] = FEND /\ o + 1 = Len(w)
      BY <1>1, <2>2
    <3> QED BY <2>1, <3>1 DEF EndAhead, w
  <2>4. o < Len(w) /\ Len(w) \in Nat
    BY <1>1, <2>2
  <2> HIDE DEF n
  <2> QED BY <1>5, <2>2, <2>3, <2>4 DEF w, n
<1>6. CASE j < n
  <2>1. j + 1 \in 1..n /\ (j + 1) - 1 = j /\ j # n
    BY <1>1, <1>3, <1>6
  <2>2. PICK b \in Bytes : b = f.arg[j + 1]
    BY <1>4, <2>1 DEF n
  <2>3. PICK e \in Nat : e = End(s, j)
    BY <1>3
  <2>4. /\ \A c \in 1..Len(Escaped(b)) : e + c \in 1..l /\ w[2 + (e + c)] = Escaped(b)[c]
        /\ End(s, j + 1) = e + Len(Escaped(b))
    <3>1. \A c \in 1..Len(Escaped(b)) : e + c \in 1..l /\ w[2 + (e + c)] = Escaped(b)[c]
      BY <1>2, <2>1, <2>2, <2>3
    <3>2. s[j + 1] = Escaped(b)
      BY <2>1, <2>2 DEF s, Codes, n
    <3>3. \A k \in 1..n : End(s, k) = End(s, k - 1) + Len(s[k])
      <4>1. n \in Nat /\ s \in [1..n -> Seq(Bytes)]
        BY <1>1
      <4> QED BY <4>1, EndIs
    <3>4. PICK m \in 1..n : m = j + 1 /\ m - 1 = j
      BY <2>1
    <3>5. End(s, m) = End(s, m - 1) + Len(s[m])
      BY <3>3
    <3> QED BY <2>3, <3>1, <3>2, <3>4, <3>5
  <2>5. half = FALSE => /\ o = 2 + e /\ o \in Nat /\ o >= 2 /\ o + 1 < Len(w) /\ o < Len(w)
                        /\ w[o + 1] = Escaped(b)[1]
    <3> SUFFICES ASSUME half = FALSE
                 PROVE  /\ o = 2 + e /\ o \in Nat /\ o >= 2 /\ o + 1 < Len(w) /\ o < Len(w)
                        /\ w[o + 1] = Escaped(b)[1]
      OBVIOUS
    <3>1. o = 2 + e
      BY <2>3 DEF PlaceIn, s
    <3>2. 1 \in 1..Len(Escaped(b))
      BY EscapedIs
    <3>3. e + 1 \in 1..l /\ w[2 + (e + 1)] = Escaped(b)[1]
      BY <2>4, <3>2
    <3>4. o \in Nat /\ o >= 2 /\ o + 1 < l + 3 /\ 2 + (e + 1) = o + 1 /\ o < l + 3
      BY <1>1, <3>1, <3>3
    <3> QED BY <1>1, <3>1, <3>3, <3>4
  <2>6. half = TRUE => /\ o = 2 + e + 1 /\ o \in Nat /\ o >= 2 /\ o + 1 < Len(w) /\ o < Len(w)
                       /\ b \in {FEND, FESC} /\ w[o + 1] = IF b = FEND THEN TFEND ELSE TFESC
    <3> SUFFICES ASSUME half = TRUE
                 PROVE  /\ o = 2 + e + 1 /\ o \in Nat /\ o >= 2 /\ o + 1 < Len(w) /\ o < Len(w)
                        /\ b \in {FEND, FESC} /\ w[o + 1] = IF b = FEND THEN TFEND ELSE TFESC
      OBVIOUS
    <3>1. o = 2 + e + 1 /\ b \in {FEND, FESC}
      BY <2>2, <2>3 DEF PlaceIn, s
    <3>2. Len(Escaped(b)) = 2 /\ Escaped(b)[2] = IF b = FEND THEN TFEND ELSE TFESC
      BY <3>1, EscapedIs
    <3>3. e + 2 \in 1..l /\ w[2 + (e + 2)] = Escaped(b)[2]
      BY <2>4, <3>2
    <3>4. o \in Nat /\ o >= 2 /\ o + 1 < l + 3 /\ 2 + (e + 2) = o + 1 /\ o < l + 3
      BY <1>1, <3>1, <3>3
    <3> QED BY <1>1, <3>1, <3>2, <3>3, <3>4
  <2>7. half = FALSE /\ b \in {FEND, FESC} => w[o + 1] = FESC /\ PlaceIn(f, o + 1, j, TRUE)
    <3> SUFFICES ASSUME half = FALSE, b \in {FEND, FESC}
                 PROVE  w[o + 1] = FESC /\ PlaceIn(f, o + 1, j, TRUE)
      OBVIOUS
    <3>1. w[o + 1] = FESC
      BY <2>5, EscapedIs
    <3>2. o + 1 = 2 + End(s, j) + 1
      BY <2>3, <2>5
    <3> QED BY <1>3, <1>6, <2>2, <3>1, <3>2 DEF PlaceIn, n, s
  <2>8. half = FALSE /\ b \notin {FEND, FESC} => w[o + 1] = b /\ PlaceIn(f, o + 1, j + 1, FALSE)
    <3> SUFFICES ASSUME half = FALSE, b \notin {FEND, FESC}
                 PROVE  w[o + 1] = b /\ PlaceIn(f, o + 1, j + 1, FALSE)
      OBVIOUS
    <3>1. w[o + 1] = b /\ Len(Escaped(b)) = 1
      BY <2>5, EscapedIs
    <3>2. o + 1 = 2 + End(s, j + 1) + 0 /\ j + 1 \in 0..n
      BY <1>1, <1>3, <1>6, <2>4, <2>5, <3>1
    <3> QED BY <3>1, <3>2 DEF PlaceIn, n, s
  <2>9. half = TRUE => PlaceIn(f, o + 1, j + 1, FALSE)
    <3> SUFFICES ASSUME half = TRUE PROVE PlaceIn(f, o + 1, j + 1, FALSE)
      OBVIOUS
    <3>1. Len(Escaped(b)) = 2
      BY <2>6, EscapedIs
    <3>2. o + 1 = 2 + End(s, j + 1) + 0 /\ j + 1 \in 0..n
      BY <1>1, <1>3, <1>6, <2>4, <2>6, <3>1
    <3> QED BY <3>2 DEF PlaceIn, n, s
  <2>10. o \in Nat /\ o >= 2 /\ o < Len(w) /\ o + 1 < Len(w) /\ Len(w) \in Nat
    BY <1>1, <1>3, <2>5, <2>6
  <2>11. CodeAhead(f, o, j, half)
    <3>1. o + 1 < Len(Written(f)) /\ j + 1 \in 1..Len(f.arg)
      BY <2>1, <2>10 DEF n, w
    <3>2. half = FALSE /\ f.arg[j + 1] \in {FEND, FESC} =>
            Written(f)[o + 1] = FESC /\ PlaceIn(f, o + 1, j, TRUE)
      BY <2>2, <2>7 DEF w
    <3>3. half = FALSE /\ f.arg[j + 1] \notin {FEND, FESC} =>
            Written(f)[o + 1] = f.arg[j + 1] /\ PlaceIn(f, o + 1, j + 1, FALSE)
      BY <2>2, <2>8 DEF w
    <3>4. half = TRUE =>
            /\ f.arg[j + 1] \in {FEND, FESC}
            /\ Written(f)[o + 1] = IF f.arg[j + 1] = FEND THEN TFEND ELSE TFESC
            /\ PlaceIn(f, o + 1, j + 1, FALSE)
      BY <2>2, <2>6, <2>9 DEF w
    <3> QED BY <3>1, <3>2, <3>3, <3>4 DEF CodeAhead
  <2> QED BY <1>6, <2>1, <2>10, <2>11 DEF w, n
<1>7. j = n \/ j < n
  BY <1>1, <1>3
<1> QED BY <1>5, <1>6, <1>7 DEF n

-----------------------------------------------------------------------------
(* The parser on a frame *)

(* The first j bytes of a payload, and one more. *)
LEMMA PrefixMore ==
  ASSUME NEW a \in Seq(Bytes), NEW j \in Nat, j + 1 \in 1..Len(a)
  PROVE  /\ SubSeq(a, 1, j) \in Seq(Bytes) /\ Len(SubSeq(a, 1, j)) = j
         /\ SubSeq(a, 1, j + 1) \in Seq(Bytes) /\ Len(SubSeq(a, 1, j + 1)) = j + 1
         /\ SubSeq(a, 1, j + 1) = Append(SubSeq(a, 1, j), a[j + 1])
<1>1. /\ 1 \in 1..Len(a) + 1 /\ j \in 1 - 1..Len(a) /\ j + 1 \in 1 - 1..Len(a)
  OBVIOUS
<1>2. /\ SubSeq(a, 1, j) \in Seq(Bytes) /\ Len(SubSeq(a, 1, j)) = j - 1 + 1
      /\ SubSeq(a, 1, j + 1) \in Seq(Bytes) /\ Len(SubSeq(a, 1, j + 1)) = (j + 1) - 1 + 1
  BY <1>1, SubSeqProperties
<1>3. /\ SubSeq(a, 1, j) \in Seq(Bytes) /\ Len(SubSeq(a, 1, j)) = j
      /\ SubSeq(a, 1, j + 1) \in Seq(Bytes) /\ Len(SubSeq(a, 1, j + 1)) = j + 1
  BY <1>2
<1>4. SubSeq(a, 1, j + 1) = Append(SubSeq(a, 1, j), a[j + 1])
  OBVIOUS
<1> QED BY <1>3, <1>4

(* What the byte on the wire says of the payload byte v. *)
CodeOf(b, v, half) ==
    \/ half = FALSE /\ v \notin {FEND, FESC} /\ b = v
    \/ half = TRUE /\ v = FEND /\ b = TFEND
    \/ half = TRUE /\ v = FESC /\ b = TFESC

(* It is taken back to it. *)
LEMMA UnescapeIs ==
  ASSUME NEW k, NEW b, NEW v, NEW half \in BOOLEAN, k.ESCAPE = half, CodeOf(b, v, half)
  PROVE  Unescape(k, b) = v /\ b # FESC /\ b # FEND
<1>1. /\ TFEND # TFESC /\ TFEND # FEND /\ TFEND # FESC /\ TFESC # FEND /\ TFESC # FESC
  BY DEF TFEND, TFESC, FEND, FESC
<1>2. CASE half = FALSE
  BY <1>1, <1>2 DEF Unescape, CodeOf
<1>3. CASE half = TRUE
  BY <1>1, <1>3 DEF Unescape, CodeOf
<1> QED BY <1>2, <1>3

(* The FESC of a payload byte. *)
LEMMA ReadsEscape ==
  ASSUME NEW f, Proper(f), NEW k, ParserOK(k), NEW j \in Nat, j + 1 \in 1..Len(f.arg),
         Reading(k, f, j, FALSE), f.arg[j + 1] \in {FEND, FESC}
  PROVE  Reading(serial_callback(k, FESC), f, j, TRUE) /\ Carried(k, FESC) = <<>>
<1> DEFINE r == serial_callback(k, FESC)
<1>1. /\ f.cmd \in Commands /\ f.arg \in Seq(Bytes) /\ Len(f.arg) \in Nat
      /\ f.cmd = CMD_FREQUENCY => Len(f.arg) = Counted
      /\ f.cmd = CMD_SEL_INT => Len(f.arg) = 1 /\ f.arg[1] \notin {FEND, FESC}
  BY ProperIs
<1>2. f.cmd # CMD_SEL_INT
  <2> SUFFICES ASSUME f.cmd = CMD_SEL_INT PROVE FALSE
    OBVIOUS
  <2>1. j + 1 = 1 /\ f.arg[1] \notin {FEND, FESC}
    BY <1>1
  <2> QED BY <2>1
<1>3. /\ k.IN_FRAME = TRUE /\ k.command = f.cmd /\ k.command \in Escaping
      /\ FESC \in Bytes /\ FESC # FEND
  BY <1>1, <1>2 DEF Reading, Commands, Bytes, FESC, FEND
<1>4. /\ r.IN_FRAME = TRUE /\ r.command = k.command /\ r.ESCAPE = TRUE
      /\ r.cmdbuf = k.cmdbuf /\ r.stored = k.stored
  BY <1>3, TakesPayload
<1>5. Reading(r, f, j, TRUE)
  <2> HIDE DEF r
  <2> QED BY <1>4 DEF Reading
<1>6. Carried(k, FESC) = <<>>
  <2>1. CASE f.cmd = CMD_FREQUENCY
    <3>1. r.cmdbuf = SubSeq(f.arg, 1, j)
      BY <1>4, <2>1 DEF Reading
    <3>2. Len(r.cmdbuf) = j /\ j # Counted
      BY <1>1, <2>1, <3>1, PrefixMore
    <3> QED BY <1>3, <2>1, <3>2, CarriedInside
  <2>2. CASE f.cmd # CMD_FREQUENCY
    BY <1>2, <1>3, <2>2, CarriedInside
  <2> QED BY <2>1, <2>2
<1> QED BY <1>5, <1>6

(* A payload byte, with or without its FESC before it. *)
LEMMA ReadsByte ==
  ASSUME NEW f, Proper(f), NEW k, ParserOK(k), NEW j \in Nat, j + 1 \in 1..Len(f.arg),
         NEW half \in BOOLEAN, Reading(k, f, j, half),
         NEW b \in Bytes, CodeOf(b, f.arg[j + 1], half)
  PROVE  Reading(serial_callback(k, b), f, j + 1, FALSE) /\ Carried(k, b) = Out(f, j + 1)
<1> DEFINE r == serial_callback(k, b)
           v == f.arg[j + 1]
<1>1. /\ f.cmd \in Commands /\ f.arg \in Seq(Bytes) /\ Len(f.arg) \in Nat
      /\ f = [cmd |-> f.cmd, arg |-> f.arg]
      /\ f.cmd = CMD_FREQUENCY => Len(f.arg) = Counted /\ Counted <= CMD_L
      /\ f.cmd = CMD_DATA => Len(f.arg) <= Room
      /\ f.cmd = CMD_SYNC_WORD => Len(f.arg) <= CMD_L
      /\ f.cmd = CMD_SEL_INT => Len(f.arg) = 1 /\ f.arg[1] \notin {FEND, FESC}
      /\ Room \in Nat /\ CMD_L \in Nat /\ Counted \in Nat
  BY ProperIs
<1>2. Unescape(k, b) = v /\ b # FESC /\ b # FEND
  <2>1. k.ESCAPE = half
    BY DEF Reading
  <2> QED BY <2>1, UnescapeIs
<1>3. k.IN_FRAME = TRUE /\ k.command = f.cmd
  BY DEF Reading
<1>4. /\ SubSeq(f.arg, 1, j) \in Seq(Bytes) /\ Len(SubSeq(f.arg, 1, j)) = j
      /\ SubSeq(f.arg, 1, j + 1) = Append(SubSeq(f.arg, 1, j), v)
      /\ Len(SubSeq(f.arg, 1, j + 1)) = j + 1
      /\ v \in Bytes
  <2>1. v \in Bytes
    BY <1>1
  <2>2. PICK a \in Seq(Bytes) : a = f.arg
    BY <1>1
  <2>3. /\ SubSeq(a, 1, j) \in Seq(Bytes) /\ Len(SubSeq(a, 1, j)) = j
        /\ SubSeq(a, 1, j + 1) = Append(SubSeq(a, 1, j), a[j + 1])
        /\ Len(SubSeq(a, 1, j + 1)) = j + 1
    BY <2>2, PrefixMore
  <2> QED BY <2>1, <2>2, <2>3
<1>5. SubSeq(f.arg, 1, Len(f.arg)) = f.arg
  BY <1>1
<1>6. /\ CMD_DATA # CMD_SYNC_WORD /\ CMD_DATA # CMD_FREQUENCY /\ CMD_SEL_INT # CMD_DATA
      /\ CMD_SEL_INT # CMD_SYNC_WORD /\ CMD_SEL_INT # CMD_FREQUENCY /\ CMD_SYNC_WORD # CMD_FREQUENCY
  BY DEF CMD_DATA, CMD_FREQUENCY, CMD_SYNC_WORD, CMD_SEL_INT
<1> HIDE DEF r, v
<1>7. CASE f.cmd = CMD_DATA
  <2>1. k.stored = SubSeq(f.arg, 1, j) /\ k.cmdbuf = <<>> /\ j < Room
    BY <1>1, <1>6, <1>7 DEF Reading
  <2>2. /\ r.IN_FRAME = TRUE /\ r.command = k.command /\ r.ESCAPE = FALSE
        /\ r.stored = Kept(k.stored, v, Room) /\ r.cmdbuf = k.cmdbuf
    <3>1. k.command \in Escaping
      BY <1>3, <1>7 DEF Escaping
    <3>2. r.stored = Kept(k.stored, Unescape(k, b), Room) /\ r.cmdbuf = k.cmdbuf
      BY <1>2, <1>3, <1>7, <3>1, TakesPayload, Zenon DEF r
    <3>3. r.IN_FRAME = TRUE /\ r.command = k.command /\ r.ESCAPE = (b = FESC)
      BY <1>2, <1>3, <3>1, TakesPayload, Zenon DEF r
    <3> QED BY <1>2, <3>2, <3>3, Zenon
  <2>3. Kept(k.stored, v, Room) = Append(k.stored, v)
    <3>1. k.stored \in Seq(Bytes) /\ Len(k.stored) < Room
      BY <1>4, <2>1
    <3>2. v \in Bytes /\ Room \in Nat
      BY <1>1, <1>4
    <3> QED BY ONLY <3>1, <3>2, KeptIs, Zenon
  <2>4. Reading(r, f, j + 1, FALSE)
    BY <1>3, <1>4, <1>6, <1>7, <2>1, <2>2, <2>3 DEF Reading
  <2>5. Carried(k, b) = <<>>
    BY <1>2, <1>3, <1>6, <1>7, CarriedInside
  <2>6. Out(f, j + 1) = <<>>
    BY <1>6, <1>7 DEF Out
  <2> QED BY <2>4, <2>5, <2>6 DEF r
<1>8. CASE f.cmd \in {CMD_SYNC_WORD, CMD_FREQUENCY}
  <2>1. k.cmdbuf = SubSeq(f.arg, 1, j) /\ k.stored = <<>> /\ j < CMD_L
    BY <1>1, <1>6, <1>8 DEF Reading
  <2>2. /\ r.IN_FRAME = TRUE /\ r.command = k.command /\ r.ESCAPE = FALSE
        /\ r.cmdbuf = Kept(k.cmdbuf, v, CMD_L) /\ r.stored = k.stored
    <3>1. k.command \in Escaping /\ k.command # CMD_DATA
      BY <1>3, <1>6, <1>8 DEF Escaping
    <3>2. r.cmdbuf = Kept(k.cmdbuf, Unescape(k, b), CMD_L) /\ r.stored = k.stored
      BY <1>2, <1>3, <3>1, TakesPayload, Zenon DEF r
    <3>3. r.IN_FRAME = TRUE /\ r.command = k.command /\ r.ESCAPE = (b = FESC)
      BY <1>2, <1>3, <3>1, TakesPayload, Zenon DEF r
    <3> QED BY <1>2, <3>2, <3>3, Zenon
  <2>3. Kept(k.cmdbuf, v, CMD_L) = Append(k.cmdbuf, v)
    <3>1. k.cmdbuf \in Seq(Bytes) /\ Len(k.cmdbuf) < CMD_L
      BY <1>4, <2>1
    <3>2. v \in Bytes /\ CMD_L \in Nat
      BY <1>1, <1>4
    <3> QED BY ONLY <3>1, <3>2, KeptIs, Zenon
  <2>4. r.cmdbuf = SubSeq(f.arg, 1, j + 1)
    BY <1>4, <2>1, <2>2, <2>3
  <2>5. Reading(r, f, j + 1, FALSE)
    BY <1>3, <1>6, <1>8, <2>1, <2>2, <2>4 DEF Reading
  <2>6. CASE f.cmd = CMD_SYNC_WORD
    <3>1. Carried(k, b) = <<>>
      BY <1>2, <1>3, <1>6, <2>6, CarriedInside
    <3>2. Out(f, j + 1) = <<>>
      BY <1>6, <2>6 DEF Out
    <3> QED BY <2>5, <3>1, <3>2 DEF r
  <2>7. CASE f.cmd = CMD_FREQUENCY
    <3>1. Carried(k, b) = IF Len(r.cmdbuf) = Counted THEN <<[cmd |-> k.command, arg |-> r.cmdbuf]>>
                          ELSE <<>>
      BY <1>2, <1>3, <2>7, CarriedInside DEF r
    <3>2. Len(r.cmdbuf) = j + 1
      BY <1>4, <2>4
    <3>3. CASE j + 1 = Len(f.arg)
      <4>1. r.cmdbuf = f.arg /\ Len(r.cmdbuf) = Counted
        BY <1>1, <1>5, <2>4, <2>7, <3>2, <3>3
      <4>2. Carried(k, b) = <<f>>
        BY <1>1, <1>3, <3>1, <4>1
      <4>3. Out(f, j + 1) = <<f>>
        BY <2>7, <3>3 DEF Out
      <4> QED BY <2>5, <4>2, <4>3 DEF r
    <3>4. CASE j + 1 # Len(f.arg)
      <4>1. Len(r.cmdbuf) # Counted
        BY <1>1, <2>7, <3>2, <3>4
      <4> QED BY <2>5, <3>1, <3>4, <4>1 DEF r, Out
    <3> QED BY <3>3, <3>4
  <2> QED BY <1>8, <2>6, <2>7
<1>9. CASE f.cmd = CMD_SEL_INT
  <2>1. j + 1 = 1 /\ Len(f.arg) = 1 /\ j + 1 = Len(f.arg) /\ v \notin {FEND, FESC}
    <3>1. Len(f.arg) = 1 /\ f.arg[1] \notin {FEND, FESC}
      BY <1>1, <1>9
    <3>2. j = 0
      BY <3>1
    <3> QED BY <3>1, <3>2 DEF v
  <2>2. b = v /\ half = FALSE
    BY <2>1 DEF CodeOf, v
  <2>3. /\ r.IN_FRAME = TRUE /\ r.command = k.command
        /\ r.ESCAPE = k.ESCAPE /\ r.cmdbuf = k.cmdbuf /\ r.stored = k.stored
    BY <1>2, <1>3, <1>9, Selects DEF r
  <2>4. k.ESCAPE = FALSE /\ k.cmdbuf = <<>> /\ k.stored = <<>>
    BY <1>6, <1>9, <2>2 DEF Reading
  <2>5. Reading(r, f, j + 1, FALSE)
    BY <1>3, <1>6, <1>9, <2>3, <2>4 DEF Reading
  <2>6. f.arg = <<b>>
    BY <1>1, <2>1, <2>2 DEF v
  <2>7. Carried(k, b) = <<[cmd |-> k.command, arg |-> <<b>>]>>
    BY <1>2, <1>3, <1>9, CarriedInside
  <2>8. Carried(k, b) = <<f>>
    BY <1>1, <1>3, <2>6, <2>7
  <2>9. Out(f, j + 1) = <<f>>
    BY <1>9, <2>1 DEF Out
  <2> QED BY <2>5, <2>8, <2>9 DEF r
<1> QED BY <1>1, <1>7, <1>8, <1>9 DEF Commands, Escaping

(* Its last FEND: by then its command has been carried out. *)
LEMMA ReadsEnd ==
  ASSUME NEW f, Proper(f), NEW k, ParserOK(k), Reading(k, f, Len(f.arg), FALSE)
  PROVE  /\ Between(serial_callback(k, FEND))
         /\ Out(f, Len(f.arg)) \o Carried(k, FEND) = <<f>>
<1> DEFINE r == serial_callback(k, FEND)
           n == Len(f.arg)
<1>1. /\ f.cmd \in Commands /\ f.arg \in Seq(Bytes) /\ n \in Nat \ {0}
      /\ f = [cmd |-> f.cmd, arg |-> f.arg]
  BY ProperIs
<1>2. SubSeq(f.arg, 1, n) = f.arg /\ f.arg # <<>>
  BY <1>1
<1>3. /\ CMD_DATA # CMD_SYNC_WORD /\ CMD_DATA # CMD_FREQUENCY /\ CMD_SEL_INT # CMD_DATA
      /\ CMD_SEL_INT # CMD_SYNC_WORD /\ CMD_SEL_INT # CMD_FREQUENCY /\ CMD_SYNC_WORD # CMD_FREQUENCY
  BY DEF CMD_DATA, CMD_FREQUENCY, CMD_SYNC_WORD, CMD_SEL_INT
<1>4. k.IN_FRAME = TRUE /\ k.command = f.cmd /\ k.ESCAPE = FALSE
  BY DEF Reading
<1>5. <<f>> \in Seq({f}) /\ <<>> \o <<f>> = <<f>> /\ <<f>> \o <<>> = <<f>>
  BY ConcatEmptySeq
<1> HIDE DEF r, n
<1>6. CASE f.cmd \in {CMD_DATA, CMD_SYNC_WORD}
  <2>1. /\ f.cmd = CMD_DATA => k.stored = f.arg
        /\ f.cmd = CMD_SYNC_WORD => k.cmdbuf = f.arg
    BY <1>2, <1>3 DEF Reading, n
  <2>2. Closes(k)
    BY <1>2, <1>4, <1>6, <2>1 DEF Closes
  <2>3. r.stored = <<>> /\ r.ESCAPE = FALSE /\ ~Closes(r)
    BY <1>4, <2>2, ClosesFrame DEF r
  <2>4. Carried(k, FEND) = <<f>>
    <3>1. CASE f.cmd = CMD_DATA
      <4>1. Carried(k, FEND) = IF k.stored = <<>> THEN <<>>
                               ELSE <<[cmd |-> CMD_DATA, arg |-> k.stored]>>
        BY <1>4, <2>2, <3>1, ClosesFrame
      <4> QED BY <1>1, <1>2, <2>1, <3>1, <4>1
    <3>2. CASE f.cmd = CMD_SYNC_WORD
      <4>1. Carried(k, FEND) = <<[cmd |-> k.command, arg |-> k.cmdbuf]>>
        BY <1>4, <2>2, <3>2, ClosesFrame
      <4> QED BY <1>1, <1>4, <2>1, <3>2, <4>1
    <3> QED BY <1>6, <3>1, <3>2
  <2>5. Out(f, n) = <<>>
    BY <1>3, <1>6 DEF Out
  <2>6. Out(f, n) \o Carried(k, FEND) = <<f>>
    BY <1>5, <2>4, <2>5
  <2> QED BY <2>3, <2>6 DEF Between, r, n
<1>7. CASE f.cmd \in {CMD_FREQUENCY, CMD_SEL_INT}
  <2>1. ~Closes(k)
    BY <1>3, <1>4, <1>7 DEF Closes
  <2>2. r.stored = <<>> /\ r.ESCAPE = FALSE /\ ~Closes(r) /\ Carried(k, FEND) = <<>>
    BY <1>4, <2>1, Opens DEF r
  <2>3. Out(f, n) = <<f>>
    BY <1>7 DEF Out, n
  <2>4. Out(f, n) \o Carried(k, FEND) = <<f>>
    BY <1>5, <2>2, <2>3
  <2> QED BY <2>2, <2>4 DEF Between, r, n
<1> QED BY <1>1, <1>6, <1>7 DEF Commands, Escaping

(* Its first FEND and its command. *)
LEMMA ReadsStart ==
  ASSUME NEW k, ParserOK(k), Between(k)
  PROVE  Started(serial_callback(k, FEND)) /\ Carried(k, FEND) = <<>>
<1>1. ~Closes(k) /\ k.ESCAPE = FALSE /\ k.stored = <<>>
  BY DEF Between
<1>2. LET r == serial_callback(k, FEND)
      IN  /\ r.IN_FRAME = TRUE /\ r.command = CMD_UNKNOWN
          /\ r.cmdbuf = <<>> /\ r.stored = <<>> /\ r.ESCAPE = FALSE
  BY <1>1, Opens
<1>3. Carried(k, FEND) = <<>>
  BY <1>1, Opens
<1> QED BY <1>2, <1>3 DEF Started

(* Before the payload nothing is carried out. *)
LEMMA ReadsCommand ==
  ASSUME NEW f, Proper(f), NEW k, ParserOK(k), Started(k)
  PROVE  /\ Reading(serial_callback(k, f.cmd), f, 0, FALSE)
         /\ Carried(k, f.cmd) = <<>> /\ Out(f, 0) = <<>>
<1> DEFINE r == serial_callback(k, f.cmd)
<1>1. f.cmd \in Bytes /\ f.cmd # FEND /\ f.arg \in Seq(Bytes) /\ Len(f.arg) \in Nat \ {0}
  BY ProperIs
<1>2. /\ r.IN_FRAME = TRUE /\ r.command = f.cmd /\ r.ESCAPE = FALSE
      /\ r.cmdbuf = <<>> /\ r.stored = <<>> /\ Carried(k, f.cmd) = <<>>
  BY <1>1, TakesCommand
<1>3. SubSeq(f.arg, 1, 0) = <<>>
  BY <1>1
<1>4. Out(f, 0) = <<>>
  BY <1>1 DEF Out
<1> HIDE DEF r
<1>5. Reading(r, f, 0, FALSE)
  BY <1>2, <1>3 DEF Reading
<1> QED BY <1>2, <1>4, <1>5 DEF r

(* o bytes into frame f, `out` carried out on them ... *)
InFrame(k, f, o, out) ==
    \/ o = 1 /\ Started(k) /\ out = <<>>
    \/ \E j \in Nat, half \in BOOLEAN :
         PlaceIn(f, o, j, half) /\ Reading(k, f, j, half) /\ out = Out(f, j)

(* ... or ignored, its FEND having closed what another host began. *)
LostIn(k, f, o) ==
    Lost(k) /\ (o = 1 \/ \E j \in Nat, half \in BOOLEAN : PlaceIn(f, o, j, half))

(* What a command carried out may be. *)
Calls == [cmd : Bytes, arg : Seq(Bytes)]

(* The second byte of a frame. *)
LEMMA CommandPlace ==
  ASSUME NEW f, Proper(f)
  PROVE  /\ PlaceIn(f, 2, 0, FALSE) /\ Written(f)[2] = f.cmd /\ Written(f)[1] = FEND
         /\ Len(Written(f)) \in Nat /\ Len(Written(f)) >= 3 /\ Written(f) \in Seq(Bytes)
<1> DEFINE n == Len(f.arg)
           s == Codes(f)
<1>1. /\ n \in Nat \ {0} /\ s \in [1..n -> Seq(Bytes)] /\ End(s, n) \in Nat
      /\ Written(f)[2] = f.cmd /\ Written(f)[1] = FEND /\ Written(f) \in Seq(Bytes)
      /\ Len(Written(f)) = End(s, n) + 3
  BY WrittenIs
<1> HIDE DEF n, s
<1>2. n \in Nat /\ s \in [1..n -> Seq(Bytes)]
  BY <1>1
<1>3. End(s, 0) = 0
  BY <1>2, EndIs
<1>4. PlaceIn(f, 2, 0, FALSE)
  <2>1. 0 \in 0..n /\ 2 = 2 + End(s, 0) + 0
    BY <1>2, <1>3
  <2> QED BY <2>1 DEF PlaceIn, n, s
<1>5. PICK l \in Nat : l = End(s, n)
  BY <1>1
<1>6. l + 3 \in Nat /\ l + 3 >= 3
  OBVIOUS
<1>7. Len(Written(f)) \in Nat /\ Len(Written(f)) >= 3
  BY <1>1, <1>5, <1>6
<1> QED BY <1>1, <1>4, <1>7

(* One more byte of a frame that is read. *)
LEMMA FrameStep ==
  ASSUME NEW f, Proper(f), NEW k, ParserOK(k), NEW o, NEW out, InFrame(k, f, o, out),
         NEW b, b = Written(f)[o + 1]
  PROVE  /\ o \in Nat \ {0} /\ o < Len(Written(f)) /\ (out = <<>> \/ out = <<f>>)
         /\ o + 1 < Len(Written(f)) =>
              InFrame(serial_callback(k, b), f, o + 1, out \o Carried(k, b))
         /\ o + 1 = Len(Written(f)) =>
              Between(serial_callback(k, b)) /\ out \o Carried(k, b) = <<f>>
<1> DEFINE r == serial_callback(k, b)
           w == Written(f)
<1>0. /\ w \in Seq(Bytes) /\ Len(w) \in Nat /\ Len(w) >= 3 /\ w[2] = f.cmd
      /\ PlaceIn(f, 2, 0, FALSE)
  BY CommandPlace
<1>1. <<>> \o <<>> = <<>>
  BY ConcatEmptySeq, EmptySeq
<1> HIDE DEF w
<1>2. CASE o = 1 /\ Started(k) /\ out = <<>>
  <2>1. b = f.cmd /\ o + 1 = 2 /\ o \in Nat \ {0} /\ o < Len(w) /\ o + 1 # Len(w)
    <3>1. b = f.cmd /\ o + 1 = 2 /\ o \in Nat \ {0}
      BY <1>0, <1>2 DEF w
    <3>2. PICK l \in Nat : l = Len(w) /\ l >= 3
      BY <1>0
    <3>3. 1 < l /\ 2 # l
      BY <3>2
    <3> QED BY <1>2, <3>1, <3>2, <3>3
  <2>2. Reading(r, f, 0, FALSE) /\ Carried(k, b) = <<>> /\ Out(f, 0) = <<>>
    BY <1>2, <2>1, ReadsCommand
  <2>3. out \o Carried(k, b) = <<>>
    BY <1>1, <1>2, <2>2
  <2> HIDE DEF r
  <2>4. InFrame(r, f, 2, <<>>)
    BY <1>0, <2>2 DEF InFrame
  <2> QED BY <1>2, <2>1, <2>3, <2>4 DEF r, w
<1>3. CASE \E j \in Nat, half \in BOOLEAN :
             PlaceIn(f, o, j, half) /\ Reading(k, f, j, half) /\ out = Out(f, j)
  <2>1. PICK j \in Nat, half \in BOOLEAN :
             PlaceIn(f, o, j, half) /\ Reading(k, f, j, half) /\ out = Out(f, j)
    BY <1>3
  <2>2. /\ o \in Nat /\ o >= 2 /\ o < Len(w)
        /\ j = Len(f.arg) => EndAhead(f, o, half)
        /\ j < Len(f.arg) => CodeAhead(f, o, j, half)
        /\ j = Len(f.arg) \/ j < Len(f.arg)
    BY <2>1, NextPlace DEF w
  <2>3. o \in Nat \ {0} /\ (out = <<>> \/ out = <<f>>)
    BY <2>1, <2>2 DEF Out
  <2>4. CASE j = Len(f.arg)
    <3>1. half = FALSE /\ o + 1 = Len(w) /\ b = FEND /\ ~(o + 1 < Len(w))
      BY <1>0, <2>2, <2>4 DEF EndAhead, w
    <3>2. Between(r) /\ out \o Carried(k, b) = <<f>>
      BY <2>1, <2>4, <3>1, ReadsEnd
    <3> HIDE DEF r
    <3> QED BY <2>2, <2>3, <3>1, <3>2 DEF r, w
  <2>5. CASE j < Len(f.arg)
    <3>1. /\ o + 1 < Len(w) /\ j + 1 \in 1..Len(f.arg) /\ CodeAhead(f, o, j, half)
          /\ o + 1 # Len(w)
      <4>1. CodeAhead(f, o, j, half)
        BY <2>2, <2>5
      <4>2. o + 1 < Len(w) /\ j + 1 \in 1..Len(f.arg)
        BY <4>1 DEF CodeAhead, w
      <4>3. \A l \in Nat : o + 1 < l => o + 1 # l
        BY <2>2
      <4> QED BY <1>0, <4>1, <4>2, <4>3
    <3>2. out = <<>> /\ j + 1 \in Nat
      <4>1. j # Len(f.arg)
        BY <3>1
      <4> QED BY <2>1, <4>1 DEF Out
    <3>3. b \in Bytes
      <4>1. o + 1 \in 1..Len(w)
        BY <1>0, <2>2, <3>1
      <4> QED BY <1>0, <4>1 DEF w
    <3>4. CASE half = FALSE /\ f.arg[j + 1] \in {FEND, FESC}
      <4>1. b = FESC /\ PlaceIn(f, o + 1, j, TRUE)
        BY <3>1, <3>4 DEF CodeAhead
      <4>2. Reading(r, f, j, TRUE) /\ Carried(k, b) = <<>>
        BY <2>1, <3>1, <3>4, <4>1, ReadsEscape
      <4>3. out \o Carried(k, b) = Out(f, j)
        BY <1>1, <2>1, <3>2, <4>2
      <4> HIDE DEF r
      <4>4. InFrame(r, f, o + 1, out \o Carried(k, b))
        BY <4>1, <4>2, <4>3 DEF InFrame
      <4> QED BY <2>2, <2>3, <3>1, <4>4 DEF r, w
    <3>5. CASE half = TRUE \/ f.arg[j + 1] \notin {FEND, FESC}
      <4>1. CodeOf(b, f.arg[j + 1], half) /\ PlaceIn(f, o + 1, j + 1, FALSE)
        BY <2>1, <3>1, <3>5 DEF CodeAhead, CodeOf, FEND, FESC
      <4>2. Reading(r, f, j + 1, FALSE) /\ Carried(k, b) = Out(f, j + 1)
        BY <2>1, <3>1, <3>3, <4>1, ReadsByte
      <4>3. out \o Carried(k, b) = Out(f, j + 1)
        <5>1. Out(f, j + 1) \in Seq({f})
          <6>1. <<>> \in Seq({f}) /\ <<f>> \in Seq({f})
            OBVIOUS
          <6> QED BY <6>1 DEF Out
        <5> QED BY <3>2, <4>2, <5>1, ConcatEmptySeq
      <4> HIDE DEF r
      <4>4. InFrame(r, f, o + 1, out \o Carried(k, b))
        BY <3>2, <4>1, <4>2, <4>3 DEF InFrame
      <4> QED BY <2>2, <2>3, <3>1, <4>4 DEF r, w
    <3> QED BY <3>4, <3>5
  <2> QED BY <2>2, <2>4, <2>5
<1> QED BY <1>2, <1>3 DEF InFrame

(* One more byte of a frame that is ignored. *)
LEMMA LostStep ==
  ASSUME NEW f, Proper(f), NEW k, ParserOK(k), NEW o, LostIn(k, f, o),
         NEW b, b = Written(f)[o + 1]
  PROVE  /\ o \in Nat \ {0} /\ o < Len(Written(f)) /\ Carried(k, b) = <<>>
         /\ o + 1 < Len(Written(f)) => LostIn(serial_callback(k, b), f, o + 1)
         /\ o + 1 = Len(Written(f)) => Between(serial_callback(k, b))
<1> DEFINE r == serial_callback(k, b)
           w == Written(f)
<1>0. /\ w \in Seq(Bytes) /\ Len(w) \in Nat /\ Len(w) >= 3 /\ w[2] = f.cmd
      /\ PlaceIn(f, 2, 0, FALSE) /\ f.cmd # FEND
  BY CommandPlace, ProperIs
<1>1. k.IN_FRAME = FALSE /\ k.ESCAPE = FALSE /\ k.stored = <<>> /\ Lost(k)
  BY DEF LostIn, Lost
<1>2. b # FEND => r = k /\ Carried(k, b) = <<>>
  BY <1>1, Ignores
<1>3. b = FEND => Between(r) /\ Carried(k, b) = <<>>
  <2>1. ~Closes(k)
    BY <1>1 DEF Closes
  <2> SUFFICES ASSUME b = FEND PROVE Between(r) /\ Carried(k, b) = <<>>
    OBVIOUS
  <2>2. LET c == serial_callback(k, FEND)
        IN  c.stored = <<>> /\ c.ESCAPE = FALSE /\ ~Closes(c) /\ Carried(k, FEND) = <<>>
    BY <1>1, <2>1, Opens
  <2> QED BY <2>2 DEF Between
<1> HIDE DEF w, r
<1>4. CASE o = 1
  <2>1. b = f.cmd /\ o + 1 = 2 /\ o \in Nat \ {0} /\ o < Len(w) /\ o + 1 # Len(w)
    <3>1. b = f.cmd /\ o + 1 = 2 /\ o \in Nat \ {0}
      BY <1>0, <1>4 DEF w
    <3>2. PICK l \in Nat : l = Len(w) /\ l >= 3
      BY <1>0
    <3>3. 1 < l /\ 2 # l
      BY <3>2
    <3> QED BY <1>4, <3>1, <3>2, <3>3
  <2>2. LostIn(r, f, 2) /\ Carried(k, b) = <<>>
    BY <1>0, <1>1, <1>2, <2>1 DEF LostIn
  <2> QED BY <2>1, <2>2 DEF r, w
<1>5. CASE \E j \in Nat, half \in BOOLEAN : PlaceIn(f, o, j, half)
  <2>1. PICK j \in Nat, half \in BOOLEAN : PlaceIn(f, o, j, half)
    BY <1>5
  <2>2. /\ o \in Nat /\ o >= 2 /\ o < Len(w)
        /\ j = Len(f.arg) => EndAhead(f, o, half)
        /\ j < Len(f.arg) => CodeAhead(f, o, j, half)
        /\ j = Len(f.arg) \/ j < Len(f.arg)
    BY <2>1, NextPlace DEF w
  <2>3. o \in Nat \ {0}
    BY <2>2
  <2>4. CASE j = Len(f.arg)
    <3>1. half = FALSE /\ o + 1 = Len(w) /\ b = FEND /\ ~(o + 1 < Len(w))
      BY <1>0, <2>2, <2>4 DEF EndAhead, w
    <3> QED BY <1>3, <2>2, <2>3, <3>1 DEF r, w
  <2>5. CASE j < Len(f.arg)
    <3>1. o + 1 < Len(w) /\ CodeAhead(f, o, j, half) /\ o + 1 # Len(w) /\ j + 1 \in Nat
      <4>1. CodeAhead(f, o, j, half)
        BY <2>2, <2>5
      <4>2. o + 1 < Len(w)
        BY <4>1 DEF CodeAhead, w
      <4>3. \A l \in Nat : o + 1 < l => o + 1 # l
        BY <2>2
      <4> QED BY <1>0, <4>1, <4>2, <4>3
    <3>2. b # FEND /\ \E i \in Nat, h \in BOOLEAN : PlaceIn(f, o + 1, i, h)
      <4>1. TFEND # FEND /\ TFESC # FEND /\ FESC # FEND
        BY DEF TFEND, TFESC, FEND, FESC
      <4>2. CASE half = TRUE
        <5>1. b \in {TFEND, TFESC} /\ PlaceIn(f, o + 1, j + 1, FALSE)
          BY <3>1, <4>2 DEF CodeAhead
        <5> QED BY <3>1, <4>1, <5>1
      <4>3. CASE half = FALSE /\ f.arg[j + 1] \in {FEND, FESC}
        <5>1. b = FESC /\ PlaceIn(f, o + 1, j, TRUE)
          BY <3>1, <4>3 DEF CodeAhead
        <5> QED BY <4>1, <5>1
      <4>4. CASE half = FALSE /\ f.arg[j + 1] \notin {FEND, FESC}
        <5>1. b = f.arg[j + 1] /\ PlaceIn(f, o + 1, j + 1, FALSE)
          BY <3>1, <4>4 DEF CodeAhead
        <5> QED BY <3>1, <4>4, <5>1
      <4> QED BY <4>2, <4>3, <4>4
    <3>3. LostIn(r, f, o + 1) /\ Carried(k, b) = <<>>
      BY <1>1, <1>2, <3>2 DEF LostIn
    <3> QED BY <2>2, <2>3, <3>1, <3>3 DEF r, w
  <2> QED BY <2>2, <2>4, <2>5
<1> QED BY <1>4, <1>5 DEF LostIn

(* At most one command. *)
Short(c) == c = <<>> \/ \E x \in Calls : c = <<x>>

(* The FEND a host begins with, when no escape is pending: it opens the     *)
(* host's first frame or closes what another one began.                      *)
LEMMA FirstByte ==
  ASSUME NEW f, NEW k, ParserOK(k), k.ESCAPE = FALSE
  PROVE  \/ InFrame(serial_callback(k, FEND), f, 1, <<>>) /\ Carried(k, FEND) = <<>>
         \/ /\ k.IN_FRAME /\ k.command \in {CMD_DATA, CMD_SYNC_WORD}
            /\ LostIn(serial_callback(k, FEND), f, 1) /\ Short(Carried(k, FEND))
<1> DEFINE r == serial_callback(k, FEND)
<1>1. CASE ~Closes(k)
  <2>1. Between(k)
    <3>1. k.stored = <<>>
      BY <1>1, Opens
    <3> QED BY <1>1, <3>1 DEF Between
  <2>2. Started(r) /\ Carried(k, FEND) = <<>>
    BY <2>1, ReadsStart
  <2> HIDE DEF r
  <2> QED BY <2>2 DEF InFrame, r
<1>2. CASE Closes(k)
  <2>1. /\ r.IN_FRAME = FALSE /\ r.stored = <<>> /\ r.ESCAPE = k.ESCAPE
        /\ k.command \in {CMD_DATA, CMD_SYNC_WORD} /\ k.IN_FRAME = TRUE
    BY <1>2, ClosesFrame
  <2>2. LostIn(r, f, 1)
    <3> HIDE DEF r
    <3> QED BY <2>1 DEF LostIn, Lost
  <2>3. k.command \in Bytes /\ k.cmdbuf \in Seq(Bytes) /\ k.stored \in Seq(Bytes) /\ CMD_DATA \in Bytes
    BY DEF ParserOK, ParserState, Bytes, CMD_DATA
  <2>4. Short(Carried(k, FEND))
    <3>1. CASE k.command = CMD_DATA
      <4>1. Carried(k, FEND) = IF k.stored = <<>> THEN <<>>
                               ELSE <<[cmd |-> CMD_DATA, arg |-> k.stored]>>
        BY <1>2, <3>1, ClosesFrame
      <4>2. [cmd |-> CMD_DATA, arg |-> k.stored] \in Calls
        BY <2>3 DEF Calls
      <4> QED BY <4>1, <4>2 DEF Short
    <3>2. CASE k.command = CMD_SYNC_WORD
      <4>1. Carried(k, FEND) = <<[cmd |-> k.command, arg |-> k.cmdbuf]>>
        BY <1>2, <3>2, ClosesFrame
      <4>2. [cmd |-> k.command, arg |-> k.cmdbuf] \in Calls
        BY <2>3 DEF Calls
      <4> QED BY <4>1, <4>2 DEF Short
    <3> QED BY <2>1, <3>1, <3>2
  <2> QED BY <2>1, <2>2, <2>4
<1> QED BY <1>1, <1>2

-----------------------------------------------------------------------------
(* The parser on a stream *)

Ws(st) == [i \in 1..Len(st) |-> Written(st[i])]
WireOf(st) == FlattenSeq(Ws(st))
StreamOK(st) == st \in Seq(Calls) /\ \A i \in 1..Len(st) : Proper(st[i])

(* What a host writes is such a stream. *)
LEMMA StreamIs ==
  ASSUME NEW st \in Streams
  PROVE  StreamOK(st)
<1>1. st \in Seq([cmd : Commands, arg : Seq(STRING)]) /\ \A i \in 1..Len(st) : Proper(st[i])
  BY StreamsAssumption
<1>2. Commands \subseteq Bytes /\ STRING \subseteq Bytes
  BY DEF Bytes
<1>3. Seq(STRING) \subseteq Seq(Bytes)
  BY <1>2, SeqMonotonic
<1>4. [cmd : Commands, arg : Seq(STRING)] \subseteq Calls
  BY <1>2, <1>3 DEF Calls
<1>5. st \in Seq(Calls)
  BY <1>1, <1>4, SeqMonotonic
<1> QED BY <1>1, <1>5 DEF StreamOK

(* Its frames, one after another. *)
LEMMA WireIs ==
  ASSUME NEW st, StreamOK(st)
  PROVE  /\ Len(st) \in Nat /\ Ws(st) \in [1..Len(st) -> Seq(Bytes)]
         /\ WireOf(st) \in Seq(Bytes) /\ Len(WireOf(st)) = End(Ws(st), Len(st))
         /\ \A i \in 1..Len(st) : \A c \in 1..Len(Written(st[i])) :
               WireOf(st)[End(Ws(st), i - 1) + c] = Written(st[i])[c]
         /\ \A i \in 1..Len(st) : End(Ws(st), i) = End(Ws(st), i - 1) + Len(Written(st[i]))
         /\ \A i \in 0..Len(st) : End(Ws(st), i) \in Nat
         /\ End(Ws(st), 0) = 0
<1> DEFINE n == Len(st)
           s == Ws(st)
<1>1. n \in Nat
  BY DEF StreamOK
<1>2. s \in [1..n -> Seq(Bytes)] /\ \A i \in 1..n : s[i] = Written(st[i])
  BY CommandPlace DEF StreamOK, Ws
<1> HIDE DEF n, s
<1>3. /\ \A k \in 0..n : FlattenSeq(First(s, k)) \in Seq(Bytes) /\ End(s, k) \in Nat
      /\ End(s, 0) = 0
      /\ \A k \in 1..n : End(s, k) = End(s, k - 1) + Len(s[k])
      /\ \A k \in 1..n : \A j \in 1..Len(s[k]) :
            /\ End(s, k - 1) + j \in 1..End(s, n)
            /\ FlattenSeq(First(s, n))[End(s, k - 1) + j] = s[k][j]
      /\ First(s, n) = s
  BY <1>1, <1>2, FlattenFacts
<1>4. n \in 0..n
  BY <1>1
<1>5. FlattenSeq(s) \in Seq(Bytes) /\ Len(FlattenSeq(s)) = End(s, n)
  BY <1>3, <1>4 DEF End
<1>6. ASSUME NEW i \in 1..n, NEW c \in 1..Len(Written(st[i]))
      PROVE  FlattenSeq(s)[End(s, i - 1) + c] = Written(st[i])[c]
  BY <1>2, <1>3
<1>7. \A i \in 1..n : End(s, i) = End(s, i - 1) + Len(Written(st[i]))
  BY <1>2, <1>3
<1> QED BY <1>1, <1>2, <1>3, <1>5, <1>6, <1>7 DEF n, s, WireOf

(* They end one after another. *)
LEMMA EndsGrow ==
  ASSUME NEW st, StreamOK(st), NEW k \in 0..Len(st), NEW i \in 0..k
  PROVE  End(Ws(st), i) <= End(Ws(st), k)
<1> DEFINE n == Len(st)
           s == Ws(st)
           T == {m \in 0..n : \A j \in 0..m : End(s, j) <= End(s, m)}
<1>1. /\ n \in Nat /\ \A m \in 0..n : End(s, m) \in Nat
      /\ \A m \in 1..n : End(s, m) = End(s, m - 1) + Len(Written(st[m]))
  BY WireIs
<1> HIDE DEF n, s
<1>2. 0 \in T
  <2>1. 0 \in 0..n /\ \A j \in 0..0 : j = 0
    BY <1>1
  <2>2. End(s, 0) <= End(s, 0)
    BY <1>1, <2>1
  <2> QED BY <2>1, <2>2
<1>3. ASSUME NEW m \in 0..n - 1, m \in T PROVE m + 1 \in T
  <2>1. m + 1 \in 1..n /\ m + 1 \in 0..n /\ (m + 1) - 1 = m /\ m \in 0..n
    BY <1>1
  <2>2. Len(Written(st[m + 1])) \in Nat
    BY <2>1, CommandPlace DEF StreamOK, n
  <2>3. End(s, m + 1) = End(s, m) + Len(Written(st[m + 1]))
    BY <1>1, <2>1
  <2>4. PICK a \in Nat, b \in Nat, c \in Nat :
          a = End(s, m) /\ b = End(s, m + 1) /\ c = Len(Written(st[m + 1]))
    BY <1>1, <2>1, <2>2
  <2>5. a <= b /\ b <= b
    BY <2>3, <2>4
  <2>6. ASSUME NEW j \in 0..m + 1 PROVE End(s, j) <= End(s, m + 1)
    <3>1. CASE j = m + 1
      BY <2>4, <2>5, <3>1
    <3>2. CASE j # m + 1
      <4>1. j \in 0..m /\ j \in 0..n
        BY <1>1, <2>1, <3>2
      <4>2. End(s, j) <= a /\ End(s, j) \in Nat
        BY <1>1, <1>3, <2>4, <4>1
      <4> QED BY <2>4, <2>5, <4>2
    <3> QED BY <3>1, <3>2
  <2> QED BY <2>1, <2>6
<1> HIDE DEF T
<1>4. \A m \in 0..n : m \in T
  BY <1>1, <1>2, <1>3, Induction
<1>5. k \in T
  BY <1>4 DEF n
<1> QED BY <1>5 DEF T, s

(* A place on the wire is in one frame only. *)
LEMMA OneFrame ==
  ASSUME NEW st, StreamOK(st), NEW i \in 0..Len(st), NEW o \in Nat,
         o # 0 => i < Len(st) /\ o < Len(Written(st[i + 1])),
         NEW k \in 0..Len(st), End(Ws(st), i) + o = End(Ws(st), k)
  PROVE  i = k /\ o = 0
<1> DEFINE n == Len(st)
           s == Ws(st)
<1>1. /\ n \in Nat /\ \A m \in 0..n : End(s, m) \in Nat
      /\ \A m \in 1..n : End(s, m) = End(s, m - 1) + Len(Written(st[m]))
  BY WireIs
<1>2. \A m \in 1..n : Len(Written(st[m])) \in Nat /\ Len(Written(st[m])) >= 3
  BY CommandPlace DEF StreamOK
<1>3. \A m \in 0..n : \A j \in 0..m : End(s, j) <= End(s, m)
  BY EndsGrow
<1>4. i \in 0..n /\ k \in 0..n /\ End(s, i) + o = End(s, k)
  OBVIOUS
<1>5. o # 0 => i < n /\ o < Len(Written(st[i + 1]))
  OBVIOUS
<1> HIDE DEF n, s
<1>6. ASSUME NEW m \in 0..n, m < n
      PROVE  \E l \in Nat : l >= 3 /\ l = Len(Written(st[m + 1])) /\ End(s, m + 1) = End(s, m) + l
  <2>1. m + 1 \in 1..n /\ (m + 1) - 1 = m
    BY <1>1, <1>6
  <2> QED BY <1>1, <1>2, <2>1
<1>7. PICK e \in Nat, g \in Nat : e = End(s, i) /\ g = End(s, k)
  BY <1>1, <1>4
<1>8. CASE i < k
  <2>1. i < n /\ i + 1 \in 0..k /\ i + 1 \in 0..n
    BY <1>1, <1>4, <1>8
  <2>2. PICK l \in Nat : l >= 3 /\ l = Len(Written(st[i + 1])) /\ End(s, i + 1) = e + l
    BY <1>4, <1>6, <1>7, <2>1
  <2>3. e + l <= g
    BY <1>3, <1>4, <1>7, <2>1, <2>2
  <2>4. o < l
    BY <1>5, <2>2
  <2>5. e + o = g
    BY <1>4, <1>7
  <2> QED BY <2>2, <2>3, <2>4, <2>5
<1>9. CASE k < i
  <2>1. k < n /\ k + 1 \in 0..i /\ k + 1 \in 0..n
    BY <1>1, <1>4, <1>9
  <2>2. PICK l \in Nat : l >= 3 /\ End(s, k + 1) = g + l
    BY <1>4, <1>6, <1>7, <2>1
  <2>3. g + l <= e
    BY <1>3, <1>4, <1>7, <2>1, <2>2
  <2>4. e + o = g
    BY <1>4, <1>7
  <2> QED BY <2>2, <2>3, <2>4
<1>10. CASE i = k
  <2>1. e + o = e
    BY <1>4, <1>7, <1>10
  <2> QED BY <1>10, <2>1
<1>11. i < k \/ k < i \/ i = k
  BY <1>1, <1>4
<1> QED BY <1>8, <1>9, <1>10, <1>11

(* What is carried out after i frames: all of them or, after a frame broken *)
(* off, all but the first and perhaps the rest of the broken one.            *)
Completed(done, left, st, i) ==
    \/ done = SubSeq(st, 1, i)
    \/ left /\ i >= 1 /\ \E lead : Short(lead) /\ done = lead \o SubSeq(st, 2, i)

(* At most one command is a sequence of commands. *)
LEMMA ShortIs ==
  ASSUME NEW c, Short(c)
  PROVE  c \in Seq(Calls)
<1>1. CASE c = <<>>
  BY <1>1
<1>2. CASE \E x \in Calls : c = <<x>>
  <2>1. PICK x \in Calls : c = <<x>>
    BY <1>2
  <2>2. <<x>> \in Seq(Calls)
    OBVIOUS
  <2> QED BY <2>1, <2>2
<1> QED BY <1>1, <1>2 DEF Short

(* Sequences of commands put together. *)
LEMMA Regroup ==
  ASSUME NEW a \in Seq(Calls), NEW b \in Seq(Calls), NEW c \in Seq(Calls)
  PROVE  (a \o b) \o c = a \o (b \o c) /\ a \o b \in Seq(Calls)
  BY ConcatAssociative

(* One frame more. *)
LEMMA CompletedMore ==
  ASSUME NEW st \in Seq(Calls), NEW i \in Nat, i + 1 \in 1..Len(st),
         NEW left, NEW done, Completed(done, left, st, i)
  PROVE  done \in Seq(Calls) /\ Completed(done \o <<st[i + 1]>>, left, st, i + 1)
<1>1. st[i + 1] \in Calls /\ <<st[i + 1]>> \in Seq(Calls)
  OBVIOUS
<1>2. CASE done = SubSeq(st, 1, i)
  <2>1. SubSeq(st, 1, i) \in Seq(Calls) /\ SubSeq(st, 1, i + 1) = SubSeq(st, 1, i) \o <<st[i + 1]>>
    OBVIOUS
  <2> QED BY <1>2, <2>1 DEF Completed
<1>3. CASE left /\ i >= 1 /\ \E lead : Short(lead) /\ done = lead \o SubSeq(st, 2, i)
  <2>1. PICK lead : Short(lead) /\ done = lead \o SubSeq(st, 2, i)
    BY <1>3
  <2>2. lead \in Seq(Calls)
    BY <2>1, ShortIs
  <2>3. SubSeq(st, 2, i) \in Seq(Calls) /\ SubSeq(st, 2, i + 1) = SubSeq(st, 2, i) \o <<st[i + 1]>>
    BY <1>3
  <2>4. (lead \o SubSeq(st, 2, i)) \o <<st[i + 1]>> = lead \o (SubSeq(st, 2, i) \o <<st[i + 1]>>)
    <3>1. PICK m \in Seq(Calls) : m = SubSeq(st, 2, i)
      BY <2>3
    <3>2. PICK z \in Seq(Calls) : z = <<st[i + 1]>>
      BY <1>1
    <3>3. (lead \o m) \o z = lead \o (m \o z)
      BY ONLY <2>2, m \in Seq(Calls), z \in Seq(Calls), Regroup, Zenon
    <3> QED BY ONLY <3>1, <3>2, <3>3
  <2>5. done \o <<st[i + 1]>> = lead \o SubSeq(st, 2, i + 1)
    BY <2>1, <2>3, <2>4
  <2>6. done \in Seq(Calls)
    BY <2>1, <2>2, <2>3
  <2>7. i + 1 >= 1
    OBVIOUS
  <2> QED BY <1>3, <2>1, <2>5, <2>6, <2>7, Zenon DEF Completed
<1> QED BY <1>2, <1>3 DEF Completed

(* A command carried out has bytes for its payload. *)
LEMMA CarriedIs ==
  ASSUME NEW k, ParserOK(k), NEW b \in Bytes
  PROVE  Short(Carried(k, b))
<1>1. k.command \in Bytes /\ k.cmdbuf \in Seq(Bytes) /\ k.stored \in Seq(Bytes)
      /\ CMD_DATA \in Bytes /\ <<b>> \in Seq(Bytes) /\ k.IN_FRAME \in BOOLEAN
  BY DEF ParserOK, ParserState, Bytes, CMD_DATA
<1>2. serial_callback(k, b).cmdbuf \in Seq(Bytes)
  BY ParserStep DEF ParserOK, ParserState
<1>3. Short(<<>>) /\ \A c \in Bytes, a \in Seq(Bytes) : Short(<<[cmd |-> c, arg |-> a]>>)
  BY DEF Short, Calls
<1> HIDE DEF Short
<1>4. CASE b = FEND
  BY <1>1, <1>3, <1>4, Zenon DEF Carried
<1>5. CASE b # FEND /\ k.IN_FRAME = FALSE
  BY <1>3, <1>5, Ignores
<1>6. CASE b # FEND /\ k.IN_FRAME = TRUE
  BY <1>1, <1>2, <1>3, <1>6, CarriedInside
<1> QED BY <1>1, <1>4, <1>5, <1>6

(* The parser after n bytes of stream st on which `carried` was carried out: *)
(* between two frames, in a first frame that is ignored, or in a frame.      *)
InStream(k, st, i, o, carried, left) ==
    \/ i >= 1 /\ o = 0 /\ Between(k) /\ Completed(carried, left, st, i)
    \/ i = 0 /\ 0 < Len(st) /\ left /\ Short(carried) /\ LostIn(k, st[1], o)
    \/ /\ i < Len(st)
       /\ \E done, out : /\ carried = done \o out /\ Completed(done, left, st, i)
                         /\ InFrame(k, st[i + 1], o, out)

Tracks(n, carried, left, k, st) ==
    \E i \in 0..Len(st), o \in Nat :
        n = End(Ws(st), i) + o /\ InStream(k, st, i, o, carried, left)

(* The next byte on the wire when o bytes of frame i + 1 have been read. *)
LEMMA ByteAhead ==
  ASSUME NEW st, StreamOK(st), NEW i \in 0..Len(st), i < Len(st), NEW o \in Nat,
         o < Len(Written(st[i + 1])), NEW n, n = End(Ws(st), i) + o
  PROVE  /\ WireOf(st)[n + 1] = Written(st[i + 1])[o + 1]
         /\ n + 1 = End(Ws(st), i) + (o + 1)
         /\ o + 1 = Len(Written(st[i + 1])) => n + 1 = End(Ws(st), i + 1) + 0
         /\ o + 1 < Len(Written(st[i + 1])) \/ o + 1 = Len(Written(st[i + 1]))
         /\ i + 1 \in 1..Len(st) /\ i + 1 \in 0..Len(st) /\ i \in Nat
<1>1. Len(st) \in Nat
  BY WireIs
<1>2. PICK p \in 1..Len(st) : p = i + 1 /\ p - 1 = i
  BY <1>1
<1>3. PICK l \in Nat : l = Len(Written(st[p]))
  BY <1>2, CommandPlace DEF StreamOK
<1>4. PICK e \in Nat, g \in Nat : e = End(Ws(st), i) /\ g = End(Ws(st), p)
  <2>1. p \in 0..Len(st)
    BY <1>1
  <2>2. End(Ws(st), i) \in Nat /\ End(Ws(st), p) \in Nat
    BY <2>1, WireIs, Zenon
  <2> QED BY ONLY <2>2, Zenon
<1>5. o + 1 \in 1..l /\ (o + 1 < l \/ o + 1 = l) /\ n + 1 = e + (o + 1)
  BY <1>2, <1>3, <1>4
<1>6. WireOf(st)[End(Ws(st), p - 1) + (o + 1)] = Written(st[p])[o + 1]
  <2>1. o + 1 \in 1..Len(Written(st[p]))
    BY <1>3, <1>5
  <2>2. \A j \in 1..Len(st) : \A c \in 1..Len(Written(st[j])) :
           WireOf(st)[End(Ws(st), j - 1) + c] = Written(st[j])[c]
    BY WireIs
  <2> QED BY <2>1, <2>2
<1>7. WireOf(st)[n + 1] = Written(st[p])[o + 1]
  BY <1>2, <1>4, <1>5, <1>6
<1>8. g = e + l
  <2>1. End(Ws(st), p) = End(Ws(st), p - 1) + Len(Written(st[p]))
    BY WireIs
  <2> QED BY <1>2, <1>3, <1>4, <2>1
<1>9. o + 1 = l => n + 1 = g + 0
  BY <1>5, <1>8
<1>10. i + 1 \in 1..Len(st) /\ i + 1 \in 0..Len(st) /\ i \in Nat
  BY <1>1, <1>2
<1> QED BY <1>2, <1>3, <1>4, <1>5, <1>7, <1>9, <1>10

(* One more byte of a stream. *)
LEMMA TracksStep ==
  ASSUME NEW st, StreamOK(st), NEW k, ParserOK(k), NEW n, NEW carried, NEW left,
         Tracks(n, carried, left, k, st), n + 1 \in 1..Len(WireOf(st)),
         NEW b, b = WireOf(st)[n + 1]
  PROVE  Tracks(n + 1, carried \o Carried(k, b), left, serial_callback(k, b), st)
<1> DEFINE r == serial_callback(k, b)
           more == carried \o Carried(k, b)
<1>0. Len(st) \in Nat /\ st \in Seq(Calls) /\ \A j \in 1..Len(st) : Proper(st[j])
  BY WireIs DEF StreamOK
<1>1. PICK i \in 0..Len(st), o \in Nat :
          n = End(Ws(st), i) + o /\ InStream(k, st, i, o, carried, left)
  BY DEF Tracks
<1> HIDE DEF r, more
<1>2. ASSUME NEW j \in 0..Len(st), NEW q \in Nat, n + 1 = End(Ws(st), j) + q,
             InStream(r, st, j, q, more, left)
      PROVE  Tracks(n + 1, more, left, r, st)
  BY <1>2 DEF Tracks
<1>3. CASE i >= 1 /\ o = 0 /\ Between(k) /\ Completed(carried, left, st, i)
  <2>1. i < Len(st)
    <3> SUFFICES ASSUME i = Len(st) PROVE FALSE
      BY <1>0
    <3>1. Len(WireOf(st)) = End(Ws(st), i) /\ End(Ws(st), i) \in Nat
      BY WireIs
    <3>2. PICK e \in Nat : e = End(Ws(st), i)
      BY <3>1
    <3>3. n = e /\ n + 1 \in 1..e
      BY <1>1, <1>3, <3>1, <3>2
    <3> QED BY <3>2, <3>3
  <2>2. Proper(st[i + 1]) /\ i + 1 \in 1..Len(st)
    BY <1>0, <2>1
  <2>3. Written(st[i + 1])[1] = FEND /\ 0 < Len(Written(st[i + 1]))
    <3>1. PICK l \in Nat : l = Len(Written(st[i + 1])) /\ l >= 3
      BY <2>2, CommandPlace
    <3>2. Written(st[i + 1])[1] = FEND
      BY <2>2, CommandPlace
    <3> QED BY <3>1, <3>2
  <2>4. b = FEND /\ n + 1 = End(Ws(st), i) + 1 /\ i \in Nat
    <3>1. WireOf(st)[n + 1] = Written(st[i + 1])[0 + 1] /\ n + 1 = End(Ws(st), i) + (0 + 1)
          /\ i \in Nat
      BY <1>1, <1>3, <2>1, <2>3, ByteAhead
    <3> QED BY <2>3, <3>1
  <2>5. Started(r) /\ Carried(k, b) = <<>>
    BY <1>3, <2>4, ReadsStart DEF r
  <2>6. InFrame(r, st[i + 1], 1, <<>>)
    BY <2>5 DEF InFrame
  <2>7. more = carried \o <<>>
    BY <2>5 DEF more
  <2>8. InStream(r, st, i, 1, more, left)
    BY <1>3, <2>1, <2>6, <2>7 DEF InStream
  <2>9. Tracks(n + 1, more, left, r, st)
    BY <1>2, <2>4, <2>8
  <2> QED BY <2>9 DEF r, more
<1>4. CASE i = 0 /\ 0 < Len(st) /\ left /\ Short(carried) /\ LostIn(k, st[1], o)
  <2>1. Proper(st[1]) /\ i + 1 = 1 /\ i < Len(st)
    BY <1>0, <1>4
  <2>2. o \in Nat \ {0} /\ o < Len(Written(st[1]))
    BY <1>4, <2>1, LostStep
  <2>3. /\ b = Written(st[1])[o + 1]
        /\ n + 1 = End(Ws(st), 0) + (o + 1)
        /\ o + 1 = Len(Written(st[1])) => n + 1 = End(Ws(st), 1) + 0
        /\ o + 1 < Len(Written(st[1])) \/ o + 1 = Len(Written(st[1]))
        /\ 1 \in 0..Len(st)
    <3>1. o < Len(Written(st[i + 1]))
      BY <2>1, <2>2
    <3>2. /\ WireOf(st)[n + 1] = Written(st[i + 1])[o + 1]
          /\ n + 1 = End(Ws(st), i) + (o + 1)
          /\ o + 1 = Len(Written(st[i + 1])) => n + 1 = End(Ws(st), i + 1) + 0
          /\ o + 1 < Len(Written(st[i + 1])) \/ o + 1 = Len(Written(st[i + 1]))
          /\ i + 1 \in 0..Len(st)
      BY <1>1, <2>1, <3>1, ByteAhead
    <3> QED BY <1>4, <2>1, <3>2
  <2>4. /\ Carried(k, b) = <<>>
        /\ o + 1 < Len(Written(st[1])) => LostIn(r, st[1], o + 1)
        /\ o + 1 = Len(Written(st[1])) => Between(r)
    BY <1>4, <2>1, <2>3, LostStep DEF r
  <2>5. more = carried
    <3>1. carried \in Seq(Calls)
      BY <1>4, ShortIs
    <3>2. carried \o <<>> = carried
      BY <3>1, ConcatEmptySeq
    <3> QED BY <2>4, <3>2 DEF more
  <2>6. CASE o + 1 < Len(Written(st[1]))
    <3>1. InStream(r, st, 0, o + 1, more, left)
      BY <1>4, <2>4, <2>5, <2>6 DEF InStream
    <3>2. 0 \in 0..Len(st) /\ o + 1 \in Nat
      BY <1>0
    <3>3. Tracks(n + 1, more, left, r, st)
      BY <1>2, <2>3, <3>1, <3>2
    <3> QED BY <3>3 DEF r, more
  <2>7. CASE o + 1 = Len(Written(st[1]))
    <3>1. Completed(more, left, st, 1)
      <4>1. SubSeq(st, 2, 1) = <<>>
        BY <1>0
      <4>2. carried \in Seq(Calls)
        BY <1>4, ShortIs
      <4>3. more = carried \o SubSeq(st, 2, 1)
        BY <2>5, <4>1, <4>2, ConcatEmptySeq
      <4>4. 1 >= 1
        OBVIOUS
      <4> QED BY <1>4, <4>3, <4>4, Zenon DEF Completed
    <3>2. InStream(r, st, 1, 0, more, left)
      BY <2>4, <2>7, <3>1 DEF InStream
    <3>3. Tracks(n + 1, more, left, r, st)
      BY <1>2, <2>3, <2>7, <3>2
    <3> QED BY <3>3 DEF r, more
  <2> QED BY <2>3, <2>6, <2>7
<1>5. CASE i < Len(st) /\ \E done, out : /\ carried = done \o out /\ Completed(done, left, st, i)
                                         /\ InFrame(k, st[i + 1], o, out)
  <2>1. PICK done, out : /\ carried = done \o out /\ Completed(done, left, st, i)
                         /\ InFrame(k, st[i + 1], o, out)
    BY <1>5
  <2>2. PICK f : f = st[i + 1]
    OBVIOUS
  <2>3. Proper(f) /\ i + 1 \in 1..Len(st) /\ f \in Calls
    BY <1>0, <1>5, <2>2
  <2>4. o \in Nat \ {0} /\ o < Len(Written(f)) /\ (out = <<>> \/ out = <<f>>)
    BY <2>1, <2>2, <2>3, FrameStep
  <2>5. /\ b = Written(f)[o + 1]
        /\ n + 1 = End(Ws(st), i) + (o + 1)
        /\ o + 1 = Len(Written(f)) => n + 1 = End(Ws(st), i + 1) + 0
        /\ o + 1 < Len(Written(f)) \/ o + 1 = Len(Written(f))
        /\ i + 1 \in 0..Len(st) /\ i \in Nat
    <3>1. o < Len(Written(st[i + 1]))
      BY <2>2, <2>4
    <3>2. /\ WireOf(st)[n + 1] = Written(st[i + 1])[o + 1]
          /\ n + 1 = End(Ws(st), i) + (o + 1)
          /\ o + 1 = Len(Written(st[i + 1])) => n + 1 = End(Ws(st), i + 1) + 0
          /\ o + 1 < Len(Written(st[i + 1])) \/ o + 1 = Len(Written(st[i + 1]))
          /\ i + 1 \in 0..Len(st) /\ i \in Nat
      BY <1>1, <1>5, <3>1, ByteAhead
    <3> QED BY <2>2, <3>2
  <2>6. /\ o + 1 < Len(Written(f)) => InFrame(r, f, o + 1, out \o Carried(k, b))
        /\ o + 1 = Len(Written(f)) => Between(r) /\ out \o Carried(k, b) = <<f>>
    <3>1. Proper(f) /\ InFrame(k, f, o, out) /\ b = Written(f)[o + 1]
      BY <2>1, <2>2, <2>3, <2>5
    <3>2. /\ o + 1 < Len(Written(f)) =>
               InFrame(serial_callback(k, b), f, o + 1, out \o Carried(k, b))
          /\ o + 1 = Len(Written(f)) =>
               Between(serial_callback(k, b)) /\ out \o Carried(k, b) = <<f>>
      BY <3>1, FrameStep
    <3> QED BY <3>2 DEF r
  <2>7. done \in Seq(Calls) /\ Completed(done \o <<f>>, left, st, i + 1)
    BY <1>0, <2>1, <2>2, <2>3, <2>5, CompletedMore
  <2>8. more = done \o (out \o Carried(k, b))
    <3>1. out \in Seq(Calls)
      <4>1. <<>> \in Seq(Calls) /\ <<f>> \in Seq(Calls)
        BY <2>3
      <4> QED BY <2>4, <4>1
    <3>2. PICK c : c = Carried(k, b)
      OBVIOUS
    <3>3. c \in Seq(Calls)
      <4>1. b \in Bytes
        BY WireIs
      <4> QED BY <3>2, <4>1, CarriedIs, ShortIs
    <3>4. (done \o out) \o c = done \o (out \o c)
      <4>1. done \in Seq(Calls)
        BY <2>7
      <4> QED BY ONLY <3>1, <3>3, <4>1, Regroup, Zenon
    <3> QED BY <2>1, <3>2, <3>4 DEF more
  <2>9. CASE o + 1 < Len(Written(f))
    <3>1. InStream(r, st, i, o + 1, more, left)
      BY <1>5, <2>1, <2>2, <2>6, <2>8, <2>9 DEF InStream
    <3>2. o + 1 \in Nat
      OBVIOUS
    <3>3. Tracks(n + 1, more, left, r, st)
      BY <1>2, <2>5, <3>1, <3>2
    <3> QED BY <3>3 DEF r, more
  <2>10. CASE o + 1 = Len(Written(f))
    <3>1. more = done \o <<f>> /\ Between(r)
      BY <2>6, <2>8, <2>10
    <3>2. i + 1 >= 1
      BY <2>5
    <3>3. InStream(r, st, i + 1, 0, more, left)
      BY <2>7, <3>1, <3>2 DEF InStream
    <3>4. Tracks(n + 1, more, left, r, st)
      BY <1>2, <2>5, <2>10, <3>3
    <3> QED BY <3>4 DEF r, more
  <2> QED BY <2>5, <2>9, <2>10
<1> QED BY <1>1, <1>3, <1>4, <1>5 DEF InStream

(* The first byte of a stream. *)
LEMMA TracksFirst ==
  ASSUME NEW st, StreamOK(st), NEW k, ParserOK(k), k.ESCAPE = FALSE, 1 \in 1..Len(WireOf(st)),
         NEW b, b = WireOf(st)[1]
  PROVE  Tracks(1, Carried(k, b), k.IN_FRAME /\ k.command \in {CMD_DATA, CMD_SYNC_WORD},
                serial_callback(k, b), st)
<1> DEFINE r == serial_callback(k, b)
           c == Carried(k, b)
           l == k.IN_FRAME /\ k.command \in {CMD_DATA, CMD_SYNC_WORD}
<1>0. /\ Len(st) \in Nat /\ st \in Seq(Calls) /\ \A j \in 1..Len(st) : Proper(st[j])
      /\ End(Ws(st), 0) = 0 /\ Len(WireOf(st)) = End(Ws(st), Len(st))
  BY WireIs DEF StreamOK
<1>1. 0 < Len(st)
  <2>1. Len(st) = 0 => Len(WireOf(st)) = 0
    BY <1>0
  <2> QED BY <1>0, <2>1
<1>2. Proper(st[1])
  BY <1>0, <1>1
<1>3. PICK w \in Nat : w = Len(Written(st[1])) /\ w >= 3
  BY <1>2, CommandPlace
<1>4. b = FEND /\ 1 = End(Ws(st), 0) + 1
  <2>1. /\ 0 \in 0..Len(st) /\ 0 < Len(st) /\ 0 \in Nat /\ 0 + 1 = 1
        /\ 0 < Len(Written(st[0 + 1])) /\ 0 = End(Ws(st), 0) + 0
    BY <1>0, <1>1, <1>3
  <2>2. WireOf(st)[0 + 1] = Written(st[0 + 1])[0 + 1]
    BY <2>1, ByteAhead
  <2>3. Written(st[1])[1] = FEND
    BY <1>2, CommandPlace
  <2> QED BY <1>0, <2>2, <2>3
<1>5. \/ InFrame(r, st[1], 1, <<>>) /\ c = <<>>
      \/ l /\ LostIn(r, st[1], 1) /\ Short(c)
  BY <1>4, FirstByte
<1> HIDE DEF r, c, l
<1>6. InStream(r, st, 0, 1, c, l)
  <2>1. CASE InFrame(r, st[1], 1, <<>>) /\ c = <<>>
    <3>1. <<>> = <<>> \o <<>> /\ SubSeq(st, 1, 0) = <<>> /\ 0 + 1 = 1
      BY <1>0, ConcatEmptySeq, EmptySeq
    <3>2. Completed(<<>>, l, st, 0)
      BY <3>1, Zenon DEF Completed
    <3> QED BY <1>1, <2>1, <3>1, <3>2 DEF InStream
  <2>2. CASE l /\ LostIn(r, st[1], 1) /\ Short(c)
    BY <1>1, <2>2, Zenon DEF InStream
  <2> QED BY <1>5, <2>1, <2>2
<1>7. 0 \in 0..Len(st) /\ 1 \in Nat
  BY <1>0
<1>8. Tracks(1, c, l, r, st)
  BY <1>4, <1>6, <1>7, Zenon DEF Tracks
<1> QED BY <1>8 DEF r, c, l

(* At the end of a frame. *)
LEMMA TracksEnd ==
  ASSUME NEW st, StreamOK(st), NEW k, NEW n, NEW carried, NEW left, ParserOK(k),
         Tracks(n, carried, left, k, st), NEW m \in 1..Len(st), n = End(Ws(st), m)
  PROVE  Completed(carried, left, st, m)
<1>0. Len(st) \in Nat /\ st \in Seq(Calls) /\ \A j \in 1..Len(st) : Proper(st[j])
  BY WireIs DEF StreamOK
<1>1. PICK i \in 0..Len(st), o \in Nat :
          n = End(Ws(st), i) + o /\ InStream(k, st, i, o, carried, left)
  BY DEF Tracks
<1>2. /\ o # 0 => i < Len(st) /\ o < Len(Written(st[i + 1]))
      /\ o = 0 => Completed(carried, left, st, i)
  <2>1. CASE i >= 1 /\ o = 0 /\ Between(k) /\ Completed(carried, left, st, i)
    BY <2>1
  <2>2. CASE i = 0 /\ 0 < Len(st) /\ left /\ Short(carried) /\ LostIn(k, st[1], o)
    <3>1. Proper(st[1]) /\ i + 1 = 1
      BY <1>0, <2>2
    <3>2. o \in Nat \ {0} /\ o < Len(Written(st[1]))
      BY <2>2, <3>1, LostStep
    <3> QED BY <2>2, <3>1, <3>2
  <2>3. CASE i < Len(st) /\ \E done, out : /\ carried = done \o out /\ Completed(done, left, st, i)
                                           /\ InFrame(k, st[i + 1], o, out)
    <3>1. Proper(st[i + 1])
      BY <1>0, <2>3
    <3>2. o \in Nat \ {0} /\ o < Len(Written(st[i + 1]))
      BY <2>3, <3>1, FrameStep
    <3> QED BY <2>3, <3>2
  <2> QED BY <1>1, <2>1, <2>2, <2>3 DEF InStream
<1>3. m \in 0..Len(st) /\ End(Ws(st), i) + o = End(Ws(st), m)
  BY <1>0, <1>1
<1>4. i = m /\ o = 0
  BY <1>2, <1>3, OneFrame
<1> QED BY <1>2, <1>4

-----------------------------------------------------------------------------
(* The bytes in the drivers and in the ring are those on the wire *)

OnWire(x, hs) ==
    /\ x.b \in Bytes
    /\ x.host # 0 => /\ x.host \in DOMAIN hs
                     /\ x.pos \in 1..Len(WireOf(hs[x.host].stream))
                     /\ x.b = WireOf(hs[x.host].stream)[x.pos]

WireBytes ==
    /\ \A t \in RxTransports : \A i \in 1..Len(rx[t]) : OnWire(rx[t][i], hosts)
    /\ \A q \in Slots : OnWire(ws_rx_buf[q], hosts)

CleanTracked ==
    clean.host # 0 /\ ~clean.escape =>
        Tracks(clean.bytes, clean.carried, clean.left, kiss, hosts[clean.host].stream)

ParseInv == ParserOK(kiss) /\ WireBytes /\ CleanTracked

StreamsKept ==
    \A h \in DOMAIN hosts : h \in DOMAIN hosts' /\ hosts'[h].stream = hosts[h].stream

(* The streams are the ones hosts came with. *)
LEMMA HostStreams ==
  ASSUME LinkShape, NEW h \in DOMAIN hosts
  PROVE  StreamOK(hosts[h].stream) /\ hosts[h].written \in Nat
<1>1. hosts \in Seq(HostRecord)
  BY DEF LinkShape, ExclusiveInv
<1>2. hosts[h] \in HostRecord
  BY <1>1
<1>3. hosts[h].stream \in Streams /\ hosts[h].written \in Nat
  BY <1>2 DEF HostRecord
<1> QED BY <1>3, StreamIs

(* They stay the same while a host writes ... *)
LEMMA WritesStream ==
  ASSUME LinkShape, NEW h \in DOMAIN hosts, Writes(h)
  PROVE  StreamsKept
<1> DEFINE r == [hosts[h] EXCEPT !.written = @ + 1]
<1>1. hosts \in Seq(HostRecord) /\ hosts[h] \in HostRecord
  BY LenProperties DEF LinkShape, ExclusiveInv
<1>2. r.stream = hosts[h].stream
  BY <1>1 DEF HostRecord
<1>3. hosts' = [hosts EXCEPT ![h] = r]
  BY <1>1 DEF Writes
<1> HIDE DEF r
<1> QED BY <1>2, <1>3 DEF StreamsKept

(* ... or leaves ... *)
LEMMA DepartedStream ==
  ASSUME LinkShape, NEW h \in DOMAIN hosts
  PROVE  Departed(h).stream = hosts[h].stream
<1>1. hosts \in Seq(HostRecord)
  BY DEF LinkShape, ExclusiveInv
<1>2. hosts[h] \in HostRecord
  BY <1>1
<1>3. \A r \in HostRecord : [r EXCEPT !.there = FALSE, !.written = 0].stream = r.stream
  BY DEF HostRecord
<1> QED BY <1>2, <1>3 DEF Departed

(* So one that is gone had its stream to the last. *)
LEMMA GoneStream ==
  ASSUME LinkShape, NEW h \in DOMAIN hosts, Gone(h)
  PROVE  StreamsKept
<1>1. Departed(h).stream = hosts[h].stream
  BY DepartedStream
<1>2. PICK d : d = Departed(h)
  OBVIOUS
<1>3. hosts' = [hosts EXCEPT ![h] = d]
  BY <1>2 DEF Gone
<1> QED BY <1>1, <1>2, <1>3 DEF StreamsKept

(* ... or is sent away. *)
LEMMA CloseStream ==
  ASSUME LinkShape, wifi_remote_close_all
  PROVE  StreamsKept
<1>1. hosts' = [h \in DOMAIN hosts |-> IF h \in TcpHosts THEN Departed(h) ELSE hosts[h]]
  BY DEF wifi_remote_close_all
<1>2. \A h \in DOMAIN hosts : Departed(h).stream = hosts[h].stream
  BY DepartedStream
<1> QED BY <1>1, <1>2 DEF StreamsKept

(* Then a byte is still the one its host wrote. *)
LEMMA ByteKept ==
  ASSUME StreamsKept, NEW x, OnWire(x, hosts)
  PROVE  OnWire(x, hosts')
<1>1. CASE x.host = 0
  BY <1>1 DEF OnWire
<1>2. CASE x.host # 0
  <2>1. x.host \in DOMAIN hosts' /\ hosts'[x.host].stream = hosts[x.host].stream
    BY <1>2 DEF OnWire, StreamsKept
  <2> QED BY <1>2, <2>1 DEF OnWire
<1> QED BY <1>1, <1>2

(* Nothing is read. *)
LEMMA IdleTracked ==
  ASSUME LinkShape, CleanTracked, StreamsKept, UNCHANGED <<clean, kiss>>
  PROVE  CleanTracked'
<1> SUFFICES ASSUME clean.host # 0, ~clean.escape
             PROVE  Tracks(clean.bytes, clean.carried, clean.left, kiss, hosts'[clean.host].stream)
  BY DEF CleanTracked
<1>1. clean.host \in DOMAIN hosts
  BY DEF LinkShape, KnownBytes, Came, ExclusiveInv
<1>2. hosts'[clean.host].stream = hosts[clean.host].stream
  BY <1>1 DEF StreamsKept
<1> QED BY <1>2 DEF CleanTracked

(* Then the parser stays where it was in the stream. *)
LEMMA ParseIdle ==
  ASSUME LinkShape, ParseInv, StreamsKept, UNCHANGED <<clean, kiss, ws_rx_buf>>,
         \A t \in RxTransports : rx'[t] = rx[t] \/ rx'[t] = <<>>
  PROVE  ParseInv'
<1>1. ParserOK(kiss)'
  BY DEF ParseInv
<1>2. CleanTracked'
  BY IdleTracked DEF ParseInv
<1>3. \A x : OnWire(x, hosts) => OnWire(x, hosts')
  BY ByteKept
<1>4. WireBytes'
  <2>1. ASSUME NEW t \in RxTransports, NEW i \in 1..Len(rx'[t]) PROVE OnWire(rx'[t][i], hosts')
    <3>1. rx'[t] = rx[t] /\ i \in 1..Len(rx[t])
      BY SeqNone
    <3>2. PICK x : x = rx[t][i]
      OBVIOUS
    <3>3. OnWire(x, hosts)
      BY <3>1, <3>2 DEF ParseInv, WireBytes
    <3>4. OnWire(x, hosts')
      BY <1>3, <3>3
    <3> QED BY <3>1, <3>2, <3>4
  <2>2. ASSUME NEW q \in Slots PROVE OnWire(ws_rx_buf'[q], hosts')
    <3>1. PICK x : x = ws_rx_buf[q]
      OBVIOUS
    <3>2. OnWire(x, hosts')
      BY <1>3, <3>1 DEF ParseInv, WireBytes
    <3> QED BY <3>1, <3>2
  <2> QED BY <2>1, <2>2 DEF WireBytes
<1> QED BY <1>1, <1>2, <1>4 DEF ParseInv

(* At boot. *)
LEMMA ParseInit == Init => ParseInv
<1> SUFFICES ASSUME Init PROVE ParseInv
  OBVIOUS
<1>1. ParserOK(kiss)
  <2>1. /\ kiss = [IN_FRAME |-> FALSE, ESCAPE |-> FALSE, command |-> CMD_UNKNOWN,
                   cmdbuf |-> <<>>, stored |-> <<>>, selected_vport |-> "00"]
    BY DEF Init, ParserInit
  <2>2. CMD_UNKNOWN \in Bytes /\ "00" \in Bytes /\ <<>> \in Seq(Bytes)
    BY DEF Bytes
  <2>3. kiss \in ParserState /\ kiss.stored = <<>>
    BY <2>1, <2>2 DEF ParserState
  <2> QED BY <2>3 DEF ParserOK
<1>2. WireBytes
  <2>1. \A t \in RxTransports : Len(rx[t]) = 0
    BY SeqNone DEF Init, RxTransports
  <2>2. \A q \in Slots : ws_rx_buf[q] = [host |-> 0, pos |-> 0, b |-> "00"]
    BY DEF Init, Slots, Phantom
  <2>3. OnWire([host |-> 0, pos |-> 0, b |-> "00"], hosts)
    BY DEF OnWire, Bytes
  <2> QED BY <2>1, <2>2, <2>3 DEF WireBytes
<1>3. CleanTracked
  BY DEF Init, CleanTracked, NoClean
<1> QED BY <1>1, <1>2, <1>3 DEF ParseInv

(* A host comes. *)
LEMMA ComesParse ==
  ASSUME LinkShape, ParseInv, NEW s \in Streams,
         UsbComes(s) \/ bt_connect_callback(s) \/ TcpConnects(s) \/ WsConnected(s)
  PROVE  ParseInv'
<1>1. PICK t \in Transports : Comes(t, s)
  BY DEF UsbComes, bt_connect_callback, TcpConnects, WsConnected, Transports
<1>2. /\ DOMAIN hosts' = DOMAIN hosts \cup {Len(hosts) + 1}
      /\ \A h \in DOMAIN hosts : hosts'[h] = hosts[h]
  BY <1>1, HostComes DEF LinkShape
<1>3. StreamsKept
  BY <1>2 DEF StreamsKept
<1>4. UNCHANGED <<rx, ws_rx_buf, kiss, clean>>
  BY <1>1 DEF Comes, ring
<1> QED BY <1>3, <1>4, ParseIdle

(* A byte reaches a driver or the ring. *)
LEMMA WritesParse ==
  ASSUME LinkShape, ParseInv, NEW h \in DOMAIN hosts, Arrives(h) \/ ws_rx_push(h)
  PROVE  ParseInv'
<1>1. Writes(h)
  BY DEF Arrives, ws_rx_push
<1>2. StreamsKept
  BY <1>1, WritesStream
<1>3. UNCHANGED <<kiss, clean>>
  BY <1>1 DEF Writes
<1>4. ParserOK(kiss)' /\ CleanTracked'
  BY <1>2, <1>3, IdleTracked DEF ParseInv
<1>5. \A y : OnWire(y, hosts) => OnWire(y, hosts')
  BY <1>2, ByteKept
<1>6. PICK x : x = ByteOf(h, hosts[h].written + 1)
  OBVIOUS
<1>7. OnWire(x, hosts)
  <2>1. Wire(h) = WireOf(hosts[h].stream)
    BY DEF Wire, WireOf, Ws
  <2>2. PICK w : w = WireOf(hosts[h].stream)
    OBVIOUS
  <2>3. w \in Seq(Bytes) /\ hosts[h].written \in Nat
    BY <2>2, HostStreams, WireIs
  <2>4. PICK p \in Nat : p = hosts[h].written
    BY <2>3
  <2>5. p < Len(w) /\ Len(w) \in Nat
    BY <1>1, <2>1, <2>2, <2>3, <2>4 DEF Writes
  <2>6. p + 1 \in 1..Len(w)
    BY <2>5
  <2>7. w[p + 1] \in Bytes
    BY <2>3, <2>6
  <2>8. x = [host |-> h, pos |-> p + 1, b |-> w[p + 1]]
    BY <1>6, <2>1, <2>2, <2>4 DEF ByteOf
  <2>9. x.host = h /\ x.pos = p + 1 /\ x.b = w[p + 1]
    BY <2>8
  <2> QED BY <2>2, <2>6, <2>7, <2>9 DEF OnWire
<1>8. /\ \A t \in RxTransports : \A i \in 1..Len(rx[t]) : OnWire(rx[t][i], hosts')
      /\ \A q \in Slots : OnWire(ws_rx_buf[q], hosts') /\ OnWire(x, hosts')
  BY <1>5, <1>7 DEF ParseInv, WireBytes
<1>9. OnWire(x, hosts')
  BY <1>5, <1>7
<1>10. CASE Arrives(h)
  <2>1. PICK t : t = hosts[h].on
    OBVIOUS
  <2>2. t \in RxTransports
    <3>1. hosts \in Seq(HostRecord)
      BY DEF LinkShape, ExclusiveInv
    <3>2. hosts[h] \in HostRecord
      BY <3>1
    <3> QED BY <1>10, <2>1, <3>2 DEF Arrives, HostRecord, Transports, RxTransports
  <2>3. rx' = [rx EXCEPT ![t] = Append(rx[t], x)] /\ UNCHANGED ring
    BY <1>6, <1>10, <2>1 DEF Arrives
  <2>4. /\ rx'[t] = Append(rx[t], x) /\ IsSeq(rx[t])
        /\ \A u \in RxTransports \ {t} : rx'[u] = rx[u]
    BY <2>2, <2>3 DEF LinkShape, Shapes
  <2>5. /\ Len(rx'[t]) = Len(rx[t]) + 1 /\ Len(rx[t]) \in Nat
        /\ \A i \in 1..Len(rx[t]) : rx'[t][i] = rx[t][i]
        /\ rx'[t][Len(rx[t]) + 1] = x
    BY <2>4, SeqMore, SeqShape
  <2>6. \A i \in 1..Len(rx'[t]) : OnWire(rx'[t][i], hosts')
    <3>1. \A i \in 1..Len(rx'[t]) : i \in 1..Len(rx[t]) \/ i = Len(rx[t]) + 1
      BY <2>5
    <3> QED BY <1>8, <1>9, <2>2, <2>5, <3>1
  <2>7. \A u \in RxTransports : \A i \in 1..Len(rx'[u]) : OnWire(rx'[u][i], hosts')
    BY <1>8, <2>4, <2>6
  <2>8. WireBytes'
    BY <1>8, <2>3, <2>7 DEF WireBytes, ring
  <2> QED BY <1>4, <2>8 DEF ParseInv
<1>11. CASE ws_rx_push(h)
  <2>1. UNCHANGED rx
    BY <1>11 DEF ws_rx_push
  <2>2. ws_rx_buf' = ws_rx_buf \/ ws_rx_buf' = [ws_rx_buf EXCEPT ![ws_rx_head] = x]
    BY <1>6, <1>11 DEF ws_rx_push, ring
  <2>3. DOMAIN ws_rx_buf = Slots
    BY DEF LinkShape, Shapes
  <2>4. \A q \in Slots : ws_rx_buf'[q] = ws_rx_buf[q] \/ ws_rx_buf'[q] = x
    BY <2>2, <2>3
  <2>5. \A q \in Slots : OnWire(ws_rx_buf'[q], hosts')
    BY <1>8, <1>9, <2>4
  <2>6. WireBytes'
    BY <1>8, <2>1, <2>5 DEF WireBytes
  <2> QED BY <1>4, <2>6 DEF ParseInv
<1> QED BY <1>10, <1>11

(* A host leaves. *)
LEMMA LeavesParse ==
  ASSUME LinkShape, ParseInv, NEW h \in DOMAIN hosts, Leaves(h)
  PROVE  ParseInv'
<1>1. StreamsKept
  BY GoneStream DEF Leaves
<1>2. hosts[h].on \in Transports
  <2>1. hosts \in Seq(HostRecord)
    BY DEF LinkShape, ExclusiveInv
  <2>2. hosts[h] \in HostRecord
    BY <2>1
  <2> QED BY <2>2 DEF HostRecord
<1>3. UNCHANGED <<clean, kiss, ws_rx_buf>>
  BY <1>2 DEF Leaves, Transports, ring
<1>4. rx' = rx \/ rx' = [rx EXCEPT !["tcp"] = <<>>]
  BY <1>2 DEF Leaves, Transports
<1>5. \A t \in RxTransports : rx'[t] = rx[t] \/ rx'[t] = <<>>
  BY <1>4 DEF LinkShape, Shapes
<1> QED BY <1>1, <1>3, <1>5, ParseIdle

(* buffer_serial() asks for a byte. *)
LEMMA PollParse == ASSUME LinkShape, ParseInv, Poll PROVE ParseInv'
<1>1. UNCHANGED <<clean, kiss, ws_rx_buf>>
  BY DEF Poll, ring
<1>2. CASE TcpDropped
  <2>1. StreamsKept
    BY <1>2, CloseStream DEF TcpDropped
  <2>2. \A t \in RxTransports : rx'[t] = rx[t] \/ rx'[t] = <<>>
    BY <1>2 DEF TcpDropped, wifi_remote_close_all, LinkShape, Shapes
  <2> QED BY <1>1, <2>1, <2>2, ParseIdle
<1>3. CASE UNCHANGED <<hosts, rx>>
  <2>1. StreamsKept
    BY <1>3 DEF StreamsKept
  <2> QED BY <1>1, <1>3, <2>1, ParseIdle
<1>4. CASE TcpRefused
  <2>1. waiting \in DOMAIN hosts /\ Gone(waiting) /\ UNCHANGED rx
    BY <1>4 DEF TcpRefused, LinkShape, SocketsHeld
  <2>2. StreamsKept
    BY <2>1, GoneStream
  <2> QED BY <1>1, <2>1, <2>2, ParseIdle
<1> QED BY <1>2, <1>3, <1>4 DEF Poll, TcpIdle, TcpAccepted

(* A byte is parsed. *)
LEMMA ParseTracks ==
  ASSUME LinkShape, ParseInv, NEW x, OnWire(x, hosts), x.host \in Nat, Parse(x), StreamsKept
  PROVE  ParserOK(kiss)' /\ CleanTracked'
<1>1. kiss' = serial_callback(kiss, x.b) /\ x.b \in Bytes /\ ParserOK(kiss) /\ IsClean(clean)
  BY DEF Parse, OnWire, ParseInv, LinkShape, Shapes
<1>2. ParserOK(kiss)'
  BY <1>1, ParserStep
<1> SUFFICES ASSUME clean'.host # 0, ~clean'.escape
             PROVE  Tracks(clean'.bytes, clean'.carried, clean'.left, kiss', hosts'[clean'.host].stream)
  BY <1>2 DEF CleanTracked
<1> DEFINE first == x.host # 0 /\ x.pos = 1
           next == x.host # 0 /\ x.host = clean.host /\ x.pos = clean.bytes + 1
           ca == Carried(kiss, x.b)
           le == kiss.IN_FRAME /\ kiss.command \in {CMD_DATA, CMD_SYNC_WORD}
           a == [host |-> x.host, bytes |-> 1, carried |-> ca, escape |-> kiss.ESCAPE, left |-> le]
           b == [clean EXCEPT !.bytes = @ + 1, !.carried = @ \o ca]
<1>3. clean' = CASE first -> a [] next -> b [] OTHER -> NoClean
  BY DEF Parse
<1>4. ~(first /\ next)
  BY <1>1 DEF IsClean
<1>5. PICK st : st = hosts[x.host].stream
  OBVIOUS
<1>6. x.host # 0 => /\ StreamOK(st) /\ hosts'[x.host].stream = st
                    /\ x.pos \in 1..Len(WireOf(st)) /\ x.b = WireOf(st)[x.pos]
  BY <1>5, HostStreams DEF OnWire, StreamsKept
<1>7. CASE first
  <2>1. clean' = a
    <3> HIDE DEF first, next, a, b
    <3> QED BY <1>3, <1>4, <1>7
  <2> HIDE DEF ca, le
  <2>2. /\ clean'.host = x.host /\ clean'.bytes = 1 /\ clean'.carried = ca
        /\ clean'.escape = kiss.ESCAPE /\ clean'.left = le
    BY <2>1
  <2>3. kiss.ESCAPE = FALSE
    BY <1>1, <2>2 DEF ParserOK, ParserState
  <2>4. StreamOK(st) /\ 1 \in 1..Len(WireOf(st)) /\ x.b = WireOf(st)[1]
    BY <1>6, <1>7
  <2>5. Tracks(1, ca, le, kiss', st)
    BY <1>1, <2>3, <2>4, TracksFirst DEF ca, le
  <2> QED BY <1>6, <1>7, <2>2, <2>5
<1>8. CASE next
  <2>1. clean' = b
    <3> HIDE DEF first, next, a, b
    <3> QED BY <1>3, <1>4, <1>8
  <2> HIDE DEF ca
  <2>2. PICK c : c = clean.carried \o ca
    OBVIOUS
  <2>3. clean' = [host |-> clean.host, bytes |-> clean.bytes + 1, carried |-> c,
                  escape |-> clean.escape, left |-> clean.left]
    <3>1. clean' = [clean EXCEPT !.bytes = clean.bytes + 1, !.carried = c]
      BY <1>1, <2>1, <2>2 DEF IsClean
    <3> QED BY <1>1, <3>1 DEF IsClean
  <2>4. /\ clean'.host = clean.host /\ clean'.bytes = clean.bytes + 1 /\ clean'.carried = c
        /\ clean'.escape = clean.escape /\ clean'.left = clean.left
    BY <2>3
  <2>5. Tracks(clean.bytes, clean.carried, clean.left, kiss, st)
    BY <1>5, <1>8, <2>4 DEF ParseInv, CleanTracked
  <2>6. /\ StreamOK(st) /\ clean.bytes + 1 \in 1..Len(WireOf(st))
        /\ x.b = WireOf(st)[clean.bytes + 1]
    BY <1>6, <1>8
  <2>7. Tracks(clean.bytes + 1, c, clean.left, kiss', st)
    BY <1>1, <2>2, <2>5, <2>6, TracksStep DEF ca
  <2> QED BY <1>6, <1>8, <2>4, <2>7
<1>9. CASE ~first /\ ~next
  <2>1. clean' = NoClean
    <3> HIDE DEF first, next, a, b
    <3> QED BY <1>3, <1>9
  <2> QED BY <2>1 DEF NoClean
<1> QED BY <1>7, <1>8, <1>9

(* buffer_serial() reads one byte. *)
LEMMA ReadTracks ==
  ASSUME LinkShape, ParseInv, NEW x, OnWire(x, hosts), Came(x), Parse(x), StreamsKept,
         \A t \in RxTransports : \/ rx'[t] = rx[t] \/ rx'[t] = <<>>
                                 \/ rx[t] # <<>> /\ rx'[t] = Tail(rx[t]),
         UNCHANGED ws_rx_buf
  PROVE  ParseInv'
<1>1. ParserOK(kiss)' /\ CleanTracked'
  <2>1. x.host \in Nat
    BY DEF Came, LinkShape, ExclusiveInv
  <2> QED BY <2>1, ParseTracks
<1>2. \A y : OnWire(y, hosts) => OnWire(y, hosts')
  BY ByteKept
<1>3. ASSUME NEW t \in RxTransports, NEW i \in 1..Len(rx'[t]) PROVE OnWire(rx'[t][i], hosts')
  <2>1. IsSeq(rx[t]) /\ \A j \in 1..Len(rx[t]) : OnWire(rx[t][j], hosts')
    BY <1>2 DEF LinkShape, Shapes, ParseInv, WireBytes
  <2>2. CASE rx[t] # <<>> /\ rx'[t] = Tail(rx[t])
    BY <2>1, <2>2, SeqLess
  <2>3. CASE rx'[t] = rx[t]
    BY <2>1, <2>3
  <2>4. CASE rx'[t] = <<>>
    BY <2>4, SeqNone
  <2> QED BY <2>2, <2>3, <2>4
<1>4. WireBytes'
  BY <1>2, <1>3 DEF ParseInv, WireBytes
<1> QED BY <1>1, <1>4 DEF ParseInv

(* From whichever transport. *)
LEMMA ReadParse == ASSUME LinkShape, ParseInv, Read PROVE ParseInv'
<1>1. Len(hosts) \in Nat /\ ws_rx_tail \in Slots /\ DOMAIN rx = RxTransports
  BY DEF LinkShape, ExclusiveInv, Shapes
<1>2. ASSUME NEW b \in Bytes PROVE OnWire(Phantom(b), hosts) /\ Came(Phantom(b))
  BY <1>1 DEF OnWire, Phantom, Came
<1>3. ASSUME NEW t \in RxTransports, rx[t] # <<>>
      PROVE  OnWire(Head(rx[t]), hosts) /\ Came(Head(rx[t]))
  <2>1. IsSeq(rx[t])
    BY DEF LinkShape, Shapes
  <2>2. Head(rx[t]) = rx[t][1] /\ 1 \in 1..Len(rx[t])
    BY <1>3, <2>1, SeqShape
  <2> QED BY <2>2 DEF ParseInv, WireBytes, LinkShape, KnownBytes, RxTransports
<1>4. NoByte \in Bytes /\ FEND \in Bytes
  BY DEF Bytes
<1>5. UNCHANGED hosts => StreamsKept
  BY DEF StreamsKept
<1>6. ASSUME NEW t \in RxTransports, ReadDirect(t) PROVE ParseInv'
  <2>1. PICK x : x = IF rx[t] = <<>> THEN Phantom(NoByte) ELSE Head(rx[t])
    OBVIOUS
  <2>2. OnWire(x, hosts) /\ Came(x) /\ Parse(x)
    BY <1>2, <1>3, <1>4, <1>6, <2>1 DEF ReadDirect
  <2>3. UNCHANGED <<hosts, ring>>
    BY <1>6 DEF ReadDirect
  <2>4. \A u \in RxTransports : \/ rx'[u] = rx[u] \/ rx'[u] = <<>>
                                \/ rx[u] # <<>> /\ rx'[u] = Tail(rx[u])
    BY <1>1, <1>6 DEF ReadDirect
  <2> QED BY <1>5, <2>2, <2>3, <2>4, ReadTracks DEF ring
<1>7. CASE wifi_remote_read
  <2>1. UNCHANGED ring
    BY <1>7 DEF wifi_remote_read
  <2>2. CASE rx["tcp"] # <<>>
    <3>1. PICK x : x = Head(rx["tcp"])
      OBVIOUS
    <3>2. OnWire(x, hosts) /\ Came(x) /\ Parse(x)
      BY <1>3, <1>7, <2>2, <3>1 DEF wifi_remote_read, RxTransports
    <3>3. UNCHANGED hosts /\ rx' = [rx EXCEPT !["tcp"] = Tail(@)]
      BY <1>7, <2>2 DEF wifi_remote_read
    <3>4. \A u \in RxTransports : \/ rx'[u] = rx[u] \/ rx'[u] = <<>>
                                  \/ rx[u] # <<>> /\ rx'[u] = Tail(rx[u])
      BY <1>1, <2>2, <3>3
    <3> QED BY <1>5, <2>1, <3>2, <3>3, <3>4, ReadTracks DEF ring
  <2>3. CASE rx["tcp"] = <<>>
    <3>1. PICK x : x = Phantom(FEND)
      OBVIOUS
    <3>2. OnWire(x, hosts) /\ Came(x) /\ Parse(x) /\ wifi_remote_close_all
      BY <1>2, <1>4, <1>7, <2>3, <3>1 DEF wifi_remote_read
    <3>3. StreamsKept
      BY <3>2, CloseStream
    <3>4. \A t \in RxTransports : rx'[t] = rx[t] \/ rx'[t] = <<>>
      BY <1>1, <3>2 DEF wifi_remote_close_all
    <3> QED BY <2>1, <3>2, <3>3, <3>4, ReadTracks DEF ring
  <2> QED BY <2>2, <2>3
<1>8. CASE ws_remote_read
  <2>1. PICK x : x = ws_rx_buf[ws_rx_tail]
    OBVIOUS
  <2>2. OnWire(x, hosts) /\ Came(x) /\ Parse(x)
    BY <1>1, <1>8, <2>1 DEF ws_remote_read, ParseInv, WireBytes, LinkShape, KnownBytes, Slots
  <2>3. UNCHANGED <<hosts, rx, ws_rx_buf>>
    BY <1>8 DEF ws_remote_read
  <2> QED BY <1>5, <2>2, <2>3, ReadTracks
<1> QED BY <1>6, <1>7, <1>8 DEF Read, RxTransports

(* Every step. *)
LEMMA ParseInvStep == LinkShape /\ ParseInv /\ [Next]_vars => ParseInv'
<1> SUFFICES ASSUME LinkShape, ParseInv, [Next]_vars PROVE ParseInv'
  OBVIOUS
<1>1. ASSUME NEW s \in Streams,
             UsbComes(s) \/ bt_connect_callback(s) \/ TcpConnects(s) \/ WsConnected(s)
      PROVE  ParseInv'
  BY <1>1, ComesParse
<1>2. ASSUME NEW h \in DOMAIN hosts, Arrives(h) \/ ws_rx_push(h) PROVE ParseInv'
  BY <1>2, WritesParse
<1>3. ASSUME NEW h \in DOMAIN hosts, Leaves(h) PROVE ParseInv'
  BY <1>3, LeavesParse
<1>4. CASE Poll
  BY <1>4, PollParse
<1>5. CASE Read
  BY <1>5, ReadParse
<1>6. CASE UNCHANGED vars
  <2>1. UNCHANGED <<hosts, rx, ws_rx_buf, kiss, clean>>
    BY <1>6 DEF vars, ring
  <2>2. StreamsKept
    BY <2>1 DEF StreamsKept
  <2> QED BY <2>1, <2>2, ParseIdle
<1> QED BY <1>1, <1>2, <1>3, <1>4, <1>5, <1>6 DEF Next

(* What is carried out at the end of a frame, as FramesCarriedOut puts it. *)
LEMMA CompletedIs ==
  ASSUME NEW st \in Seq(Calls), NEW m \in 1..Len(st), NEW done, NEW left,
         Completed(done, left, st, m)
  PROVE  LET sent == SubSeq(st, 1, m)
         IN  \/ done = sent
             \/ left /\ done = Tail(sent)
             \/ left /\ done # <<>> /\ Tail(done) = Tail(sent)
<1> DEFINE sent == SubSeq(st, 1, m)
<1>1. Len(st) \in Nat /\ m \in Nat /\ m >= 1 /\ m <= Len(st)
  OBVIOUS
<1>2. Tail(sent) = SubSeq(st, 2, m) /\ SubSeq(st, 2, m) \in Seq(Calls)
  BY <1>1
<1> HIDE DEF sent
<1>3. CASE done = sent
  BY <1>3 DEF sent
<1>4. CASE left /\ \E lead : Short(lead) /\ done = lead \o SubSeq(st, 2, m)
  <2>1. PICK lead : Short(lead) /\ done = lead \o SubSeq(st, 2, m)
    BY <1>4
  <2>2. PICK q \in Seq(Calls) : q = SubSeq(st, 2, m)
    BY <1>2
  <2>3. CASE lead = <<>>
    <3>1. done = q
      BY <2>1, <2>2, <2>3, ConcatEmptySeq
    <3>2. done = Tail(sent)
      BY <1>2, <2>2, <3>1
    <3> QED BY <1>4, <3>2, Zenon DEF sent
  <2>4. CASE \E c \in Calls : lead = <<c>>
    <3>1. PICK c \in Calls : lead = <<c>>
      BY <2>4
    <3>2. <<c>> \o q # <<>> /\ Tail(<<c>> \o q) = q
      OBVIOUS
    <3>3. done # <<>> /\ Tail(done) = Tail(sent)
      BY <1>2, <2>1, <2>2, <3>1, <3>2
    <3> QED BY <1>4, <3>3, Zenon DEF sent
  <2> QED BY <2>1, <2>3, <2>4 DEF Short
<1>5. (done = sent) \/ (left /\ \E lead : Short(lead) /\ done = lead \o SubSeq(st, 2, m))
  BY Zenon DEF Completed, sent
<1> QED BY <1>3, <1>4, <1>5

(* For any streams of proper frames, any sizes of the buffers and of cmdbuf, *)
(* and whatever the hosts before left in the parser: when the bytes of a     *)
(* host are parsed in a row and no escape was pending, serial_callback()     *)
(* carries out each of its frames once, in order, with the payload it had    *)
(* before escaping; if one broke off in a frame that a FEND closes, all but  *)
(* the first, after at most one command that the host did not send.          *)
THEOREM FramesAlwaysCarriedOut == Spec => []FramesCarriedOut
<1>1. Init => LinkShape /\ ParseInv
  BY ShapeInit, ParseInit
<1>2. LinkShape /\ ParseInv /\ [Next]_vars => (LinkShape /\ ParseInv)'
  BY ShapeStep, ParseInvStep
<1>3. LinkShape /\ ParseInv => FramesCarriedOut
  <2> SUFFICES ASSUME LinkShape, ParseInv, clean.host # 0, ~clean.escape,
                      NEW m \in FramesParsed(clean.host, clean.bytes) \ {0}
               PROVE  LET sent == SubSeq(hosts[clean.host].stream, 1, m)
                      IN  \/ clean.carried = sent
                          \/ clean.left /\ clean.carried = Tail(sent)
                          \/ clean.left /\ clean.carried # <<>> /\ Tail(clean.carried) = Tail(sent)
    BY Zenon DEF FramesCarriedOut
  <2>1. PICK st : st = hosts[clean.host].stream
    OBVIOUS
  <2>2. clean.host \in DOMAIN hosts
    BY DEF LinkShape, KnownBytes, Came, ExclusiveInv
  <2>3. StreamOK(st) /\ st \in Seq(Calls) /\ Len(st) \in Nat
    BY <2>1, <2>2, HostStreams DEF StreamOK
  <2>4. m \in 1..Len(st) /\ clean.bytes = Len(FlattenSeq([i \in 1..m |-> Written(st[i])]))
    BY <2>1, <2>3 DEF FramesParsed
  <2>5. [i \in 1..m |-> Written(st[i])] = First(Ws(st), m)
    <3>1. \A i \in 1..m : i \in 1..Len(st)
      BY <2>3, <2>4
    <3> QED BY <3>1 DEF First, Ws
  <2>6. clean.bytes = End(Ws(st), m)
    BY <2>4, <2>5 DEF End
  <2>7. Tracks(clean.bytes, clean.carried, clean.left, kiss, st) /\ ParserOK(kiss)
    BY <2>1 DEF ParseInv, CleanTracked
  <2>8. Completed(clean.carried, clean.left, st, m)
    BY <2>3, <2>4, <2>6, <2>7, TracksEnd
  <2> QED BY <2>1, <2>3, <2>4, <2>8, CompletedIs
<1> QED BY <1>1, <1>2, <1>3, PTL DEF Spec
=============================================================================
