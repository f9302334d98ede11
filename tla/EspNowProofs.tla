----------------------------- MODULE EspNowProofs -----------------------------
(***************************************************************************)
(* Proofs about the ESP-NOW transport, for any number of nodes, any        *)
(* packets and any queue sizes: espnow_tx_busy paces the WiFi driver, a    *)
(* lost or foreign chunk damages packets of its sequence number only, a    *)
(* packet heard undisturbed is delivered, and no consumer is given one     *)
(* twice.                                                                  *)
(*                                                                         *)
(* Pacing is not inductive: it says nothing of a sender whose slot is free *)
(* but whose driver still holds a chunk, from which TakeChunk would hand   *)
(* over a second one.  Paced adds that the slot is taken exactly while     *)
(* something is on its way, whatever update_espnow_tx() is doing.          *)
(*                                                                         *)
(* What the receiver delivers depends on what the senders still hold, so   *)
(* the invariant for it follows every frame from espnow_send() on: OnTheWay*)
(* says that a sender's queue, the chunk it took and the driver together   *)
(* hold pieces of its packets, in order and without gaps except in damaged *)
(* packets; Collecting that the reassembly buffer ends where the frames on *)
(* their way go on; Outcome what that makes of the deliveries; Deliveries  *)
(* that each of them was ended by a packet of its own.                     *)
(***************************************************************************)
EXTENDS EspNow, SequenceTheorems, TLAPS

Arrays ==
    /\ DOMAIN driver = Senders /\ DOMAIN sending = Senders
    /\ callbacks \in [Senders -> Nat]
    /\ espnow_tx_busy \in [Senders -> BOOLEAN]

NoneOut(s) == driver[s] = <<>> /\ callbacks[s] = 0
InDriver(s) == (\E f : driver[s] = <<f>>) /\ callbacks[s] = 0
Unreported(s) == driver[s] = <<>> /\ callbacks[s] = 1

Paced(s) ==
    \/ sending[s] \in {"took", "failed"} /\ espnow_tx_busy[s] /\ NoneOut(s)
    \/ sending[s] \in {"out", "ok"} /\ espnow_tx_busy[s] /\ (InDriver(s) \/ Unreported(s))
    \/ sending[s] \in {"out", "ok"} /\ ~espnow_tx_busy[s] /\ NoneOut(s)

PacedInv == Arrays /\ \A s \in Senders : Paced(s)

-----------------------------------------------------------------------------
(* The sequences of PacedInv have at most one element. *)
LEMMA ShortSeq ==
  ASSUME NEW f
  PROVE  /\ Len(<<>>) = 0 /\ Len(<<f>>) = 1
         /\ Append(<<>>, f) = <<f>> /\ Tail(<<f>>) = <<>> /\ <<f>> # <<>>
  OBVIOUS

(* PacedInv says what Pacing does. *)
LEMMA PacedImplies == PacedInv => Pacing
<1> SUFFICES ASSUME PacedInv, NEW s \in Senders
             PROVE  /\ Len(driver[s]) + callbacks[s] <= 1
                    /\ espnow_tx_busy[s] =>
                          \/ sending[s] \in {"took", "failed"}
                          \/ Len(driver[s]) + callbacks[s] = 1
  BY DEF Pacing
<1> Paced(s) BY DEF PacedInv
<1>1. CASE NoneOut(s)
  BY <1>1 DEF NoneOut, InDriver, Unreported, Paced
<1>2. CASE InDriver(s)
  BY <1>2, ShortSeq DEF InDriver, Paced
<1>3. CASE Unreported(s)
  BY <1>3 DEF Unreported, Paced
<1> QED BY <1>1, <1>2, <1>3 DEF Paced

(* At boot no chunk is out. *)
LEMMA PacedInit == Init => PacedInv
BY DEF Init, PacedInv, Arrays, Paced, NoneOut

(* A step on one sender's slot that leaves the others alone. *)
LEMMA OthersPaced ==
  ASSUME PacedInv, NEW s \in Senders, Arrays', Paced(s)',
         \A t \in Senders \ {s} :
            /\ driver'[t] = driver[t] /\ callbacks'[t] = callbacks[t]
            /\ espnow_tx_busy'[t] = espnow_tx_busy[t] /\ sending'[t] = sending[t]
  PROVE  PacedInv'
<1> SUFFICES ASSUME NEW t \in Senders \ {s} PROVE Paced(t)'
  BY DEF PacedInv
<1> Paced(t) BY DEF PacedInv
<1> QED BY DEF Paced, NoneOut, InDriver, Unreported

(* update_espnow_tx() takes a chunk only while none is out. *)
LEMMA TakePaced == ASSUME PacedInv, NEW s \in Senders, TakeChunk(s) PROVE PacedInv'
<1>1. Arrays'
  BY DEF TakeChunk, BusyOnTake, PacedInv, Arrays
<1>2. Paced(s)'
  BY DEF TakeChunk, BusyOnTake, PacedInv, Arrays, Paced, NoneOut
<1>3. \A t \in Senders \ {s} :
         /\ driver'[t] = driver[t] /\ callbacks'[t] = callbacks[t]
         /\ espnow_tx_busy'[t] = espnow_tx_busy[t] /\ sending'[t] = sending[t]
  BY DEF TakeChunk, PacedInv, Arrays
<1> QED BY <1>1, <1>2, <1>3, OthersPaced

(* The driver takes the chunk or refuses it. *)
LEMMA CallPaced == ASSUME PacedInv, NEW s \in Senders, esp_now_send(s) PROVE PacedInv'
<1> Paced(s) BY DEF PacedInv
<1>1. Arrays'
  BY DEF esp_now_send, PacedInv, Arrays
<1>2. Paced(s)'
  <2>1. sending[s] = "took" /\ espnow_tx_busy[s] /\ NoneOut(s)
    BY DEF esp_now_send, Paced
  <2>2. CASE driver' = [driver EXCEPT ![s] = Append(@, chunk[s])]
             /\ sending' = [sending EXCEPT ![s] = "ok"]
    <3>1. driver'[s] = <<chunk[s]>>
      BY <2>1, <2>2, ShortSeq DEF NoneOut, PacedInv, Arrays
    <3> QED BY <2>1, <2>2, <3>1
            DEF esp_now_send, PacedInv, Arrays, Paced, NoneOut, InDriver
  <2>3. CASE sending' = [sending EXCEPT ![s] = "failed"] /\ UNCHANGED driver
    BY <2>1, <2>3 DEF esp_now_send, PacedInv, Arrays, Paced, NoneOut
  <2> QED BY <2>2, <2>3 DEF esp_now_send
<1>3. \A t \in Senders \ {s} :
         /\ driver'[t] = driver[t] /\ callbacks'[t] = callbacks[t]
         /\ espnow_tx_busy'[t] = espnow_tx_busy[t] /\ sending'[t] = sending[t]
  BY DEF esp_now_send, PacedInv, Arrays
<1> QED BY <1>1, <1>2, <1>3, OthersPaced

(* The return of esp_now_send(), before or after the callback. *)
LEMMA ReturnPaced == ASSUME PacedInv, NEW s \in Senders, Return(s) PROVE PacedInv'
<1> Paced(s) BY DEF PacedInv
<1>1. Arrays'
  BY DEF Return, BusyOnReturn, PacedInv, Arrays
<1>2. Paced(s)'
  BY DEF Return, BusyOnReturn, PacedInv, Arrays, Paced, NoneOut, InDriver, Unreported
<1>3. \A t \in Senders \ {s} :
         /\ driver'[t] = driver[t] /\ callbacks'[t] = callbacks[t]
         /\ espnow_tx_busy'[t] = espnow_tx_busy[t] /\ sending'[t] = sending[t]
  BY DEF Return, PacedInv, Arrays
<1> QED BY <1>1, <1>2, <1>3, OthersPaced

(* espnow_send_cb() frees the slot of the only chunk. *)
LEMMA CallbackPaced == ASSUME PacedInv, NEW s \in Senders, espnow_send_cb(s) PROVE PacedInv'
<1> Paced(s) BY DEF PacedInv
<1>1. Arrays'
  BY DEF espnow_send_cb, PacedInv, Arrays
<1>2. Paced(s)'
  BY DEF espnow_send_cb, PacedInv, Arrays, Paced, NoneOut, InDriver, Unreported
<1>3. \A t \in Senders \ {s} :
         /\ driver'[t] = driver[t] /\ callbacks'[t] = callbacks[t]
         /\ espnow_tx_busy'[t] = espnow_tx_busy[t] /\ sending'[t] = sending[t]
  BY DEF espnow_send_cb, PacedInv, Arrays
<1> QED BY <1>1, <1>2, <1>3, OthersPaced

(* Heard or not, the frame turns into a callback that is still to come. *)
LEMMA OnAirPaced == ASSUME PacedInv, NEW s \in Senders, OnAir(s) PROVE PacedInv'
<1> Paced(s) BY DEF PacedInv
<1>1. /\ driver[s] # <<>>
      /\ driver' = [driver EXCEPT ![s] = Tail(@)]
      /\ callbacks' = [callbacks EXCEPT ![s] = @ + 1]
      /\ UNCHANGED <<espnow_tx_busy, sending>>
  BY DEF OnAir, Heard, Unheard
<1>2. Arrays'
  BY <1>1 DEF PacedInv, Arrays
<1>3. Paced(s)'
  <2>1. /\ sending[s] \in {"out", "ok"} /\ espnow_tx_busy[s] /\ InDriver(s)
    BY <1>1 DEF Paced, NoneOut, Unreported
  <2>2. driver'[s] = <<>>
    BY <1>1, <2>1, ShortSeq DEF InDriver, PacedInv, Arrays
  <2> QED BY <1>1, <2>1, <2>2 DEF PacedInv, Arrays, Paced, InDriver, Unreported
<1>4. \A t \in Senders \ {s} :
         /\ driver'[t] = driver[t] /\ callbacks'[t] = callbacks[t]
         /\ espnow_tx_busy'[t] = espnow_tx_busy[t] /\ sending'[t] = sending[t]
  BY <1>1 DEF PacedInv, Arrays
<1> QED BY <1>2, <1>3, <1>4, OthersPaced

(* A step that touches neither the slot nor the driver. *)
LEMMA IdlePaced ==
  ASSUME PacedInv, UNCHANGED <<driver, callbacks, espnow_tx_busy, sending>>
  PROVE  PacedInv'
BY DEF PacedInv, Arrays, Paced, NoneOut, InDriver, Unreported

(* Every step keeps the slot paced. *)
LEMMA PacedStep == PacedInv /\ [Next]_vars => PacedInv'
<1> SUFFICES ASSUME PacedInv, [Next]_vars PROVE PacedInv'
  OBVIOUS
<1>1. CASE \E s \in Senders, size \in Sizes,
              seq \in IF config.v2 THEN {SEQ_UNSET} ELSE Seqs : espnow_send(s, size, seq)
  BY <1>1, IdlePaced DEF espnow_send
<1>2. ASSUME NEW s \in Senders, TakeChunk(s) PROVE PacedInv'
  BY <1>2, TakePaced
<1>3. ASSUME NEW s \in Senders, esp_now_send(s) PROVE PacedInv'
  BY <1>3, CallPaced
<1>4. ASSUME NEW s \in Senders, Return(s) PROVE PacedInv'
  BY <1>4, ReturnPaced
<1>5. ASSUME NEW s \in Senders, Heard(s) \/ Unheard(s) PROVE PacedInv'
  BY <1>5, OnAirPaced DEF OnAir
<1>6. ASSUME NEW s \in Senders, espnow_send_cb(s) PROVE PacedInv'
  BY <1>6, CallbackPaced
<1>7. CASE update_espnow \/ HandleStaged \/ FreeStaged
  BY <1>7, IdlePaced DEF update_espnow, HandleStaged, FreeStaged, transmitter
<1>8. CASE UNCHANGED vars
  BY <1>8, IdlePaced DEF vars, transmitter
<1> QED BY <1>1, <1>2, <1>3, <1>4, <1>5, <1>6, <1>7, <1>8 DEF Next

(* For any number of nodes and any traffic: the driver never holds a second *)
(* chunk of espnow_tx_queue, and a taken slot is always freed by something  *)
(* that is still to come, a refusal or espnow_send_cb().                     *)
THEOREM AlwaysPaced == Spec => []Pacing
<1> QED BY PacedInit, PacedStep, PacedImplies, PTL DEF Spec

-----------------------------------------------------------------------------
(***************************************************************************)
(* What a sender's chunks look like on their way, and what the receiver    *)
(* makes of them.                                                          *)
(***************************************************************************)

(* The bytes of packet p after the first a, up to and including b. *)
Piece(p, a, b) == [i \in 1..(b - a) |-> <<p, a + i>>]

(* A frame's packet, and the bytes of it before and up to the frame's end. *)
Pkt(f) == f.data[1][1]
From(f) == f.data[1][2] - 1
Upto(f) == f.data[1][2] - 1 + Len(f.data)

(* A sender's frames that are neither sent nor lost, oldest first. *)
Held(s) == IF sending[s] = "took" THEN <<chunk[s]>> ELSE <<>>
Transit(s) == driver[s] \o Held(s) \o espnow_tx_queue[s]

(* A frame is a piece of one packet. *)
IsPiece(f, p, size, seq) ==
    /\ Pkt(f) = p /\ From(f) \in Nat /\ Upto(f) \in Nat
    /\ From(f) < Upto(f) /\ Upto(f) <= size
    /\ f.data = Piece(p, From(f), Upto(f))
    /\ (f.more <=> Upto(f) < size) /\ f.seq = seq
    /\ config.v2 => From(f) = 0 /\ ~f.more

(* It belongs to its sender, and its packet's end has not been heard. *)
Pieces(s, q) ==
    \A i \in DOMAIN q :
        LET p == Pkt(q[i])
        IN  /\ p \in DOMAIN packets /\ packets[p].sender = s /\ p \notin closed
            /\ IsPiece(q[i], p, packets[p].size, packets[p].seq)

(* Frame g comes after f, and right after f. *)
Later(f, g) == Pkt(f) < Pkt(g) \/ (Pkt(f) = Pkt(g) /\ Upto(f) <= From(g))
Follows(f, g) == Pkt(f) = Pkt(g) /\ Upto(f) = From(g)

InOrder(q) == \A i, j \in DOMAIN q : i < j => Later(q[i], q[j])

(* The frames of an undamaged packet are there to its end, and those that   *)
(* are missing from its beginning were heard.                                 *)
ToTheEnd(q) ==
    \A i \in DOMAIN q : Pkt(q[i]) \notin damaged /\ q[i].more =>
        i + 1 \in DOMAIN q /\ Follows(q[i], q[i + 1])
FromTheStart(q) ==
    \A i \in DOMAIN q : Pkt(q[i]) \notin damaged /\ From(q[i]) > 0 =>
        IF i = 1 THEN Pkt(q[i]) \in open ELSE Pkt(q[i - 1]) = Pkt(q[i])

Sound(s, q) == Pieces(s, q) /\ InOrder(q) /\ ToTheEnd(q) /\ FromTheStart(q)

OnTheWay == \A s \in Senders : Sound(s, Transit(s))

-----------------------------------------------------------------------------
(* Arithmetic of the chunks *)

(* A product of naturals is one. *)
LEMMA TimesNat == ASSUME NEW a \in Nat, NEW b \in Nat PROVE a * b \in Nat
OBVIOUS

(* Multiples are ordered as their factors. *)
LEMMA TimesMono ==
  ASSUME NEW i \in Nat, NEW j \in Nat, NEW w \in Nat, i <= j
  PROVE  i * w <= j * w
<1>1. PICK d \in Nat : j = i + d
  BY j - i \in Nat
<1>2. j * w = i * w + d * w
  BY <1>1
<1>3. d * w \in Nat /\ i * w \in Nat
  BY TimesNat
<1> QED BY <1>2, <1>3

(* Division with its remainder. *)
LEMMA Quotient ==
  ASSUME NEW n \in Nat, NEW w \in Nat \ {0}
  PROVE  n \div w \in Nat /\ (n \div w) * w <= n /\ n < (n \div w) * w + w
OBVIOUS

(* The number of chunks: the last one is not empty, and holds the rest. *)
LEMMA ChunkCount ==
  ASSUME NEW size \in Nat \ {0}, NEW w \in Nat \ {0}, NEW c, c = (size + w - 1) \div w
  PROVE  c \in Nat /\ c >= 1 /\ (c - 1) * w < size /\ size <= c * w
<1> DEFINE n == size + w - 1
<1>1. n \in Nat /\ c = n \div w
  OBVIOUS
<1>2. c \in Nat /\ c * w <= n /\ n < c * w + w
  BY <1>1, Quotient
<1>3. c * w \in Nat
  BY <1>2, TimesNat
<1>4. (c - 1) * w = c * w - w
  BY <1>2
<1>5. c # 0
  BY <1>2
<1> QED BY <1>2, <1>3, <1>4, <1>5

(* Two sequences one after the other. *)
LEMMA ConcatAt ==
  ASSUME NEW S, NEW x \in Seq(S), NEW y \in Seq(S)
  PROVE  /\ x \o y \in Seq(S) /\ Len(x \o y) = Len(x) + Len(y)
         /\ \A i \in 1..Len(x) : (x \o y)[i] = x[i]
         /\ \A i \in 1..Len(y) : (x \o y)[Len(x) + i] = y[i]
OBVIOUS

(* A piece of a packet. *)
LEMMA PieceFacts ==
  ASSUME NEW p \in Nat, NEW a \in Nat, NEW b \in Nat, a <= b
  PROVE  /\ Piece(p, a, b) \in Payloads /\ Len(Piece(p, a, b)) = b - a
         /\ \A i \in 1..(b - a) : Piece(p, a, b)[i] = <<p, a + i>>
BY DEF Piece, Payloads

(* Two pieces that meet. *)
LEMMA PiecesJoin ==
  ASSUME NEW p \in Nat, NEW a \in Nat, NEW b \in Nat, NEW c \in Nat, a <= b, b <= c
  PROVE  Piece(p, a, b) \o Piece(p, b, c) = Piece(p, a, c)
<1> DEFINE x == Piece(p, a, b)
           y == Piece(p, b, c)
           z == Piece(p, a, c)
<1>1. x \in Payloads /\ Len(x) = b - a /\ \A i \in 1..(b - a) : x[i] = <<p, a + i>>
  BY PieceFacts
<1>2. y \in Payloads /\ Len(y) = c - b /\ \A i \in 1..(c - b) : y[i] = <<p, b + i>>
  BY PieceFacts
<1>3. z \in Payloads /\ Len(z) = c - a /\ \A i \in 1..(c - a) : z[i] = <<p, a + i>>
  <2>1. a <= c
    OBVIOUS
  <2> QED BY <2>1, PieceFacts
<1> HIDE DEF x, y, z
<1>4. /\ x \o y \in Payloads /\ Len(x \o y) = c - a
      /\ \A i \in 1..(b - a) : (x \o y)[i] = x[i]
      /\ \A i \in 1..(c - b) : (x \o y)[(b - a) + i] = y[i]
  <2>1. /\ x \o y \in Payloads /\ Len(x \o y) = Len(x) + Len(y)
        /\ \A i \in 1..Len(x) : (x \o y)[i] = x[i]
        /\ \A i \in 1..Len(y) : (x \o y)[Len(x) + i] = y[i]
    <3>1. x \in Seq(Nat \X Nat) /\ y \in Seq(Nat \X Nat)
      BY <1>1, <1>2 DEF Payloads
    <3>2. /\ x \o y \in Seq(Nat \X Nat) /\ Len(x \o y) = Len(x) + Len(y)
          /\ \A i \in 1..Len(x) : (x \o y)[i] = x[i]
          /\ \A i \in 1..Len(y) : (x \o y)[Len(x) + i] = y[i]
      BY <3>1, ConcatAt
    <3> QED BY <3>2 DEF Payloads
  <2>2. Len(x) = b - a /\ Len(y) = c - b /\ (b - a) + (c - b) = c - a
    BY <1>1, <1>2
  <2>3. Len(x \o y) = c - a
    BY <2>1, <2>2
  <2> QED BY <2>1, <2>2, <2>3
<1>5. ASSUME NEW i \in 1..(c - a) PROVE (x \o y)[i] = z[i]
  <2>1. i \in 1..(b - a) \/ i - (b - a) \in 1..(c - b)
    OBVIOUS
  <2>2. CASE i \in 1..(b - a)
    BY <1>1, <1>3, <1>4, <2>2
  <2>3. CASE i - (b - a) \in 1..(c - b)
    <3>1. PICK j \in 1..(c - b) : i = (b - a) + j /\ a + i = b + j
      BY <2>3
    <3>2. (x \o y)[i] = y[j]
      BY <1>4, <3>1
    <3> QED BY <1>2, <1>3, <3>1, <3>2
  <2> QED BY <2>1, <2>2, <2>3
<1>6. x \o y = z
  <2>1. \A i \in 1..Len(x \o y) : (x \o y)[i] = z[i]
    BY <1>4, <1>5
  <2> QED BY <1>3, <1>4, <2>1, SeqEqual DEF Payloads
<1> QED BY <1>6 DEF x, y, z

(* A frame that is such a piece begins and ends where the piece does. *)
LEMMA PieceEnds ==
  ASSUME NEW f, NEW p \in Nat, NEW a \in Nat, NEW b \in Nat, a < b, f.data = Piece(p, a, b)
  PROVE  Pkt(f) = p /\ From(f) = a /\ Upto(f) = b
<1>1. Len(f.data) = b - a /\ \A i \in 1..(b - a) : f.data[i] = <<p, a + i>>
  <2>1. a <= b
    OBVIOUS
  <2>2. /\ Len(Piece(p, a, b)) = b - a
        /\ \A i \in 1..(b - a) : Piece(p, a, b)[i] = <<p, a + i>>
    BY <2>1, PieceFacts
  <2> QED BY <2>2
<1>2. f.data[1] = <<p, a + 1>>
  BY <1>1
<1> QED BY <1>1, <1>2 DEF Pkt, From, Upto

(* A packet cut into pieces that meet, from its first byte to its last. *)
IsCut(fr, p, size, seq) ==
    /\ fr \in Seq(Frame) /\ Len(fr) >= 1 /\ From(fr[1]) = 0
    /\ \A k \in 1..Len(fr) : IsPiece(fr[k], p, size, seq)
    /\ \A k \in 1..Len(fr) : fr[k].more <=> k < Len(fr)
    /\ \A j, k \in 1..Len(fr) : j < k => Upto(fr[j]) <= From(fr[k])
    /\ \A k \in 1..Len(fr) : k + 1 \in 1..Len(fr) => Upto(fr[k]) = From(fr[k + 1])

(* That is what espnow_send() does. *)
LEMMA FramesFacts ==
  ASSUME NEW p \in Nat, NEW size \in Sizes, NEW seq \in Nat, config \in Configs
  PROVE  IsCut(Frames(p, size, seq), p, size, seq)
<1> DEFINE w == IF config.v2 THEN MTU ELSE ChunkSize
           c == (size + w - 1) \div w
           a(k) == (k - 1) * w
           b(k) == IF k < c THEN k * w ELSE size
           fr == Frames(p, size, seq)
<1>1. size \in Nat \ {0} /\ size <= MTU /\ w \in Nat \ {0} /\ (config.v2 => w = MTU)
  BY EspNowAssumption
<1>2. c \in Nat /\ c >= 1 /\ (c - 1) * w < size /\ size <= c * w
  <2> HIDE DEF w
  <2> QED BY <1>1, ChunkCount
<1>3. fr = [k \in 1..c |->
             [seq |-> seq, more |-> k < c,
              data |-> [i \in 1 .. (IF k < c THEN w ELSE size - (k - 1) * w)
                          |-> <<p, (k - 1) * w + i>>]]]
  BY DEF Frames
<1> HIDE DEF w, c, fr
<1>4. ASSUME NEW k \in 1..c
      PROVE  /\ a(k) \in Nat /\ b(k) \in Nat /\ a(k) < b(k) /\ b(k) <= size
             /\ b(k) - a(k) = IF k < c THEN w ELSE size - (k - 1) * w
             /\ k < c <=> b(k) < size
             /\ k < c => b(k) = k * w
  <2>1. (k - 1) * w \in Nat /\ k * w = (k - 1) * w + w /\ k * w \in Nat
    BY <1>1, <1>2, TimesNat
  <2>2. (k - 1) * w <= (c - 1) * w
    BY <1>1, <1>2, TimesMono
  <2>3. k < c => k * w <= (c - 1) * w
    BY <1>1, <1>2, TimesMono
  <2>4. (c - 1) * w \in Nat
    BY <1>1, <1>2, TimesNat
  <2>5. CASE k < c
    BY <1>1, <1>2, <2>1, <2>3, <2>4, <2>5
  <2>6. CASE ~(k < c)
    BY <1>1, <1>2, <2>1, <2>2, <2>4, <2>6
  <2> QED BY <2>5, <2>6
<1>5. ASSUME NEW k \in 1..c
      PROVE  /\ fr[k].seq = seq /\ fr[k].more \in BOOLEAN /\ (fr[k].more <=> k < c)
             /\ fr[k].data = Piece(p, a(k), b(k))
             /\ fr[k] = [seq |-> fr[k].seq, more |-> fr[k].more, data |-> fr[k].data]
  <2>1. b(k) - a(k) = IF k < c THEN w ELSE size - (k - 1) * w
    BY <1>4
  <2>2. fr[k] = [seq |-> seq, more |-> k < c,
                 data |-> [i \in 1 .. (IF k < c THEN w ELSE size - (k - 1) * w)
                             |-> <<p, (k - 1) * w + i>>]]
    BY <1>3
  <2>3. fr[k].data = [i \in 1 .. (b(k) - a(k)) |-> <<p, a(k) + i>>]
    BY <2>1, <2>2
  <2>4. fr[k].data = Piece(p, a(k), b(k))
    BY <2>3 DEF Piece
  <2>5. \E d : \E m \in BOOLEAN : fr[k] = [seq |-> seq, more |-> m, data |-> d] /\ (m <=> k < c)
    <3>1. CASE k < c
      <4>1. (k < c) = TRUE
        BY <3>1
      <4> QED BY <2>2, <4>1, <3>1
    <3>2. CASE ~(k < c)
      <4>1. (k < c) = FALSE
        BY <3>2
      <4> QED BY <2>2, <4>1, <3>2
    <3> QED BY <3>1, <3>2
  <2> QED BY <2>4, <2>5
<1> HIDE DEF a, b
<1>6. ASSUME NEW k \in 1..c
      PROVE  /\ Pkt(fr[k]) = p /\ From(fr[k]) = a(k) /\ Upto(fr[k]) = b(k)
             /\ fr[k].data \in Payloads
  <2>1. /\ a(k) \in Nat /\ b(k) \in Nat /\ a(k) < b(k)
    BY <1>4
  <2>2. fr[k].data = Piece(p, a(k), b(k))
    BY <1>5
  <2>3. Piece(p, a(k), b(k)) \in Payloads
    <3> DEFINE x == a(k)
               y == b(k)
    <3>1. x \in Nat /\ y \in Nat /\ x <= y
      BY <2>1
    <3> HIDE DEF x, y
    <3> QED BY <3>1, PieceFacts DEF x, y
  <2>4. Pkt(fr[k]) = p /\ From(fr[k]) = a(k) /\ Upto(fr[k]) = b(k)
    BY <2>1, <2>2, PieceEnds
  <2> QED BY <2>2, <2>3, <2>4
<1>7. fr \in Seq(Frame) /\ Len(fr) = c
  <2>1. ASSUME NEW k \in 1..c PROVE fr[k] \in Frame
    <3>1. /\ fr[k] = [seq |-> fr[k].seq, more |-> fr[k].more, data |-> fr[k].data]
          /\ fr[k].data \in Payloads /\ fr[k].seq \in Nat /\ fr[k].more \in BOOLEAN
      BY <1>5, <1>6
    <3> QED BY <3>1 DEF Frame
  <2>2. DOMAIN fr = 1..c /\ fr = [k \in 1..c |-> fr[k]]
    BY <1>3
  <2> QED BY <1>2, <2>1, <2>2
<1>8. config.v2 => c = 1
  <2>1. SUFFICES ASSUME config.v2, c > 1 PROVE FALSE
    BY <1>2
  <2>2. 1 * w <= (c - 1) * w
    BY <1>1, <1>2, <2>1, TimesMono
  <2> QED BY <1>1, <1>2, <2>1, <2>2
<1>9. \A k \in 1..c : IsPiece(fr[k], p, size, seq)
  <2> SUFFICES ASSUME NEW k \in 1..c PROVE IsPiece(fr[k], p, size, seq)
    OBVIOUS
  <2>1. /\ fr[k].seq = seq /\ (fr[k].more <=> k < c) /\ fr[k].data = Piece(p, a(k), b(k))
        /\ a(k) \in Nat /\ b(k) \in Nat /\ a(k) < b(k) /\ b(k) <= size
        /\ (k < c <=> b(k) < size)
    BY <1>4, <1>5
  <2>2. config.v2 => a(k) = 0 /\ ~(k < c)
    BY <1>1, <1>2, <1>8 DEF a
  <2>3. fr[k].more <=> b(k) < size
    BY <2>1
  <2> QED BY <1>6, <2>1, <2>2, <2>3 DEF IsPiece
<1>10. ASSUME NEW j \in 1..c, NEW k \in 1..c, j < k PROVE b(j) <= a(k)
  <2>1. b(j) = j * w
    BY <1>2, <1>4, <1>10
  <2>2. j * w <= (k - 1) * w
    BY <1>1, <1>10, TimesMono
  <2> QED BY <2>1, <2>2 DEF a
<1>11. ASSUME NEW k \in 1..c, k + 1 \in 1..c PROVE b(k) = a(k + 1)
  <2>1. b(k) = k * w
    BY <1>2, <1>4, <1>11
  <2> QED BY <2>1 DEF a
<1>12. a(1) = 0
  BY <1>1 DEF a
<1>13. \A k \in 1..c : fr[k].more <=> k < c
  BY <1>5
<1> QED BY <1>2, <1>6, <1>7, <1>9, <1>10, <1>11, <1>12, <1>13 DEF fr, IsCut

-----------------------------------------------------------------------------
(* The types that the rest relies on *)

PacketRecord == [sender : Senders, size : Sizes, seq : Nat]

Kinds ==
    /\ packets \in Seq(PacketRecord) /\ config \in Configs
    /\ espnow_tx_queue \in [Senders -> Seq(Frame)] /\ driver \in [Senders -> Seq(Frame)]
    /\ \A s \in Senders : Len(espnow_tx_queue[s]) <= TxQueueSize
    /\ chunk \in [Senders -> Frame]
    /\ espnow_rx_seq \in Nat /\ espnow_rx_buf \in Payloads
    /\ espnow_packet_queue \in Seq(Payloads) /\ host \in Seq(Payloads) /\ node \in Seq(Payloads)
    /\ staging \in Payloads /\ delivered \subseteq Payloads
    /\ urns_rx_pending_espnow \in BOOLEAN /\ handling \in BOOLEAN

(* What espnow_send() puts in its queue: all that was there, and as many of *)
(* the new frames as there is room for.                                       *)
LEMMA EnqueuedFacts ==
  ASSUME Kinds, NEW s \in Senders, NEW fr \in Seq(Frame)
  PROVE  LET q == espnow_tx_queue[s]
             e == Enqueued(s, fr)
         IN  /\ e \in Seq(Frame) /\ Len(q) <= Len(e) /\ Len(e) <= Len(q) + Len(fr)
             /\ Len(e) <= TxQueueSize
             /\ Len(e) = Len(q) + Len(fr) \/ Len(q) + Len(fr) > TxQueueSize
             /\ \A i \in 1..Len(q) : e[i] = q[i]
             /\ \A i \in 1..(Len(e) - Len(q)) : i \in 1..Len(fr) /\ e[Len(q) + i] = fr[i]
<1> DEFINE q == espnow_tx_queue[s]
           all == q \o fr
           n == IF Len(all) > TxQueueSize THEN TxQueueSize ELSE Len(all)
           e == Enqueued(s, fr)
<1>1. q \in Seq(Frame) /\ Len(q) \in Nat /\ Len(q) <= TxQueueSize /\ TxQueueSize \in Nat
      /\ Len(fr) \in Nat
  BY EspNowAssumption DEF Kinds
<1> HIDE DEF q
<1>2. /\ all \in Seq(Frame) /\ Len(all) = Len(q) + Len(fr)
      /\ \A i \in 1..Len(q) : all[i] = q[i]
      /\ \A i \in 1..Len(fr) : all[Len(q) + i] = fr[i]
  BY <1>1, ConcatAt
<1>3. e = SubSeq(all, 1, n)
  BY DEF Enqueued, q
<1> HIDE DEF all, e
<1>4. n \in 0..Len(all) /\ Len(q) <= n /\ n <= TxQueueSize
      /\ (n = Len(all) \/ Len(all) > TxQueueSize)
  BY <1>1, <1>2
<1> HIDE DEF n
<1>5. e \in Seq(Frame) /\ Len(e) = n /\ \A i \in 1..n : e[i] = all[i]
  BY <1>2, <1>3, <1>4
<1>6. \A i \in 1..Len(q) : e[i] = q[i]
  BY <1>1, <1>2, <1>4, <1>5
<1>7. ASSUME NEW i \in 1..(n - Len(q)) PROVE i \in 1..Len(fr) /\ e[Len(q) + i] = fr[i]
  <2>1. i \in 1..Len(fr) /\ Len(q) + i \in 1..n
    BY <1>1, <1>2, <1>4
  <2> QED BY <1>2, <1>5, <2>1
<1> QED BY <1>1, <1>2, <1>4, <1>5, <1>6, <1>7 DEF q, e

(* What a frame that is heard makes with what was collected before it, and  *)
(* when that is delivered.                                                    *)
HeardData(f) == IF config.v2 THEN f.data ELSE Collected(f) \o f.data

Delivers(f) == config.v2 \/ ~(f.more \/ Overflows(f))

(* A frame that was heard is delivered as one payload or not at all. *)
LEMMA RecvKinds ==
  ASSUME Kinds, NEW f \in Frame, espnow_recv_cb(f)
  PROVE  /\ HeardData(f) \in Payloads
         /\ Delivers(f) => espnow_rx_deliver(HeardData(f))
         /\ ~Delivers(f) => UNCHANGED <<espnow_packet_queue, staging, urns_rx_pending_espnow,
                                        delivered>>
         /\ espnow_rx_seq' \in Nat /\ espnow_rx_buf' \in Payloads
<1>1. f.data \in Payloads /\ f.seq \in Nat /\ espnow_rx_seq \in Nat /\ espnow_rx_buf \in Payloads
  BY DEF Frame, Kinds
<1>2. Collected(f) \in Payloads
  BY <1>1 DEF Collected, Payloads
<1>3. Collected(f) \o f.data \in Payloads
  BY <1>1, <1>2 DEF Payloads
<1>4. <<>> \in Payloads
  BY DEF Payloads
<1>5. SeqAfter(f) \in Nat
  BY <1>1 DEF SeqAfter, SEQ_UNSET
<1>6. CASE config.v2
  BY <1>1, <1>6 DEF HeardData, Delivers, espnow_recv_cb
<1>7. CASE ~config.v2
  BY <1>1, <1>3, <1>4, <1>5, <1>7 DEF HeardData, Delivers, espnow_recv_cb
<1> QED BY <1>6, <1>7

(* Every step keeps the types. *)
LEMMA KindsStep == Kinds /\ PacedInv /\ [Next]_vars => Kinds'
<1> SUFFICES ASSUME Kinds, PacedInv, [Next]_vars PROVE Kinds'
  OBVIOUS
<1>1. ASSUME NEW s \in Senders, NEW size \in Sizes,
             NEW seq \in IF config.v2 THEN {SEQ_UNSET} ELSE Seqs, espnow_send(s, size, seq)
      PROVE  Kinds'
  <2> DEFINE p == Len(packets) + 1
             fr == Frames(p, size, seq)
             e == Enqueued(s, fr)
  <2>1. seq \in Nat /\ p \in Nat /\ config \in Configs
    BY EspNowAssumption DEF Kinds, SEQ_UNSET
  <2>2. fr \in Seq(Frame)
    BY <2>1, FramesFacts DEF IsCut
  <2>3. packets' = Append(packets, [sender |-> s, size |-> size, seq |-> seq])
        /\ espnow_tx_queue' = [espnow_tx_queue EXCEPT ![s] = e]
        /\ UNCHANGED <<driver, chunk, config, reassembly, consumers>>
    BY <1>1 DEF espnow_send
  <2> HIDE DEF fr, p
  <2>4. e \in Seq(Frame) /\ Len(e) <= TxQueueSize
    BY <2>2, EnqueuedFacts
  <2> HIDE DEF e
  <2>5. packets' \in Seq(PacketRecord)
    BY <2>1, <2>3 DEF Kinds, PacketRecord
  <2>6. /\ espnow_tx_queue' \in [Senders -> Seq(Frame)]
        /\ \A t \in Senders : Len(espnow_tx_queue'[t]) <= TxQueueSize
    BY <2>3, <2>4 DEF Kinds
  <2> QED BY <2>3, <2>5, <2>6 DEF Kinds, reassembly, consumers
<1>2. ASSUME NEW s \in Senders, TakeChunk(s) PROVE Kinds'
  <2>1. espnow_tx_queue[s] \in Seq(Frame) /\ espnow_tx_queue[s] # <<>>
        /\ Len(espnow_tx_queue[s]) <= TxQueueSize
    BY <1>2 DEF TakeChunk, Kinds
  <2>2. Head(espnow_tx_queue[s]) \in Frame /\ Tail(espnow_tx_queue[s]) \in Seq(Frame)
        /\ Len(Tail(espnow_tx_queue[s])) <= TxQueueSize
    BY <2>1, EspNowAssumption
  <2>3. /\ espnow_tx_queue' \in [Senders -> Seq(Frame)] /\ chunk' \in [Senders -> Frame]
        /\ \A t \in Senders : Len(espnow_tx_queue'[t]) <= TxQueueSize
    BY <1>2, <2>2 DEF TakeChunk, Kinds
  <2> QED BY <1>2, <2>3 DEF TakeChunk, Kinds, reassembly, consumers
<1>3. ASSUME NEW s \in Senders, esp_now_send(s) PROVE Kinds'
  <2>1. driver' \in [Senders -> Seq(Frame)]
    <3>1. driver \in [Senders -> Seq(Frame)] /\ chunk \in [Senders -> Frame]
      BY DEF Kinds
    <3>2. Append(driver[s], chunk[s]) \in Seq(Frame)
      BY <3>1
    <3> QED BY <1>3, <3>1, <3>2 DEF esp_now_send
  <2> QED BY <1>3, <2>1 DEF esp_now_send, Kinds, reassembly, consumers
<1>4. ASSUME NEW s \in Senders, Return(s) PROVE Kinds'
  <2>1. NoFrame \in Frame
    BY DEF NoFrame, Frame, Payloads, SEQ_UNSET
  <2> QED BY <1>4, <2>1 DEF Return, Kinds, reassembly, consumers
<1>5. ASSUME NEW s \in Senders, Heard(s) PROVE Kinds'
  <2> DEFINE f == Head(driver[s])
  <2>1. driver[s] \in Seq(Frame) /\ driver[s] # <<>>
    BY <1>5 DEF Heard, Kinds
  <2>2. f \in Frame /\ Tail(driver[s]) \in Seq(Frame)
    BY <2>1
  <2>3. driver' \in [Senders -> Seq(Frame)]
    BY <1>5, <2>2 DEF Heard, Kinds
  <2>4. espnow_recv_cb(f) /\ UNCHANGED <<packets, espnow_tx_queue, chunk, config, handling,
                                         host, node>>
    BY <1>5 DEF Heard
  <2> HIDE DEF f
  <2>5. /\ HeardData(f) \in Payloads
        /\ Delivers(f) => espnow_rx_deliver(HeardData(f))
        /\ ~Delivers(f) => UNCHANGED <<espnow_packet_queue, staging, urns_rx_pending_espnow,
                                       delivered>>
        /\ espnow_rx_seq' \in Nat /\ espnow_rx_buf' \in Payloads
    BY <2>2, <2>4, RecvKinds
  <2>6. /\ espnow_packet_queue' \in Seq(Payloads) /\ staging' \in Payloads
        /\ delivered' \subseteq Payloads
    <3>1. /\ espnow_packet_queue \in Seq(Payloads) /\ staging \in Payloads
          /\ delivered \subseteq Payloads
      BY DEF Kinds
    <3>2. CASE Delivers(f)
      <4>1. /\ delivered' = delivered \cup {HeardData(f)}
            /\ staging' = staging \/ staging' = HeardData(f)
            /\ \/ espnow_packet_queue' = espnow_packet_queue
               \/ espnow_packet_queue' = Append(espnow_packet_queue, HeardData(f))
        BY <2>5, <3>2 DEF espnow_rx_deliver
      <4>2. Append(espnow_packet_queue, HeardData(f)) \in Seq(Payloads)
        BY <2>5, <3>1
      <4> QED BY <2>5, <3>1, <4>1, <4>2
    <3>3. CASE ~Delivers(f)
      BY <2>5, <3>1, <3>3
    <3> QED BY <3>2, <3>3
  <2>7. urns_rx_pending_espnow' \in BOOLEAN
    <3>1. /\ ~Delivers(f) => urns_rx_pending_espnow' = urns_rx_pending_espnow
          /\ urns_rx_pending_espnow \in BOOLEAN
      BY <2>5 DEF Kinds
    <3>2. Delivers(f) => urns_rx_pending_espnow' = (urns_rx_pending_espnow \/ StageFree)
      BY <2>5, Zenon DEF espnow_rx_deliver
    <3> QED BY <3>1, <3>2, Zenon
  <2> QED BY <2>3, <2>4, <2>5, <2>6, <2>7 DEF Kinds
<1>6. ASSUME NEW s \in Senders, Unheard(s) PROVE Kinds'
  <2>1. driver[s] \in Seq(Frame) /\ driver[s] # <<>>
    BY <1>6 DEF Unheard, Kinds
  <2>2. driver' \in [Senders -> Seq(Frame)]
    BY <1>6, <2>1 DEF Unheard, Kinds
  <2> QED BY <1>6, <2>2 DEF Unheard, Kinds, reassembly, consumers
<1>7. ASSUME NEW s \in Senders, espnow_send_cb(s) PROVE Kinds'
  BY <1>7 DEF espnow_send_cb, Kinds, reassembly, consumers
<1>8. CASE update_espnow
  <2>1. /\ espnow_packet_queue \in Seq(Payloads) /\ espnow_packet_queue # <<>>
        /\ host \in Seq(Payloads)
    BY <1>8 DEF update_espnow, Kinds
  <2>2. espnow_packet_queue' \in Seq(Payloads) /\ host' \in Seq(Payloads)
    BY <1>8, <2>1 DEF update_espnow
  <2> QED BY <1>8, <2>2 DEF update_espnow, Kinds, reassembly, transmitter
<1>9. CASE HandleStaged
  <2>1. node' \in Seq(Payloads)
    BY <1>9 DEF HandleStaged, Kinds
  <2> QED BY <1>9, <2>1 DEF HandleStaged, Kinds, reassembly, transmitter
<1>10. CASE FreeStaged
  BY <1>10 DEF FreeStaged, PendingWhenHandled, Kinds, reassembly, transmitter
<1>11. CASE UNCHANGED vars
  BY <1>11 DEF vars, Kinds, reassembly, transmitter, consumers
<1> QED BY <1>1, <1>2, <1>3, <1>4, <1>5, <1>6, <1>7, <1>8, <1>9, <1>10, <1>11 DEF Next

-----------------------------------------------------------------------------
(* The frames on their way *)

(* A sender's frames are a sequence of frames. *)
LEMMA TransitSeq == ASSUME Kinds, NEW s \in Senders PROVE Transit(s) \in Seq(Frame)
<1>1. /\ driver[s] \in Seq(Frame) /\ espnow_tx_queue[s] \in Seq(Frame)
      /\ chunk[s] \in Frame
  BY DEF Kinds
<1>2. Held(s) \in Seq(Frame)
  BY <1>1 DEF Held
<1> QED BY <1>1, <1>2 DEF Transit

(* The empty sequence adds nothing. *)
LEMMA EmptyConcat ==
  ASSUME NEW S, NEW x \in Seq(S)
  PROVE  <<>> \o x = x /\ x \o <<>> = x
OBVIOUS

(* Its first element before the rest. *)
LEMMA HeadTail ==
  ASSUME NEW S, NEW x \in Seq(S), x # <<>>
  PROVE  <<Head(x)>> \o Tail(x) = x
OBVIOUS

(* One element before a sequence. *)
LEMMA OneBefore ==
  ASSUME NEW S, NEW x \in Seq(S), NEW f \in S
  PROVE  /\ <<f>> \o x \in Seq(S) /\ <<f>> \o x # <<>>
         /\ Tail(<<f>> \o x) = x /\ (<<f>> \o x)[1] = f
OBVIOUS

(* update_espnow_tx() takes a frame: it is still on its way. *)
LEMMA TakeTransit ==
  ASSUME Kinds, PacedInv, NEW s \in Senders, TakeChunk(s), NEW t \in Senders
  PROVE  Transit(t)' = Transit(t)
<1>1. /\ espnow_tx_queue \in [Senders -> Seq(Frame)] /\ chunk \in [Senders -> Frame]
      /\ driver \in [Senders -> Seq(Frame)] /\ DOMAIN sending = Senders
  BY DEF Kinds, PacedInv, Arrays
<1>2. CASE t # s
  <2>1. /\ driver'[t] = driver[t] /\ sending'[t] = sending[t] /\ chunk'[t] = chunk[t]
        /\ espnow_tx_queue'[t] = espnow_tx_queue[t]
    BY <1>1, <1>2 DEF TakeChunk
  <2> QED BY <2>1 DEF Transit, Held
<1>3. CASE t = s
  <2> DEFINE q == espnow_tx_queue[s]
  <2>1. /\ q \in Seq(Frame) /\ q # <<>> /\ sending[s] = "out" /\ driver[s] \in Seq(Frame)
        /\ driver'[s] = driver[s] /\ sending'[s] = "took" /\ chunk'[s] = Head(q)
        /\ espnow_tx_queue'[s] = Tail(q)
    BY <1>1 DEF TakeChunk
  <2>2. Held(s) = <<>> /\ Held(s)' = <<Head(q)>>
    BY <2>1 DEF Held
  <2>3. Transit(s) = (driver[s] \o <<>>) \o q
        /\ Transit(s)' = (driver[s] \o <<Head(q)>>) \o Tail(q)
    BY <2>1, <2>2 DEF Transit
  <2> HIDE DEF q
  <2>4. (driver[s] \o <<>>) \o q = driver[s] \o q
    BY <2>1, EmptyConcat
  <2>5. (driver[s] \o <<Head(q)>>) \o Tail(q) = driver[s] \o (<<Head(q)>> \o Tail(q))
    BY <2>1
  <2>6. <<Head(q)>> \o Tail(q) = q
    BY <2>1, HeadTail
  <2> QED BY <1>3, <2>3, <2>4, <2>5, <2>6
<1> QED BY <1>2, <1>3

(* The driver takes the frame, which leaves it on its way, or refuses it,   *)
(* which loses it.                                                            *)
LEMMA CallTransit ==
  ASSUME Kinds, PacedInv, NEW s \in Senders, esp_now_send(s)
  PROVE  /\ \A t \in Senders \ {s} : Transit(t)' = Transit(t)
         /\ \/ Transit(s)' = Transit(s) /\ UNCHANGED damaged
            \/ /\ Transit(s) # <<>> /\ Transit(s)' = Tail(Transit(s))
               /\ damaged' = damaged \cup {Pkt(Transit(s)[1])}
<1>1. /\ espnow_tx_queue[s] \in Seq(Frame) /\ chunk[s] \in Frame
      /\ driver \in [Senders -> Seq(Frame)] /\ DOMAIN sending = Senders
  BY DEF Kinds, PacedInv, Arrays
<1>2. ASSUME NEW t \in Senders \ {s} PROVE Transit(t)' = Transit(t)
  <2>1. /\ driver'[t] = driver[t] /\ sending'[t] = sending[t] /\ chunk'[t] = chunk[t]
        /\ espnow_tx_queue'[t] = espnow_tx_queue[t]
    BY <1>1 DEF esp_now_send
  <2> QED BY <2>1 DEF Transit, Held
<1>3. sending[s] = "took" /\ driver[s] = <<>> /\ UNCHANGED <<espnow_tx_queue, chunk>>
  <2>1. Paced(s) /\ sending[s] = "took"
    BY DEF PacedInv, esp_now_send
  <2> QED BY <2>1 DEF Paced, NoneOut, esp_now_send
<1> DEFINE q == espnow_tx_queue[s]
           f == chunk[s]
<1>4. Transit(s) = <<f>> \o q
  <2>1. Transit(s) = (<<>> \o <<f>>) \o q
    BY <1>3 DEF Transit, Held
  <2>2. <<>> \o <<f>> = <<f>>
    BY <1>1, EmptyConcat
  <2> QED BY <2>1, <2>2
<1>5. CASE /\ driver' = [driver EXCEPT ![s] = Append(@, chunk[s])]
           /\ sending' = [sending EXCEPT ![s] = "ok"] /\ UNCHANGED damaged
  <2>1. driver'[s] = <<f>> /\ sending'[s] = "ok"
    BY <1>1, <1>3, <1>5, ShortSeq
  <2>2. Transit(s)' = (<<f>> \o <<>>) \o q
    BY <1>3, <2>1 DEF Transit, Held
  <2>3. <<f>> \o <<>> = <<f>>
    BY <1>1, EmptyConcat
  <2> QED BY <1>2, <1>4, <1>5, <2>2, <2>3
<1>6. CASE /\ sending' = [sending EXCEPT ![s] = "failed"] /\ UNCHANGED driver
           /\ damaged' = damaged \cup {chunk[s].data[1][1]}
  <2>1. driver'[s] = <<>> /\ sending'[s] = "failed"
    BY <1>1, <1>3, <1>6
  <2>2. Transit(s)' = (<<>> \o <<>>) \o q
    BY <1>3, <2>1 DEF Transit, Held
  <2>3. <<>> \in Seq(Frame) /\ q \in Seq(Frame) /\ f \in Frame
    BY <1>1
  <2>4. (<<>> \o <<>>) \o q = q
    BY <2>3, EmptyConcat
  <2> HIDE DEF q, f
  <2>5. Tail(<<f>> \o q) = q /\ (<<f>> \o q)[1] = f /\ <<f>> \o q # <<>>
    BY <2>3, OneBefore
  <2>6. damaged' = damaged \cup {Pkt(f)}
    BY <1>6 DEF Pkt, f
  <2> QED BY <1>2, <1>4, <2>2, <2>4, <2>5, <2>6
<1> QED BY <1>5, <1>6 DEF esp_now_send

(* A frame on the air is the oldest on its way, and is so no longer. *)
LEMMA AirTransit ==
  ASSUME Kinds, PacedInv, NEW s \in Senders, OnAir(s)
  PROVE  /\ \A t \in Senders \ {s} : Transit(t)' = Transit(t)
         /\ Transit(s) # <<>> /\ Transit(s)' = Tail(Transit(s))
         /\ Head(driver[s]) = Transit(s)[1]
<1>1. /\ espnow_tx_queue[s] \in Seq(Frame) /\ driver \in [Senders -> Seq(Frame)]
  BY DEF Kinds
<1>2. /\ driver[s] # <<>> /\ driver' = [driver EXCEPT ![s] = Tail(@)]
      /\ UNCHANGED <<espnow_tx_queue, sending, chunk>>
  BY DEF OnAir, Heard, Unheard
<1>3. ASSUME NEW t \in Senders \ {s} PROVE Transit(t)' = Transit(t)
  <2>1. driver'[t] = driver[t]
    BY <1>1, <1>2
  <2> QED BY <1>2, <2>1 DEF Transit, Held
<1>4. sending[s] \in {"out", "ok"} /\ InDriver(s)
  <2>1. Paced(s)
    BY DEF PacedInv
  <2> QED BY <1>2, <2>1 DEF Paced, NoneOut, Unreported
<1>5. PICK f : driver[s] = <<f>>
  BY <1>4 DEF InDriver
<1> DEFINE q == espnow_tx_queue[s]
<1>6. f \in Frame /\ Head(driver[s]) = f /\ driver'[s] = <<>>
  <2>1. <<f>> \in Seq(Frame)
    BY <1>1, <1>5
  <2>2. f \in Frame
    <3>1. <<f>>[1] = f /\ Len(<<f>>) = 1
      OBVIOUS
    <3> QED BY <2>1, <3>1
  <2>3. Head(<<f>>) = f /\ Tail(<<f>>) = <<>>
    OBVIOUS
  <2>4. driver'[s] = Tail(driver[s])
    BY <1>1, <1>2
  <2> QED BY <1>5, <2>2, <2>3, <2>4
<1>7. Transit(s) = (<<f>> \o <<>>) \o q /\ Transit(s)' = (<<>> \o <<>>) \o q
  BY <1>2, <1>4, <1>5, <1>6 DEF Transit, Held
<1>8. <<f>> \o <<>> = <<f>> /\ (<<>> \o <<>>) \o q = q
  BY <1>1, <1>6, EmptyConcat
<1>9. Tail(<<f>> \o q) = q /\ (<<f>> \o q)[1] = f /\ <<f>> \o q # <<>>
  BY <1>1, <1>6, OneBefore
<1> QED BY <1>3, <1>6, <1>7, <1>8, <1>9

(* The other steps but espnow_send() leave the frames alone. *)
LEMMA OtherTransit ==
  ASSUME PacedInv, NEW t \in Senders,
         \/ UNCHANGED <<driver, sending, chunk, espnow_tx_queue>>
         \/ \E s \in Senders : Return(s)
  PROVE  Transit(t)' = Transit(t)
<1>1. CASE UNCHANGED <<driver, sending, chunk, espnow_tx_queue>>
  BY <1>1 DEF Transit, Held
<1>2. ASSUME NEW s \in Senders, Return(s) PROVE Transit(t)' = Transit(t)
  <2>1. /\ UNCHANGED <<driver, espnow_tx_queue>>
        /\ Held(t)' = Held(t)
    BY <1>2 DEF Return, Held, PacedInv, Arrays
  <2> QED BY <2>1 DEF Transit
<1> QED BY <1>1, <1>2

(* espnow_send() adds the first of its frames, and all of them unless the   *)
(* queue was full.                                                            *)
LEMMA SendTransit ==
  ASSUME Kinds, PacedInv, NEW s \in Senders, NEW fr \in Seq(Frame),
         espnow_tx_queue' = [espnow_tx_queue EXCEPT ![s] = Enqueued(s, fr)],
         UNCHANGED <<driver, sending, chunk>>
  PROVE  /\ \A t \in Senders \ {s} : Transit(t)' = Transit(t)
         /\ \E m \in 0..Len(fr) :
               /\ Transit(s)' \in Seq(Frame)
               /\ Len(Transit(s)') = Len(Transit(s)) + m
               /\ m = Len(fr) \/ Len(espnow_tx_queue[s]) + Len(fr) > TxQueueSize
               /\ \A i \in 1..Len(Transit(s)) : Transit(s)'[i] = Transit(s)[i]
               /\ \A i \in 1..m : Transit(s)'[Len(Transit(s)) + i] = fr[i]
<1>1. /\ espnow_tx_queue \in [Senders -> Seq(Frame)] /\ driver[s] \in Seq(Frame)
      /\ chunk[s] \in Frame
  BY DEF Kinds
<1>2. ASSUME NEW t \in Senders \ {s} PROVE Transit(t)' = Transit(t)
  <2>1. espnow_tx_queue'[t] = espnow_tx_queue[t]
    BY <1>1
  <2> QED BY <2>1 DEF Transit, Held
<1> DEFINE q == espnow_tx_queue[s]
           e == Enqueued(s, fr)
           d == driver[s] \o Held(s)
           m == Len(e) - Len(q)
<1>3. /\ e \in Seq(Frame) /\ Len(q) <= Len(e) /\ Len(e) <= Len(q) + Len(fr)
      /\ Len(e) = Len(q) + Len(fr) \/ Len(q) + Len(fr) > TxQueueSize
      /\ \A i \in 1..Len(q) : e[i] = q[i]
      /\ \A i \in 1..m : i \in 1..Len(fr) /\ e[Len(q) + i] = fr[i]
  BY EnqueuedFacts
<1>4. d \in Seq(Frame) /\ q \in Seq(Frame)
  BY <1>1 DEF Held
<1>5. Transit(s) = d \o q /\ Transit(s)' = d \o e
  BY <1>1 DEF Transit, Held
<1> HIDE DEF q, e, d
<1>6. /\ Len(d \o q) = Len(d) + Len(q) /\ d \o q \in Seq(Frame)
      /\ \A i \in 1..Len(d) : (d \o q)[i] = d[i]
      /\ \A i \in 1..Len(q) : (d \o q)[Len(d) + i] = q[i]
  BY <1>4, ConcatAt
<1>7. /\ Len(d \o e) = Len(d) + Len(e) /\ d \o e \in Seq(Frame)
      /\ \A i \in 1..Len(d) : (d \o e)[i] = d[i]
      /\ \A i \in 1..Len(e) : (d \o e)[Len(d) + i] = e[i]
  BY <1>3, <1>4, ConcatAt
<1>8. Len(d) \in Nat /\ Len(q) \in Nat /\ Len(e) \in Nat /\ Len(fr) \in Nat
  BY <1>3, <1>4
<1>9. m \in 0..Len(fr) /\ Len(d \o e) = Len(d \o q) + m
      /\ (m = Len(fr) \/ Len(q) + Len(fr) > TxQueueSize)
  BY <1>3, <1>6, <1>7, <1>8
<1>10. ASSUME NEW i \in 1..Len(d \o q) PROVE (d \o e)[i] = (d \o q)[i]
  <2>1. i \in 1..Len(d) \/ i - Len(d) \in 1..Len(q)
    BY <1>6, <1>8
  <2>2. CASE i \in 1..Len(d)
    BY <1>6, <1>7, <2>2
  <2>3. CASE i - Len(d) \in 1..Len(q)
    <3> DEFINE k == i - Len(d)
    <3>0. k \in 1..Len(q) /\ i = Len(d) + k
      <4>1. i \in Int
        BY <1>6, <1>8
      <4> QED BY <1>8, <2>3, <4>1
    <3> HIDE DEF k
    <3>1. PICK j \in 1..Len(q) : i = Len(d) + j
      BY <3>0
    <3>2. j \in 1..Len(e)
      BY <1>3, <1>8
    <3> QED BY <1>3, <1>6, <1>7, <3>1, <3>2
  <2> QED BY <2>1, <2>2, <2>3
<1>11. ASSUME NEW i \in 1..m PROVE (d \o e)[Len(d \o q) + i] = fr[i]
  <2>1. Len(q) + i \in 1..Len(e) /\ Len(d \o q) + i = Len(d) + (Len(q) + i)
    BY <1>6, <1>8
  <2>2. (d \o e)[Len(d) + (Len(q) + i)] = e[Len(q) + i]
    BY <1>7, <2>1
  <2> QED BY <1>3, <2>1, <2>2
<1> HIDE DEF m
<1>12. \E n \in 0..Len(fr) :
         /\ d \o e \in Seq(Frame)
         /\ Len(d \o e) = Len(d \o q) + n
         /\ n = Len(fr) \/ Len(q) + Len(fr) > TxQueueSize
         /\ \A i \in 1..Len(d \o q) : (d \o e)[i] = (d \o q)[i]
         /\ \A i \in 1..n : (d \o e)[Len(d \o q) + i] = fr[i]
  BY <1>7, <1>9, <1>10, <1>11
<1> QED BY <1>2, <1>5, <1>12 DEF q

(* Frames that stay on their way while others are heard or lost. *)
LEMMA OtherSound ==
  ASSUME NEW t \in Senders, Sound(t, Transit(t)), Transit(t)' = Transit(t),
         UNCHANGED <<packets, config>>, damaged \subseteq damaged',
         \A x \in closed' \ closed : packets[x].sender # t,
         \A x \in open \ open' : packets[x].sender # t
  PROVE  Sound(t, Transit(t))'
<1> DEFINE q == Transit(t)
<1>1. Pieces(t, q) /\ InOrder(q) /\ ToTheEnd(q) /\ FromTheStart(q)
  BY DEF Sound
<1>2. Pieces(t, Transit(t))'
  BY <1>1 DEF Pieces, IsPiece
<1>3. InOrder(Transit(t))'
  BY <1>1 DEF InOrder
<1>4. ToTheEnd(Transit(t))'
  BY <1>1 DEF ToTheEnd
<1>5. FromTheStart(Transit(t))'
  <2> SUFFICES ASSUME NEW i \in DOMAIN q, Pkt(q[i]) \notin damaged', From(q[i]) > 0
               PROVE  IF i = 1 THEN Pkt(q[i]) \in open' ELSE Pkt(q[i - 1]) = Pkt(q[i])
    BY DEF FromTheStart
  <2>1. IF i = 1 THEN Pkt(q[i]) \in open ELSE Pkt(q[i - 1]) = Pkt(q[i])
    BY <1>1 DEF FromTheStart
  <2>2. packets[Pkt(q[i])].sender = t
    BY <1>1 DEF Pieces
  <2> QED BY <2>1, <2>2
<1> QED BY <1>2, <1>3, <1>4, <1>5 DEF Sound

(* A sequence without its first element, index by index. *)
LEMMA TailAt ==
  ASSUME NEW S, NEW q \in Seq(S), q # <<>>, NEW r, r = Tail(q)
  PROVE  /\ 1 \in DOMAIN q /\ r \in Seq(S)
         /\ \A k \in DOMAIN r : k \in Nat /\ k >= 1 /\ k + 1 \in DOMAIN q /\ r[k] = q[k + 1]
         /\ \A k \in DOMAIN q \ {1} : k - 1 \in DOMAIN r
OBVIOUS

(* A frame that is followed by another of its packet is not the last. *)
LEMMA NotLast ==
  ASSUME NEW s, NEW q, Pieces(s, q), InOrder(q), NEW i \in DOMAIN q, NEW j \in DOMAIN q,
         i < j, Pkt(q[i]) = Pkt(q[j]), packets[Pkt(q[i])].size \in Nat,
         Pkt(q[i]) \in Nat
  PROVE  q[i].more
<1> DEFINE p == Pkt(q[i])
           n == packets[p].size
<1>1. IsPiece(q[i], p, n, packets[p].seq) /\ IsPiece(q[j], p, n, packets[p].seq)
  BY DEF Pieces
<1>2. Upto(q[i]) <= From(q[j])
  BY DEF InOrder, Later
<1> HIDE DEF p, n
<1>3. /\ From(q[j]) < Upto(q[j]) /\ Upto(q[j]) <= n /\ n \in Nat
      /\ Upto(q[i]) \in Nat /\ Upto(q[j]) \in Nat /\ From(q[j]) \in Nat
  BY <1>1 DEF IsPiece, n, p
<1>4. Upto(q[i]) < n
  BY <1>2, <1>3
<1> QED BY <1>1, <1>4 DEF IsPiece

(* A packet that was sent. *)
LEMMA PacketFacts ==
  ASSUME Kinds, NEW p \in DOMAIN packets
  PROVE  /\ p \in Nat /\ packets[p].size \in Nat /\ packets[p].size <= MTU /\ MTU \in Nat
         /\ packets[p].seq \in Nat
<1>1. packets[p] \in PacketRecord /\ p \in Nat
  BY DEF Kinds
<1>2. packets[p].size \in Sizes /\ packets[p].seq \in Nat
  BY <1>1 DEF PacketRecord
<1>3. MTU \in Nat /\ packets[p].size \in 1..MTU
  BY <1>2, EspNowAssumption
<1> QED BY <1>1, <1>2, <1>3

(* The frames behind one that is heard or lost. *)
LEMMA TailSound ==
  ASSUME Kinds, NEW s \in Senders, Sound(s, Transit(s)), Transit(s) # <<>>,
         Transit(s)' = Tail(Transit(s)), UNCHANGED <<packets, config>>,
         damaged \subseteq damaged',
         \/ closed' = closed
         \/ closed' = closed \cup {Pkt(Transit(s)[1])} /\ ~Transit(s)[1].more,
         \/ Pkt(Transit(s)[1]) \in damaged'
         \/ Transit(s)[1].more => Pkt(Transit(s)[1]) \in open'
  PROVE  Sound(s, Transit(s))'
<1> DEFINE q == Transit(s)
           r == Transit(s)'
<1>1. Pieces(s, q) /\ InOrder(q) /\ ToTheEnd(q) /\ FromTheStart(q)
  BY DEF Sound
<1>2. q \in Seq(Frame)
  BY TransitSeq
<1>3. /\ 1 \in DOMAIN q /\ r \in Seq(Frame)
      /\ \A k \in DOMAIN r : k \in Nat /\ k >= 1 /\ k + 1 \in DOMAIN q /\ r[k] = q[k + 1]
      /\ \A k \in DOMAIN q \ {1} : k - 1 \in DOMAIN r
  BY <1>2, TailAt
<1>4. ASSUME NEW k \in DOMAIN r, Pkt(r[k]) = Pkt(q[1]) PROVE q[1].more
  <2>1. /\ k + 1 \in DOMAIN q /\ 1 < k + 1 /\ Pkt(q[1]) = Pkt(q[k + 1])
    BY <1>3, <1>4
  <2>2. Pkt(q[1]) \in DOMAIN packets
    BY <1>1, <1>3 DEF Pieces
  <2>3. Pkt(q[1]) \in Nat /\ packets[Pkt(q[1])].size \in Nat
    BY <2>2, PacketFacts
  <2> HIDE DEF q, r
  <2> QED BY <1>1, <1>3, <2>1, <2>3, NotLast
<1>5. Pieces(s, Transit(s))'
  <2> SUFFICES ASSUME NEW k \in DOMAIN r
               PROVE  /\ Pkt(r[k]) \in DOMAIN packets /\ packets[Pkt(r[k])].sender = s
                      /\ Pkt(r[k]) \notin closed'
                      /\ IsPiece(r[k], Pkt(r[k]), packets[Pkt(r[k])].size,
                                 packets[Pkt(r[k])].seq)
    BY DEF Pieces, IsPiece
  <2>1. k + 1 \in DOMAIN q /\ r[k] = q[k + 1]
    BY <1>3
  <2> QED BY <1>1, <1>4, <2>1 DEF Pieces
<1>6. InOrder(Transit(s))'
  <2> SUFFICES ASSUME NEW i \in DOMAIN r, NEW j \in DOMAIN r, i < j
               PROVE  Later(r[i], r[j])
    BY DEF InOrder
  <2>1. /\ i + 1 \in DOMAIN q /\ j + 1 \in DOMAIN q /\ i + 1 < j + 1
        /\ r[i] = q[i + 1] /\ r[j] = q[j + 1]
    BY <1>3
  <2> QED BY <1>1, <2>1 DEF InOrder
<1>7. ToTheEnd(Transit(s))'
  <2> SUFFICES ASSUME NEW i \in DOMAIN r, Pkt(r[i]) \notin damaged', r[i].more
               PROVE  i + 1 \in DOMAIN r /\ Follows(r[i], r[i + 1])
    BY DEF ToTheEnd
  <2>1. /\ i + 1 \in DOMAIN q /\ r[i] = q[i + 1] /\ i \in Nat /\ i >= 1
    BY <1>3
  <2>2. (i + 1) + 1 \in DOMAIN q /\ Follows(q[i + 1], q[(i + 1) + 1])
    BY <1>1, <2>1 DEF ToTheEnd
  <2>3. (i + 1) + 1 # 1 /\ ((i + 1) + 1) - 1 = i + 1
    BY <2>1
  <2>4. i + 1 \in DOMAIN r
    BY <1>3, <2>2, <2>3
  <2>5. r[i + 1] = q[(i + 1) + 1]
    BY <1>3, <2>4
  <2> QED BY <2>1, <2>2, <2>4, <2>5
<1>8. FromTheStart(Transit(s))'
  <2> SUFFICES ASSUME NEW i \in DOMAIN r, Pkt(r[i]) \notin damaged', From(r[i]) > 0
               PROVE  IF i = 1 THEN Pkt(r[i]) \in open' ELSE Pkt(r[i - 1]) = Pkt(r[i])
    BY DEF FromTheStart
  <2>1. /\ i + 1 \in DOMAIN q /\ r[i] = q[i + 1] /\ i \in Nat /\ i >= 1 /\ i + 1 # 1
        /\ (i + 1) - 1 = i
    BY <1>3
  <2>2. Pkt(q[i]) = Pkt(q[i + 1])
    BY <1>1, <2>1 DEF FromTheStart
  <2>3. CASE i = 1
    <3>1. Pkt(r[1]) = Pkt(q[1]) /\ 1 \in DOMAIN r
      BY <2>1, <2>2, <2>3
    <3>2. q[1].more
      BY <1>4, <3>1
    <3> QED BY <2>3, <3>1, <3>2
  <2>4. CASE i # 1
    <3>1. i \in DOMAIN q \ {1}
      BY <1>2, <2>1, <2>4
    <3>2. i - 1 \in DOMAIN r /\ (i - 1) + 1 = i
      BY <1>3, <2>1, <3>1
    <3>3. r[i - 1] = q[i]
      BY <1>3, <3>2
    <3> QED BY <2>1, <2>2, <2>4, <3>3
  <2> QED BY <2>3, <2>4
<1> QED BY <1>5, <1>6, <1>7, <1>8 DEF Sound

(* espnow_send(): the packets before the new one are as they were. *)
LEMMA SendPackets ==
  ASSUME Kinds, NEW r \in PacketRecord, packets' = Append(packets, r)
  PROVE  LET p == Len(packets) + 1
         IN  /\ p \in Nat /\ p \in DOMAIN packets' /\ packets'[p] = r
             /\ DOMAIN packets' = DOMAIN packets \cup {p} /\ p \notin DOMAIN packets
             /\ \A x \in DOMAIN packets : packets'[x] = packets[x] /\ x \in Nat /\ x < p
<1>1. packets \in Seq(PacketRecord)
  BY DEF Kinds
<1> QED BY <1>1

(* The frames of the senders that are not sending. *)
LEMMA SendOthersSound ==
  ASSUME NEW t \in Senders, Sound(t, Transit(t)), Transit(t)' = Transit(t),
         UNCHANGED <<config, open, closed>>, damaged \subseteq damaged',
         \A x \in DOMAIN packets : packets'[x] = packets[x] /\ x \in DOMAIN packets'
  PROVE  Sound(t, Transit(t))'
<1> DEFINE q == Transit(t)
<1>1. Pieces(t, q) /\ InOrder(q) /\ ToTheEnd(q) /\ FromTheStart(q)
  BY DEF Sound
<1>2. Pieces(t, Transit(t))'
  BY <1>1 DEF Pieces, IsPiece
<1>3. InOrder(Transit(t))'
  BY <1>1 DEF InOrder
<1>4. ToTheEnd(Transit(t))'
  BY <1>1 DEF ToTheEnd
<1>5. FromTheStart(Transit(t))'
  BY <1>1 DEF FromTheStart
<1> QED BY <1>2, <1>3, <1>4, <1>5 DEF Sound

(* The frames of the one that is. *)
LEMMA SendSound ==
  ASSUME Kinds, NEW s \in Senders, NEW size \in Sizes, NEW seq \in Nat,
         Sound(s, Transit(s)), UNCHANGED <<config, open, closed>>,
         closed \subseteq DOMAIN packets, damaged \subseteq damaged',
         packets' = Append(packets, [sender |-> s, size |-> size, seq |-> seq]),
         NEW p, p = Len(packets) + 1, NEW fr, fr = Frames(p, size, seq), NEW m \in 0..Len(fr),
         Transit(s)' \in Seq(Frame), Len(Transit(s)') = Len(Transit(s)) + m,
         m = Len(fr) \/ p \in damaged',
         \A i \in 1..Len(Transit(s)) : Transit(s)'[i] = Transit(s)[i],
         \A i \in 1..m : Transit(s)'[Len(Transit(s)) + i] = fr[i]
  PROVE  Sound(s, Transit(s))'
<1> DEFINE q == Transit(s)
           r == Transit(s)'
           n == Len(q)
           new == [sender |-> s, size |-> size, seq |-> seq]
<1>1. Pieces(s, q) /\ InOrder(q) /\ ToTheEnd(q) /\ FromTheStart(q)
  BY DEF Sound
<1>2. q \in Seq(Frame) /\ n \in Nat /\ DOMAIN q = 1..n
  BY TransitSeq
<1>3. /\ p \in Nat /\ p \in DOMAIN packets' /\ packets'[p] = new
      /\ DOMAIN packets' = DOMAIN packets \cup {p} /\ p \notin DOMAIN packets
      /\ \A x \in DOMAIN packets : packets'[x] = packets[x] /\ x \in Nat /\ x < p
  <2>1. new \in PacketRecord
    BY DEF PacketRecord
  <2> QED BY <2>1, SendPackets
<1>4. /\ fr \in Seq(Frame) /\ Len(fr) >= 1 /\ From(fr[1]) = 0 /\ Len(fr) \in Nat
      /\ \A k \in 1..Len(fr) : IsPiece(fr[k], p, size, seq)
      /\ \A k \in 1..Len(fr) : fr[k].more <=> k < Len(fr)
      /\ \A j, k \in 1..Len(fr) : j < k => Upto(fr[j]) <= From(fr[k])
      /\ \A k \in 1..Len(fr) : k + 1 \in 1..Len(fr) => Upto(fr[k]) = From(fr[k + 1])
  <2>1. config \in Configs /\ p \in Nat
    BY <1>3 DEF Kinds
  <2>2. IsCut(fr, p, size, seq)
    BY <2>1, FramesFacts
  <2>3. fr \in Seq(Frame)
    BY <2>2 DEF IsCut
  <2>4. Len(fr) \in Nat
    BY <2>3
  <2> QED BY <2>2, <2>4 DEF IsCut
<1>5. m \in Nat /\ DOMAIN r = 1..(n + m) /\ m <= Len(fr)
  BY <1>2, <1>4
<1>6. /\ \A i \in 1..n : i \in DOMAIN q /\ r[i] = q[i]
      /\ \A k \in 1..m : r[n + k] = fr[k] /\ k \in 1..Len(fr) /\ Pkt(fr[k]) = p
  BY <1>2, <1>4, <1>5 DEF IsPiece
<1> HIDE DEF q, r, n, new
<1>7. \A i \in DOMAIN r : i \in 1..n \/ \E k \in 1..m : i = n + k
  <2> SUFFICES ASSUME NEW i \in 1..(n + m), i \notin 1..n PROVE \E k \in 1..m : i = n + k
    BY <1>5
  <2>1. i - n \in 1..m /\ i = n + (i - n)
    BY <1>2, <1>5
  <2> QED BY <2>1
<1>8. \A i \in 1..n : /\ Pkt(q[i]) \in DOMAIN packets /\ Pkt(q[i]) \in Nat
                      /\ Pkt(q[i]) < p /\ Pkt(q[i]) # p
  BY <1>1, <1>3, <1>6 DEF Pieces
<1>9. Pieces(s, Transit(s))'
  <2> SUFFICES ASSUME NEW i \in DOMAIN r
               PROVE  /\ Pkt(r[i]) \in DOMAIN packets' /\ packets'[Pkt(r[i])].sender = s
                      /\ Pkt(r[i]) \notin closed
                      /\ IsPiece(r[i], Pkt(r[i]), packets'[Pkt(r[i])].size,
                                 packets'[Pkt(r[i])].seq)
    BY DEF Pieces, IsPiece, r
  <2>1. CASE i \in 1..n
    BY <1>1, <1>3, <1>6, <1>8, <2>1 DEF Pieces
  <2>2. ASSUME NEW k \in 1..m, i = n + k
        PROVE  /\ Pkt(r[i]) \in DOMAIN packets' /\ packets'[Pkt(r[i])].sender = s
               /\ Pkt(r[i]) \notin closed
               /\ IsPiece(r[i], Pkt(r[i]), packets'[Pkt(r[i])].size,
                          packets'[Pkt(r[i])].seq)
    <3>1. r[i] = fr[k] /\ k \in 1..Len(fr) /\ Pkt(r[i]) = p
      BY <1>6, <2>2
    <3>2. new.sender = s /\ new.size = size /\ new.seq = seq
      BY DEF new
    <3>3. p \notin closed
      BY <1>3
    <3> QED BY <1>3, <1>4, <3>1, <3>2, <3>3
  <2> QED BY <1>7, <2>1, <2>2
<1>10. InOrder(Transit(s))'
  <2> SUFFICES ASSUME NEW i \in DOMAIN r, NEW j \in DOMAIN r, i < j
               PROVE  Later(r[i], r[j])
    BY DEF InOrder, r
  <2>1. CASE i \in 1..n /\ j \in 1..n
    BY <1>1, <1>6, <2>1 DEF InOrder
  <2>2. ASSUME i \in 1..n, NEW k \in 1..m, j = n + k PROVE Later(r[i], r[j])
    BY <1>6, <1>8, <2>2 DEF Later
  <2>3. ASSUME NEW h \in 1..m, i = n + h, NEW k \in 1..m, j = n + k PROVE Later(r[i], r[j])
    <3>1. h < k
      BY <1>2, <2>3
    <3>2. r[i] = fr[h] /\ r[j] = fr[k] /\ h \in 1..Len(fr) /\ k \in 1..Len(fr)
          /\ Pkt(fr[h]) = p /\ Pkt(fr[k]) = p
      BY <1>6, <2>3
    <3>3. Upto(fr[h]) <= From(fr[k])
      BY <1>4, <3>1, <3>2
    <3> QED BY <3>2, <3>3 DEF Later
  <2>4. i \in 1..n \/ j \notin 1..n
    BY <1>2, <1>5
  <2> QED BY <1>7, <2>1, <2>2, <2>3, <2>4
<1>11. ToTheEnd(Transit(s))'
  <2> SUFFICES ASSUME NEW i \in DOMAIN r, Pkt(r[i]) \notin damaged', r[i].more
               PROVE  i + 1 \in DOMAIN r /\ Follows(r[i], r[i + 1])
    BY DEF ToTheEnd, r
  <2>1. CASE i \in 1..n
    <3>1. i + 1 \in DOMAIN q /\ Follows(q[i], q[i + 1])
      BY <1>1, <1>6, <2>1 DEF ToTheEnd
    <3>2. i + 1 \in 1..n /\ i + 1 \in 1..(n + m)
      BY <1>2, <1>5, <3>1
    <3> QED BY <1>5, <1>6, <2>1, <3>1, <3>2
  <2>2. ASSUME NEW k \in 1..m, i = n + k
        PROVE  i + 1 \in DOMAIN r /\ Follows(r[i], r[i + 1])
    <3>1. r[i] = fr[k] /\ k \in 1..Len(fr) /\ Pkt(fr[k]) = p
      BY <1>6, <2>2
    <3>2. m = Len(fr)
      BY <3>1
    <3>3. k < Len(fr)
      BY <1>4, <3>1
    <3>4. k + 1 \in 1..m /\ k + 1 \in 1..Len(fr) /\ i + 1 = n + (k + 1)
          /\ i + 1 \in 1..(n + m)
      BY <1>2, <1>4, <2>2, <3>2, <3>3
    <3>5. r[i + 1] = fr[k + 1] /\ Pkt(fr[k + 1]) = p
      BY <1>6, <3>4
    <3>6. Upto(fr[k]) = From(fr[k + 1])
      BY <1>4, <3>1, <3>4
    <3> QED BY <1>5, <3>1, <3>4, <3>5, <3>6 DEF Follows
  <2> QED BY <1>7, <2>1, <2>2
<1>12. FromTheStart(Transit(s))'
  <2> SUFFICES ASSUME NEW i \in DOMAIN r, Pkt(r[i]) \notin damaged', From(r[i]) > 0
               PROVE  IF i = 1 THEN Pkt(r[i]) \in open ELSE Pkt(r[i - 1]) = Pkt(r[i])
    BY DEF FromTheStart, r
  <2>1. CASE i \in 1..n
    <3>1. IF i = 1 THEN Pkt(q[i]) \in open ELSE Pkt(q[i - 1]) = Pkt(q[i])
      BY <1>1, <1>6, <2>1 DEF FromTheStart
    <3>2. i # 1 => i - 1 \in 1..n
      BY <1>2, <2>1
    <3> QED BY <1>6, <2>1, <3>1, <3>2
  <2>2. ASSUME NEW k \in 1..m, i = n + k
        PROVE  IF i = 1 THEN Pkt(r[i]) \in open ELSE Pkt(r[i - 1]) = Pkt(r[i])
    <3>1. r[i] = fr[k] /\ k \in 1..Len(fr) /\ Pkt(fr[k]) = p
      BY <1>6, <2>2
    <3>2. k # 1
      BY <1>4, <3>1
    <3>3. k - 1 \in 1..m /\ i - 1 = n + (k - 1) /\ i # 1
      BY <1>2, <2>2, <3>2
    <3>4. r[i - 1] = fr[k - 1] /\ Pkt(fr[k - 1]) = p
      BY <1>6, <3>3
    <3> QED BY <3>1, <3>3, <3>4
  <2> QED BY <1>7, <2>1, <2>2
<1> QED BY <1>9, <1>10, <1>11, <1>12 DEF Sound

-----------------------------------------------------------------------------
(* What the receiver has collected *)

(* A packet of this number was damaged. *)
Marred(n) == \E x \in damaged : packets[x].seq = n

(* What was heard of an undamaged packet is in the reassembly buffer, and    *)
(* its sender goes on where that ends.                                        *)
Continued(s, p) ==
    /\ Transit(s) # <<>> /\ Pkt(Transit(s)[1]) = p /\ From(Transit(s)[1]) > 0
    /\ ~Marred(packets[p].seq) =>
          /\ espnow_rx_seq = packets[p].seq
          /\ espnow_rx_buf = Piece(p, 0, From(Transit(s)[1]))

Collecting ==
    /\ damaged \subseteq DOMAIN packets /\ open \subseteq DOMAIN packets
    /\ closed \subseteq DOMAIN packets
    /\ \A p \in open \ damaged : \A s \in Senders : packets[p].sender = s => Continued(s, p)
    /\ espnow_rx_seq = SEQ_UNSET => espnow_rx_buf = <<>>
    /\ espnow_rx_seq # SEQ_UNSET => \E p \in open : packets[p].seq = espnow_rx_seq
    /\ \A i \in 1..Len(espnow_rx_buf) :
          /\ espnow_rx_buf[i][1] \in DOMAIN packets
          /\ packets[espnow_rx_buf[i][1]].seq = espnow_rx_seq
    /\ \A p \in DOMAIN packets : config.v2 \/ packets[p].seq # SEQ_UNSET
    /\ config.v2 => open = {}

(* Whatever was delivered was sent by somebody. *)
Traced == \A d \in delivered : \A i \in 1..Len(d) : d[i][1] \in DOMAIN packets

Outcome == Traced /\ DamageContained /\ UndamagedDelivered

(* A step in which nothing is heard. *)
LEMMA QuietKeeps ==
  ASSUME Kinds, Collecting, Outcome, UNCHANGED <<config, reassembly>>,
         damaged \subseteq damaged', damaged' \subseteq DOMAIN packets',
         \A x \in DOMAIN packets : x \in DOMAIN packets' /\ packets'[x] = packets[x],
         \A x \in DOMAIN packets' \ DOMAIN packets : config.v2 \/ packets'[x].seq # SEQ_UNSET,
         \A s \in Senders : \A p \in open \ damaged' : packets[p].sender = s =>
            Transit(s)' # <<>> /\ Transit(s)'[1] = Transit(s)[1]
  PROVE  Collecting' /\ Outcome'
<1>1. UNCHANGED <<espnow_rx_seq, espnow_rx_buf, open, closed, delivered, config>>
  BY DEF reassembly
<1>2. \A n : Marred(n) => Marred(n)'
  BY DEF Marred, Collecting
<1>3. ASSUME NEW p \in open \ damaged', NEW s \in Senders, packets'[p].sender = s
      PROVE  Continued(s, p)'
  <2>1. p \in DOMAIN packets /\ packets'[p] = packets[p] /\ Continued(s, p)
    BY <1>3 DEF Collecting
  <2>2. Transit(s)' # <<>> /\ Transit(s)'[1] = Transit(s)[1]
    BY <1>3, <2>1
  <2>3. Marred(packets[p].seq)' <=> \E x \in damaged' : packets'[x].seq = packets[p].seq
    BY <2>1 DEF Marred
  <2>4. Marred(packets[p].seq) => \E x \in damaged' : packets'[x].seq = packets[p].seq
    BY DEF Marred, Collecting
  <2> QED BY <1>1, <2>1, <2>2, <2>3, <2>4 DEF Continued
<1>4. Collecting'
  <2>1. \A i \in 1..Len(espnow_rx_buf) :
          /\ espnow_rx_buf[i][1] \in DOMAIN packets'
          /\ packets'[espnow_rx_buf[i][1]].seq = espnow_rx_seq
    BY DEF Collecting
  <2>2. espnow_rx_seq # SEQ_UNSET => \E p \in open : packets'[p].seq = espnow_rx_seq
    BY DEF Collecting
  <2>3. \A p \in DOMAIN packets' : config.v2 \/ packets'[p].seq # SEQ_UNSET
    BY DEF Collecting
  <2> QED BY <1>1, <1>3, <2>1, <2>2, <2>3 DEF Collecting
<1>5. Traced'
  BY <1>1 DEF Outcome, Traced
<1>6. ASSUME NEW p \in DOMAIN packets
      PROVE  Bytes(p)' = Bytes(p) /\ (SharesNumber(p) => SharesNumber(p)')
  BY <1>1, <1>6 DEF Bytes, SharesNumber, Collecting
<1>7. DamageContained'
  <2> SUFFICES ASSUME NEW d \in delivered, NEW i \in 1..Len(d)
               PROVE  d = Bytes(d[i][1])' \/ SharesNumber(d[i][1])'
    BY <1>1 DEF DamageContained
  <2>1. d[i][1] \in DOMAIN packets
    BY DEF Outcome, Traced
  <2>2. d = Bytes(d[i][1]) \/ SharesNumber(d[i][1])
    BY DEF Outcome, DamageContained
  <2> QED BY <1>6, <2>1, <2>2
<1>8. UndamagedDelivered'
  <2> SUFFICES ASSUME NEW p \in closed \ damaged'
               PROVE  Bytes(p)' \in delivered \/ SharesNumber(p)'
    BY <1>1 DEF UndamagedDelivered
  <2>1. p \in DOMAIN packets /\ p \in closed \ damaged
    BY DEF Collecting
  <2>2. Bytes(p) \in delivered \/ SharesNumber(p)
    BY <2>1 DEF Outcome, UndamagedDelivered
  <2> QED BY <1>6, <2>1, <2>2
<1> QED BY <1>4, <1>5, <1>7, <1>8 DEF Outcome

(* The oldest frame of a sender. *)
FirstOf(s) == Transit(s)[1]

(* The frame that is heard or lost next is a piece of a packet that is not  *)
(* finished; of an undamaged one, what comes before it was heard and what   *)
(* comes after it follows.                                                   *)
LEMMA FirstFrame ==
  ASSUME Kinds, OnTheWay, NEW s \in Senders, Transit(s) # <<>>, NEW f, f = FirstOf(s)
  PROVE  LET p == Pkt(f)
         IN  /\ f \in Frame /\ f.data \in Payloads /\ f.more \in BOOLEAN
             /\ p \in DOMAIN packets /\ packets[p].sender = s /\ p \notin closed /\ p \in Nat
             /\ IsPiece(f, p, packets[p].size, packets[p].seq)
             /\ packets[p].size \in Nat /\ packets[p].size <= MTU /\ MTU \in Nat
             /\ packets[p].seq \in Nat
             /\ p \notin damaged /\ From(f) > 0 => p \in open
             /\ p \notin damaged /\ f.more =>
                   /\ Tail(Transit(s)) # <<>> /\ Follows(f, Tail(Transit(s))[1])
<1> DEFINE q == Transit(s)
           p == Pkt(f)
<1>1. q \in Seq(Frame) /\ q # <<>> /\ Sound(s, q)
  BY TransitSeq DEF OnTheWay
<1>2. 1 \in DOMAIN q /\ f = q[1] /\ f \in Frame
  BY <1>1 DEF FirstOf
<1>3. f.data \in Payloads /\ f.more \in BOOLEAN
  BY <1>2 DEF Frame
<1>4. /\ p \in DOMAIN packets /\ packets[p].sender = s /\ p \notin closed
      /\ IsPiece(f, p, packets[p].size, packets[p].seq)
  BY <1>1, <1>2 DEF Sound, Pieces
<1>5. /\ p \in Nat /\ packets[p].size \in Nat /\ packets[p].size <= MTU /\ MTU \in Nat
      /\ packets[p].seq \in Nat
  BY <1>4, PacketFacts
<1>6. p \notin damaged /\ From(f) > 0 => p \in open
  BY <1>1, <1>2 DEF Sound, FromTheStart
<1>7. ASSUME p \notin damaged, f.more PROVE Tail(q) # <<>> /\ Follows(f, Tail(q)[1])
  <2>1. 1 + 1 \in DOMAIN q /\ Follows(q[1], q[1 + 1])
    BY <1>1, <1>2, <1>7 DEF Sound, ToTheEnd
  <2> HIDE DEF q
  <2>2. 1 + 1 \in DOMAIN q \ {1} /\ (1 + 1) - 1 = 1
    BY <2>1
  <2>3. 1 \in DOMAIN Tail(q) /\ Tail(q)[1] = q[1 + 1]
    BY <1>1, <2>2, TailAt
  <2>4. Tail(q) # <<>>
    <3>1. DOMAIN <<>> = {}
      OBVIOUS
    <3> QED BY <2>3, <3>1
  <2> QED BY <1>2, <2>1, <2>3, <2>4
<1> QED BY <1>2, <1>3, <1>4, <1>5, <1>6, <1>7

(* With V1, a frame that is heard when no packet of its number is damaged    *)
(* continues what was collected of its packet.                                *)
LEMMA HeardContinues ==
  ASSUME Kinds, OnTheWay, Collecting, NEW s \in Senders, Transit(s) # <<>>, ~config.v2,
         NEW f, f = FirstOf(s), UNCHANGED packets,
         damaged' = damaged \cup (open \ {Pkt(f)}), ~Marred(f.seq)'
  PROVE  /\ Pkt(f) \notin damaged
         /\ Collected(f) = Piece(Pkt(f), 0, From(f))
         /\ Collected(f) \o f.data = Piece(Pkt(f), 0, Upto(f))
         /\ ~Overflows(f)
<1> DEFINE p == Pkt(f)
           n == packets[p].seq
<1>1. /\ p \in DOMAIN packets /\ packets[p].sender = s /\ p \in Nat
      /\ IsPiece(f, p, packets[p].size, n)
      /\ packets[p].size \in Nat /\ packets[p].size <= MTU /\ MTU \in Nat
      /\ p \notin damaged /\ From(f) > 0 => p \in open
  BY FirstFrame
<1>2. /\ f.seq = n /\ From(f) \in Nat /\ Upto(f) \in Nat /\ From(f) < Upto(f)
      /\ Upto(f) <= packets[p].size /\ f.data = Piece(p, From(f), Upto(f))
  BY <1>1 DEF IsPiece
<1>3. \A x \in damaged \cup (open \ {p}) : packets[x].seq # n
  BY <1>2 DEF Marred
<1>4. p \notin damaged /\ ~Marred(n)
  BY <1>3 DEF Marred
<1>5. p \in open => /\ From(f) > 0 /\ espnow_rx_seq = n /\ espnow_rx_buf = Piece(p, 0, From(f))
  BY <1>1, <1>4 DEF Collecting, Continued, FirstOf
<1>6. n # SEQ_UNSET
  BY <1>1 DEF Collecting
<1>7. Collected(f) = Piece(p, 0, From(f))
  <2>1. CASE p \in open
    BY <1>2, <1>5, <2>1 DEF Collected
  <2>2. CASE p \notin open
    <3>1. From(f) = 0
      BY <1>1, <1>2, <1>4, <2>2
    <3>2. espnow_rx_seq # n
      <4>1. SUFFICES ASSUME espnow_rx_seq = n PROVE FALSE
        OBVIOUS
      <4>2. PICK x \in open : packets[x].seq = n
        BY <1>6, <4>1 DEF Collecting
      <4> QED BY <1>3, <2>2, <4>2
    <3>3. Collected(f) = <<>>
      BY <1>2, <3>2 DEF Collected
    <3>4. Piece(p, 0, 0) = <<>>
      BY DEF Piece
    <3> QED BY <3>1, <3>3, <3>4
  <2> QED BY <2>1, <2>2
<1>8. Collected(f) \o f.data = Piece(p, 0, Upto(f))
  <2> DEFINE a == From(f)
             b == Upto(f)
  <2>1. 0 <= a /\ a <= b /\ 0 \in Nat /\ a \in Nat /\ b \in Nat /\ p \in Nat
    BY <1>1, <1>2
  <2>2. Piece(p, 0, a) \o Piece(p, a, b) = Piece(p, 0, b)
    <3> HIDE DEF a, b, p
    <3> QED BY <2>1, PiecesJoin
  <2> QED BY <1>2, <1>7, <2>2
<1>9. ~Overflows(f)
  <2>1. 0 <= From(f) /\ From(f) <= Upto(f) /\ 0 \in Nat
    BY <1>2
  <2>2. Len(Piece(p, 0, From(f))) = From(f) - 0
    BY <1>1, <1>2, <2>1, PieceFacts, ZenonT(60)
  <2>3. Len(Piece(p, From(f), Upto(f))) = Upto(f) - From(f)
    BY <1>1, <1>2, <2>1, PieceFacts, ZenonT(60)
  <2>4. Len(Collected(f)) + Len(f.data) = Upto(f)
    BY <1>2, <1>7, <2>2, <2>3
  <2> QED BY <1>1, <1>2, <2>4 DEF Overflows
<1> QED BY <1>4, <1>7, <1>8, <1>9

(* With V1, all that is collected under a number is of packets with it. *)
LEMMA HeardNumbers ==
  ASSUME Kinds, OnTheWay, Collecting, NEW s \in Senders, Transit(s) # <<>>,
         NEW f, f = FirstOf(s)
  PROVE  \A d : d = Collected(f) \o f.data =>
            \A i \in 1..Len(d) : d[i][1] \in DOMAIN packets /\ packets[d[i][1]].seq = f.seq
<1> TAKE d
<1> HAVE d = Collected(f) \o f.data
<1> DEFINE p == Pkt(f)
           c == Collected(f)
<1>1. /\ p \in DOMAIN packets /\ p \in Nat /\ f.data \in Payloads
      /\ IsPiece(f, p, packets[p].size, packets[p].seq)
  BY FirstFrame
<1>2. /\ f.seq = packets[p].seq /\ From(f) \in Nat /\ Upto(f) \in Nat /\ From(f) <= Upto(f)
      /\ f.data = Piece(p, From(f), Upto(f))
  BY <1>1 DEF IsPiece
<1>3. \A i \in 1..Len(f.data) : f.data[i] = <<p, From(f) + i>>
  <2> DEFINE a == From(f)
             b == Upto(f)
  <2>1. a \in Nat /\ b \in Nat /\ a <= b /\ p \in Nat /\ f.data = Piece(p, a, b)
    BY <1>1, <1>2
  <2> HIDE DEF a, b, p
  <2>2. Len(Piece(p, a, b)) = b - a /\ \A i \in 1..(b - a) : Piece(p, a, b)[i] = <<p, a + i>>
    BY <2>1, PieceFacts
  <2>3. \A i \in 1..Len(f.data) : f.data[i] = <<p, a + i>>
    BY <2>1, <2>2
  <2> QED BY <2>3 DEF a, p
<1>4. c \in Payloads
  BY DEF Collected, Payloads, Kinds
<1>5. \A i \in 1..Len(c) : c[i][1] \in DOMAIN packets /\ packets[c[i][1]].seq = f.seq
  BY DEF Collected, Collecting
<1> HIDE DEF c
<1>6. /\ Len(d) = Len(c) + Len(f.data)
      /\ \A i \in 1..Len(c) : d[i] = c[i]
      /\ \A i \in 1..Len(f.data) : d[Len(c) + i] = f.data[i]
  <2>1. c \in Seq(Nat \X Nat) /\ f.data \in Seq(Nat \X Nat)
    BY <1>1, <1>4 DEF Payloads
  <2>2. /\ Len(c \o f.data) = Len(c) + Len(f.data)
        /\ \A i \in 1..Len(c) : (c \o f.data)[i] = c[i]
        /\ \A i \in 1..Len(f.data) : (c \o f.data)[Len(c) + i] = f.data[i]
    BY <2>1, ConcatAt
  <2> QED BY <2>2 DEF c
<1>7. Len(c) \in Nat /\ Len(f.data) \in Nat
  BY <1>1, <1>4 DEF Payloads
<1> SUFFICES ASSUME NEW i \in 1..Len(d)
             PROVE  d[i][1] \in DOMAIN packets /\ packets[d[i][1]].seq = f.seq
  OBVIOUS
<1>8. i \in 1..Len(c) \/ i - Len(c) \in 1..Len(f.data)
  BY <1>6, <1>7
<1>9. CASE i \in 1..Len(c)
  BY <1>5, <1>6, <1>9
<1>10. CASE i - Len(c) \in 1..Len(f.data)
  <2> DEFINE k == i - Len(c)
  <2>1. k \in 1..Len(f.data) /\ i = Len(c) + k
    <3>1. i \in Int
      BY <1>6, <1>7
    <3> QED BY <1>7, <1>10, <3>1
  <2> HIDE DEF k
  <2>2. d[i] = <<p, From(f) + k>>
    BY <1>3, <1>6, <2>1
  <2> QED BY <1>1, <1>2, <2>2, SMTT(30)
<1> QED BY <1>8, <1>9, <1>10

(* What Heard(s) does, for the frame that is heard. *)
Hears(s, f) ==
    /\ f = FirstOf(s) /\ Transit(s) # <<>> /\ Transit(s)' = Tail(Transit(s))
    /\ \A t \in Senders \ {s} : Transit(t)' = Transit(t)
    /\ UNCHANGED <<packets, config>>
    /\ open' = (IF f.more THEN open \cup {Pkt(f)} ELSE open \ {Pkt(f)})
    /\ closed' = (IF f.more THEN closed ELSE closed \cup {Pkt(f)})
    /\ damaged' = damaged \cup (open \ {Pkt(f)})
    /\ espnow_recv_cb(f)

(* The frame Heard(s) takes from the driver is its sender's oldest. *)
LEMMA HeardHears ==
  ASSUME Kinds, PacedInv, NEW s \in Senders, Heard(s)
  PROVE  Hears(s, Head(driver[s]))
<1>1. /\ \A t \in Senders \ {s} : Transit(t)' = Transit(t)
      /\ Transit(s) # <<>> /\ Transit(s)' = Tail(Transit(s))
      /\ Head(driver[s]) = Transit(s)[1]
  BY AirTransit DEF OnAir
<1> QED BY <1>1 DEF Heard, Hears, FirstOf, Pkt

(* What is still on its way stays as it should be when a frame is heard. *)
LEMMA HeardSound ==
  ASSUME Kinds, OnTheWay, NEW s \in Senders, NEW f, Hears(s, f)
  PROVE  OnTheWay'
<1>1. f = Transit(s)[1] /\ packets[Pkt(f)].sender = s
  BY FirstFrame DEF Hears, FirstOf
<1>2. Sound(s, Transit(s))'
  <2>1. \/ closed' = closed
        \/ closed' = closed \cup {Pkt(Transit(s)[1])} /\ ~Transit(s)[1].more
    BY <1>1 DEF Hears
  <2>2. Transit(s)[1].more => Pkt(Transit(s)[1]) \in open'
    BY <1>1 DEF Hears
  <2>3. /\ Transit(s) # <<>> /\ Transit(s)' = Tail(Transit(s)) /\ UNCHANGED <<packets, config>>
        /\ damaged \subseteq damaged' /\ Sound(s, Transit(s))
    BY DEF Hears, OnTheWay
  <2> QED BY <2>1, <2>2, <2>3, TailSound
<1>3. ASSUME NEW t \in Senders \ {s} PROVE Sound(t, Transit(t))'
  <2>1. \A x \in closed' \ closed : packets[x].sender # t
    BY <1>1 DEF Hears
  <2>2. \A x \in open \ open' : packets[x].sender # t
    BY <1>1 DEF Hears
  <2>3. /\ Transit(t)' = Transit(t) /\ UNCHANGED <<packets, config>>
        /\ damaged \subseteq damaged' /\ Sound(t, Transit(t)) /\ t \in Senders
    BY DEF Hears, OnTheWay
  <2> QED BY <2>1, <2>2, <2>3, OtherSound
<1> QED BY <1>2, <1>3 DEF OnTheWay

(* The reassembly buffer after a frame of V1. *)
LEMMA HeardBuffer ==
  ASSUME ~config.v2, NEW f, f.more \in BOOLEAN, espnow_recv_cb(f)
  PROVE  /\ f.more /\ ~Overflows(f) =>
               espnow_rx_seq' = f.seq /\ espnow_rx_buf' = Collected(f) \o f.data
         /\ ~(f.more /\ ~Overflows(f)) => espnow_rx_seq' = SEQ_UNSET /\ espnow_rx_buf' = <<>>
BY DEF espnow_recv_cb, SeqAfter

(* What was heard of an undamaged packet stays in the reassembly buffer. *)
LEMMA HeardCollecting ==
  ASSUME Kinds, OnTheWay, Collecting, NEW s \in Senders, NEW f, Hears(s, f)
  PROVE  Collecting'
<1> DEFINE p == Pkt(f)
           n == packets[p].seq
<1>1. /\ f \in Frame /\ f.more \in BOOLEAN /\ p \in DOMAIN packets /\ packets[p].sender = s
      /\ IsPiece(f, p, packets[p].size, n)
      /\ p \notin damaged /\ f.more =>
            Tail(Transit(s)) # <<>> /\ Follows(f, Tail(Transit(s))[1])
  BY FirstFrame DEF Hears
<1>2. /\ f.seq = n /\ From(f) \in Nat /\ Upto(f) \in Nat /\ From(f) < Upto(f)
      /\ config.v2 => ~f.more
  BY <1>1 DEF IsPiece
<1>3. UNCHANGED <<packets, config>>
  BY DEF Hears
<1>4. CASE config.v2
  <2>1. open = {} /\ ~f.more /\ UNCHANGED <<espnow_rx_seq, espnow_rx_buf>>
    BY <1>2, <1>4 DEF Collecting, Hears, espnow_recv_cb
  <2>2. open' = {} /\ damaged' = damaged /\ closed' = closed \cup {p}
    BY <2>1 DEF Hears
  <2> QED BY <1>1, <1>3, <1>4, <2>1, <2>2 DEF Collecting
<1>5. CASE ~config.v2
  <2>1. /\ f.more /\ ~Overflows(f) =>
              espnow_rx_seq' = n /\ espnow_rx_buf' = Collected(f) \o f.data
        /\ ~(f.more /\ ~Overflows(f)) => espnow_rx_seq' = SEQ_UNSET /\ espnow_rx_buf' = <<>>
    <3>1. f.more \in BOOLEAN /\ espnow_recv_cb(f)
      BY <1>1 DEF Hears
    <3>2. /\ f.more /\ ~Overflows(f) =>
                espnow_rx_seq' = f.seq /\ espnow_rx_buf' = Collected(f) \o f.data
          /\ ~(f.more /\ ~Overflows(f)) => espnow_rx_seq' = SEQ_UNSET /\ espnow_rx_buf' = <<>>
      BY <1>5, <3>1, HeardBuffer
    <3> QED BY <1>2, <3>2
  <2>2. n # SEQ_UNSET
    BY <1>1, <1>5 DEF Collecting
  <2>3. /\ damaged' \subseteq DOMAIN packets' /\ open' \subseteq DOMAIN packets'
        /\ closed' \subseteq DOMAIN packets'
    BY <1>1, <1>3 DEF Collecting, Hears
  <2>4. ASSUME NEW x \in open' \ damaged', NEW t \in Senders, packets'[x].sender = t
        PROVE  Continued(t, x)'
    <3>1. x = p /\ f.more /\ p \notin damaged /\ t = s
      BY <1>1, <1>3, <2>4 DEF Hears
    <3>2. Transit(s)' # <<>> /\ Pkt(Transit(s)'[1]) = p /\ From(Transit(s)'[1]) = Upto(f)
      BY <1>1, <3>1 DEF Hears, Follows
    <3>3. From(Transit(s)'[1]) > 0
      BY <1>2, <3>2
    <3>4. ASSUME ~Marred(n)'
          PROVE  espnow_rx_seq' = n /\ espnow_rx_buf' = Piece(p, 0, Upto(f))
      <4>1. ~Overflows(f) /\ Collected(f) \o f.data = Piece(p, 0, Upto(f))
        <5>1. ~Marred(f.seq)'
          BY <1>2, <1>3, <3>4 DEF Marred
        <5>2. Transit(s) # <<>> /\ f = FirstOf(s) /\ damaged' = damaged \cup (open \ {Pkt(f)})
          BY DEF Hears
        <5> QED BY <1>3, <1>5, <5>1, <5>2, HeardContinues
      <4> QED BY <2>1, <3>1, <4>1
    <3>5. Marred(n)' <=> Marred(packets[x].seq)'
      BY <3>1
    <3> QED BY <1>3, <3>1, <3>2, <3>3, <3>4 DEF Continued
  <2>5. espnow_rx_seq' = SEQ_UNSET => espnow_rx_buf' = <<>>
    BY <2>1, <2>2
  <2>6. espnow_rx_seq' # SEQ_UNSET => \E x \in open' : packets'[x].seq = espnow_rx_seq'
    BY <1>3, <2>1 DEF Hears
  <2>7. \A i \in 1..Len(espnow_rx_buf') :
           /\ espnow_rx_buf'[i][1] \in DOMAIN packets'
           /\ packets'[espnow_rx_buf'[i][1]].seq = espnow_rx_seq'
    <3>1. CASE f.more /\ ~Overflows(f)
      <4>1. \A i \in 1..Len(espnow_rx_buf') :
               /\ espnow_rx_buf'[i][1] \in DOMAIN packets
               /\ packets[espnow_rx_buf'[i][1]].seq = f.seq
        BY <2>1, <3>1, HeardNumbers, ZenonT(60) DEF Hears
      <4> QED BY <1>2, <1>3, <2>1, <3>1, <4>1
    <3>2. CASE ~(f.more /\ ~Overflows(f))
      BY <2>1, <3>2
    <3> QED BY <3>1, <3>2
  <2>8. \A x \in DOMAIN packets' : config'.v2 \/ packets'[x].seq # SEQ_UNSET
    BY <1>3 DEF Collecting
  <2> QED BY <1>3, <1>5, <2>3, <2>4, <2>5, <2>6, <2>7, <2>8 DEF Collecting
<1> QED BY <1>4, <1>5

(* The last frame of a packet makes it whole, unless its number was damaged. *)
LEMMA HeardWhole ==
  ASSUME Kinds, OnTheWay, Collecting, NEW s \in Senders, NEW f, Hears(s, f), ~f.more,
         config.v2 \/ ~Marred(f.seq)'
  PROVE  /\ Delivers(f) /\ HeardData(f) = Bytes(Pkt(f))
         /\ \A i \in 1..Len(HeardData(f)) : HeardData(f)[i][1] = Pkt(f)
<1> DEFINE p == Pkt(f)
           size == packets[p].size
<1>1. /\ p \in DOMAIN packets /\ p \in Nat /\ size \in Nat
      /\ IsPiece(f, p, size, packets[p].seq)
  BY FirstFrame DEF Hears
<1>2. /\ Upto(f) = size /\ f.data = Piece(p, From(f), Upto(f)) /\ (config.v2 => From(f) = 0)
  BY <1>1 DEF IsPiece
<1>3. Delivers(f) /\ HeardData(f) = Piece(p, 0, size)
  <2>1. CASE config.v2
    BY <1>2, <2>1 DEF Delivers, HeardData
  <2>2. CASE ~config.v2
    <3>1. Transit(s) # <<>> /\ f = FirstOf(s) /\ damaged' = damaged \cup (open \ {Pkt(f)})
          /\ UNCHANGED packets /\ ~Marred(f.seq)'
      BY <2>2 DEF Hears
    <3>2. ~Overflows(f) /\ Collected(f) \o f.data = Piece(Pkt(f), 0, Upto(f))
      BY <2>2, <3>1, HeardContinues
    <3> QED BY <1>2, <2>2, <3>2 DEF Delivers, HeardData
  <2> QED BY <2>1, <2>2
<1>4. Piece(p, 0, size) = Bytes(p)
  BY <1>1 DEF Piece, Bytes
<1>5. \A i \in 1..Len(Piece(p, 0, size)) : Piece(p, 0, size)[i][1] = p
  <2> HIDE DEF p, size
  <2> QED BY <1>1 DEF Piece
<1> QED BY <1>3, <1>4, <1>5

(* Damage stays with its number, and a whole packet is delivered. *)
LEMMA HeardOutcome ==
  ASSUME Kinds, OnTheWay, Collecting, Outcome, NEW s \in Senders, NEW f, Hears(s, f)
  PROVE  Outcome'
<1> DEFINE p == Pkt(f)
<1>0. PICK d : d = HeardData(f)
  OBVIOUS
<1>1. f \in Frame /\ p \in DOMAIN packets /\ f.seq = packets[p].seq
  BY FirstFrame DEF Hears, IsPiece
<1>2. UNCHANGED <<packets, config>> /\ damaged \subseteq damaged'
  BY DEF Hears
<1>3. /\ Delivers(f) => delivered' = delivered \cup {d}
      /\ ~Delivers(f) => delivered' = delivered
  BY <1>0, <1>1, RecvKinds DEF Hears, espnow_rx_deliver
<1>4. \A x : Bytes(x)' = Bytes(x) /\ (SharesNumber(x) => SharesNumber(x)')
  BY <1>2 DEF Bytes, SharesNumber
<1>5. ~config.v2 => \A i \in 1..Len(d) :
                       d[i][1] \in DOMAIN packets /\ packets[d[i][1]].seq = f.seq
  <2> SUFFICES ASSUME ~config.v2
               PROVE  \A i \in 1..Len(d) :
                         d[i][1] \in DOMAIN packets /\ packets[d[i][1]].seq = f.seq
    OBVIOUS
  <2>1. d = Collected(f) \o f.data /\ Transit(s) # <<>> /\ f = FirstOf(s)
    BY <1>0 DEF Hears, HeardData
  <2>2. \A e : e = Collected(f) \o f.data =>
           \A i \in 1..Len(e) : e[i][1] \in DOMAIN packets /\ packets[e[i][1]].seq = f.seq
    BY <2>1, HeardNumbers
  <2> QED BY <2>1, <2>2
<1>6. ASSUME ~f.more, config.v2 \/ ~Marred(f.seq)'
      PROVE  Delivers(f) /\ d = Bytes(p) /\ \A i \in 1..Len(d) : d[i][1] = p
  BY <1>0, <1>6, HeardWhole
<1>7. Delivers(f) => ~f.more
  BY FirstFrame DEF Delivers, Hears, IsPiece
<1>8. ASSUME ~config.v2, Marred(f.seq)', NEW x, packets[x].seq = f.seq
      PROVE  SharesNumber(x)'
  BY <1>2, <1>8 DEF Marred, SharesNumber
<1> HIDE DEF p
<1>9. Traced'
  <2>1. ASSUME Delivers(f), NEW i \in 1..Len(d) PROVE d[i][1] \in DOMAIN packets
    BY <1>1, <1>5, <1>6, <1>7, <2>1
  <2> QED BY <1>2, <1>3, <2>1 DEF Outcome, Traced
<1>10. DamageContained'
  <2>1. ASSUME Delivers(f), NEW i \in 1..Len(d)
        PROVE  d = Bytes(d[i][1])' \/ SharesNumber(d[i][1])'
    <3>1. CASE config.v2 \/ ~Marred(f.seq)'
      BY <1>4, <1>6, <1>7, <2>1, <3>1
    <3>2. CASE ~config.v2 /\ Marred(f.seq)'
      BY <1>5, <1>8, <2>1, <3>2
    <3> QED BY <3>1, <3>2
  <2>2. ASSUME NEW e \in delivered, NEW i \in 1..Len(e)
        PROVE  e = Bytes(e[i][1])' \/ SharesNumber(e[i][1])'
    BY <1>4, <2>2 DEF Outcome, DamageContained
  <2>3. ASSUME NEW e \in delivered', NEW i \in 1..Len(e)
        PROVE  e = Bytes(e[i][1])' \/ SharesNumber(e[i][1])'
    <3>1. e \in delivered \/ (Delivers(f) /\ e = d)
      BY <1>3
    <3> QED BY <2>1, <2>2, <2>3, <3>1
  <2> QED BY <2>3 DEF DamageContained
<1>11. UndamagedDelivered'
  <2>1. ASSUME NEW x \in closed' \ damaged' PROVE Bytes(x)' \in delivered' \/ SharesNumber(x)'
    <3>1. CASE x \in closed
      BY <1>2, <1>3, <1>4, <2>1, <3>1 DEF Outcome, UndamagedDelivered
    <3>2. CASE x \notin closed
      <4>1. x = p /\ ~f.more
        BY <2>1, <3>2 DEF Hears, p
      <4>2. CASE config.v2 \/ ~Marred(f.seq)'
        BY <1>3, <1>4, <1>6, <4>1, <4>2
      <4>3. CASE ~config.v2 /\ Marred(f.seq)'
        BY <1>1, <1>8, <4>1, <4>3
      <4> QED BY <4>2, <4>3
    <3> QED BY <3>1, <3>2
  <2> QED BY <2>1 DEF UndamagedDelivered
<1> QED BY <1>9, <1>10, <1>11 DEF Outcome

-----------------------------------------------------------------------------
(* The steps in which nothing is heard *)

LinkInv == OnTheWay /\ Collecting /\ Outcome

(* A step that leaves every sender's frames where they are. *)
LEMMA StillLink ==
  ASSUME Kinds, LinkInv, UNCHANGED <<packets, config, reassembly, damaged>>,
         \A t \in Senders : Transit(t)' = Transit(t)
  PROVE  LinkInv'
<1>1. UNCHANGED <<open, closed>>
  BY DEF reassembly
<1>2. ASSUME NEW t \in Senders PROVE Sound(t, Transit(t))'
  <2>1. /\ Sound(t, Transit(t)) /\ Transit(t)' = Transit(t) /\ UNCHANGED <<packets, config>>
        /\ damaged \subseteq damaged' /\ \A x \in closed' \ closed : packets[x].sender # t
        /\ \A x \in open \ open' : packets[x].sender # t
    BY <1>1, <1>2 DEF LinkInv, OnTheWay
  <2> QED BY <2>1, OtherSound
<1>3. \A s \in Senders : \A p \in open \ damaged' : packets[p].sender = s =>
         Transit(s)' # <<>> /\ Transit(s)'[1] = Transit(s)[1]
  BY DEF LinkInv, Collecting, Continued
<1>4. Collecting' /\ Outcome'
  <2>1. /\ damaged \subseteq damaged' /\ damaged' \subseteq DOMAIN packets'
        /\ \A x \in DOMAIN packets : x \in DOMAIN packets' /\ packets'[x] = packets[x]
        /\ \A x \in DOMAIN packets' \ DOMAIN packets : config.v2 \/ packets'[x].seq # SEQ_UNSET
        /\ UNCHANGED <<config, reassembly>>
    BY DEF LinkInv, Collecting
  <2> QED BY <1>3, <2>1, QuietKeeps DEF LinkInv
<1> QED BY <1>2, <1>4 DEF LinkInv, OnTheWay

(* A frame that is refused or that nobody hears: its packet is damaged. *)
LEMMA LostLink ==
  ASSUME Kinds, LinkInv, NEW s \in Senders, UNCHANGED <<packets, config, reassembly>>,
         Transit(s) # <<>>, Transit(s)' = Tail(Transit(s)),
         \A t \in Senders \ {s} : Transit(t)' = Transit(t),
         damaged' = damaged \cup {Pkt(Transit(s)[1])}
  PROVE  LinkInv'
<1> DEFINE p == Pkt(FirstOf(s))
<1>1. UNCHANGED <<open, closed>>
  BY DEF reassembly
<1>2. p \in DOMAIN packets /\ packets[p].sender = s /\ p \in damaged'
  BY FirstFrame DEF LinkInv, FirstOf
<1>3. Sound(s, Transit(s))'
  <2>1. /\ Sound(s, Transit(s)) /\ UNCHANGED <<packets, config>> /\ damaged \subseteq damaged'
        /\ closed' = closed /\ Pkt(Transit(s)[1]) \in damaged'
    BY <1>1, <1>2 DEF LinkInv, OnTheWay, FirstOf
  <2> QED BY <2>1, TailSound
<1>4. ASSUME NEW t \in Senders \ {s} PROVE Sound(t, Transit(t))'
  <2>1. /\ Sound(t, Transit(t)) /\ Transit(t)' = Transit(t) /\ UNCHANGED <<packets, config>>
        /\ damaged \subseteq damaged' /\ \A x \in closed' \ closed : packets[x].sender # t
        /\ \A x \in open \ open' : packets[x].sender # t /\ t \in Senders
    BY <1>1, <1>4 DEF LinkInv, OnTheWay
  <2> QED BY <2>1, OtherSound
<1>5. \A t \in Senders : \A x \in open \ damaged' : packets[x].sender = t =>
         Transit(t)' # <<>> /\ Transit(t)'[1] = Transit(t)[1]
  <2> SUFFICES ASSUME NEW t \in Senders, NEW x \in open \ damaged', packets[x].sender = t
               PROVE  Transit(t)' # <<>> /\ Transit(t)'[1] = Transit(t)[1]
    OBVIOUS
  <2>1. Transit(t) # <<>> /\ Pkt(Transit(t)[1]) = x
    BY DEF LinkInv, Collecting, Continued
  <2>2. t # s
    BY <1>2, <2>1 DEF FirstOf
  <2> QED BY <2>1, <2>2
<1>6. Collecting' /\ Outcome'
  <2>1. /\ damaged \subseteq damaged' /\ damaged' \subseteq DOMAIN packets'
        /\ \A x \in DOMAIN packets : x \in DOMAIN packets' /\ packets'[x] = packets[x]
        /\ \A x \in DOMAIN packets' \ DOMAIN packets : config.v2 \/ packets'[x].seq # SEQ_UNSET
        /\ UNCHANGED <<config, reassembly>>
    BY <1>2 DEF LinkInv, Collecting, FirstOf
  <2> QED BY <1>5, <2>1, QuietKeeps DEF LinkInv
<1> QED BY <1>3, <1>4, <1>6 DEF LinkInv, OnTheWay

(* A packet is sent: its frames come after those that are on their way. *)
LEMMA SendLink ==
  ASSUME Kinds, PacedInv, LinkInv, NEW s \in Senders, NEW size \in Sizes,
         NEW seq \in (IF config.v2 THEN {SEQ_UNSET} ELSE Seqs), espnow_send(s, size, seq)
  PROVE  LinkInv'
<1> DEFINE p == Len(packets) + 1
           fr == Frames(p, size, seq)
           r == [sender |-> s, size |-> size, seq |-> seq]
<1>1. /\ packets' = Append(packets, r)
      /\ espnow_tx_queue' = [espnow_tx_queue EXCEPT ![s] = Enqueued(s, fr)]
      /\ damaged' = IF Len(espnow_tx_queue[s]) + Len(fr) > TxQueueSize
                    THEN damaged \cup {p} ELSE damaged
      /\ UNCHANGED <<driver, sending, chunk, config, reassembly, open, closed>>
  BY DEF espnow_send, reassembly
<1>2. seq \in Nat /\ (config.v2 \/ seq # SEQ_UNSET) /\ r \in PacketRecord
  <2>1. seq \in Nat /\ (config.v2 \/ seq # SEQ_UNSET)
    BY EspNowAssumption DEF SEQ_UNSET
  <2> QED BY <2>1 DEF PacketRecord
<1>3. /\ p \in Nat /\ p \in DOMAIN packets' /\ packets'[p] = r
      /\ DOMAIN packets' = DOMAIN packets \cup {p} /\ p \notin DOMAIN packets
      /\ \A x \in DOMAIN packets : packets'[x] = packets[x]
  BY <1>1, <1>2, SendPackets
<1>4. fr \in Seq(Frame)
  BY <1>2, <1>3, FramesFacts DEF IsCut, Kinds
<1>5. \A t \in Senders \ {s} : Transit(t)' = Transit(t)
  BY <1>1, <1>4, SendTransit
<1>6. PICK m \in 0..Len(fr) :
         /\ Transit(s)' \in Seq(Frame)
         /\ Len(Transit(s)') = Len(Transit(s)) + m
         /\ m = Len(fr) \/ Len(espnow_tx_queue[s]) + Len(fr) > TxQueueSize
         /\ \A i \in 1..Len(Transit(s)) : Transit(s)'[i] = Transit(s)[i]
         /\ \A i \in 1..m : Transit(s)'[Len(Transit(s)) + i] = fr[i]
  BY <1>1, <1>4, SendTransit
<1>7. m = Len(fr) \/ p \in damaged'
  BY <1>1, <1>6
<1>8. damaged \subseteq damaged' /\ damaged' \subseteq DOMAIN packets'
  BY <1>1, <1>3 DEF LinkInv, Collecting
<1>9. Sound(s, Transit(s))'
  <2>1. /\ Sound(s, Transit(s)) /\ UNCHANGED <<config, open, closed>>
        /\ closed \subseteq DOMAIN packets /\ damaged \subseteq damaged'
    BY <1>1, <1>8 DEF LinkInv, OnTheWay, Collecting
  <2>2. packets' = Append(packets, [sender |-> s, size |-> size, seq |-> seq])
    BY <1>1
  <2> HIDE DEF p, fr
  <2>3. p = Len(packets) + 1 /\ fr = Frames(p, size, seq)
    BY DEF p, fr
  <2> QED BY <1>2, <1>6, <1>7, <2>1, <2>2, <2>3, SendSound
<1>10. ASSUME NEW t \in Senders \ {s} PROVE Sound(t, Transit(t))'
  <2>1. /\ t \in Senders /\ Sound(t, Transit(t)) /\ Transit(t)' = Transit(t)
        /\ UNCHANGED <<config, open, closed>> /\ damaged \subseteq damaged'
        /\ \A x \in DOMAIN packets : packets'[x] = packets[x] /\ x \in DOMAIN packets'
    BY <1>1, <1>3, <1>5, <1>8, <1>10 DEF LinkInv, OnTheWay
  <2> QED BY <2>1, SendOthersSound
<1>11. \A t \in Senders : \A x \in open \ damaged' : packets[x].sender = t =>
         Transit(t)' # <<>> /\ Transit(t)'[1] = Transit(t)[1]
  <2> SUFFICES ASSUME NEW t \in Senders, NEW x \in open \ damaged', packets[x].sender = t
               PROVE  Transit(t)' # <<>> /\ Transit(t)'[1] = Transit(t)[1]
    OBVIOUS
  <2>1. Transit(t) # <<>>
    BY <1>8 DEF LinkInv, Collecting, Continued
  <2>2. CASE t # s
    BY <1>5, <2>1, <2>2
  <2>3. CASE t = s
    <3>1. Transit(s) \in Seq(Frame) /\ m \in Nat
      BY <1>6, TransitSeq
    <3>2. Len(Transit(s)) \in Nat /\ Len(Transit(s)) >= 1
      BY <2>1, <2>3, <3>1
    <3>3. Transit(s)'[1] = Transit(s)[1] /\ Len(Transit(s)') >= 1
      BY <1>6, <3>1, <3>2
    <3>4. Transit(s)' # <<>>
      BY <3>3
    <3> QED BY <2>3, <3>3, <3>4
  <2> QED BY <2>2, <2>3
<1>12. Collecting' /\ Outcome'
  <2>1. /\ \A x \in DOMAIN packets : x \in DOMAIN packets' /\ packets'[x] = packets[x]
        /\ \A x \in DOMAIN packets' \ DOMAIN packets : config.v2 \/ packets'[x].seq # SEQ_UNSET
        /\ UNCHANGED <<config, reassembly>>
    BY <1>1, <1>2, <1>3
  <2> QED BY <1>8, <1>11, <2>1, QuietKeeps DEF LinkInv
<1> QED BY <1>9, <1>10, <1>12 DEF LinkInv, OnTheWay

(* At boot nothing was sent. *)
LEMMA LinkInit == Init => LinkInv
<1> SUFFICES ASSUME Init PROVE LinkInv
  OBVIOUS
<1>1. DOMAIN <<>> = {} /\ Len(<<>>) = 0 /\ DOMAIN packets = {}
  BY DEF Init
<1>2. ASSUME NEW s \in Senders PROVE Transit(s) = <<>>
  <2>1. driver[s] = <<>> /\ Held(s) = <<>> /\ espnow_tx_queue[s] = <<>>
    BY DEF Init, Held
  <2> QED BY <2>1 DEF Transit
<1>3. OnTheWay
  BY <1>1, <1>2 DEF OnTheWay, Sound, Pieces, InOrder, ToTheEnd, FromTheStart
<1>4. Collecting
  BY <1>1 DEF Init, Collecting, SEQ_UNSET
<1>5. Outcome
  BY DEF Init, Outcome, Traced, DamageContained, UndamagedDelivered
<1> QED BY <1>3, <1>4, <1>5 DEF LinkInv

(* Every step keeps what is on its way, and what was heard, in order. *)
LEMMA LinkStep == Kinds /\ PacedInv /\ LinkInv /\ [Next]_vars => LinkInv'
<1> SUFFICES ASSUME Kinds, PacedInv, LinkInv, [Next]_vars PROVE LinkInv'
  OBVIOUS
<1>1. ASSUME NEW s \in Senders, NEW size \in Sizes,
             NEW seq \in (IF config.v2 THEN {SEQ_UNSET} ELSE Seqs), espnow_send(s, size, seq)
      PROVE  LinkInv'
  BY <1>1, SendLink
<1>2. ASSUME NEW s \in Senders, TakeChunk(s) PROVE LinkInv'
  <2>1. \A t \in Senders : Transit(t)' = Transit(t)
    BY <1>2, TakeTransit
  <2>2. UNCHANGED <<packets, config, reassembly, damaged>>
    BY <1>2 DEF TakeChunk
  <2> QED BY <2>1, <2>2, StillLink
<1>3. ASSUME NEW s \in Senders, esp_now_send(s) PROVE LinkInv'
  <2>1. /\ \A t \in Senders \ {s} : Transit(t)' = Transit(t)
        /\ \/ Transit(s)' = Transit(s) /\ UNCHANGED damaged
           \/ /\ Transit(s) # <<>> /\ Transit(s)' = Tail(Transit(s))
              /\ damaged' = damaged \cup {Pkt(Transit(s)[1])}
    BY <1>3, CallTransit
  <2>2. UNCHANGED <<packets, config, reassembly>>
    BY <1>3 DEF esp_now_send
  <2>3. CASE Transit(s)' = Transit(s) /\ UNCHANGED damaged
    <3>1. \A t \in Senders : Transit(t)' = Transit(t)
      BY <2>1, <2>3
    <3> QED BY <2>2, <2>3, <3>1, StillLink
  <2>4. CASE /\ Transit(s) # <<>> /\ Transit(s)' = Tail(Transit(s))
             /\ damaged' = damaged \cup {Pkt(Transit(s)[1])}
    BY <2>1, <2>2, <2>4, LostLink
  <2> QED BY <2>1, <2>3, <2>4
<1>4. ASSUME NEW s \in Senders, Return(s) PROVE LinkInv'
  <2>1. \A t \in Senders : Transit(t)' = Transit(t)
    BY <1>4, OtherTransit
  <2>2. UNCHANGED <<packets, config, reassembly, damaged>>
    BY <1>4 DEF Return
  <2> QED BY <2>1, <2>2, StillLink
<1>5. ASSUME NEW s \in Senders, Heard(s) PROVE LinkInv'
  <2>1. PICK f : f = Head(driver[s])
    OBVIOUS
  <2>2. Hears(s, f)
    BY <1>5, <2>1, HeardHears
  <2>3. Kinds /\ OnTheWay /\ Collecting /\ Outcome
    BY DEF LinkInv
  <2> QED BY <2>2, <2>3, HeardSound, HeardCollecting, HeardOutcome DEF LinkInv
<1>6. ASSUME NEW s \in Senders, Unheard(s) PROVE LinkInv'
  <2>1. /\ \A t \in Senders \ {s} : Transit(t)' = Transit(t)
        /\ Transit(s) # <<>> /\ Transit(s)' = Tail(Transit(s))
        /\ Head(driver[s]) = Transit(s)[1]
    BY <1>6, AirTransit DEF OnAir
  <2>2. UNCHANGED <<packets, config, reassembly>>
    BY <1>6 DEF Unheard
  <2>3. damaged' = damaged \cup {Pkt(Transit(s)[1])}
    BY <1>6, <2>1 DEF Unheard, Pkt
  <2> QED BY <2>1, <2>2, <2>3, LostLink
<1>7. CASE \/ \E s \in Senders : espnow_send_cb(s)
           \/ update_espnow \/ HandleStaged \/ FreeStaged \/ UNCHANGED vars
  <2>1. /\ UNCHANGED <<driver, sending, chunk, espnow_tx_queue>>
        /\ UNCHANGED <<packets, config, reassembly, damaged>>
    BY <1>7 DEF espnow_send_cb, update_espnow, HandleStaged, FreeStaged, vars, transmitter
  <2>2. \A t \in Senders : Transit(t)' = Transit(t)
    BY <2>1, OtherTransit
  <2> QED BY <2>1, <2>2, StillLink
<1> QED BY <1>1, <1>2, <1>3, <1>4, <1>5, <1>6, <1>7 DEF Next

(* At boot the types are right. *)
LEMMA KindsInit == Init => Kinds
<1> SUFFICES ASSUME Init PROVE Kinds
  OBVIOUS
<1>1. NoFrame \in Frame /\ <<>> \in Payloads
  BY DEF NoFrame, Frame, Payloads, SEQ_UNSET
<1>2. <<>> \in Seq(Frame) /\ <<>> \in Seq(Payloads) /\ <<>> \in Seq(PacketRecord)
  OBVIOUS
<1>3. Len(<<>>) <= TxQueueSize
  BY EspNowAssumption
<1> QED BY <1>1, <1>2, <1>3 DEF Init, Kinds, SEQ_UNSET

(* For any number of nodes, any packets and any order of their frames, with  *)
(* any of them refused, lost or dropped for want of room: what               *)
(* espnow_rx_deliver() is handed is a packet as it was sent, or all of it is *)
(* of a sequence number of which a packet was damaged.                       *)
THEOREM DamageAlwaysContained == Spec => []DamageContained
<1>1. Init => Kinds /\ PacedInv /\ LinkInv
  BY KindsInit, PacedInit, LinkInit
<1>2. Kinds /\ PacedInv /\ LinkInv /\ [Next]_vars => (Kinds /\ PacedInv /\ LinkInv)'
  BY KindsStep, PacedStep, LinkStep
<1>3. LinkInv => DamageContained
  BY DEF LinkInv, Outcome
<1> QED BY <1>1, <1>2, <1>3, PTL DEF Spec

(* And a packet all of whose chunks were heard, one after the other, is      *)
(* delivered unless a packet with its number was damaged.                    *)
THEOREM UndamagedAlwaysDelivered == Spec => []UndamagedDelivered
<1>1. Init => Kinds /\ PacedInv /\ LinkInv
  BY KindsInit, PacedInit, LinkInit
<1>2. Kinds /\ PacedInv /\ LinkInv /\ [Next]_vars => (Kinds /\ PacedInv /\ LinkInv)'
  BY KindsStep, PacedStep, LinkStep
<1>3. LinkInv => UndamagedDelivered
  BY DEF LinkInv, Outcome
<1> QED BY <1>1, <1>2, <1>3, PTL DEF Spec

-----------------------------------------------------------------------------
(***************************************************************************)
(* Nobody is given a packet twice.  Payloads may be equal and still be two *)
(* deliveries, so they are told apart by the packet whose last frame ended *)
(* them: no two payloads that a consumer was or will be given have the     *)
(* same, and the frame that ends the next one is of a packet not ended yet.*)
(***************************************************************************)

Owner(d) == d[Len(d)][1]

Apart(q, ended) ==
    /\ \A i \in 1..Len(q) : q[i] # <<>> /\ Owner(q[i]) \in ended
    /\ \A i, j \in 1..Len(q) : Owner(q[i]) = Owner(q[j]) => i = j

(* What the onboard node has not been given yet. *)
Staged == IF urns_rx_pending_espnow /\ ~handling THEN <<staging>> ELSE <<>>

Deliveries ==
    /\ Apart(host \o espnow_packet_queue, closed) /\ Apart(node \o Staged, closed)
    /\ handling => urns_rx_pending_espnow /\ node # <<>> /\ staging = Last(node)

(* The payloads stay apart when more packets have ended. *)
LEMMA ApartMore ==
  ASSUME NEW q, NEW C, NEW D, C \subseteq D, Apart(q, C)
  PROVE  Apart(q, D)
BY DEF Apart

(* And when the payload of such a packet is added. *)
LEMMA ApartAppend ==
  ASSUME NEW q \in Seq(Payloads), NEW e \in Payloads, NEW C, NEW D, C \subseteq D, Apart(q, C),
         e # <<>>, Owner(e) \in D, Owner(e) \notin C
  PROVE  Apart(Append(q, e), D)
<1> DEFINE r == Append(q, e)
           n == Len(q)
<1>1. /\ n \in Nat /\ Len(r) = n + 1 /\ r[n + 1] = e
      /\ \A i \in 1..n : r[i] = q[i]
  OBVIOUS
<1> HIDE DEF r, n
<1>2. \A i \in 1..n : q[i] # <<>> /\ Owner(q[i]) \in C
  BY DEF Apart, n
<1>3. \A i, j \in 1..n : Owner(q[i]) = Owner(q[j]) => i = j
  BY DEF Apart, n
<1>4. \A i \in 1..(n + 1) : i \in 1..n \/ i = n + 1
  BY <1>1
<1>5. \A i \in 1..Len(r) : r[i] # <<>> /\ Owner(r[i]) \in D
  BY <1>1, <1>2, <1>4
<1>6. ASSUME NEW i \in 1..(n + 1), NEW j \in 1..(n + 1), Owner(r[i]) = Owner(r[j]) PROVE i = j
  <2>1. CASE i \in 1..n /\ j \in 1..n
    BY <1>1, <1>3, <1>6, <2>1
  <2>2. CASE i \in 1..n /\ j = n + 1
    BY <1>1, <1>2, <1>6, <2>2
  <2>3. CASE i = n + 1 /\ j \in 1..n
    BY <1>1, <1>2, <1>6, <2>3
  <2> QED BY <1>4, <2>1, <2>2, <2>3
<1>7. \A i, j \in 1..Len(r) : Owner(r[i]) = Owner(r[j]) => i = j
  BY <1>1, <1>6
<1> QED BY <1>5, <1>7 DEF Apart, r

(* Payloads that are apart are all different. *)
LEMMA ApartDiffer ==
  ASSUME NEW x \in Seq(Payloads), NEW y \in Seq(Payloads), NEW C, Apart(x \o y, C)
  PROVE  IsInjective(x)
<1> DEFINE r == x \o y
           n == Len(x)
<1>1. /\ n \in Nat /\ Len(y) \in Nat /\ DOMAIN x = 1..n /\ Len(r) = n + Len(y)
      /\ \A i \in 1..n : r[i] = x[i]
  BY ConcatAt
<1> HIDE DEF r, n
<1>2. \A i \in 1..n : i \in 1..(n + Len(y))
  BY <1>1
<1>3. \A i, j \in 1..Len(r) : Owner(r[i]) = Owner(r[j]) => i = j
  BY DEF Apart, r
<1>4. \A i, j \in 1..n : x[i] = x[j] => i = j
  BY <1>1, <1>2, <1>3
<1> QED BY <1>1, <1>4 DEF IsInjective

(* Adding at the end, taking from the front of what comes second. *)
LEMMA Rejoin ==
  ASSUME NEW S, NEW x \in Seq(S), NEW y \in Seq(S), NEW e \in S
  PROVE  /\ x \o Append(y, e) = Append(x \o y, e)
         /\ y # <<>> => Append(x, Head(y)) \o Tail(y) = x \o y
         /\ x \o <<e>> = Append(x, e) /\ x \o <<>> = x /\ x \o y \in Seq(S)
<1>1. x \o Append(y, e) = Append(x \o y, e)
  OBVIOUS
<1>2. y # <<>> => Append(x, Head(y)) \o Tail(y) = x \o y
  OBVIOUS
<1>3. x \o <<e>> = Append(x, e)
  OBVIOUS
<1>4. x \o <<>> = x /\ x \o y \in Seq(S)
  OBVIOUS
<1> QED BY <1>1, <1>2, <1>3, <1>4

(* A payload ends with a byte of the packet whose frame ended it. *)
LEMMA HeardOwner ==
  ASSUME Kinds, OnTheWay, NEW s \in Senders, NEW f, Hears(s, f), NEW d, d = HeardData(f)
  PROVE  d # <<>> /\ Owner(d) = Pkt(f)
<1> DEFINE p == Pkt(f)
           a == From(f)
           b == Upto(f)
           x == f.data
<1>1. p \in Nat /\ a \in Nat /\ b \in Nat /\ a < b /\ a <= b /\ x = Piece(p, a, b) /\ x \in Payloads
  BY FirstFrame DEF Hears, IsPiece
<1>2. Len(x) \in Nat /\ Len(x) >= 1 /\ x[Len(x)][1] = p
  <2> HIDE DEF a, b, p, x
  <2>1. Len(Piece(p, a, b)) = b - a /\ \A i \in 1..(b - a) : Piece(p, a, b)[i] = <<p, a + i>>
    BY <1>1, PieceFacts
  <2>2. b - a \in 1..(b - a) /\ b - a \in Nat
    BY <1>1
  <2>3. Piece(p, a, b)[b - a] = <<p, a + (b - a)>>
    BY <2>1, <2>2
  <2> QED BY <1>1, <2>1, <2>2, <2>3
<1>3. CASE config.v2
  <2>1. d = x
    BY <1>3 DEF HeardData
  <2> HIDE DEF x, p
  <2>2. x # <<>>
    BY <1>2
  <2> QED BY <1>2, <2>1, <2>2 DEF Owner, p
<1>4. CASE ~config.v2
  <2> DEFINE c == Collected(f)
  <2>1. d = c \o x /\ c \in Payloads
    <3>1. espnow_rx_buf \in Payloads /\ <<>> \in Payloads
      BY DEF Kinds, Payloads
    <3>2. c \in Payloads
      BY <3>1 DEF Collected
    <3> QED BY <1>4, <3>2 DEF HeardData
  <2> HIDE DEF c, x, p
  <2>2. c \in Seq(Nat \X Nat) /\ x \in Seq(Nat \X Nat)
    BY <1>1, <2>1 DEF Payloads
  <2>3. Len(d) = Len(c) + Len(x) /\ (\A i \in 1..Len(x) : d[Len(c) + i] = x[i]) /\ Len(c) \in Nat
    BY <2>1, <2>2, ConcatAt, SMTT(30)
  <2>4. d[Len(d)] = x[Len(x)] /\ Len(d) # 0
    BY <1>2, <2>3
  <2>5. d # <<>>
    BY <2>4
  <2> QED BY <1>2, <2>4, <2>5 DEF Owner, p
<1> QED BY <1>3, <1>4

(* A step that ends no packet and touches no consumer. *)
LEMMA SameDeliveries ==
  ASSUME Deliveries, UNCHANGED <<consumers, closed>>
  PROVE  Deliveries'
BY DEF Deliveries, Staged, consumers

(* A frame that is heard. *)
LEMMA HeardDeliveries ==
  ASSUME Kinds, OnTheWay, Deliveries, NEW s \in Senders, NEW f, Hears(s, f),
         UNCHANGED <<handling, host, node>>
  PROVE  Deliveries'
<1>1. PICK d : d = HeardData(f)
  OBVIOUS
<1>2. f \in Frame /\ Pkt(f) \notin closed /\ (Delivers(f) => ~f.more)
  BY FirstFrame DEF Delivers, Hears, IsPiece
<1>3. d # <<>> /\ Owner(d) = Pkt(f)
  BY <1>1, HeardOwner
<1>4. /\ d \in Payloads
      /\ Delivers(f) => espnow_rx_deliver(d)
      /\ ~Delivers(f) => UNCHANGED <<espnow_packet_queue, staging, urns_rx_pending_espnow>>
  BY <1>1, <1>2, RecvKinds DEF Hears
<1>5. closed \subseteq closed'
  BY DEF Hears
<1>6. CASE ~Delivers(f)
  <2>1. UNCHANGED consumers
    BY <1>4, <1>6 DEF consumers
  <2>2. Staged' = Staged
    BY <2>1 DEF Staged, consumers
  <2>3. Apart(host \o espnow_packet_queue, closed') /\ Apart(node \o Staged, closed')
    BY <1>5, ApartMore DEF Deliveries
  <2> QED BY <2>1, <2>2, <2>3 DEF Deliveries, consumers
<1>7. CASE Delivers(f)
  <2>1. /\ espnow_rx_deliver(d) /\ d \in Payloads /\ d # <<>>
        /\ Owner(d) \notin closed /\ Owner(d) \in closed'
    BY <1>2, <1>3, <1>4, <1>7 DEF Hears
  <2> DEFINE given == host \o espnow_packet_queue
             handled == node \o Staged
  <2>2. /\ host \in Seq(Payloads) /\ espnow_packet_queue \in Seq(Payloads)
        /\ node \in Seq(Payloads) /\ Staged \in Seq(Payloads)
    BY DEF Kinds, Staged
  <2>3. /\ host \o Append(espnow_packet_queue, d) = Append(given, d)
        /\ given \in Seq(Payloads)
    BY <2>1, <2>2, Rejoin
  <2>4. handled \in Seq(Payloads)
    BY <2>1, <2>2, Rejoin
  <2>5. Apart(given, closed) /\ Apart(handled, closed)
    BY DEF Deliveries
  <2>6. Apart(host \o espnow_packet_queue, closed)'
    <3>1. \/ espnow_packet_queue' = Append(espnow_packet_queue, d)
          \/ UNCHANGED espnow_packet_queue
      BY <2>1 DEF espnow_rx_deliver
    <3> HIDE DEF given
    <3>2. Apart(given, closed')
      BY <1>5, <2>5, ApartMore
    <3>3. Apart(Append(given, d), closed')
      BY <1>5, <2>1, <2>3, <2>5, ApartAppend
    <3>4. CASE espnow_packet_queue' = Append(espnow_packet_queue, d)
      BY <2>3, <3>3, <3>4
    <3>5. CASE UNCHANGED espnow_packet_queue
      BY <3>2, <3>5 DEF given
    <3> QED BY <3>1, <3>4, <3>5
  <2>7. CASE StageFree
    <3>1. ~urns_rx_pending_espnow /\ ~handling
      BY <2>7 DEF StageFree, Deliveries
    <3>2. urns_rx_pending_espnow' /\ staging' = d
      BY <2>1, <2>7 DEF espnow_rx_deliver
    <3>3. Staged = <<>> /\ Staged' = <<d>>
      BY <3>1, <3>2 DEF Staged
    <3>4. node \o Staged = node /\ node \o <<d>> = Append(node, d)
      BY <2>1, <2>2, <3>3, Rejoin
    <3>5. Apart(Append(node, d), closed')
      BY <1>5, <2>1, <2>2, <2>5, <3>4, ApartAppend
    <3>6. (node \o Staged)' = Append(node, d)
      BY <3>3, <3>4
    <3> QED BY <2>6, <3>1, <3>5, <3>6 DEF Deliveries
  <2>8. CASE ~StageFree
    <3>1. staging' = staging /\ (urns_rx_pending_espnow' <=> urns_rx_pending_espnow)
      BY <2>1, <2>8 DEF espnow_rx_deliver
    <3>2. Staged' = Staged
      BY <3>1 DEF Staged
    <3>3. Apart(node \o Staged, closed')
      BY <1>5, ApartMore DEF Deliveries
    <3> QED BY <2>6, <3>1, <3>2, <3>3 DEF Deliveries
  <2> QED BY <2>7, <2>8
<1> QED BY <1>6, <1>7

(* loop() hands the packets on. *)
LEMMA LoopDeliveries ==
  ASSUME Kinds, Deliveries, update_espnow \/ HandleStaged \/ FreeStaged
  PROVE  Deliveries'
<1>1. closed' = closed
  BY DEF update_espnow, HandleStaged, FreeStaged, reassembly
<1>2. /\ host \in Seq(Payloads) /\ espnow_packet_queue \in Seq(Payloads)
      /\ node \in Seq(Payloads) /\ staging \in Payloads
  BY DEF Kinds
<1>3. CASE update_espnow
  <2>1. /\ espnow_packet_queue # <<>> /\ host' = Append(host, Head(espnow_packet_queue))
        /\ espnow_packet_queue' = Tail(espnow_packet_queue)
        /\ UNCHANGED <<staging, urns_rx_pending_espnow, handling, node>>
    BY <1>3 DEF update_espnow
  <2>2. Append(host, Head(espnow_packet_queue)) \o Tail(espnow_packet_queue)
          = host \o espnow_packet_queue
    BY <1>2, <2>1, Rejoin
  <2>3. (host \o espnow_packet_queue)' = host \o espnow_packet_queue
    BY <2>1, <2>2
  <2>4. Staged' = Staged
    BY <2>1 DEF Staged
  <2> QED BY <1>1, <2>1, <2>3, <2>4 DEF Deliveries
<1>4. CASE HandleStaged
  <2>1. /\ urns_rx_pending_espnow /\ ~handling /\ handling' = TRUE /\ node' = Append(node, staging)
        /\ UNCHANGED <<espnow_packet_queue, staging, urns_rx_pending_espnow, host>>
    BY <1>4 DEF HandleStaged
  <2>2. Staged = <<staging>> /\ Staged' = <<>>
    BY <2>1 DEF Staged
  <2>3. node \o <<staging>> = Append(node, staging) /\ Append(node, staging) \in Seq(Payloads)
    BY <1>2, Rejoin
  <2>4. Append(node, staging) \o <<>> = Append(node, staging)
    BY <2>3, EmptyConcat
  <2>5. (node \o Staged)' = node \o Staged
    BY <2>1, <2>2, <2>3, <2>4
  <2>6. node' # <<>> /\ Last(node') = staging
    BY <1>2, <2>1 DEF Last
  <2> QED BY <1>1, <2>1, <2>5, <2>6 DEF Deliveries
<1>5. CASE FreeStaged
  <2>1. /\ handling /\ handling' = FALSE /\ ~urns_rx_pending_espnow'
        /\ UNCHANGED <<espnow_packet_queue, host, node>>
    BY <1>5 DEF FreeStaged, PendingWhenHandled
  <2>2. Staged = <<>> /\ Staged' = <<>>
    BY <2>1 DEF Staged
  <2> QED BY <1>1, <2>1, <2>2 DEF Deliveries
<1> QED BY <1>3, <1>4, <1>5

(* Every step keeps the deliveries apart. *)
LEMMA DeliveriesStep ==
  Kinds /\ PacedInv /\ LinkInv /\ Deliveries /\ [Next]_vars => Deliveries'
<1> SUFFICES ASSUME Kinds, PacedInv, LinkInv, Deliveries, [Next]_vars PROVE Deliveries'
  OBVIOUS
<1>1. CASE \E s \in Senders :
              \/ \E size \in Sizes, seq \in (IF config.v2 THEN {SEQ_UNSET} ELSE Seqs) :
                    espnow_send(s, size, seq)
              \/ TakeChunk(s) \/ esp_now_send(s) \/ Return(s) \/ Unheard(s) \/ espnow_send_cb(s)
  <2>1. UNCHANGED <<consumers, closed>>
    BY <1>1 DEF espnow_send, TakeChunk, esp_now_send, Return, Unheard, espnow_send_cb, reassembly
  <2> QED BY <2>1, SameDeliveries
<1>2. ASSUME NEW s \in Senders, Heard(s) PROVE Deliveries'
  <2>1. PICK f : f = Head(driver[s])
    OBVIOUS
  <2>2. Hears(s, f)
    BY <1>2, <2>1, HeardHears
  <2>3. OnTheWay /\ UNCHANGED <<handling, host, node>>
    BY <1>2 DEF LinkInv, Heard
  <2> QED BY <2>2, <2>3, HeardDeliveries
<1>3. CASE update_espnow \/ HandleStaged \/ FreeStaged
  BY <1>3, LoopDeliveries
<1>4. CASE UNCHANGED vars
  <2>1. UNCHANGED <<consumers, closed>>
    BY <1>4 DEF vars, reassembly
  <2> QED BY <2>1, SameDeliveries
<1> QED BY <1>1, <1>2, <1>3, <1>4 DEF Next

(* For any traffic: neither the host nor the onboard node is given a payload *)
(* twice, and the staging slot keeps a packet while the node handles it,     *)
(* whatever espnow_recv_cb() hears in between.                                *)
THEOREM AlwaysGivenOnce == Spec => []GivenOnce
<1>1. Init => Kinds /\ PacedInv /\ LinkInv /\ Deliveries
  <2>1. <<>> \o <<>> = <<>> /\ Len(<<>>) = 0
    OBVIOUS
  <2>2. Init => Deliveries
    BY <2>1 DEF Init, Deliveries, Staged, Apart
  <2> QED BY <2>2, KindsInit, PacedInit, LinkInit
<1>2. Kinds /\ PacedInv /\ LinkInv /\ Deliveries /\ [Next]_vars
        => (Kinds /\ PacedInv /\ LinkInv /\ Deliveries)'
  BY KindsStep, PacedStep, LinkStep, DeliveriesStep
<1>3. Kinds /\ Deliveries => GivenOnce
  <2> SUFFICES ASSUME Kinds, Deliveries PROVE GivenOnce
    OBVIOUS
  <2>1. /\ host \in Seq(Payloads) /\ espnow_packet_queue \in Seq(Payloads)
        /\ node \in Seq(Payloads) /\ Staged \in Seq(Payloads)
    BY DEF Kinds, Staged
  <2>2. IsInjective(host) /\ IsInjective(node)
    BY <2>1, ApartDiffer DEF Deliveries
  <2> QED BY <2>2 DEF GivenOnce, Deliveries
<1> QED BY <1>1, <1>2, <1>3, PTL DEF Spec

-----------------------------------------------------------------------------
(* The receiver's buffers, and where update_espnow_tx() is. *)
Bounded ==
    /\ sending \in [Senders -> {"out", "took", "ok", "failed"}]
    /\ Len(espnow_rx_buf) <= MTU /\ Len(espnow_packet_queue) <= QueueSize

(* espnow_recv_cb() checks for room before it copies. *)
LEMMA RecvBounded ==
  ASSUME Kinds, Bounded, NEW f \in Frame, espnow_recv_cb(f)
  PROVE  Len(espnow_rx_buf') <= MTU /\ Len(espnow_packet_queue') <= QueueSize
<1>1. MTU \in Nat /\ QueueSize \in Nat
  BY EspNowAssumption
<1>2. Len(<<>>) <= MTU
  BY <1>1
<1>3. Len(espnow_rx_buf') <= MTU
  <2>1. CASE config.v2
    BY <2>1 DEF espnow_recv_cb, Bounded
  <2>2. CASE ~config.v2
    <3>1. f.data \in Seq(Nat \X Nat) /\ Collected(f) \in Seq(Nat \X Nat)
      BY DEF Frame, Payloads, Collected, Kinds
    <3>2. Len(Collected(f) \o f.data) = Len(Collected(f)) + Len(f.data)
      BY <3>1, ConcatAt
    <3>3. Len(Collected(f)) \in Nat /\ Len(f.data) \in Nat
      BY <3>1
    <3>4. CASE ~f.more \/ Overflows(f)
      BY <1>2, <2>2, <3>4 DEF espnow_recv_cb
    <3>5. CASE ~(~f.more \/ Overflows(f))
      <4>1. espnow_rx_buf' = Collected(f) \o f.data
        BY <2>2, <3>5 DEF espnow_recv_cb
      <4>2. ~(Len(Collected(f)) + Len(f.data) > MTU)
        BY <3>5 DEF Overflows
      <4> QED BY <1>1, <3>2, <3>3, <4>1, <4>2
    <3> QED BY <3>4, <3>5
  <2> QED BY <2>1, <2>2
<1>4. Len(espnow_packet_queue') <= QueueSize
  <2>1. \/ UNCHANGED espnow_packet_queue
        \/ \E d : /\ Len(espnow_packet_queue) < QueueSize
                  /\ espnow_packet_queue' = Append(espnow_packet_queue, d)
    BY DEF espnow_recv_cb, espnow_rx_deliver
  <2>2. espnow_packet_queue \in Seq(Payloads)
    BY DEF Kinds
  <2> QED BY <1>1, <2>1, <2>2 DEF Bounded
<1> QED BY <1>3, <1>4

(* Every step keeps to the bounds. *)
LEMMA BoundedStep == Kinds /\ Bounded /\ [Next]_vars => Bounded'
<1> SUFFICES ASSUME Kinds, Bounded, [Next]_vars PROVE Bounded'
  OBVIOUS
<1>1. ASSUME NEW s \in Senders,
             TakeChunk(s) \/ esp_now_send(s) \/ Return(s)
      PROVE  Bounded'
  <2>1. UNCHANGED <<espnow_rx_buf, espnow_packet_queue>>
    BY <1>1 DEF TakeChunk, esp_now_send, Return, reassembly, consumers
  <2>2. \E v \in {"out", "took", "ok", "failed"} : sending' = [sending EXCEPT ![s] = v]
    BY <1>1 DEF TakeChunk, esp_now_send, Return
  <2> QED BY <2>1, <2>2 DEF Bounded
<1>2. ASSUME NEW s \in Senders, Heard(s) PROVE Bounded'
  <2>1. Head(driver[s]) \in Frame /\ espnow_recv_cb(Head(driver[s])) /\ UNCHANGED sending
    BY <1>2 DEF Heard, Kinds
  <2>2. Len(espnow_rx_buf') <= MTU /\ Len(espnow_packet_queue') <= QueueSize
    BY <2>1, RecvBounded
  <2> QED BY <2>1, <2>2 DEF Bounded
<1>3. CASE update_espnow
  <2>1. /\ espnow_packet_queue # <<>> /\ espnow_packet_queue' = Tail(espnow_packet_queue)
        /\ UNCHANGED <<espnow_rx_buf, sending>>
    BY <1>3 DEF update_espnow, reassembly, transmitter
  <2>2. espnow_packet_queue \in Seq(Payloads) /\ QueueSize \in Nat
    BY EspNowAssumption DEF Kinds
  <2>3. Len(espnow_packet_queue') <= QueueSize
    BY <2>1, <2>2 DEF Bounded
  <2> QED BY <2>1, <2>3 DEF Bounded
<1>4. CASE \/ \E s \in Senders :
                 \/ \E size \in Sizes, seq \in (IF config.v2 THEN {SEQ_UNSET} ELSE Seqs) :
                       espnow_send(s, size, seq)
                 \/ Unheard(s) \/ espnow_send_cb(s)
           \/ HandleStaged \/ FreeStaged \/ UNCHANGED vars
  <2>1. UNCHANGED <<espnow_rx_buf, espnow_packet_queue, sending>>
    BY <1>4 DEF espnow_send, Unheard, espnow_send_cb, HandleStaged, FreeStaged, vars,
                reassembly, consumers, transmitter
  <2> QED BY <2>1 DEF Bounded
<1> QED BY <1>1, <1>2, <1>3, <1>4 DEF Next

(* For any frames: the reassembly buffer never grows past espnow_rx_buf, no  *)
(* queue past its size, and every variable has its type.                     *)
THEOREM TypeCorrect == Spec => []TypeOK
<1>1. Init => Kinds /\ PacedInv /\ Bounded
  <2>1. Len(<<>>) <= MTU /\ Len(<<>>) <= QueueSize
    BY EspNowAssumption
  <2>2. Init => Bounded
    BY <2>1 DEF Init, Bounded
  <2> QED BY <2>2, KindsInit, PacedInit
<1>2. Kinds /\ PacedInv /\ Bounded /\ [Next]_vars => (Kinds /\ PacedInv /\ Bounded)'
  BY KindsStep, PacedStep, BoundedStep
<1>3. Kinds /\ PacedInv /\ Bounded => TypeOK
  BY DEF Kinds, PacedInv, Arrays, Bounded, TypeOK, PacketRecord
<1> QED BY <1>1, <1>2, <1>3, PTL DEF Spec
=============================================================================
