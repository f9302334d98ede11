# A TLA+ model of the RNode firmware

This directory holds TLA+ models of the parts of `RNode_Firmware/`, and of the
LXMF router it builds with, that decide what is sent, when it is sent, what the
host and the user are told, and what a node still knows after a power loss; the TLC runs that check them on small instances; and
proofs, checked by TLAPS, of the invariants that matter most, for every size.
`PROJECT.json` lists components, runs, mutants, hazards and theorems, and maps
every definition to the lines it models.

## 1. The system

The firmware turns a LoRa board into a radio modem for a Reticulum host, and on
the larger boards also runs a Reticulum node and an LXMF messenger of its own.
Almost everything runs on one thread, `loop()`; concurrency comes from the radio
interrupt, from the modem hardware itself, from callbacks of the ESP-IDF tasks,
from `loop()` running between any two bytes of a host frame, and from power
being lost between any two writes to flash.

| Component | State it keeps | Operations | Talks to |
|---|---|---|---|
| KISS parser (`serial_callback`) | `IN_FRAME`, `ESCAPE`, `command`, `frame_len` | one call per byte from the host | everything below |
| Transmit queue | `packet_queue` ring, two FIFOs, `queue_height`, `queued_bytes`, `queue_cursor` | host byte, frame end, `urns_enqueue_outgoing`, `flush_queue`, `pop_queue` | parser and onboard node fill it, CSMA drains it |
| CSMA (`tx_queue_handler`) | `difs_wait_start`, `cw_wait_start`, `cw_wait_passed`, `csma_cw`, band | one pass of `loop()` | reads medium state and airtime lock, drains the queue |
| Modem status, noise floor | sample ring, `noise_floor`, interference timer | `update_modem_status` | driver below, CSMA above |
| Airtime account | ring of bins, shares, limits, `airtime_lock` | `add_airtime`, `update_airtime`, the lock in `loop()` | charged by `transmit`, read by CSMA |
| LoRa framing | `seq`, `read_len`, `pbuf`, modem packet queue | `transmit`, `receive_callback`, the drain in `loop()` | driver, host, onboard node |
| SX126x driver | IRQ flags, pending flag, mask, preamble and header timers | interrupt, `handleDio0IfPending`, `dcd`, mask and unmask | the modem chip |
| Vault and identity | four flash files, an EEPROM flag, the session key, the store's cipher | boot, unlock, enable, disable, import, migrate | onboard node, message store |
| ESP-NOW | chunk queue, `espnow_tx_busy`, reassembly buffer, packet queue | `espnow_send`, `update_espnow_tx`, two callbacks, `update_espnow` | WiFi driver, host, onboard node |
| Hosts (USB, Bluetooth, TCP, WebSocket) | connections, receive buffers | connect, receive, leave, `buffer_serial` | the parser |
| LXMF router (`LXMRouter.cpp`) | outbound queue, proof slots, transfers, links, stamp worker | `handle_outbound`, `process_outbound`, callbacks of Reticulum | Messenger |
| Messenger | the tracked send, its state on the screen, the history | send, retry, dismiss, poll, three callbacks | router, message store |
| Onboard node (`URNS.h`) | staged packets, stores, interfaces | receive, maintenance, periodic tasks | microReticulum, transmit queue, router |
| Configuration, provisioning, OTA, console | EEPROM, settings, images | load, store, update | all |
| Display, menu, input, power, GNSS, RTC, audio | user interface and peripherals | | |

What is hard in it: frames assembled byte by byte while another producer writes
into the same buffer; counters kept in several places; waits whose starting
times outlive the wait; an edge-triggered interrupt that is masked now and then;
flags of the modem that latch; halves of packets from several senders; one parser
behind four transports whose hosts come and go; proofs, timeouts and retries of
messages that are no longer the one on the screen; and operations of several
flash writes that may be cut off anywhere.

What makes each part correct:

* the queue loses, joins and overwrites no packet, and never wedges;
* the CSMA waits what it must before it sends, and does send in the end;
* the floor follows the background and not the interference, and no steady
  background silences the node;
* the airtime really used passes no limit by more than one drain of the queue, and
  a lock opens again;
* the host receives whole packets, in order, once;
* the end of a received packet is always noticed, and a carrier that is not there
  does not block transmission;
* the identity and the messages survive power loss;
* over ESP-NOW damage stays where it happened, and the chunk queue drains;
* a host's frames are carried out as it wrote them, whoever was there before;
* the user is told the truth about a message, once, and confirmed messages are kept.

## 2. Modules

| Module | Models | Role |
|---|---|---|
| `PacketQueue` | | what a packet queue promises: packets of two producers leave in order, whole, within a capacity |
| `TxQueue` | `serial_callback` (data), `urns_enqueue_outgoing`, `flush_queue`, `pop_queue`, the FIFOs of `Utilities.h` | implements `PacketQueue` |
| `TxQueueProofs` | | theorems on `TxQueue` |
| `Csma` | `tx_queue_handler`, `update_csma_parameters` | when the queue is drained |
| `CsmaProofs` | | theorems on `Csma` |
| `NoiseFloor`, `MCNoiseFloor` | `update_modem_status`, `update_noise_floor`, `medium_free` | when the medium counts as free |
| `Airtime` | `add_airtime`, `update_airtime`, the lock in `loop()`, the limit commands | when transmission is locked |
| `AirtimeProofs` | | theorems on `Airtime` |
| `PacketLink` | `transmit`, `receive_callback`, the queue drain in `loop()` | what becomes of a packet between two nodes |
| `Dio0` | the DIO0 line, its interrupt and `_dio0_pending` in `sx126x.cpp` | the state that the modem, the interrupt and `loop()` share; used by `Sx126x` |
| `Sx126x` | `sx126x.cpp`: interrupt, mask, IRQ flags, `dcd` | how the radio's events reach `loop()` |
| `ReceiveProofs` | | theorems on the receive path: on `PacketLink`, and on `Sx126x` below it |
| `Vault` | `Vault.h`, `VaultUnlock.h`, `IdentityTransfer.h`, boot in `URNS.h` and `setup()`, the walks of `Messenger.h` | what survives a power loss |
| `VaultProofs` | | theorems on `Vault` |
| `EspNow` | `ESPNOW.h`, the staging slot of `URNS.h` | packets over ESP-NOW, from two nodes to a third |
| `EspNowProofs` | | theorems on `EspNow` |
| `Kiss` | `serial_callback` as a function of its state and a byte | the parser; used by `HostLink` |
| `HostLink`, `MCHostLink` | `buffer_serial`, `Remote.h`, `WebSocketRemote.h`, connection events of `Bluetooth.h` | four transports and their hosts composed with the parser |
| `HostLinkProofs` | | theorems on `HostLink` |
| `LxmRouter` | the outbound half of `LXMRouter.cpp`, the worker of `LXStamper.cpp` | the router; its steps name the callback they make |
| `Messenger` | the sending half of `Messenger.h`, the send screens of `Menu.h` | composed with `LxmRouter`: each router step is joined to its callback |
| `MessengerProofs` | | theorems on the composition |

Every module has the code's variables under their names, an action per call (or
per step another actor may come between), and history variables, named as such,
that only the properties read. The `Bug_` operators are the mutants: plausible
mistakes in the definition that follows them, each of which makes TLC report the
property it is listed with in `PROJECT.json`. Each module has a `TypeOK`; that of
`TxQueue`, whose unsigned counters could really leave their range, is checked and
proved, and those of `Vault` and `EspNow` are proved; the others are there to be read.

### TxQueue

Host bytes are one action each (`HostByte`), since `loop()` runs between any two;
everything else is a whole call. A stored byte is its producer, the number of its
frame and its place in it, so a payload that mixes two frames shows. `Regimes` is the condition under
which the whole queue is flushed at once rather than packet by packet,
`HostGate` says when the host opens a frame: at any time (`"any"`), when
`CMD_READY` told it so (`"ready"`), or when there is room for the whole of it
(`"room"`). `written`, `openedAt`, `startedAt` (history) number the stored
bytes: they say where in the endless stream a ring position lies, which is what
the invariants of the ring are about.

### Csma, NoiseFloor, Airtime, Sx126x: time

A time stamp in the code is an elapsed time in the model, capped where no
comparison can tell it from a longer one, so that time is unbounded and the
state space finite. The wrap of `millis()` is left out. A pass of `loop()` takes
one of `Gaps`.

In `Airtime`, `loop()` decides the lock before a drain and the drain then sends
packet after packet without looking at it, as `flush_queue` does. `spent` and
`drained` (history) are the airtime really used, by bin, and by the drain under way.

### PacketLink

A byte is a packet number and a position. Each sender's frames are in order; the
receiver may lose any of them and hear several senders interleaved. With
`Deferred` the interrupt is handled at one place of `loop()` (SX126x); without, it
comes between any two of its steps (SX127x, SX128x), on the same `pbuf`.

### Vault

Each write to flash is a step, and `PowerLoss` may come between any two. LittleFS
renames and removes, and the EEPROM commit (NVS), are atomic; a file being
written in place is `Damaged` until it is closed. The PIN is right or wrong; a
key opens what was wrapped under it and nothing else. `missed` (history) holds
the messages that a decrypting walk could not re-save.

### EspNow

`update_espnow_tx` is three steps (take a chunk, call the driver, return), since
both callbacks run in the WiFi task and the send callback may come before
`esp_now_send` has returned. The driver may refuse a chunk; a frame that is sent
is heard or not, and its sender's callback follows either way. The receiver has
one reassembly buffer for all nodes. `config` is chosen once: protocol version 1
(chunks) or 2 (whole packets), delivery to the host, to the onboard node or both.
`open`, `closed`, `damaged` (history) say what happened to a packet on the air.

### Kiss and HostLink

`Kiss` has the parser's globals in a record and `serial_callback` as an operator;
`Carried` is the command a byte completes, if any. One command stands for each way
the parser treats a command: stored and sent at FEND, collected and carried out at
FEND, collected until enough bytes are there, carried out for each byte. `HostLink`
lets hosts connect, write and leave on four transports; `Poll` is the loop condition
of `buffer_serial`, with what `wifi_remote_available` does to connections as a side
effect, and `Read` its body, which chooses the transport again. A byte carries its
writer and its place, so a byte that is lost, repeated or made up shows. `overrun`
(history) says that the WebSocket ring had no room for a byte of the host that is
alone, which is dropped. Hosts
keep to the protocol (`StreamsAssumption`): each frame they write is `Proper`, with
the payload its command takes, so what a host may do wrong is to leave in a frame.

### LxmRouter and Messenger

A message is the number of its send. The queue's first entry is worked on; what
resolves it later is a proof slot (message and attempt), a transfer, or the stamp
worker's one slot. Whether an identity or path is known, and whether an interface
takes a packet, may be different at each poll. Pools of slots have their sizes: with
none free a packet or transfer goes out and is not tracked (`untracked` says so of a
queued message). `start_async` may fail to create the worker's task. The message
store may refuse a message (`unsaved` in place of `history`). A peer that asks for a
dearer stamp than is mined makes `handle_outbound` throw; nothing between it and
`loop()` catches that, so the node restarts with nothing but its store. Each step of the router binds `ev`
to the callback it makes, and `Messenger` conjoins what the callback does, so both
happen in one step as they do in the code. Left out: the back-off between polls (a
poll inside it does nothing), the link of more than one peer, and the time the
screen allows (it may give up at any moment). A direct message always goes as a
resource, so the router's branch for a single packet over a link is not reached;
the queue of failed messages is written and never read, and is not modelled.

## 3. What the runs check

| Run | Bounds | Shows |
|---|---|---|
| `txq_any` | ring of 6, FIFO of 3, 5 frames of 0, 1, 3 bytes, both regimes, unbridled host | `TypeOK` and, in every interleaving, the two FIFOs and `queue_height` in step (`FifosAgree`) |
| `txq_limited` | as above, 6 frames of 1 to 3, packet by packet, host obeys `CMD_READY` | `RingAccounted`: the bytes of all queued packets are disjoint and counted; `HostFramesWhole`; `RefinesPacketQueue`, which also says that the node's packets leave whole; `ReadyAgain` |
| `csma_access` | 3 bands of 3 slots, slots of 1, gaps 1 and 3, locks and restarts | `DifsHonoured`, `FreshCwHonoured`, `EventuallySent` |
| `noise_boards` | 2 samples, five RSSI levels, all three board kinds | `FloorTracks`, `MediumBecomesFree` |
| `airtime_limits` | 4 bins, limits 0, 2, 3, drains of up to 3 | `ChargesKept`, `LimitsRespected`, `LockOpens` |
| `link_receive` | 2 senders, 3 packets of one or two frames, 2 numbers, queue of 1; 2 packets when received in the interrupt | `HostGetsWholePackets`, `QueuedPacketsWhole`, `DeliveredInOrder`, `AllDelivered` |
| `sx_edges` | timeouts 1 and 2, gaps 1 and 3, restarts | `NoLostEdge`, `Served`, `CarrierReleased` |
| `vault_crash` | 3 identities, 3 keys, 2 messages, 2 power losses | `IdentityOnDisk`, `RunsAsOwner`, `MessagesOpen`, `ComesBack` |
| `vault_replaced` | the same | `OnlyImportReplaces`, which fails (below) |
| `espnow_link` | 2 nodes, chunks of 2, packets of 1 or 3 chunks, chunk queue of 3, 2 packets (3 from one node), 2 numbers; 1,361,800 states | `Pacing`, `DamageContained`, `UndamagedDelivered`, `GivenOnce`, `QueueDrains` |
| `host_mux` | 2 hosts on any transports, two streams of two frames each that need escapes, WebSocket ring of 2; 2,160,552 states | `ExclusiveHost`, `LoneHostUndisturbed`, `FramesCarriedOut`, `LoneHostServed` |
| `messenger_send` | 3 sends, queue of 2, pools of 1, 2 attempts; 847,152 states | `OneVerdict`, `OutcomeIsTracked`, `OnlyConfirmedInHistory`, `SentIsWatched`, `ConfirmedKept`, `QueueMoves` |

Why the bounds are enough. The ring of 6 with packets of up to 3 wraps, fills
exactly, overfills by one and holds the FIFO's three entries. Three bands are a
first, a middle and a last. The gaps are shorter and longer than a DIFS (2), so
waits end exactly, late, and with a busy medium unseen between two passes. Four
bins make a window, an expiring bin and a current one differ; a drain of 3 reaches
either limit and passes it. Three packets
of two senders give two split ones with a third between or after their halves.
Two power losses let one operation be cut off, another be begun on what it left,
and that be cut off in turn; with three
(338,771 states) TLC finds no error either. Keys
and identities are taken up again once nothing holds them, so operations are not
bounded. Three chunks fill the chunk queue exactly, and a packet more overflows
it; three packets of one node let a number come round after a damaged packet. The
buffer holds five bytes, so two chunks and a half fill it exactly and halves of two
packets overflow it. Two hosts are one before and one after, or two at once; the
streams have one frame of each kind of command between them. Three sends against a
queue of two overflow it, and leave one that is tracked, one that was, and one that
was dropped; two attempts are a first and a last. Pools of one are full as soon as a
message that was dropped still has its slot, so the branches for a full pool are
taken.

`CHECK_DEADLOCK FALSE` stands in the configurations of `TxQueue`, `EspNow`,
`HostLink` and `Messenger`: there a behaviour ends when the bounded number of frames,
packets, hosts or messages has been used up and dealt with.

### Fairness

* `TxQueue`: weak fairness of the drain, which `Csma` justifies, and of the host
  finishing a frame it has begun.
* `Csma`, `NoiseFloor`, `Sx126x`: `loop()` keeps running, so a pass is weakly
  fair. `maskDio0` is strongly fair in `Sx126x`: `loop()` takes the modem's status
  again and again, if not on every pass.
* `Airtime`: time goes on, and so does `loop()`; while locked the account is kept
  every pass (`check_modem_status`).
* `PacketLink`: `loop()` is weakly fair; frames that are on air arrive (strongly
  fair, since `Lose` may compete), and `AllDelivered` says nothing when one was
  lost.
* `Vault`: `setup()` runs to its end by itself, and the owner goes on entering
  the PIN.
* `EspNow`: `loop()` keeps calling `update_espnow_tx`, the driver sends what it
  accepted and calls back once for every frame, heard or not (a broadcast is not
  acknowledged, so the callback waits for nobody).
* `HostLink`: `loop()` keeps calling `buffer_serial`. Nothing is assumed of hosts.
* `Messenger` (`LiveSpec`): `loop()` polls the router, but no fairness says that the
  worker's task can be created; once created it ends. Reticulum proves every receipt
  or times it out (`Transport.cpp:634`), and a link that is not established is given
  up or replaced. Transfers may hang.

### Where the code does otherwise

One run of the project ends in a counterexample:

* `vault_replaced` (`OnlyImportReplaces`): `vault_enable` deletes the plaintext
  identity before it commits the flag. A power loss between the two leaves the
  encrypted identity intact (`IdentityOnDisk` holds) but nothing reads it: the next
  boot generates a new identity, and enabling the vault again overwrites the old.

Five more disagreements with comments of the code have a configuration of their
own, to be run by hand, and end in a counterexample too:

* `TxQueue_flush.cfg` (`NodeLeavesQueued`): `flush_queue` sets `queued_bytes` to 0
  while a host frame may be half stored. Those bytes are never counted, so the
  onboard node later finds room where there is none.
* `TxQueue_wedge.cfg` (`RetrySucceeds`): frames that overflow the ring leave bytes
  in it that belong to no packet. Once they fill it nothing is queued, nothing
  drains, and nothing is accepted until a reboot.
* `Sx126x_preamble.cfg` (`OnlyFalsePreamblesDropped`): `preamble_detected_at` can
  outlive its preamble, and `dcd()` then restarts the receiver in the next, genuine
  one.
* `Messenger_parked.cfg` (`SentIsResolved`): when the pool of proof slots is full a
  message is marked SENT without a slot (`LXMRouter.cpp:2014`), and stays first in the
  queue, although the comment at line 996 says that its proof or its timeout will
  resolve it. Only messages that a full queue dropped while their proofs were awaited fill
  the pool, so with the code's sixteen slots and sixteen places it takes many sends
  within the time a proof is waited for.
* `Messenger_link.cfg` (`LinkWaitEnds`): a direct message whose link does not become active
  spends neither budget. `LXMRouter.cpp:1074` says that these waits have a counter of
  their own, so that they "still can't stall the single-in-flight outbound queue
  forever"; one to a peer with a known path that never answers does, and nothing
  behind it in the queue is sent.

Where a property holds only under a condition, its definition says so, and this
is why:

* `DifsHonoured`: `difs_wait_start` is not reset by an airtime lock or a stopped
  radio, so a DIFS during which nobody looked counts.
* `FreshCwHonoured`: `cw_wait_start` is not reset by a transmission, so the next
  packet's window is cut short by the time since.
* `FloorTracks`: with an LNA, readings 12 dB below the floor are discarded as gain
  glitches, so a floor that is too high stays.
* `HostGetsWholePackets`: two packets with the same 4-bit number may be joined; a
  packet that fills two frames goes out in three; a failed `malloc` leaves
  `read_len` set, and the next unsplit packet is appended to the lost one; in
  interrupt mode the copy for the host may be overwritten.
* `HostFramesWhole`: the remains of a refused frame become the beginning of the next.
* `RingAccounted`: holds while the queue is drained packet by packet; a change of
  regime in mid-queue makes `queued_bytes` wrap below zero.
* `MessagesOpen`: a message that does not re-save during `vault_disable` stays
  under a key that is then deleted.
* `ComesBack`: `vault_disable` deletes `identity.vault` and `vault.vk` before it
  clears the flag, and `urns_init` writes a generated identity in place. Power lost
  there leaves a flash that `setup()` cannot get past (`Unbootable`).
* `DamageContained`, `UndamagedDelivered`: the sequence number has four bits and does
  not name the sender, so a damaged packet spoils those that share its number.
* `LimitsRespected`: the lock is looked at before a drain only. `flush_queue` sends the
  whole ring, so use may pass a limit by as much as one ring of packets, and the
  property subtracts what the drain under way has sent. On the ESP32 a restart of the
  radio forgets the account (`Utilities.h:3447`), so what counts is the use since.
* `LoneHostUndisturbed`: a lone host over the WebSocket that writes more than the ring
  has room for, before `buffer_serial` runs, loses what is over, and is not told
  (`WebSocketRemote.h:65`). The comment there says the ring is "Sized for a single KISS
  frame", "not for multiple queued frames"; the property ends at the first byte
  dropped (`overrun`). With two hosts the transport that has a byte need not be the
  one that is read. The parser is then given 0xFF from an empty serial port, a FEND
  from an empty TCP connection, which is closed, or an old byte: `ws_rx_pop` does
  not test for an empty ring, and the whole ring is replayed.
* `FramesCarriedOut`: nothing resets the parser when a host leaves. If it broke off
  in a data frame or in one of the commands that a FEND carries out, the next
  host's first FEND closes that frame, and its first frame is lost. A pending
  `ESCAPE` changes a byte of it.
* `SentIsWatched`: a message whose packet found the pool of proof slots full has none
  (above).
* `ConfirmedKept`: a direct message whose transfer ends after a later send has been
  begun is delivered and not saved, since the packed copy is the later one's; nor is
  a propagated one that is confirmed after BACK was pressed. A confirmed message that
  the store refuses, or whose packed copy does not unpack, is shown as delivered and
  is not in the conversation: the property says that its save was tried
  (`history` or `unsaved`), and nothing is tried again (`Messenger.h:1588`).
* `QueueMoves`: three waits are excepted by name. `WaitsForLink` and `Parked` are the
  two runs above. `WaitsForWorker`: a message that needs a stamp while the worker's
  task cannot be created is tried again at every poll and spends no budget
  (`LXMRouter.cpp:1041`, `:2469`); without this exception TLC finds the queue held.

Seen while modelling, and not the subject of a property:

* a propagation stamp is taken without asking for whom it was mined
  (`LXMessage.cpp:837`): after its message was given up the next upload carries a
  stamp that the node rejects;
* a transfer to the recipient that breaks off is reported to nobody
  (`LXMRouter.cpp:494`): the screen shows a timeout, and nothing is retried;
* `csma_slot_ms` may change with the modem settings while a wait target computed
  from the old value runs (`RNode_Firmware.ino:3187`);
* the 16-bit airtime bins wrap when no account is made for hours (`Config.h:342`);
* with the pool of resource slots full the end of a transfer finds no message
  (`LXMRouter.cpp:1914`): a delivery is reported to nobody;
* two split packets share a 4-bit number with probability 1/16
  (`RNode_Firmware.ino:1210`), and a packet that fills its frames exactly gets a
  header-only frame more (`:1830`);
* clearing the IRQ status may clear what was set after it was read
  (`sx126x.cpp:1255`); `maskDio0` and `unmaskDio0` do not nest (`URNS.h:745`);
* a host that vanishes inside a data frame keeps the onboard node from queueing until
  another host closes the frame (`RNode_Firmware.ino:1487`).

## 4. What is proved

All proofs are for every value of the constants that satisfies the modules'
`ASSUME`s.

* `TxQueueProofs`: `TypeCorrect`, `FifosAlwaysAgree`, `RingAlwaysAccounted`,
  `FramesAlwaysWhole` and `ImplementsPacketQueue`. `FifosAgree` is not inductive: that
  `fifo16_push` never overruns depends on `queue_height`, the two lengths and the
  frame being assembled, so the inductive invariant has the shape of the FIFOs
  (`Shape`) beside the types. `RingAccounted` needs the stream positions: queued
  packets and the open frame are consecutive stretches of the stream of stored
  bytes, of which at most `QSize` are live; ring positions are stream positions
  modulo `QSize`. For the refinement each queued packet must be at its stretch and
  the stretches in order (`Placed`): then a store at the cursor meets no queued
  byte, and every step is an `Accept`, a `Pop`, a `Reset` or a stutter of `PacketQueue`.
  `FramesAlwaysWhole` adds what the bytes are (`Stored`): those of the open frame are
  the host's so far, those of a queued packet one frame. The last three are proved
  for the packet-by-packet regime and a host that sends no empty frame and obeys
  `CMD_READY` (`PolitelyLimited`); "Where the code does otherwise" says what happens
  without it.
* `CsmaProofs`: `DifsAlwaysHonoured` and `FreshCwAlwaysHonoured`. The invariant ties the
  code's clocks to the history: a DIFS that runs while nothing keeps the handler
  from looking began after the last busy reading (`DifsInv`), and for a fresh
  transmission the wait that is counted was done (`FreshInv`).
* `AirtimeProofs`: `ChargesAlwaysKept` and `LimitsAlwaysRespected`, for any number of bins.
  The invariant for the second says that outside a transmission the last account
  covers what was really sent, however old it is: in the current bin and the one
  before for the short-term limit, and in the sum over the ring of bins, less what
  has left the window since, for the long-term one. So a drain begins below both
  limits, and each packet adds as much to `spent` as to `drained` (`SpentMore`). Sums are a recursive function, and what is
  known of them (`SumExists`, `TotalIs`, `SumGrows`) is proved by induction. The
  library's induction theorems take a predicate; `Induction` has a set in its place,
  which the provers can instantiate, and rests on `<` being well founded.
* `ReceiveProofs`: `QueuedAlwaysWhole`, `HostAlwaysGetsWholePackets`,
  `AlwaysDeliveredInOrder`. The host's sequence says nothing of what is still on its way.
  `OnAir` says what a sender has still to send: all the frames of one packet, or its
  second half. `Collected` says that while the receiver waits for a second half,
  a sender whose next frame has the awaited number is about to send the half
  that belongs to what `pbuf` holds up to `read_len`. `InLoop` is why `loop()` does not disturb this on
  a board that defers DIO0: at most one packet is queued, only `drain` sees it, and while it
  is there no half is waited for. `GivenWhole` and `GivenInOrder` are about the host's sequence
  with what the queue and the copy still hold appended to it, so that the steps of
  `loop()` leave them as they are. For boards that receive in the interrupt only
  `QueuedPacketsWhole` is claimed; it needs just `Unsplit`. Assumed are that the MTU
  holds two full frames (508 and 254 in the code), that `SEQ_UNSET` is no sequence
  number (0xFF and a nibble), and, for the last two theorems, `NoThirdFrame`: no
  packet fills two frames exactly, for which `transmit` opens a third.
  `EdgeNeverLost` is about the driver below: while `RX_DONE` is set the driver knows of
  it or the line's edge is still to come. The invariant adds that the interrupt
  is detached only between `maskDio0` and `unmaskDio0` (`Detached`) and what is known
  at each step of the handler (`EdgeKnown`).
* `VaultProofs`: `IdentityAlwaysOnDisk`, `AlwaysRunsAsOwner`, `MessagesAlwaysOpen`,
  `TypeCorrect`. The inductive invariant has two halves. `FlashInv` speaks of the
  flash alone: the identity is there, and the file the flag points to, if it can
  be read, is not an old one. A power loss keeps it. `StepInv` says what each step
  of an operation has achieved so far (the key renamed, the pair valid, the
  plaintext written), which is what the next step needs to keep `FlashInv`. For
  the messages, `KeysKept` (a message outside `missed` is under the key in
  `vault.vk`, with the flag set) and `Walked` (which messages the decrypting walk
  has passed) make the deletion of the key safe.
* `EspNowProofs`: `AlwaysPaced`, `DamageAlwaysContained`, `UndamagedAlwaysDelivered`,
  `AlwaysGivenOnce` and `TypeCorrect`. `Pacing` alone is not inductive: the invariant
  says that `espnow_tx_busy` is set exactly while a chunk is taken, in the driver, or
  waiting for its callback, of which there is at most one. What the receiver
  delivers depends on the chunks that are still with the senders: `OnTheWay` says
  that queue, chunk and driver of a sender together hold pieces of its packets in
  order, without a gap unless the packet is damaged. `Collecting` says that the
  reassembly buffer ends where the chunks on their way go on, as long as no packet of
  that number is damaged. From the two, a packet that is completed is as sent
  (`Outcome`). For `GivenOnce`, `Deliveries` says that what was given, what is staged
  and what is queued for the host were each ended by the last chunk of a packet of
  their own.
* `HostLinkProofs`: `AlwaysExclusive`, `LoneHostAlwaysUndisturbed` and
  `FramesAlwaysCarriedOut`. What each side tests
  is the other's state, so the invariant for the first adds that a client in the
  backlog, and an open connection, belong to hosts that came over TCP
  (`TcpAccounted`). For the second, `LoneHost` says, until the ring overruns, which of the lone host's bytes are in
  its driver's buffer or in the WebSocket ring, position by position around the
  ring, that every other buffer is empty and that `buffer_serial` reads the
  transport that has them; `SocketsHeld` says that a socket belongs to a host that is
  there, so that the next host to be alone starts clean. The third is about streams
  of any length, frames with payloads of any length their command takes, and any
  sizes of `cmdbuf` and of the buffers. `FlattenFacts` finds, by induction, where in
  the stream a byte on the wire is: in which frame, after which payload byte, behind a
  FESC or not (`PlaceIn`). `Tracks` says that after any byte the parser is at that place,
  with what it must have collected (`Reading`), or ignores the first frame because its
  FEND closed another (`LostIn`), and what was carried out (`Completed`). `ParserOK`, that
  payload is stored only in an open frame of data, makes a frame start empty
  whatever was left. `WireBytes` ties the bytes in drivers and ring to the wire.
* `MessengerProofs`: `AlwaysOneVerdict`, `OutcomeAlwaysTracked`, `HistoryAlwaysConfirmed`,
  `ConfirmedAlwaysKept` and `SentAlwaysWatched`, over restarts and full pools. The first
  four rest on one fact: a
  message is in one place, the queue, a proof slot or a transfer (`Places`), and one
  that is anywhere has not been reported on (`Undecided`). `MethodKnown` says that the
  screen goes by the method the router uses, and `Told` relates the screen and the
  history to the reports. `SentAlwaysWatched` needs only the state of the
  queue and the slots: a message that was transmitted is the first (`SentFirst`), and a
  queued message has no slot but that of its last attempt (`LastSlot`).

Only model-checked:

* liveness (`EventuallySent`, `ReadyAgain`, `Served`, `CarrierReleased`,
  `MediumBecomesFree`, `FloorTracks`, `LockOpens`, `AllDelivered`, `ComesBack`,
  `QueueDrains`, `LoneHostServed`, `QueueMoves`), which is outside the prover's reach.

Every other property of a passing run is a theorem.

## 5. Not modelled

Most of the repository is not the firmware: vendored Bluetooth and codec libraries,
conformance tools, tables and examples make up 970,000 of its million lines, and a
model of them would say nothing of this program. The firmware proper is
`RNode_Firmware/`, 50,000 lines, of which the menus, the display, splash images and
board tables are 25,000, plus the LXMF router that it patches. Of these:

* SX127x and SX128x drivers, beyond the moment their interrupt runs: register access.
* Display, menu, input, power, GNSS, RTC, audio, console: no state that outlives a
  screen, or access to a peripheral.
* EEPROM settings, provisioning, firmware hash: single writes, checked when read.
* OTA: the image is written and confirmed by the vendor's library.
* Bluetooth pairing and bonding, the keyboard host, joining a WiFi network,
  Ethernet: calls of the vendor's stacks. The write side of the transports.
* The settings that KISS commands change, beyond the airtime limits.
* Pings, bookmarks, the announce table, presets, incoming messages and
  synchronising with a propagation node; the wire format of LXMF.
* Routing and storage inside microReticulum and microStore; `MessageStore` is taken
  to save a message whole or to refuse it. Cryptography is ideal.
* The wrap of `millis()`.

## 6. Plan

Done: the transmit queue and its refinement, channel access, medium state,
airtime, framing, driver signalling, vault, ESP-NOW, the parser and its hosts, the
sending of messages, and the theorems above. What is left, in this order:

1. `HostLink` with `TxQueue`, so that a host that leaves in mid-frame meets the ring; and
   `TxQueue`, `Csma` and `Airtime` composed, so that fairness of the drain is derived.
2. Receiving and synchronising in `LXMRouter.cpp`: transient ids, acknowledgement of
   what was fetched, and a sync that is broken off.
3. OTA confirmation and roll-back; the EEPROM settings under power loss.
4. The maintenance pass of `URNS.h` under the interrupt mask, with `Sx126x`.

Theorems to come: those that the compositions of item 1 call for; `EdgeNeverLost` and
`HostAlwaysGetsWholePackets` joined in one statement over `Sx126x` and `PacketLink`; and
type correctness of the modules whose `TypeOK` is only there to be read.
