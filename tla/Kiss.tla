-------------------------------- MODULE Kiss --------------------------------
(***************************************************************************)
(* The KISS parser: serial_callback() of RNode_Firmware.ino as a function  *)
(* of its global state and the next byte.  One command stands for each way *)
(* the parser treats a command:                                            *)
(*                                                                         *)
(*   DATA     stored byte by byte, sent by the closing FEND;               *)
(*   AtEnd    collected, carried out by the closing FEND (CMD_SYNC_WORD,   *)
(*            CMD_PROVISION_REQ, CMD_IDENTITY_EXPORT, CMD_IDENTITY_IMPORT);*)
(*   Counted  collected, carried out as soon as enough bytes are there     *)
(*            (CMD_FREQUENCY, CMD_BANDWIDTH, CMD_ST_ALOCK, CMD_FB_WRITE,   *)
(*            CMD_WIFI_IP, ...);                                           *)
(*   AtOnce   carried out for every byte as it comes (CMD_TXPOWER, CMD_SF, *)
(*            CMD_RADIO_STATE, CMD_SEL_INT, ...).                          *)
(*                                                                         *)
(* The display settings and CMD_DIS_IA are AtOnce commands with escapes;   *)
(* CMD_WIFI_SSID and CMD_WIFI_PSK count to a zero byte.                    *)
(***************************************************************************)
EXTENDS Integers, Sequences, SequencesExt

CONSTANTS
    Counted,    \* bytes a Counted command takes
    CMD_L,      \* size of cmdbuf
    Room        \* payload bytes there is room for, in either buffer

ASSUME KissAssumption ==
    /\ Counted \in Nat \ {0} /\ CMD_L \in Nat /\ Counted <= CMD_L /\ Room \in Nat

(* Bytes.  Any of them may occur in a payload. *)
FEND == "C0"
FESC == "DB"
TFEND == "DC"
TFESC == "DD"
CMD_DATA == "00"
CMD_FREQUENCY == "01"   \* Counted
CMD_SYNC_WORD == "0D"   \* AtEnd
CMD_SEL_INT == "1F"     \* AtOnce
CMD_UNKNOWN == "FE"
NoByte == "FF"          \* what read() of an empty transport gives

Escaping == {CMD_DATA, CMD_FREQUENCY, CMD_SYNC_WORD}

(* stored: payload of a DATA frame kept since the last one was closed, in    *)
(* packet_queue or espnow_tx_buf.                                            *)
ParserInit ==
    [IN_FRAME |-> FALSE, ESCAPE |-> FALSE, command |-> CMD_UNKNOWN,
     cmdbuf |-> <<>>, stored |-> <<>>, selected_vport |-> "00"]

(* A closing FEND ends a frame of data or of an AtEnd command only; after    *)
(* any other it opens the next one.                                          *)
Bug_data_stays_open(k) ==
    k.IN_FRAME /\ k.command = CMD_SYNC_WORD /\ k.cmdbuf # <<>>
Closes(k) ==
    /\ k.IN_FRAME
    /\ k.command = CMD_DATA \/ (k.command = CMD_SYNC_WORD /\ k.cmdbuf # <<>>)

Unescape(k, b) ==
    CASE k.ESCAPE /\ b = TFEND -> FEND
      [] k.ESCAPE /\ b = TFESC -> FESC
      [] OTHER -> b

(* A FEND that does not close a frame opens one. *)
Opened(k) == [k EXCEPT !.IN_FRAME = TRUE, !.command = CMD_UNKNOWN, !.cmdbuf = <<>>]

Closed(k) ==
    [k EXCEPT !.IN_FRAME = FALSE, !.stored = IF k.command = CMD_DATA THEN <<>> ELSE @]

(* A payload byte of a command that knows escapes. *)
Kept(buf, byte, size) == IF Len(buf) < size THEN Append(buf, byte) ELSE buf

Payload(k, b) ==
    LET u == Unescape(k, b)
    IN  CASE b = FESC -> [k EXCEPT !.ESCAPE = TRUE]
          [] b # FESC /\ k.command = CMD_DATA ->
               [k EXCEPT !.ESCAPE = FALSE, !.stored = Kept(@, u, Room)]
          [] OTHER -> [k EXCEPT !.ESCAPE = FALSE, !.cmdbuf = Kept(@, u, CMD_L)]

(* The state after one more byte ... *)
serial_callback(k, b) ==
    CASE b = FEND /\ Closes(k)  -> Closed(k)
      [] b = FEND /\ ~Closes(k) -> Opened(k)
      [] b # FEND /\ ~k.IN_FRAME -> k
      [] b # FEND /\ k.IN_FRAME ->
           CASE k.command = CMD_UNKNOWN /\ k.cmdbuf = <<>> -> [k EXCEPT !.command = b]
             [] k.command \in Escaping -> Payload(k, b)
             [] k.command = CMD_SEL_INT ->
                  [k EXCEPT !.selected_vport = IF b \in {"00", "01"} THEN b ELSE "00"]
             [] OTHER -> k

(* ... and the commands carried out on it, none or one.  An empty packet is  *)
(* not sent.                                                                 *)
Carried(k, b) ==
    LET after == serial_callback(k, b)
    IN  CASE b = FEND ->
               IF Closes(k) /\ k.command = CMD_DATA
               THEN IF k.stored = <<>> THEN <<>>
                    ELSE <<[cmd |-> CMD_DATA, arg |-> k.stored]>>
               ELSE IF Closes(k) THEN <<[cmd |-> k.command, arg |-> k.cmdbuf]>> ELSE <<>>
          [] b # FEND /\ k.IN_FRAME /\ k.command = CMD_FREQUENCY ->
               IF Len(after.cmdbuf) = Counted
               THEN <<[cmd |-> k.command, arg |-> after.cmdbuf]>> ELSE <<>>
          [] b # FEND /\ k.IN_FRAME /\ k.command = CMD_SEL_INT ->
               <<[cmd |-> k.command, arg |-> <<b>>]>>
          [] OTHER -> <<>>

-----------------------------------------------------------------------------
(* A frame as a host writes it. *)
Escaped(b) ==
    CASE b = FEND -> <<FESC, TFEND>>
      [] b = FESC -> <<FESC, TFESC>>
      [] OTHER -> <<b>>

Written(frame) ==
    <<FEND, frame.cmd>> \o FlattenSeq([i \in 1..Len(frame.arg) |-> Escaped(frame.arg[i])])
        \o <<FEND>>

(* A frame with the payload that its command takes: as much as the node has  *)
(* room for, something to send or to set, the bytes a Counted command counts *)
(* to, one byte that needs no escape for a command that knows none.          *)
Commands == Escaping \cup {CMD_SEL_INT}

Proper(frame) ==
    /\ frame \in [cmd : Commands, arg : Seq(STRING)]
    /\ Len(frame.arg) \in CASE frame.cmd = CMD_DATA -> 1..Room
                            [] frame.cmd = CMD_SYNC_WORD -> 1..CMD_L
                            [] frame.cmd = CMD_FREQUENCY -> {Counted}
                            [] frame.cmd = CMD_SEL_INT -> {1}
    /\ frame.cmd = CMD_SEL_INT => frame.arg[1] \notin {FEND, FESC}
=============================================================================
