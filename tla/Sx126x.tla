------------------------------- MODULE Sx126x -------------------------------
(***************************************************************************)
(* Receive signalling of the SX1262 driver on the ESP32 and the nRF52: the *)
(* modem's IRQ status register, the DIO0 line that follows its RX_DONE     *)
(* bit, the edge-triggered interrupt that only sets _dio0_pending, and the *)
(* work loop() does with them: handleDio0IfPending() reads and clears the  *)
(* register and takes the packet, and update_modem_status() asks dcd()     *)
(* whether a carrier is there, with the interrupt detached meanwhile (on   *)
(* the ESP32).                                                             *)
(*                                                                         *)
(* The modem acts between any two SPI transactions of handleDio0Rise().    *)
(* dcd() is one step.  Transmission is not modelled here.  Times are       *)
(* elapsed times, capped; they pass between two calls of dcd().            *)
(***************************************************************************)
EXTENDS Dio0, Integers, FiniteSetsExt

CONSTANTS
    PreambleMs,     \* lora_preamble_time_ms + lora_header_time_ms
    HeaderMs,       \* LORA_MODEM_TIMEOUT_MS
    Gaps,           \* times between two calls of dcd()
    Restarts        \* may the radio be stopped and started?

ASSUME Sx126xAssumption ==
    /\ PreambleMs \in Nat /\ HeaderMs \in Nat
    /\ Gaps \subseteq Nat \ {0} /\ Gaps # {}
    /\ Restarts \in BOOLEAN

VARIABLES
    (* The modem, with irq of Dio0 *)
    phase,          \* "idle", "preamble" or "payload" of a packet on air
    (* The driver *)
    preamble_at,    \* time since preamble_detected_at, Unset for 0
    header_at,      \* time since header_detected_at, Unset for 0
    carrier,        \* what dcd() returned last
    buf,            \* the status read by handleDio0Rise()
    (* History *)
    preambleFor     \* time the PREAMBLE_DET bit has been set

vars == <<phase, irq, attached, _dio0_pending, preamble_at, header_at,
          carrier, loop_pc, buf, preambleFor>>
modem == <<phase, irq, preambleFor>>
detector == <<preamble_at, header_at, carrier>>

Unset == -1
Cap == Max({PreambleMs, HeaderMs}) + 1
Elapse(t, d) == IF t = Unset THEN Unset ELSE Min({t + d, Cap})

Init ==
    /\ phase = "idle" /\ irq = {}
    /\ attached = TRUE /\ _dio0_pending = FALSE
    /\ preamble_at = Unset /\ header_at = Unset /\ carrier = FALSE
    /\ loop_pc = "top" /\ buf = {} /\ preambleFor = Unset

-----------------------------------------------------------------------------
(* The modem in continuous receive mode. *)
PreambleDetected ==
    /\ phase = "idle" /\ phase' = "preamble"
    /\ irq' = irq \union {"PREAMBLE_DET"}
    /\ preambleFor' = IF preambleFor = Unset THEN 0 ELSE preambleFor
    /\ UNCHANGED <<attached, _dio0_pending, detector, loop_pc, buf>>

HeaderDetected ==
    /\ phase = "preamble" /\ phase' = "payload"
    /\ irq' = irq \union {"HEADER_DET"}
    /\ UNCHANGED <<preambleFor, attached, _dio0_pending, detector, loop_pc, buf>>

(* The packet ends: RX_DONE raises DIO0, and onDio0Rise() sees the edge. *)
RxDone(bad) ==
    /\ phase = "payload" /\ phase' = "idle"
    /\ irq' = irq \union {"RX_DONE"} \union (IF bad THEN {"CRC_ERROR"} ELSE {})
    /\ _dio0_pending' = (_dio0_pending \/ (attached /\ "RX_DONE" \notin irq))
    /\ UNCHANGED <<preambleFor, attached, detector, loop_pc, buf>>

(* The signal dies, or was none. *)
Fade ==
    /\ phase # "idle" /\ phase' = "idle"
    /\ UNCHANGED <<irq, preambleFor, attached, _dio0_pending, detector, loop_pc, buf>>

(* stopRadio() and startRadio(), from the serial input at the end of a pass: *)
(* begin() resets the modem, and the driver's variables stay.                *)
Restart ==
    /\ Restarts /\ loop_pc = "top"
    /\ phase' = "idle" /\ irq' = {} /\ preambleFor' = Unset
    /\ attached' = TRUE
    /\ UNCHANGED <<_dio0_pending, detector, loop_pc, buf>>

-----------------------------------------------------------------------------
(* loop(): handleDio0IfPending(), which clears the flag first ... *)
handleDio0IfPending ==
    /\ loop_pc = "top"
    /\ _dio0_pending' = FALSE
    /\ loop_pc' = IF _dio0_pending THEN "get" ELSE "status"
    /\ UNCHANGED <<modem, attached, detector, buf>>

(* ... then reads the IRQ status, ... *)
GetIrqStatus ==
    /\ loop_pc = "get" /\ loop_pc' = "clear"
    /\ buf' = irq
    /\ UNCHANGED <<modem, attached, _dio0_pending, detector>>

(* ... clears what it read, whatever became of the packet, ... *)
Bug_clears_only_good == IF "CRC_ERROR" \in buf THEN irq ELSE irq \ buf
Cleared == irq \ buf

ClearIrqStatus ==
    /\ loop_pc = "clear"
    /\ irq' = Cleared
    /\ preambleFor' = IF "PREAMBLE_DET" \in irq' THEN preambleFor ELSE Unset
    /\ loop_pc' = IF "CRC_ERROR" \in buf THEN "status" ELSE "read"
    /\ UNCHANGED <<phase, attached, _dio0_pending, detector, buf>>

(* ... and hands the packet in the modem's buffer to receive_callback(). *)
onReceive ==
    /\ loop_pc = "read" /\ loop_pc' = "status"
    /\ UNCHANGED <<phase, irq, preambleFor, attached, _dio0_pending, detector, buf>>

(* A pass that does not ask for the modem's status. *)
NoStatus ==
    /\ loop_pc = "status" /\ loop_pc' = "top"
    /\ UNCHANGED <<modem, attached, _dio0_pending, detector, buf>>

maskDio0 ==
    /\ loop_pc = "status" /\ loop_pc' = "dcd"
    /\ attached' = FALSE
    /\ UNCHANGED <<modem, _dio0_pending, detector, buf>>

Bug_header_never_expires(at) == FALSE
HeaderExpired(at) == at > HeaderMs

PreambleExpired(at) == at > PreambleMs

(* dcd(): a latched bit counts as carrier until RX_DONE clears it or it is   *)
(* too old.  preamble_detected_at is set when the bit is seen and reset only *)
(* when it has expired.  An expired preamble without a header restarts the   *)
(* receiver, which drops whatever it is receiving.                           *)
dcd(d) ==
    LET header == "HEADER_DET" \in irq
        preamble == "PREAMBLE_DET" \in irq
        hat == IF ~header THEN Unset
               ELSE IF header_at = Unset THEN 0 ELSE Elapse(header_at, d)
        pat == IF preamble /\ preamble_at = Unset THEN 0 ELSE Elapse(preamble_at, d)
        hx == header /\ HeaderExpired(hat)
        px == preamble /\ PreambleExpired(pat)
        expired == (IF hx THEN {"HEADER_DET"} ELSE {}) \union (IF px THEN {"PREAMBLE_DET"} ELSE {})
    IN  /\ loop_pc = "dcd" /\ loop_pc' = "unmask"
        /\ header_at' = IF hx THEN Unset ELSE hat
        /\ preamble_at' = IF px THEN Unset ELSE pat
        /\ irq' = irq \ expired
        /\ preambleFor' = IF px THEN Unset ELSE Elapse(preambleFor, d)
        /\ phase' = IF px /\ ~header THEN "idle" ELSE phase
        /\ carrier' = (header \/ preamble)
        /\ UNCHANGED <<attached, _dio0_pending, buf>>

(* unmaskDio0() attaches the interrupt and looks for an edge it missed. *)
Bug_no_look == _dio0_pending
EdgeMissed == _dio0_pending \/ "RX_DONE" \in irq

unmaskDio0 ==
    /\ loop_pc = "unmask" /\ loop_pc' = "top"
    /\ attached' = TRUE
    /\ _dio0_pending' = EdgeMissed
    /\ UNCHANGED <<modem, detector, buf>>

Status == maskDio0 \/ (\E d \in Gaps : dcd(d)) \/ unmaskDio0
Loop == handleDio0IfPending \/ GetIrqStatus \/ ClearIrqStatus \/ onReceive \/ NoStatus \/ Status

Next ==
    \/ PreambleDetected
    \/ HeaderDetected
    \/ \E bad \in BOOLEAN : RxDone(bad)
    \/ Fade
    \/ Restart
    \/ Loop

Spec == Init /\ [][Next]_vars

(* loop() keeps running, and asks for the status again and again. *)
LiveSpec == Spec /\ WF_vars(Loop) /\ SF_vars(maskDio0)

-----------------------------------------------------------------------------
TypeOK ==
    /\ phase \in {"idle", "preamble", "payload"}
    /\ irq \subseteq {"PREAMBLE_DET", "HEADER_DET", "RX_DONE", "CRC_ERROR"}
    /\ buf \subseteq {"PREAMBLE_DET", "HEADER_DET", "RX_DONE", "CRC_ERROR"}
    /\ {attached, _dio0_pending, carrier} \subseteq BOOLEAN
    /\ {preamble_at, header_at, preambleFor} \subseteq Unset..Cap
    /\ loop_pc \in {"top", "get", "clear", "read", "status", "dcd", "unmask"}

(* handleDio0Rise() always gets to clear RX_DONE, so reception never stalls. *)
Served == ("RX_DONE" \in irq) ~> ("RX_DONE" \notin irq)

(* dcd(): a header or a preamble that never becomes a packet must not leave  *)
(* the carrier detected ("permanently wedging carrier_detected").            *)
CarrierReleased == <>[](phase = "idle") => <>[]~carrier

(* dcd() drops what the receiver is doing only for a preamble that has been  *)
(* there for longer than a preamble and a header take.                       *)
OnlyFalsePreamblesDropped ==
    [][\A d \in Gaps : dcd(d) /\ phase # "idle" /\ phase' = "idle" =>
          Elapse(preambleFor, d) > PreambleMs]_vars
=============================================================================
