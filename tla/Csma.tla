-------------------------------- MODULE Csma --------------------------------
(***************************************************************************)
(* Channel access of the LoRa radio: tx_queue_handler(), called on every   *)
(* pass of loop(), decides when the transmit queue (module TxQueue) is     *)
(* drained.  It waits for a free medium, then a DIFS, then a random        *)
(* contention window that grows with the node's own airtime.               *)
(*                                                                         *)
(* The code keeps the times at which the waits began.  Here the variables  *)
(* hold the time elapsed since then, which is all the code compares, so    *)
(* time is unbounded and the state space finite: an elapsed time is capped *)
(* where no comparison can tell it from a longer one.  The wrap of         *)
(* millis() after 49 days is left out.                                     *)
(***************************************************************************)
EXTENDS Integers, FiniteSetsExt

CONSTANTS
    SlotMs,         \* csma_slot_ms
    CwBands,        \* CSMA_CW_BANDS
    CwPerBand,      \* CSMA_CW_PER_BAND_WINDOWS
    AirtimePcts,    \* values of (int)(airtime*100) that occur
    Gaps,           \* times between two passes of loop()
    Interruptions   \* may the airtime lock set in, or the radio be stopped?

ASSUME CsmaAssumption ==
    /\ SlotMs \in Nat \ {0} /\ CwBands \in Nat \ {0, 1}
    /\ CwPerBand \in Nat \ {0, 1}
    /\ AirtimePcts \subseteq Nat
    /\ Gaps \subseteq Nat \ {0} /\ Gaps # {}
    /\ Interruptions \in BOOLEAN

VARIABLES
    queued,         \* queue_height > 0
    airtime_lock, radio_online,
    busy,           \* what medium_free() would find
    difs,           \* time since difs_wait_start, Unset for -1
    cw,             \* time since cw_wait_start, Unset for -1
    cw_wait_passed,
    csma_cw,        \* the drawn window, Unset for -1
    cw_band, cw_min, cw_max,
    (* History *)
    sent,           \* the last step was a transmission
    sinceBusy,      \* time since a pass of loop() last found the medium busy
    counting,       \* CW wait begun after DIFS and not interrupted since
    honoured,       \* CW wait really counted for the next transmission
    fresh,          \* cw_wait_start was cleared before any wait was counted
    attended        \* the handler ran on every pass since DIFS began

vars == <<queued, airtime_lock, radio_online, busy, difs, cw, cw_wait_passed,
          csma_cw, cw_band, cw_min, cw_max, sent, sinceBusy, counting,
          honoured, fresh, attended>>

environment == <<queued, airtime_lock, radio_online, busy>>
bands == <<cw_band, cw_min, cw_max>>

Unset == -1
difs_ms == 2 * SlotMs                       \* CSMA_SIFS_MS is 0
LongestWindow == CwBands * CwPerBand * SlotMs
Cap == Max({difs_ms, LongestWindow})
Elapse(t, d) == IF t = Unset THEN Unset ELSE Min({t + d, Cap})

cw_wait_target(w) == w * SlotMs

-----------------------------------------------------------------------------
Init ==
    /\ queued = FALSE /\ airtime_lock = FALSE /\ radio_online = TRUE
    /\ busy = FALSE
    /\ difs = Unset /\ cw = Unset /\ cw_wait_passed = 0 /\ csma_cw = Unset
    /\ cw_band = 1 /\ cw_min = 0 /\ cw_max = CwPerBand
    /\ sent = FALSE /\ sinceBusy = Cap /\ counting = FALSE
    /\ honoured = 0 /\ fresh = TRUE /\ attended = FALSE

-----------------------------------------------------------------------------
(* The environment of the handler. *)
Enqueue ==
    /\ ~queued /\ queued' = TRUE /\ sent' = FALSE
    /\ UNCHANGED <<airtime_lock, radio_online, busy, difs, cw, cw_wait_passed,
                   csma_cw, bands, sinceBusy, counting, honoured, fresh, attended>>

MediumChanges ==
    /\ busy' = ~busy /\ sent' = FALSE
    /\ UNCHANGED <<queued, airtime_lock, radio_online, difs, cw, cw_wait_passed,
                   csma_cw, bands, sinceBusy, counting, honoured, fresh, attended>>

(* loop() recomputes airtime_lock from the airtime limits. *)
AirtimeLock ==
    /\ Interruptions
    /\ airtime_lock' = ~airtime_lock /\ sent' = FALSE
    /\ UNCHANGED <<queued, radio_online, busy, difs, cw, cw_wait_passed,
                   csma_cw, bands, sinceBusy, counting, honoured, fresh, attended>>

(* startRadio and stopRadio leave the CSMA state as it is. *)
SwitchRadio ==
    /\ Interruptions
    /\ radio_online' = ~radio_online /\ sent' = FALSE
    /\ UNCHANGED <<queued, airtime_lock, busy, difs, cw, cw_wait_passed,
                   csma_cw, bands, sinceBusy, counting, honoured, fresh, attended>>

(* The Arduino map() of update_csma_parameters, in integer arithmetic. *)
Band(pct) ==
    IF pct <= 7 THEN 1
    ELSE LET mapped == ((pct + 7 - 7) * (CwBands - 2)) \div (85 - 7) + 2
         IN  IF mapped > CwBands THEN CwBands ELSE mapped

CwMin(b) == (b - 1) * CwPerBand

(* The contention window follows the node's own airtime. *)
update_csma_parameters(pct) ==
    /\ Band(pct) # cw_band
    /\ cw_band' = Band(pct)
    /\ cw_min' = CwMin(Band(pct))
    /\ cw_max' = Band(pct) * CwPerBand - 1
    /\ sent' = FALSE
    /\ UNCHANGED <<environment, difs, cw, cw_wait_passed, csma_cw, sinceBusy,
                   counting, honoured, fresh, attended>>

-----------------------------------------------------------------------------
(* One pass of loop(), d ms after the last one.  The outcomes of            *)
(* tx_queue_handler are the actions below; each begins like this.           *)
HandlerRuns == radio_online /\ ~airtime_lock /\ queued

Observe(d) == sinceBusy' = IF busy THEN 0 ELSE Min({sinceBusy + d, Cap})

Draw == IF csma_cw = Unset THEN csma_cw' \in cw_min .. cw_max - 1
                           ELSE csma_cw' = csma_cw

(* No packet, or not allowed: the handler returns at once. *)
Skip(d) ==
    /\ ~HandlerRuns
    /\ Observe(d) /\ sent' = FALSE /\ attended' = FALSE
    /\ difs' = Elapse(difs, d) /\ cw' = Elapse(cw, d)
    /\ UNCHANGED <<environment, bands, cw_wait_passed, csma_cw, counting,
                   honoured, fresh>>

(* DIFS not begun: draw a window, and begin DIFS if the medium is free. *)
(* From here to the transmission the window stays drawn.                *)
SeekMedium(d) ==
    /\ HandlerRuns /\ difs = Unset
    /\ Draw /\ Observe(d) /\ sent' = FALSE /\ attended' = TRUE
    /\ difs' = IF busy THEN Unset ELSE 0
    /\ cw' = Elapse(cw, d)
    /\ UNCHANGED <<environment, bands, cw_wait_passed, counting, honoured, fresh>>

(* The medium became occupied during the wait: begin again. *)
Bug_no_restart_of_cw(d) == cw' = Elapse(cw, d)
RestartCw(d) == cw' = Unset

Bug_waits_go_on(d) ==
    /\ HandlerRuns /\ difs # Unset /\ busy
    /\ Observe(d) /\ sent' = FALSE
    /\ difs' = Elapse(difs, d) /\ cw' = Elapse(cw, d)
    /\ UNCHANGED <<environment, bands, csma_cw, cw_wait_passed, counting, honoured,
                   fresh, attended>>
Restart(d) ==
    /\ HandlerRuns /\ difs # Unset /\ busy
    /\ Observe(d) /\ sent' = FALSE
    /\ difs' = Unset /\ RestartCw(d)
    /\ counting' = FALSE /\ fresh' = (fresh \/ cw_wait_passed = 0)
    /\ UNCHANGED <<environment, bands, csma_cw, cw_wait_passed, honoured, attended>>

(* Medium free at the pass: what DIFS and CW waits say at this moment. *)
Waiting(d) == HandlerRuns /\ difs # Unset /\ ~busy
DifsPassed(d) == Elapse(difs, d) >= difs_ms
Bug_not_added(d) == cw_wait_passed
CwPassed(d) == Min({cw_wait_passed + Elapse(cw, d), Cap})
CwCounted(d) == IF counting THEN Min({honoured + Elapse(cw, d), Cap}) ELSE honoured

InDifs(d) ==
    /\ Waiting(d) /\ ~DifsPassed(d)
    /\ Observe(d) /\ sent' = FALSE
    /\ difs' = Elapse(difs, d) /\ cw' = Elapse(cw, d)
    /\ UNCHANGED <<environment, bands, csma_cw, cw_wait_passed, counting, honoured, fresh, attended>>

BeginCw(d) ==
    /\ Waiting(d) /\ DifsPassed(d) /\ cw = Unset
    /\ Observe(d) /\ sent' = FALSE
    /\ difs' = Elapse(difs, d) /\ cw' = 0 /\ counting' = TRUE
    /\ UNCHANGED <<environment, bands, csma_cw, cw_wait_passed, honoured, fresh, attended>>

InCw(d) ==
    /\ Waiting(d) /\ DifsPassed(d) /\ cw # Unset
    /\ Observe(d) /\ sent' = FALSE
    /\ CwPassed(d) < cw_wait_target(csma_cw)
    /\ difs' = Elapse(difs, d) /\ cw' = 0
    /\ cw_wait_passed' = CwPassed(d) /\ honoured' = CwCounted(d)
    /\ UNCHANGED <<environment, bands, csma_cw, counting, fresh, attended>>

(* The window has passed: drain the queue, entirely or by one packet, and   *)
(* reset the waits, all but cw_wait_start.                                  *)
Send(d) ==
    /\ Waiting(d) /\ DifsPassed(d) /\ cw # Unset
    /\ Observe(d)
    /\ CwPassed(d) >= cw_wait_target(csma_cw)
    /\ queued' \in BOOLEAN
    /\ difs' = Unset /\ cw' = 0 /\ cw_wait_passed' = 0 /\ csma_cw' = Unset
    /\ sent' = TRUE /\ counting' = FALSE /\ honoured' = 0 /\ fresh' = FALSE
    /\ UNCHANGED <<airtime_lock, radio_online, busy, bands, attended>>

Pass == \E d \in Gaps :
    Skip(d) \/ SeekMedium(d) \/ Restart(d) \/ InDifs(d) \/ BeginCw(d) \/ InCw(d) \/ Send(d)

Next ==
    \/ Enqueue
    \/ MediumChanges
    \/ AirtimeLock
    \/ SwitchRadio
    \/ \E pct \in AirtimePcts : update_csma_parameters(pct)
    \/ Pass

Spec == Init /\ [][Next]_vars

(* loop() never stops calling the handler. *)
LiveSpec == Spec /\ WF_vars(Pass)

-----------------------------------------------------------------------------
TypeOK ==
    /\ {queued, airtime_lock, radio_online, busy, sent, counting, fresh, attended}
          \subseteq BOOLEAN
    /\ {difs, cw} \subseteq Unset .. Cap
    /\ {cw_wait_passed, sinceBusy, honoured} \subseteq 0 .. Cap
    /\ csma_cw \in Unset .. CwBands * CwPerBand
    /\ difs # Unset => csma_cw # Unset
    /\ cw_band \in 1..CwBands
    /\ cw_min < cw_max /\ cw_min \in Nat /\ cw_max \in 1 .. CwBands * CwPerBand

(* "Medium became occupied while in DIFS wait, restart waiting when free     *)
(* again" (tx_queue_handler): a transmission is preceded by a DIFS during   *)
(* which no pass of loop() found the medium busy, provided neither the      *)
(* airtime lock nor a stopped radio kept the handler from looking.          *)
DifsHonoured == [][sent' /\ attended => sinceBusy' >= difs_ms]_vars

(* "Contention window wait time has not yet passed, continue waiting"       *)
(* (tx_queue_handler): the first transmission after boot, and one whose     *)
(* DIFS was restarted before any of its window was counted, is preceded by  *)
(* the whole window drawn for it. (One right after another transmission is  *)
(* not: cw_wait_start is left set, and its window counts from there.)       *)
FreshCwHonoured ==
    [][\A d \in Gaps : Send(d) /\ fresh =>
          CwCounted(d) >= cw_wait_target(csma_cw)]_vars

(* A packet is not held back for ever once the medium stays free. *)
EventuallySent ==
    <>[](~busy /\ ~airtime_lock /\ radio_online) => [](queued => <>(sent \/ ~queued))
=============================================================================
