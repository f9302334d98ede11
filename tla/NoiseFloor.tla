----------------------------- MODULE NoiseFloor -----------------------------
(***************************************************************************)
(* How the node decides that the channel is free: update_modem_status()    *)
(* reads carrier and RSSI from the modem, compares the RSSI with a noise   *)
(* floor averaged over the last quiet samples, and recalibrates the floor  *)
(* when a weak interference does not go away.  It is called by             *)
(* medium_free(), on every pass of loop() in which a packet waits, and by  *)
(* check_modem_status(), on passes at least status_interval_ms after the   *)
(* last update.                                                            *)
(*                                                                         *)
(* Times are counted since the event they are measured from and capped     *)
(* where no comparison can tell them from longer ones.                     *)
(***************************************************************************)
EXTENDS Integers, FiniteSetsExt, Functions

CONSTANTS
    Boards,         \* subset of {"plain", "lna", "gd"}: no LNA; HAS_LORA_LNA;
                    \* Heltec V4, whose LNA has the gain-dependent limits
    Levels,         \* values currentRssi() returns
    Samples,        \* NOISE_FLOOR_SAMPLES
    Threshold,      \* CSMA_INFR_THRESHOLD_DB
    RecalLimit,     \* CSMA_RFENV_RECAL_LIMIT_DB
    RecalMs,        \* CSMA_RFENV_RECAL_MS
    Gvt,            \* LORA_LNA_GVT
    GdThreshold, GdLimit,   \* LNA_GD_THRSHLD, LNA_GD_LIMIT
    Unsampled,      \* noise_floor at boot
    StatusMs,       \* status_interval_ms
    Gaps            \* times between two passes of loop()

ASSUME NoiseFloorAssumption ==
    /\ Boards \subseteq {"plain", "lna", "gd"} /\ Boards # {}
    /\ Levels \subseteq Int /\ Gaps \subseteq Nat \ {0}
    /\ {Samples, StatusMs, RecalMs, Threshold, Gvt} \subseteq Nat \ {0}
    /\ {RecalLimit, GdThreshold, GdLimit, Unsampled} \subseteq Int
    /\ \A r \in Levels : r > Unsampled + Threshold

VARIABLES
    board,
    rssi, carrier,          \* what the modem would report now
    noise_floor, noise_floor_sampled, noise_floor_sample, noise_floor_buffer,
    interference_detected, dcd,
    persists,               \* time since interference_start, Unset if
                            \* interference_persists is false
    since                   \* time since last_status_update

vars == <<board, rssi, carrier, noise_floor, noise_floor_sampled,
          noise_floor_sample, noise_floor_buffer, interference_detected, dcd,
          persists, since>>
floor == <<noise_floor, noise_floor_sampled, noise_floor_sample, noise_floor_buffer>>

Unset == -1

Init ==
    /\ board \in Boards
    /\ rssi \in Levels /\ carrier = FALSE
    /\ noise_floor = Unsampled /\ noise_floor_sampled = FALSE
    /\ noise_floor_sample = 0
    /\ noise_floor_buffer = [i \in 0..Samples - 1 |-> 0]
    /\ interference_detected = FALSE /\ dcd = FALSE
    /\ persists = Unset /\ since = 0

-----------------------------------------------------------------------------
(* The radio environment. *)
EnvironmentChanges ==
    /\ rssi' \in Levels /\ carrier' \in BOOLEAN
    /\ UNCHANGED <<board, floor, interference_detected, dcd, persists, since>>

-----------------------------------------------------------------------------
(* interference_detected, from the readings and the noise floor. *)
Interferes ==
    /\ ~carrier
    /\ IF board = "gd" /\ noise_floor <= GdThreshold
       THEN rssi > GdLimit
       ELSE rssi > noise_floor + Threshold

(* Weak interference that lasts RecalMs is taken for a new noise floor. *)
Weak == Interferes /\ rssi < RecalLimit

Bug_never_recalibrate(d) == FALSE
Recalibrates(d) == Weak /\ persists # Unset /\ persists + d >= RecalMs

Persists(d) ==
    IF ~Weak \/ Recalibrates(d) THEN Unset
    ELSE IF persists = Unset THEN 0 ELSE Min({persists + d, RecalMs})

(* Is this reading a noise sample, when noise_floor_sampled is `sampled`? *)
IsSample(sampled) ==
    \/ ~sampled
    \/ rssi < noise_floor + Threshold
    \/ board = "gd" /\ noise_floor < GdThreshold /\ rssi <= GdLimit

(* "Discard invalid samples due to gain variance during LoRa LNA *)
(* re-calibration"                                               *)
Discarded == board # "plain" /\ rssi < noise_floor - Gvt

(* Division of a sum of samples rounds towards zero. *)
TruncDiv(a, n) == IF a < 0 THEN -((-a) \div n) ELSE a \div n
Average(buffer) == TruncDiv(FoldFunction(LAMBDA a, b : a + b, 0, buffer), Samples)

update_noise_floor(sampled) ==
    IF carrier \/ ~IsSample(sampled) \/ Discarded
    THEN /\ noise_floor_sampled' = sampled
         /\ UNCHANGED <<noise_floor, noise_floor_sample, noise_floor_buffer>>
    ELSE LET wraps == noise_floor_sample + 1 >= Samples
         IN  /\ noise_floor_buffer' = [noise_floor_buffer EXCEPT ![noise_floor_sample] = rssi]
             /\ noise_floor_sample' = (noise_floor_sample + 1) % Samples
             /\ noise_floor_sampled' = (sampled \/ wraps)
             /\ noise_floor' = IF wraps THEN Average(noise_floor_buffer') ELSE noise_floor

(* "never update modem status without updating noise floor too": the floor *)
(* is updated whoever asked for the status.                                *)
Bug_only_at_intervals(caller) == caller = "check_modem_status"
UpdatesFloor(caller) == caller \in {"check_modem_status", "medium_free"}

update_modem_status(caller, d) ==
    /\ interference_detected' = Interferes
    /\ dcd' = carrier
    /\ persists' = Persists(d)
    /\ since' = 0
    /\ LET sampled == noise_floor_sampled /\ ~Recalibrates(d)
       IN  IF UpdatesFloor(caller)
           THEN update_noise_floor(sampled)
           ELSE /\ noise_floor_sampled' = sampled
                /\ UNCHANGED <<noise_floor, noise_floor_sample, noise_floor_buffer>>
    /\ UNCHANGED <<board, rssi, carrier>>

(* A pass of loop(), d ms after the last one: with a packet waiting for the *)
(* channel medium_free() updates the status, and check_modem_status() then  *)
(* finds the interval not over.                                             *)
medium_free_update(d) == update_modem_status("medium_free", d)

check_modem_status(d) ==
    /\ since + d >= StatusMs
    /\ update_modem_status("check_modem_status", d)

Idle(d) ==
    /\ since + d < StatusMs
    /\ since' = since + d
    /\ persists' = IF persists = Unset THEN Unset ELSE Min({persists + d, RecalMs})
    /\ UNCHANGED <<board, rssi, carrier, floor, interference_detected, dcd>>

Pass == \E d \in Gaps : medium_free_update(d) \/ check_modem_status(d) \/ Idle(d)

Next == EnvironmentChanges \/ Pass

(* loop() keeps running. *)
Spec == Init /\ [][Next]_vars /\ WF_vars(Pass)

(* What medium_free() returns after its update, with avoid_interference set. *)
medium_free == ~interference_detected /\ ~dcd

-----------------------------------------------------------------------------
TypeOK ==
    /\ board \in Boards
    /\ rssi \in Levels
    /\ {carrier, noise_floor_sampled, interference_detected, dcd} \subseteq BOOLEAN
    /\ noise_floor = Unsampled \/ noise_floor \in Min(Levels)..0
    /\ noise_floor_sample \in 0..Samples - 1
    /\ noise_floor_buffer \in [0..Samples - 1 -> Levels \union {0}]
    /\ persists \in Unset..RecalMs
    /\ since \in 0..StatusMs

Quiet(r) == <>[](~carrier /\ rssi = r)

(* A weak, steady background never silences the node for good: "medium_free()  *)
(* ... can get permanently stuck returning false, wedging the TX queue" is the *)
(* fault update_modem_status() was corrected for.                              *)
MediumBecomesFree ==
    \A r \in Levels : r < RecalLimit => (Quiet(r) => <>[]medium_free)

(* update_noise_floor() and the recalibration bring the noise floor to within   *)
(* the interference threshold of a weak, steady background, from wherever it   *)
(* was ("moving into new RF environment or similar").  Not so with an LNA: a   *)
(* floor more than Gvt above the background discards every sample of it.       *)
FloorTracks ==
    \A r \in Levels : board = "plain" /\ r < RecalLimit =>
        (Quiet(r) => <>[](noise_floor <= r /\ r <= noise_floor + Threshold))

=============================================================================
