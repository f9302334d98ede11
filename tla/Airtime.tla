------------------------------- MODULE Airtime -------------------------------
(***************************************************************************)
(* The node's airtime account and the limits the host sets on it.          *)
(* add_airtime() charges a transmission to the bin of the current time;    *)
(* update_airtime() sums the bins up, and loop() locks transmission while  *)
(* the sums reach the short-term or the long-term limit.  The bins are a   *)
(* ring that covers an hour: the bin after the current one is cleared      *)
(* whenever an account is made, which is how old charges expire.           *)
(*                                                                         *)
(* Sums stand for the code's fractions of the same sums.  Of the history   *)
(* variables, spent records the airtime really used, newest bin first, and *)
(* drained what the drain in progress has used of it.                      *)
(***************************************************************************)
EXTENDS Integers, Sequences

CONSTANTS
    Bins,           \* AIRTIME_BINS
    Costs,          \* airtime of a transmission
    BinMax,         \* most airtime that can be charged to one bin
    U16,            \* range of the uint16_t bins, above BinMax when no
                    \* frame takes a minute
    MaxDrain,       \* bound: airtime of a full ring, which one drain may send
    Limits          \* limits the host sets, 0 for none

ASSUME AirtimeAssumption ==
    /\ Bins \in Nat /\ Bins > 2
    /\ Costs \subseteq Nat \ {0}
    /\ BinMax \in Nat /\ U16 \in Nat /\ BinMax < U16
    /\ MaxDrain \in Nat
    /\ Limits \subseteq Nat

VARIABLES
    cb,             \* current_airtime_bin()
    airtime_bins,
    airtime,        \* as of the last update_airtime()
    longterm_airtime,
    st_airtime_limit, lt_airtime_limit,
    airtime_lock,
    sending,        \* loop() is in flush_queue() or pop_queue()
    updated,        \* update_airtime() ran since the current bin began
    spent,          \* spent[1] in the current bin, spent[k] k - 1 bins ago
    drained         \* spent by the flush_queue() or pop_queue() under way

vars == <<cb, airtime_bins, airtime, longterm_airtime, st_airtime_limit,
          lt_airtime_limit, airtime_lock, sending, updated, spent, drained>>
account == <<airtime_bins, airtime, longterm_airtime, updated>>
limits == <<st_airtime_limit, lt_airtime_limit>>

Bin(n) == n % Bins

Total(s) ==
    LET sum[i \in 0..Len(s)] == IF i = 0 THEN 0 ELSE sum[i - 1] + s[i]
    IN  sum[Len(s)]

(* The bins an account at the current time covers: all but the next one. *)
Window == Bins - 1

Init ==
    /\ cb = 0
    /\ airtime_bins = [b \in 0..Bins - 1 |-> 0]
    /\ airtime = 0 /\ longterm_airtime = 0
    /\ st_airtime_limit = 0 /\ lt_airtime_limit = 0
    /\ airtime_lock = FALSE /\ sending = FALSE /\ updated = FALSE
    /\ spent = [k \in 1..Window |-> 0] /\ drained = 0

-----------------------------------------------------------------------------
nb == IF cb + 1 = Bins THEN 0 ELSE cb + 1
pb == IF cb = 0 THEN Bins - 1 ELSE cb - 1

(* update_airtime(), on bins that are up to date. *)
Bug_clears_current(bins) == [bins EXCEPT ![cb] = 0]
Bug_never_clears(bins) == bins
NextCleared(bins) == [bins EXCEPT ![nb] = 0]

Bug_only_current(bins) == bins[cb]
ShortTerm(bins) == bins[cb] + bins[pb]

LongTerm(bins) == Total([i \in 1..Bins |-> bins[i - 1]])

update_airtime ==
    LET bins == NextCleared(airtime_bins)
    IN  /\ airtime_bins' = bins
        /\ airtime' = ShortTerm(bins)
        /\ longterm_airtime' = LongTerm(bins)
        /\ updated' = TRUE

-----------------------------------------------------------------------------
(* current_airtime_bin(), n bins later. *)
BinAfter(n) == Bin(cb + n)

(* Time passes, n bins of it.  While transmission is locked medium_free()   *)
(* is not called, so check_modem_status() updates the account every second  *)
(* and no bin goes by without it.  Otherwise the account may be left alone  *)
(* for long: medium_free() keeps check_modem_status() from its update, and  *)
(* a pass of loop() may itself last.                                        *)
Tick(n) ==
    /\ airtime_lock => n = 1 /\ updated
    /\ cb' = BinAfter(n)
    /\ spent' = [k \in 1..Window |-> IF k > n THEN spent[k - n] ELSE 0]
    /\ updated' = FALSE
    /\ UNCHANGED <<airtime_bins, airtime, longterm_airtime, limits, airtime_lock, sending,
                   drained>>

(* CMD_ST_ALOCK and CMD_LT_ALOCK *)
SetLimits ==
    /\ ~sending
    /\ \/ st_airtime_limit' \in Limits /\ UNCHANGED lt_airtime_limit
       \/ lt_airtime_limit' \in Limits /\ UNCHANGED st_airtime_limit
    /\ UNCHANGED <<cb, account, airtime_lock, sending, spent, drained>>

LimitReached ==
    \/ st_airtime_limit # 0 /\ airtime >= st_airtime_limit
    \/ lt_airtime_limit # 0 /\ longterm_airtime >= lt_airtime_limit

(* A pass of loop(): the lock is decided anew, and tx_queue_handler() may   *)
(* begin to send if it is open.                                             *)
Pass ==
    /\ ~sending
    /\ airtime_lock' = LimitReached
    /\ sending' \in IF airtime_lock' THEN {FALSE} ELSE BOOLEAN
    /\ UNCHANGED <<cb, account, limits, spent, drained>>

(* Bound: a bin that no account cleared in time keeps its old charges; left  *)
(* uncleared hour after hour it would wrap round.                            *)
NotUnclearedForHours(cost) == airtime_bins[cb] + cost < U16

(* transmit() ends with add_airtime().  flush_queue() calls it for every     *)
(* packet of the ring without another look at the lock.                      *)
transmit(cost) ==
    /\ sending /\ drained + cost <= MaxDrain
    /\ spent[1] + cost <= BinMax /\ NotUnclearedForHours(cost)
    /\ airtime_bins' = NextCleared([airtime_bins EXCEPT ![cb] = @ + cost])
    /\ spent' = [spent EXCEPT ![1] = @ + cost]
    /\ drained' = drained + cost
    /\ UNCHANGED <<cb, airtime, longterm_airtime, updated, limits, airtime_lock, sending>>

(* flush_queue() and pop_queue() end with update_airtime(). *)
Sent ==
    /\ sending /\ sending' = FALSE /\ drained' = 0
    /\ update_airtime
    /\ UNCHANGED <<cb, limits, airtime_lock, spent>>

(* The update of check_modem_status(). *)
check_modem_status ==
    /\ ~sending
    /\ update_airtime
    /\ UNCHANGED <<cb, limits, airtime_lock, sending, spent, drained>>

(* startRadio() after stopRadio(): init_channel_stats() forgets the account  *)
(* on the ESP32, and with it what was spent; on the nRF52 it does nothing,   *)
(* so that its behaviours are those without this step.                       *)
startRadio ==
    /\ ~sending
    /\ airtime_bins' = [b \in 0..Bins - 1 |-> 0]
    /\ airtime' = 0 /\ longterm_airtime' = 0
    /\ spent' = [k \in 1..Window |-> 0]
    /\ UNCHANGED <<cb, updated, limits, airtime_lock, sending, drained>>

Next ==
    \/ \E n \in 1..Bins : Tick(n)
    \/ SetLimits
    \/ Pass
    \/ \E c \in Costs : transmit(c)
    \/ Sent
    \/ check_modem_status
    \/ startRadio

Spec == Init /\ [][Next]_vars

(* Time passes, and loop() keeps running; while transmission is locked it    *)
(* also keeps the account.                                                   *)
LiveSpec ==
    /\ Spec
    /\ WF_vars(\E n \in 1..Bins : Tick(n))
    /\ WF_vars(Pass) /\ WF_vars(Sent)
    /\ WF_vars(airtime_lock /\ check_modem_status)

-----------------------------------------------------------------------------
TypeOK ==
    /\ cb \in 0..Bins - 1
    /\ airtime_bins \in [0..Bins - 1 -> 0..U16 - 1]
    /\ {airtime, longterm_airtime, st_airtime_limit, lt_airtime_limit} \subseteq Nat
    /\ {airtime_lock, sending, updated} \subseteq BOOLEAN
    /\ spent \in [1..Window -> 0..BinMax] /\ drained \in 0..MaxDrain

(* No charge is lost: each bin holds at least what was really spent in it.  *)
ChargesKept ==
    \A k \in 1..Window : airtime_bins[Bin(cb + Bins - (k - 1))] >= spent[k]

(* loop() looks at the limits before a drain and flush_queue() then sends    *)
(* the whole ring, so use may pass a limit; but never by more than what the  *)
(* drain under way has sent itself.  At every moment of a drain, the airtime *)
(* really used in the current and the last bin, or in the bins of the last   *)
(* hour, less the drain's own, is below the limit, however old the account   *)
(* is that the lock was decided from.  On the ESP32 the use that counts is   *)
(* that since startRadio(), which forgets what was used before.              *)
LimitsRespected ==
    sending =>
      /\ st_airtime_limit # 0 => spent[1] + spent[2] < st_airtime_limit + drained
      /\ lt_airtime_limit # 0 => Total(spent) < lt_airtime_limit + drained

(* A locked node is not locked for ever: charges expire. *)
LockOpens == airtime_lock ~> ~airtime_lock
=============================================================================
