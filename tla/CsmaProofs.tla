----------------------------- MODULE CsmaProofs -----------------------------
(***************************************************************************)
(* That a transmission is preceded by its DIFS, and a fresh one by the     *)
(* whole of its contention window, for any slot length, any number and     *)
(* width of the bands and any times between two passes of loop().          *)
(***************************************************************************)
EXTENDS Csma, TLAPS

(* The smaller of two numbers. *)
LEMMA MinOfTwo ==
    ASSUME NEW a \in Int, NEW b \in Int
    PROVE  Min({a, b}) = IF a <= b THEN a ELSE b
<1>1. CASE a <= b
  <2>1. \A x \in {a, b} : (\A y \in {a, b} : x <= y) => x = a
    BY <1>1
  <2>2. a \in {a, b} /\ \A y \in {a, b} : a <= y
    BY <1>1
  <2>3. QED
    BY <1>1, <2>1, <2>2 DEF Min
<1>2. CASE ~(a <= b)
  <2>1. \A x \in {a, b} : (\A y \in {a, b} : x <= y) => x = b
    BY <1>2
  <2>2. b \in {a, b} /\ \A y \in {a, b} : b <= y
    BY <1>2
  <2>3. QED
    BY <1>2, <2>1, <2>2 DEF Min
<1>3. QED
  BY <1>1, <1>2

(* No comparison of a DIFS is lost to the cap. *)
LEMMA CapCovers == Cap \in Nat /\ Cap >= difs_ms
<1>1. difs_ms \in Nat /\ LongestWindow \in Nat
  BY CsmaAssumption DEF difs_ms, LongestWindow
<1>2. \E x \in {difs_ms, LongestWindow} : \A y \in {difs_ms, LongestWindow} : x >= y
  BY <1>1
<1>3. Cap \in {difs_ms, LongestWindow} /\ \A y \in {difs_ms, LongestWindow} : Cap >= y
  BY <1>2 DEF Cap, Max
<1>4. QED
  BY <1>1, <1>3

(* Elapse() with its Min written out. *)
LEMMA Elapsed ==
    ASSUME NEW t \in Int, NEW d \in Gaps
    PROVE  /\ d \in Nat
           /\ Elapse(t, d) = IF t = -1 THEN -1 ELSE IF t + d <= Cap THEN t + d ELSE Cap
<1>1. d \in Nat /\ Cap \in Int
  BY CsmaAssumption, CapCovers
<1>2. Min({t + d, Cap}) = IF t + d <= Cap THEN t + d ELSE Cap
  BY <1>1, MinOfTwo
<1>3. QED
  BY <1>1, <1>2 DEF Elapse, Unset

-----------------------------------------------------------------------------
Clocks ==
    /\ difs \in Int /\ cw \in Int /\ cw_wait_passed \in Nat
    /\ sinceBusy \in Nat /\ honoured \in Nat /\ csma_cw \in Int
    /\ difs >= -1 /\ cw >= -1
    /\ cw_min \in Int /\ cw_max \in Int

(* While the handler is never kept from looking, the DIFS that runs is not  *)
(* older than the last busy reading, as far as a DIFS goes.                  *)
DifsInv == attended /\ difs # Unset => sinceBusy >= difs

(* For a fresh transmission the wait that counts is a wait that was done.   *)
FreshInv ==
    fresh => /\ cw # Unset => counting
             /\ honoured >= cw_wait_passed

CsmaInv == Clocks /\ DifsInv /\ FreshInv

(* The clocks as a pass of loop() reads them. *)
LEMMA Readings ==
    ASSUME CsmaInv, NEW d \in Gaps
    PROVE  /\ d \in Nat
           /\ Cap \in Nat /\ Cap >= difs_ms /\ difs_ms \in Nat
           /\ Elapse(difs, d) = IF difs = -1 THEN -1 ELSE IF difs + d <= Cap THEN difs + d ELSE Cap
           /\ Elapse(cw, d) = IF cw = -1 THEN -1 ELSE IF cw + d <= Cap THEN cw + d ELSE Cap
           /\ Min({sinceBusy + d, Cap}) = IF sinceBusy + d <= Cap THEN sinceBusy + d ELSE Cap
           /\ CwPassed(d) = IF cw_wait_passed + Elapse(cw, d) <= Cap
                            THEN cw_wait_passed + Elapse(cw, d) ELSE Cap
           /\ counting => CwCounted(d) = IF honoured + Elapse(cw, d) <= Cap
                                         THEN honoured + Elapse(cw, d) ELSE Cap
           /\ ~counting => CwCounted(d) = honoured
<1>1. difs \in Int /\ cw \in Int /\ cw_wait_passed \in Nat /\ sinceBusy \in Nat /\ honoured \in Nat
  BY DEF CsmaInv, Clocks
<1>2. Cap \in Nat /\ Cap >= difs_ms /\ difs_ms \in Nat
  BY CapCovers, CsmaAssumption DEF difs_ms
<1>3. /\ d \in Nat
      /\ Elapse(difs, d) = IF difs = -1 THEN -1 ELSE IF difs + d <= Cap THEN difs + d ELSE Cap
      /\ Elapse(cw, d) = IF cw = -1 THEN -1 ELSE IF cw + d <= Cap THEN cw + d ELSE Cap
  BY <1>1, Elapsed
<1>4. Elapse(cw, d) \in Int
  BY <1>1, <1>2, <1>3
<1>5. /\ Min({sinceBusy + d, Cap}) = IF sinceBusy + d <= Cap THEN sinceBusy + d ELSE Cap
      /\ Min({cw_wait_passed + Elapse(cw, d), Cap}) =
            IF cw_wait_passed + Elapse(cw, d) <= Cap THEN cw_wait_passed + Elapse(cw, d) ELSE Cap
      /\ Min({honoured + Elapse(cw, d), Cap}) =
            IF honoured + Elapse(cw, d) <= Cap THEN honoured + Elapse(cw, d) ELSE Cap
  BY <1>1, <1>2, <1>3, <1>4, MinOfTwo
<1>6. QED
  BY <1>2, <1>3, <1>5 DEF CwPassed, CwCounted

(* At boot no wait is running. *)
LEMMA InitHolds == Init => CsmaInv
<1>1. Cap \in Nat
  BY CapCovers
<1>2. CwPerBand \in Int
  BY CsmaAssumption
<1>3. QED
  BY <1>1, <1>2 DEF Init, CsmaInv, Clocks, DifsInv, FreshInv, Unset

(* The environment, and a new band, leave the waits alone. *)
LEMMA WaitsUntouched ==
    ASSUME CsmaInv, cw_min' \in Int, cw_max' \in Int,
           UNCHANGED <<difs, cw, cw_wait_passed, csma_cw, sinceBusy, counting, honoured,
                       fresh, attended>>
    PROVE  CsmaInv'
  BY DEF CsmaInv, Clocks, DifsInv, FreshInv, Unset

(* Each pass of loop(), and what happens around it, keeps the invariant. *)
LEMMA NextKeeps == CsmaInv /\ [Next]_vars => CsmaInv'
<1>1. SUFFICES ASSUME CsmaInv, [Next]_vars
               PROVE  CsmaInv'
  OBVIOUS
<1>2. cw_min \in Int /\ cw_max \in Int
  BY <1>1 DEF CsmaInv, Clocks
<1>3. CASE Enqueue
  BY <1>1, <1>2, <1>3, WaitsUntouched DEF Enqueue, bands
<1>4. CASE MediumChanges
  BY <1>1, <1>2, <1>4, WaitsUntouched DEF MediumChanges, bands
<1>5. CASE AirtimeLock
  BY <1>1, <1>2, <1>5, WaitsUntouched DEF AirtimeLock, bands
<1>6. CASE SwitchRadio
  BY <1>1, <1>2, <1>6, WaitsUntouched DEF SwitchRadio, bands
<1>7. ASSUME NEW pct \in AirtimePcts, update_csma_parameters(pct)
      PROVE  CsmaInv'
  <2>1. Band(pct) \in Int
    <3>1. pct \in Int /\ CwBands \in Int
      BY CsmaAssumption
    <3>2. ((pct + 7 - 7) * (CwBands - 2)) \div (85 - 7) + 2 \in Int
      BY <3>1
    <3>3. QED
      BY <3>1, <3>2 DEF Band
  <2>2. CwMin(Band(pct)) \in Int /\ Band(pct) * CwPerBand - 1 \in Int
    BY <2>1, CsmaAssumption DEF CwMin
  <2>3. cw_min' \in Int /\ cw_max' \in Int
    BY <1>7, <2>2 DEF update_csma_parameters
  <2>4. QED
    BY <1>1, <1>7, <2>3, WaitsUntouched DEF update_csma_parameters
<1>8. ASSUME NEW d \in Gaps,
             Skip(d) \/ SeekMedium(d) \/ Restart(d) \/ InDifs(d) \/ BeginCw(d) \/ InCw(d) \/ Send(d)
      PROVE  CsmaInv'
  <2>1. /\ d \in Nat /\ Cap \in Nat
        /\ Elapse(difs, d) = IF difs = -1 THEN -1 ELSE IF difs + d <= Cap THEN difs + d ELSE Cap
        /\ Elapse(cw, d) = IF cw = -1 THEN -1 ELSE IF cw + d <= Cap THEN cw + d ELSE Cap
        /\ Min({sinceBusy + d, Cap}) = IF sinceBusy + d <= Cap THEN sinceBusy + d ELSE Cap
        /\ CwPassed(d) = IF cw_wait_passed + Elapse(cw, d) <= Cap
                         THEN cw_wait_passed + Elapse(cw, d) ELSE Cap
        /\ counting => CwCounted(d) = IF honoured + Elapse(cw, d) <= Cap
                                      THEN honoured + Elapse(cw, d) ELSE Cap
        /\ ~counting => CwCounted(d) = honoured
    BY <1>1, Readings
  <2>2. CASE Skip(d)
    BY <1>1, <2>1, <2>2 DEF Skip, Observe, bands, CsmaInv, Clocks, DifsInv, FreshInv, Unset
  <2>3. CASE SeekMedium(d)
    <3>1. csma_cw' \in Int
      BY <1>1, <1>2, <2>3 DEF SeekMedium, Draw, CsmaInv, Clocks
    <3>2. QED
      BY <1>1, <2>1, <2>3, <3>1
      DEF SeekMedium, Observe, bands, CsmaInv, Clocks, DifsInv, FreshInv, Unset
  <2>4. CASE Restart(d)
    <3>1. fresh' => fresh \/ cw_wait_passed = 0
      BY <2>4, Zenon DEF Restart
    <3>2. honoured' >= cw_wait_passed' \/ ~fresh'
      BY <1>1, <2>4, <3>1 DEF Restart, CsmaInv, Clocks, FreshInv
    <3>3. /\ difs' = -1 /\ cw' = -1
          /\ sinceBusy' = IF busy THEN 0 ELSE Min({sinceBusy + d, Cap})
          /\ UNCHANGED <<csma_cw, cw_wait_passed, honoured, cw_min, cw_max>>
      BY <2>4 DEF Restart, RestartCw, Observe, bands, Unset
    <3>4. QED
      BY <1>1, <2>1, <3>2, <3>3 DEF CsmaInv, Clocks, DifsInv, FreshInv, Unset
  <2>5. CASE InDifs(d)
    BY <1>1, <2>1, <2>5 DEF InDifs, Waiting, Observe, bands, CsmaInv, Clocks, DifsInv, FreshInv, Unset
  <2>6. CASE BeginCw(d)
    BY <1>1, <2>1, <2>6 DEF BeginCw, Waiting, Observe, bands, CsmaInv, Clocks, DifsInv, FreshInv, Unset
  <2>7. CASE InCw(d)
    BY <1>1, <2>1, <2>7 DEF InCw, Waiting, Observe, bands, CsmaInv, Clocks, DifsInv, FreshInv, Unset
  <2>8. CASE Send(d)
    BY <1>1, <2>1, <2>8 DEF Send, Waiting, Observe, bands, CsmaInv, Clocks, DifsInv, FreshInv, Unset
  <2>9. QED
    BY <1>8, <2>2, <2>3, <2>4, <2>5, <2>6, <2>7, <2>8
<1>9. CASE UNCHANGED vars
  BY <1>1, <1>2, <1>9, WaitsUntouched DEF vars
<1>10. QED
  BY <1>1, <1>3, <1>4, <1>5, <1>6, <1>7, <1>8, <1>9 DEF Next, Pass

-----------------------------------------------------------------------------
(* tx_queue_handler(): a DIFS in which no pass of loop() found the medium   *)
(* busy precedes every transmission, if nothing kept the handler from        *)
(* looking.                                                                  *)
THEOREM DifsAlwaysHonoured == Spec => DifsHonoured
<1>1. ASSUME CsmaInv, [Next]_vars
      PROVE  [sent' /\ attended => sinceBusy' >= difs_ms]_vars
  <2>1. SUFFICES ASSUME Next, sent', attended
                 PROVE  sinceBusy' >= difs_ms
    BY <1>1
  <2>2. PICK d \in Gaps : Send(d)
    BY <2>1 DEF Next, Pass, Enqueue, MediumChanges, AirtimeLock, SwitchRadio,
       update_csma_parameters, Skip, SeekMedium, Restart, InDifs, BeginCw, InCw
  <2>3. /\ d \in Nat /\ Cap \in Nat /\ Cap >= difs_ms /\ difs_ms \in Nat
        /\ Elapse(difs, d) = IF difs = -1 THEN -1 ELSE IF difs + d <= Cap THEN difs + d ELSE Cap
        /\ Min({sinceBusy + d, Cap}) = IF sinceBusy + d <= Cap THEN sinceBusy + d ELSE Cap
    BY <1>1, Readings
  <2>4. Elapse(difs, d) >= difs_ms /\ difs # -1 /\ sinceBusy' = Min({sinceBusy + d, Cap})
    BY <2>2 DEF Send, Waiting, DifsPassed, Observe, Unset
  <2>5. sinceBusy >= difs /\ sinceBusy \in Nat /\ difs \in Int
    BY <1>1, <2>1, <2>4 DEF CsmaInv, DifsInv, Clocks, Unset
  <2>6. QED
    BY <2>3, <2>4, <2>5
<1>2. QED
  BY <1>1, InitHolds, NextKeeps, PTL DEF Spec, DifsHonoured

(* tx_queue_handler(): a fresh transmission waited the whole of the window  *)
(* that was drawn for it.                                                    *)
THEOREM FreshCwAlwaysHonoured == Spec => FreshCwHonoured
<1>1. ASSUME CsmaInv, [Next]_vars
      PROVE  [\A d \in Gaps : Send(d) /\ fresh => CwCounted(d) >= cw_wait_target(csma_cw)]_vars
  <2>1. SUFFICES ASSUME NEW d \in Gaps, Send(d), fresh
                 PROVE  CwCounted(d) >= cw_wait_target(csma_cw)
    OBVIOUS
  <2>2. /\ d \in Nat /\ Cap \in Nat
        /\ Elapse(cw, d) = IF cw = -1 THEN -1 ELSE IF cw + d <= Cap THEN cw + d ELSE Cap
        /\ CwPassed(d) = IF cw_wait_passed + Elapse(cw, d) <= Cap
                         THEN cw_wait_passed + Elapse(cw, d) ELSE Cap
        /\ counting => CwCounted(d) = IF honoured + Elapse(cw, d) <= Cap
                                      THEN honoured + Elapse(cw, d) ELSE Cap
    BY <1>1, Readings
  <2>3. CwPassed(d) >= cw_wait_target(csma_cw) /\ cw # -1
    BY <2>1 DEF Send, Unset
  <2>4. /\ counting /\ honoured >= cw_wait_passed
        /\ honoured \in Nat /\ cw_wait_passed \in Nat /\ cw \in Int
    BY <1>1, <2>1, <2>3 DEF CsmaInv, FreshInv, Clocks, Unset
  <2>5. cw_wait_target(csma_cw) \in Int
    BY <1>1, CsmaAssumption DEF CsmaInv, Clocks, cw_wait_target
  <2>6. CwCounted(d) >= CwPassed(d) /\ CwCounted(d) \in Int /\ CwPassed(d) \in Int
    BY <2>2, <2>3, <2>4
  <2>7. QED
    BY <2>3, <2>5, <2>6
<1>2. QED
  BY <1>1, InitHolds, NextKeeps, PTL DEF Spec, FreshCwHonoured
=============================================================================
