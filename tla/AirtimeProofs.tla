---------------------------- MODULE AirtimeProofs ----------------------------
(***************************************************************************)
(* That the ring of bins loses no charge, and that a drain passes the      *)
(* short-term and the long-term limit by no more than what it sends, for   *)
(* any number of bins, any limits and frames of any length, however long   *)
(* the account is left alone.  The sums are recursive functions; what is   *)
(* said of them for every number of bins is proved by induction.           *)
(***************************************************************************)
EXTENDS Airtime, WellFoundedInduction, TLAPS

(* Induction over numbers, with a set in the place of the predicate. *)
LEMMA LeastNumber ==
    ASSUME NEW T \in SUBSET Nat, T # {}
    PROVE  \E x \in T : \A y \in T : x <= y
<1>1. DEFINE R == {ss \in Nat \X Nat : ss[1] < ss[2]}
<1>2. R = OpToRel(<, Nat)
  BY Zenon DEF OpToRel
<1>3. IsWellFoundedOn(R, Nat)
  BY <1>2, NatLessThanWellFounded, Zenon
<1>4. \A x, y \in Nat : y < x => <<y, x>> \in R
  OBVIOUS
<1>5. HIDE DEF R
<1>6. PICK x \in T : \A y \in T : ~(<<y, x>> \in R)
  BY <1>3, WFMin
<1>7. ASSUME NEW y \in T
      PROVE  x <= y
  <2>1. x \in Nat /\ y \in Nat /\ ~(y < x)
    BY <1>4, <1>6
  <2>2. QED
    BY <2>1
<1>8. QED
  BY <1>7

(* A set that holds 0, and with a number the next one, holds all up to n. *)
LEMMA Induction ==
    ASSUME NEW n \in Nat, NEW T, 0 \in T,
           \A i \in 0..n - 1 : i \in T => i + 1 \in T
    PROVE  \A i \in 0..n : i \in T
<1>1. SUFFICES ASSUME NEW j \in 0..n, j \notin T
               PROVE  FALSE
  OBVIOUS
<1>2. DEFINE F == {i \in 0..n : i \notin T}
<1>3. F \in SUBSET Nat /\ F # {}
  BY <1>1
<1>4. PICK m \in F : \A y \in F : m <= y
  BY <1>3, LeastNumber
<1>5. m \in 0..n /\ m # 0 /\ m \notin T
  BY <1>4
<1>6. m - 1 \in 0..n - 1 /\ m - 1 \in 0..n /\ ~(m <= m - 1) /\ (m - 1) + 1 = m
  BY <1>5
<1>7. m - 1 \in T
  BY <1>4, <1>6
<1>8. QED
  BY <1>5, <1>6, <1>7

-----------------------------------------------------------------------------
(* F adds s up: F[i] is the sum of its first i elements. *)
AddsUp(F, s, n) == F = [i \in 0..n |-> IF i = 0 THEN 0 ELSE F[i - 1] + s[i]]

(* Such a function exists ... *)
LEMMA SumExists ==
    ASSUME NEW s, NEW n \in Nat
    PROVE  \E F : AddsUp(F, s, n)
<1>1. DEFINE T == {m \in 0..n : \E F : AddsUp(F, s, m)}
<1>2. 0 \in T
  <2>1. AddsUp([i \in 0..0 |-> 0], s, 0)
    BY DEF AddsUp
  <2>2. QED
    BY <2>1
<1>3. ASSUME NEW m \in 0..n - 1, m \in T
      PROVE  m + 1 \in T
  <2>1. PICK F : AddsUp(F, s, m)
    BY <1>3
  <2>2. DEFINE G == [i \in 0..m + 1 |-> IF i = m + 1 THEN F[m] + s[m + 1] ELSE F[i]]
  <2>3. \A i \in 0..m + 1 : G[i] = IF i = 0 THEN 0 ELSE G[i - 1] + s[i]
    BY <2>1 DEF AddsUp
  <2>4. G = [i \in 0..m + 1 |-> G[i]]
    OBVIOUS
  <2>5. AddsUp(G, s, m + 1)
    BY <2>3, <2>4, Zenon DEF AddsUp
  <2>6. QED
    BY <2>5
<1>4. \A m \in 0..n : m \in T
  BY <1>2, <1>3, Induction
<1>5. QED
  BY <1>4

(* ... and is what Total takes its value from. *)
LEMMA TotalIs ==
    ASSUME NEW n \in Nat, NEW s \in [1..n -> Nat]
    PROVE  \E F \in [0..n -> Nat] :
             /\ F[0] = 0 /\ Total(s) = F[n]
             /\ \A i \in 1..n : F[i] = F[i - 1] + s[i]
<1>1. Len(s) = n
  OBVIOUS
<1>2. DEFINE F == CHOOSE g : AddsUp(g, s, n)
<1>3. AddsUp(F, s, n)
  BY SumExists
<1>4. Total(s) = F[n]
  BY <1>1, Zenon DEF Total, AddsUp
<1>5. HIDE DEF F
<1>6. F[0] = 0 /\ \A i \in 1..n : F[i] = F[i - 1] + s[i]
  BY <1>3 DEF AddsUp
<1>7. \A i \in 0..n : F[i] \in Nat
  <2>1. DEFINE T == {i \in 0..n : F[i] \in Nat}
  <2>2. 0 \in T
    BY <1>6
  <2>3. ASSUME NEW i \in 0..n - 1, i \in T
        PROVE  i + 1 \in T
    <3>1. i + 1 \in 1..n /\ (i + 1) - 1 = i /\ s[i + 1] \in Nat /\ F[i] \in Nat
      BY <2>3
    <3>2. F[i + 1] = F[i] + s[i + 1]
      BY <1>6, <3>1
    <3>3. QED
      BY <3>1, <3>2
  <2>4. \A i \in 0..n : i \in T
    BY <2>2, <2>3, Induction
  <2>5. QED
    BY <2>4
<1>8. F \in [0..n -> Nat]
  <2>1. F = [i \in 0..n |-> F[i]]
    BY <1>3 DEF AddsUp
  <2>2. QED
    BY <1>7, <2>1
<1>9. QED
  BY <1>4, <1>6, <1>8

(* Sums of more elements are no smaller. *)
LEMMA SumGrows ==
    ASSUME NEW n \in Nat, NEW F \in [0..n -> Nat],
           \A i \in 1..n : F[i] >= F[i - 1]
    PROVE  \A i \in 0..n : F[i] <= F[n]
<1>1. DEFINE T == {d \in 0..n : F[n - d] <= F[n]}
<1>2. 0 \in T
  OBVIOUS
<1>3. ASSUME NEW d \in 0..n - 1, d \in T
      PROVE  d + 1 \in T
  <2>1. n - d \in 1..n /\ (n - d) - 1 = n - (d + 1) /\ n - (d + 1) \in 0..n
    OBVIOUS
  <2>2. F[n - (d + 1)] <= F[n - d] /\ F[n - d] <= F[n]
    BY <1>3, <2>1
  <2>3. F[n - (d + 1)] \in Nat /\ F[n - d] \in Nat /\ F[n] \in Nat
    BY <2>1
  <2>4. QED
    BY <2>2, <2>3
<1>4. \A d \in 0..n : d \in T
  BY <1>2, <1>3, Induction
<1>5. ASSUME NEW i \in 0..n
      PROVE  F[i] <= F[n]
  <2>1. n - i \in 0..n /\ n - (n - i) = i
    OBVIOUS
  <2>2. n - i \in T
    BY <1>4, <2>1
  <2>3. QED
    BY <2>1, <2>2
<1>6. QED
  BY <1>5

-----------------------------------------------------------------------------

(* One turn of the ring. *)
LEMMA ModOnce ==
    ASSUME NEW x \in Nat, x < 2 * Bins
    PROVE  x % Bins = IF x < Bins THEN x ELSE x - Bins
<1>1. Bins \in Nat \ {0}
  BY AirtimeAssumption
<1>2. CASE x < Bins
  BY <1>1, <1>2
<1>3. CASE ~(x < Bins)
  <2>1. x = Bins * 1 + (x - Bins) /\ x - Bins \in 0..Bins - 1
    BY <1>1, <1>3
  <2>2. QED
    BY <1>1, <2>1, <1>3
<1>4. QED
  BY <1>2, <1>3

(* The bin of j bins ago. *)
Back(c, j) == IF j <= c THEN c - j ELSE c + Bins - j

(* It is a bin of the ring ... *)
LEMMA BackRange ==
    ASSUME NEW c \in 0..Bins - 1, NEW k \in 1..Window
    PROVE  Back(c, k - 1) \in 0..Bins - 1
  BY AirtimeAssumption DEF Back, Window

(* ... and the one the remainder names. *)
LEMMA BackBin ==
    ASSUME NEW c \in 0..Bins - 1, NEW k \in 1..Window
    PROVE  Bin(c + Bins - (k - 1)) = Back(c, k - 1)
<1>1. Bins \in Nat /\ Bins > 2
  BY AirtimeAssumption
<1>2. PICK x \in Nat : x = c + Bins - (k - 1) /\ x < 2 * Bins
  BY <1>1 DEF Window
<1>3. x % Bins = IF x < Bins THEN x ELSE x - Bins
  BY <1>2, ModOnce
<1>4. QED
  BY <1>1, <1>2, <1>3 DEF Bin, Back, Window

(* The sum over the ring covers the sum over the window: going back from    *)
(* the current bin, what was spent in the last k bins is at most the sum of *)
(* these k bins, F[c + 1] - F[c + 1 - k] and, past bin 0, F[Bins] less the  *)
(* bins before.                                                              *)
LEMMA RingCovers ==
    ASSUME NEW c \in 0..Bins - 1, NEW bins \in [0..Bins - 1 -> Nat],
           NEW used \in [1..Window -> Nat],
           \A k \in 1..Window : bins[Back(c, k - 1)] >= used[k]
    PROVE  LongTerm(bins) \in Nat /\ Total(used) \in Nat /\ LongTerm(bins) >= Total(used)
<1>1. Bins \in Nat /\ Bins > 2 /\ Window = Bins - 1 /\ Window \in Nat
  BY AirtimeAssumption DEF Window
<1>2. DEFINE row == [i \in 1..Bins |-> bins[i - 1]]
<1>3. row \in [1..Bins -> Nat]
  BY <1>1
<1>4. PICK F \in [0..Bins -> Nat] :
         /\ F[0] = 0 /\ Total(row) = F[Bins]
         /\ \A i \in 1..Bins : F[i] = F[i - 1] + row[i]
  BY <1>1, <1>3, TotalIs
<1>5. ASSUME NEW i \in 0..Bins - 1
      PROVE  F[i + 1] = F[i] + bins[i] /\ F[i] \in Nat /\ F[i + 1] \in Nat /\ bins[i] \in Nat
  <2>1. i + 1 \in 1..Bins /\ (i + 1) - 1 = i /\ i \in 0..Bins /\ i + 1 \in 0..Bins
    BY <1>1
  <2>2. F[i + 1] = F[i] + row[i + 1] /\ row[i + 1] = bins[i]
    BY <1>4, <2>1
  <2>3. QED
    BY <2>1, <2>2
<1>6. PICK S \in [0..Window -> Nat] :
         /\ S[0] = 0 /\ Total(used) = S[Window]
         /\ \A i \in 1..Window : S[i] = S[i - 1] + used[i]
  BY <1>1, TotalIs
<1>7. DEFINE Sum(k) == IF k <= c + 1 THEN F[c + 1] - F[c + 1 - k]
                       ELSE F[c + 1] + F[Bins] - F[Bins + c + 1 - k]
             T == {k \in 0..Window : S[k] <= Sum(k)}
<1>8. 0 \in T
  <2>1. F[c + 1] \in Nat /\ c + 1 - 0 = c + 1 /\ 0 <= c + 1
    BY <1>5
  <2>2. QED
    BY <1>1, <1>6, <2>1
<1>9. ASSUME NEW k \in 0..Window - 1, k \in T
      PROVE  k + 1 \in T
  <2>1. k + 1 \in 1..Window /\ (k + 1) - 1 = k /\ k \in 0..Window
    BY <1>1
  <2>2. S[k + 1] = S[k] + used[k + 1] /\ bins[Back(c, k)] >= used[k + 1] /\ S[k] <= Sum(k)
    BY <1>6, <1>9, <2>1
  <2>3. S[k] \in Nat /\ S[k + 1] \in Nat /\ used[k + 1] \in Nat /\ F[c + 1] \in Nat
    BY <1>5, <2>1
  <2>4. CASE k <= c
    <3>1. /\ c - k \in 0..Bins - 1 /\ Back(c, k) = c - k
          /\ c + 1 - k = (c - k) + 1 /\ c + 1 - (k + 1) = c - k
          /\ k <= c + 1 /\ k + 1 <= c + 1
      BY <1>1, <2>1, <2>4 DEF Back
    <3>2. F[(c - k) + 1] = F[c - k] + bins[c - k] /\ F[c - k] \in Nat /\ bins[c - k] \in Nat
      BY <1>5, <3>1
    <3>3. Sum(k) = F[c + 1] - F[(c - k) + 1] /\ Sum(k + 1) = F[c + 1] - F[c - k]
      BY <3>1
    <3>4. S[k + 1] <= Sum(k + 1)
      <4>1. HIDE DEF Sum
      <4>2. bins[c - k] >= used[k + 1]
        BY <2>2, <3>1
      <4>3. Sum(k + 1) = Sum(k) + bins[c - k] /\ Sum(k) \in Int
        BY <2>3, <3>2, <3>3
      <4>4. S[k + 1] = S[k] + used[k + 1] /\ S[k] <= Sum(k)
        BY <2>2
      <4>5. \A a, u, x \in Nat : \A y \in Int : a <= y /\ x >= u => a + u <= y + x
        OBVIOUS
      <4>6. S[k] + used[k + 1] <= Sum(k) + bins[c - k]
        BY ONLY <2>3, <3>2, <4>2, <4>3, <4>4, <4>5, Zenon
      <4>7. QED
        BY ONLY <4>3, <4>4, <4>6, Zenon
    <3>5. QED
      BY <2>1, <3>4
  <2>5. CASE ~(k <= c)
    <3>1. PICK j \in 0..Bins - 1 :
             /\ j = c + Bins - k /\ Back(c, k) = j
             /\ Bins + c + 1 - k = j + 1 /\ Bins + c + 1 - (k + 1) = j
             /\ ~(k + 1 <= c + 1)
      BY <1>1, <2>1, <2>5 DEF Back
    <3>2. F[j + 1] = F[j] + bins[j] /\ F[j] \in Nat /\ bins[j] \in Nat /\ F[Bins] \in Nat
      <4>1. F[Bins] \in Nat
        BY <1>1
      <4>2. F[j + 1] = F[j] + bins[j] /\ F[j] \in Nat /\ bins[j] \in Nat
        BY <1>5
      <4>3. QED
        BY <4>1, <4>2
    <3>3. Sum(k) = F[c + 1] + F[Bins] - F[j + 1]
      <4>1. CASE k <= c + 1
        <5>1. k = c + 1 /\ c + 1 - k = 0 /\ j + 1 = Bins
          BY <1>1, <2>1, <2>5, <3>1, <4>1
        <5>2. QED
          BY <1>4, <2>3, <3>2, <4>1, <5>1
      <4>2. CASE ~(k <= c + 1)
        BY <3>1, <4>2
      <4>3. QED
        BY <4>1, <4>2
    <3>4. Sum(k + 1) = F[c + 1] + F[Bins] - F[j]
      BY <3>1
    <3>5. S[k + 1] <= Sum(k + 1)
      <4>1. S[k] <= F[c + 1] + F[Bins] - F[j + 1] /\ bins[j] >= used[k + 1]
        <5>1. HIDE DEF Sum
        <5>2. QED
          BY <2>2, <3>1, <3>3
      <4>2. \A s0, u, f, fb, f0, b \in Nat :
              s0 <= f + fb - (f0 + b) /\ b >= u => s0 + u <= f + fb - f0
        OBVIOUS
      <4>3. S[k] + used[k + 1] <= F[c + 1] + F[Bins] - F[j]
        BY <2>3, <3>2, <4>1, <4>2
      <4>4. HIDE DEF Sum
      <4>5. QED
        BY <2>2, <3>4, <4>3
    <3>6. QED
      BY <2>1, <3>5
  <2>6. QED
    BY <2>4, <2>5
<1>10. S[Window] <= Sum(Window)
  <2>1. \A k \in 0..Window : k \in T
    BY <1>1, <1>8, <1>9, Induction
  <2>2. HIDE DEF Sum
  <2>3. QED
    BY <1>1, <2>1
<1>11. Sum(Window) <= F[Bins] /\ Sum(Window) \in Int
  <2>1. F[Bins] \in Nat /\ F[1] \in Nat
    BY <1>1
  <2>2. CASE c = Bins - 1
    BY <1>1, <2>1, <2>2
  <2>3. CASE c < Bins - 1
    <3>1. /\ c + 1 \in 0..Bins - 1 /\ Bins + c + 1 - Window = (c + 1) + 1
          /\ (~(Window <= c + 1) \/ (Window = c + 1 /\ c + 1 - Window = 0 /\ (c + 1) + 1 = Bins))
      BY <1>1, <2>3
    <3>2. F[(c + 1) + 1] = F[c + 1] + bins[c + 1] /\ F[c + 1] \in Nat /\ bins[c + 1] \in Nat
      BY <1>5, <3>1
    <3>3. Sum(Window) = F[c + 1] + F[Bins] - F[(c + 1) + 1]
      <4>1. CASE ~(Window <= c + 1)
        BY <3>1, <4>1
      <4>2. CASE Window = c + 1 /\ c + 1 - Window = 0 /\ (c + 1) + 1 = Bins
        <5>1. Window <= c + 1 /\ Sum(Window) = F[c + 1] - F[0]
          BY <1>1, <4>2
        <5>2. HIDE DEF Sum
        <5>3. QED
          BY <1>4, <2>1, <3>2, <4>2, <5>1
      <4>3. QED
        BY <3>1, <4>1, <4>2
    <3>4. HIDE DEF Sum
    <3>5. QED
      BY <2>1, <3>2, <3>3
  <2>4. QED
    BY <1>1, <2>2, <2>3
<1>12. LongTerm(bins) = F[Bins]
  BY <1>4 DEF LongTerm
<1>13. F[Bins] \in Nat /\ S[Window] \in Nat
  BY <1>1
<1>14. HIDE DEF Sum
<1>15. QED
  BY <1>6, <1>10, <1>11, <1>12, <1>13

(* As time passes what was spent in the window only becomes less. *)
LEMMA Expires ==
    ASSUME NEW n \in Nat, NEW used \in [1..Window -> Nat], NEW later \in [1..Window -> Nat],
           \A k \in 1..Window : later[k] = IF k > n THEN used[k - n] ELSE 0
    PROVE  Total(later) \in Nat /\ Total(used) \in Nat /\ Total(later) <= Total(used)
<1>1. Window \in Nat
  BY AirtimeAssumption DEF Window
<1>2. PICK S \in [0..Window -> Nat] :
         /\ S[0] = 0 /\ Total(used) = S[Window]
         /\ \A i \in 1..Window : S[i] = S[i - 1] + used[i]
  BY <1>1, TotalIs
<1>3. PICK L \in [0..Window -> Nat] :
         /\ L[0] = 0 /\ Total(later) = L[Window]
         /\ \A i \in 1..Window : L[i] = L[i - 1] + later[i]
  BY <1>1, TotalIs
<1>4. DEFINE T == {k \in 0..Window : L[k] = IF k > n THEN S[k - n] ELSE 0}
<1>5. 0 \in T
  BY <1>1, <1>3
<1>6. ASSUME NEW k \in 0..Window - 1, k \in T
      PROVE  k + 1 \in T
  <2>1. k + 1 \in 1..Window /\ (k + 1) - 1 = k /\ k \in 0..Window
    BY <1>1
  <2>2. L[k + 1] = L[k] + later[k + 1] /\ L[k] = IF k > n THEN S[k - n] ELSE 0
    BY <1>3, <1>6, <2>1
  <2>3. CASE k + 1 > n
    <3>1. k + 1 - n \in 1..Window /\ (k + 1 - n) - 1 = k - n /\ k - n \in 0..Window
      BY <1>1, <2>1, <2>3
    <3>2. S[k + 1 - n] = S[k - n] + used[k + 1 - n] /\ later[k + 1] = used[k + 1 - n]
      BY <1>2, <2>1, <2>3, <3>1
    <3>3. L[k] = S[k - n]
      <4>1. CASE k > n
        BY <2>2, <4>1
      <4>2. CASE ~(k > n)
        <5>1. k - n = 0
          BY <2>1, <2>3, <4>2
        <5>2. QED
          BY <1>2, <2>2, <4>2, <5>1
      <4>3. QED
        BY <4>1, <4>2
    <3>4. L[k + 1] = S[k + 1 - n]
      <4>1. L[k + 1] = L[k] + later[k + 1]
        BY <2>2
      <4>2. QED
        BY <3>2, <3>3, <4>1, Zenon
    <3>5. QED
      BY <2>1, <2>3, <3>4
  <2>4. CASE ~(k + 1 > n)
    <3>1. later[k + 1] = 0 /\ ~(k > n)
      BY <2>1, <2>4
    <3>2. QED
      BY <2>1, <2>2, <2>4, <3>1
  <2>5. QED
    BY <2>3, <2>4
<1>7. Window \in T
  <2>1. \A k \in 0..Window : k \in T
    BY <1>1, <1>5, <1>6, Induction
  <2>2. QED
    BY <1>1, <2>1
<1>8. ASSUME NEW i \in 1..Window
      PROVE  S[i] >= S[i - 1]
  <2>1. S[i] = S[i - 1] + used[i] /\ S[i - 1] \in Nat /\ used[i] \in Nat
    BY <1>1, <1>2
  <2>2. QED
    BY <2>1
<1>9. \A i \in 0..Window : S[i] <= S[Window]
  BY <1>1, <1>8, SumGrows
<1>10. S[Window] \in Nat /\ L[Window] \in Nat
  BY <1>1
<1>11. CASE Window > n
  <2>1. Window - n \in 0..Window /\ L[Window] = S[Window - n]
    BY <1>1, <1>7, <1>11
  <2>2. QED
    BY <1>2, <1>3, <1>9, <1>10, <2>1
<1>12. CASE ~(Window > n)
  <2>1. L[Window] = 0
    BY <1>7, <1>12
  <2>2. QED
    BY <1>2, <1>3, <1>10, <2>1
<1>13. QED
  BY <1>11, <1>12

(* An empty account. *)
LEMMA NothingSpent ==
    ASSUME NEW used \in [1..Window -> Nat], \A k \in 1..Window : used[k] = 0
    PROVE  Total(used) = 0
<1>1. Window \in Nat
  BY AirtimeAssumption DEF Window
<1>2. PICK S \in [0..Window -> Nat] :
         /\ S[0] = 0 /\ Total(used) = S[Window]
         /\ \A i \in 1..Window : S[i] = S[i - 1] + used[i]
  BY <1>1, TotalIs
<1>3. DEFINE T == {k \in 0..Window : S[k] = 0}
<1>4. 0 \in T
  BY <1>1, <1>2
<1>5. ASSUME NEW k \in 0..Window - 1, k \in T
      PROVE  k + 1 \in T
  <2>1. k + 1 \in 1..Window /\ (k + 1) - 1 = k /\ S[k] = 0
    BY <1>1, <1>5
  <2>2. S[k + 1] = S[k] + used[k + 1] /\ used[k + 1] = 0
    BY <1>2, <2>1
  <2>3. QED
    BY <1>1, <2>1, <2>2
<1>6. \A k \in 0..Window : k \in T
  BY <1>1, <1>4, <1>5, Induction
<1>7. QED
  BY <1>1, <1>2, <1>6

(* A charge to the current bin. *)
LEMMA SpentMore ==
    ASSUME NEW used \in [1..Window -> Nat], NEW more \in [1..Window -> Nat], NEW c \in Nat,
           more[1] = used[1] + c, \A k \in 2..Window : more[k] = used[k]
    PROVE  Total(used) \in Nat /\ Total(more) = Total(used) + c
<1>1. Window \in Nat /\ 1 \in 1..Window /\ 1 - 1 = 0
  BY AirtimeAssumption DEF Window
<1>2. PICK S \in [0..Window -> Nat] :
         /\ S[0] = 0 /\ Total(used) = S[Window]
         /\ \A i \in 1..Window : S[i] = S[i - 1] + used[i]
  BY <1>1, TotalIs
<1>3. PICK M \in [0..Window -> Nat] :
         /\ M[0] = 0 /\ Total(more) = M[Window]
         /\ \A i \in 1..Window : M[i] = M[i - 1] + more[i]
  BY <1>1, TotalIs
<1>4. DEFINE T == {k \in 0..Window : k = 0 \/ M[k] = S[k] + c}
<1>5. 0 \in T
  BY <1>1
<1>6. ASSUME NEW k \in 0..Window - 1, k \in T
      PROVE  k + 1 \in T
  <2>1. k + 1 \in 1..Window /\ (k + 1) - 1 = k /\ k \in 0..Window /\ k + 1 \in 0..Window
    BY <1>1
  <2>2. S[k + 1] = S[k] + used[k + 1] /\ M[k + 1] = M[k] + more[k + 1]
    BY <1>2, <1>3, <2>1
  <2>3. S[k] \in Nat /\ M[k] \in Nat /\ used[k + 1] \in Nat
    BY <2>1
  <2>4. CASE k = 0
    <3>1. S[k] = 0 /\ M[k] = 0 /\ more[k + 1] = used[k + 1] + c
      BY <1>2, <1>3, <2>4
    <3>2. M[k + 1] = S[k + 1] + c
      BY <2>2, <2>3, <3>1
    <3>3. QED
      BY <2>1, <3>2
  <2>5. CASE k # 0
    <3>1. M[k] = S[k] + c
      BY <1>6, <2>5
    <3>2. k + 1 \in 2..Window
      BY <1>1, <2>1, <2>5
    <3>3. more[k + 1] = used[k + 1]
      BY <3>2
    <3>4. M[k + 1] = S[k + 1] + c
      BY <2>2, <2>3, <3>1, <3>3
    <3>5. QED
      BY <2>1, <3>4
  <2>6. QED
    BY <2>4, <2>5
<1>7. \A k \in 0..Window : k \in T
  BY <1>1, <1>5, <1>6, Induction
<1>8. Window \in 0..Window /\ Window # 0
  BY <1>1
<1>9. M[Window] = S[Window] + c
  BY <1>7, <1>8
<1>10. QED
  BY <1>2, <1>3, <1>8, <1>9

-----------------------------------------------------------------------------
Types ==
    /\ cb \in 0..Bins - 1
    /\ airtime_bins \in [0..Bins - 1 -> Nat]
    /\ spent \in [1..Window -> Nat] /\ drained \in Nat
    /\ {airtime, longterm_airtime} \subseteq Nat
    /\ {st_airtime_limit, lt_airtime_limit} \subseteq Nat

(* ChargesKept without its remainder. *)
Kept == \A k \in 1..Window : airtime_bins[Back(cb, k - 1)] >= spent[k]

(* Outside a transmission the last account covers what has been spent in    *)
(* the current bin and the one before, and in the whole window, however old  *)
(* it is.                                                                    *)
Covered ==
    ~sending => airtime >= spent[1] + spent[2] /\ longterm_airtime >= Total(spent)

AccountInv == Types /\ Kept /\ Covered /\ LimitsRespected

(* The two ways to say that no charge is lost. *)
LEMMA KeptIsChargesKept == Types => (Kept <=> ChargesKept)
  BY BackBin DEF Types, Kept, ChargesKept

(* An account clears a bin the window does not reach, counts the two that   *)
(* the short-term limit is about, and covers the window.                     *)
LEMMA Accounted ==
    ASSUME Types, NEW bins \in [0..Bins - 1 -> Nat], NEW used \in [1..Window -> Nat],
           \A k \in 1..Window : bins[Back(cb, k - 1)] >= used[k]
    PROVE  /\ NextCleared(bins) \in [0..Bins - 1 -> Nat]
           /\ \A k \in 1..Window : NextCleared(bins)[Back(cb, k - 1)] >= used[k]
           /\ ShortTerm(NextCleared(bins)) \in Nat
           /\ ShortTerm(NextCleared(bins)) >= used[1] + used[2]
           /\ LongTerm(NextCleared(bins)) \in Nat
           /\ LongTerm(NextCleared(bins)) >= Total(used)
<1>1. Bins \in Nat /\ Bins > 2 /\ cb \in 0..Bins - 1
  BY AirtimeAssumption DEF Types
<1>2. nb \in 0..Bins - 1 /\ pb \in 0..Bins - 1 /\ pb = Back(cb, 1) /\ cb = Back(cb, 0)
  BY <1>1 DEF nb, pb, Back
<1>3. \A k \in 1..Window : Back(cb, k - 1) \in 0..Bins - 1 /\ Back(cb, k - 1) # nb
  BY <1>1 DEF nb, Back, Window
<1>4. NextCleared(bins) \in [0..Bins - 1 -> Nat]
  BY <1>2 DEF NextCleared
<1>5. \A k \in 1..Window : NextCleared(bins)[Back(cb, k - 1)] >= used[k]
  BY <1>2, <1>3 DEF NextCleared
<1>6. 1 \in 1..Window /\ 2 \in 1..Window /\ 1 - 1 = 0 /\ 2 - 1 = 1
  BY <1>1 DEF Window
<1>7. NextCleared(bins)[cb] >= used[1] /\ NextCleared(bins)[pb] >= used[2]
  BY <1>2, <1>5, <1>6
<1>8. /\ NextCleared(bins)[cb] \in Nat /\ NextCleared(bins)[pb] \in Nat
      /\ used[1] \in Nat /\ used[2] \in Nat
  BY <1>1, <1>2, <1>4, <1>6
<1>9. ShortTerm(NextCleared(bins)) = NextCleared(bins)[cb] + NextCleared(bins)[pb]
  BY DEF ShortTerm
<1>10. LongTerm(NextCleared(bins)) \in Nat /\ LongTerm(NextCleared(bins)) >= Total(used)
  <2>1. PICK after \in [0..Bins - 1 -> Nat] : after = NextCleared(bins)
    BY <1>4
  <2>2. \A k \in 1..Window : after[Back(cb, k - 1)] >= used[k]
    BY <1>5, <2>1
  <2>3. /\ LongTerm(after) \in Nat /\ Total(used) \in Nat
        /\ LongTerm(after) >= Total(used)
    BY <1>1, <2>2, RingCovers
  <2>4. QED
    BY <2>1, <2>3
<1>11. QED
  BY <1>4, <1>5, <1>7, <1>8, <1>9, <1>10

(* At boot nothing is charged or spent. *)
LEMMA InitHolds == Init => AccountInv
<1>1. SUFFICES ASSUME Init PROVE AccountInv
  OBVIOUS
<1>2. Bins \in Nat /\ Bins > 2
  BY AirtimeAssumption
<1>3. Types
  BY <1>1, <1>2 DEF Init, Types
<1>4. \A k \in 1..Window : Back(cb, k - 1) \in 0..Bins - 1
  BY <1>2, <1>3 DEF Types, Back, Window
<1>5. Kept
  BY <1>1, <1>2, <1>3, <1>4 DEF Init, Kept, Window
<1>6. 1 \in 1..Window /\ 2 \in 1..Window
  BY <1>2 DEF Window
<1>7. spent[1] = 0 /\ spent[2] = 0 /\ airtime = 0 /\ longterm_airtime = 0
  BY <1>1, <1>6 DEF Init
<1>8. Total(spent) = 0
  <2>1. spent \in [1..Window -> Nat] /\ \A k \in 1..Window : spent[k] = 0
    BY <1>1 DEF Init
  <2>2. QED
    BY <2>1, NothingSpent
<1>9. Covered
  BY <1>7, <1>8 DEF Covered
<1>10. LimitsRespected
  BY <1>1 DEF Init, LimitsRespected
<1>11. QED
  BY <1>3, <1>5, <1>9, <1>10 DEF AccountInv

(* Each step of loop(), and the passing of time, keeps the invariant. *)
LEMMA NextKeeps == AccountInv /\ [Next]_vars => AccountInv'
<1>1. SUFFICES ASSUME AccountInv, [Next]_vars
               PROVE  AccountInv'
  OBVIOUS
<1>2. Bins \in Nat /\ Bins > 2 /\ 1 \in 1..Window /\ 2 \in 1..Window
  BY AirtimeAssumption DEF Window
<1>3. ASSUME NEW n \in 1..Bins, Tick(n)
      PROVE  AccountInv'
  <2>1. cb' = IF cb + n < Bins THEN cb + n ELSE cb + n - Bins
    <3>1. PICK x \in Nat : x = cb + n /\ x < 2 * Bins
      BY <1>1, <1>2 DEF AccountInv, Types
    <3>2. x % Bins = IF x < Bins THEN x ELSE x - Bins
      BY <3>1, ModOnce
    <3>3. cb' = (cb + n) % Bins
      BY <1>3 DEF Tick, BinAfter, Bin
    <3>4. cb' = x % Bins
      BY <3>1, <3>3, Zenon
    <3>5. cb' = IF x < Bins THEN x ELSE x - Bins
      BY <3>2, <3>4, Zenon
    <3>6. QED
      BY <1>1, <1>2, <3>1, <3>5 DEF AccountInv, Types
  <2>2. cb' \in 0..Bins - 1
    BY <1>1, <1>2, <2>1 DEF AccountInv, Types
  <2>3. spent' \in [1..Window -> Nat]
    <3>1. \A k \in 1..Window : k > n => spent[k - n] \in Nat
      BY <1>1, <1>2 DEF AccountInv, Types, Window
    <3>2. QED
      BY <1>3, <3>1 DEF Tick
  <2>4. Types'
    BY <1>1, <1>3, <2>2, <2>3 DEF Tick, AccountInv, Types, limits
  <2>5. Kept'
    <3>1. SUFFICES ASSUME NEW k \in 1..Window
                   PROVE  airtime_bins[Back(cb', k - 1)] >= spent'[k]
      BY <1>3 DEF Tick, Kept
    <3>2. Back(cb', k - 1) \in 0..Bins - 1
      BY <2>2, BackRange
    <3>3. CASE k > n
      <4>1. k - n \in 1..Window /\ (k - n) - 1 = k - 1 - n
        BY <1>2, <3>3 DEF Window
      <4>2. Back(cb', k - 1) = Back(cb, (k - n) - 1)
        BY <1>1, <1>2, <2>1, <3>3 DEF AccountInv, Types, Back, Window
      <4>3. spent'[k] = spent[k - n]
        BY <1>3, <3>3 DEF Tick
      <4>4. QED
        BY <1>1, <4>1, <4>2, <4>3 DEF AccountInv, Kept
    <3>4. CASE ~(k > n)
      <4>1. spent'[k] = 0
        BY <1>3, <3>4 DEF Tick
      <4>2. airtime_bins[Back(cb', k - 1)] \in Nat
        BY <1>1, <3>2 DEF AccountInv, Types
      <4>3. QED
        BY <4>1, <4>2
    <3>5. QED
      BY <3>3, <3>4
  <2>6. spent'[1] + spent'[2] <= spent[1] + spent[2]
    <3>1. spent'[1] = 0 /\ (spent'[2] = 0 \/ spent'[2] = spent[1])
      <4>1. spent'[1] = IF 1 > n THEN spent[1 - n] ELSE 0
        BY <1>2, <1>3 DEF Tick
      <4>2. spent'[2] = IF 2 > n THEN spent[2 - n] ELSE 0
        BY <1>2, <1>3 DEF Tick
      <4>3. CASE n = 1
        BY <4>1, <4>2, <4>3
      <4>4. CASE n > 1
        BY <4>1, <4>2, <4>4
      <4>5. QED
        BY <1>2, <4>3, <4>4
    <3>2. spent[1] \in Nat /\ spent[2] \in Nat
      BY <1>1, <1>2 DEF AccountInv, Types
    <3>3. QED
      BY <3>1, <3>2
  <2>7. spent[1] \in Nat /\ spent[2] \in Nat /\ spent'[1] \in Nat /\ spent'[2] \in Nat
    BY <1>1, <1>2, <2>3 DEF AccountInv, Types
  <2>8. Total(spent') \in Nat /\ Total(spent) \in Nat /\ Total(spent') <= Total(spent)
    <3>1. PICK used \in [1..Window -> Nat] : used = spent
      BY <1>1 DEF AccountInv, Types
    <3>2. PICK later \in [1..Window -> Nat] : later = spent'
      BY <2>3
    <3>3. n \in Nat
      BY <1>2
    <3>4. \A k \in 1..Window : later[k] = IF k > n THEN used[k - n] ELSE 0
      BY <1>3, <3>1, <3>2 DEF Tick
    <3>5. Total(later) \in Nat /\ Total(used) \in Nat /\ Total(later) <= Total(used)
      BY <3>3, <3>4, Expires
    <3>6. QED
      BY <3>1, <3>2, <3>5
  <2>9. Covered'
    <3>1. sending' = sending /\ airtime' = airtime /\ longterm_airtime' = longterm_airtime
      BY <1>3 DEF Tick
    <3>2. airtime \in Nat /\ longterm_airtime \in Nat
      BY <1>1 DEF AccountInv, Types
    <3>3. SUFFICES ASSUME ~sending
                   PROVE  airtime >= spent'[1] + spent'[2] /\ longterm_airtime >= Total(spent')
      BY <3>1 DEF Covered
    <3>4. airtime >= spent[1] + spent[2] /\ longterm_airtime >= Total(spent)
      BY <1>1, <3>3 DEF AccountInv, Covered
    <3>5. QED
      BY <2>6, <2>7, <2>8, <3>2, <3>4
  <2>10. LimitsRespected'
    <3>1. /\ sending' = sending /\ drained' = drained
          /\ st_airtime_limit' = st_airtime_limit /\ lt_airtime_limit' = lt_airtime_limit
      BY <1>3 DEF Tick, limits
    <3>2. drained \in Nat /\ st_airtime_limit \in Nat /\ lt_airtime_limit \in Nat
      BY <1>1 DEF AccountInv, Types
    <3>3. SUFFICES ASSUME sending
                   PROVE  /\ st_airtime_limit # 0 => spent'[1] + spent'[2] < st_airtime_limit + drained
                          /\ lt_airtime_limit # 0 => Total(spent') < lt_airtime_limit + drained
      BY <3>1 DEF LimitsRespected
    <3>4. /\ st_airtime_limit # 0 => spent[1] + spent[2] < st_airtime_limit + drained
          /\ lt_airtime_limit # 0 => Total(spent) < lt_airtime_limit + drained
      BY <1>1, <3>3 DEF AccountInv, LimitsRespected
    <3>5. QED
      BY <2>6, <2>7, <2>8, <3>2, <3>4
  <2>11. QED
    BY <2>4, <2>5, <2>9, <2>10 DEF AccountInv
<1>4. CASE SetLimits
  <2>1. st_airtime_limit' \in Nat /\ lt_airtime_limit' \in Nat
    BY <1>1, <1>4, AirtimeAssumption DEF SetLimits, AccountInv, Types
  <2>2. QED
    BY <1>1, <1>4, <2>1
    DEF SetLimits, account, AccountInv, Types, Kept, Covered, Back, LimitsRespected
<1>5. CASE Pass
  <2>1. Types' /\ Kept' /\ Covered'
    BY <1>1, <1>5 DEF Pass, account, limits, AccountInv, Types, Kept, Covered, Back
  <2>2. LimitsRespected'
    <3>1. UNCHANGED <<spent, drained, st_airtime_limit, lt_airtime_limit>> /\ ~sending
      BY <1>5 DEF Pass, limits
    <3>2. SUFFICES ASSUME sending'
                   PROVE  /\ st_airtime_limit # 0 => spent[1] + spent[2] < st_airtime_limit + drained
                          /\ lt_airtime_limit # 0 => Total(spent) < lt_airtime_limit + drained
      BY <3>1 DEF LimitsRespected
    <3>3. ~LimitReached
      BY <1>5, <3>2, Zenon DEF Pass
    <3>4. airtime >= spent[1] + spent[2] /\ longterm_airtime >= Total(spent)
      BY <1>1, <3>1 DEF AccountInv, Covered
    <3>5. /\ st_airtime_limit # 0 => ~(airtime >= st_airtime_limit)
          /\ lt_airtime_limit # 0 => ~(longterm_airtime >= lt_airtime_limit)
      BY <3>3, Zenon DEF LimitReached
    <3>6. /\ spent[1] \in Nat /\ spent[2] \in Nat /\ airtime \in Nat /\ longterm_airtime \in Nat
          /\ st_airtime_limit \in Nat /\ lt_airtime_limit \in Nat /\ drained \in Nat
      BY <1>1, <1>2 DEF AccountInv, Types
    <3>7. Total(spent) \in Nat
      <4>1. Window \in Nat
        BY AirtimeAssumption DEF Window
      <4>2. PICK used \in [1..Window -> Nat] : used = spent
        BY <1>1 DEF AccountInv, Types
      <4>3. PICK S \in [0..Window -> Nat] : Total(used) = S[Window]
        BY <4>1, TotalIs
      <4>4. QED
        BY <4>1, <4>2, <4>3
    <3>8. QED
      BY <3>4, <3>5, <3>6, <3>7
  <2>3. QED
    BY <2>1, <2>2 DEF AccountInv
<1>6. ASSUME NEW c \in Costs, transmit(c)
      PROVE  AccountInv'
  <2>1. c \in Nat /\ cb \in 0..Bins - 1
    BY <1>1, AirtimeAssumption DEF AccountInv, Types
  <2>2. DEFINE bins == [airtime_bins EXCEPT ![cb] = @ + c]
               used == [spent EXCEPT ![1] = @ + c]
  <2>3. bins \in [0..Bins - 1 -> Nat] /\ used \in [1..Window -> Nat]
    <3>1. airtime_bins \in [0..Bins - 1 -> Nat] /\ spent \in [1..Window -> Nat]
      BY <1>1 DEF AccountInv, Types
    <3>2. airtime_bins[cb] + c \in Nat /\ spent[1] + c \in Nat
      BY <1>2, <2>1, <3>1
    <3>3. QED
      BY <3>1, <3>2
  <2>4. ASSUME NEW k \in 1..Window
        PROVE  bins[Back(cb, k - 1)] >= used[k]
    <3>1. Back(cb, k - 1) \in 0..Bins - 1 /\ (Back(cb, k - 1) = cb <=> k = 1)
      BY <1>2, <2>1 DEF Back, Window
    <3>2. airtime_bins[Back(cb, k - 1)] >= spent[k]
      BY <1>1 DEF AccountInv, Kept
    <3>3. airtime_bins[Back(cb, k - 1)] \in Nat /\ spent[k] \in Nat
      BY <1>1, <3>1 DEF AccountInv, Types
    <3>4. QED
      BY <1>1, <2>1, <3>1, <3>2, <3>3 DEF AccountInv, Types
  <2>5. airtime_bins' = NextCleared(bins) /\ spent' = used
    BY <1>6 DEF transmit
  <2>6. /\ NextCleared(bins) \in [0..Bins - 1 -> Nat]
        /\ \A k \in 1..Window : NextCleared(bins)[Back(cb, k - 1)] >= used[k]
    BY <1>1, <2>3, <2>4, Accounted DEF AccountInv
  <2>7. /\ sending /\ sending' /\ drained' = drained + c
        /\ st_airtime_limit' = st_airtime_limit /\ lt_airtime_limit' = lt_airtime_limit
    BY <1>6 DEF transmit, limits
  <2>8. Types' /\ Kept' /\ Covered'
    <3>1. UNCHANGED <<cb, airtime, longterm_airtime, st_airtime_limit, lt_airtime_limit>>
      BY <1>6 DEF transmit, limits
    <3>2. drained' \in Nat
      BY <1>1, <2>1, <2>7 DEF AccountInv, Types
    <3>3. airtime_bins' \in [0..Bins - 1 -> Nat] /\ spent' \in [1..Window -> Nat]
      BY <2>3, <2>5, <2>6
    <3>4. Types'
      BY <1>1, <3>1, <3>2, <3>3 DEF AccountInv, Types
    <3>5. HIDE DEF bins, used
    <3>6. Kept'
      BY <2>5, <2>6, <3>1 DEF Kept, Back
    <3>7. Covered'
      BY <2>7 DEF Covered
    <3>8. QED
      BY <3>4, <3>6, <3>7
  <2>9. LimitsRespected'
    <3>1. used[1] = spent[1] + c /\ \A k \in 2..Window : used[k] = spent[k]
      BY <1>1, <1>2 DEF AccountInv, Types
    <3>2. PICK before \in [1..Window -> Nat] : before = spent
      BY <1>1 DEF AccountInv, Types
    <3>3. PICK after \in [1..Window -> Nat] : after = used
      BY <2>3
    <3>4. after[1] = before[1] + c /\ \A k \in 2..Window : after[k] = before[k]
      BY <3>1, <3>2, <3>3, Zenon
    <3>5. Total(before) \in Nat /\ Total(after) = Total(before) + c
      BY <2>1, <3>4, SpentMore
    <3>6. spent' = after
      BY <2>5, <3>3
    <3>7. 2 \in 2..Window
      BY <1>2
    <3>8. after[2] = before[2] /\ before[1] \in Nat /\ before[2] \in Nat
      BY <1>2, <3>4, <3>7
    <3>9. drained \in Nat /\ st_airtime_limit \in Nat /\ lt_airtime_limit \in Nat
      BY <1>1 DEF AccountInv, Types
    <3>10. /\ st_airtime_limit # 0 => before[1] + before[2] < st_airtime_limit + drained
           /\ lt_airtime_limit # 0 => Total(before) < lt_airtime_limit + drained
      BY <1>1, <2>7, <3>2 DEF AccountInv, LimitsRespected
    <3>11. /\ st_airtime_limit # 0 => after[1] + after[2] < st_airtime_limit + (drained + c)
           /\ lt_airtime_limit # 0 => Total(after) < lt_airtime_limit + (drained + c)
      BY <2>1, <3>4, <3>5, <3>8, <3>9, <3>10
    <3>12. QED
      BY <2>7, <3>6, <3>11, Zenon DEF LimitsRespected
  <2>10. QED
    BY <2>8, <2>9 DEF AccountInv
<1>7. CASE update_airtime /\ UNCHANGED <<cb, limits, spent>> /\ ~sending' /\ drained' \in Nat
  <2>1. /\ NextCleared(airtime_bins) \in [0..Bins - 1 -> Nat]
        /\ \A k \in 1..Window : NextCleared(airtime_bins)[Back(cb, k - 1)] >= spent[k]
        /\ ShortTerm(NextCleared(airtime_bins)) \in Nat
        /\ ShortTerm(NextCleared(airtime_bins)) >= spent[1] + spent[2]
        /\ LongTerm(NextCleared(airtime_bins)) \in Nat
        /\ LongTerm(NextCleared(airtime_bins)) >= Total(spent)
    BY <1>1, Accounted DEF AccountInv, Types, Kept
  <2>2. /\ airtime_bins' = NextCleared(airtime_bins)
        /\ airtime' = ShortTerm(NextCleared(airtime_bins))
        /\ longterm_airtime' = LongTerm(NextCleared(airtime_bins))
    BY <1>7 DEF update_airtime
  <2>3. QED
    BY <1>1, <1>7, <2>1, <2>2
    DEF limits, AccountInv, Types, Kept, Covered, Back, LimitsRespected
<1>8. CASE Sent
  BY <1>7, <1>8 DEF Sent
<1>9. CASE check_modem_status
  BY <1>1, <1>7, <1>9 DEF check_modem_status, AccountInv, Types
<1>10. CASE startRadio
  <2>1. Types'
    BY <1>1, <1>10 DEF startRadio, limits, AccountInv, Types
  <2>2. \A k \in 1..Window : Back(cb, k - 1) \in 0..Bins - 1
    BY <1>1, <1>2 DEF AccountInv, Types, Back, Window
  <2>3. \A k \in 1..Window : airtime_bins'[Back(cb, k - 1)] = 0 /\ spent'[k] = 0
    BY <1>10, <2>2 DEF startRadio
  <2>4. airtime' = 0 /\ longterm_airtime' = 0 /\ cb' = cb
    BY <1>10 DEF startRadio
  <2>5. Total(spent') = 0
    <3>1. PICK used \in [1..Window -> Nat] : used = spent'
      BY <2>1 DEF Types
    <3>2. QED
      BY <2>3, <3>1, NothingSpent
  <2>6. Kept'
    BY <2>3, <2>4 DEF Kept, Back
  <2>7. Covered'
    BY <1>2, <2>3, <2>4, <2>5 DEF Covered
  <2>8. LimitsRespected'
    BY <1>10 DEF startRadio, LimitsRespected
  <2>9. QED
    BY <2>1, <2>6, <2>7, <2>8 DEF AccountInv
<1>11. CASE UNCHANGED vars
  BY <1>1, <1>11 DEF vars, AccountInv, Types, Kept, Covered, Back, LimitsRespected
<1>12. QED
  BY <1>1, <1>3, <1>4, <1>5, <1>6, <1>8, <1>9, <1>10, <1>11 DEF Next

-----------------------------------------------------------------------------
(* add_airtime() and update_airtime(): each bin of the ring holds at least  *)
(* what was really spent in it, however late the account is made up.         *)
THEOREM ChargesAlwaysKept == Spec => []ChargesKept
<1>1. AccountInv => ChargesKept
  BY KeptIsChargesKept DEF AccountInv
<1>2. QED
  BY <1>1, InitHolds, NextKeeps, PTL DEF Spec

(* loop() and flush_queue(): at every moment of a drain of the ring, the     *)
(* airtime really used in the current and the last bin is below the          *)
(* short-term limit (CMD_ST_ALOCK), and that of the bins of the last hour    *)
(* below the long-term limit (CMD_LT_ALOCK), but for what this drain itself  *)
(* has sent, however old the account is that the lock was decided from.      *)
THEOREM LimitsAlwaysRespected == Spec => []LimitsRespected
<1>1. AccountInv => LimitsRespected
  BY DEF AccountInv
<1>2. QED
  BY <1>1, InitHolds, NextKeeps, PTL DEF Spec
=============================================================================
