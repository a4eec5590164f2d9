--------------------------- MODULE OclTuningProofs ---------------------------
(***************************************************************************)
(* The tuning of the kernel's size for any limit, device speed and number  *)
(* of rounds.                                                              *)
(***************************************************************************)
EXTENDS OclTuning, TLAPS

\* What the first decision settles.
FirstDecision ==
  /\ first = "none" => multiplier = 1 /\ tuning = "climbing" /\ last_rate = 0
  /\ first = "slow" =>
       multiplier = 0 /\ hashes = 0 /\ (tuning = "climbing" => last_rate = 0)
  /\ first = "fast" => multiplier >= 1 /\ (tuning = "climbing" => multiplier >= 2)
  /\ thread # "running" => first = "slow" \/ MinMs = 0

\* The time since the last decision is at least that of the counted rounds at the
\* device's best, and without a long or discarded run at most that at the limit.
TimeSpent ==
  /\ runtime >= rounds * (MinMs * multiplier)
  /\ discarded = 0 /\ long = "no" => runtime <= rounds * MAX_LOOP_MS + 1

Inv == TypeOK /\ FirstDecision /\ TimeSpent /\ WorkBounded

-----------------------------------------------------------------------------
(***************************************************************************)
(* Arithmetic.                                                             *)
(***************************************************************************)
LEMMA ProductType ==
  ASSUME NEW a \in Nat, NEW b \in Nat
  PROVE  a * b \in Nat
OBVIOUS

LEMMA Distribute ==
  ASSUME NEW a \in Nat, NEW b \in Nat
  PROVE  (a + 1) * b = a * b + b
OBVIOUS

LEMMA Grows ==
  ASSUME NEW a \in Nat, NEW b \in Nat, NEW c \in Nat, b <= c
  PROVE  a * b <= a * c
<1> DEFINE d == c - b
<1>1. d \in Nat /\ c = b + d
  OBVIOUS
<1> HIDE DEF d
<1>2. a * c = a * b + a * d
  BY <1>1
<1>3. a * b \in Nat /\ a * d \in Nat
  BY <1>1
<1> QED  BY <1>2, <1>3

LEMMA DivMod ==
  ASSUME NEW x \in Nat, NEW n \in Nat \ {0}
  PROVE  /\ x \div n \in Nat
         /\ n * (x \div n) <= x /\ x < n * (x \div n) + n
OBVIOUS

\* An average is at least what each summand is at least ...
LEMMA AverageAtLeast ==
  ASSUME NEW n \in Nat \ {0}, NEW x \in Nat, NEW y \in Nat, NEW m \in Nat,
         x >= n * y, x \div n <= m
  PROVE  y <= m
<1> DEFINE q == x \div n
<1>1. q \in Nat /\ x < n * q + n /\ q <= m
  BY DivMod
<1> HIDE DEF q
<1>2. SUFFICES ASSUME q + 1 <= y PROVE FALSE
  BY <1>1
<1>3. n * (q + 1) <= n * y
  BY <1>1, <1>2, Grows
<1>4. n * (q + 1) = n * q + n /\ n * q \in Nat /\ n * y \in Nat
  BY <1>1
<1> QED  BY <1>1, <1>3, <1>4

\* ... and at most what each is at most, also with the 1 the first sum begins with.
LEMMA AverageAtMost ==
  ASSUME NEW n \in Nat, n >= 2, NEW x \in Nat, NEW m \in Nat, x <= n * m + 1
  PROVE  x \div n <= m
<1> DEFINE q == x \div n
<1>1. q \in Nat /\ n * q <= x
  BY DivMod
<1> HIDE DEF q
<1>2. SUFFICES ASSUME m + 1 <= q PROVE q <= m
  BY <1>1 DEF q
<1>3. n * (m + 1) <= n * q
  BY <1>1, <1>2, Grows
<1>4. n * (m + 1) = n * m + n /\ n * m \in Nat /\ n * q \in Nat
  BY <1>1
<1> QED  BY <1>1, <1>3, <1>4

LEMMA HalfProduct ==
  ASSUME NEW a \in Nat, NEW m \in Nat, NEW l \in Nat, a * m <= 2 * l
  PROVE  a * (m \div 2) <= l
<1> DEFINE k == m \div 2
<1>1. k \in Nat /\ 2 * k <= m
  OBVIOUS
<1> HIDE DEF k
<1>2. a * (2 * k) <= a * m
  BY <1>1, Grows
<1>3. a * (2 * k) = 2 * (a * k) /\ a * k \in Nat /\ a * m \in Nat
  BY <1>1
<1>4. a * k <= l
  BY <1>2, <1>3
<1> QED  BY <1>4 DEF k

LEMMA DoubleProduct ==
  ASSUME NEW a \in Nat, NEW m \in Nat, NEW l \in Nat, a * m <= l
  PROVE  a * (2 * m) <= 2 * l
<1>1. a * (2 * m) = 2 * (a * m) /\ a * m \in Nat
  OBVIOUS
<1> QED  BY <1>1

-----------------------------------------------------------------------------
(***************************************************************************)
(* The steps.                                                              *)
(***************************************************************************)
LEMMA DurationType ==
  ASSUME TypeOK, NEW ms \in Durations
  PROVE  /\ ms \in Nat /\ ms >= MinMs * multiplier
         /\ Runtime(ms) \in Nat /\ Hashes \in Nat
         /\ multiplier = 0 => Hashes = hashes
         /\ LongIf(ms) \in {"no", "yes"}
<1>1. MinMs * multiplier \in Nat /\ MaxMs * multiplier \in Nat /\ HASHES * multiplier \in Nat
  BY TuningConstants, ProductType DEF TypeOK
<1>2. multiplier = 0 => HASHES * multiplier = 0
  BY TuningConstants
<1>3. ms \in Nat /\ ms >= MinMs * multiplier
  BY <1>1, TuningConstants DEF Durations
<1> QED  BY <1>1, <1>2, <1>3 DEF Runtime, Hashes, LongIf, TypeOK

\* The time with one more round is at least that of one more round at the
\* device's best, and at most that of one more at the limit.
LEMMA OneMoreRound ==
  ASSUME TypeOK, TimeSpent, NEW ms \in Durations
  PROVE  /\ Runtime(ms) >= (rounds + 1) * (MinMs * multiplier)
         /\ Runtime(ms) >= rounds * (MinMs * multiplier)
         /\ discarded = 0 /\ LongIf(ms) = "no" =>
              Runtime(ms) <= (rounds + 1) * MAX_LOOP_MS + 1
<1> DEFINE b == MinMs * multiplier
           rb == rounds * b
           rm == rounds * MAX_LOOP_MS
<1>1. b \in Nat /\ rounds \in Nat /\ runtime \in Nat
  BY TuningConstants, ProductType DEF TypeOK
<1>2. rb \in Nat /\ rm \in Nat
  BY <1>1, TuningConstants, ProductType
<1>3. (rounds + 1) * b = rb + b /\ (rounds + 1) * MAX_LOOP_MS = rm + MAX_LOOP_MS
  BY <1>1, TuningConstants, Distribute
<1>4. ms \in Nat /\ ms >= b
  BY DurationType
<1>5. runtime >= rb /\ (discarded = 0 /\ long = "no" => runtime <= rm + 1)
  BY DEF TimeSpent
<1>6. LongIf(ms) = "no" => long = "no" /\ ms <= MAX_LOOP_MS
  BY <1>4, TuningConstants DEF LongIf
<1> HIDE DEF b, rb, rm
<1>7. /\ runtime + ms >= rb + b /\ runtime + ms >= rb
      /\ discarded = 0 /\ LongIf(ms) = "no" => runtime + ms <= rm + MAX_LOOP_MS + 1
  BY <1>1, <1>2, <1>4, <1>5, <1>6, TuningConstants
<1> QED  BY <1>3, <1>7 DEF Runtime, b, rb, rm

\* A decision's averages.
LEMMA AtDecision ==
  ASSUME TypeOK, TimeSpent, NEW ms \in Durations, rounds + 1 = ITERATIONS
  PROVE  /\ ~IsTooSlow(ms) => MinMs * multiplier <= MAX_LOOP_MS
         /\ discarded = 0 /\ LongIf(ms) = "no" => ~IsTooSlow(ms)
         /\ Runtime(ms) = 0 => MinMs = 0 \/ multiplier = 0
<1>1. MinMs * multiplier \in Nat /\ Runtime(ms) \in Nat
  BY TuningConstants, ProductType, DurationType DEF TypeOK
<1>2. Runtime(ms) >= ITERATIONS * (MinMs * multiplier)
  BY OneMoreRound
<1>3. ~IsTooSlow(ms) => MinMs * multiplier <= MAX_LOOP_MS
  <2>1. Runtime(ms) \div ITERATIONS \in Nat
    BY <1>1, TuningConstants, DivMod
  <2> QED  BY <1>1, <1>2, <2>1, AverageAtLeast, TuningConstants DEF IsTooSlow, AverageMs
<1>4. discarded = 0 /\ LongIf(ms) = "no" => ~IsTooSlow(ms)
  <2> SUFFICES ASSUME discarded = 0, LongIf(ms) = "no" PROVE ~IsTooSlow(ms)
    OBVIOUS
  <2>1. Runtime(ms) <= ITERATIONS * MAX_LOOP_MS + 1
    BY OneMoreRound
  <2>2. Runtime(ms) \div ITERATIONS \in Nat
    BY <1>1, TuningConstants, DivMod
  <2>3. Runtime(ms) \div ITERATIONS <= MAX_LOOP_MS
    BY <1>1, <2>1, TuningConstants, AverageAtMost
  <2> QED  BY <2>2, <2>3, TuningConstants DEF IsTooSlow, AverageMs
<1>5. Runtime(ms) = 0 => MinMs = 0 \/ multiplier = 0
  <2> SUFFICES ASSUME Runtime(ms) = 0, MinMs >= 1, multiplier >= 1 PROVE FALSE
    BY TuningConstants DEF TypeOK
  <2>1. 1 * multiplier <= MinMs * multiplier
    BY TuningConstants, Grows DEF TypeOK
  <2>2. ITERATIONS * 1 <= ITERATIONS * (MinMs * multiplier)
    BY <1>1, <2>1, TuningConstants, Grows DEF TypeOK
  <2> QED  BY <1>1, <1>2, <2>2, TuningConstants, ProductType
<1> QED  BY <1>3, <1>4, <1>5

LEMMA ZeroTimes == ASSUME NEW a \in Nat PROVE 0 * a = 0
  OBVIOUS

LEMMA ZeroDividedBy == ASSUME NEW n \in Nat \ {0} PROVE 0 \div n = 0
  OBVIOUS

\* A decision keeps its own variables in type and starts the sums again.
LEMMA DecideStep ==
  ASSUME Inv, NEW ms \in Durations, NEW o \in {"fast", "slow"}, Decide(ms, o),
         multiplier' \in Nat, tuning' \in {"climbing", "peak"}, peak_age' \in {"fresh", "old"}
  PROVE  /\ TypeOK' /\ TimeSpent'
         /\ rounds + 1 = ITERATIONS /\ thread' = "running"
         /\ first' = IF first = "none" THEN o ELSE first
         /\ hashes' = 0 /\ (first = "slow" => last_rate' = 0)
<1>0. Runtime(ms) \in Nat \ {0} /\ 1000 * Hashes \in Nat
  BY DurationType DEF Decide, Inv
<1>1. Rate(ms) \in Nat
  BY <1>0, DivMod DEF Rate
<1>2. TypeOK'
  BY <1>1, TuningConstants DEF Decide, SumAnew, Inv, TypeOK
<1>3. MinMs * multiplier' \in Nat
  BY TuningConstants, ProductType
<1>4. 0 * (MinMs * multiplier') = 0 /\ 0 * MAX_LOOP_MS = 0
  BY <1>3, TuningConstants, ZeroTimes
<1>5. TimeSpent'
  BY <1>4 DEF TimeSpent, Decide, SumAnew
<1>6. first = "slow" => last_rate' = 0
  <2> SUFFICES ASSUME first = "slow" PROVE Rate(ms) = 0
    BY DEF Decide
  <2>1. 1000 * Hashes = 0
    BY DurationType DEF Inv, FirstDecision
  <2> QED  BY <1>0, <2>1, ZeroDividedBy DEF Rate
<1> QED  BY <1>2, <1>5, <1>6 DEF Decide, SumAnew

LEMMA HalveStep ==
  ASSUME Inv, tuning = "climbing", Halve
  PROVE  multiplier' \in Nat /\ tuning' = "peak" /\ peak_age' = "fresh" /\ WorkBounded'
<1>1. multiplier \in Nat /\ MinMs \in Nat /\ MAX_LOOP_MS \in Nat
  BY TuningConstants DEF Inv, TypeOK
<1>2. MinMs * (multiplier \div 2) <= MAX_LOOP_MS
  <2>1. CASE first # "none"
    BY <1>1, <2>1, HalfProduct DEF Inv, WorkBounded
  <2>2. CASE first = "none"
    BY <1>1, <2>2 DEF Inv, FirstDecision
  <2> QED  BY <2>1, <2>2
<1>3. MinMs * (multiplier \div 2) \in Nat
  BY <1>1
<1> QED  BY <1>1, <1>2, <1>3 DEF Halve, WorkBounded

LEMMA DoubleStep ==
  ASSUME Inv, MinMs * multiplier <= MAX_LOOP_MS, multiplier' = 2 * multiplier,
         tuning' = "climbing"
  PROVE  multiplier' \in Nat /\ WorkBounded'
<1>1. multiplier \in Nat /\ MinMs \in Nat /\ MAX_LOOP_MS \in Nat
  BY TuningConstants DEF Inv, TypeOK
<1>2. MinMs * (2 * multiplier) <= 2 * MAX_LOOP_MS
  BY <1>1, DoubleProduct
<1> QED  BY <1>1, <1>2 DEF WorkBounded

LEMMA InitInv == Init => Inv
<1> SUFFICES ASSUME Init PROVE Inv
  OBVIOUS
<1>1. 0 * (MinMs * multiplier) = 0 /\ 0 * MAX_LOOP_MS = 0
  BY TuningConstants DEF Init
<1>2. TypeOK /\ FirstDecision
  BY TuningConstants DEF Init, TypeOK, FirstDecision
<1>3. TimeSpent /\ WorkBounded
  BY <1>1 DEF Init, TimeSpent, WorkBounded
<1> QED  BY <1>2, <1>3 DEF Inv

LEMMA NextInv == Inv /\ [Next]_vars => Inv'
<1> SUFFICES ASSUME Inv, [Next]_vars PROVE Inv'
  OBVIOUS
<1>0. TypeOK /\ FirstDecision /\ TimeSpent /\ WorkBounded
  BY DEF Inv
<1>1. ASSUME NEW ms \in Durations, CountRound(ms) PROVE Inv'
  <2>a. rounds' \in 0..(ITERATIONS - 1)
    BY <1>0, <1>1, TuningConstants DEF CountRound, MoreRounds, TypeOK
  <2>b. runtime' \in Nat /\ hashes' \in Nat /\ long' \in {"no", "yes"}
    BY <1>0, <1>1, DurationType DEF CountRound, TypeOK
  <2>1. TypeOK'
    BY <1>0, <1>1, <2>a, <2>b DEF CountRound, TypeOK
  <2>2. FirstDecision' /\ WorkBounded'
    BY <1>0, <1>1, DurationType DEF CountRound, FirstDecision, WorkBounded, TypeOK
  <2>3. TimeSpent'
    BY <1>0, <1>1, OneMoreRound DEF CountRound, TimeSpent
  <2> QED  BY <2>1, <2>2, <2>3 DEF Inv
<1>2. ASSUME NEW ms \in Durations, DiscardRound(ms) PROVE Inv'
  <2>a. discarded' \in 0..MaxDiscards
    BY <1>0, <1>2, TuningConstants DEF DiscardRound, TypeOK
  <2>b. runtime' \in Nat /\ long' \in {"no", "yes"}
    BY <1>0, <1>2, DurationType DEF DiscardRound, TypeOK
  <2>1. TypeOK'
    BY <1>0, <1>2, <2>a, <2>b DEF DiscardRound, TypeOK
  <2>2. FirstDecision' /\ WorkBounded'
    BY <1>0, <1>2 DEF DiscardRound, FirstDecision, WorkBounded
  <2>3. discarded' # 0
    BY <1>0, <1>2, TuningConstants DEF DiscardRound, TypeOK
  <2>4. TimeSpent'
    BY <1>0, <1>2, <2>3, OneMoreRound DEF DiscardRound, TimeSpent
  <2> QED  BY <2>1, <2>2, <2>4 DEF Inv
<1>3. ASSUME NEW ms \in Durations, TooSlow(ms) PROVE Inv'
  <2>1. Decide(ms, "slow") /\ tuning = "climbing" /\ Halve
    BY <1>3 DEF TooSlow
  <2>2. multiplier' \in Nat /\ tuning' = "peak" /\ peak_age' = "fresh" /\ WorkBounded'
    BY <2>1, HalveStep
  <2>3. /\ TypeOK' /\ TimeSpent' /\ thread' = "running"
        /\ first' = IF first = "none" THEN "slow" ELSE first
        /\ hashes' = 0 /\ (first = "slow" => last_rate' = 0)
    BY <2>1, <2>2, DecideStep
  <2>4. FirstDecision'
    BY <1>0, <2>1, <2>2, <2>3 DEF FirstDecision, Halve, TypeOK
  <2> QED  BY <2>2, <2>3, <2>4 DEF Inv
<1>4. ASSUME NEW ms \in Durations, Slower(ms) PROVE Inv'
  <2>1. Decide(ms, "fast") /\ tuning = "climbing" /\ Halve /\ IsSlower(ms)
    BY <1>4 DEF Slower
  <2>2. multiplier' \in Nat /\ tuning' = "peak" /\ peak_age' = "fresh" /\ WorkBounded'
    BY <2>1, HalveStep
  <2>3. /\ TypeOK' /\ TimeSpent' /\ thread' = "running"
        /\ first' = IF first = "none" THEN "fast" ELSE first
        /\ hashes' = 0 /\ (first = "slow" => last_rate' = 0)
    BY <2>1, <2>2, DecideStep
  <2>4. last_rate # 0
    <3>1. Rate(ms) \in Nat
      BY <2>1, <2>3 DEF Decide, TypeOK
    <3> QED  BY <2>1, <3>1 DEF IsSlower
  <2>5. FirstDecision'
    BY <1>0, <2>1, <2>2, <2>3, <2>4 DEF FirstDecision, Halve, TypeOK
  <2> QED  BY <2>2, <2>3, <2>5 DEF Inv
<1>5. ASSUME NEW ms \in Durations, Faster(ms) PROVE Inv'
  <2>1. /\ Decide(ms, "fast") /\ tuning = "climbing" /\ ~IsTooSlow(ms)
        /\ multiplier' = 2 * multiplier /\ tuning' = tuning /\ peak_age' = peak_age
    BY <1>5 DEF Faster
  <2>2. MinMs * multiplier <= MAX_LOOP_MS
    BY <1>0, <2>1, AtDecision DEF Decide
  <2>3. multiplier' \in Nat /\ WorkBounded'
    BY <2>1, <2>2, DoubleStep
  <2>4. /\ TypeOK' /\ TimeSpent' /\ thread' = "running"
        /\ first' = IF first = "none" THEN "fast" ELSE first
        /\ hashes' = 0 /\ (first = "slow" => last_rate' = 0)
    BY <1>0, <2>1, <2>3, DecideStep DEF TypeOK
  <2>5. FirstDecision'
    BY <1>0, <2>1, <2>4 DEF FirstDecision, TypeOK
  <2> QED  BY <2>3, <2>4, <2>5 DEF Inv
<1>6. ASSUME NEW ms \in Durations, KeepPeak(ms) PROVE Inv'
  <2>1. /\ Decide(ms, "fast") /\ tuning = "peak"
        /\ multiplier' = multiplier /\ tuning' = tuning /\ peak_age' = peak_age
    BY <1>6 DEF KeepPeak
  <2>2. /\ TypeOK' /\ TimeSpent' /\ thread' = "running"
        /\ first' = IF first = "none" THEN "fast" ELSE first
        /\ hashes' = 0 /\ (first = "slow" => last_rate' = 0)
    BY <1>0, <2>1, DecideStep DEF TypeOK
  <2>3. FirstDecision' /\ WorkBounded'
    BY <1>0, <2>1, <2>2 DEF FirstDecision, WorkBounded, TypeOK
  <2> QED  BY <2>2, <2>3 DEF Inv
<1>7. ASSUME NEW ms \in Durations, ClimbAgain(ms) PROVE Inv'
  <2>1. /\ Decide(ms, "fast") /\ tuning = "peak"
        /\ multiplier' = 2 * multiplier /\ tuning' = "climbing" /\ peak_age' = peak_age
    BY <1>7 DEF ClimbAgain, BeyondPeak
  <2>2. multiplier' \in Nat /\ WorkBounded'
    BY <1>0, <2>1, DoubleStep DEF WorkBounded
  <2>3. /\ TypeOK' /\ TimeSpent' /\ thread' = "running"
        /\ first' = IF first = "none" THEN "fast" ELSE first
        /\ hashes' = 0 /\ (first = "slow" => last_rate' = 0)
    BY <1>0, <2>1, <2>2, DecideStep DEF TypeOK
  <2>4. FirstDecision'
    BY <1>0, <2>1, <2>3 DEF FirstDecision, TypeOK
  <2> QED  BY <2>2, <2>3, <2>4 DEF Inv
<1>8. ASSUME NEW ms \in Durations, DivideByZero(ms) PROVE Inv'
  <2>1. MinMs = 0 \/ multiplier = 0
    BY <1>0, <1>8, AtDecision DEF DivideByZero
  <2>2. TypeOK' /\ TimeSpent' /\ WorkBounded'
    BY <1>0, <1>8 DEF DivideByZero, TypeOK, TimeSpent, WorkBounded
  <2>3. FirstDecision'
    BY <1>0, <1>8, <2>1 DEF DivideByZero, FirstDecision, TypeOK
  <2> QED  BY <2>2, <2>3 DEF Inv
<1>9. ASSUME EnqueueFails PROVE Inv'
  BY <1>0, <1>9 DEF EnqueueFails, Inv, TypeOK, TimeSpent, WorkBounded, FirstDecision
<1>10. ASSUME TenMinutesPass PROVE Inv'
  BY <1>0, <1>10 DEF TenMinutesPass, Inv, TypeOK, TimeSpent, WorkBounded, FirstDecision
<1>11. CASE UNCHANGED vars
  BY <1>0, <1>11 DEF vars, Inv, TypeOK, TimeSpent, WorkBounded, FirstDecision
<1> QED
  BY <1>1, <1>2, <1>3, <1>4, <1>5, <1>6, <1>7, <1>8, <1>9, <1>10, <1>11
     DEF Next, Counted, Decision

THEOREM TuningInvariant == Spec => []Inv
<1> QED  BY InitInv, NextInv, PTL DEF Spec

-----------------------------------------------------------------------------
\* The multiplier, the sums and the states of the tuning keep their types.
THEOREM TuningTypes == Spec => []TypeOK
<1>1. Inv => TypeOK
  BY DEF Inv
<1> QED  BY <1>1, TuningInvariant, PTL

\* Only a device that is too slow in its first rounds is tuned to nothing.  It stays
\* so, with a last rate of 0 in every later search, and the tuning ends no other miner
\* whose device takes measurable time.
THEOREM IdleOnlyAtFirst == Spec => []IdleOnlyIfFirstTooSlow
<1>1. Inv => IdleOnlyIfFirstTooSlow
  BY DEF Inv, TypeOK, FirstDecision, IdleOnlyIfFirstTooSlow
<1> QED  BY <1>1, TuningInvariant, PTL

\* Not the promised limit (see WithinMaxMs): from the first decision on, no size needs
\* more than twice the limit on the device at its fastest, and no size the search
\* settles on more than the limit.
THEOREM SearchBounded == Spec => []WorkBounded
<1>1. Inv => WorkBounded
  BY DEF Inv
<1> QED  BY <1>1, TuningInvariant, PTL

\* Without a long run or a coin change no size is taken for too slow.
THEOREM SlownessHasAReason == Spec => TooSlowForAReason
<1>1. Inv => [\A ms \in Durations :
                TooSlow(ms) => "yes" \in {long, LongIf(ms)} \/ discarded > 0]_vars
  <2> SUFFICES ASSUME Inv, NEW ms \in Durations, TooSlow(ms)
               PROVE  "yes" \in {long, LongIf(ms)} \/ discarded > 0
    OBVIOUS
  <2>1. ~(discarded = 0 /\ LongIf(ms) = "no")
    BY AtDecision DEF Inv, TooSlow, Decide
  <2> QED  BY <2>1, TuningConstants, DurationType DEF Inv, TypeOK
<1> QED  BY <1>1, TuningInvariant, PTL DEF TooSlowForAReason
=============================================================================
