------------------------------ MODULE OclTuning ------------------------------
(***************************************************************************)
(* How the OpenCL miner of src/oclminer.rs tunes the size of its kernel    *)
(* runs: wg_multiplier is doubled while the hash rate grows, halved at the *)
(* peak or when the runs get longer than --cl-max-ms, and doubled again    *)
(* after ten minutes.  It decides after every 64 rounds of its loop.       *)
(* A round whose coin has changed meanwhile is cut short by continue: its  *)
(* time counts, the round and its hashes do not.                           *)
(*                                                                         *)
(* The device is external: a run takes between MinMs and MaxMs for each    *)
(* unit of the multiplier, whatever else the device does, and the host's   *)
(* part of the round (random numbers, buffers, enqueuing, reading back)    *)
(* up to HostMs more, also when there is no work for the device.  Whole    *)
(* milliseconds are counted, so that MinMs may be 0.                       *)
(***************************************************************************)
EXTENDS Naturals

CONSTANTS
  ITERATIONS,    \* WG_MULTIPLIER_CHANGE_ITERATIONS (64)
  MAX_LOOP_MS,   \* max_loop_ms, 500 or --cl-max-ms
  HASHES,        \* hashes of a run with multiplier 1
  MinMs, MaxMs,  \* the device's speed
  HostMs,        \* the most the host adds to a round
  MaxDiscards    \* bound on coin changes between two decisions

ASSUME TuningConstants ==
  /\ ITERATIONS \in Nat /\ ITERATIONS >= 2
  /\ MAX_LOOP_MS \in Nat /\ HASHES \in Nat \ {0}
  /\ MinMs \in Nat /\ MaxMs \in Nat /\ HostMs \in Nat /\ MaxDiscards \in Nat

VARIABLES
  multiplier,
  tuning,      \* "climbing" until found_peak, then "peak"
  peak_age,    \* "old" when found_peak_time is more than 600 s ago
  last_rate,
  hashes, runtime,  \* wg_multiplier_hash_count, wg_multiplier_runtime_ms
  rounds,      \* loop_iterations since the last decision
  thread,      \* "running", "failed" (Err) or "panicked"
  \* History: whether a run since the last decision was too long, how many were
  \* discarded, and how the first decision ended.
  long, discarded, first

vars == <<multiplier, tuning, peak_age, last_rate, hashes, runtime, rounds, thread,
          long, discarded, first>>

TypeOK ==
  /\ multiplier \in Nat /\ tuning \in {"climbing", "peak"} /\ peak_age \in {"fresh", "old"}
  /\ last_rate \in Nat /\ hashes \in Nat /\ runtime \in Nat
  /\ rounds \in 0..(ITERATIONS - 1)
  /\ thread \in {"running", "failed", "panicked"}
  /\ long \in {"no", "yes"} /\ discarded \in 0..MaxDiscards
  /\ first \in {"none", "fast", "slow"}

\* Both counts begin with 1.
Init ==
  /\ multiplier = 1 /\ tuning = "climbing" /\ peak_age = "fresh"
  /\ last_rate = 0 /\ hashes = 1 /\ runtime = 1 /\ rounds = 0
  /\ thread = "running"
  /\ long = "no" /\ discarded = 0 /\ first = "none"

-----------------------------------------------------------------------------
(***************************************************************************)
(* One round.                                                              *)
(***************************************************************************)
Durations == (MinMs * multiplier)..(MaxMs * multiplier + HostMs)
LongIf(ms) == IF ms > MAX_LOOP_MS THEN "yes" ELSE long

\* The sums with this round, and what the decision reads off them.  Mutant: the
\* time is divided by the rounds of two decisions.
Runtime(ms) == runtime + ms
Hashes == hashes + HASHES * multiplier
Rate(ms) == (1000 * Hashes) \div Runtime(ms)
HalfAverageMs(ms) == Runtime(ms) \div (2 * ITERATIONS)
AverageMs(ms) == Runtime(ms) \div ITERATIONS

\* A new coin has arrived.
DiscardRound(ms) ==
  /\ thread = "running" /\ discarded < MaxDiscards
  /\ runtime' = Runtime(ms)
  /\ long' = LongIf(ms) /\ discarded' = discarded + 1
  /\ UNCHANGED <<multiplier, tuning, peak_age, last_rate, hashes, rounds, thread, first>>

\* Mutant: one round too many.
OneTooMany == rounds + 1 <= ITERATIONS
MoreRounds == rounds + 1 < ITERATIONS

CountRound(ms) ==
  /\ thread = "running" /\ MoreRounds
  /\ runtime' = Runtime(ms) /\ hashes' = Hashes /\ rounds' = rounds + 1
  /\ long' = LongIf(ms)
  /\ UNCHANGED <<multiplier, tuning, peak_age, last_rate, thread, discarded, first>>

-----------------------------------------------------------------------------
(***************************************************************************)
(* The round after which it decides.                                       *)
(***************************************************************************)
\* The sums start again.  Mutant: the time goes on.
SumHashesAnew == hashes' = 0 /\ UNCHANGED runtime
SumAnew == hashes' = 0 /\ runtime' = 0

Decide(ms, outcome) ==
  /\ thread = "running" /\ rounds + 1 = ITERATIONS /\ Runtime(ms) # 0
  /\ last_rate' = Rate(ms)
  /\ SumAnew
  /\ rounds' = 0 /\ long' = "no" /\ discarded' = 0
  /\ first' = IF first = "none" THEN outcome ELSE first
  /\ UNCHANGED thread

IsTooSlow(ms) == AverageMs(ms) > MAX_LOOP_MS
IsSlower(ms) == Rate(ms) < last_rate

\* Mutant: found_peak is not set.
HalveOn == multiplier' = multiplier \div 2 /\ UNCHANGED <<tuning, peak_age>>
Halve == multiplier' = multiplier \div 2 /\ tuning' = "peak" /\ peak_age' = "fresh"

\* "Loop is taking too long".
TooSlow(ms) ==
  /\ Decide(ms, "slow")
  /\ tuning = "climbing" /\ IsTooSlow(ms)
  /\ Halve

\* "Increased wg size decreased performance".
Slower(ms) ==
  /\ Decide(ms, "fast")
  /\ tuning = "climbing" /\ ~IsTooSlow(ms) /\ IsSlower(ms)
  /\ Halve

\* "Increased wg size increased performance".
Faster(ms) ==
  /\ Decide(ms, "fast")
  /\ tuning = "climbing" /\ ~IsTooSlow(ms) /\ ~IsSlower(ms)
  /\ multiplier' = 2 * multiplier
  /\ UNCHANGED <<tuning, peak_age>>

KeepPeak(ms) ==
  /\ Decide(ms, "fast")
  /\ tuning = "peak" /\ peak_age = "fresh"
  /\ UNCHANGED <<multiplier, tuning, peak_age>>

\* Where the search begins again.  Mutant: at the peak itself.
SamePeak == multiplier
BeyondPeak == 2 * multiplier

ClimbAgain(ms) ==
  /\ Decide(ms, "fast")
  /\ tuning = "peak" /\ peak_age = "old"
  /\ multiplier' = BeyondPeak
  /\ tuning' = "climbing"
  /\ UNCHANGED peak_age

\* The rate's division panics when all rounds took 0 ms.
DivideByZero(ms) ==
  /\ thread = "running" /\ rounds + 1 = ITERATIONS /\ Runtime(ms) = 0
  /\ thread' = "panicked"
  /\ UNCHANGED <<multiplier, tuning, peak_age, last_rate, hashes, runtime, rounds, long,
                 discarded, first>>

\* A kernel of no work items: an error, or (from OpenCL 2.1) rounds without work.
EnqueueFails ==
  /\ thread = "running" /\ multiplier = 0
  /\ thread' = "failed"
  /\ UNCHANGED <<multiplier, tuning, peak_age, last_rate, hashes, runtime, rounds, long,
                 discarded, first>>

TenMinutesPass ==
  /\ thread = "running" /\ tuning = "peak" /\ peak_age = "fresh"
  /\ peak_age' = "old"
  /\ UNCHANGED <<multiplier, tuning, last_rate, hashes, runtime, rounds, thread, long,
                 discarded, first>>

Decision(ms) ==
  TooSlow(ms) \/ Slower(ms) \/ Faster(ms) \/ KeepPeak(ms) \/ ClimbAgain(ms)

Counted == \E ms \in Durations : CountRound(ms) \/ Decision(ms) \/ DivideByZero(ms)

Next ==
  \/ Counted
  \/ \E ms \in Durations : DiscardRound(ms)
  \/ EnqueueFails \/ TenMinutesPass

(***************************************************************************)
(* Kernel runs end, and the coin does not change in every one of them.     *)
(***************************************************************************)
Fairness == WF_vars(Counted)

Spec == Init /\ [][Next]_vars

-----------------------------------------------------------------------------
(***************************************************************************)
(* Safety.                                                                 *)
(***************************************************************************)

\* A device is left without work exactly if its very first rounds were too slow
\* on average, and then for good: neither a later decision nor the search that
\* begins again ever gets there, and no doubling leads out.  The idle search finds
\* no rate below its last one, 0, so that only slow rounds of the host end it.  The
\* tuning itself ends the miner only when it is idle, or on a device whose runs take
\* no measurable time.
IdleOnlyIfFirstTooSlow ==
  /\ multiplier = 0 <=> first = "slow"
  /\ multiplier = 0 /\ tuning = "climbing" => last_rate = 0
  /\ thread # "running" => first = "slow" \/ MinMs = 0

\* "Don't allow OpenCL to take longer than this number of milliseconds": no round
\* does.
WithinMaxMs == long = "no"

\* What the tuning keeps to instead.  It tries sizes beyond the limit, at first and
\* after every ten minutes, but none that needs more than twice that time on the
\* device at its fastest; and it settles on none that needs more than that time
\* there.  Only the rounds before its first decision may need any time, because
\* their size, 1, is nobody's choice.
WorkBounded ==
  /\ first # "none" => MinMs * multiplier <= 2 * MAX_LOOP_MS
  /\ tuning = "peak" => MinMs * multiplier <= MAX_LOOP_MS

\* "Loop is taking too long" is said only if some run did, or if a coin change
\* let the time of a run count but not the run.
TooSlowForAReason ==
  [][\A ms \in Durations : TooSlow(ms) => "yes" \in {long, LongIf(ms)} \/ discarded > 0]_vars

-----------------------------------------------------------------------------
(***************************************************************************)
(* Liveness.                                                               *)
(***************************************************************************)

\* The search of a device that has work ends, every time it begins, however the
\* device's speed varies.  That of an idle one need not: nothing doubled is nothing.
PeakFound ==
  thread = "running" /\ multiplier # 0 ~> tuning = "peak" \/ thread # "running"
=============================================================================
