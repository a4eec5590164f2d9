# Formal models of cpen442-miner

cpen442-miner mines CPEN-442 coins: blobs whose MD5, hashed together with the
preceding coin and the miner's identity, begins with enough zeros. One process
runs a *mining manager* thread, CPU and OpenCL *miner* threads, and a
*last-coin thread* that polls the coin server through HTTP proxies. This
directory holds TLA+ models of that concurrent core, the TLC configurations
that check them and TLAPS proofs about them. Line numbers below refer to
the Rust sources under `src/`.

## 1. Inventory of the system

| Component | Source | State | Operations | Interacts with |
|---|---|---|---|---|
| Mining manager | `src/miner.rs` 34-322 | the coin and difficulty mined on, deques of CPU and OpenCL miners, rotation of devices, count of bad claims and its timer | one loop: start miners, take statistics, take and claim a coin, poll, prune | fills the miners' mailboxes, drains their channels, calls the tracker, writes the wallet |
| Miner threads | `src/miner.rs` 324-420, `src/cpuminer.rs`, `src/oclminer.rs` | the coin and difficulty worked on, two mailboxes (`AtomicOption`), `should_stop` | boot, take mail, hash, send a coin, report, end / fail / panic | bounded `sync_channel`s to the manager |
| Tracker client | `src/cpen442coin.rs` | shared cells `last_coin`, `difficulty`; `client_reqs` | `claim_coin`, `get_last_coin`, `get_difficulty`, `get_thread` | server, proxies, both threads |
| Proxy manager | `src/proxy.rs` | heap of clients, set of URLs, time of the last success, three mutexes | `get_clients`, `return_client` (on drop), `read_new_proxies` | two threads, a file written by somebody else |
| Wallet | `src/cryptowallet.rs` | an append-only file | `store` | the manager, after a claim |
| OpenCL kernel | `src/cl/MD5.cl`, `message_for_id`, mask and tuning in `src/oclminer.rs` | `params_out`, the work group multiplier | one kernel run; reconstruction of the message; tuning | OpenCL miner |
| Hash tests, timers | `src/util.rs` | a `Timer`'s start | `hash_starts_n_zeroes`, `hex_starts_n_zeroes`, `check_and_reset(_rt)` | everybody |
| Start-up, devices, errors | `src/main.rs`, `src/ocldevice.rs`, `src/error.rs` | none | sequential | |

Hard behaviours: mailboxes replaced while a miner takes from them; a channel of
capacity 2 that its only reader ignores for up to a minute; miners that end,
fail or panic at any time; claims whose answers are lost, late or repeated; the
last-coin thread's answers racing the manager's own claims; restarts (by
hand or as a service; the wallet is opened for appending); proxies borrowed, judged and returned by
two threads under three nested locks. What makes each component correct:

* *Manager and miners*: no update is lost; nobody returns to a superseded coin; a
  boot never finds an empty mailbox; blocked miners come out again; every
  stopped miner is replaced; no device runs twice; labels are honest.
* *Tracker and wallet*: the wallet lists accepted coins and misses one only if
  nobody could have known; the manager finds the server's last coin.
* *Request limits*: no minute sees too many direct requests, polls leave some to
  claims.
* *Proxies*: none is lost or used twice; an outage never empties the pool; the two
  threads never wait for each other.
* *OpenCL kernel and host*: a run that finds something reports something, and the
  host rebuilds what was hashed; the mask tests neither too much nor too little.
* *Tuning*: the search ends, its sizes stay near the limit of milliseconds (the limit
  itself, which the documents promise, it does not keep), and a device is left without
  work only for a reason.
* *Hash tests*: the test on bytes, the one on digits and the kernel's agree.

`PROJECT.json` lists every hazard with its line and its properties.

## 2. Modules

### Board
The abstract promise of the mailboxes: one current value; a worker that changes
what it works on changes to the current value. It may be late or skip values but
never goes back.

### MiningManager (`src/miner.rs`, control of `src/cpuminer.rs` and `src/oclminer.rs`)
The manager is a program counter that walks through its loop, one action per
step of the loop: `StartNewMiner`, `StartOclMiner`, `ReceiveStats`,
`WaitOutBadCoins` or `ReceiveCoin`, `ClaimOk`/`ClaimBad`/`ClaimOtherError` (the
arms of the match on `claim_coin`'s result), `SkipPoll` or `PollLastCoin` and
`PollDifficulty`, `Prune`. A miner's `phase` is the point its thread has
reached; each take of a mailbox, the hashing round, and each (blocking) send is a
step, so that the manager may act between any two.

Differences of the two kinds of miner are kept: a CPU miner takes mail before it
hashes and returns after a coin; an OpenCL miner takes mail after the kernel has
run, throws the result away if the coin changed, relabels it if only the
difficulty did, and goes on for ever. A found coin records the coin it extends,
its label and the real number of zeros of its hash, which the manager's rehash
sees. `Prune` joins the first stopped miner of each deque; if its thread returned
an error, the `unwrap` in the manager's thread ends the process (`panicked`).
A panicking miner goes to `dead` without setting `should_stop`.

Abstractions: a mailbox exchange is atomic (`AtomicOption`); the loop of stores in
`update_miners_coin` is one step, because each miner only reads its own mailbox
and a step of another miner commutes with the remaining stores; hashing is a
choice between a hit and a miss; timers expire at any time; statistics are a
count; the tracker may return any coin and difficulty.

### Tracker (`src/cpen442coin.rs` 139-291 and 342-483, `src/cryptowallet.rs`)
The manager's claim, step by step: direct request unless `client_reqs` is full,
then up to six proxies, each request accepted, rejected (400), refused (429, 409),
timed out (next client) or failed otherwise (claim over); then the shared cell,
the wallet, `last_coin`; then the poll. Beside it the last-coin thread asks, is
answered, and stores the answer later. The server and the network are external:
a claim is accepted exactly if it extends the server's last coin, other miners
claim at any time, and a request whose client gave up may still arrive. `Crash`
restarts the process with only the wallet file left. `unanswered` is a history
variable: coins accepted with no running client told of it.

`get_last_coin`'s direct request goes to `claim_coin_url` (line 161). The types
of that endpoint's answers (`ClaimCoinResp`) hold no coin, so that it always falls
back to the cell; the model does exactly that.

`Ledger` is the abstract promise of a claim without its requests, repetitions and
restarts: the server takes each coin at most once, and each coin it took is
then recorded once or lost for good. Tracker implements it with `recorded` as
the wallet and `lost` as `unanswered`.

### RequestLimiter (`src/cpen442coin.rs` 139-159, 299-301, 386-388)
`client_reqs` as the sequence of request times, newest first, with the three
limits, under the manager's loop; `log` is a history variable. `Kept` is where
the loop that pops expired times from the back stops.

### ProxyManager (`src/proxy.rs`)
Each mutex is a variable and each lock that can wait is a step of its own. A
thread borrows proxies, accesses them one after the other, and returns each by
`Judge` (under the lock of `last_success`) and `Keep` or `DropProxy`; the reader
locks heap and URLs, scans and truncates the file, which somebody else may write
at any moment. Latencies only rank proxies and any of them may be picked.
`stat_timer` is taken only under the lock of the heap and left out.

`Pool` is the abstract promise to those who borrow, without mutexes, ages or
failures: each known proxy is lent to one user at a time, comes back or is
forgotten, and the last known one is never forgotten. ProxyManager implements it with
`known` as the set of URLs, `free` as the heap and `lent` as what a thread holds.

### OclKernel (`src/cl/MD5.cl` 179-269, `src/oclminer.rs` 41-82 and 243-285)
One kernel run after the other. A work item is its two loop counters: for each
message it misses, hits too late (`params_out[0]` is taken) or reports, and a report is
three writes that arrive in any order. Global memory is not synchronised, so an
item may read "empty" after another item's write, though not after its own.
The `break` after a report leaves the inner loop only, as in the source. `NextRun`
is the host's next round: new random words and a cleared buffer. `KernelMessage`
is what the kernel hashed and `MessageForId` what the host rebuilds. Words
are numbers modulo `WORD`, the square of `HALF`; the shifts are products with `HALF`,
`SHIFT_J` and `SHIFT_I` (2^16, 2^24, 2^12), whose relation to the loop counts is what
the assumption on the constants says. Abstractions:
whether a hash passes is open; a changed word is the pair of what was added to it
and what was xored into it, since what it was before is one random number for all
items of a run, from which `r2` is subtracted alike; the debug output is left out.

### HashTests (`src/util.rs` 43-74, `src/oclminer.rs` 159-171, `src/cl/MD5.cl` 246-247)
The three tests as operators on the digits of a hash, with the state that they read
(`num_zeros`, `hash_word2_mask`, made at the boot and renewed by mail), with the order of the half
bytes in a little-endian word and the wrapping of `nz - 8` and of the shift in a
release build (a debug build panics below 8 instead).

### OclTuning (`src/oclminer.rs` 186-193 and 287-389)
The search for the work group multiplier: after 64 counted rounds it is doubled
while the rate grows, halved when the rate falls or the average exceeds the limit,
kept for ten minutes, and doubled to search again. A round whose coin changed is
left by `continue` after its time was added. Divisions are the code's integer
divisions, and the two ways the tuning ends the miner are actions: a rate over
no measured time (`DivideByZero`), and a kernel of no work items, which OpenCL
refuses before version 2.1 (`EnqueueFails`); from 2.1 on rounds without work go on.
The device is external: a run takes between `MinMs` and `MaxMs` for each unit of the
multiplier. What is measured (lines 208-287) is the whole round, so that the host's
work, random numbers, buffers, enqueuing and reading back, adds up to `HostMs`, also
when the device has nothing to do. The throttle's sleep lies
outside the measured time and is left out, as is `loop_ms`, which only it and a
message use.

### OclLoop (`src/oclminer.rs` 287-389)
Puts the tuning and the difficulty together as the miner's loop does: a round that
counts takes a new difficulty first, one that is cut short by a coin takes none.

### Checking and proving modules
`MCMiningManager` and `MCProxyManager` add the symmetry sets and constants of the
runs. The modules named
`...Proofs` hold the theorems. Definitions marked `Mutant` state the plausible bugs that each property
is known to catch; no specification uses them.

## 3. Runs

| Run | Instance | Shows |
|---|---|---|
| `manager_mail` | 2 OpenCL that may fail or panic, 2 coins, 2 difficulties | `TypeOK`, `NoLostCoin`, `NoLostDifficulty`, `BootMailPresent`, `RoundRobin`, `ImplementsCoinBoard`, `ImplementsDifficultyBoard` |
| `manager_cpu` | 2 CPU, one of which may fail or panic, 2 difficulties, fair | `CpuLabelsTrue`, `StoppedPruned`, `StoppedMovesUp` |
| `manager_delivery` | 1 CPU, 1 OpenCL, 2 coins, fair | `CatchesUp` (Board with its fairness), `CoinsDrained` |
| `proxy_pool` | 2 threads, 2 proxies, 5 units of time | `TypeOK`, `Accounted`, `NoCircularWait`, `DropsOnlyOutlived`, `ImplementsPool` |
| `tracker_claims` | 4 coins, 2 proxies, 1 crash, fair | `TypeOK`, `WalletSound`, `WalletComplete`, `OnlyRealCoins`, `SettledStays`, `ImplementsLedger`, `LearnsTip` |
| `tracker_direct_only` | no proxy, fair | violates `LearnsTip` |
| `tracker_stale` | 2 proxies | violates `NoOlderCoin` |
| `request_limits` | limits 4, 2, 1, window 2, 6 units of time | `TypeOK`, `NeverTooMany`, `ClaimsReserved`, `CountsLastMinute` |
| `ocl_kernel` | 2 work items, 2 x 2 messages each, 4 blob words, words of 16 values | `TypeOK`, `HitsReported`, `RebuiltExactly`, `MixtureOfReports`, `NoMessageTwice` |
| `ocl_rebuild` | as `ocl_kernel` | violates `SameTransformation` |
| `ocl_tuning` | decisions every 2 rounds, limit 3 ms, 1-4 ms per unit, up to 1 ms for the host; hash words of 4 digits, difficulties 3-6; fair | `TypeOK`, `IdleOnlyIfFirstTooSlow`, `WorkBounded`, `TestsAgree`, `MaskExact`, `TooSlowForAReason`, `PeakFound` |
| `ocl_max_ms` | decisions every 2 rounds, limit 3 ms, always 1 ms per unit | violates `WithinMaxMs` |

**Bounds.** Channel capacities are 1 and the limit of bad claims is 1, which
reaches the full channel and the pause sooner than 2, 16 and 5 do and takes the
same branches. One miner of each kind suffices for mailboxes, which only their
owner and the manager touch; two are needed where the order in a deque or the
rotation matters. What is checked of the mailboxes of OpenCL miners, which also take
mail after a kernel run, is proved for CPU miners too (section 5). Two coins distinguish the current from an older one; in
Tracker a fourth is needed for one of ours between two of others. Two proxies and
two threads give every interleaving of the locks; an age difference of one unit
and five units of time let a proxy turn bad, survive an outage and be dropped.
`MAX_CLAIM_PROXIES`, `MaxCrashes`, `MaxTime`, `MaxFails` name the remaining
bounds. Two work items suffice for a race on `params_out`, because a third writes
the same three words; 2 x 2 messages let an item hit again after it has left
the inner loop (the exception in `NoMessageTwice` takes more items than values of half
a word, and is left to the theorem); 4 blob words give runs where the two changed words meet and
runs where they do not. Hash words of 4 digits, 0 and 5 (a digit counts as zero or
not) with the difficulties 3 to 6 lie below, at and above the word, even and odd; the
theorems cover 8 digits and all difficulties below 16. A device four times slower at times than at others lets the tuning
halve at once, climb, fall back and climb again, and its slowest first rounds leave it
idle, with a host that takes 0 or 1 ms for a round of nothing; one discarded round between
decisions already suffices to blame a fast device. `manager_mail`, `manager_cpu` and
`ocl_tuning` switch the deadlock check off, because the process ends when a failed
miner is joined, and a miner whose device refuses the kernel ends. Symmetry (of
coins, devices and proxies) is used in safety runs only.

**Fairness.** The manager never waits for a thread (`try_recv`, joins of threads
that have set `should_stop`, requests with timeouts), so it is weakly fair, as
is each miner, because the operating system schedules runnable threads. Blocked senders
get strong fairness: `sync_channel` wakes them first in, first out. A minute
passes (`CoolDown`). In Tracker the poll timer expires again and again (strong
fairness of `PollLastCoin`), and a request that is repeated for ever is answered
some time. In OclTuning rounds
that count go on (weak fairness of `Counted`): kernel runs end and not every one
meets a new coin. Nothing is assumed about hits, claims, crashes or other miners.

## 4. What the code does otherwise than it says

* `tracker_direct_only`: without `--proxy-file` the manager mines for ever on the
  constant it starts with. Its own poll asks the claim URL
  (`src/cpen442coin.rs` 161) and the last-coin thread asks through proxies only.
  The script `runminer.sh` starts the miner in this way.
* `tracker_stale`: "After a coin is successfully claimed all older coins are
  guarenteed to be invalid" (`src/miner.rs` 250-251), yet an answer the last-coin
  thread received before the claim is stored after it (`src/cpen442coin.rs` 205)
  and the next poll takes the manager, and all miners, back to the older coin.
  `LearnsTip` shows that this mends itself with the thread's next answer.

* `ocl_rebuild`: `message_for_id` is the "same transformation as happens on the GPU"
  (`src/oclminer.rs` 41) except when the two words changed by the id are the same
  word, which holds in one kernel run out of 32: the kernel's second assignment starts
  from the word as it was (`src/cl/MD5.cl` 222) and overwrites the first. The
  manager hashes again, so that a coin found in such a run is rejected and lost.
  `RebuiltExactly` says that this is the only case.

* `ocl_max_ms`: "Don't allow OpenCL to take longer than this number of milliseconds"
  (`README.md` 72 and `src/main.rs` 36, of `--cl-max-ms`). The search doubles the
  multiplier while the average is within the limit, without asking whether twice that
  still is (`src/oclminer.rs` 378), runs 64 rounds of the new size and only then goes
  back, and tries again more than ten minutes after each peak. The run needs neither a slow
  device nor a changing one: 1 ms for each unit, a limit of 3 ms, and the third size
  takes 4 ms. `WorkBounded` says what holds instead: from the first decision on, no
  size needs more than *twice* the limit on the device at its fastest, and no size
  that is settled on more than the limit. It says nothing of the rounds before the first
  decision, whose size is 1 however slow the device is.

Edges the models show without a document they contradict:

* If the very first 64 rounds are too slow on average, the multiplier becomes 0 and stays
  so (`IdleOnlyIfFirstTooSlow`: the only way to get there). Where OpenCL refuses a kernel
  without work items, or all rounds take less than a millisecond, the miner ends;
  otherwise it goes on hashing nothing. Ten minutes later it searches again, but
  twice 0 is 0 and its rate, 0, is never below the last one, so that such a search need
  never end. `PeakFound` is therefore stated of miners with a multiplier above 0.
* Coin changes alone can make the tuning believe that the loop takes too long
  (`TooSlowForAReason` has to allow for it).

## 5. Proofs

TLAPS proves, for any sets of miners, coins, proxies and threads and any
capacities and limits (assumptions: the named `ConstantsAssumption` of each
module and `KernelConstants`; finiteness of the sets, the constants' types, `None`
outside of them, and for the kernel that the counters fit beside one another in
their word, which 64, 256, 2^12 and 2^24 do):

* **MiningManager**: `TypeCorrect`, `RoundRobinStarts`, `CoinsReachMiners`,
  `DifficultiesReachMiners`, `BootNeverPanics`, `CpuLabelsHold`,
  `CoinBoardImplemented`, `DifficultyBoardImplemented`.
  Three inductive invariants, each using the one before.
  `TypeInv` adds to the types that a miner past its boot has a coin and a
  difficulty, and that no claim is under way in the pause (otherwise `bad` could
  exceed its limit). `DequeInv` says that the deques have no duplicates, live
  miners are exactly those not idle, and the running devices are the *last* ones
  of the rotation, which is what makes round robin work (it would not survive pruning a
  device, but an OpenCL miner that stops takes the process with it). `MailInv` says that a
  live miner has the current value in its mailbox or, the mailbox empty, in hand;
  together with the takes being the only changes of `coin` it gives both refinements.

  `StoppedAdvances`: a stopped miner never moves back in its deque, and each prune the
  process survives joins it or moves it one place up; the argument is that the first
  stopped miner is at or before any stopped one, and its removal shifts what is behind it
  (`PruneRemoves`). `SlotsCounted`: the deque has at most `nproducers` members, and
  the model's guard for a free slot is the code's `miners.len() < nproducers`, because
  the deque is an injection into the slots. Together they are the safety half of
  `StoppedPruned`: a stopped miner is joined within `nproducers` loops, whatever panicked
  miners stay in the deque before it, and all that is left to liveness is that loops
  go on. `PanicNeedsFailure`: the manager's
  thread only panics after a miner has returned an `Err`.
* **Tracker**: `TrackerTypes`, `WalletIsSound`, `WalletIsComplete`,
  `CoinsAreReal`. The invariant adds to these that the manager has a claim exactly
  from its receipt to its result, that an Ok follows an acceptance, and (`Unheard`)
  that a coin which was accepted while the current request does not say so is
  already in `unanswered`: without it a rejected retry of a claim whose first
  request was accepted would break completeness.
  `LedgerImplemented` needs one more invariant (`Once`): a hash belongs to one claim
  that may still arrive, and once the server has taken it that claim's predecessor
  is a past coin for good, which is why neither a retry nor a late request is
  accepted a second time.

  `TipIsKept` (the property `SettledStays`) is the safety half of `LearnsTip`: once
  the cell holds the server's coin and no answer or accepted claim under way carries
  another, every step that leaves the server's coin alone leaves it in the
  cell, and a manager that mines on it stays there. What is left to liveness is that
  such a state is reached.
  `ClaimOkIsNew` discharges what MiningManager assumes of `claim_coin`: until a claim
  ends it extends the manager's coin, and its hash is another one.
* **ProxyManager**: `ProxyTypes`, `ProxiesAccounted`, `DropsAreOutlived`,
  `LocksNeverCircle`, `PoolImplemented`. The
  invariant adds that a thread in the middle of something holds the proxy it
  works on, that no success lies in the future, that a proxy about to be
  dropped is far behind `last_success` (`Judged`), and that some *known* proxy is
  as recent as `last_success` (`SomeFresh`), which is why a drop leaves one
  (`NeverTheLast`).

  For the locks, a thread's place tells exactly which mutexes it
  holds, and each waits only for a mutex that comes later in the order last_success,
  heap, URLs than all it holds; in a set of waiting threads the holder of the last
  one waits for nobody in it.

  `PoolImplemented` maps each step to one of Pool or to a stutter: a borrow to
  `Lend`, a `Keep` to `TakeBack`, a `DropProxy` to `Forget`, which must leave a known
  proxy, and a scan to `Learn`, which must not add a proxy that is known but
  out of the heap; every other step changes neither the pool nor what is lent.
* **RequestLimiter**: `LimiterTypes`, `LimitKept`, `ClaimsKeepTheirShare`,
  `CountIsExact`. The invariant: the log is ordered by time; `client_reqs` is, in
  reverse, a suffix of it, and everything before that suffix has expired (so that
  the deque counts exactly the last window); and the request that lies as many requests
  back in the log as a request's limit says was made more than a window before it
  (`Spaced`), which bounds every window, not only those that end now.
* **OclKernel**: `KernelTypes`, `NoHitMissed`, `OnlyReportsMix`,
  `SingleReportRebuilt`. The invariant: an item that is writing stands at the
  message it reports, no item reports twice, a word of `params_out` is empty or
  one a reporting item wrote, and there is no hit without a report.

  `WorkDivided` says that no message is hashed twice in a run, neither by two work items
  nor by two rounds of one, with one exception. The word after the fast part tells the outer
  counter and the lower half of the id apart (`AfterTells`), the counter word the inner
  counter (`CounterTells`), and what is added to the first changed word the rest of the
  id (`AddedTells`), unless the second change overwrites it. So two items share
  messages only if the two places meet and the ids differ in their upper halves
  alone, which takes more than 2^16 work items (`NoMessageTwice`). Remainders and products of
  variables are beyond the solver, so that a few lemmas (`Grows`, `PairUnique`,
  `Remainder`, `CloseRemainders`) give the arithmetic.
* **HashTests**: `TestsOnBytesAndDigitsAgree`, `MaskIsExact`, for words of 4 and 8
  digits; the invariant is that the mask is always that of the difficulty in hand.
* **OclTuning**: `TuningTypes`, `IdleOnlyAtFirst`, `SearchBounded`,
  `SlownessHasAReason`. The invariant relates the first decision to the
  multiplier (before it 1, after a fast one never 0, after a slow one always 0, with no
  hashes counted and, while it searches, a last rate of 0), and bounds the time spent since
  the last decision from below by the counted rounds at the device's best speed and from above
  by the limit for each round that was neither long nor discarded (`TimeSpent`).
* **OclLoop**: `LoopTunes` and `LoopMasks` show that the loop refines OclTuning and the
  difficulty's specification in HashTests, so that, with the theorems of both,
  `LoopSafe` states their properties of the loop that `ocl_tuning` runs.

Only model-checked: everything about liveness (`CatchesUp`, `CoinsDrained`,
`StoppedPruned`, `LearnsTip`, `PeakFound`), which is out of the prover's reach, as
Board's fairness is. The safety halves of `StoppedPruned` and `LearnsTip` are proved
as said above. The runs' other properties are all theorems.

## 6. Not modelled

* The fake tracker (`src/cpen442coin.rs` 98-117, 347-377): a stand-in for tests that
  asks nobody.
* The difficulty cell of the last-coin thread: `get_thread` stores it and the
  manager polls it as they do the coin, with the same races as in Tracker.
* The sleep of `--throttle`, which delays a round and changes nothing else.
* Partially written wallet records: `store` appends one string, and how much of it
  a crash leaves is up to the file system.
* What a message hashes to: MD5 is a pure function; each model lets any hash occur.
* Difficulties of 16 and more, which overflow in `src/oclminer.rs` 162 and
  `src/miner.rs` 188 and panic or wrap with the build. `get_difficulty` refuses them, but
  the last-coin thread stores whatever it is told (`src/cpen442coin.rs` 231), and line
  317 returns what is stored.
* Command line, device listing and error conversions keep no state.

`PROJECT.json` gives the status of each component.

## 7. Plan

Done: MiningManager with Board, ProxyManager with Pool, Tracker with Ledger,
RequestLimiter, OclKernel, HashTests, OclTuning, OclLoop, and the proofs above. Left
for a later version:

1. the difficulty cell and partially written records in Tracker;
2. a composition of Tracker with the manager's loop that implements the environment
   MiningManager assumes (any coin and difficulty at any poll, a superset of what
   Tracker gives; `ClaimOkIsNew` already proves its assumption on claims);
3. a composition of OclKernel with a miner of MiningManager, so that a hit of the
   latter is a report of the former (it is open there, which admits every report);
4. the safety half of `CoinsDrained` and `CatchesUp`: that a blocked miner's coin
   is taken with the next read of its channel, and how many rounds a miner may still work
   on a superseded coin;
5. that RequestLimiter implements a sliding window, as an abstract specification.
