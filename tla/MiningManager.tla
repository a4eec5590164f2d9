---------------------------- MODULE MiningManager ----------------------------
(***************************************************************************)
(* The mining manager of src/miner.rs and the miner threads it feeds       *)
(* (Miner<T>::run, CpuMinerFunction::run, OclMinerFunction::run).          *)
(*                                                                         *)
(* The manager is one thread running a loop: start a missing CPU miner,    *)
(* start a missing OpenCL miner, take one statistics message, take one     *)
(* coin and claim it, poll the tracker, prune a stopped miner.  Miners are *)
(* threads that mine on a coin and a difficulty taken from two mailboxes   *)
(* (AtomicOption cells) only the manager fills, and send what they find    *)
(* through a bounded channel only the manager drains.                      *)
(*                                                                         *)
(* The tracker is the manager's environment here: a claim may end in any   *)
(* way the match on claim_coin's result tells apart and a poll may return  *)
(* any coin and any difficulty.  Coin counters and the wallet do not feed  *)
(* back into the loop and are left to the module Tracker.                *)
(***************************************************************************)
EXTENDS Naturals, Sequences, FiniteSets, Functions

CONSTANTS
  Cpu,           \* slots of CPU miners: nproducers of them may exist at a time
  Ocl,           \* configured OpenCL devices (command line order is in oclfuncs)
  Coins,         \* coin hashes
  Difficulties,  \* difficulties the tracker may announce
  HashZeros,     \* possible numbers of leading zeros of a found hash
  None,          \* Rust's None
  COIN_CAP,      \* capacity of the coin channel (2 in the source)
  STATS_CAP,     \* capacity of the statistics channel (16 * ncpu + 16)
  BAD_LIMIT,     \* failed claims before the manager stops claiming (5)
  MayFail        \* miners whose run may return an Err or panic

Miners == Cpu \cup Ocl

(***************************************************************************)
(* A found coin: the coin it extends, the difficulty the miner labels it   *)
(* with, and how many zeros its hash really starts with.                   *)
(***************************************************************************)
FoundCoin == [prev : Coins, label : Difficulties, zeros : HashZeros]

ASSUME ConstantsAssumption ==
  /\ IsFiniteSet(Cpu) /\ IsFiniteSet(Ocl) /\ Cpu \cap Ocl = {}
  /\ Difficulties \subseteq Nat /\ HashZeros \subseteq Nat
  /\ None \notin Coins /\ None \notin Difficulties /\ None \notin FoundCoin
  /\ COIN_CAP \in Nat \ {0} /\ STATS_CAP \in Nat \ {0} /\ BAD_LIMIT \in Nat \ {0}
  /\ MayFail \subseteq Miners

VARIABLES
  \* The manager's locals and fields.
  pc,            \* where the loop stands
  last_coin, last_num_zeros,
  bad,           \* recent_bad_coin_count
  minute,        \* "over" once 60 s have passed since bad_coin_start_time
  miners,        \* deque of CPU miners
  oclminers,     \* deque of OpenCL miners
  oclfuncs,      \* oclminerfuncs, rotated at each start
  \* The channels.
  coinChan, stats,
  \* Each miner thread and its two mailboxes.
  phase, coin, zeros, found, mailCoin, mailZeros

managerVars == <<last_coin, last_num_zeros, bad, miners, oclminers, oclfuncs>>
threadVars  == <<coin, zeros, found>>
mailVars    == <<mailCoin, mailZeros>>
minerVars   == <<phase, threadVars, mailVars>>
vars == <<pc, managerVars, minute, coinChan, stats, minerVars>>

Live == Range(miners) \cup Range(oclminers)

\* Mutant: the limit is off by one.
PausedLate == bad > BAD_LIMIT
Paused == bad >= BAD_LIMIT

Places == {"cpu", "ocl", "stats", "coins", "claim", "poll", "pollz", "prune",
           "panicked"}
Phases == {"idle", "boot", "bootz", "coin", "zeros", "hash", "send", "report",
           "ended", "done", "failed", "dead"}

ManagerType ==
  /\ pc \in Places
  /\ last_coin \in Coins /\ last_num_zeros \in Difficulties
  /\ bad \in 0..BAD_LIMIT /\ minute \in {"running", "over"}
  /\ miners \in Seq(Cpu) /\ oclminers \in Seq(Ocl) /\ oclfuncs \in Seq(Ocl)

ChannelType ==
  /\ coinChan \in Seq(FoundCoin) /\ Len(coinChan) <= COIN_CAP
  /\ stats \in 0..STATS_CAP

MinerType ==
  /\ phase \in [Miners -> Phases]
  /\ coin \in [Miners -> Coins \cup {None}]
  /\ zeros \in [Miners -> Difficulties \cup {None}]
  /\ found \in [Miners -> FoundCoin \cup {None}]
  /\ mailCoin \in [Miners -> Coins \cup {None}]
  /\ mailZeros \in [Miners -> Difficulties \cup {None}]

TypeOK == ManagerType /\ ChannelType /\ MinerType

(***************************************************************************)
(* MiningManager::new and the start of run: no miner yet, and whatever     *)
(* coin and difficulty the first two tracker calls return.                 *)
(***************************************************************************)
Init ==
  /\ pc = "cpu"
  /\ last_coin \in Coins /\ last_num_zeros \in Difficulties
  /\ bad = 0 /\ minute = "running"
  /\ miners = <<>> /\ oclminers = <<>>
  /\ oclfuncs \in Bijection(1..Cardinality(Ocl), Ocl)
  /\ coinChan = <<>> /\ stats = 0
  /\ phase = [m \in Miners |-> "idle"]
  /\ coin = [m \in Miners |-> None] /\ zeros = [m \in Miners |-> None]
  /\ found = [m \in Miners |-> None]
  /\ mailCoin = [m \in Miners |-> None] /\ mailZeros = [m \in Miners |-> None]

-----------------------------------------------------------------------------
(***************************************************************************)
(* The manager's loop.                                                     *)
(***************************************************************************)
Goto(from, to) == pc = from /\ pc' = to

\* take() on a mailbox: its content moves to the thread, which keeps its old
\* value when the mailbox is empty.
Taken(mail, old) == IF mail = None THEN old ELSE mail

\* Mutant: the difficulty is left to the next update_miners_difficulty.
LaunchNoDifficulty(m) ==
  /\ phase' = [phase EXCEPT ![m] = "boot"]
  /\ mailCoin' = [mailCoin EXCEPT ![m] = last_coin]
  /\ UNCHANGED mailZeros

\* Miner::new fills both mailboxes, Miner::run spawns the thread.
Launch(m) ==
  /\ phase' = [phase EXCEPT ![m] = "boot"]
  /\ mailCoin' = [mailCoin EXCEPT ![m] = last_coin]
  /\ mailZeros' = [mailZeros EXCEPT ![m] = last_num_zeros]

\* A slot outside the deque is free exactly when miners.len() < nproducers.
StartNewMiner ==
  /\ Goto("cpu", "ocl")
  /\ \/ \E m \in Cpu \ Range(miners) :
          Launch(m) /\ miners' = Append(miners, m)
     \/ Cpu \subseteq Range(miners) /\ UNCHANGED <<miners, phase, mailVars>>
  /\ UNCHANGED <<last_coin, last_num_zeros, bad, minute, oclminers, oclfuncs,
                 coinChan, stats, threadVars>>

\* pop_front, then push_back.  Mutant: push_front.
NotRotated(q) == q
Rotated(q) == Append(Tail(q), Head(q))

StartOclMiner ==
  /\ Goto("ocl", "stats")
  /\ IF Len(oclminers) < Len(oclfuncs)
     THEN LET m == Head(oclfuncs)
          IN  /\ Launch(m)
              /\ oclminers' = Append(oclminers, m)
              /\ oclfuncs' = Rotated(oclfuncs)
     ELSE UNCHANGED <<oclminers, oclfuncs, phase, mailVars>>
  /\ UNCHANGED <<last_coin, last_num_zeros, bad, minute, miners, coinChan, stats,
                 threadVars>>

\* try_recv on the statistics channel; the sums it feeds are only printed.
ReceiveStats ==
  /\ Goto("stats", "coins")
  /\ stats' = IF stats > 0 THEN stats - 1 ELSE 0
  /\ UNCHANGED <<managerVars, minute, coinChan, minerVars>>

\* The count after a loop that only waits.  Mutant: it is never reset.
NeverReset == bad
ResetAfterMinute == IF minute = "over" THEN 0 ELSE bad

\* Too many bad requests: the channel is not read until a minute has passed.
WaitOutBadCoins ==
  /\ Goto("coins", "poll")
  /\ Paused
  /\ bad' = ResetAfterMinute
  /\ UNCHANGED <<last_coin, last_num_zeros, minute, miners, oclminers, oclfuncs,
                 coinChan, stats, minerVars>>

\* What the manager checks before it contacts the tracker: the coin extends
\* last_coin, its label is high enough, and so is its recomputed hash.
Claimable(c) ==
  /\ last_coin = c.prev
  /\ last_num_zeros <= c.label
  /\ c.zeros >= last_num_zeros

ReceiveCoin ==
  /\ pc = "coins" /\ ~Paused
  /\ IF coinChan = <<>>
     THEN pc' = "poll" /\ UNCHANGED coinChan
     ELSE /\ coinChan' = Tail(coinChan)
          /\ pc' = IF Claimable(Head(coinChan)) THEN "claim" ELSE "poll"
  /\ UNCHANGED <<managerVars, minute, stats, minerVars>>

\* Mutants: only the CPU miners are told, or only the empty mailboxes filled.
UpdateCpuMinersCoin(c) ==
  mailCoin' = [m \in Miners |-> IF m \in Range(miners) THEN c ELSE mailCoin[m]]
FillMissingCoin(c) ==
  mailCoin' = [m \in Miners |-> IF m \in Live THEN Taken(mailCoin[m], c) ELSE mailCoin[m]]
UpdateCpuMinersDifficulty(z) ==
  mailZeros' = [m \in Miners |-> IF m \in Range(miners) THEN z ELSE mailZeros[m]]
FillMissingDifficulty(z) ==
  mailZeros' =
    [m \in Miners |-> IF m \in Live THEN Taken(mailZeros[m], z) ELSE mailZeros[m]]

\* update_miners_coin and update_miners_difficulty: each live miner's mailbox
\* is replaced.  Distinct miners own distinct mailboxes, so that a step of one
\* miner between two of the stores commutes with the rest of them.
UpdateMinersCoin(c) ==
  mailCoin' = [m \in Miners |-> IF m \in Live THEN c ELSE mailCoin[m]]
UpdateMinersDifficulty(z) ==
  mailZeros' = [m \in Miners |-> IF m \in Live THEN z ELSE mailZeros[m]]

\* claim_coin returned Ok: the claimed hash is the coin to mine on.
ClaimOk ==
  /\ Goto("claim", "poll")
  /\ \E hash \in Coins \ {last_coin} :
       last_coin' = hash /\ UpdateMinersCoin(hash)
  /\ bad' = 0
  /\ UNCHANGED <<last_num_zeros, minute, miners, oclminers, oclfuncs, coinChan,
                 stats, phase, threadVars, mailZeros>>

\* claim_coin returned Error::BadCoin or Error::AllRequestsFailed.
ClaimBad ==
  /\ Goto("claim", "poll")
  /\ bad' = bad + 1
  /\ minute' = "running"
  /\ UNCHANGED <<last_coin, last_num_zeros, miners, oclminers, oclfuncs, coinChan,
                 stats, minerVars>>

\* claim_coin returned any other error: only counted and printed.
ClaimOtherError ==
  /\ Goto("claim", "poll")
  /\ UNCHANGED <<managerVars, minute, coinChan, stats, minerVars>>

\* coin_check_timer has not expired.
SkipPoll ==
  /\ Goto("poll", "prune")
  /\ UNCHANGED <<managerVars, minute, coinChan, stats, minerVars>>

\* get_last_coin and get_difficulty never return Err once run has started.
PollLastCoin ==
  /\ Goto("poll", "pollz")
  /\ \E c \in Coins :
       IF c # last_coin
       THEN last_coin' = c /\ bad' = 0 /\ UpdateMinersCoin(c)
       ELSE UNCHANGED <<last_coin, bad, mailCoin>>
  /\ UNCHANGED <<last_num_zeros, minute, miners, oclminers, oclfuncs, coinChan,
                 stats, phase, threadVars, mailZeros>>

PollDifficulty ==
  /\ Goto("pollz", "prune")
  /\ \E z \in Difficulties :
       IF z # last_num_zeros
       THEN last_num_zeros' = z /\ bad' = 0 /\ UpdateMinersDifficulty(z)
       ELSE UNCHANGED <<last_num_zeros, bad, mailZeros>>
  /\ UNCHANGED <<last_coin, minute, miners, oclminers, oclfuncs, coinChan, stats,
                 phase, threadVars, mailCoin>>

\* The position of the first stopped miner of a deque, 0 when none has stopped:
\* is_stopped reads should_stop, which a thread that returned has set and a
\* thread that panicked has not.
Stopped(q) == {i \in DOMAIN q : phase[q[i]] \in {"done", "failed"}}

\* Mutants: only the front of the deque is looked at, or it is searched from the
\* back.
FrontIfStopped(q) == IF 1 \in Stopped(q) THEN {1} ELSE {0}
LastStopped(q) ==
  IF Stopped(q) = {} THEN {0}
  ELSE {i \in Stopped(q) : \A j \in Stopped(q) : i >= j}
FirstStopped(q) ==
  IF Stopped(q) = {} THEN {0}
  ELSE {i \in Stopped(q) : \A j \in Stopped(q) : i <= j}
Without(q, i) == SubSeq(q, 1, i - 1) \o SubSeq(q, i + 1, Len(q))

Dropped(f, S) == [m \in Miners |-> IF m \in S THEN None ELSE f[m]]

\* prune_stopped_miners: stop() joins the thread; its unwrap panics when the
\* thread returned an Err, and the panic of this thread ends the process.
Prune ==
  /\ pc = "prune"
  /\ \E i \in FirstStopped(miners), j \in FirstStopped(oclminers) :
       LET joined == {miners[k] : k \in {i} \ {0}}
                       \cup {oclminers[k] : k \in {j} \ {0}}
       IN  IF \E m \in joined : phase[m] = "failed"
           THEN pc' = "panicked" /\ UNCHANGED <<miners, oclminers, minerVars>>
           ELSE /\ pc' = "cpu"
                /\ miners' = Without(miners, i)
                /\ oclminers' = Without(oclminers, j)
                /\ phase' = [m \in Miners |-> IF m \in joined THEN "idle" ELSE phase[m]]
                /\ coin' = Dropped(coin, joined) /\ zeros' = Dropped(zeros, joined)
                /\ mailCoin' = Dropped(mailCoin, joined)
                /\ mailZeros' = Dropped(mailZeros, joined)
                /\ UNCHANGED found
  /\ UNCHANGED <<last_coin, last_num_zeros, bad, minute, oclfuncs, coinChan, stats>>

Manager ==
  \/ StartNewMiner \/ StartOclMiner \/ ReceiveStats
  \/ WaitOutBadCoins \/ ReceiveCoin
  \/ ClaimOk \/ ClaimBad \/ ClaimOtherError
  \/ SkipPoll \/ PollLastCoin \/ PollDifficulty
  \/ Prune

\* A minute passes since the last bad coin.
CoolDown ==
  /\ pc # "panicked" /\ Paused /\ minute = "running"
  /\ minute' = "over"
  /\ UNCHANGED <<pc, managerVars, coinChan, stats, minerVars>>

-----------------------------------------------------------------------------
(***************************************************************************)
(* A miner thread.  It runs while the process lives.                       *)
(***************************************************************************)
Step(m, from, to) ==
  /\ pc # "panicked"
  /\ phase[m] = from
  /\ phase' = [phase EXCEPT ![m] = to]
  /\ UNCHANGED <<pc, managerVars, minute>>

\* The first two takes are unwrapped: an empty mailbox would be a panic.
BootCoin(m) ==
  /\ Step(m, "boot", IF mailCoin[m] = None THEN "dead" ELSE "bootz")
  /\ coin' = [coin EXCEPT ![m] = mailCoin[m]]
  /\ mailCoin' = [mailCoin EXCEPT ![m] = None]
  /\ UNCHANGED <<coinChan, stats, zeros, found, mailZeros>>

BootDifficulty(m) ==
  /\ Step(m, "bootz", IF mailZeros[m] = None THEN "dead"
                      ELSE IF m \in Cpu THEN "coin" ELSE "hash")
  /\ zeros' = [zeros EXCEPT ![m] = mailZeros[m]]
  /\ mailZeros' = [mailZeros EXCEPT ![m] = None]
  /\ UNCHANGED <<coinChan, stats, coin, found, mailCoin>>

\* A CPU miner takes its mail at the top of its loop; an OpenCL miner takes it
\* after the kernel has run, and drops the kernel's result if the coin changed.
TakeCoin(m) ==
  LET changed == mailCoin[m] # None
  IN  /\ Step(m, "coin", IF m \in Ocl /\ changed THEN "hash" ELSE "zeros")
      /\ coin' = [coin EXCEPT ![m] = Taken(mailCoin[m], @)]
      /\ mailCoin' = [mailCoin EXCEPT ![m] = None]
      /\ found' = IF changed THEN [found EXCEPT ![m] = None] ELSE found
      /\ UNCHANGED <<coinChan, stats, zeros, mailZeros>>

\* After one round that leaves nothing to send the miner starts the next one,
\* first reporting its hash count if last_report_timer has expired.
AfterRound(m) == {"report", IF m \in Cpu THEN "coin" ELSE "hash"}

\* The OpenCL miner labels what the kernel found with the difficulty it holds
\* after the take, which need not be the one the kernel searched for.
TakeDifficulty(m) ==
  LET z == Taken(mailZeros[m], zeros[m])
  IN  /\ \E to \in IF m \in Cpu THEN {"hash"}
                   ELSE IF found[m] # None THEN {"send"} ELSE AfterRound(m) :
            Step(m, "zeros", to)
      /\ zeros' = [zeros EXCEPT ![m] = z]
      /\ mailZeros' = [mailZeros EXCEPT ![m] = None]
      /\ found' = IF found[m] = None THEN found
                  ELSE [found EXCEPT ![m].label = z]
      /\ UNCHANGED <<coinChan, stats, coin, mailCoin>>

\* What hash_starts_n_zeroes lets a CPU miner send.  Mutant: off by one.
CloseEnough(m, n) == m \in Cpu => n + 1 >= zeros[m]
StartsWithZeros(m, n) == m \in Cpu => n >= zeros[m]

\* One round of hashing that finds a coin.  A CPU miner has seen the hash it
\* sends; an OpenCL miner sends a message rebuilt from three words that work
\* items may have written over one another, so that its hash may be anything.
Hit(m) ==
  /\ Step(m, "hash", IF m \in Cpu THEN "send" ELSE "coin")
  /\ \E n \in HashZeros :
       /\ StartsWithZeros(m, n)
       /\ found' = [found EXCEPT ![m] =
                      [prev |-> coin[m], label |-> zeros[m], zeros |-> n]]
  /\ UNCHANGED <<coinChan, stats, coin, zeros, mailVars>>

\* One round of hashing that finds nothing.
Miss(m) ==
  /\ \E to \in IF m \in Cpu THEN AfterRound(m) ELSE {"coin"} :
       Step(m, "hash", to)
  /\ UNCHANGED <<coinChan, stats, threadVars, mailVars>>

\* coin_schan.send blocks while the channel is full.  A CPU miner returns once
\* it has sent its coin, an OpenCL miner goes on.
Send(m) ==
  /\ Len(coinChan) < COIN_CAP
  /\ \E to \in IF m \in Cpu THEN {"ended"} ELSE AfterRound(m) :
       Step(m, "send", to)
  /\ coinChan' = Append(coinChan, found[m])
  /\ found' = [found EXCEPT ![m] = None]
  /\ UNCHANGED <<stats, coin, zeros, mailVars>>

\* stats_schan.send blocks while the channel is full.
Report(m) ==
  /\ stats < STATS_CAP
  /\ Step(m, "report", IF m \in Cpu THEN "coin" ELSE "hash")
  /\ stats' = stats + 1
  /\ UNCHANGED <<coinChan, threadVars, mailVars>>

\* The closure of Miner::run stores should_stop after an Ok result ...
Finish(m) ==
  /\ Step(m, "ended", "done")
  /\ UNCHANGED <<coinChan, stats, threadVars, mailVars>>

\* ... and after an Err (OpenSSL or OpenCL refuses an operation, before the first
\* take or in a round).
Fail(m) ==
  /\ m \in MayFail
  /\ Step(m, "boot", "failed") \/ Step(m, "hash", "failed")
  /\ UNCHANGED <<coinChan, stats, threadVars, mailVars>>

\* A panic unwinds past that store.
Panic(m) ==
  /\ m \in MayFail
  /\ Step(m, "boot", "dead") \/ Step(m, "hash", "dead")
  /\ UNCHANGED <<coinChan, stats, threadVars, mailVars>>

Round(m) == Hit(m) \/ Miss(m)

Miner(m) ==
  \/ BootCoin(m) \/ BootDifficulty(m)
  \/ TakeCoin(m) \/ TakeDifficulty(m)
  \/ Round(m) \/ Send(m) \/ Report(m) \/ Finish(m)
  \/ Fail(m) \/ Panic(m)

Next == Manager \/ CoolDown \/ \E m \in Miners : Miner(m)

(***************************************************************************)
(* The manager's loop never waits for another thread (try_recv, a join of  *)
(* an ended thread, requests with timeouts), a minute passes, a runnable   *)
(* thread is scheduled, and a thread blocked in send is not overtaken for  *)
(* ever: sync_channel wakes its blocked senders first in, first out.       *)
(***************************************************************************)
Fairness ==
  /\ WF_vars(Manager) /\ WF_vars(CoolDown)
  /\ \A m \in Miners :
       WF_vars(Miner(m)) /\ SF_vars(Send(m)) /\ SF_vars(Report(m))

Spec == Init /\ [][Next]_vars
FairSpec == Spec /\ Fairness

-----------------------------------------------------------------------------
(***************************************************************************)
(* Safety.                                                                 *)
(***************************************************************************)

\* No update is lost between the manager and a miner: whatever the
\* interleaving of spawns, mailbox stores and takes, a live miner either works
\* on the manager's coin or has that coin waiting in its mailbox.
NoLostCoin ==
  \A m \in Live :
    mailCoin[m] = last_coin \/ (mailCoin[m] = None /\ coin[m] = last_coin)

\* The same for the difficulty.
NoLostDifficulty ==
  \A m \in Live :
    mailZeros[m] = last_num_zeros
      \/ (mailZeros[m] = None /\ zeros[m] = last_num_zeros)

\* The unwraps of a starting miner never meet an empty mailbox, even when the
\* manager replaces the mail before the new thread gets to run.
BootMailPresent ==
  \A m \in Miners :
    /\ phase[m] = "boot" => mailCoin[m] # None
    /\ phase[m] \in {"boot", "bootz"} => mailZeros[m] # None

\* A CPU miner never overstates a coin: its hash has at least as many zeros as
\* its label says, although the difficulty changes under the miner.
CpuLabelsTrue ==
  \A m \in Cpu : found[m] # None => found[m].zeros >= found[m].label

\* "Go through miners in round robin order to prevent multiple of the same
\* miner running": the device to start next has no live miner.
RoundRobin ==
  Len(oclminers) < Len(oclfuncs) => Head(oclfuncs) \notin Range(oclminers)

\* A stopped miner is never passed over: no step moves it back in its deque, and
\* each prune that the process survives joins it or moves it one place up, so that
\* it is joined after as many loops as its place says, also when others stop or
\* start meanwhile.
StoppedMovesUp ==
  [][\A i \in Stopped(miners) :
       \/ phase'[miners[i]] = "idle"
       \/ \E j \in Stopped(miners)' :
            /\ miners'[j] = miners[i] /\ j <= i
            /\ pc = "prune" /\ pc' = "cpu" => j < i]_vars

-----------------------------------------------------------------------------
(***************************************************************************)
(* The manager, its mailboxes and its miners implement two boards.         *)
(***************************************************************************)
CoinBoard == INSTANCE Board WITH
  Workers <- Miners, Values <- Coins, current <- last_coin, at <- coin

DifficultyBoard == INSTANCE Board WITH
  Workers <- Miners, Values <- Difficulties, current <- last_num_zeros, at <- zeros

\* A miner that changes its coin changes to the manager's coin of that very
\* moment: it never returns to a superseded one, however its takes interleave
\* with the manager's stores.
ImplementsCoinBoard == CoinBoard!Spec

\* The same for the difficulty.
ImplementsDifficultyBoard == DifficultyBoard!Spec

\* With the threads scheduled fairly, a miner that is behind changes to the
\* manager's coin or is pruned, also when it is blocked on the full coin channel
\* at the time.
CatchesUp == CoinBoard!FairSpec

-----------------------------------------------------------------------------
(***************************************************************************)
(* Liveness.                                                               *)
(***************************************************************************)

\* A full coin channel does not stay full, although the manager stops reading
\* it while too many claims fail: blocked miners are released.
CoinsDrained == Len(coinChan) = COIN_CAP ~> Len(coinChan) < COIN_CAP

\* Every miner that has stopped is joined, and its slot freed unless its error or
\* that of another one ends the process.  A loop prunes only the first stopped miner
\* of the deque and starts another one behind it, which may stop in turn before the
\* next prune; and a miner that panicked stays in the deque for good, with
\* should_stop unset, in front of others that stop.
StoppedPruned ==
  \A m \in Cpu :
    phase[m] \in {"done", "failed"} ~> phase[m] = "idle" \/ pc = "panicked"
=============================================================================
