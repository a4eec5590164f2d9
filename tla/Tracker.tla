------------------------------- MODULE Tracker -------------------------------
(***************************************************************************)
(* How a coin is claimed and the last coin learnt: the manager's thread    *)
(* and the last-coin thread (get_thread) of src/cpen442coin.rs, which share *)
(* the Mutex last_coin, the wallet file, the requests of both and the coin *)
(* server they go to.                                                      *)
(*                                                                         *)
(* The server is modelled from the answers the client tells apart.  It     *)
(* accepts a claim that extends its last coin and rejects any other.  A    *)
(* request may be refused (429, 409), never arrive, arrive after the       *)
(* client's timeout, or have its answer lost.  Difficulties and the hashes *)
(* themselves are left to MiningManager, the health of proxies to          *)
(* ProxyManager.                                                           *)
(***************************************************************************)
EXTENDS Naturals, FiniteSets

CONSTANTS
  Coins,       \* coin hashes
  None,
  StartCoin,   \* the constant Tracker::new begins with, some old coin
  NProxies,    \* proxies in the pool
  MAX_CLAIM_PROXIES,  \* get_clients(6)
  MaxCrashes   \* bound on restarts of the process

Claims == [prev : Coins, hash : Coins]

ASSUME ConstantsAssumption ==
  /\ StartCoin \in Coins /\ None \notin Coins /\ None \notin Claims
  /\ NProxies \in Nat /\ MAX_CLAIM_PROXIES \in Nat /\ MaxCrashes \in Nat

VARIABLES
  \* The server: its last coin, the ones before it, the ones it took from us.
  tip, past, mine,
  \* The manager.
  pc, last_coin,
  claim,       \* the coin it claims
  attempt,     \* its current request: "none" or how far it got
  left,        \* proxies left to try
  \* The mutex last_coin, and the last-coin thread.
  cell,
  answer,      \* the coin the server answered with
  asking,      \* "yes" while it waits for an answer
  \* The wallet file, the claims still travelling after their client gave up,
  \* and the restarts so far.
  wallet, late, crashes,
  \* History: coins whose acceptance no running client was told of.
  unanswered

serverVars  == <<tip, past, mine>>
managerVars == <<pc, last_coin, claim, attempt, left>>
pollerVars  == <<answer, asking>>
outsideVars == <<wallet, late, crashes, unanswered>>
vars == <<serverVars, managerVars, cell, pollerVars, outsideVars>>

Places == {"coins", "direct", "proxies", "waiting", "record", "poll"}
Attempts == {"none", "sent", "accepted", "rejected", "busy"}

TypeOK ==
  /\ tip \in Coins /\ past \subseteq Coins /\ mine \subseteq Coins
  /\ pc \in Places /\ last_coin \in Coins /\ claim \in Claims \cup {None}
  /\ attempt \in Attempts /\ left \in 0..MAX_CLAIM_PROXIES
  /\ cell \in Coins /\ answer \in Coins \cup {None} /\ asking \in {"yes", "no"}
  /\ wallet \subseteq Coins /\ late \subseteq Claims /\ crashes \in 0..MaxCrashes
  /\ unanswered \subseteq Coins

\* get_last_coin returns the constant of Tracker::new until the last-coin thread
\* has had its first answer.
Init ==
  /\ past = {StartCoin} /\ tip \in Coins \ past /\ mine = {}
  /\ pc = "coins" /\ last_coin = StartCoin /\ claim = None
  /\ attempt = "none" /\ left = 0
  /\ cell = StartCoin /\ answer = None /\ asking = "no"
  /\ wallet = {} /\ late = {} /\ crashes = 0 /\ unanswered = {}

Goto(from, to) == pc = from /\ pc' = to

\* Hashes nobody has used.
Fresh ==
  Coins \ (past \cup {tip} \cup {c.hash : c \in late}
             \cup {c.hash : c \in {claim} \ {None}})

-----------------------------------------------------------------------------
(***************************************************************************)
(* The server.                                                             *)
(***************************************************************************)
Accepts(c) == c.prev = tip

Accept(c) ==
  /\ tip' = c.hash
  /\ past' = past \cup {tip}
  /\ mine' = mine \cup {c.hash}

\* Somebody else mines a coin.
OtherClaims ==
  /\ \E h \in Fresh : tip' = h
  /\ past' = past \cup {tip}
  /\ UNCHANGED <<mine, managerVars, cell, pollerVars, outsideVars>>

\* The manager's request arrives: 200, 400, or 429 and 409.
ServerAccepts ==
  /\ attempt = "sent" /\ attempt' = "accepted"
  /\ Accepts(claim) /\ Accept(claim)
  /\ UNCHANGED <<pc, last_coin, claim, left, cell, pollerVars, outsideVars>>

ServerRejects ==
  /\ attempt = "sent" /\ attempt' = "rejected"
  /\ ~Accepts(claim)
  /\ UNCHANGED <<serverVars, pc, last_coin, claim, left, cell, pollerVars, outsideVars>>

ServerRefuses ==
  /\ attempt = "sent" /\ attempt' = "busy"
  /\ UNCHANGED <<serverVars, pc, last_coin, claim, left, cell, pollerVars, outsideVars>>

\* A request whose client has given up arrives, or is lost.
LateArrives ==
  /\ \E c \in late :
       /\ late' = late \ {c}
       /\ IF Accepts(c) THEN Accept(c) /\ unanswered' = unanswered \cup {c.hash}
          ELSE UNCHANGED <<serverVars, unanswered>>
  /\ UNCHANGED <<managerVars, cell, pollerVars, wallet, crashes>>

Server == OtherClaims \/ ServerAccepts \/ ServerRejects \/ ServerRefuses \/ LateArrives

-----------------------------------------------------------------------------
(***************************************************************************)
(* The manager's loop: the coin it has received, then the poll.            *)
(***************************************************************************)
\* A coin that extends last_coin comes out of the channel.
FindCoin ==
  /\ Goto("coins", "direct")
  /\ \E h \in Fresh : claim' = [prev |-> last_coin, hash |-> h]
  /\ UNCHANGED <<serverVars, last_coin, attempt, left, cell, pollerVars, outsideVars>>

NoCoin ==
  /\ Goto("coins", "poll")
  /\ UNCHANGED <<serverVars, last_coin, claim, attempt, left, cell, pollerVars,
                 outsideVars>>

\* Mutant: the number asked for is ignored.
BorrowAll == left' = NProxies

\* get_clients(6), or fewer: the last-coin thread may have borrowed some.
GetClients ==
  \E n \in 0..MAX_CLAIM_PROXIES : n <= NProxies /\ left' = n

\* The client without a proxy is used unless client_reqs is full.
TryDirect ==
  /\ Goto("direct", "waiting")
  /\ attempt' = "sent"
  /\ GetClients
  /\ UNCHANGED <<serverVars, last_coin, claim, cell, pollerVars, outsideVars>>

SkipDirect ==
  /\ Goto("direct", "proxies")
  /\ GetClients
  /\ UNCHANGED <<serverVars, last_coin, claim, attempt, cell, pollerVars, outsideVars>>

TryProxy ==
  /\ Goto("proxies", "waiting")
  /\ left > 0 /\ left' = left - 1
  /\ attempt' = "sent"
  /\ UNCHANGED <<serverVars, last_coin, claim, cell, pollerVars, outsideVars>>

\* The claim is over without an Ok.
GiveUp == claim' = None /\ attempt' = "none" /\ left' = 0

\* Error::AllRequestsFailed.
AllRequestsFailed ==
  /\ Goto("proxies", "poll")
  /\ left = 0
  /\ GiveUp
  /\ UNCHANGED <<serverVars, last_coin, cell, pollerVars, outsideVars>>

\* The client stops waiting for its answer: a request may still be travelling,
\* or have been accepted already.
Abandon ==
  /\ late' \in IF attempt = "sent" THEN {late, late \cup {claim}} ELSE {late}
  /\ unanswered' = IF attempt = "accepted" THEN unanswered \cup {claim.hash}
                   ELSE unanswered

\* A timeout: err_is_fatal is false, the next client is tried.
TimeOut ==
  /\ Goto("waiting", "proxies")
  /\ attempt \in {"sent", "accepted", "rejected", "busy"}
  /\ attempt' = "none"
  /\ Abandon
  /\ UNCHANGED <<serverVars, last_coin, claim, left, cell, pollerVars, wallet, crashes>>

\* Any other failure of the connection is fatal for the claim.
ConnectionError ==
  /\ Goto("waiting", "poll")
  /\ attempt \in {"sent", "accepted", "rejected", "busy"}
  /\ GiveUp
  /\ Abandon
  /\ UNCHANGED <<serverVars, last_coin, cell, pollerVars, wallet, crashes>>

\* Error::ServerBusy is not fatal.
ReceiveBusy ==
  /\ Goto("waiting", "proxies")
  /\ attempt = "busy" /\ attempt' = "none"
  /\ UNCHANGED <<serverVars, last_coin, claim, left, cell, pollerVars, outsideVars>>

\* Error::BadCoin is.
ReceiveBadCoin ==
  /\ Goto("waiting", "poll")
  /\ attempt = "rejected"
  /\ GiveUp
  /\ UNCHANGED <<serverVars, last_coin, cell, pollerVars, outsideVars>>

\* claim_coin_c's answers that count as Ok.  Mutants: a coin the server says it
\* has already, or one it has queued.
AlsoRejected == {"accepted", "rejected"}
AlsoBusy == {"accepted", "busy"}
OkAnswers == {"accepted"}

ReceiveOk ==
  /\ Goto("waiting", "record")
  /\ attempt \in OkAnswers /\ attempt' = "none"
  /\ cell' = claim.hash
  /\ UNCHANGED <<serverVars, last_coin, claim, left, pollerVars, outsideVars>>

\* wallet.store appends to the file.  Mutants: the shared cell is read again to see
\* whether the coin is still the last one; the file is opened anew.
WrittenIfLast == wallet \cup ({claim.hash} \cap {cell})
Truncated == {claim.hash}
Written == wallet \cup {claim.hash}

\* Back in run: the wallet is written and the claimed coin mined on.
Record ==
  /\ Goto("record", "poll")
  /\ wallet' = Written
  /\ last_coin' = claim.hash
  /\ claim' = None /\ left' = 0
  /\ UNCHANGED <<serverVars, attempt, cell, pollerVars, late, crashes, unanswered>>

\* get_last_coin.  The request it sends first goes to claim_coin_url, whose
\* answers hold no coin: it always ends in the fallback to the shared cell.
PollLastCoin ==
  /\ Goto("poll", "coins")
  /\ last_coin' = cell
  /\ UNCHANGED <<serverVars, claim, attempt, left, cell, pollerVars, outsideVars>>

\* coin_check_timer has not expired.
SkipPoll ==
  /\ Goto("poll", "coins")
  /\ UNCHANGED <<serverVars, last_coin, claim, attempt, left, cell, pollerVars,
                 outsideVars>>

Manager ==
  \/ FindCoin \/ NoCoin
  \/ TryDirect \/ SkipDirect \/ TryProxy \/ AllRequestsFailed
  \/ TimeOut \/ ConnectionError \/ ReceiveBusy \/ ReceiveBadCoin \/ ReceiveOk
  \/ Record \/ PollLastCoin \/ SkipPoll

-----------------------------------------------------------------------------
(***************************************************************************)
(* get_thread asks one proxy after the other; without a proxy it asks      *)
(* nobody.                                                                 *)
(***************************************************************************)
Ask ==
  /\ asking = "no" /\ asking' = "yes"
  /\ NProxies > 0
  /\ UNCHANGED <<serverVars, managerVars, cell, answer, outsideVars>>

ServerTells ==
  /\ asking = "yes" /\ answer = None
  /\ answer' = tip
  /\ UNCHANGED <<serverVars, managerVars, cell, asking, outsideVars>>

\* What the cell holds after an answer.  Mutant: only the first answer counts.
FirstAnswer == IF cell = StartCoin THEN answer ELSE cell
LatestAnswer == answer

\* The answer is stored whenever it arrives.
StoreAnswer ==
  /\ answer # None
  /\ cell' = LatestAnswer
  /\ answer' = None /\ asking' = "no"
  /\ UNCHANGED <<serverVars, managerVars, outsideVars>>

\* Refused, lost or timed out.
AskFails ==
  /\ asking = "yes"
  /\ answer' = None /\ asking' = "no"
  /\ UNCHANGED <<serverVars, managerVars, cell, outsideVars>>

Poller == Ask \/ ServerTells \/ StoreAnswer \/ AskFails

-----------------------------------------------------------------------------
(***************************************************************************)
(* The process dies and is started again: only the wallet file stays.      *)
(***************************************************************************)
Crash ==
  /\ crashes < MaxCrashes /\ crashes' = crashes + 1
  /\ pc' = "coins" /\ last_coin' = StartCoin
  /\ GiveUp
  /\ cell' = StartCoin /\ answer' = None /\ asking' = "no"
  /\ late' \in IF attempt = "sent" THEN {late, late \cup {claim}} ELSE {late}
  /\ unanswered' = IF attempt = "accepted" \/ pc = "record"
                   THEN unanswered \cup {claim.hash} ELSE unanswered
  /\ UNCHANGED <<serverVars, wallet>>

Next == Server \/ Manager \/ Poller \/ Crash

(***************************************************************************)
(* Both threads go on: the manager's requests end within their timeouts    *)
(* and its poll timer expires again and again; a request of the last-coin  *)
(* thread that is repeated for ever is answered some time.                 *)
(***************************************************************************)
Fairness ==
  /\ WF_vars(Manager) /\ SF_vars(PollLastCoin)
  /\ WF_vars(Ask) /\ SF_vars(ServerTells) /\ SF_vars(StoreAnswer)

Spec == Init /\ [][Next]_vars
FairSpec == Spec /\ Fairness

-----------------------------------------------------------------------------
(***************************************************************************)
(* Safety.                                                                 *)
(***************************************************************************)

\* What the wallet lists was accepted from us, whatever was lost, repeated or
\* late in between.
WalletSound == wallet \subseteq mine

\* A coin accepted from us misses in the wallet only while its claim is under
\* way, or when nobody was there to hear of its acceptance: the answer was lost,
\* the request arrived after its timeout, or the process died before the wallet
\* was written.  No other order of events loses one.
WalletComplete ==
  mine \ wallet \subseteq unanswered \cup {c.hash : c \in {claim} \ {None}}

\* The manager mines on, and the cell holds, coins the server has had as its
\* last coin, although the manager stores hashes of its own making.
OnlyRealCoins == {last_coin, cell} \subseteq past \cup {tip}

\* "After a coin is successfully claimed all older coins are guarenteed to be
\* invalid": the manager does not leave a coin it has just claimed for an older
\* one.
NoOlderCoin ==
  [][last_coin = tip /\ last_coin \in mine => last_coin' \notin past]_vars

\* However often a claim is sent, late, refused or interrupted by a restart, the
\* server takes its coin once, and whether the coin is in the wallet or lost is
\* settled once.
Claimed == INSTANCE Ledger WITH accepted <- mine, recorded <- wallet, lost <- unanswered
ImplementsLedger == Claimed!Spec

\* Nothing older than the server's last coin is on its way to the cell: neither
\* from the last-coin thread nor from a claim that was accepted.
Settled ==
  /\ cell = tip /\ answer \in {None, tip}
  /\ attempt = "accepted" \/ pc = "record" => claim.hash = tip

\* From then on only a new coin or a restart leads away from the server's last
\* coin: rejected, refused, repeated and late claims, their fallbacks, polls and
\* answers all leave it in the cell, and the manager, once there, mines on it.
\* LearnsTip adds that this state is reached.
SettledStays ==
  [][Settled /\ UNCHANGED <<tip, crashes>> =>
       Settled' /\ (last_coin = tip => last_coin' = tip)]_vars

-----------------------------------------------------------------------------
(***************************************************************************)
(* Liveness.                                                               *)
(***************************************************************************)

\* "How often to poll last_coin": once the server's last coin stays the same the
\* manager comes to mine on it and stays there, also when late answers have
\* overwritten newer coins before.
LearnsTip == <>[][UNCHANGED tip]_vars => <>[](last_coin = tip)
=============================================================================
