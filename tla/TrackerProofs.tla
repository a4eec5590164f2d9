---------------------------- MODULE TrackerProofs ----------------------------
(***************************************************************************)
(* Proofs about Tracker, for any coins, number of proxies and of crashes.  *)
(***************************************************************************)
EXTENDS Tracker, TLAPS

\* The coins the server has had as its last coin.
Chain == past \cup {tip}

\* A claim is under way exactly from the coin's receipt to its last result, and
\* a request is out only while the manager waits for it.
UnderWay ==
  /\ claim = None <=> pc \in {"coins", "poll"}
  /\ attempt # "none" => pc = "waiting"

\* An Ok and the wallet's entry follow an acceptance.
Accepted ==
  (attempt = "accepted" \/ pc = "record") => claim.hash \in mine

\* A coin claimed and accepted, but not to the knowledge of the current request,
\* has been accepted with nobody to hear of it.
Unheard ==
  (claim # None /\ attempt # "accepted" /\ pc # "record" /\ claim.hash \in mine)
    => claim.hash \in unanswered

\* Accepted coins, and the coins in memory, are on the server's chain.
OnChain ==
  /\ mine \subseteq Chain /\ StartCoin \in Chain
  /\ last_coin \in Chain /\ cell \in Chain
  /\ answer # None => answer \in Chain

Inv ==
  /\ TypeOK /\ UnderWay /\ Accepted /\ Unheard /\ OnChain
  /\ WalletSound /\ WalletComplete

-----------------------------------------------------------------------------
\* The hash under claim, as WalletComplete writes it.
LEMMA ClaimedHash ==
  /\ claim = None => {c.hash : c \in {claim} \ {None}} = {}
  /\ claim # None => {c.hash : c \in {claim} \ {None}} = {claim.hash}
OBVIOUS

\* The same in the next state.
LEMMA ClaimedHashNext ==
  /\ claim' = None => {c.hash : c \in {claim'} \ {None}} = {}
  /\ claim' # None => {c.hash : c \in {claim'} \ {None}} = {claim'.hash}
OBVIOUS

\* The invariant holds initially.
LEMMA InvInit == Init => Inv
<1> SUFFICES ASSUME Init PROVE Inv
  OBVIOUS
<1>1. TypeOK
  BY ConstantsAssumption DEF Init, TypeOK, Places, Attempts
<1>2. UnderWay /\ Accepted /\ Unheard /\ OnChain /\ WalletSound /\ WalletComplete
  BY DEF Init, UnderWay, Accepted, Unheard, OnChain, Chain, WalletSound, WalletComplete
<1> QED BY <1>1, <1>2 DEF Inv

\* Steps of the server keep it.
LEMMA InvServer ==
  ASSUME Inv, Server
  PROVE  Inv'
<1> USE DEF serverVars, managerVars, pollerVars, outsideVars, Goto
<1>0. /\ TypeOK /\ UnderWay /\ Accepted /\ Unheard /\ OnChain
      /\ WalletSound /\ WalletComplete
  BY DEF Inv
<1>1. CASE OtherClaims
  <2>1. TypeOK'
    BY <1>0, <1>1 DEF OtherClaims, Fresh, TypeOK, Places, Attempts
  <2>2. (UnderWay /\ Accepted /\ Unheard /\ WalletSound /\ WalletComplete)'
    BY <1>0, <1>1
       DEF OtherClaims, UnderWay, Accepted, Unheard, WalletSound, WalletComplete
  <2>3. OnChain'
    BY <1>0, <1>1 DEF OtherClaims, OnChain, Chain
  <2> QED BY <2>1, <2>2, <2>3 DEF Inv
<1>2. CASE ServerAccepts
  <2>1. /\ claim \in Claims /\ claim # None /\ claim.hash \in Coins
        /\ pc = "waiting" /\ claim' = claim /\ pc' = pc /\ attempt' = "accepted"
    BY <1>0, <1>2, ConstantsAssumption DEF ServerAccepts, TypeOK, UnderWay, Claims
  <2>2. tip' = claim.hash /\ past' = past \cup {tip} /\ mine' = mine \cup {claim.hash}
    BY <1>2 DEF ServerAccepts, Accept
  <2>3. TypeOK'
    BY <1>0, <1>2, <2>1, <2>2 DEF ServerAccepts, TypeOK, Places, Attempts
  <2>4. (UnderWay /\ Accepted /\ Unheard)'
    BY <1>0, <1>2, <2>1, <2>2 DEF UnderWay, Accepted, Unheard
  <2>5. OnChain'
    BY <1>0, <1>2, <2>2 DEF ServerAccepts, OnChain, Chain
  <2>6. WalletSound'
    BY <1>0, <1>2, <2>2 DEF ServerAccepts, WalletSound
  <2>7. WalletComplete'
    BY <1>0, <1>2, <2>1, <2>2, ClaimedHash DEF ServerAccepts, WalletComplete
  <2> QED BY <2>3, <2>4, <2>5, <2>6, <2>7 DEF Inv
<1>3. CASE ServerRejects \/ ServerRefuses
  <2>1. TypeOK'
    BY <1>0, <1>3 DEF ServerRejects, ServerRefuses, TypeOK, Places, Attempts
  <2>2. (UnderWay /\ Accepted /\ Unheard)'
    BY <1>0, <1>3 DEF ServerRejects, ServerRefuses, UnderWay, Accepted, Unheard
  <2>3. (OnChain /\ WalletSound /\ WalletComplete)'
    BY <1>0, <1>3
       DEF ServerRejects, ServerRefuses, OnChain, Chain, WalletSound, WalletComplete
  <2> QED BY <2>1, <2>2, <2>3 DEF Inv
<1>4. CASE LateArrives
  <2>1. PICK c \in late :
          /\ late' = late \ {c}
          /\ IF Accepts(c) THEN Accept(c) /\ unanswered' = unanswered \cup {c.hash}
             ELSE UNCHANGED <<serverVars, unanswered>>
    BY <1>4 DEF LateArrives
  <2>2. UNCHANGED <<managerVars, cell, pollerVars, wallet, crashes>>
    BY <1>4 DEF LateArrives
  <2>3. c \in Claims /\ c.hash \in Coins
    BY <1>0 DEF TypeOK, Claims
  <2>4. CASE Accepts(c)
    <3>1. /\ tip' = c.hash /\ past' = past \cup {tip} /\ mine' = mine \cup {c.hash}
          /\ unanswered' = unanswered \cup {c.hash}
      BY <2>1, <2>4 DEF Accept
    <3>2. TypeOK'
      BY <1>0, <2>1, <2>2, <2>3, <3>1 DEF TypeOK, Places, Attempts
    <3>3. (UnderWay /\ Accepted /\ Unheard)'
      BY <1>0, <2>2, <3>1 DEF UnderWay, Accepted, Unheard
    <3>4. (OnChain /\ WalletSound /\ WalletComplete)'
      BY <1>0, <2>2, <3>1 DEF OnChain, Chain, WalletSound, WalletComplete
    <3> QED BY <3>2, <3>3, <3>4 DEF Inv
  <2>5. CASE ~Accepts(c)
    <3>1. UNCHANGED <<serverVars, unanswered>>
      BY <2>1, <2>5
    <3>2. TypeOK'
      BY <1>0, <2>1, <2>2, <3>1 DEF TypeOK, Places, Attempts
    <3>3. (UnderWay /\ Accepted /\ Unheard)'
      BY <1>0, <2>2, <3>1 DEF UnderWay, Accepted, Unheard
    <3>4. (OnChain /\ WalletSound /\ WalletComplete)'
      BY <1>0, <2>2, <3>1 DEF OnChain, Chain, WalletSound, WalletComplete
    <3> QED BY <3>2, <3>3, <3>4 DEF Inv
  <2> QED BY <2>4, <2>5
<1> QED BY <1>1, <1>2, <1>3, <1>4 DEF Server

\* Steps of the manager keep it.
LEMMA InvManager ==
  ASSUME Inv, Manager
  PROVE  Inv'
<1> USE DEF serverVars, managerVars, pollerVars, outsideVars, Goto
<1>0. /\ TypeOK /\ UnderWay /\ Accepted /\ Unheard /\ OnChain
      /\ WalletSound /\ WalletComplete
  BY DEF Inv
<1>1. CASE FindCoin
  <2>1. PICK h \in Fresh : claim' = [prev |-> last_coin, hash |-> h]
    BY <1>1 DEF FindCoin
  <2>2. h \in Coins /\ h \notin mine /\ claim' \in Claims /\ claim' # None /\ claim'.hash = h
    BY <1>0, <2>1, ConstantsAssumption DEF Fresh, OnChain, Chain, TypeOK, Claims
  <2>3. TypeOK'
    BY <1>0, <1>1, <2>2 DEF FindCoin, TypeOK, Places, Attempts
  <2>4. (UnderWay /\ Accepted /\ Unheard)'
    BY <1>0, <1>1, <2>2 DEF FindCoin, UnderWay, Accepted, Unheard
  <2>5. (OnChain /\ WalletSound)'
    BY <1>0, <1>1 DEF FindCoin, OnChain, Chain, WalletSound
  <2>6. WalletComplete'
    <3>1. claim = None
      BY <1>0, <1>1 DEF FindCoin, UnderWay
    <3>2. mine \ wallet \subseteq unanswered
      BY <1>0, <3>1, ClaimedHash DEF WalletComplete
    <3> QED BY <1>1, <3>2 DEF FindCoin, WalletComplete
  <2> QED BY <2>3, <2>4, <2>5, <2>6 DEF Inv
<1>2. CASE NoCoin \/ SkipPoll \/ PollLastCoin
  <2>1. TypeOK'
    BY <1>0, <1>2 DEF NoCoin, SkipPoll, PollLastCoin, TypeOK, Places, Attempts
  <2>2. (UnderWay /\ Accepted /\ Unheard)'
    BY <1>0, <1>2 DEF NoCoin, SkipPoll, PollLastCoin, UnderWay, Accepted, Unheard
  <2>3. (OnChain /\ WalletSound /\ WalletComplete)'
    BY <1>0, <1>2
       DEF NoCoin, SkipPoll, PollLastCoin, OnChain, Chain, WalletSound, WalletComplete
  <2> QED BY <2>1, <2>2, <2>3 DEF Inv
<1>3. CASE TryDirect \/ SkipDirect \/ TryProxy
  <2>1. left' \in 0..MAX_CLAIM_PROXIES
    <3>1. CASE TryDirect \/ SkipDirect
      BY <3>1 DEF TryDirect, SkipDirect, GetClients
    <3>2. CASE TryProxy
      BY <1>0, <3>2, ConstantsAssumption DEF TryProxy, TypeOK
    <3> QED BY <1>3, <3>1, <3>2
  <2>2. TypeOK'
    BY <1>0, <1>3, <2>1 DEF TryDirect, SkipDirect, TryProxy, TypeOK, Places, Attempts
  <2>3. (UnderWay /\ Accepted /\ Unheard)'
    BY <1>0, <1>3 DEF TryDirect, SkipDirect, TryProxy, UnderWay, Accepted, Unheard
  <2>4. (OnChain /\ WalletSound /\ WalletComplete)'
    BY <1>0, <1>3
       DEF TryDirect, SkipDirect, TryProxy, OnChain, Chain, WalletSound, WalletComplete
  <2> QED BY <2>2, <2>3, <2>4 DEF Inv
<1>4. CASE AllRequestsFailed \/ ReceiveBadCoin
  <2>1. claim' = None /\ attempt' = "none" /\ left' = 0 /\ pc' = "poll"
        /\ UNCHANGED <<serverVars, last_coin, cell, pollerVars, outsideVars>>
    BY <1>4 DEF AllRequestsFailed, ReceiveBadCoin, GiveUp
  <2>2. claim # None /\ attempt # "accepted" /\ pc # "record"
    BY <1>0, <1>4 DEF AllRequestsFailed, ReceiveBadCoin, UnderWay
  <2>3. TypeOK'
    BY <1>0, <2>1, ConstantsAssumption DEF TypeOK, Places, Attempts
  <2>4. (UnderWay /\ Accepted /\ Unheard)'
    BY <1>0, <2>1 DEF UnderWay, Accepted, Unheard
  <2>5. (OnChain /\ WalletSound)'
    BY <1>0, <2>1 DEF OnChain, Chain, WalletSound
  <2>6. WalletComplete'
    <3>1. mine \ wallet \subseteq unanswered
      BY <1>0, <2>2, ClaimedHash DEF WalletComplete, Unheard
    <3> QED BY <2>1, <3>1 DEF WalletComplete
  <2> QED BY <2>3, <2>4, <2>5, <2>6 DEF Inv
<1>5. CASE TimeOut \/ ConnectionError
  <2>1. /\ late' \in IF attempt = "sent" THEN {late, late \cup {claim}} ELSE {late}
        /\ unanswered' = IF attempt = "accepted" THEN unanswered \cup {claim.hash}
                         ELSE unanswered
        /\ attempt' = "none" /\ pc = "waiting"
        /\ UNCHANGED <<serverVars, last_coin, cell, pollerVars, wallet, crashes>>
        /\ \/ pc' = "proxies" /\ claim' = claim /\ left' = left
           \/ pc' = "poll" /\ claim' = None /\ left' = 0
    BY <1>5 DEF TimeOut, ConnectionError, Abandon, GiveUp
  <2>2. claim \in Claims /\ claim # None /\ claim.hash \in Coins
    BY <1>0, <2>1, ConstantsAssumption DEF TypeOK, UnderWay, Claims
  <2>3. late' \subseteq Claims /\ unanswered' \subseteq Coins /\ unanswered \subseteq unanswered'
    BY <1>0, <2>1, <2>2 DEF TypeOK
  <2>4. TypeOK'
    BY <1>0, <2>1, <2>2, <2>3, ConstantsAssumption DEF TypeOK, Places, Attempts
  <2>5. claim.hash \in mine => claim.hash \in unanswered'
    BY <1>0, <2>1, <2>2 DEF Unheard
  <2>6. (UnderWay /\ Accepted /\ Unheard)'
    BY <1>0, <2>1, <2>2, <2>5 DEF UnderWay, Accepted, Unheard
  <2>7. (OnChain /\ WalletSound)'
    BY <1>0, <2>1 DEF OnChain, Chain, WalletSound
  <2>8. WalletComplete'
    <3>1. mine \ wallet \subseteq unanswered'
      BY <1>0, <2>2, <2>3, <2>5, ClaimedHash DEF WalletComplete
    <3> QED BY <2>1, <3>1 DEF WalletComplete
  <2> QED BY <2>4, <2>6, <2>7, <2>8 DEF Inv
<1>6. CASE ReceiveBusy
  <2>1. TypeOK'
    BY <1>0, <1>6 DEF ReceiveBusy, TypeOK, Places, Attempts
  <2>2. (UnderWay /\ Accepted /\ Unheard)'
    BY <1>0, <1>6 DEF ReceiveBusy, UnderWay, Accepted, Unheard
  <2>3. (OnChain /\ WalletSound /\ WalletComplete)'
    BY <1>0, <1>6 DEF ReceiveBusy, OnChain, Chain, WalletSound, WalletComplete
  <2> QED BY <2>1, <2>2, <2>3 DEF Inv
<1>7. CASE ReceiveOk
  <2>1. claim \in Claims /\ claim # None /\ claim.hash \in Coins /\ claim.hash \in mine
    BY <1>0, <1>7, ConstantsAssumption
       DEF ReceiveOk, OkAnswers, TypeOK, UnderWay, Accepted, Claims
  <2>2. TypeOK'
    BY <1>0, <1>7, <2>1 DEF ReceiveOk, TypeOK, Places, Attempts
  <2>3. (UnderWay /\ Accepted /\ Unheard)'
    BY <1>0, <1>7, <2>1 DEF ReceiveOk, UnderWay, Accepted, Unheard
  <2>4. (OnChain /\ WalletSound /\ WalletComplete)'
    BY <1>0, <1>7, <2>1 DEF ReceiveOk, OnChain, Chain, WalletSound, WalletComplete
  <2> QED BY <2>2, <2>3, <2>4 DEF Inv
<1>8. CASE Record
  <2>1. claim \in Claims /\ claim # None /\ claim.hash \in Coins /\ claim.hash \in mine
    BY <1>0, <1>8, ConstantsAssumption DEF Record, TypeOK, UnderWay, Accepted, Claims
  <2>2. wallet' = wallet \cup {claim.hash} /\ last_coin' = claim.hash /\ claim' = None
        /\ left' = 0 /\ pc = "record" /\ pc' = "poll" /\ attempt' = attempt
        /\ UNCHANGED <<serverVars, cell, pollerVars, late, crashes, unanswered>>
    BY <1>8 DEF Record, Written
  <2>3. TypeOK'
    BY <1>0, <2>1, <2>2, ConstantsAssumption DEF TypeOK, Places, Attempts
  <2>4. (UnderWay /\ Accepted /\ Unheard)'
    BY <1>0, <2>2 DEF UnderWay, Accepted, Unheard
  <2>5. (OnChain /\ WalletSound)'
    BY <1>0, <2>1, <2>2 DEF OnChain, Chain, WalletSound
  <2>6. WalletComplete'
    <3>1. mine \ wallet' \subseteq unanswered
      BY <1>0, <2>1, <2>2, ClaimedHash DEF WalletComplete
    <3> QED BY <2>2, <3>1 DEF WalletComplete
  <2> QED BY <2>3, <2>4, <2>5, <2>6 DEF Inv
<1> QED
  BY <1>1, <1>2, <1>3, <1>4, <1>5, <1>6, <1>7, <1>8 DEF Manager

\* Steps of the last-coin thread keep it.
LEMMA InvPoller ==
  ASSUME Inv, Poller
  PROVE  Inv'
<1> USE DEF serverVars, managerVars, pollerVars, outsideVars
<1>0. /\ TypeOK /\ UnderWay /\ Accepted /\ Unheard /\ OnChain
      /\ WalletSound /\ WalletComplete
  BY DEF Inv
<1>1. TypeOK'
  BY <1>0 DEF Poller, Ask, ServerTells, StoreAnswer, AskFails, LatestAnswer, TypeOK,
              Places, Attempts
<1>2. (UnderWay /\ Accepted /\ Unheard)'
  BY <1>0 DEF Poller, Ask, ServerTells, StoreAnswer, AskFails, UnderWay, Accepted, Unheard
<1>3. OnChain'
  BY <1>0 DEF Poller, Ask, ServerTells, StoreAnswer, AskFails, LatestAnswer, OnChain, Chain
<1>4. (WalletSound /\ WalletComplete)'
  BY <1>0 DEF Poller, Ask, ServerTells, StoreAnswer, AskFails, WalletSound, WalletComplete
<1> QED BY <1>1, <1>2, <1>3, <1>4 DEF Inv

\* A crash keeps it.
LEMMA InvCrash ==
  ASSUME Inv, Crash
  PROVE  Inv'
<1> USE DEF serverVars, GiveUp
<1>0. /\ TypeOK /\ UnderWay /\ Accepted /\ Unheard /\ OnChain
      /\ WalletSound /\ WalletComplete
  BY DEF Inv
<1>1. attempt = "sent" \/ attempt = "accepted" \/ pc = "record"
        => claim \in Claims /\ claim # None /\ claim.hash \in Coins
  BY <1>0, ConstantsAssumption DEF TypeOK, UnderWay, Claims
<1>2. TypeOK'
  BY <1>0, <1>1, ConstantsAssumption DEF Crash, TypeOK, Places, Attempts
<1>3. (UnderWay /\ Accepted /\ Unheard)'
  BY DEF Crash, UnderWay, Accepted, Unheard
<1>4. (OnChain /\ WalletSound)'
  BY <1>0 DEF Crash, OnChain, Chain, WalletSound
<1>5. WalletComplete'
  <2>1. mine \ wallet \subseteq unanswered'
    <3>1. CASE claim = None
      BY <1>0, <3>1, ClaimedHash DEF Crash, WalletComplete
    <3>2. CASE claim # None
      BY <1>0, <3>2, ClaimedHash DEF Crash, WalletComplete, Unheard
    <3> QED BY <3>1, <3>2
  <2> QED BY <2>1 DEF Crash, WalletComplete
<1> QED BY <1>2, <1>3, <1>4, <1>5 DEF Inv

-----------------------------------------------------------------------------
\* The invariant is one of the specification.
THEOREM TrackerInvariant == Spec => []Inv
<1>1. Inv /\ [Next]_vars => Inv'
  <2> SUFFICES ASSUME Inv, [Next]_vars PROVE Inv'
    OBVIOUS
  <2>1. CASE UNCHANGED vars
    BY <2>1
       DEF Inv, TypeOK, UnderWay, Accepted, Unheard, OnChain, Chain, WalletSound,
           WalletComplete, vars, serverVars, managerVars, pollerVars, outsideVars
  <2>2. CASE Next
    BY <2>2, InvServer, InvManager, InvPoller, InvCrash DEF Next
  <2> QED BY <2>1, <2>2
<1> QED BY <1>1, InvInit, PTL DEF Spec

\* Every variable keeps its type: the stages of a claim and of its requests, the
\* number of proxies borrowed for one.
THEOREM TrackerTypes == Spec => []TypeOK
<1>1. Inv => TypeOK
  BY DEF Inv
<1> QED BY <1>1, TrackerInvariant, PTL

\* The wallet lists only coins the server accepted from us.
THEOREM WalletIsSound == Spec => []WalletSound
<1>1. Inv => WalletSound
  BY DEF Inv
<1> QED BY <1>1, TrackerInvariant, PTL

\* A coin accepted from us misses in the wallet only while it is being claimed
\* or when its acceptance was never heard of.
THEOREM WalletIsComplete == Spec => []WalletComplete
<1>1. Inv => WalletComplete
  BY DEF Inv
<1> QED BY <1>1, TrackerInvariant, PTL

\* The manager and the shared cell never hold a coin the server has not had.
THEOREM CoinsAreReal == Spec => []OnlyRealCoins
<1>1. Inv => OnlyRealCoins
  BY DEF Inv, OnChain, Chain, OnlyRealCoins
<1> QED BY <1>1, TrackerInvariant, PTL

-----------------------------------------------------------------------------
(***************************************************************************)
(* The ledger.                                                             *)
(***************************************************************************)

\* The claims the server may still see, from the manager or from the network.
Live == late \cup ({claim} \ {None})

\* A hash belongs to one such claim, and once the server has taken it the claim's
\* predecessor is no longer the last coin; whether a coin is in the wallet or lost
\* is settled for one of the two.
Once ==
  /\ tip \notin past
  /\ \A c \in Live : c.hash \in Chain => c.prev \in past
  /\ \A c, d \in Live : c.hash = d.hash => c = d
  /\ unanswered \subseteq mine /\ wallet \cap unanswered = {}
  /\ attempt = "accepted" \/ pc = "record" => claim.hash \notin unanswered
  /\ claim # None => claim.hash \notin wallet

LEMMA OnceInit == Init => Once
BY DEF Init, Once, Live, Chain

\* The server takes only coins it has not had.
LEMMA NewCoin ==
  ASSUME Inv, Once, NEW c \in Live, Accepts(c)
  PROVE  c.hash \notin Chain /\ c.hash \notin mine
BY DEF Inv, Once, OnChain, Accepts

\* It keeps one claim for each hash, and their predecessors, when it takes one.
LEMMA OnceAccept ==
  ASSUME Inv, Once, NEW c \in Live, Accepts(c), Accept(c), Live' \subseteq Live
  PROVE  /\ tip' \notin past'
         /\ \A d \in Live' : d.hash \in Chain' => d.prev \in past'
         /\ \A d, e \in Live' : d.hash = e.hash => d = e
<1>1. c.hash \notin Chain
  BY NewCoin
<1>2. tip' = c.hash /\ past' = past \cup {tip} /\ c.prev = tip
  BY DEF Accept, Accepts
<1>3. tip' \notin past'
  BY <1>1, <1>2 DEF Chain
<1>4. ASSUME NEW d \in Live', d.hash \in Chain' PROVE d.prev \in past'
  <2>1. d \in Live
    OBVIOUS
  <2>2. CASE d.hash = c.hash
    BY <1>2, <2>1, <2>2 DEF Once
  <2>3. CASE d.hash # c.hash
    <3>1. d.hash \in Chain
      BY <1>2, <1>4, <2>3 DEF Chain
    <3> QED  BY <1>2, <2>1, <3>1 DEF Once
  <2> QED  BY <2>2, <2>3
<1>5. \A d, e \in Live' : d.hash = e.hash => d = e
  BY DEF Once
<1> QED  BY <1>3, <1>4, <1>5

\* Steps that leave the server alone and bring no new claim keep that.
LEMMA OnceQuiet ==
  ASSUME Once, UNCHANGED serverVars, Live' \subseteq Live
  PROVE  /\ tip' \notin past'
         /\ \A d \in Live' : d.hash \in Chain' => d.prev \in past'
         /\ \A d, e \in Live' : d.hash = e.hash => d = e
BY DEF Once, serverVars, Chain

LEMMA OnceServer ==
  ASSUME Inv, Once, Server
  PROVE  Once'
<1> USE DEF serverVars, managerVars, pollerVars, outsideVars
<1>0. /\ unanswered \subseteq mine /\ wallet \subseteq mine /\ wallet \cap unanswered = {}
      /\ attempt = "accepted" \/ pc = "record" => claim.hash \in mine \ unanswered
      /\ claim # None => claim.hash \notin wallet
  BY DEF Inv, Once, Accepted, WalletSound
<1>1. CASE OtherClaims
  <2>1. PICK h \in Fresh : tip' = h
    BY <1>1 DEF OtherClaims
  <2>2. Live' = Live /\ past' = past \cup {tip}
    BY <1>1 DEF OtherClaims, Live
  <2>3. h \notin Chain /\ \A c \in Live : c.hash # h
    BY DEF Fresh, Chain, Live
  <2>4. tip' \notin past' /\ \A d \in Live' : d.hash \in Chain' => d.prev \in past'
    BY <2>1, <2>2, <2>3 DEF Once, Chain
  <2> QED  BY <1>0, <1>1, <2>2, <2>4 DEF Once, OtherClaims
<1>2. CASE ServerAccepts
  <2>1. claim # None /\ pc # "record"
    BY <1>2 DEF ServerAccepts, Inv, UnderWay
  <2>2. claim \in Live /\ Live' = Live
    BY <1>2, <2>1 DEF ServerAccepts, Live
  <2>3. claim.hash \notin mine
    BY <1>2, <2>2, NewCoin DEF ServerAccepts
  <2>4. /\ tip' \notin past'
        /\ \A d \in Live' : d.hash \in Chain' => d.prev \in past'
        /\ \A d, e \in Live' : d.hash = e.hash => d = e
    BY <1>2, <2>2, OnceAccept DEF ServerAccepts
  <2> QED  BY <1>0, <1>2, <2>3, <2>4 DEF Once, ServerAccepts, Accept
<1>3. CASE ServerRejects \/ ServerRefuses
  BY <1>0, <1>3 DEF Once, Live, Chain, ServerRejects, ServerRefuses
<1>4. CASE LateArrives
  <2>1. PICK c \in late :
          /\ late' = late \ {c}
          /\ IF Accepts(c) THEN Accept(c) /\ unanswered' = unanswered \cup {c.hash}
             ELSE UNCHANGED <<serverVars, unanswered>>
    BY <1>4 DEF LateArrives
  <2>2. UNCHANGED <<managerVars, cell, pollerVars, wallet, crashes>>
    BY <1>4 DEF LateArrives
  <2>3. c \in Live /\ Live' \subseteq Live
    BY <2>1, <2>2 DEF Live
  <2>4. CASE Accepts(c)
    <3>1. Accept(c) /\ unanswered' = unanswered \cup {c.hash} /\ c.hash \notin mine
      BY <2>1, <2>3, <2>4, NewCoin
    <3>2. /\ tip' \notin past'
          /\ \A d \in Live' : d.hash \in Chain' => d.prev \in past'
          /\ \A d, e \in Live' : d.hash = e.hash => d = e
      BY <2>3, <2>4, <3>1, OnceAccept
    <3> QED  BY <1>0, <2>2, <3>1, <3>2 DEF Once, Accept
  <2>5. CASE ~Accepts(c)
    <3>1. UNCHANGED <<serverVars, unanswered>>
      BY <2>1, <2>5
    <3>2. /\ tip' \notin past'
          /\ \A d \in Live' : d.hash \in Chain' => d.prev \in past'
          /\ \A d, e \in Live' : d.hash = e.hash => d = e
      BY <2>3, <3>1, OnceQuiet
    <3> QED  BY <1>0, <2>2, <3>1, <3>2 DEF Once
  <2> QED  BY <2>4, <2>5
<1> QED  BY <1>1, <1>2, <1>3, <1>4 DEF Server

\* Steps of the manager that neither find nor record a coin, and a crash.
LEMMA OnceManager ==
  ASSUME Inv, Once, Manager \/ Crash
  PROVE  Once'
<1> USE DEF serverVars, managerVars, pollerVars, outsideVars, Goto
<1>0. /\ unanswered \subseteq mine /\ wallet \subseteq mine /\ wallet \cap unanswered = {}
      /\ mine \subseteq Chain
      /\ attempt = "accepted" \/ pc = "record" => claim.hash \in mine \ unanswered
      /\ claim # None => claim.hash \notin wallet
      /\ claim = None <=> pc \in {"coins", "poll"}
      /\ attempt # "none" => pc = "waiting"
  BY DEF Inv, Once, Accepted, WalletSound, OnChain, UnderWay
<1>1. CASE FindCoin
  <2>1. PICK h \in Fresh : claim' = [prev |-> last_coin, hash |-> h]
    BY <1>1 DEF FindCoin
  <2>2. h \notin Chain /\ \A c \in Live : c.hash # h
    BY DEF Fresh, Chain, Live
  <2>3. Live' \subseteq Live \cup {claim'} /\ claim'.hash = h
    BY <1>1, <2>1 DEF FindCoin, Live
  <2>4. /\ tip' \notin past'
        /\ \A d \in Live' : d.hash \in Chain' => d.prev \in past'
        /\ \A d, e \in Live' : d.hash = e.hash => d = e
    BY <1>1, <2>2, <2>3 DEF FindCoin, Once, Chain
  <2> QED  BY <1>0, <1>1, <2>2, <2>3, <2>4 DEF Once, FindCoin
<1>2. CASE NoCoin \/ SkipPoll \/ PollLastCoin \/ TryDirect \/ SkipDirect \/ TryProxy
           \/ ReceiveBusy \/ ReceiveOk
  <2>1. Live' = Live /\ UNCHANGED <<serverVars, wallet, unanswered, claim>>
    BY <1>2 DEF Live, NoCoin, SkipPoll, PollLastCoin, TryDirect, SkipDirect, TryProxy,
                ReceiveBusy, ReceiveOk
  <2>2. attempt' = "accepted" \/ pc' = "record" => attempt = "accepted"
    BY <1>0, <1>2 DEF NoCoin, SkipPoll, PollLastCoin, TryDirect, SkipDirect, TryProxy,
                ReceiveBusy, ReceiveOk, OkAnswers
  <2>3. /\ tip' \notin past'
        /\ \A d \in Live' : d.hash \in Chain' => d.prev \in past'
        /\ \A d, e \in Live' : d.hash = e.hash => d = e
    BY <2>1, OnceQuiet
  <2> QED  BY <1>0, <2>1, <2>2, <2>3 DEF Once
<1>3. CASE AllRequestsFailed \/ ReceiveBadCoin
  <2>1. /\ claim' = None /\ attempt' = "none" /\ pc' = "poll" /\ Live' \subseteq Live
        /\ UNCHANGED <<serverVars, wallet, unanswered>>
    BY <1>3 DEF AllRequestsFailed, ReceiveBadCoin, GiveUp, Live
  <2>2. /\ tip' \notin past'
        /\ \A d \in Live' : d.hash \in Chain' => d.prev \in past'
        /\ \A d, e \in Live' : d.hash = e.hash => d = e
    BY <2>1, OnceQuiet
  <2> QED  BY <1>0, <2>1, <2>2 DEF Once
<1>4. CASE TimeOut \/ ConnectionError \/ Crash
  <2>1. /\ late' \subseteq late \cup ({claim} \ {None})
        /\ unanswered' \in {unanswered} \cup
             (IF attempt = "accepted" \/ pc = "record" THEN {unanswered \cup {claim.hash}}
              ELSE {})
        /\ attempt' = "none" /\ pc' # "record" /\ claim' \in {claim, None}
        /\ UNCHANGED <<serverVars, wallet>>
    BY <1>0, <1>4 DEF TimeOut, ConnectionError, Crash, Abandon, GiveUp
  <2>2. Live' \subseteq Live
    BY <2>1 DEF Live
  <2>3. /\ tip' \notin past'
        /\ \A d \in Live' : d.hash \in Chain' => d.prev \in past'
        /\ \A d, e \in Live' : d.hash = e.hash => d = e
    BY <2>1, <2>2, OnceQuiet
  <2>4. attempt = "accepted" \/ pc = "record" => claim # None
    BY <1>0
  <2>5. unanswered' \subseteq mine /\ wallet \cap unanswered' = {}
    BY <1>0, <2>1, <2>4
  <2> QED  BY <1>0, <2>1, <2>3, <2>5 DEF Once
<1>5. CASE Record
  <2>1. /\ wallet' = wallet \cup {claim.hash} /\ claim' = None /\ pc = "record"
        /\ pc' = "poll" /\ attempt' = attempt
        /\ UNCHANGED <<serverVars, late, unanswered>>
    BY <1>5 DEF Record, Written
  <2>2. Live' \subseteq Live
    BY <2>1 DEF Live
  <2>3. /\ tip' \notin past'
        /\ \A d \in Live' : d.hash \in Chain' => d.prev \in past'
        /\ \A d, e \in Live' : d.hash = e.hash => d = e
    BY <2>1, <2>2, OnceQuiet
  <2> QED  BY <1>0, <2>1, <2>3 DEF Once
<1> QED  BY <1>1, <1>2, <1>3, <1>4, <1>5 DEF Manager

LEMMA OncePoller ==
  ASSUME Inv, Once, Poller
  PROVE  Once'
<1> USE DEF serverVars, managerVars, pollerVars, outsideVars
<1>1. UNCHANGED <<serverVars, wallet, late, unanswered, claim, attempt, pc>>
  BY DEF Poller, Ask, ServerTells, StoreAnswer, AskFails
<1> QED  BY <1>1 DEF Once, Live, Chain

\* Each step is one of the ledger's, or none.
LEMMA LedgerStep ==
  ASSUME Inv, Once, [Next]_vars
  PROVE  [Claimed!Next]_<<mine, wallet, unanswered>>
<1> USE DEF serverVars, managerVars, pollerVars, outsideVars, Goto
<1>0. /\ TypeOK /\ unanswered \subseteq mine /\ wallet \subseteq mine
      /\ attempt = "accepted" \/ pc = "record" => claim.hash \in mine \ unanswered
      /\ claim # None => claim.hash \notin wallet
      /\ claim = None <=> pc \in {"coins", "poll"}
      /\ attempt # "none" => pc = "waiting"
  BY DEF Inv, Once, Accepted, WalletSound, UnderWay
<1>1. claim # None => claim \in Claims /\ claim.hash \in Coins
  BY <1>0 DEF TypeOK, Claims
<1>2. CASE Server
  <2>1. CASE OtherClaims \/ ServerRejects \/ ServerRefuses
    BY <2>1 DEF OtherClaims, ServerRejects, ServerRefuses
  <2>2. CASE ServerAccepts
    <3>1. claim \in Live /\ claim.hash \in Coins
      BY <1>0, <1>1, <2>2 DEF ServerAccepts, Live
    <3>2. Claimed!Accept(claim.hash)
      BY <2>2, <3>1, NewCoin DEF ServerAccepts, Accept, Claimed!Accept
    <3> QED  BY <3>1, <3>2 DEF Claimed!Next
  <2>3. CASE LateArrives
    <3>1. PICK c \in late :
            IF Accepts(c) THEN Accept(c) /\ unanswered' = unanswered \cup {c.hash}
            ELSE UNCHANGED <<serverVars, unanswered>>
      BY <2>3 DEF LateArrives
    <3>2. wallet' = wallet /\ c \in Live /\ c.hash \in Coins
      BY <1>0, <2>3 DEF LateArrives, Live, TypeOK, Claims
    <3>3. CASE Accepts(c)
      <4>1. Claimed!AcceptUnheard(c.hash)
        BY <3>1, <3>2, <3>3, NewCoin DEF Accept, Claimed!AcceptUnheard
      <4> QED  BY <3>2, <4>1 DEF Claimed!Next
    <3>4. CASE ~Accepts(c)
      BY <3>1, <3>2, <3>4
    <3> QED  BY <3>3, <3>4
  <2> QED  BY <1>2, <2>1, <2>2, <2>3 DEF Server
<1>3. CASE Manager \/ Crash
  <2>1. CASE FindCoin \/ NoCoin \/ SkipPoll \/ PollLastCoin \/ TryDirect \/ SkipDirect
             \/ TryProxy \/ ReceiveBusy \/ ReceiveOk \/ AllRequestsFailed \/ ReceiveBadCoin
    BY <2>1 DEF FindCoin, NoCoin, SkipPoll, PollLastCoin, TryDirect, SkipDirect, TryProxy,
                ReceiveBusy, ReceiveOk, AllRequestsFailed, ReceiveBadCoin
  <2>2. CASE TimeOut \/ ConnectionError \/ Crash
    <3>1. /\ UNCHANGED <<mine, wallet>>
          /\ unanswered' = unanswered
             \/ /\ attempt = "accepted" \/ pc = "record"
                /\ unanswered' = unanswered \cup {claim.hash}
      BY <2>2 DEF TimeOut, ConnectionError, Crash, Abandon
    <3>2. CASE unanswered' = unanswered
      BY <3>1, <3>2
    <3>3. CASE /\ attempt = "accepted" \/ pc = "record"
               /\ unanswered' = unanswered \cup {claim.hash}
      <4>1. claim # None
        BY <1>0, <3>3
      <4>2. Claimed!Lose(claim.hash)
        BY <1>0, <3>1, <3>3, <4>1 DEF Claimed!Lose, Claimed!Open
      <4> QED  BY <1>1, <4>1, <4>2 DEF Claimed!Next
    <3> QED  BY <3>1, <3>2, <3>3
  <2>3. CASE Record
    <3>1. claim # None
      BY <1>0, <2>3 DEF Record
    <3>2. Claimed!Record(claim.hash)
      BY <1>0, <2>3, <3>1 DEF Record, Written, Claimed!Record, Claimed!Open
    <3> QED  BY <1>1, <3>1, <3>2 DEF Claimed!Next
  <2> QED  BY <1>3, <2>1, <2>2, <2>3 DEF Manager
<1>4. CASE Poller \/ UNCHANGED vars
  BY <1>4 DEF Poller, Ask, ServerTells, StoreAnswer, AskFails, vars
<1> QED  BY <1>2, <1>3, <1>4 DEF Next

\* Claiming implements the ledger: a coin is taken once, and recorded or lost once.
THEOREM LedgerImplemented == Spec => ImplementsLedger
<1>1. Inv /\ Once /\ [Next]_vars => Once'
  <2> SUFFICES ASSUME Inv, Once, [Next]_vars PROVE Once'
    OBVIOUS
  <2>1. CASE UNCHANGED vars
    BY <2>1 DEF Once, Live, Chain, vars, serverVars, managerVars, pollerVars, outsideVars
  <2>2. CASE Next
    BY <2>2, OnceServer, OnceManager, OncePoller DEF Next
  <2> QED  BY <2>1, <2>2
<1>2. Init => Claimed!Init
  BY DEF Init, Claimed!Init
<1>3. Inv /\ Once /\ [Next]_vars => [Claimed!Next]_<<mine, wallet, unanswered>>
  BY LedgerStep
<1> QED  BY <1>1, <1>2, <1>3, OnceInit, TrackerInvariant, PTL
          DEF Spec, ImplementsLedger, Claimed!Spec

-----------------------------------------------------------------------------
(***************************************************************************)
(* The last coin.                                                          *)
(***************************************************************************)

\* Once nothing older is on its way, only a new coin or a restart leads away from
\* the server's last coin: the safety half of LearnsTip.
THEOREM TipIsKept == Spec => SettledStays
<1> DEFINE Stays ==
      Settled /\ UNCHANGED <<tip, crashes>> =>
        Settled' /\ (last_coin = tip => last_coin' = tip)
<1> USE DEF serverVars, managerVars, pollerVars, outsideVars, Goto
<1>1. ASSUME Inv, Next, Settled, UNCHANGED <<tip, crashes>>
      PROVE  Settled' /\ (last_coin = tip => last_coin' = tip)
  <2>1. UnderWay /\ cell = tip /\ answer \in {None, tip} /\ crashes \in Nat
    BY <1>1 DEF Inv, TypeOK, Settled
  <2>2. CASE Server
    <3>1. CASE ServerAccepts
      BY <1>1, <2>1, <3>1 DEF ServerAccepts, Accept, Settled
    <3>2. CASE OtherClaims \/ ServerRejects \/ ServerRefuses \/ LateArrives
      BY <1>1, <2>1, <3>2
         DEF OtherClaims, ServerRejects, ServerRefuses, LateArrives, Settled
    <3> QED BY <2>2, <3>1, <3>2 DEF Server
  <2>3. CASE Manager
    <3>1. CASE ReceiveOk
      BY <1>1, <2>1, <3>1 DEF ReceiveOk, OkAnswers, Settled
    <3>2. CASE Record
      BY <1>1, <2>1, <3>2 DEF Record, UnderWay, Settled
    <3>3. CASE PollLastCoin
      BY <1>1, <2>1, <3>3 DEF PollLastCoin, UnderWay, Settled
    <3>4. CASE FindCoin \/ NoCoin \/ TryDirect \/ SkipDirect \/ TryProxy \/ SkipPoll
      BY <1>1, <2>1, <3>4
         DEF FindCoin, NoCoin, TryDirect, SkipDirect, TryProxy, SkipPoll, UnderWay, Settled
    <3>5. CASE \/ AllRequestsFailed \/ TimeOut \/ ConnectionError \/ ReceiveBusy
               \/ ReceiveBadCoin
      BY <1>1, <2>1, <3>5
         DEF AllRequestsFailed, TimeOut, ConnectionError, ReceiveBusy, ReceiveBadCoin,
             GiveUp, Abandon, Settled
    <3> QED BY <2>3, <3>1, <3>2, <3>3, <3>4, <3>5 DEF Manager
  <2>4. CASE Poller
    BY <1>1, <2>1, <2>4
       DEF Poller, Ask, ServerTells, StoreAnswer, LatestAnswer, AskFails, Settled
  <2>5. CASE Crash
    BY <1>1, <2>1, <2>5 DEF Crash
  <2> QED BY <1>1, <2>2, <2>3, <2>4, <2>5 DEF Next
<1>2. Inv /\ [Next]_vars => [Stays]_vars
  BY <1>1
<1> QED BY TrackerInvariant, <1>2, PTL DEF Spec, SettledStays

\* What MiningManager assumes of claim_coin's Ok (its action ClaimOk): until its
\* result is there the claim extends the manager's coin, which no poll changes
\* meanwhile, and its hash is another coin.
ClaimFits ==
  claim # None => claim.prev = last_coin /\ claim.hash # last_coin

THEOREM ClaimOkIsNew == Spec => []ClaimFits
<1> USE DEF serverVars, managerVars, pollerVars, outsideVars, Goto
<1>1. Init => ClaimFits
  BY DEF Init, ClaimFits
<1>2. Inv /\ ClaimFits /\ [Next]_vars => ClaimFits'
  <2> SUFFICES ASSUME Inv, ClaimFits, [Next]_vars PROVE ClaimFits'
    OBVIOUS
  <2>1. CASE UNCHANGED vars \/ Server \/ Poller
    BY <2>1 DEF ClaimFits, vars, Server, OtherClaims, ServerAccepts, ServerRejects,
       ServerRefuses, LateArrives, Poller, Ask, ServerTells, StoreAnswer, AskFails
  <2>2. CASE FindCoin
    <3>1. PICK h \in Fresh : claim' = [prev |-> last_coin, hash |-> h]
      BY <2>2 DEF FindCoin
    <3>2. h # last_coin
      BY DEF Fresh, Inv, OnChain, Chain
    <3> QED BY <2>2, <3>1, <3>2 DEF FindCoin, ClaimFits
  <2>3. CASE NoCoin \/ PollLastCoin \/ SkipPoll
    <3>1. claim = None /\ claim' = claim
      BY <2>3 DEF NoCoin, PollLastCoin, SkipPoll, Inv, UnderWay
    <3> QED BY <3>1 DEF ClaimFits
  <2>4. CASE \/ TryDirect \/ SkipDirect \/ TryProxy \/ TimeOut \/ ReceiveBusy \/ ReceiveOk
    BY <2>4 DEF TryDirect, SkipDirect, TryProxy, TimeOut, ReceiveBusy, ReceiveOk, ClaimFits
  <2>5. CASE AllRequestsFailed \/ ConnectionError \/ ReceiveBadCoin \/ Record \/ Crash
    BY <2>5 DEF AllRequestsFailed, ConnectionError, ReceiveBadCoin, GiveUp, Record, Crash,
       ClaimFits
  <2> QED BY <2>1, <2>2, <2>3, <2>4, <2>5 DEF Next, Manager
<1> QED BY <1>1, <1>2, TrackerInvariant, PTL DEF Spec
=============================================================================
