--------------------------- MODULE RequestLimiter ---------------------------
(***************************************************************************)
(* client_reqs of Tracker: the times of the requests the manager has sent  *)
(* without a proxy, newest at the front.  Each kind of request has a limit *)
(* of its own on how many there were in the last minute, whatever their    *)
(* kind, and is skipped (claims go to a proxy, polls to the shared cells)  *)
(* when that limit is reached.  The manager's loop claims, polls the last  *)
(* coin and polls the difficulty, in this order; a request takes time.     *)
(***************************************************************************)
EXTENDS Naturals, FiniteSets, Sequences

CONSTANTS
  CLAIM_LIMIT,       \* 10
  COIN_LIMIT,        \* 5
  DIFFICULTY_LIMIT,  \* 2
  Window,            \* 60 s
  MaxTime            \* end of the modelled time

ASSUME ConstantsAssumption ==
  /\ CLAIM_LIMIT \in Nat /\ COIN_LIMIT \in Nat /\ DIFFICULTY_LIMIT \in Nat
  /\ DIFFICULTY_LIMIT <= COIN_LIMIT /\ COIN_LIMIT <= CLAIM_LIMIT
  /\ Window \in Nat /\ MaxTime \in Nat

VARIABLES
  now, pc,
  client_reqs,
  log    \* history: every direct request, [at, kind]

vars == <<now, pc, client_reqs, log>>

Kinds == {"claim", "coin", "difficulty"}

TypeOK ==
  /\ now \in 0..MaxTime /\ pc \in Kinds
  /\ client_reqs \in Seq(0..MaxTime)
  /\ log \in Seq([at : 0..MaxTime, kind : Kinds])

\* run polls both before its loop.
Init == now = 0 /\ pc = "coin" /\ client_reqs = <<>> /\ log = <<>>

\* A request is forgotten when it is older than the window.  Mutant: as old.
AsOld(t) == now - t >= Window
Expired(t) == now - t > Window

\* client_check_reqs pops from the back until it meets one that has not expired.
Kept ==
  CHOOSE n \in 0..Len(client_reqs) :
    /\ n > 0 => ~Expired(client_reqs[n])
    /\ \A i \in (n + 1)..Len(client_reqs) : Expired(client_reqs[i])
CheckReqs == SubSeq(client_reqs, 1, Kept)

\* The limit of each kind.  Mutant: polls may use all of the claims' requests.
SharedLimit(kind) == CLAIM_LIMIT
Limit(kind) ==
  CASE kind = "claim" -> CLAIM_LIMIT
    [] kind = "coin" -> COIN_LIMIT
    [] kind = "difficulty" -> DIFFICULTY_LIMIT

\* push_front.  Mutants: push_back, so that the newest is popped first, and the
\* time at which the request is to be forgotten.
PushBack(q, t) == Append(q, t)
PushDeadline(q, t) == <<t + Window>> \o q
Push(q, t) == <<t>> \o q

\* A request of this kind, sent directly if the limit allows.
Request(kind) ==
  IF Len(CheckReqs) < Limit(kind)
  THEN /\ client_reqs' = Push(CheckReqs, now)
       /\ log' = Append(log, [at |-> now, kind |-> kind])
  ELSE client_reqs' = CheckReqs /\ UNCHANGED log

Goto(from, to) == pc = from /\ pc' = to

ClaimCoin == Goto("claim", "coin") /\ Request("claim") /\ UNCHANGED now

\* No coin to claim, or not yet time to poll.
NoClaim == Goto("claim", "coin") /\ UNCHANGED <<now, client_reqs, log>>
NoPoll == Goto("coin", "claim") /\ UNCHANGED <<now, client_reqs, log>>

GetLastCoin == Goto("coin", "difficulty") /\ Request("coin") /\ UNCHANGED now
GetDifficulty == Goto("difficulty", "claim") /\ Request("difficulty") /\ UNCHANGED now

Tick == now < MaxTime /\ now' = now + 1 /\ UNCHANGED <<pc, client_reqs, log>>

Next == ClaimCoin \/ NoClaim \/ NoPoll \/ GetLastCoin \/ GetDifficulty \/ Tick

Spec == Init /\ [][Next]_vars

-----------------------------------------------------------------------------
(***************************************************************************)
(* Safety.                                                                 *)
(***************************************************************************)

\* The direct requests of the given kinds within a window that begins at t.
InWindow(t, kinds) ==
  {i \in DOMAIN log : t <= log[i].at /\ log[i].at <= t + Window /\ log[i].kind \in kinds}

\* No minute sees more direct requests than the largest limit, wherever it
\* begins and however claims and polls alternate.
NeverTooMany == \A t \in 0..MaxTime : Cardinality(InWindow(t, Kinds)) <= CLAIM_LIMIT

\* Polls leave the difference of the two limits to claims in every minute: both
\* kinds of poll together never use more than the last-coin poll's limit.
ClaimsReserved ==
  \A t \in 0..MaxTime :
    Cardinality(InWindow(t, {"coin", "difficulty"})) <= COIN_LIMIT

\* A direct request is refused for the sake of the last minute's requests only:
\* after the check client_reqs counts exactly those.
CountsLastMinute ==
  Len(CheckReqs) = Cardinality({i \in DOMAIN log : now - log[i].at <= Window})
=============================================================================
