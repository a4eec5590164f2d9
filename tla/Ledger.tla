------------------------------- MODULE Ledger --------------------------------
(***************************************************************************)
(* What claiming promises, with the requests, their repetitions and the    *)
(* restarts left out: the server takes each coin at most once, and each    *)
(* coin it took is recorded once or lost for good.  Which of the two is    *)
(* settled once: a coin given up as lost does not turn up in the wallet    *)
(* later, and a recorded one is not lost (Tracker instantiates it).        *)
(***************************************************************************)
CONSTANT Coins

VARIABLES accepted, recorded, lost

Init == accepted = {} /\ recorded = {} /\ lost = {}

Open == accepted \ (recorded \cup lost)

Accept(c) ==
  /\ c \notin accepted /\ accepted' = accepted \cup {c}
  /\ UNCHANGED <<recorded, lost>>

Record(c) ==
  /\ c \in Open /\ recorded' = recorded \cup {c}
  /\ UNCHANGED <<accepted, lost>>

Lose(c) ==
  /\ c \in Open /\ lost' = lost \cup {c}
  /\ UNCHANGED <<accepted, recorded>>

\* Accepted when nobody waits for the answer any more.
AcceptUnheard(c) ==
  /\ c \notin accepted /\ accepted' = accepted \cup {c}
  /\ lost' = lost \cup {c}
  /\ UNCHANGED recorded

Next == \E c \in Coins : Accept(c) \/ Record(c) \/ Lose(c) \/ AcceptUnheard(c)

Spec == Init /\ [][Next]_<<accepted, recorded, lost>>
=============================================================================
