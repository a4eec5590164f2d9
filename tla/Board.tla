-------------------------------- MODULE Board --------------------------------
(***************************************************************************)
(* What the mailboxes between the mining manager and its miners promise,   *)
(* with the mailboxes, the threads and the channels left out: one value is *)
(* current, and a worker that changes what it works on changes to that     *)
(* one.  It may be late, and it may skip values that were current only for *)
(* a while, but it never goes back to an older one.  The manager's coin    *)
(* and its difficulty are two such boards (MiningManager instantiates      *)
(* both).                                                                  *)
(***************************************************************************)
EXTENDS FiniteSets

CONSTANTS Workers, Values, None

VARIABLES
  current,  \* the posted value
  at        \* what each worker works on, None for a worker that has not begun

Init ==
  /\ current \in Values
  /\ at = [w \in Workers |-> None]

Publish == current' \in Values /\ UNCHANGED at

CatchUp(w) == at' = [at EXCEPT ![w] = current] /\ UNCHANGED current

\* Workers that are taken out of service.
Leave ==
  /\ \E gone \in SUBSET Workers :
       at' = [w \in Workers |-> IF w \in gone THEN None ELSE at[w]]
  /\ UNCHANGED current

Next == Publish \/ Leave \/ \E w \in Workers : CatchUp(w)

Spec == Init /\ [][Next]_<<current, at>>

\* A worker in service that is behind catches up or leaves.
FairSpec ==
  Spec /\ \A w \in Workers : WF_<<current, at>>(at[w] # None /\ CatchUp(w))
=============================================================================
