------------------------------- MODULE Barrier -------------------------------
(***************************************************************************)
(* What a reusable barrier promises to its callers, whatever the algorithm *)
(* behind it: a party that calls it is held until every party has called   *)
(* it as often.  The header of shmemi_device_barrier.h promises this of    *)
(* "ALL VEC CORES of all ranks of a team"; the soft core barrier and the   *)
(* pull barrier between devices are shown to implement this module.        *)
(***************************************************************************)
EXTENDS Naturals

CONSTANTS
  Parties,      \* who takes part: the vector cores of a device or of a team
  MaxBarriers   \* how many barriers each party performs (bounds the model)

VARIABLES
  entered,      \* entered[p]: the calls party p has made
  left          \* left[p]: the calls that have returned to p

vars == <<entered, left>>

Init ==
  /\ entered = [p \in Parties |-> 0]
  /\ left = [p \in Parties |-> 0]

(* p calls the barrier for the next time. *)
Enter(p) ==
  /\ entered[p] = left[p]
  /\ entered[p] < MaxBarriers
  /\ entered' = [entered EXCEPT ![p] = @ + 1]
  /\ UNCHANGED left

(* The call returns once everybody has called at least as often. *)
Leave(p) ==
  /\ left[p] < entered[p]
  /\ \A q \in Parties : entered[p] <= entered[q]
  /\ left' = [left EXCEPT ![p] = @ + 1]
  /\ UNCHANGED entered

Next == \E p \in Parties : Enter(p) \/ Leave(p)

(* Once a party may leave it does; nobody is obliged to enter. *)
Spec == Init /\ [][Next]_vars /\ \A p \in Parties : WF_vars(Leave(p))
=============================================================================
