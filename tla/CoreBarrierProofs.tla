-------------------------- MODULE CoreBarrierProofs --------------------------
(***************************************************************************)
(* TLAPS proofs about the soft core barrier, for every number of cores the *)
(* flags can serve and every number of barriers.                           *)
(***************************************************************************)
EXTENDS CoreBarrier, TLAPS

USE MaxBarriersAssumption DEF Clean

(* What the proofs need of the sizes. *)
LEMMA Sizes ==
  /\ NCores \in Nat
  /\ Shifts \subseteq Nat
  /\ \A s \in Shifts : 1 <= s
  /\ 1 \in Shifts
  /\ \A s \in Shifts : 2 * s < NCores => 2 * s \in Shifts
BY NCoresAssumption DEF Shifts

(* The core a signal goes to, without the modulus. *)
LEMMA NextCoreValue ==
  ASSUME NEW c \in Cores, NEW s \in 1 .. NCores - 1
  PROVE  NextCore(c, s) = IF c + s < NCores THEN c + s ELSE c + s - NCores
BY NCoresAssumption DEF NextCore, Cores

(* The receiver of a signal is s cores ahead of the sender, and a core at  *)
(* least s behind the receiver is s closer to the sender.                  *)
LEMMA NextCoreDistance ==
  ASSUME NEW c \in Cores, NEW s \in 1 .. NCores - 1
  PROVE  /\ NextCore(c, s) \in Cores
         /\ Behind(c, NextCore(c, s)) = s
         /\ \A d \in Cores : Behind(d, NextCore(c, s)) >= s =>
              Behind(d, c) = Behind(d, NextCore(c, s)) - s
<1> DEFINE n == IF c + s < NCores THEN c + s ELSE c + s - NCores
<1>1. n \in Cores /\ Behind(c, n) = s
  BY NCoresAssumption DEF Behind, Cores
<1>2. ASSUME NEW d \in Cores, Behind(d, n) >= s
      PROVE  Behind(d, c) = Behind(d, n) - s
  <2>1. CASE c + s < NCores
    BY <1>2, <2>1, NCoresAssumption DEF Behind, Cores
  <2>2. CASE c + s >= NCores
    BY <1>2, <2>2, NCoresAssumption DEF Behind, Cores
  <2> QED BY <2>1, <2>2, NCoresAssumption DEF Cores
<1> QED BY <1>1, <1>2, NextCoreValue

LEMMA BehindRange ==
  ASSUME NEW c \in Cores, NEW d \in Cores
  PROVE  /\ Behind(d, c) \in 0 .. NCores - 1
         /\ Behind(d, c) = 0 => d = c
BY NCoresAssumption DEF Behind, Cores

(* Every distance on the ring is the distance of some core. *)
LEMMA Predecessor ==
  ASSUME NEW c \in Cores, NEW s \in 1 .. NCores - 1
  PROVE  \E d \in Cores : Behind(d, c) = s
<1>1. CASE s <= c
  <2>1. c - s \in Cores /\ Behind(c - s, c) = s
    BY <1>1, NCoresAssumption DEF Cores, Behind
  <2> QED BY <2>1
<1>2. CASE c < s
  <2>1. c - s + NCores \in Cores /\ Behind(c - s + NCores, c) = s
    BY <1>2, NCoresAssumption DEF Cores, Behind
  <2> QED BY <2>1
<1> QED BY <1>1, <1>2, NCoresAssumption DEF Cores

(* The initial states satisfy the invariant. *)
LEMMA InitInv == Init => Inv
BY DEF Init, Inv, TypeOK, CountIsCall, LineIsDone, CounterCurrent, FlagKnows,
       Heard, NoEarlyLeave, Entered, LoadCounter

(* Types are preserved. *)
LEMMA TypeStep == TypeOK /\ [Next]_vars => TypeOK'
<1> SUFFICES ASSUME TypeOK, [Next]_vars PROVE TypeOK'
  OBVIOUS
<1> USE DEF TypeOK
<1>1. ASSUME NEW c \in Cores, Enter(c) PROVE TypeOK'
  <2>1. /\ LoadCounter(c) \in Nat
        /\ LoopHead(1) \in {"signal", "store"}
        /\ LoopHead(1) = "signal" => 1 < NCores
    BY DEF LoadCounter, LoopHead
  <2>2. /\ pc' \in [Cores -> {"idle", "signal", "wait", "store"}]
        /\ count' \in [Cores -> Nat]
        /\ shift' \in [Cores -> Nat]
    BY <1>1, <2>1 DEF Enter
  <2>3. ASSUME NEW d \in Cores, pc'[d] \in {"signal", "wait"}
        PROVE  shift'[d] \in Shifts /\ shift'[d] < NCores
    BY <1>1, <2>1, <2>3, Sizes DEF Enter
  <2> QED BY <1>1, <2>2, <2>3 DEF Enter, memory
<1>2. ASSUME NEW c \in Cores, Signal(c) PROVE TypeOK'
  <2>1. shift[c] \in Shifts /\ shift[c] \in 1 .. NCores - 1
    BY <1>2, Sizes DEF Signal
  <2>2. NextCore(c, shift[c]) \in Cores
    BY <2>1, NextCoreDistance
  <2>3. sync_array' \in [Cores -> [Shifts -> Nat]]
    BY <1>2, <2>1, <2>2 DEF Signal
  <2>4. ASSUME NEW d \in Cores, pc'[d] \in {"signal", "wait"}
        PROVE  shift'[d] \in Shifts /\ shift'[d] < NCores
    BY <1>2, <2>1, <2>4 DEF Signal, locals
  <2> QED BY <1>2, <2>3, <2>4 DEF Signal, locals
<1>3. ASSUME NEW c \in Cores, Wait(c) PROVE TypeOK'
  <2>1. /\ shift[c] \in Shifts
        /\ shift' = [shift EXCEPT ![c] = 2 * shift[c]]
        /\ shift'[c] = 2 * shift[c]
    BY <1>3 DEF Wait
  <2>2. /\ LoopHead(2 * shift[c]) \in {"signal", "store"}
        /\ LoopHead(2 * shift[c]) = "signal" =>
             2 * shift[c] \in Shifts /\ 2 * shift[c] < NCores
    BY <2>1, Sizes DEF LoopHead
  <2>3. pc' = [pc EXCEPT ![c] = LoopHead(2 * shift[c])]
    BY <1>3, <2>1 DEF Wait
  <2>4. ASSUME NEW d \in Cores, pc'[d] \in {"signal", "wait"}
        PROVE  shift'[d] \in Shifts /\ shift'[d] < NCores
    BY <2>1, <2>2, <2>3, <2>4
  <2>5. /\ pc' \in [Cores -> {"idle", "signal", "wait", "store"}]
        /\ shift' \in [Cores -> Nat]
    BY <2>1, <2>2, <2>3, Sizes
  <2> QED BY <1>3, <2>4, <2>5 DEF Wait, memory
<1>4. ASSUME NEW c \in Cores, Store(c) PROVE TypeOK'
  <2>1. ASSUME NEW d \in Cores, pc'[d] \in {"signal", "wait"}
        PROVE  shift'[d] \in Shifts /\ shift'[d] < NCores
    BY <1>4, <2>1 DEF Store, locals
  <2> QED BY <1>4, <2>1 DEF Store, locals
<1>5. ASSUME NEW c \in Cores, Quiet(c) PROVE TypeOK'
  BY <1>5 DEF Quiet, WriteBack, locals
<1>6. CASE UNCHANGED vars
  BY <1>6 DEF vars
<1> QED
  BY <1>1, <1>2, <1>3, <1>4, <1>5, <1>6 DEF Next, Finished

(* Type correctness of the specification. *)
THEOREM TypeCorrect == Spec => []TypeOK
<1>1. Init => TypeOK
  BY InitInv DEF Inv
<1>2. QED
  BY <1>1, TypeStep, PTL DEF Spec

-----------------------------------------------------------------------------

LEMMA EnteredType ==
  ASSUME TypeOK, NEW d \in Cores
  PROVE  Entered(d) \in Nat
BY DEF TypeOK, Entered

(* A call is counted when it begins and stays counted when it returns. *)
LEMMA EnteredGrows ==
  ASSUME TypeOK, [Next]_vars, NEW d \in Cores
  PROVE  Entered(d) <= Entered(d)'
<1> USE DEF TypeOK, Entered
<1>1. ASSUME NEW c \in Cores, Enter(c) PROVE Entered(d) <= Entered(d)'
  BY <1>1 DEF Enter, LoopHead
<1>2. ASSUME NEW c \in Cores, Signal(c) PROVE Entered(d) <= Entered(d)'
  BY <1>2 DEF Signal
<1>3. ASSUME NEW c \in Cores, Wait(c) PROVE Entered(d) <= Entered(d)'
  BY <1>3 DEF Wait, LoopHead
<1>4. ASSUME NEW c \in Cores, Store(c) PROVE Entered(d) <= Entered(d)'
  BY <1>4 DEF Store
<1>5. ASSUME NEW c \in Cores, Quiet(c) PROVE Entered(d) <= Entered(d)'
  BY <1>5 DEF Quiet, WriteBack
<1>6. CASE UNCHANGED vars
  BY <1>6 DEF vars
<1> QED
  BY <1>1, <1>2, <1>3, <1>4, <1>5, <1>6 DEF Next, Finished

(* Beginning a call: the number loaded is the call's own. *)
LEMMA EnterInv ==
  ASSUME Inv, NEW c \in Cores, Enter(c)
  PROVE  Inv'
<1>0. [Next]_vars
  BY DEF Next
<1>1. TypeOK' /\ TypeOK
  BY <1>0, TypeStep DEF Inv
<1>2. LoadCounter(c) = done[c]
  BY DEF Inv, Enter, CounterCurrent
<1>3. CountIsCall'
  BY <1>1, <1>2 DEF Inv, CountIsCall, Enter, TypeOK
<1>4. LineIsDone' /\ CounterCurrent'
  BY <1>1 DEF Inv, LineIsDone, CounterCurrent, LoadCounter, Enter, TypeOK, LoopHead,
     memory
<1>5. \A d \in Cores : Entered(d) \in Nat /\ Entered(d)' \in Nat
                       /\ Entered(d) <= Entered(d)'
  BY <1>0, <1>1, EnteredType, EnteredGrows DEF Entered, TypeOK
<1>6. FlagKnows'
  BY <1>1, <1>5 DEF Inv, FlagKnows, Enter, memory, TypeOK, Behind
<1>7. Heard'
  <2>1. ASSUME NEW e \in Cores, pc'[e] # "idle", NEW d \in Cores,
               Behind(d, e) < shift'[e]
        PROVE  count'[e] <= Entered(d)'
    <3>1. CASE e = c
      <4>1. Behind(d, e) = 0
        BY <1>1, <2>1, <3>1, BehindRange, Sizes DEF Enter, TypeOK
      <4>2. d = c
        BY <4>1, <3>1, BehindRange
      <4>3. count'[c] = done[c] + 1 /\ Entered(c)' = done[c] + 1
        BY <1>1, <1>2, <4>2 DEF Enter, TypeOK, Entered, LoopHead
      <4> QED BY <1>1, <3>1, <4>2, <4>3 DEF TypeOK
    <3>2. CASE e # c
      <4>1. count'[e] <= Entered(d)
        BY <1>1, <2>1, <3>2 DEF Inv, Heard, Enter, TypeOK
      <4> QED BY <1>1, <1>5, <4>1 DEF TypeOK
    <3> QED BY <3>1, <3>2
  <2>2. ASSUME NEW e \in Cores, pc'[e] = "store"
        PROVE  NCores <= shift'[e]
    BY <1>1, <2>2, Sizes DEF Inv, Heard, Enter, TypeOK, LoopHead
  <2> QED BY <2>1, <2>2 DEF Heard, Behind
<1>8. NoEarlyLeave'
  BY <1>1, <1>5 DEF Inv, NoEarlyLeave, Enter, TypeOK
<1> QED
  BY <1>1, <1>3, <1>4, <1>6, <1>7, <1>8 DEF Inv

(* Signalling: the flag now carries the news of the cores behind c. *)
LEMMA SignalInv ==
  ASSUME Inv, NEW c \in Cores, Signal(c)
  PROVE  Inv'
<1>0. [Next]_vars
  BY DEF Next
<1>1. TypeOK' /\ TypeOK
  BY <1>0, TypeStep DEF Inv
<1>2. CountIsCall' /\ LineIsDone' /\ CounterCurrent'
  BY <1>1 DEF Inv, CountIsCall, LineIsDone, CounterCurrent, LoadCounter, Signal,
     TypeOK, locals
<1>3. \A d \in Cores : Entered(d) \in Nat /\ Entered(d)' = Entered(d)
  BY <1>1, EnteredType DEF Entered, Signal, TypeOK
<1>4. FlagKnows'
  <2> SUFFICES ASSUME NEW e \in Cores, NEW d \in Cores, NEW s \in Shifts,
                      Behind(d, e) \in s .. 2 * s - 1
               PROVE  sync_array'[e][s] <= Entered(d)
    BY <1>3 DEF FlagKnows, Behind
  <2>1. shift[c] \in Shifts /\ shift[c] \in 1 .. NCores - 1
    BY <1>1, Sizes DEF Signal, TypeOK
  <2>2. /\ NextCore(c, shift[c]) \in Cores
        /\ Behind(d, NextCore(c, shift[c])) >= shift[c] =>
             Behind(d, c) = Behind(d, NextCore(c, shift[c])) - shift[c]
    BY <2>1, NextCoreDistance
  <2>3. CASE e = NextCore(c, shift[c]) /\ s = shift[c]
    <3>1. Behind(d, c) < shift[c]
      BY <2>1, <2>2, <2>3, BehindRange, Sizes
    <3>2. count[c] <= Entered(d)
      BY <3>1 DEF Inv, Heard, Signal
    <3>3. sync_array'[e][s] = count[c]
      BY <1>1, <2>1, <2>2, <2>3 DEF Signal, TypeOK
    <3> QED BY <3>2, <3>3
  <2>4. CASE ~(e = NextCore(c, shift[c]) /\ s = shift[c])
    <3>1. sync_array'[e][s] = sync_array[e][s]
      BY <1>1, <2>1, <2>2, <2>4 DEF Signal, TypeOK
    <3> QED BY <3>1 DEF Inv, FlagKnows
  <2> QED BY <2>3, <2>4
<1>5. Heard'
  <2>1. ASSUME NEW e \in Cores, pc'[e] # "idle", NEW d \in Cores,
               Behind(d, e) < shift'[e]
        PROVE  count'[e] <= Entered(d)'
    BY <1>1, <1>3, <2>1 DEF Inv, Heard, Signal, TypeOK, locals
  <2>2. ASSUME NEW e \in Cores, pc'[e] = "store"
        PROVE  NCores <= shift'[e]
    BY <1>1, <2>2 DEF Inv, Heard, Signal, TypeOK, locals
  <2> QED BY <2>1, <2>2 DEF Heard, Behind
<1>6. NoEarlyLeave'
  BY <1>1, <1>3 DEF Inv, NoEarlyLeave, Signal, TypeOK
<1> QED
  BY <1>1, <1>2, <1>4, <1>5, <1>6 DEF Inv

(* The wait of a round ends: c has heard of twice as many cores. *)
LEMMA WaitInv ==
  ASSUME Inv, NEW c \in Cores, Wait(c)
  PROVE  Inv'
<1>0. [Next]_vars
  BY DEF Next
<1>1. TypeOK' /\ TypeOK
  BY <1>0, TypeStep DEF Inv
<1>2. /\ shift[c] \in Shifts /\ shift[c] \in Nat
      /\ shift' = [shift EXCEPT ![c] = 2 * shift[c]]
      /\ shift'[c] = 2 * shift[c]
      /\ pc' = [pc EXCEPT ![c] = LoopHead(2 * shift[c])]
  BY <1>1 DEF Wait, TypeOK
<1>3. LoopHead(2 * shift[c]) # "idle"
  BY DEF LoopHead
<1>4. CountIsCall' /\ LineIsDone' /\ CounterCurrent'
  BY <1>1, <1>2, <1>3 DEF Inv, CountIsCall, LineIsDone, CounterCurrent,
     LoadCounter, Wait, TypeOK, memory
<1>5. \A d \in Cores : Entered(d) \in Nat /\ Entered(d)' = Entered(d)
  BY <1>1, <1>2, <1>3, EnteredType DEF Entered, Wait, TypeOK
<1>6. FlagKnows'
  BY <1>1, <1>5 DEF Inv, FlagKnows, Wait, memory, TypeOK, Behind
<1>7. Heard'
  <2>1. ASSUME NEW e \in Cores, pc'[e] # "idle", NEW d \in Cores,
               Behind(d, e) < shift'[e]
        PROVE  count'[e] <= Entered(d)
    <3>1. CASE e # c
      BY <1>1, <1>2, <2>1, <3>1 DEF Inv, Heard, Wait, TypeOK
    <3>2. CASE e = c /\ Behind(d, c) < shift[c]
      BY <1>1, <1>2, <2>1, <3>2 DEF Inv, Heard, Wait, TypeOK
    <3>3. CASE e = c /\ Behind(d, c) >= shift[c]
      <4>1. Behind(d, c) \in shift[c] .. 2 * shift[c] - 1
        BY <1>2, <2>1, <3>3, BehindRange, Sizes
      <4>2. sync_array[c][shift[c]] <= Entered(d)
        BY <1>2, <4>1 DEF Inv, FlagKnows
      <4>3. /\ count[c] <= sync_array[c][shift[c]]
            /\ sync_array[c][shift[c]] \in Nat
        BY <1>1, <1>2 DEF Wait, Accepted, TypeOK
      <4> QED BY <1>1, <1>5, <3>3, <4>2, <4>3 DEF Wait, TypeOK
    <3> QED BY <1>2, <3>1, <3>2, <3>3, BehindRange, Sizes
  <2>2. ASSUME NEW e \in Cores, pc'[e] = "store"
        PROVE  NCores <= shift'[e]
    BY <1>1, <1>2, <2>2, Sizes DEF Inv, Heard, TypeOK, LoopHead
  <2> QED BY <1>5, <2>1, <2>2 DEF Heard, Behind
<1>8. NoEarlyLeave'
  BY <1>1, <1>5 DEF Inv, NoEarlyLeave, Wait, TypeOK
<1> QED
  BY <1>1, <1>4, <1>6, <1>7, <1>8 DEF Inv

(* When the loop has ended, every core has made the call that is returning. *)
LEMMA StoreKnowsAll ==
  ASSUME Inv, NEW c \in Cores, pc[c] = "store", NEW d \in Cores
  PROVE  done[c] + 1 <= Entered(d)
BY BehindRange, Sizes DEF Inv, Heard, CountIsCall, TypeOK

(* Returning from a call. *)
LEMMA StoreInv ==
  ASSUME Inv, NEW c \in Cores, Store(c)
  PROVE  Inv'
<1>0. [Next]_vars
  BY DEF Next
<1>1. TypeOK' /\ TypeOK
  BY <1>0, TypeStep DEF Inv
<1>2. CountIsCall'
  BY <1>1 DEF Inv, CountIsCall, Store, TypeOK, locals
<1>3. count[c] = done[c] + 1
  BY DEF Inv, CountIsCall, Store
<1>4. LineIsDone'
  BY <1>1, <1>3 DEF Inv, LineIsDone, Store, TypeOK
<1>5. CounterCurrent'
  BY <1>1, <1>3 DEF Inv, CounterCurrent, LoadCounter, Store, TypeOK
<1>6. \A d \in Cores : Entered(d) \in Nat /\ Entered(d)' = Entered(d)
  BY <1>1, EnteredType DEF Entered, Store, TypeOK
<1>7. FlagKnows'
  BY <1>1, <1>6 DEF Inv, FlagKnows, Store, TypeOK, Behind
<1>8. Heard'
  <2>1. ASSUME NEW e \in Cores, pc'[e] # "idle", NEW d \in Cores,
               Behind(d, e) < shift'[e]
        PROVE  count'[e] <= Entered(d)'
    BY <1>1, <1>6, <2>1 DEF Inv, Heard, Store, TypeOK, locals
  <2>2. ASSUME NEW e \in Cores, pc'[e] = "store"
        PROVE  NCores <= shift'[e]
    BY <1>1, <2>2 DEF Inv, Heard, Store, TypeOK, locals
  <2> QED BY <2>1, <2>2 DEF Heard, Behind
<1>9. NoEarlyLeave'
  <2> SUFFICES ASSUME NEW e \in Cores, NEW d \in Cores
               PROVE  done'[e] <= Entered(d)
    BY <1>6 DEF NoEarlyLeave
  <2>1. CASE e = c
    BY <1>1, <2>1, StoreKnowsAll DEF Store, TypeOK
  <2>2. CASE e # c
    BY <1>1, <2>2 DEF Inv, NoEarlyLeave, Store, TypeOK
  <2> QED BY <2>1, <2>2
<1> QED
  BY <1>1, <1>2, <1>4, <1>5, <1>7, <1>8, <1>9 DEF Inv

(* Writing the counter back between two calls: whoever else is between two *)
(* calls has completed as many of them.                                    *)
LEMMA QuietInv ==
  ASSUME Inv, NEW c \in Cores, Quiet(c)
  PROVE  Inv'
<1>0. [Next]_vars
  BY DEF Next
<1>1. TypeOK' /\ TypeOK
  BY <1>0, TypeStep DEF Inv
<1>2. line[c] = done[c]
  BY DEF Inv, LineIsDone, Quiet, WriteBack
<1>3. CountIsCall' /\ LineIsDone'
  BY <1>1 DEF Inv, CountIsCall, LineIsDone, Quiet, WriteBack, TypeOK, locals
<1>4. CounterCurrent'
  <2> SUFFICES ASSUME NEW d \in Cores, pc[d] = "idle"
               PROVE  LoadCounter(d)' = done[d]
    BY DEF CounterCurrent, Quiet, WriteBack
  <2>1. done[c] = done[d]
    <3>1. Entered(c) = done[c] /\ Entered(d) = done[d]
      BY DEF Entered, Quiet
    <3>2. done[c] <= Entered(d) /\ done[d] <= Entered(c)
      BY DEF Inv, NoEarlyLeave
    <3>3. done[c] \in Nat /\ done[d] \in Nat
      BY <1>1 DEF TypeOK
    <3> QED BY <3>1, <3>2, <3>3
  <2> QED
    BY <1>1, <1>2, <2>1 DEF Inv, CounterCurrent, LoadCounter, Quiet, WriteBack, TypeOK
<1>5. \A d \in Cores : Entered(d) \in Nat /\ Entered(d)' = Entered(d)
  BY <1>1, EnteredType DEF Entered, Quiet, WriteBack
<1>6. FlagKnows'
  BY <1>5 DEF Inv, FlagKnows, Quiet, WriteBack, Behind
<1>7. Heard'
  BY <1>5 DEF Inv, Heard, Quiet, WriteBack, locals, Behind
<1>8. NoEarlyLeave'
  BY <1>5 DEF Inv, NoEarlyLeave, Quiet, WriteBack
<1> QED
  BY <1>1, <1>3, <1>4, <1>6, <1>7, <1>8 DEF Inv

(* Every step preserves the invariant. *)
LEMMA NextInv == Inv /\ [Next]_vars => Inv'
<1> SUFFICES ASSUME Inv, [Next]_vars PROVE Inv'
  OBVIOUS
<1>1. CASE UNCHANGED vars
  BY <1>1 DEF vars, Inv, TypeOK, CountIsCall, LineIsDone, CounterCurrent,
     LoadCounter, FlagKnows, Heard, NoEarlyLeave, Entered, Behind
<1> QED
  BY <1>1, EnterInv, SignalInv, WaitInv, StoreInv, QuietInv DEF Next, Finished

(* The inductive invariant holds throughout. *)
THEOREM Invariance == Spec => []Inv
BY InitInv, NextInv, PTL DEF Spec

(* The barrier's promise, for every number of cores: nobody leaves the     *)
(* n-th call before everybody has made it.                                 *)
THEOREM CoreBarrierSafe == Spec => []NoEarlyLeave
<1>1. Inv => NoEarlyLeave
  BY DEF Inv
<1> QED BY <1>1, Invariance, PTL

(* The plain loads of the counter are correct although nothing keeps the   *)
(* caches coherent, as long as only quiet writes them back.                *)
THEOREM CounterIsCurrent == Spec => []CounterCurrent
<1>1. Inv => CounterCurrent
  BY DEF Inv
<1> QED BY <1>1, Invariance, PTL

(* A flag that is waited for stays within the two values the wait accepts: *)
(* its writer is at most one call ahead.                                   *)
THEOREM SignalsAreNotLost == Spec => []NoSignalLost
<1>1. Inv => NoSignalLost
  <2> SUFFICES ASSUME Inv, NEW c \in Cores, pc[c] = "wait"
               PROVE  sync_array[c][shift[c]] <= count[c] + 1
    BY DEF NoSignalLost
  <2> USE DEF Inv
  <2>1. shift[c] \in Shifts /\ shift[c] \in 1 .. NCores - 1
    BY Sizes DEF TypeOK
  <2>2. PICK d \in Cores : Behind(d, c) = shift[c]
    BY <2>1, Predecessor
  <2>3. sync_array[c][shift[c]] <= Entered(d)
    BY <2>1, <2>2, Sizes DEF FlagKnows
  <2>4. Entered(d) <= done[d] + 1 /\ done[d] <= Entered(c) /\ Entered(c) = count[c]
    BY DEF Entered, NoEarlyLeave, CountIsCall, TypeOK
  <2> QED BY <2>1, <2>3, <2>4, EnteredType DEF TypeOK
<1> QED BY <1>1, Invariance, PTL

(* The flags implement the abstract barrier: the initial state is one of   *)
(* its initial states, loading the counter is its Enter, storing it is its *)
(* Leave, and everything in between leaves it unchanged.                   *)
THEOREM CoreBarrierRefines == Spec => AbstractSafety
<1> DEFINE E == [c \in Cores |-> Entered(c)]
<1>1. Init => Abstract!Init
  BY DEF Init, Abstract!Init, Entered
<1>2. Inv /\ [Next]_vars => [Abstract!Next]_(Abstract!vars)
  <2> SUFFICES ASSUME Inv, [Next]_vars
               PROVE  [Abstract!Next]_(Abstract!vars)
    OBVIOUS
  <2> USE DEF Inv
  <2>1. ASSUME NEW c \in Cores, Enter(c) PROVE Abstract!Enter(c)
    <3>1. E[c] = done[c] /\ E[c] < MaxBarriers
      BY <2>1 DEF Enter, Entered
    <3>2. E' = [E EXCEPT ![c] = E[c] + 1]
      BY <2>1 DEF Enter, Entered, TypeOK, LoopHead
    <3> QED BY <2>1, <3>1, <3>2 DEF Abstract!Enter, Enter
  <2>2. ASSUME NEW c \in Cores, Store(c) PROVE Abstract!Leave(c)
    <3>1. E[c] = done[c] + 1 /\ \A d \in Cores : E[c] <= E[d]
      BY <2>2, StoreKnowsAll DEF Store, Entered
    <3>2. E' = E
      BY <2>2 DEF Store, Entered, TypeOK
    <3>3. done' = [done EXCEPT ![c] = done[c] + 1] /\ done[c] < E[c]
      BY <2>2, <3>1 DEF Store, TypeOK
    <3> QED BY <3>1, <3>2, <3>3 DEF Abstract!Leave
  <2>3. ASSUME NEW c \in Cores, Signal(c) \/ Wait(c) \/ Quiet(c)
        PROVE  UNCHANGED Abstract!vars
    BY <2>3 DEF Signal, Wait, Quiet, WriteBack, LoopHead, Entered, TypeOK, Abstract!vars
  <2>4. CASE UNCHANGED vars
    BY <2>4 DEF vars, Entered, Abstract!vars
  <2> QED
    BY <2>1, <2>2, <2>3, <2>4 DEF Next, Finished, Abstract!Next
<1> QED
  BY <1>1, <1>2, Invariance, PTL DEF Spec, AbstractSafety
=============================================================================
