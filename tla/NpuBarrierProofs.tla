-------------------------- MODULE NpuBarrierProofs --------------------------
(***************************************************************************)
(* TLAPS proofs about the barrier between devices, for every number of     *)
(* devices, of vector cores and of barriers, and every KVal.               *)
(***************************************************************************)
EXTENDS NpuBarrier, TLAPS

USE DEF Clean

-----------------------------------------------------------------------------
(* Division with remainder by a divisor that is not a literal, and products. *)

LEMMA Division ==
  ASSUME NEW k \in Nat, 0 < k, NEW a \in Nat
  PROVE  /\ a \div k \in Int
         /\ a % k \in 0 .. k - 1
         /\ a = k * (a \div k) + (a % k)
OBVIOUS

LEMMA MultipleAtLeast ==
  ASSUME NEW k \in Nat, 0 < k, NEW m \in Int, 1 <= m
  PROVE  k <= k * m
OBVIOUS

LEMMA Distribute ==
  ASSUME NEW k \in Nat, NEW m \in Int, NEW n \in Int
  PROVE  /\ k * m - k * n = k * (m - n) /\ k * m + k * n = k * (m + n)
         /\ k * m \in Int /\ k * (m - n) \in Int /\ k * (m + n) \in Int
OBVIOUS

(* Quotient and remainder are the only numbers with their property. *)
LEMMA Remainder ==
  ASSUME NEW k \in Nat, 0 < k, NEW a \in Nat,
         NEW q \in Int, NEW r \in 0 .. k - 1, a = k * q + r
  PROVE  a % k = r /\ a \div k = q
<1> DEFINE p == a \div k
           s == a % k
<1>1. p \in Int /\ s \in 0 .. k - 1 /\ a = k * p + s
  BY Division
<1>2. /\ k * p \in Int /\ k * q \in Int
      /\ k * p - k * q = k * (p - q) /\ k * q - k * p = k * (q - p)
      /\ k * (p - q) \in Int /\ k * (q - p) \in Int
  BY <1>1, Distribute
<1> HIDE DEF p, s
<1>3. k * (p - q) = r - s /\ k * (q - p) = s - r
  BY <1>1, <1>2
<1>4. ~ (1 <= p - q)
  BY <1>1, <1>2, <1>3, MultipleAtLeast
<1>5. ~ (1 <= q - p)
  BY <1>1, <1>2, <1>3, MultipleAtLeast
<1>6. p = q
  BY <1>1, <1>4, <1>5
<1>7. s = r
  BY <1>1, <1>2, <1>6
<1> QED BY <1>6, <1>7 DEF p, s

(* Two numbers with the same remainder are equal or at least k apart. *)
LEMMA ModBelow ==
  ASSUME NEW k \in Nat, 0 < k, NEW a \in Nat, NEW b \in Nat,
         b < a + k, a % k = b % k
  PROVE  b <= a
<1> DEFINE p == a \div k
           q == b \div k
<1>1. /\ p \in Int /\ q \in Int
      /\ a = k * p + (a % k) /\ b = k * q + (a % k)
  BY Division
<1>2. k * p \in Int /\ k * q \in Int /\ k * (q - p) \in Int /\ a % k \in Int
  BY <1>1, Distribute, Division
<1>3. b - a = k * (q - p)
  <2>1. b - a = k * q - k * p
    BY <1>1, <1>2
  <2> QED BY <2>1, <1>1, Distribute
<1>4. ~ (1 <= q - p)
  BY <1>1, <1>2, <1>3, MultipleAtLeast
<1>5. k * (q - p) <= 0
  BY <1>1, <1>4
<1> QED BY <1>2, <1>3, <1>5

LEMMA ModLess ==
  ASSUME NEW k \in Nat, 0 < k, NEW a \in Nat
  PROVE  a % k \in 0 .. k - 1 /\ a % k <= a /\ (a < k => a % k = a)
OBVIOUS

LEMMA ModStep ==
  ASSUME NEW k \in Nat, 0 < k, NEW a \in Nat
  PROVE  (a + k) % k = a % k
<1> DEFINE p == a \div k
           r == a % k
<1>1. p \in Int /\ r \in 0 .. k - 1 /\ a = k * p + r
  BY Division
<1>2. k * p \in Int /\ k * p + k * 1 = k * (p + 1)
  BY <1>1, Distribute
<1>3. a + k = k * (p + 1) + r /\ p + 1 \in Int /\ a + k \in Nat
  <2> HIDE DEF p, r
  <2> QED BY <1>1, <1>2
<1> HIDE DEF p, r
<1> QED BY <1>1, <1>3, Remainder DEF r

-----------------------------------------------------------------------------

LEMMA Sizes ==
  /\ NPes \in Nat /\ NVecs \in Nat /\ 0 < NPes /\ 0 < NVecs
  /\ Stride \in Nat /\ 0 < Stride /\ Stride <= NVecs
BY SizesAssumption DEF Stride, Smaller

LEMMA CoreParts ==
  /\ \A c \in Cores : Pe(c) \in PEs /\ Vec(c) \in Vecs /\ c = <<Pe(c), Vec(c)>>
  /\ \A p \in PEs, v \in Vecs :
       <<p, v>> \in Cores /\ Pe(<<p, v>>) = p /\ Vec(<<p, v>>) = v
BY DEF Cores, Pe, Vec

LEMMA IndexRange ==
  /\ \A p \in PEs : p \in Nat /\ p < NPes
  /\ \A n \in Nat : n < NPes => n \in PEs
  /\ \A v \in Vecs : v \in Nat
  /\ \A n \in Nat : n < NVecs => n \in Vecs
BY Sizes DEF PEs, Vecs

(* The initial states satisfy the invariant. *)
LEMMA InitInv == Init => Inv
BY SizesAssumption, CoreParts DEF Init, Inv, TypeOK, CoresTogether, CorePassed, CoreCalls,
   CountIsCall, LineIsLast, CounterReady, LoadCounter, WordIsEntered, WordPublished,
   Looked, NoEarlyLeave, Entered

(* Types are preserved. *)
LEMMA TypeStep == TypeOK /\ [Next]_vars => TypeOK'
<1> SUFFICES ASSUME TypeOK, [Next]_vars PROVE TypeOK'
  OBVIOUS
<1> USE DEF TypeOK
<1>1. ASSUME NEW c \in Cores, Enter(c) PROVE TypeOK'
  <2>1. pc' \in [Cores -> {"idle", "core1", "pull", "store", "core2"}]
    BY <1>1 DEF Enter
  <2>2. \A d \in Cores : pc'[d] = "pull" => i'[d] \in PEs
    BY <1>1 DEF Enter, locals
  <2> QED BY <1>1, <2>1, <2>2 DEF Enter, locals, memory
<1>2. ASSUME NEW c \in Cores, Load(c) PROVE TypeOK'
  <2>1. Vec(c) \in Nat /\ LoadCounter(c) \in Nat /\ Pe(c) \in PEs
    BY CoreParts, IndexRange DEF LoadCounter
  <2>2. LoopHead(Vec(c)) \in {"pull", "store"}
        /\ (LoopHead(Vec(c)) = "pull" => Vec(c) \in PEs)
    BY <2>1, IndexRange DEF LoopHead
  <2>3. /\ pc' \in [Cores -> {"idle", "core1", "pull", "store", "core2"}]
        /\ i' \in [Cores -> Nat] /\ count' \in [Cores -> Nat]
    BY <1>2, <2>1, <2>2 DEF Load
  <2>4. \A d \in Cores : pc'[d] = "pull" => i'[d] \in PEs
    BY <1>2, <2>1, <2>2 DEF Load
  <2> QED BY <1>2, <2>3, <2>4 DEF Load, memory
<1>3. ASSUME NEW c \in Cores, NextDevice(c)
      PROVE  /\ pc' \in [Cores -> {"idle", "core1", "pull", "store", "core2"}]
             /\ i' \in [Cores -> Nat]
             /\ \A d \in Cores : pc'[d] = "pull" => i'[d] \in PEs
  <2>1. i[c] + Stride \in Nat
    BY Sizes
  <2>2. LoopHead(i[c] + Stride) \in {"pull", "store"}
        /\ (LoopHead(i[c] + Stride) = "pull" => i[c] + Stride \in PEs)
    BY <2>1, IndexRange DEF LoopHead
  <2> QED BY <1>3, <2>1, <2>2 DEF NextDevice
<1>4. ASSUME NEW c \in Cores, WriteLocal(c) PROVE TypeOK'
  <2>1. sync_array' \in [PEs -> Nat]
    BY <1>4, CoreParts DEF WriteLocal
  <2> QED BY <1>3, <1>4, <2>1 DEF WriteLocal
<1>5. ASSUME NEW c \in Cores, ReadRemote(c) PROVE TypeOK'
  BY <1>3, <1>5 DEF ReadRemote, memory
<1>6. ASSUME NEW c \in Cores, Store(c) PROVE TypeOK'
  <2>1. /\ pc' \in [Cores -> {"idle", "core1", "pull", "store", "core2"}]
        /\ line' \in [Cores -> Nat \cup {Clean}]
    BY <1>6 DEF Store
  <2>2. \A d \in Cores : pc'[d] = "pull" => i'[d] \in PEs
    BY <1>6 DEF Store, locals
  <2> QED BY <1>6, <2>1, <2>2 DEF Store, locals
<1>7. ASSUME NEW c \in Cores, LeaveCore2(c) PROVE TypeOK'
  <2>1. /\ pc' \in [Cores -> {"idle", "core1", "pull", "store", "core2"}]
        /\ done' \in [Cores -> Nat]
    BY <1>7 DEF LeaveCore2
  <2>2. \A d \in Cores : pc'[d] = "pull" => i'[d] \in PEs
    BY <1>7 DEF LeaveCore2, locals
  <2> QED BY <1>7, <2>1, <2>2 DEF LeaveCore2, locals, memory
<1>8. ASSUME NEW c \in Cores, Quiet(c) PROVE TypeOK'
  <2>1. /\ sync_counter' \in [PEs -> Nat]
        /\ line' \in [Cores -> Nat \cup {Clean}]
    BY <1>8, CoreParts DEF Quiet, WriteBack
  <2> QED BY <1>8, <2>1 DEF Quiet, WriteBack, locals
<1>9. CASE UNCHANGED vars
  BY <1>9 DEF vars
<1> QED
  BY <1>1, <1>2, <1>4, <1>5, <1>6, <1>7, <1>8, <1>9 DEF Next, Finished

(* Type correctness of the specification. *)
THEOREM TypeCorrect == Spec => []TypeOK
<1>1. Init => TypeOK
  BY InitInv DEF Inv
<1> QED BY <1>1, TypeStep, PTL DEF Spec
-----------------------------------------------------------------------------

(* Numbers of calls are numbers. *)
LEMMA CallTypes ==
  ASSUME TypeOK, NEW c \in Cores
  PROVE  /\ done[c] \in Nat /\ Entered(c) \in Nat
         /\ CoreCalls(c) \in Nat /\ CorePassed(c) \in Nat
BY DEF TypeOK, Entered, CoreCalls, CorePassed

(* What the core barrier tells about a core of the same device. *)
LEMMA CalledMeansEntered ==
  ASSUME TypeOK, NEW c \in Cores, NEW n \in Nat, 2 * n + 1 <= CoreCalls(c)
  PROVE  n + 1 <= Entered(c)
BY CallTypes DEF TypeOK, Entered, CoreCalls

(* A core on its way through the devices knows that its own device is in.  *)
LEMMA OwnDeviceIn ==
  ASSUME TypeOK, CoresTogether, NEW c \in Cores, pc[c] \in {"pull", "store", "core2"},
         NEW d \in Cores, Pe(d) = Pe(c)
  PROVE  done[c] + 1 <= Entered(d)
<1>1. CorePassed(c) <= CoreCalls(d)
  BY CoreParts DEF CoresTogether
<1>2. CorePassed(c) = 2 * done[c] + 1 /\ done[c] \in Nat
  BY CallTypes DEF CorePassed
<1> QED BY <1>1, <1>2, CalledMeansEntered

(* Conjuncts of the invariant that only count calls. *)
Counting == CoresTogether /\ WordIsEntered /\ WordPublished /\ Looked /\ NoEarlyLeave
Carried == CountIsCall /\ LineIsLast /\ CounterReady

LEMMA InvParts == Inv <=> TypeOK /\ Counting /\ Carried
BY DEF Inv, Counting, Carried

(* Steps that only raise the calls made keep what the calls are compared   *)
(* with.                                                                   *)
LEMMA OnlyMoreCalls ==
  ASSUME Inv, TypeOK', done' = done, i' = i, sync_array' = sync_array,
         \A d \in Cores :
           /\ CorePassed(d)' = CorePassed(d)
           /\ CoreCalls(d) <= CoreCalls(d)'
           /\ Entered(d) <= Entered(d)'
           /\ pc'[d] \in {"pull", "store", "core2"} =>
                /\ pc[d] \in {"pull", "store", "core2"}
                /\ pc'[d] = "pull" <=> pc[d] = "pull"
  PROVE  Counting'
<1>1. /\ TypeOK /\ CoresTogether /\ WordIsEntered /\ WordPublished /\ Looked
      /\ NoEarlyLeave
  BY DEF Inv
<1>2. \A d \in Cores :
        /\ CoreCalls(d)' \in Nat /\ CoreCalls(d) \in Nat /\ CorePassed(d) \in Nat
        /\ Entered(d)' \in Nat /\ Entered(d) \in Nat /\ done[d] \in Nat
  BY <1>1 DEF TypeOK, Entered, CoreCalls, CorePassed
<1>3. CoresTogether'
  <2> SUFFICES ASSUME NEW p \in PEs, NEW u \in Vecs, NEW v \in Vecs
               PROVE  CorePassed(<<p, u>>)' <= CoreCalls(<<p, v>>)'
    BY DEF CoresTogether
  <2> DEFINE a == <<p, u>>
             b == <<p, v>>
  <2>1. a \in Cores /\ b \in Cores /\ CorePassed(a) <= CoreCalls(b)
    BY <1>1, CoreParts DEF CoresTogether
  <2> HIDE DEF a, b
  <2>2. CorePassed(a)' <= CoreCalls(b)'
    BY <1>2, <2>1
  <2> QED BY <2>2 DEF a, b
<1>4. WordIsEntered'
  <2> SUFFICES ASSUME NEW p \in PEs, NEW v \in Vecs
               PROVE  sync_array[p] <= Entered(<<p, v>>)'
    BY DEF WordIsEntered
  <2> DEFINE b == <<p, v>>
  <2>1. b \in Cores /\ sync_array[p] \in Nat /\ sync_array[p] <= Entered(b)
    BY <1>1, CoreParts DEF WordIsEntered, TypeOK
  <2> HIDE DEF b
  <2>2. sync_array[p] <= Entered(b)'
    BY <1>2, <2>1
  <2> QED BY <2>2 DEF b
<1>5. WordPublished'
  BY <1>1, <1>2 DEF WordPublished
<1>6. Looked'
  BY <1>1, <1>2 DEF Looked
<1>7. NoEarlyLeave'
  BY <1>1, <1>2 DEF NoEarlyLeave
<1> QED BY <1>3, <1>4, <1>5, <1>6, <1>7 DEF Counting

LEMMA EnterStep ==
  ASSUME Inv, TypeOK', NEW c \in Cores, Enter(c)
  PROVE  Counting' /\ Carried'
<1>1. TypeOK
  BY DEF Inv
<1>2. \A d \in Cores :
        /\ CorePassed(d)' = CorePassed(d) /\ CoreCalls(d) <= CoreCalls(d)'
        /\ Entered(d) <= Entered(d)'
        /\ d # c => pc'[d] = pc[d]
        /\ LoadCounter(d)' = LoadCounter(d)
  BY <1>1 DEF Enter, TypeOK, memory, LoadCounter, CorePassed, CoreCalls, Entered
<1>3. /\ pc'[c] = "core1" /\ pc[c] = "idle"
      /\ done' = done /\ i' = i /\ sync_array' = sync_array /\ count' = count
      /\ line' = line
  BY <1>1 DEF Enter, TypeOK, memory, locals
<1>4. Counting'
  <2>1. \A d \in Cores : pc'[d] \in {"pull", "store", "core2"} => pc'[d] = pc[d]
    BY <1>2, <1>3
  <2> QED BY <1>2, <1>3, <2>1, OnlyMoreCalls
<1>5. Carried'
  BY <1>2, <1>3 DEF Inv, Carried, CountIsCall, LineIsLast, CounterReady
<1> QED BY <1>4, <1>5

LEMMA StoreStep ==
  ASSUME Inv, TypeOK', NEW c \in Cores, Store(c)
  PROVE  Counting' /\ Carried'
<1>1. TypeOK
  BY DEF Inv
<1>2. \A d \in Cores :
        /\ CorePassed(d)' = CorePassed(d) /\ CoreCalls(d) <= CoreCalls(d)'
        /\ Entered(d) <= Entered(d)'
        /\ d # c => pc'[d] = pc[d] /\ line'[d] = line[d]
  BY <1>1 DEF Store, TypeOK, CorePassed, CoreCalls, Entered
<1>3. /\ pc'[c] = "core2" /\ pc[c] = "store" /\ line'[c] = count[c]
      /\ done' = done /\ i' = i /\ sync_array' = sync_array /\ count' = count
      /\ sync_counter' = sync_counter
  BY <1>1 DEF Store, TypeOK, locals
<1>4. Counting'
  <2>1. \A d \in Cores : pc'[d] \in {"pull", "store", "core2"} =>
          pc[d] \in {"pull", "store", "core2"} /\ (pc'[d] = "pull" <=> pc[d] = "pull")
    BY <1>2, <1>3
  <2> QED BY <1>2, <1>3, <2>1, OnlyMoreCalls
<1>5. count[c] = done[c] + 1
  BY <1>3 DEF Inv, CountIsCall
<1>6. Carried'
  BY <1>2, <1>3, <1>5 DEF Inv, Carried, CountIsCall, LineIsLast, CounterReady, LoadCounter
<1> QED BY <1>4, <1>6

(* Cores of a device that are not past the first core barrier have left    *)
(* the same number of barriers.                                            *)
LEMMA SameDone ==
  ASSUME TypeOK, CoresTogether, NEW c \in Cores, NEW d \in Cores, Pe(c) = Pe(d),
         pc[c] \in {"idle", "core1"}, pc[d] \in {"idle", "core1"}
  PROVE  done[c] = done[d]
<1>1. CorePassed(c) <= CoreCalls(d) /\ CorePassed(d) <= CoreCalls(c)
  BY CoreParts DEF CoresTogether
<1>2. /\ CorePassed(c) = 2 * done[c] /\ CoreCalls(c) <= 2 * done[c] + 1
      /\ CorePassed(d) = 2 * done[d] /\ CoreCalls(d) <= 2 * done[d] + 1
      /\ done[c] \in Nat /\ done[d] \in Nat
      /\ CoreCalls(c) \in Nat /\ CoreCalls(d) \in Nat
  BY CallTypes DEF CorePassed, CoreCalls
<1> QED BY <1>1, <1>2

LEMMA QuietStep ==
  ASSUME Inv, TypeOK', NEW c \in Cores, Quiet(c)
  PROVE  Counting' /\ Carried'
<1>1. TypeOK /\ CoresTogether
  BY DEF Inv
<1>2. \A d \in Cores :
        /\ CorePassed(d)' = CorePassed(d) /\ CoreCalls(d) <= CoreCalls(d)'
        /\ Entered(d) <= Entered(d)'
        /\ d # c => line'[d] = line[d]
        /\ Pe(d) # Pe(c) => sync_counter'[Pe(d)] = sync_counter[Pe(d)]
  BY <1>1, CoreParts DEF Quiet, WriteBack, TypeOK, CorePassed, CoreCalls, Entered
<1>3. /\ pc' = pc /\ pc[c] = "idle" /\ line'[c] = Clean /\ line[c] # Clean
      /\ sync_counter'[Pe(c)] = line[c]
      /\ done' = done /\ i' = i /\ sync_array' = sync_array /\ count' = count
  BY <1>1, CoreParts DEF Quiet, WriteBack, TypeOK, locals
<1>4. Counting'
  BY <1>2, <1>3, OnlyMoreCalls
<1>5. line[c] = done[c]
  BY <1>3 DEF Inv, LineIsLast
<1>6. CountIsCall'
  BY <1>3 DEF Inv, CountIsCall
<1>7. LineIsLast'
  BY <1>2, <1>3 DEF Inv, LineIsLast
<1>8. CounterReady'
  <2> SUFFICES ASSUME NEW d \in Cores, pc[d] \in {"idle", "core1"}
               PROVE  LoadCounter(d)' = done[d]
    BY <1>3 DEF CounterReady
  <2>1. LoadCounter(d) = done[d]
    BY DEF Inv, CounterReady
  <2>2. CASE d = c
    BY <2>2, <1>3, <1>5 DEF LoadCounter
  <2>3. CASE d # c /\ Pe(d) # Pe(c)
    BY <2>1, <2>3, <1>2 DEF LoadCounter
  <2>4. CASE d # c /\ Pe(d) = Pe(c)
    <3>1. done[d] = done[c]
      BY <2>4, <1>1, <1>3, SameDone
    <3> QED BY <2>1, <2>4, <1>2, <1>3, <1>5, <3>1 DEF LoadCounter
  <2> QED BY <2>2, <2>3, <2>4
<1> QED BY <1>4, <1>6, <1>7, <1>8 DEF Carried

(* The first core barrier lets a core through to the loop. *)
LEMMA LoadStep ==
  ASSUME Inv, TypeOK', NEW c \in Cores, Load(c)
  PROVE  Counting' /\ Carried'
<1>1. /\ TypeOK /\ CoresTogether /\ WordIsEntered /\ WordPublished /\ Looked
      /\ NoEarlyLeave /\ CountIsCall /\ LineIsLast /\ CounterReady
  BY DEF Inv
<1>2. \A d \in Cores :
        /\ CoreCalls(d)' = CoreCalls(d) /\ Entered(d)' = Entered(d)
        /\ d # c => /\ pc'[d] = pc[d] /\ i'[d] = i[d] /\ count'[d] = count[d]
                    /\ CorePassed(d)' = CorePassed(d)
  <2>1. pc'[c] \in {"pull", "store"}
    BY <1>1 DEF Load, LoopHead, TypeOK
  <2> QED BY <2>1, <1>1 DEF Load, TypeOK, CoreCalls, CorePassed, Entered, memory
<1>3. /\ pc[c] = "core1" /\ i'[c] = Vec(c) /\ count'[c] = LoadCounter(c) + 1
      /\ pc'[c] = LoopHead(Vec(c)) /\ pc'[c] \in {"pull", "store"}
      /\ done' = done /\ sync_array' = sync_array /\ sync_counter' = sync_counter
      /\ line' = line
  BY <1>1 DEF Load, LoopHead, TypeOK, memory
<1>4. CoresTogether'
  <2> SUFFICES ASSUME NEW p \in PEs, NEW u \in Vecs, NEW v \in Vecs
               PROVE  CorePassed(<<p, u>>)' <= CoreCalls(<<p, v>>)'
    BY DEF CoresTogether
  <2> DEFINE a == <<p, u>>
             b == <<p, v>>
  <2>1. a \in Cores /\ b \in Cores /\ CorePassed(a) <= CoreCalls(b) /\ Pe(a) = p
    BY <1>1, CoreParts DEF CoresTogether
  <2>2. a = c => CoreCalls(c) <= CoreCalls(b)
    BY <2>1 DEF Load, CoreBarrierOpen
  <2> HIDE DEF a, b
  <2>3. CASE a = c
    <3>1. CorePassed(c)' = CoreCalls(c)
      BY <1>1, <1>3 DEF CorePassed, CoreCalls, TypeOK
    <3> QED BY <2>1, <2>2, <2>3, <3>1, <1>2 DEF a, b
  <2>4. CASE a # c
    <3>1. CorePassed(a)' <= CoreCalls(b)'
      BY <2>1, <2>4, <1>2
    <3> QED BY <3>1 DEF a, b
  <2> QED BY <2>3, <2>4
<1>5. WordIsEntered' /\ NoEarlyLeave'
  BY <1>1, <1>2, <1>3, CoreParts DEF WordIsEntered, NoEarlyLeave
<1>6. \A d \in Cores : Pe(d) % Stride = Vec(c) => ~ (Pe(d) < Vec(c))
  BY CoreParts, IndexRange, Sizes, ModLess
<1>7. WordPublished'
  BY <1>1, <1>2, <1>3, <1>6 DEF WordPublished
<1>8. Looked'
  <2>1. Vec(c) < Stride => (Vec(c) % Stride) = Vec(c)
    BY CoreParts, IndexRange, Sizes, ModLess
  <2>2. pc'[c] # "pull" => NPes <= Vec(c)
    BY <1>3, CoreParts, IndexRange, Sizes DEF LoopHead
  <2> QED BY <1>1, <1>2, <1>3, <1>6, <2>1, <2>2 DEF Looked
<1>9. count'[c] = done[c] + 1
  BY <1>1, <1>3 DEF CounterReady
<1>10. Carried'
  BY <1>1, <1>2, <1>3, <1>9 DEF Carried, CountIsCall, LineIsLast, CounterReady, LoadCounter
<1> QED BY <1>4, <1>5, <1>7, <1>8, <1>10 DEF Counting

(* The next turn of the loop: what the core knows of the device it has     *)
(* just looked at joins what it knew of the earlier ones.                  *)
LEMMA LookedStep ==
  ASSUME Inv, NEW c \in Cores, NextDevice(c), pc[c] = "pull", done' = done,
         \A d \in Cores : Pe(d) = i[c] => done[c] + 1 <= Entered(d)
  PROVE  /\ Looked'
         /\ \A d \in Cores : /\ CoreCalls(d)' = CoreCalls(d)
                             /\ CorePassed(d)' = CorePassed(d)
                             /\ Entered(d)' = Entered(d)
                             /\ d # c => pc'[d] = pc[d] /\ i'[d] = i[d]
         /\ pc'[c] \in {"pull", "store"} /\ i'[c] = i[c] + Stride
<1>1. TypeOK /\ Looked
  BY DEF Inv
<1>2. /\ i'[c] = i[c] + Stride /\ pc'[c] = LoopHead(i[c] + Stride)
      /\ pc'[c] \in {"pull", "store"}
      /\ \A d \in Cores : d # c => pc'[d] = pc[d] /\ i'[d] = i[d]
  BY <1>1 DEF NextDevice, LoopHead, TypeOK
<1>3. \A d \in Cores : /\ CoreCalls(d)' = CoreCalls(d)
                       /\ CorePassed(d)' = CorePassed(d)
                       /\ Entered(d)' = Entered(d)
  BY <1>2 DEF CoreCalls, CorePassed, Entered
<1>4. i[c] \in Nat /\ Stride \in Nat /\ 0 < Stride
  BY <1>1, Sizes DEF TypeOK
<1>5. pc'[c] # "pull" => NPes <= i'[c]
  BY <1>2, <1>4, Sizes DEF LoopHead
<1>6. ASSUME Vec(c) < Stride
      PROVE  /\ (i'[c] % Stride) = Vec(c)
             /\ \A d \in Cores : Pe(d) < i'[c] /\ (Pe(d) % Stride) = Vec(c)
                                   => done[c] + 1 <= Entered(d)'
  <2>1. (i[c] % Stride) = Vec(c)
    BY <1>1, <1>6 DEF Looked
  <2>2. ((i[c] + Stride) % Stride) = Vec(c)
    BY <2>1, <1>4, ModStep
  <2> SUFFICES ASSUME NEW d \in Cores, Pe(d) < i[c] + Stride, (Pe(d) % Stride) = Vec(c)
               PROVE  done[c] + 1 <= Entered(d)
    BY <1>2, <1>3, <2>2
  <2>3. Pe(d) \in Nat
    BY CoreParts, IndexRange
  <2>4. Pe(d) <= i[c]
    BY <1>4, <2>1, <2>3, ModBelow
  <2>5. CASE Pe(d) = i[c]
    BY <2>5
  <2>6. CASE Pe(d) < i[c]
    BY <2>6, <1>1, <1>6 DEF Looked
  <2> QED BY <2>3, <2>4, <2>5, <2>6, <1>4
<1>7. Looked'
  BY <1>1, <1>2, <1>3, <1>5, <1>6 DEF Looked
<1> QED BY <1>2, <1>3, <1>7

LEMMA ReadRemoteStep ==
  ASSUME Inv, TypeOK', NEW c \in Cores, ReadRemote(c)
  PROVE  Counting' /\ Carried'
<1>1. /\ TypeOK /\ CoresTogether /\ WordIsEntered /\ WordPublished
      /\ NoEarlyLeave /\ CountIsCall /\ LineIsLast /\ CounterReady /\ Looked
  BY DEF Inv
<1>2. /\ NextDevice(c) /\ pc[c] = "pull" /\ i[c] # Pe(c) /\ i[c] \in PEs
      /\ done' = done /\ sync_array' = sync_array /\ sync_counter' = sync_counter
      /\ line' = line /\ count' = count
  BY <1>1 DEF ReadRemote, memory, TypeOK
<1>3. done[c] + 1 <= sync_array[i[c]]
  BY <1>1, <1>2 DEF ReadRemote, Accepted, CountIsCall, TypeOK
<1>4. ASSUME NEW d \in Cores, Pe(d) = i[c]
      PROVE  done[c] + 1 <= Entered(d)
  <2>1. sync_array[i[c]] <= Entered(d)
    BY <1>1, <1>2, <1>4, CoreParts DEF WordIsEntered
  <2> QED BY <2>1, <1>1, <1>2, <1>3, CallTypes DEF TypeOK
<1>5. /\ Looked'
      /\ \A d \in Cores : /\ CoreCalls(d)' = CoreCalls(d)
                          /\ CorePassed(d)' = CorePassed(d)
                          /\ Entered(d)' = Entered(d)
                          /\ d # c => pc'[d] = pc[d] /\ i'[d] = i[d]
      /\ pc'[c] \in {"pull", "store"} /\ i'[c] = i[c] + Stride
  BY <1>2, <1>4, LookedStep
<1>6. CoresTogether' /\ WordIsEntered' /\ NoEarlyLeave'
  BY <1>1, <1>2, <1>5, CoreParts DEF CoresTogether, WordIsEntered, NoEarlyLeave
<1>7. WordPublished'
  <2>1. ASSUME Vec(c) = (Pe(c) % Stride), Pe(c) < i[c] + Stride
        PROVE  Pe(c) < i[c]
    <3>1. Pe(c) \in Nat /\ i[c] \in Nat /\ Stride \in Nat /\ 0 < Stride
      BY <1>1, CoreParts, IndexRange, Sizes DEF TypeOK
    <3>2. Vec(c) < Stride
      BY <2>1, <3>1, ModLess
    <3>3. (i[c] % Stride) = Vec(c)
      BY <1>1, <1>2, <3>2 DEF Looked
    <3>4. Pe(c) <= i[c]
      BY <2>1, <3>1, <3>3, ModBelow
    <3> QED BY <1>2, <3>1, <3>4
  <2> QED BY <1>1, <1>2, <1>5, <2>1 DEF WordPublished
<1>8. Carried'
  BY <1>1, <1>2, <1>5 DEF Carried, CountIsCall, LineIsLast, CounterReady, LoadCounter
<1> QED BY <1>5, <1>6, <1>7, <1>8 DEF Counting

LEMMA WriteLocalStep ==
  ASSUME Inv, TypeOK', NEW c \in Cores, WriteLocal(c)
  PROVE  Counting' /\ Carried'
<1>1. /\ TypeOK /\ CoresTogether /\ WordIsEntered /\ WordPublished
      /\ NoEarlyLeave /\ CountIsCall /\ LineIsLast /\ CounterReady
  BY DEF Inv
<1>2. /\ NextDevice(c) /\ pc[c] = "pull" /\ i[c] = Pe(c) /\ Pe(c) \in PEs
      /\ done' = done /\ sync_counter' = sync_counter
      /\ line' = line /\ count' = count
      /\ sync_array'[Pe(c)] = done[c] + 1
      /\ \A p \in PEs : p # Pe(c) => sync_array'[p] = sync_array[p]
  BY <1>1, CoreParts DEF WriteLocal, TypeOK, CountIsCall
<1>3. ASSUME NEW d \in Cores, Pe(d) = Pe(c)
      PROVE  done[c] + 1 <= Entered(d)
  BY <1>1, <1>2, <1>3, OwnDeviceIn
<1>4. /\ Looked'
      /\ \A d \in Cores : /\ CoreCalls(d)' = CoreCalls(d)
                          /\ CorePassed(d)' = CorePassed(d)
                          /\ Entered(d)' = Entered(d)
                          /\ d # c => pc'[d] = pc[d] /\ i'[d] = i[d]
      /\ pc'[c] \in {"pull", "store"} /\ i'[c] = i[c] + Stride
  BY <1>2, <1>3, LookedStep
<1>5. CoresTogether' /\ NoEarlyLeave'
  BY <1>1, <1>2, <1>4, CoreParts DEF CoresTogether, NoEarlyLeave
<1>6. WordIsEntered'
  <2> SUFFICES ASSUME NEW p \in PEs, NEW v \in Vecs
               PROVE  sync_array'[p] <= Entered(<<p, v>>)'
    BY DEF WordIsEntered
  <2> DEFINE b == <<p, v>>
  <2>1. b \in Cores /\ Pe(b) = p /\ sync_array[p] <= Entered(b)
    BY <1>1, CoreParts DEF WordIsEntered
  <2> HIDE DEF b
  <2>2. sync_array'[p] <= Entered(b)'
    BY <1>2, <1>3, <1>4, <2>1
  <2> QED BY <2>2 DEF b
<1>7. sync_array[Pe(c)] <= done[c] + 1
  BY <1>1, <1>2, CoreParts DEF WordIsEntered, Entered
<1>8. WordPublished'
  <2> SUFFICES ASSUME NEW d \in Cores
               PROVE  /\ done[d] <= sync_array'[Pe(d)]
                      /\ /\ pc'[d] \in {"pull", "store", "core2"}
                         /\ Vec(d) = (Pe(d) % Stride) /\ Pe(d) < i'[d]
                         => done[d] < sync_array'[Pe(d)]
    BY <1>2 DEF WordPublished
  <2>1. CASE d = c
    BY <2>1, <1>1, <1>2 DEF TypeOK
  <2>2. CASE d # c /\ Pe(d) # Pe(c)
    BY <2>2, <1>1, <1>2, <1>4, CoreParts DEF WordPublished
  <2>3. CASE d # c /\ Pe(d) = Pe(c)
    <3>1. done[d] \in Nat /\ sync_array[Pe(d)] \in Nat /\ done[c] \in Nat
      BY <1>1, CoreParts DEF TypeOK
    <3> QED BY <2>3, <3>1, <1>1, <1>2, <1>4, <1>7 DEF WordPublished
  <2> QED BY <2>1, <2>2, <2>3
<1>9. Carried'
  BY <1>1, <1>2, <1>4 DEF Carried, CountIsCall, LineIsLast, CounterReady, LoadCounter
<1> QED BY <1>4, <1>5, <1>6, <1>8, <1>9 DEF Counting

(* The core of a device that looks after the devices congruent to p: when  *)
(* the second core barrier is open it has looked at all of them.           *)
LEMMA ShareLooked ==
  ASSUME Inv, NEW c \in Cores, pc[c] = "core2", CoreBarrierOpen(c), NEW p \in PEs
  PROVE  \E u \in Cores :
           /\ Pe(u) = Pe(c) /\ Vec(u) = (p % Stride) /\ Vec(u) < Stride
           /\ \/ done[c] + 1 <= done[u]
              \/ pc[u] = "core2" /\ done[u] = done[c] /\ p < i[u]
<1>1. TypeOK /\ Looked
  BY DEF Inv
<1> DEFINE v == p % Stride
           u == <<Pe(c), v>>
<1>2. v \in Vecs /\ v < Stride
  BY Sizes, IndexRange, ModLess
<1> HIDE DEF v
<1>3. u \in Cores /\ Pe(u) = Pe(c) /\ Vec(u) = v /\ CoreCalls(c) <= CoreCalls(u)
  BY <1>2, CoreParts DEF CoreBarrierOpen
<1> HIDE DEF u
<1>4. done[c] + 1 <= done[u] \/ (pc[u] = "core2" /\ done[u] = done[c])
  BY <1>1, <1>3 DEF CoreCalls, TypeOK
<1>5. pc[u] = "core2" => p < i[u]
  <2>1. pc[u] = "core2" => NPes <= i[u]
    BY <1>1, <1>3 DEF Looked
  <2> QED BY <2>1, <1>1, <1>3, IndexRange, Sizes DEF TypeOK
<1> QED BY <1>2, <1>3, <1>4, <1>5 DEF v

LEMMA LeaveCore2Step ==
  ASSUME Inv, TypeOK', NEW c \in Cores, LeaveCore2(c)
  PROVE  Counting' /\ Carried'
<1>1. /\ TypeOK /\ CoresTogether /\ WordIsEntered /\ WordPublished /\ Looked
      /\ NoEarlyLeave /\ CountIsCall /\ LineIsLast /\ CounterReady
  BY DEF Inv
<1>2. /\ pc[c] = "core2" /\ CoreBarrierOpen(c)
      /\ pc'[c] = "idle" /\ done'[c] = done[c] + 1
      /\ i' = i /\ count' = count /\ sync_array' = sync_array
      /\ sync_counter' = sync_counter /\ line' = line
      /\ \A d \in Cores : d # c => pc'[d] = pc[d] /\ done'[d] = done[d]
  BY <1>1 DEF LeaveCore2, TypeOK, locals, memory
<1>3. /\ \A d \in Cores : CoreCalls(d)' = CoreCalls(d) /\ Entered(d)' = Entered(d)
      /\ \A d \in Cores : d # c => CorePassed(d)' = CorePassed(d)
      /\ CorePassed(c)' = CoreCalls(c)
  BY <1>1, <1>2 DEF CoreCalls, CorePassed, Entered, TypeOK
<1>4. CoresTogether'
  <2> SUFFICES ASSUME NEW p \in PEs, NEW u \in Vecs, NEW v \in Vecs
               PROVE  CorePassed(<<p, u>>)' <= CoreCalls(<<p, v>>)'
    BY DEF CoresTogether
  <2> DEFINE a == <<p, u>>
             b == <<p, v>>
  <2>1. a \in Cores /\ b \in Cores /\ CorePassed(a) <= CoreCalls(b) /\ Pe(a) = p
    BY <1>1, CoreParts DEF CoresTogether
  <2>2. a = c => CoreCalls(c) <= CoreCalls(b)
    BY <2>1, <1>2 DEF CoreBarrierOpen
  <2> HIDE DEF a, b
  <2>3. CorePassed(a)' <= CoreCalls(b)'
    BY <2>1, <2>2, <1>3
  <2> QED BY <2>3 DEF a, b
<1>5. \A d \in Cores : done[c] + 1 <= Entered(d)
  <2> TAKE d \in Cores
  <2>1. Pe(d) \in PEs
    BY CoreParts
  <2>2. PICK u \in Cores :
          /\ Pe(u) = Pe(c) /\ Vec(u) = (Pe(d) % Stride) /\ Vec(u) < Stride
          /\ \/ done[c] + 1 <= done[u]
             \/ pc[u] = "core2" /\ done[u] = done[c] /\ Pe(d) < i[u]
    BY <1>2, <2>1, ShareLooked
  <2>3. CASE done[c] + 1 <= done[u]
    BY <2>3, <1>1, CallTypes DEF NoEarlyLeave
  <2>4. CASE pc[u] = "core2" /\ done[u] = done[c] /\ Pe(d) < i[u]
    BY <2>2, <2>4, <1>1 DEF Looked
  <2> QED BY <2>2, <2>3, <2>4
<1>6. NoEarlyLeave'
  BY <1>1, <1>2, <1>3, <1>5 DEF NoEarlyLeave
<1>7. WordIsEntered'
  BY <1>1, <1>2, <1>3, CoreParts DEF WordIsEntered
<1>8. done[c] + 1 <= sync_array[Pe(c)]
  <2>1. Pe(c) \in PEs
    BY CoreParts
  <2>2. PICK u \in Cores :
          /\ Pe(u) = Pe(c) /\ Vec(u) = (Pe(c) % Stride) /\ Vec(u) < Stride
          /\ \/ done[c] + 1 <= done[u]
             \/ pc[u] = "core2" /\ done[u] = done[c] /\ Pe(c) < i[u]
    BY <1>2, <2>1, ShareLooked
  <2>3. /\ done[u] <= sync_array[Pe(c)]
        /\ pc[u] = "core2" /\ Pe(c) < i[u] => done[u] < sync_array[Pe(c)]
    BY <1>1, <2>2 DEF WordPublished
  <2> QED BY <1>1, <2>1, <2>2, <2>3, CallTypes DEF TypeOK
<1>9. WordPublished'
  BY <1>1, <1>2, <1>8 DEF WordPublished
<1>10. Looked'
  BY <1>1, <1>2, <1>3 DEF Looked
<1>11. line[c] = done[c] + 1 /\ line[c] # Clean
  BY <1>1, <1>2, CallTypes DEF LineIsLast
<1>12. Carried'
  BY <1>1, <1>2, <1>11 DEF Carried, CountIsCall, LineIsLast, CounterReady, LoadCounter
<1> QED BY <1>4, <1>6, <1>7, <1>9, <1>10, <1>12 DEF Counting

(* Every step preserves the invariant. *)
LEMMA NextInv == Inv /\ [Next]_vars => Inv'
<1> SUFFICES ASSUME Inv, [Next]_vars PROVE Inv'
  OBVIOUS
<1>1. TypeOK'
  BY TypeStep DEF Inv
<1>2. CASE Next
  <2>1. CASE Finished
    BY <2>1 DEF Finished, vars, Inv, TypeOK, CoresTogether, CorePassed, CoreCalls,
       CountIsCall, LineIsLast, CounterReady, LoadCounter, WordIsEntered,
       WordPublished, Looked, NoEarlyLeave, Entered
  <2>2. ASSUME NEW c \in Cores,
               Enter(c) \/ Load(c) \/ WriteLocal(c) \/ ReadRemote(c) \/ Store(c)
                 \/ LeaveCore2(c) \/ Quiet(c)
        PROVE  Counting' /\ Carried'
    BY <1>1, <2>2, EnterStep, LoadStep, WriteLocalStep, ReadRemoteStep, StoreStep,
       LeaveCore2Step, QuietStep
  <2> QED BY <1>1, <1>2, <2>1, <2>2 DEF Next, Inv, Counting, Carried
<1>3. CASE UNCHANGED vars
  BY <1>3 DEF vars, Inv, TypeOK, CoresTogether, CorePassed, CoreCalls,
     CountIsCall, LineIsLast, CounterReady, LoadCounter, WordIsEntered,
     WordPublished, Looked, NoEarlyLeave, Entered
<1> QED BY <1>2, <1>3

(* The inductive invariant holds of every run. *)
THEOREM Invariance == Spec => []Inv
<1> QED BY InitInv, NextInv, PTL DEF Spec

(* No vector core of any device leaves the n-th barrier before all of all  *)
(* the devices have entered theirs, for every team, number of cores and    *)
(* KVAL: the promise in the header of shmemi_device_barrier.h, as long as  *)
(* the counter goes back to memory between barriers only.                  *)
THEOREM NpuBarrierSafe == Spec => []NoEarlyLeave
<1>1. Inv => NoEarlyLeave
  BY DEF Inv
<1> QED BY <1>1, Invariance, PTL

(* Every core loads the number of barriers it has completed, although all  *)
(* the cores of its device store the counter through caches of their own.  *)
THEOREM CounterIsCurrent == Spec => []CounterCurrent
<1>1. Inv => CounterCurrent
  BY DEF Inv, CounterReady, CounterCurrent
<1> QED BY <1>1, Invariance, PTL

(* The word somebody still has to read never runs past the values the wait *)
(* of shmemi_signal_wait_until_eq_for_barrier accepts.                     *)
THEOREM NumbersAreNotLost == Spec => []NoNumberLost
<1>1. Inv => NoNumberLost
  <2> SUFFICES ASSUME Inv, NEW c \in Cores, pc[c] = "pull"
               PROVE  sync_array[i[c]] <= count[c] + 1
    BY DEF NoNumberLost
  <2>1. TypeOK /\ WordIsEntered /\ NoEarlyLeave /\ CountIsCall
    BY DEF Inv
  <2>2. i[c] \in PEs /\ 0 \in Vecs
    BY <2>1, IndexRange, Sizes DEF TypeOK
  <2> DEFINE d == <<i[c], 0>>
  <2>3. d \in Cores /\ sync_array[i[c]] <= Entered(d)
    BY <2>1, <2>2, CoreParts DEF WordIsEntered
  <2> HIDE DEF d
  <2>4. Entered(d) <= done[d] + 1 /\ done[d] <= done[c] + 1
    BY <2>1, <2>3 DEF NoEarlyLeave, Entered, TypeOK
  <2>5. count[c] = done[c] + 1 /\ sync_array[i[c]] \in Nat /\ done[c] \in Nat
    BY <2>1, <2>2 DEF CountIsCall, TypeOK
  <2> QED BY <2>3, <2>4, <2>5, <2>1, CallTypes
<1> QED BY <1>1, Invariance, PTL

(* A device publishes the number of a barrier only when all its cores are  *)
(* in that barrier, one number at a time, and never takes it back.         *)
THEOREM NumbersGrowTogether == Spec => PublishedTogether
<1>1. ASSUME Inv, [Next]_vars
      PROVE  [\A p \in PEs : sync_array'[p] # sync_array[p] =>
                /\ sync_array'[p] = sync_array[p] + 1
                /\ \A v \in Vecs : Entered(<<p, v>>) >= sync_array'[p]]_vars
  <2> SUFFICES ASSUME NEW p \in PEs, sync_array'[p] # sync_array[p]
               PROVE  /\ sync_array'[p] = sync_array[p] + 1
                      /\ \A v \in Vecs : Entered(<<p, v>>) >= sync_array'[p]
    OBVIOUS
  <2>1. TypeOK /\ CoresTogether /\ WordIsEntered /\ WordPublished /\ CountIsCall
    BY <1>1 DEF Inv
  <2>2. PICK c \in Cores : WriteLocal(c)
    BY <1>1 DEF Next, Enter, Load, ReadRemote, Store, LeaveCore2, Quiet, WriteBack,
       Finished, vars, memory
  <2>3. /\ p = Pe(c) /\ pc[c] = "pull" /\ sync_array'[p] = done[c] + 1
        /\ sync_array[p] \in Nat /\ done[c] \in Nat
    BY <2>1, <2>2, CoreParts DEF WriteLocal, TypeOK, CountIsCall
  <2>4. sync_array[p] <= done[c] + 1 /\ done[c] <= sync_array[p]
    BY <2>1, <2>3, CoreParts DEF WordIsEntered, WordPublished, Entered
  <2>5. ASSUME NEW v \in Vecs
        PROVE  Entered(<<p, v>>) >= sync_array'[p]
    <3> DEFINE b == <<p, v>>
    <3>1. b \in Cores /\ Pe(b) = Pe(c)
      BY <2>3, CoreParts
    <3> HIDE DEF b
    <3>2. done[c] + 1 <= Entered(b)
      BY <2>1, <2>3, <3>1, OwnDeviceIn
    <3>3. Entered(b) >= sync_array'[p]
      BY <2>1, <2>3, <3>1, <3>2, CallTypes
    <3> QED BY <3>3 DEF b
  <2> QED BY <2>3, <2>4, <2>5
<1> QED BY <1>1, Invariance, PTL DEF Spec, PublishedTogether

(* Every step is a step of the abstract barrier, or invisible to it. *)
LEMMA AbstractStep == Inv /\ Inv' /\ [Next]_vars => [Abstract!Next]_(Abstract!vars)
<1> SUFFICES ASSUME Inv, Inv', Next PROVE [Abstract!Next]_(Abstract!vars)
  BY DEF vars, Abstract!vars, Entered
<1> USE DEF Inv, TypeOK
<1>1. ASSUME NEW c \in Cores, Enter(c) PROVE Abstract!Enter(c)
  BY <1>1 DEF Enter, Abstract!Enter, Entered
<1>2. ASSUME NEW c \in Cores, LeaveCore2(c) PROVE Abstract!Leave(c)
  <2>1. pc[c] = "core2" /\ pc' = [pc EXCEPT ![c] = "idle"] /\ done' = [done EXCEPT ![c] = @ + 1]
    BY <1>2 DEF LeaveCore2
  <2>2. \A d \in Cores : Entered(d)' = Entered(d)
    BY <2>1 DEF Entered
  <2>3. done[c] < Entered(c) /\ Entered(c) = done'[c]
    BY <2>1 DEF Entered
  <2>4. \A d \in Cores : Entered(c) <= Entered(d)
    BY <2>2, <2>3 DEF NoEarlyLeave
  <2> QED BY <2>1, <2>2, <2>3, <2>4 DEF Abstract!Leave
<1>3. ASSUME NEW c \in Cores,
             Load(c) \/ WriteLocal(c) \/ ReadRemote(c) \/ Store(c) \/ Quiet(c)
      PROVE  UNCHANGED Abstract!vars
  <2>1. /\ done' = done
        /\ \A d \in Cores : pc'[d] = "idle" <=> pc[d] = "idle"
    BY <1>3 DEF Load, WriteLocal, ReadRemote, Store, Quiet, WriteBack, NextDevice,
       LoopHead, memory
  <2> QED BY <2>1 DEF Abstract!vars, Entered
<1>4. CASE Finished
  BY <1>4 DEF Finished, vars, Abstract!vars, Entered
<1> QED BY <1>1, <1>2, <1>3, <1>4 DEF Next, Abstract!Next

(* The pull barrier, composed with the core barriers around it, implements *)
(* the abstract barrier for all the vector cores of the team.              *)
THEOREM NpuBarrierRefines == Spec => ImplementsBarrier
<1>1. Init => Abstract!Init
  BY DEF Init, Abstract!Init, Entered
<1> QED BY <1>1, AbstractStep, Invariance, PTL DEF Spec, ImplementsBarrier

=============================================================================
