----------------------------- MODULE NpuBarrier -----------------------------
(***************************************************************************)
(* shmemi_barrier on the vector cores of a team's devices: a core barrier  *)
(* on each device (level 1), the centralized pull barrier                  *)
(* shmemi_barrier_npu_v3 between the devices (level 2), and a second core  *)
(* barrier.                                                                *)
(*                                                                         *)
(* The core barrier is SyncAll or the soft one: here it is what the module *)
(* Barrier promises, which CoreBarrier is shown to implement.  A device    *)
(* publishes the number of its current barrier in one word of its own and  *)
(* every device polls the words of the others; the words are cleaned and   *)
(* invalidated around each access, hence coherent.  The number comes from  *)
(* a counter in the device's memory that all its cores load and all its    *)
(* cores store, through their own caches.                                  *)
(*                                                                         *)
(* A device is named by its index in the team, so that start + i * stride  *)
(* is left out: which word a device reads when the devices disagree on the *)
(* team is the subject of the team modules.                                *)
(***************************************************************************)
EXTENDS Integers

CONSTANTS
  NPes,         \* team->size: the devices of the team
  NVecs,        \* vec_size: the vector cores that run the kernel on a device
  KVal,         \* SHMEM_BARRIER_TG_DISSEM_KVAL, 8 in the code
  MaxBarriers   \* barriers each core performs (bounds the model)

ASSUME SizesAssumption ==
  /\ NPes \in Nat \ {0}
  /\ NVecs \in Nat \ {0}
  /\ KVal \in Nat \ {0}
  /\ MaxBarriers \in Nat

PEs == 0 .. NPes - 1
Vecs == 0 .. NVecs - 1

(* A vector core: its device and its index there. *)
Cores == PEs \X Vecs
Pe(c) == c[1]
Vec(c) == c[2]

Clean == -1     \* a cache without a dirty copy of the counter

VARIABLES
  pc,           \* where core c is in shmemi_barrier, "idle" outside it
  count,        \* the local variables of shmemi_barrier_npu_v3: the number
  i,            \* of the barrier and the device to look at next
  sync_array,   \* sync_array[p]: the word device p publishes
  sync_counter, \* sync_counter[p]: the counter in the memory of device p
  line,         \* line[c]: the counter in the data cache of c, when dirty
  done          \* history: how many barriers core c has completed

vars == <<pc, count, i, sync_array, sync_counter, line, done>>
locals == <<count, i>>
memory == <<sync_array, sync_counter, line>>

TypeOK ==
  /\ pc \in [Cores -> {"idle", "core1", "pull", "store", "core2"}]
  /\ count \in [Cores -> Nat]
  /\ i \in [Cores -> Nat]
  /\ \A c \in Cores : pc[c] = "pull" => i[c] \in PEs
  /\ sync_array \in [PEs -> Nat]
  /\ sync_counter \in [PEs -> Nat]
  /\ line \in [Cores -> Nat \cup {Clean}]
  /\ done \in [Cores -> Nat]

Init ==
  /\ pc = [c \in Cores |-> "idle"]
  /\ count = [c \in Cores |-> 0]
  /\ i = [c \in Cores |-> 0]
  /\ sync_array = [p \in PEs |-> 0]
  /\ sync_counter = [p \in PEs |-> 0]
  /\ line = [c \in Cores |-> Clean]
  /\ done = [c \in Cores |-> 0]

-----------------------------------------------------------------------------

(* How many core barriers core c has called: two in each shmemi_barrier. *)
CoreCalls(c) ==
  2 * done[c] + (CASE pc[c] = "idle" -> 0 [] pc[c] = "core2" -> 2 [] OTHER -> 1)

(* shmemi_barrier_core returns once all the cores of the device called it. *)
CoreBarrierOpen(c) ==
  \A v \in Vecs : CoreCalls(c) <= CoreCalls(<<Pe(c), v>>)

(* shmemi_barrier: a member of the team goes into the first core barrier. *)
Enter(c) ==
  /\ pc[c] = "idle"
  /\ done[c] < MaxBarriers
  /\ pc' = [pc EXCEPT ![c] = "core1"]
  /\ UNCHANGED <<locals, memory, done>>

(* shmemi_load of the counter: a hit on the core's own copy, or a miss. *)
LoadCounter(c) == IF line[c] # Clean THEN line[c] ELSE sync_counter[Pe(c)]

Smaller(a, b) == IF a < b THEN a ELSE b

(* Mutant: the stride forgets how many cores there are. *)
StrideUnclipped == Smaller(KVal, NPes)

(* k: how many cores share the devices among them. *)
Stride == Smaller(Smaller(KVal, NPes), NVecs)

(* Mutant: the loop runs one device too far. *)
LoopHeadInclusive(n) == IF n <= NPes THEN "pull" ELSE "store"

(* for (...; i < size; ...): another device, or on to the final store. *)
LoopHead(n) == IF n < NPes THEN "pull" ELSE "store"

(* Mutant: the first core barrier is skipped. *)
LoadAtOnce(c) ==
  /\ pc[c] = "core1"
  /\ count' = [count EXCEPT ![c] = LoadCounter(c) + 1]
  /\ i' = [i EXCEPT ![c] = Vec(c)]
  /\ pc' = [pc EXCEPT ![c] = LoopHead(Vec(c))]
  /\ UNCHANGED <<memory, done>>

(* Out of the first core barrier, which stays open once it is, and         *)
(* int32_t count = shmemi_load(sync_counter) + 1; int i = vec_id;          *)
Load(c) ==
  /\ pc[c] = "core1"
  /\ CoreBarrierOpen(c)
  /\ count' = [count EXCEPT ![c] = LoadCounter(c) + 1]
  /\ i' = [i EXCEPT ![c] = Vec(c)]
  /\ pc' = [pc EXCEPT ![c] = LoopHead(Vec(c))]
  /\ UNCHANGED <<memory, done>>

(* i += k *)
NextDevice(c) ==
  /\ i' = [i EXCEPT ![c] = @ + Stride]
  /\ pc' = [pc EXCEPT ![c] = LoopHead(i[c] + Stride)]

(* The core that reaches its own device publishes the number. *)
WriteLocal(c) ==
  /\ pc[c] = "pull"
  /\ i[c] = Pe(c)
  /\ sync_array' = [sync_array EXCEPT ![Pe(c)] = count[c]]
  /\ NextDevice(c)
  /\ UNCHANGED <<count, sync_counter, line, done>>

(* Mutant: the peer that is already in the next barrier is forgotten. *)
AcceptedExact(word, cnt) == word = cnt

(* shmemi_signal_wait_until_eq_for_barrier *)
Accepted(word, cnt) == word \in {cnt, cnt + 1}

(* The wait for the word of another device ends. *)
ReadRemote(c) ==
  /\ pc[c] = "pull"
  /\ i[c] # Pe(c)
  /\ Accepted(sync_array[i[c]], count[c])
  /\ NextDevice(c)
  /\ UNCHANGED <<count, memory, done>>

(* Mutant: the counter is cleaned to memory like the words are. *)
StoreThrough(c) ==
  /\ pc[c] = "store"
  /\ sync_counter' = [sync_counter EXCEPT ![Pe(c)] = count[c]]
  /\ line' = [line EXCEPT ![c] = Clean]
  /\ pc' = [pc EXCEPT ![c] = "core2"]
  /\ UNCHANGED <<locals, sync_array, done>>

(* shmemi_store(sync_counter, count), then into the second core barrier. *)
Store(c) ==
  /\ pc[c] = "store"
  /\ line' = [line EXCEPT ![c] = count[c]]
  /\ pc' = [pc EXCEPT ![c] = "core2"]
  /\ UNCHANGED <<locals, sync_array, sync_counter, done>>

(* Mutant: there is no second core barrier. *)
LeaveCore2AtOnce(c) ==
  /\ pc[c] = "core2"
  /\ pc' = [pc EXCEPT ![c] = "idle"]
  /\ done' = [done EXCEPT ![c] = @ + 1]
  /\ UNCHANGED <<locals, memory>>

LeaveCore2(c) ==
  /\ pc[c] = "core2"
  /\ CoreBarrierOpen(c)
  /\ pc' = [pc EXCEPT ![c] = "idle"]
  /\ done' = [done EXCEPT ![c] = @ + 1]
  /\ UNCHANGED <<locals, memory>>

(* A dirty copy of the counter reaches the device's memory. *)
WriteBack(c) ==
  /\ line[c] # Clean
  /\ sync_counter' = [sync_counter EXCEPT ![Pe(c)] = line[c]]
  /\ line' = [line EXCEPT ![c] = Clean]
  /\ UNCHANGED <<pc, locals, sync_array, done>>

(* shmem_quiet or shmem_fence between two barriers. *)
Quiet(c) == pc[c] = "idle" /\ WriteBack(c)

Finished ==
  /\ \A c \in Cores : pc[c] = "idle" /\ done[c] = MaxBarriers
  /\ UNCHANGED vars

Step(c) ==
  Load(c) \/ WriteLocal(c) \/ ReadRemote(c) \/ Store(c) \/ LeaveCore2(c)

Next ==
  \/ \E c \in Cores :
       \/ Enter(c) \/ Load(c) \/ WriteLocal(c) \/ ReadRemote(c) \/ Store(c)
       \/ LeaveCore2(c) \/ Quiet(c)
  \/ Finished

(* A core inside the barrier keeps running; calling it is the application's. *)
Fairness == \A c \in Cores : WF_vars(Step(c))

Spec == Init /\ [][Next]_vars /\ Fairness

(* The same cores when a cache may also write the dirty counter back on    *)
(* its own, to make room for another line, while its core is inside the    *)
(* barrier: nothing in the code prevents it.                               *)
Evict(c) == pc[c] # "idle" /\ WriteBack(c)

SpecEvict == Init /\ [][Next \/ \E c \in Cores : Evict(c)]_vars

-----------------------------------------------------------------------------

(* How many times core c has called the barrier. *)
Entered(c) == IF pc[c] = "idle" THEN done[c] ELSE done[c] + 1

(* No core of any device comes out of the n-th barrier before every core   *)
(* of every device has gone into its n-th.                                 *)
NoEarlyLeave == \A c, d \in Cores : done[c] <= Entered(d)

(* The cores of a device load the counter while others have already stored *)
(* its next value: each must still find the number of barriers it has      *)
(* completed.                                                              *)
CounterCurrent == \A c \in Cores : pc[c] = "core1" => LoadCounter(c) = done[c]

(* The word of a device that somebody has still to read is never past the  *)
(* two values the wait accepts.                                            *)
NoNumberLost ==
  \A c \in Cores : pc[c] = "pull" => sync_array[i[c]] <= count[c] + 1

(* A device publishes the number of a barrier only when all its cores are  *)
(* in that barrier, and withdraws it never: the word grows.                *)
PublishedTogether ==
  [][\A p \in PEs : sync_array'[p] # sync_array[p] =>
       /\ sync_array'[p] = sync_array[p] + 1
       /\ \A v \in Vecs : Entered(<<p, v>>) >= sync_array'[p]]_vars

(* How many core barriers core c has come out of. *)
CorePassed(c) == 2 * done[c] + IF pc[c] \in {"pull", "store", "core2"} THEN 1 ELSE 0

(* The core barriers of a device hold its cores together. *)
CoresTogether ==
  \A p \in PEs : \A u, v \in Vecs : CorePassed(<<p, u>>) <= CoreCalls(<<p, v>>)

(* The number a core carries through the loop is the number of the call. *)
CountIsCall ==
  \A c \in Cores : pc[c] \in {"pull", "store"} => count[c] = done[c] + 1

(* A dirty copy of the counter is the last number its own core stored. *)
LineIsLast ==
  \A c \in Cores :
    /\ pc[c] = "core2" => line[c] = done[c] + 1
    /\ pc[c] # "core2" /\ line[c] # Clean => line[c] = done[c]

(* Whoever is yet to load the counter finds its own number. *)
CounterReady ==
  \A c \in Cores : pc[c] \in {"idle", "core1"} => LoadCounter(c) = done[c]

(* A device publishes only what all its cores have called. *)
WordIsEntered ==
  \A p \in PEs : \A v \in Vecs : sync_array[p] <= Entered(<<p, v>>)

(* A device has published the barriers its cores have left, and the core   *)
(* whose share holds the device itself publishes on its way through it.    *)
WordPublished ==
  \A c \in Cores :
    /\ done[c] <= sync_array[Pe(c)]
    /\ /\ pc[c] \in {"pull", "store", "core2"}
       /\ Vec(c) = Pe(c) % Stride /\ Pe(c) < i[c]
       => done[c] < sync_array[Pe(c)]

(* The devices a core has looked at are those below i in its share, which  *)
(* are congruent to its index: all their cores are in this barrier.        *)
Looked ==
  \A c \in Cores : pc[c] \in {"pull", "store", "core2"} =>
    /\ pc[c] # "pull" => NPes <= i[c]
    /\ Vec(c) < Stride =>
         /\ i[c] % Stride = Vec(c)
         /\ \A d \in Cores :
              Pe(d) < i[c] /\ Pe(d) % Stride = Vec(c) => done[c] + 1 <= Entered(d)

(* The inductive invariant. *)
Inv ==
  /\ TypeOK
  /\ CoresTogether
  /\ CountIsCall
  /\ LineIsLast
  /\ CounterReady
  /\ WordIsEntered
  /\ WordPublished
  /\ Looked
  /\ NoEarlyLeave

(* Once every core of the team has called the barrier n times, every core  *)
(* gets out of the n-th call.                                              *)
EveryoneLeaves ==
  \A n \in 1 .. MaxBarriers :
    (\A c \in Cores : Entered(c) >= n) ~> (\A c \in Cores : done[c] >= n)

(* The composition implements the abstract barrier for the cores of all    *)
(* the devices: its initial states, and its steps or none at all.          *)
Abstract == INSTANCE Barrier WITH
  Parties <- Cores,
  entered <- [c \in Cores |-> Entered(c)],
  left <- done

ImplementsBarrier == Abstract!Init /\ [][Abstract!Next]_(Abstract!vars)
=============================================================================
