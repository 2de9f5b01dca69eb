----------------------------- MODULE CoreBarrier -----------------------------
(***************************************************************************)
(* shmemi_barrier_core_soft: the dissemination barrier between the vector  *)
(* cores of one device (level 1 of shmemi_barrier), used by kernels that   *)
(* cannot call the hardware's SyncAll.                                     *)
(*                                                                         *)
(* Global memory holds one counter, shared by all the cores, and for each  *)
(* core one flag per round.  A flag is written with a store followed by    *)
(* the cleaning of its cache line, and read after invalidating the line:   *)
(* it behaves like a shared register.  The counter is read and written     *)
(* with plain accesses through the core's own data cache, which nothing    *)
(* keeps coherent with the other caches: a core that stored it goes on     *)
(* reading its own copy until the line is written back.                    *)
(*                                                                         *)
(* The loop tracks offset = log2(shift) to find the flag of a round; here  *)
(* a flag is named by its core and the round's shift.                      *)
(***************************************************************************)
EXTENDS Integers

CONSTANTS
  NCores,       \* AscendC::GetBlockNum()
  MaxBarriers   \* barriers each core performs (bounds the model)

Cores  == 0 .. NCores - 1

(* SHMEM_LOG_MAX_AIV_PER_NPU = 6 flags per core, for offset 0 to 5. *)
Shifts == {1, 2, 4, 8, 16, 32}

(* The six flags of a core serve at most 2^6 cores. *)
ASSUME NCoresAssumption == NCores \in 1 .. 64
ASSUME MaxBarriersAssumption == MaxBarriers \in Nat

(* A cache without a dirty copy of the counter.  A clean copy, filled by   *)
(* the load, is overwritten by the same call's store before it could be    *)
(* read again: the dirty copies are all there is to tell apart.            *)
Clean == -1

VARIABLES
  pc,           \* where core c is in the function, "idle" outside it
  count,        \* the function's local variables
  shift,
  sync_array,   \* sync_array[c][s]: the flag of core c for the round of shift s
  sync_counter, \* the counter in global memory
  line,         \* line[c]: the counter in the data cache of c, when dirty
  done          \* history: how many barriers core c has completed

vars == <<pc, count, shift, sync_array, sync_counter, line, done>>
locals == <<count, shift>>
memory == <<sync_array, sync_counter, line>>

TypeOK ==
  /\ pc \in [Cores -> {"idle", "signal", "wait", "store"}]
  /\ count \in [Cores -> Nat]
  /\ shift \in [Cores -> Nat]
  /\ \A c \in Cores : pc[c] \in {"signal", "wait"} =>
       shift[c] \in Shifts /\ shift[c] < NCores
  /\ sync_array \in [Cores -> [Shifts -> Nat]]
  /\ sync_counter \in Nat
  /\ line \in [Cores -> Nat \cup {Clean}]
  /\ done \in [Cores -> Nat]

(* The buffers are allocated and zeroed by shmemi_team_init. *)
Init ==
  /\ pc = [c \in Cores |-> "idle"]
  /\ count = [c \in Cores |-> 0]
  /\ shift = [c \in Cores |-> 1]
  /\ sync_array = [c \in Cores |-> [s \in Shifts |-> 0]]
  /\ sync_counter = 0
  /\ line = [c \in Cores |-> Clean]
  /\ done = [c \in Cores |-> 0]

-----------------------------------------------------------------------------

(* shmemi_load of the counter: a hit on the core's own copy, or a miss. *)
LoadCounter(c) == IF line[c] # Clean THEN line[c] ELSE sync_counter

(* Mutant: the loop stops one round early. *)
LoopHeadShort(s) == IF 2 * s < NCores THEN "signal" ELSE "store"

(* while (shift < size): another round, or on to the final store. *)
LoopHead(s) == IF s < NCores THEN "signal" ELSE "store"

(* int count = shmemi_load(sync_counter) + 1; int shift = 1; *)
Enter(c) ==
  /\ pc[c] = "idle"
  /\ done[c] < MaxBarriers
  /\ count' = [count EXCEPT ![c] = LoadCounter(c) + 1]
  /\ shift' = [shift EXCEPT ![c] = 1]
  /\ pc' = [pc EXCEPT ![c] = LoopHead(1)]
  /\ UNCHANGED <<memory, done>>

(* Mutant: every round signals the immediate neighbour. *)
NextCoreNear(c, s) == (c + 1) % NCores

(* int next = (idx + shift) % size; *)
NextCore(c, s) == (c + s) % NCores

(* shmemi_signal_set of the successor's flag for this round. *)
Signal(c) ==
  /\ pc[c] = "signal"
  /\ sync_array' = [sync_array EXCEPT ![NextCore(c, shift[c])][shift[c]] = count[c]]
  /\ pc' = [pc EXCEPT ![c] = "wait"]
  /\ UNCHANGED <<locals, sync_counter, line, done>>

(* Mutant: the peer that is already in the next barrier is forgotten. *)
AcceptedExact(flag, cnt) == flag = cnt

(* Mutant: the flag is tested like a boolean. *)
AcceptedRaised(flag, cnt) == flag # 0

(* shmemi_signal_wait_until_eq_for_barrier: this barrier's number, or the  *)
(* next one's in case the peer has already entered it.                     *)
Accepted(flag, cnt) == flag \in {cnt, cnt + 1}

(* Mutant: the distance is not doubled exactly. *)
WaitOddShift(c) ==
  /\ pc[c] = "wait"
  /\ Accepted(sync_array[c][shift[c]], count[c])
  /\ shift' = [shift EXCEPT ![c] = 2 * @ + 1]
  /\ pc' = [pc EXCEPT ![c] = LoopHead(shift'[c])]
  /\ UNCHANGED <<count, memory, done>>

(* The wait ends; shift *= SHIFT_MULTIPLIER and back to the loop's head. *)
Wait(c) ==
  /\ pc[c] = "wait"
  /\ Accepted(sync_array[c][shift[c]], count[c])
  /\ shift' = [shift EXCEPT ![c] = 2 * @]
  /\ pc' = [pc EXCEPT ![c] = LoopHead(shift'[c])]
  /\ UNCHANGED <<count, memory, done>>

(* shmemi_store(sync_counter, count): into this core's cache only. *)
Store(c) ==
  /\ pc[c] = "store"
  /\ line' = [line EXCEPT ![c] = count[c]]
  /\ done' = [done EXCEPT ![c] = @ + 1]
  /\ pc' = [pc EXCEPT ![c] = "idle"]
  /\ UNCHANGED <<locals, sync_array, sync_counter>>

(* Mutant: the line is invalidated without being cleaned. *)
WriteBackDropped(c) ==
  /\ line[c] # Clean
  /\ line' = [line EXCEPT ![c] = Clean]
  /\ UNCHANGED <<pc, locals, sync_array, sync_counter, done>>

(* A dirty copy of the counter reaches global memory. *)
WriteBack(c) ==
  /\ line[c] # Clean
  /\ sync_counter' = line[c]
  /\ line' = [line EXCEPT ![c] = Clean]
  /\ UNCHANGED <<pc, locals, sync_array, done>>

(* shmem_quiet or shmem_fence between two barriers: dcci_entire_cache. *)
Quiet(c) == pc[c] = "idle" /\ WriteBack(c)

(* Every core has performed its barriers: the kernel ends. *)
Finished ==
  /\ \A c \in Cores : pc[c] = "idle" /\ done[c] = MaxBarriers
  /\ UNCHANGED vars

Step(c) == Signal(c) \/ Wait(c) \/ Store(c)

Next ==
  \/ \E c \in Cores : Enter(c) \/ Signal(c) \/ Wait(c) \/ Store(c) \/ Quiet(c)
  \/ Finished

(* A core inside the function runs on its own hardware; the application is *)
(* not obliged to call the barrier, nor to call quiet.                     *)
Fairness == \A c \in Cores : WF_vars(Step(c))

Spec == Init /\ [][Next]_vars /\ Fairness

-----------------------------------------------------------------------------

(* How many times core c has called the barrier. *)
Entered(c) == IF pc[c] = "idle" THEN done[c] ELSE done[c] + 1

(* No core comes out of its n-th barrier before every core of the device   *)
(* has gone into its n-th: what the rounds' chain of flags is for.         *)
NoEarlyLeave == \A c, d \in Cores : done[c] <= Entered(d)

(* Although the counter lives in unsynchronised caches, a core that is     *)
(* about to load it always finds the number of barriers it has completed,  *)
(* in its own copy or in what some other core wrote back.                  *)
CounterCurrent == \A c \in Cores : pc[c] = "idle" => LoadCounter(c) = done[c]

(* A flag that is being waited for is never overwritten past the two       *)
(* values the wait accepts: a signal cannot be lost to the next barrier.   *)
NoSignalLost ==
  \A c \in Cores : pc[c] = "wait" => sync_array[c][shift[c]] <= count[c] + 1

(* How far core d is behind core c, going round the ring of cores. *)
Behind(d, c) == IF d <= c THEN c - d ELSE c - d + NCores

(* The number a core carries through a call is the number of the call. *)
CountIsCall == \A c \in Cores : pc[c] # "idle" => count[c] = done[c] + 1

(* A dirty copy of the counter is the number its own core completed. *)
LineIsDone == \A c \in Cores : line[c] # Clean => line[c] = done[c]

(* A flag of round s carries the news of the s cores whose calls its       *)
(* writer had heard of: those at distance s to 2s - 1 behind the owner.    *)
FlagKnows ==
  \A c, d \in Cores : \A s \in Shifts :
    Behind(d, c) \in s .. 2 * s - 1 => sync_array[c][s] <= Entered(d)

(* Inside the loop a core has heard of the calls of the shift cores behind *)
(* it, itself included; when the loop ends these are all the cores.        *)
Heard ==
  \A c \in Cores :
    /\ pc[c] # "idle" =>
         \A d \in Cores : Behind(d, c) < shift[c] => count[c] <= Entered(d)
    /\ pc[c] = "store" => NCores <= shift[c]

(* The inductive invariant. *)
Inv ==
  /\ TypeOK
  /\ CountIsCall
  /\ LineIsDone
  /\ CounterCurrent
  /\ FlagKnows
  /\ Heard
  /\ NoEarlyLeave

(* Once every core has called the barrier n times, every core gets out of  *)
(* the n-th call.                                                          *)
EveryoneLeaves ==
  \A n \in 1 .. MaxBarriers :
    (\A c \in Cores : Entered(c) >= n) ~> (\A c \in Cores : done[c] >= n)

(* The algorithm implements the abstract barrier: a call enters with the   *)
(* load of the counter and returns with the store of it.                   *)
Abstract == INSTANCE Barrier WITH
  Parties <- Cores,
  entered <- [c \in Cores |-> Entered(c)],
  left <- done

ImplementsBarrier == Abstract!Spec

(* Its safety part: the initial states and the steps. *)
AbstractSafety == Abstract!Init /\ [][Abstract!Next]_(Abstract!vars)
=============================================================================
