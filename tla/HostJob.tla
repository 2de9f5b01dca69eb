------------------------------ MODULE HostJob -------------------------------
(***************************************************************************)
(* The life of a job on the hosts: shmem_init_attr with the default        *)
(* backend, the collective allocations of the application, its run on the  *)
(* devices, which module Rma details, and shmem_finalize.                  *)
(*                                                                         *)
(* The PEs meet in collective calls of the bootstrap (MPI).  A PE enters   *)
(* its n-th one at the end of the step before and leaves it, once all have *)
(* entered their n-th, with the step after.  What a PE contributes to an   *)
(* allgather does not change before the others have left it.               *)
(*                                                                         *)
(* A step of a PE stands for the calls it makes between two of these, or   *)
(* for as many as fail or take effect together.  shmem_init_attr returns   *)
(* at the first error it sees.  Errors that the code drops let it go on.   *)
(***************************************************************************)
EXTENDS Integers, Sequences, FiniteSets

CONSTANTS
  NPes,         \* the PEs of the job
  HostOf,       \* the host that each PE runs on
  HeapSize,     \* g_state.heap_size
  Grain,        \* the grain of the allocator
  PoolSize,     \* SYNC_POOL_SIZE
  Requests,     \* the application's allocations, in order
  Fallible      \* PEs on which a call of a library may fail

PE == 0 .. NPes - 1
Cells == 0 .. HeapSize - 1
Transports == {"mte", "roce"}

Malloc(n) == [op |-> "malloc", n |-> n]
Calloc(m, n) == [op |-> "calloc", m |-> m, n |-> n]
Align(a, n) == [op |-> "align", a |-> a, n |-> n]
Free(k) == [op |-> "free", k |-> k]     \* of what call k returned

Calls == [op : {"malloc"}, n : Nat] \cup [op : {"calloc"}, m : Nat, n : Nat]
         \cup [op : {"align"}, a : Nat \ {0}, n : Nat] \cup [op : {"free"}, k : Nat \ {0}]

ASSUME JobAssumption ==
  /\ NPes \in Nat \ {0}
  /\ HeapSize \in Nat \ {0} /\ Grain \in Nat \ {0} /\ PoolSize \in 1 .. HeapSize
  /\ Requests \in Seq(Calls)
  /\ Fallible \subseteq PE

(* The allocator goes wrong at the first release after an aligned          *)
(* allocation (module MemoryHeap); here the application makes none.        *)
ASSUME NoFreeAfterAlign ==
  \A j, k \in 1 .. Len(Requests) :
    j < k /\ Requests[j].op = "align" => Requests[k].op # "free"

(* The application frees what a call before has returned (shmem_free in     *)
(* include/host/shmem_host_heap.h), and frees it once.                     *)
ASSUME FreedOnce ==
  \A j, k \in 1 .. Len(Requests) :
    Requests[j].op = "free" => Requests[j].k < j /\ (k # j => Requests[k] # Requests[j])

VARIABLES
  pc,           \* where the host of each PE is
  round,        \* the collective calls it has entered
  host,         \* the rest of its state
  faulty        \* history: the PEs on which a call of a library has failed

hostVars == <<pc, round, host, faulty>>

Block(o, s) == [offset |-> o, size |-> s]
Blocks == [offset : Nat, size : Nat \ {0}]
Null == -1                      \* a null pointer; others are offsets
Nothing == [p2p |-> {}, rdma |-> {}, topo |-> [q \in PE |-> {}]]
Stray == NPes                   \* a process id that is none of the job's

(* g_state and the objects behind it.  The sets of PEs stand for arrays    *)
(* with an entry for each.                                                 *)
Blank ==
  [boot |-> "none",             \* MPI: "none", "ours", "theirs", "over"
   device |-> FALSE,            \* device_id is the number of its device
   hash |-> {},                 \* host_hash: of its host, or none
   info |-> [q \in PE |-> {}],  \* pe_info: what each PE has for a hash
   registered |-> FALSE,        \* global_state_d: g_state has its device memory
   phys |-> FALSE,              \* the heap: allocated and mapped
   nic |-> FALSE,               \* rdma_manager: device open, heap registered
   peers |-> {},                \* aclrtDeviceEnablePeerAccess
   topo |-> [q \in PE |-> {}],  \* topo_list
   rdma |-> {},                 \* rdma_heap_base
   reserved |-> {},             \* peer_heap_base_p2p_, without the own one
   white |-> {},                \* processes that may import the heap
   imported |-> {}, mapped |-> {},
   p2p |-> {},                  \* p2p_heap_base
   created |-> FALSE, initialized |-> FALSE,
   team |-> FALSE,              \* the world team is on the device
   used |-> {},                 \* the allocator's used blocks
   dirt |-> Cells,              \* cells that nothing has cleared yet
   pool |-> Null,               \* sync_pool
   counters |-> 0,              \* cleared ones of the other sync areas
   ptr |-> <<>>,                \* what the application's calls returned
   ret |-> "none",              \* what shmem_init_attr returned
   dev |-> Nothing]             \* g_state as the device has it

HostInit ==
  /\ pc = [p \in PE |-> "init"]
  /\ round = [p \in PE |-> 0]
  /\ \E b \in {"none", "theirs"} : host = [p \in PE |-> [Blank EXCEPT !.boot = b]]
  /\ faulty = {}

-----------------------------------------------------------------------------

(* After its last allocation the application starts to work. *)
Onward(calls) == IF calls = Len(Requests) THEN "run" ELSE "app"

(* Host p goes on at place c, ... *)
Goto(p, c) == pc' = [pc EXCEPT ![p] = c] /\ UNCHANGED round

(* ... or enters a collective call and goes on after it; ... *)
Enter(p, c) == pc' = [pc EXCEPT ![p] = c] /\ round' = [round EXCEPT ![p] = @ + 1]

(* ... the call is over when all PEs have entered it. *)
Gathered(p) == \A q \in PE : round[q] >= round[p]

At(p, c) == pc[p] = c
Fine == UNCHANGED faulty

(* The calls whose result is dropped: they may fail on a fallible PE. *)
Dropped(p, good) ==
  \/ good /\ Fine
  \/ ~ good /\ p \in Fallible /\ faulty' = faulty \cup {p}

-----------------------------------------------------------------------------
(* shmem_init_attr.                                                        *)

(* The plugin starts MPI unless the application has, and then stops it. *)
shmemi_bootstrap_plugin_init(b) == IF b = "none" THEN "ours" ELSE b
shmemi_bootstrap_mpi_finalize(b) == IF b = "ours" THEN "over" ELSE b

(* check_attr and shmemi_bootstrap_init. *)
shmemi_bootstrap_init(p) ==
  /\ At(p, "init") /\ Goto(p, "state") /\ Fine
  /\ host' = [host EXCEPT ![p].boot = shmemi_bootstrap_plugin_init(@)]

(* The number of the device and the name of the host are looked up; where  *)
(* that fails the first is whatever was in its memory, perhaps the right   *)
(* number, and the hash is 0.  g_state gets the attributes, and the        *)
(* default stream is made.                                                 *)
shmemi_state_init_attr(p) ==
  /\ At(p, "state") /\ Goto(p, "device")
  /\ \E found, right, named \in BOOLEAN :
       /\ found => right
       /\ Dropped(p, found /\ named)
       /\ host' = [host EXCEPT ![p].device = right,
                               ![p].hash = IF named THEN {HostOf[p]} ELSE {}]

(* The constructor and the destructor of global_state_reigister. *)
global_state_reigister(h, good) == [h EXCEPT !.registered = good]
global_state_destroyed(h) == [h EXCEPT !.registered = FALSE, !.dev = Nothing]

(* init_device_state reports no error. *)
init_device_state(p) ==
  /\ At(p, "device") /\ Goto(p, "reserve")
  /\ \E good \in BOOLEAN :
       Dropped(p, good) /\ host' = [host EXCEPT ![p] = global_state_reigister(@, good)]

(* reserve_heap: an address, physical memory, the mapping. *)
reserve_heap(p) ==
  /\ At(p, "reserve") /\ Goto(p, "transport") /\ Fine
  /\ host' = [host EXCEPT ![p].phys = TRUE]

(* shmemi_transport_init up to the allgather of the PEs' hosts. *)
shmemi_transport_load(p) ==
  /\ At(p, "transport") /\ Enter(p, "open") /\ Fine
  /\ UNCHANGED host

(* shmemi_rdma_init drops the results of OpenDevice and                    *)
(* RegisterMemoryRegion; shmemi_rdma_finalize undoes what they did.        *)
shmemi_rdma_init(h, good) == [h EXCEPT !.nic = good]
shmemi_rdma_finalize(h) == [h EXCEPT !.nic = FALSE]

(* The rest. *)
shmemi_transport_init(p) ==
  LET h == [host[p] EXCEPT !.info = [q \in PE |-> host[q].hash]] IN
  /\ At(p, "open") /\ Gathered(p) /\ Goto(p, "map")
  /\ \E good \in BOOLEAN :
       Dropped(p, good) /\ host' = [host EXCEPT ![p] = shmemi_rdma_init(h, good)]

(* can_access_peer of the two transports. *)
shmemi_mte_can_access_peer(p, q) == host[p].info[q] = host[p].hash
shmemi_rdma_can_access_peer(p, q) == q # p

(* Of the gathered map each PE only reads its own row. *)
shmemi_build_transport_map(p) ==
  /\ At(p, "map") /\ Enter(p, "connect") /\ Fine
  /\ host' = [host EXCEPT ![p].topo = [q \in PE |->
       {t \in Transports : \/ t = "mte" /\ shmemi_mte_can_access_peer(p, q)
                           \/ t = "roce" /\ shmemi_rdma_can_access_peer(p, q)}]]

MtePeers(p) == {q \in PE \ {p} : "mte" \in host[p].topo[q]}

(* shmemi_transport_setup_connections: the peers' devices are enabled one  *)
(* by one up to the first that fails, which is dropped.  Then the PEs      *)
(* gather the addresses of their network devices, ...                      *)
shmemi_mte_connect_peers(p) ==
  /\ At(p, "connect") /\ Gathered(p) /\ Enter(p, "ips")
  /\ \E S \in SUBSET MtePeers(p) :
       /\ Dropped(p, S = MtePeers(p))
       /\ \A q \in S, r \in MtePeers(p) : r < q => r \in S
       /\ host' = [host EXCEPT ![p].peers = S]

(* ... meet, and gather their memory regions. *)
GatherIps(p) == At(p, "ips") /\ Gathered(p) /\ Enter(p, "mrs") /\ Fine /\ UNCHANGED host
GatherMrs(p) == At(p, "mrs") /\ Gathered(p) /\ Enter(p, "rdma") /\ Fine /\ UNCHANGED host

(* The bases are entered whatever the regions are worth, and the results   *)
(* of Prepare and Connect (module QpConnect) are dropped.                  *)
shmemi_rdma_connect_peers(p) ==
  /\ At(p, "rdma") /\ Gathered(p) /\ Goto(p, "setup")
  /\ \E good \in BOOLEAN :
       /\ Dropped(p, good)
       /\ host' = [host EXCEPT ![p].rdma = PE, ![p].nic = @ /\ good]

(* setup_heap: addresses for the peers' heaps, then export_memory and      *)
(* export_pid; import_pid gathers the process ids, ...                     *)
export_memory(p) ==
  /\ At(p, "setup") /\ Enter(p, "pids") /\ Fine
  /\ host' = [host EXCEPT ![p].reserved = MtePeers(p)]

(* Mutant: nobody is let in. *)
import_pid_forgotten(p) == At(p, "pids") /\ Gathered(p) /\ Enter(p, "handles") /\ Fine /\ UNCHANGED host

(* The list of the peers' process ids is passed with the length NPes - 1   *)
(* and is read past its end when not all PEs are peers.                    *)
Short(p) == host[p].reserved # PE \ {p}

(* ... lets the peers import the heap and import_memory gathers the        *)
(* handles, ...  What lies past the end of a short list is let in, or      *)
(* refused with an error, or the process dies of reading it.               *)
import_pid(p) ==
  /\ At(p, "pids") /\ Gathered(p) /\ Fine
  /\ \/ /\ Enter(p, "handles")
        /\ host' = [host EXCEPT ![p].white =
             host[p].reserved \cup (IF Short(p) THEN {Stray} ELSE {})]
     \/ /\ Short(p) /\ Goto(p, "failed")
        /\ \E r \in {"error", "none"} : host' = [host EXCEPT ![p].ret = r]

(* ... imports them, which the runtime refuses to those not on the         *)
(* owner's list and on other hosts, ...                                    *)
import_memory(p) ==
  /\ At(p, "handles") /\ Gathered(p) /\ Fine
  /\ IF \A q \in host[p].reserved : p \in host[q].white /\ HostOf[q] = HostOf[p]
     THEN /\ Goto(p, "mapping")
          /\ host' = [host EXCEPT ![p].imported = host[p].reserved]
     ELSE /\ Goto(p, "failed")
          /\ host' = [host EXCEPT ![p].ret = "error"]

(* ... and maps them; shmemi_init_default::setup_heap notes the bases. *)
BasesNoted(p, h) == [h EXCEPT !.p2p = h.reserved \cup {p}, !.created = TRUE]

setup_heap(p) ==
  /\ At(p, "mapping") /\ Goto(p, "team") /\ Fine
  /\ host' = [host EXCEPT ![p] = BasesNoted(p, [@ EXCEPT !.mapped = host[p].imported])]

(* What remove_heap and unreserve_heap leave of it. *)
heap_removed(h) == [h EXCEPT !.mapped = {}]
heap_unreserved(h) == [h EXCEPT !.reserved = {}, !.phys = FALSE]

-----------------------------------------------------------------------------
(* Collective allocation.  The allocator of module MemoryHeap keeps the    *)
(* idle memory in blocks as large as can be (its invariant, which holds    *)
(* under NoFreeAfterAlign), and hands out the smallest block that fits,    *)
(* the lowest of these first.                                              *)

AlignUp(n) == ((n + Grain - 1) \div Grain) * Grain

Idle(used) ==
  LET starts == {0} \cup {b.offset + b.size : b \in used}
      ends == {HeapSize} \cup {b.offset : b \in used} IN
  {g \in {Block(o, e - o) : o \in starts, e \in ends} :
     /\ 0 < g.size
     /\ \A b \in used : b.offset + b.size <= g.offset \/ g.offset + g.size <= b.offset}

Skip(g, a) == (a - (g.offset % a)) % a

Fitting(used, a, n) == {g \in Idle(used) : Skip(g, a) + AlignUp(n) <= g.size}

PowerOfTwo(a) == \E k \in 0 .. a : a = 2 ^ k

(* What the allocator returns for n bytes at a multiple of a. *)
Place(used, a, n) ==
  IF n \notin 1 .. HeapSize \/ ~ PowerOfTwo(a) \/ Fitting(used, a, n) = {} THEN Null
  ELSE LET g == CHOOSE g \in Fitting(used, a, n) : \A h \in Fitting(used, a, n) :
                  g.size < h.size \/ (g.size = h.size /\ g.offset <= h.offset) IN
       g.offset + Skip(g, a)

Taken(used, o, n) == IF o = Null THEN used ELSE used \cup {Block(o, AlignUp(n))}
Released(used, o) == {b \in used : b.offset # o}
Span(o, n) == IF o = Null THEN {} ELSE o .. o + n - 1

(* A new manager, with nothing in use. *)
memory_manager_initialize(h) == [h EXCEPT !.used = {}]

(* memory_manager_initialize and the first part of shmemi_team_init: the   *)
(* world team, and shmem_malloc of the sync pool, which ends in a barrier. *)
shmemi_team_init(p) ==
  LET h == memory_manager_initialize(host[p])
      o == Place(h.used, 1, PoolSize) IN
  /\ At(p, "team") /\ Enter(p, "pool") /\ Fine
  /\ host' = [host EXCEPT ![p] = [h EXCEPT
       !.team = TRUE, !.used = Taken(@, o, PoolSize), !.pool = o]]

(* The pool is cleared, ... *)
ClearPool(p) ==
  /\ At(p, "pool") /\ Gathered(p) /\ Fine
  /\ IF host[p].pool = Null
     THEN Goto(p, "failed") /\ host' = [host EXCEPT ![p].ret = "error"]
     ELSE /\ Goto(p, "counters")
          /\ host' = [host EXCEPT ![p].dirt = @ \ Span(host[p].pool, PoolSize)]

(* ... and three more areas are allocated and cleared.                     *)
SyncAreas(p) ==
  /\ At(p, "counters") /\ Goto(p, "sync") /\ Fine
  /\ host' = [host EXCEPT ![p].counters = 3]

(* The parts of g_state that the device uses. *)
Device(h) == [p2p |-> h.p2p, rdma |-> h.rdma, topo |-> h.topo]

(* update_device_state; without registered memory the copy fails, and the  *)
(* memory may be another device's.                                         *)
update_device_state(h) ==
  IF h.registered /\ h.device THEN [h EXCEPT !.dev = Device(h)] ELSE h

(* shmemi_sync_init, and the end of shmem_init_attr: the device learns     *)
(* g_state, and the PEs meet.                                              *)
Publish(p) ==
  /\ At(p, "sync") /\ Fine
  /\ LET h == [host[p] EXCEPT !.initialized = TRUE] IN
     IF h.registered
     THEN Enter(p, "final") /\ host' = [host EXCEPT ![p] = update_device_state(h)]
     ELSE Goto(p, "failed") /\ host' = [host EXCEPT ![p] = [h EXCEPT !.ret = "error"]]

(* Mutant: shmem_init_attr returns without the barrier at its end. *)
shmem_init_attr_returns_early(p) ==
  /\ At(p, "final") /\ Goto(p, Onward(0)) /\ Fine
  /\ host' = [host EXCEPT ![p].ret = "ok"]

shmem_init_attr_returns(p) ==
  /\ At(p, "final") /\ Gathered(p) /\ Goto(p, Onward(0)) /\ Fine
  /\ host' = [host EXCEPT ![p].ret = "ok"]

(* A call whose result is checked fails: shmem_init_attr returns at once.  *)
(* From the pool on shmemi_team_init frees what it has made.               *)
Checked == {"init", "state", "device", "reserve", "transport", "open", "setup", "pids",
            "handles", "mapping", "team", "pool", "counters", "sync"}
Collected == {"open", "pids", "handles", "pool"}

shmem_init_attr_fails(p) ==
  /\ p \in Fallible /\ pc[p] \in Checked
  /\ pc[p] \in Collected => Gathered(p)
  /\ Goto(p, "failed") /\ faulty' = faulty \cup {p}
  /\ host' = [host EXCEPT ![p].ret = "error",
       ![p].used = IF pc[p] \in {"pool", "counters"} THEN {} ELSE @,
       ![p].pool = IF pc[p] \in {"pool", "counters"} THEN Null ELSE @]

-----------------------------------------------------------------------------
(* The application's allocations.                                          *)

Made(p) == Len(host[p].ptr)
Request(p) == Requests[Made(p) + 1]
Asks(p, op) == At(p, "app") /\ Made(p) < Len(Requests) /\ Request(p).op = op

(* What PE p has once it is given n bytes at o. *)
Given(h, o, n) == [h EXCEPT !.used = Taken(@, o, n), !.ptr = Append(@, o)]

(* shmem_malloc and shmem_align: the block, then the barrier. *)
shmem_malloc(p) ==
  /\ Asks(p, "malloc") /\ Enter(p, "alloc") /\ Fine
  /\ host' = [host EXCEPT ![p] =
       Given(@, Place(host[p].used, 1, Request(p).n), Request(p).n)]

shmem_align(p) ==
  /\ Asks(p, "align") /\ Enter(p, "alloc") /\ Fine
  /\ host' = [host EXCEPT ![p] =
       Given(@, Place(host[p].used, Request(p).a, Request(p).n), Request(p).n)]

(* SHM_ASSERT_MULTIPLY_OVERFLOW *)
Overflows(m, n) == m = 0 \/ n = 0 \/ m > HeapSize \div n

(* shmem_calloc: an overflow returns before the barrier, ... *)
shmem_calloc_fails(p) ==
  /\ Asks(p, "calloc") /\ Overflows(Request(p).m, Request(p).n)
  /\ Goto(p, Onward(Made(p) + 1)) /\ Fine
  /\ host' = [host EXCEPT ![p].ptr = Append(@, Null)]

(* ... otherwise the block is cleared, for the size of one element, before *)
(* the barrier, or given back where clearing fails.                        *)
shmem_calloc(p) ==
  LET m == Request(p).m
      n == Request(p).n
      o == Place(host[p].used, 1, m * n)
      h == [host[p] EXCEPT !.dirt = @ \ Span(o, n)] IN
  /\ Asks(p, "calloc") /\ ~ Overflows(m, n) /\ Enter(p, "alloc")
  /\ \/ /\ Fine
        /\ host' = [host EXCEPT ![p] = Given(h, o, m * n)]
     \/ /\ o # Null /\ p \in Fallible /\ faulty' = faulty \cup {p}
        /\ host' = [host EXCEPT ![p].ptr = Append(@, Null)]

(* Mutant: an allocation ends in no barrier. *)
AllocationReturnsAtOnce(p) ==
  At(p, "alloc") /\ Goto(p, Onward(Made(p))) /\ Fine /\ UNCHANGED host

(* The barrier of an allocation is over. *)
AllocationReturns(p) ==
  At(p, "alloc") /\ Gathered(p) /\ Goto(p, Onward(Made(p))) /\ Fine /\ UNCHANGED host

(* shmem_free, of this PE's block only. *)
shmem_free(p) ==
  LET o == host[p].ptr[Request(p).k] IN
  /\ Asks(p, "free") /\ Goto(p, Onward(Made(p) + 1)) /\ Fine
  /\ host' = [host EXCEPT ![p].used = Released(@, o), ![p].ptr = Append(@, Null)]

(* The application meets before the job ends. *)
Done(p) == At(p, "run") /\ Enter(p, "done") /\ Fine /\ UNCHANGED host

-----------------------------------------------------------------------------
(* shmem_finalize.                                                         *)

(* shmemi_team_finalize: the world team goes, which the device is told,    *)
(* then the sync areas.                                                    *)
shmemi_team_finalize(p) ==
  LET h == update_device_state([host[p] EXCEPT !.team = FALSE]) IN
  /\ At(p, "done") /\ Gathered(p) /\ Goto(p, "unmap") /\ Fine
  /\ host' = [host EXCEPT ![p] = [h EXCEPT
       !.counters = 0, !.used = Released(@, h.pool), !.pool = Null]]

(* delete init_manager: finalize_device_state, remove_heap, release_heap, ... *)
release_heap(p) ==
  /\ At(p, "unmap") /\ Goto(p, "transports") /\ Fine
  /\ host' = [host EXCEPT ![p] =
       heap_unreserved(heap_removed(global_state_destroyed(@)))]

(* ... and transport_finalize, which closes the network device. *)
shmemi_transport_finalize(p) ==
  /\ At(p, "transports") /\ Goto(p, "boot") /\ Fine
  /\ host' = [host EXCEPT ![p] = shmemi_rdma_finalize(@)]

(* MPI is stopped by those who started it. *)
shmemi_bootstrap_finalize(p) ==
  /\ At(p, "boot") /\ Goto(p, "ended") /\ Fine
  /\ host' = [host EXCEPT ![p].boot = shmemi_bootstrap_mpi_finalize(@)]

-----------------------------------------------------------------------------

Initialises(p) ==
  \/ shmemi_bootstrap_init(p) \/ shmemi_state_init_attr(p) \/ init_device_state(p)
  \/ reserve_heap(p)
  \/ shmemi_transport_load(p) \/ shmemi_transport_init(p)
  \/ shmemi_build_transport_map(p) \/ shmemi_mte_connect_peers(p)
  \/ GatherIps(p) \/ GatherMrs(p) \/ shmemi_rdma_connect_peers(p)
  \/ export_memory(p) \/ import_pid(p) \/ import_memory(p) \/ setup_heap(p)
  \/ shmemi_team_init(p) \/ ClearPool(p) \/ SyncAreas(p) \/ Publish(p)
  \/ shmem_init_attr_returns(p) \/ shmem_init_attr_fails(p)

Allocates(p) ==
  \/ shmem_malloc(p) \/ shmem_align(p) \/ shmem_calloc_fails(p) \/ shmem_calloc(p) \/ AllocationReturns(p)
  \/ shmem_free(p)

Finalises(p) ==
  \/ shmemi_team_finalize(p) \/ release_heap(p) \/ shmemi_transport_finalize(p)
  \/ shmemi_bootstrap_finalize(p)

(* All but the run itself and its end. *)
HostStep(p) == Initialises(p) \/ Allocates(p) \/ Finalises(p)

HostNext == \E p \in PE : HostStep(p) \/ Done(p)
HostSpec == HostInit /\ [][HostNext]_hostVars

(* A host goes on as long as it can. *)
HostFairSpec == HostSpec /\ \A p \in PE : WF_hostVars(HostStep(p) \/ Done(p))

-----------------------------------------------------------------------------

Places == {"init", "state", "device", "reserve", "transport", "open", "map", "connect", "ips",
  "mrs", "rdma", "setup", "pids", "handles", "mapping", "team", "pool", "counters",
  "sync", "final", "app", "alloc", "run", "done", "unmap", "transports", "boot",
  "ended", "failed"}

Hashes == {{}} \cup {{HostOf[q]} : q \in PE}

Hosts ==
  [boot : {"none", "ours", "theirs", "over"}, device : BOOLEAN, hash : Hashes,
   info : [PE -> Hashes], registered : BOOLEAN, phys : BOOLEAN,
   nic : BOOLEAN, peers : SUBSET PE, topo : [PE -> SUBSET Transports],
   rdma : SUBSET PE, reserved : SUBSET PE, white : SUBSET (PE \cup {Stray}), imported : SUBSET PE,
   mapped : SUBSET PE, p2p : SUBSET PE, created : BOOLEAN, initialized : BOOLEAN,
   team : BOOLEAN, used : SUBSET Blocks, dirt : SUBSET Cells, pool : {Null} \cup Cells,
   counters : {0, 3}, ptr : Seq({Null} \cup Cells), ret : {"none", "ok", "error"},
   dev : [p2p : SUBSET PE, rdma : SUBSET PE, topo : [PE -> SUBSET Transports]]]

(* The type invariant. *)
HostTypeOK ==
  /\ pc \in [PE -> Places]
  /\ round \in [PE -> Nat]
  /\ host \in [PE -> Hosts]
  /\ faulty \subseteq PE

Running == {"app", "alloc", "run", "done"}

Near(q) == {r \in PE \ {q} : HostOf[r] = HostOf[q]}

(* What a peer may rely on from q as soon as its own init is through: the  *)
(* heap and the pool are there and clean, q has mapped only PEs of its     *)
(* host; and, as far as no call of q and of these has failed, all of them, *)
(* and its device knows its peers.                                         *)
Ready(q) ==
  /\ host[q].phys /\ host[q].registered /\ host[q].initialized
  /\ host[q].pool = Place({}, 1, PoolSize) /\ host[q].pool # Null
  /\ host[q].dirt \cap Span(host[q].pool, PoolSize) = {}
  /\ host[q].mapped \subseteq Near(q) /\ host[q].p2p = host[q].mapped \cup {q}
  /\ q \notin faulty => Near(q) \ faulty \subseteq host[q].mapped /\ host[q].dev = Device(host[q])

(* When shmem_init_attr returns success on one PE all PEs are ready, up to *)
(* the meeting before their finalisation, even if calls whose results are  *)
(* dropped have failed.                                                    *)
InitMeansReady ==
  \A p, q \in PE :
    pc[p] \in Running => \/ pc[q] \in Running \cup {"final"} /\ Ready(q)
                         \/ pc[p] = "done" /\ pc[q] \in {"unmap", "transports", "boot", "ended"}

(* Once a PE has left an allocation the others have the same block at the  *)
(* same address, until they free it, unless the device runtime has failed. *)
Kept(k) == \A j \in 1 .. Len(Requests) : Requests[j] # Free(k)
Left(p, k) == pc[p] \in Running /\ k \in 1 .. Len(host[p].ptr)
              /\ (k = Len(host[p].ptr) => pc[p] # "alloc")

AllocatedEverywhere ==
  faulty = {} => \A p, q \in PE, k \in 1 .. Len(Requests) :
    Left(p, k) /\ Requests[k].op # "free" /\ pc[q] \in Running
    /\ host[p].ptr[k] # Null =>
      LET o == host[p].ptr[k] IN
      /\ k <= Len(host[q].ptr) /\ host[q].ptr[k] = o
      /\ Kept(k) => \E b \in host[q].used : b.offset = o

(* What shmem_calloc returns has been cleared, all of it, as the comment   *)
(* at include/host/shmem_host_heap.h:30 says.                              *)
CallocClears ==
  \A p \in PE, k \in 1 .. Len(Requests) :
    Left(p, k) /\ Requests[k].op = "calloc" =>
      Span(host[p].ptr[k], Requests[k].m * Requests[k].n) \cap host[p].dirt = {}

(* import_pid lets in the processes that are connected peers, as its       *)
(* comments at src/host/mem/shmemi_heap.cpp:70 and 76 say, and no other.   *)
OnlyPeersListed == \A p \in PE : host[p].white \subseteq MtePeers(p)

(* shmem_init_attr returns an error when a call that it makes has failed,  *)
(* as include/host/shmem_host_init.h:70 says.                              *)
ErrorsReported ==
  [][\A p \in PE : host[p].ret = "none" /\ host'[p].ret = "ok" => p \notin faulty]_hostVars

(* shmem_init_attr returns, as its header says, and in a time that its     *)
(* attributes set (include/host/shmem_host_init.h:52), whatever happens to *)
(* the other PEs.                                                          *)
InitReturns == \A p \in PE : <>(host[p].ret # "none")

(* If no call of a library fails every PE initialises with success and     *)
(* finalises.                                                              *)
JobEnds ==
  \/ <>(faulty # {})
  \/ \A p \in PE : <>(pc[p] = "ended" /\ host[p].ret = "ok")
=============================================================================
