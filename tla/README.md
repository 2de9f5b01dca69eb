# A formal model of the SHMEM library

SHMEM gives the processing elements (PEs) of a job, one Ascend device each, a
symmetric heap that the vector cores of every device can read and write. The
modules of this directory model the parts of it whose correctness depends on
the order in which several actors act, or on long sequences of calls; TLC
checks them on small instances and the TLA+ proof system proves their safety
for every value of the constants.

`PROJECT.json` lists the components, the runs, the mutants that show that each
property can fail, the lines of the source each definition stands for, the
hazards and the theorems.

## 1. Inventory

The library has a host half (C++, one process per PE) and a device half
(headers compiled into the application's kernels). They share one structure,
`shmemi_device_host_state_t`, which the host fills and copies to the device.

| component | state it keeps | operations | hard behaviour | what makes it correct |
|---|---|---|---|---|
| barrier between the cores of a device (`sync/shmemi_device_barrier.h`) | a flag per core and round, one counter per device, the cores' data caches | `shmemi_barrier_core_soft` | cores in two successive barriers at once; a counter in caches that are not coherent | nobody leaves before all have entered; no signal is lost; all get out |
| barrier between devices (same file) | per team: a word and a counter on each device | `shmemi_barrier`, `shmemi_barrier_npu_v3` | two levels of barriers; cores share out the remote words; a counter every core loads and stores | the same, for all cores of all devices |
| signals, waits, quiet, fence (`sync/shmemi_device_p2p.h`, `shmemi_device_quiet.h`) | words in the symmetric heap | set, add, wait until, quiet | cache maintenance around each access | a wait sees what was set |
| memory heap (`mem/shmem_mm.cpp`) | idle blocks by address and by size, used blocks by address | `allocate`, `aligned_allocate`, `release` | two trees that must agree after any sequence of calls | blocks never overlap, no byte is lost, a request is refused only when there is no room |
| collective allocation (same file) | one heap per PE | `shmem_malloc`, `shmem_calloc`, `shmem_align`, `shmem_free` | a failure or an early return on one PE while the others go on | the same call returns the same offset everywhere |
| teams (`team/shmem_team.cpp`) | per PE: a pool of 32 teams and a mask, their copies on the device | split, 2-D split, translate, destroy | each PE numbers its teams by itself; nested splits | the members agree on who is a member and on the words they synchronise with |
| RoCE queues (`low_level/shmem_device_low_level_roce.h`) | head and tail of a ring of requests and of completions per peer | post, poll | ring full, index wrap, error completions, several cores on one ring | no request is overwritten before the device has completed it |
| RDMA connections (`rdma/device_qp_manager.cpp`) | sockets and queue pairs per peer, as server for larger ranks and client of smaller | `Startup`, `Shutdown` | phases of different ranks that wait for one another; timeouts | every pair of ranks gets its queue pairs, or an error is reported |
| transports (`transport/`, `modules/transport/`) | which peers each transport reaches, a bit set per peer | load, exchange hosts, build the table, connect, finalize | results that are dropped | a copy goes by a transport that leads to its peer |
| initialisation (`init/`) | flags, backends, everything above | `shmem_init_attr`, `shmem_finalize` | a step that fails on one PE while the others are in a collective call | success on one PE means that all are ready |
| mapping of the heap (`mem/shmemi_heap.cpp`) | reservations, handles, white lists, mappings | reserve, setup, remove, unreserve | four exchanges with the peers in between; taken down without any | nobody reads a heap that is not mapped, or not any more |
| bootstrap (`bootstrap/`) | MPI communicator | `barrier`, `allgather` | everyone waits for everyone | external collective operations |
| state shared by host and device (`mem/shmemi_global_state.cpp`) | one structure and its copy on the device | set, copy at fixed moments | a copy that fails or is stale | the device knows what the host has set up |
| device remote memory access (`shmem_device_rma.h`, `shmem_device_low_level_rma.h`) | a copy buffer in the unified buffer, event flags | get, put, put with signal in some thirty forms, p, g | two copy pipes, a scalar unit and a network device that run freely | data arrives whole, and before its signal |
| host remote memory access (`mem/shmem_rma.cpp`) | a stream of kernels | the same as kernels of one call | returns before the kernel has run | the same |
| vendor library loader (`rdma/dl_hccp_api.cpp`) | function pointers | load | a failure that is dropped | no call before the load |
| host barrier entry points, logging, Python binding | | | | |

The parts interact like this. `shmem_init_attr` builds the symmetric heap, the
transports and the allocator, and then calls `shmemi_team_init`, which takes
the sync pool from the symmetric heap with `shmem_malloc` (so that a team's
words have the same address on every PE), and the counters from device memory,
and zeroes them: this is the initial state of both barriers. A team
split stores a team structure whose index selects the words and the counter
the barrier uses. `shmemi_barrier` calls the core barrier, the barrier between
devices and the core barrier again. The collective allocation calls end with
the bootstrap's barrier. The device's puts and gets use the heap's mapping, or
the RoCE queues of the pairs that the connection manager set up: the table of
transports, which the host gathers and copies to the device, says which.

`hazards` in `PROJECT.json` names 40 places where this can go wrong without a
test noticing; a hazard that no property covers says why.

## 2. Modules and their relation to the code

| module | models | state | actions |
|---|---|---|---|
| `Barrier` | what a reusable barrier promises | calls made and calls returned, per party | `Enter`, `Leave` |
| `CoreBarrier` | `shmemi_barrier_core_soft`, `shmemi_signal_set`, `shmemi_signal_wait_until_eq_for_barrier`, the cache effect of `shmemi_quiet` | program counter and locals of each core, its flags, the counter in memory, the dirty copies in the caches | `Enter` (load), `Signal`, `Wait`, `Store`, `Quiet` |
| `NpuBarrier` | `shmemi_barrier` with `shmemi_barrier_npu_v3` on every core of every device | the same per core; a word and a counter per device | `Enter`, `Load`, `WriteLocal`, `ReadRemote`, `Store`, `LeaveCore2`, `Quiet`; `Evict` in `SpecEvict` |
| `MemoryHeap` | `memory_heap::allocate`, `aligned_allocate`, `release` | the three trees as sets of blocks, and the phase of the history | `Allocate`, `AlignedAllocate`, `Release` |
| `Team` | `shmem_team_split_strided`, `shmem_team_split_2d`, `shmem_team_translate_pe`, `shmem_team_destroy` | per PE: mask, pool, table of device pointers and the device's copy of it; the application's calls and their answers | `SplitStrided`, `Split2d`, `Destroy` of one PE, within `Makes` |
| `RoceQueue` | `shmemi_rdma_post_send`, `shmemi_roce_poll_cq`, `shmemi_roce_quiet` towards one peer, and the NIC | head and tails, the two rings, the NIC, program counter and locals of each core; what was posted and executed | `PostBegin`, `WriteEntry`, `RingDoorbell`, `StoreHead`, `QuietBegin`, `PollEntry`, `PollEnd`; `Execute` of the NIC |
| `QpConnect` | `rdma_manager` from `LoadLibrary` and `OpenDevice` to `Prepare`, `DeviceQpManager::Startup` and `Shutdown`, on every rank | what each rank has got hold of, where it is, the minutes of its present wait, server sockets, channels, sockets, queue pairs and their status | `LoadLibrary`, `RaRdevGetHandle`, `OpenTsd`, `RaInit`, `RetireDeviceIp`, `RaRdevInit`, `OpenDevice`, `RegisterMemoryRegion`, `Prepare`, `Listen`, `Allow`, `GetSockets`, `LoseSockets`, `CreateQps`, `CreateSome`, `QpsReady`, `QpsLost`, `Dial`, `TimeOut`, `Shutdown` of one rank; `Tick` |
| `HostJob` | `shmem_init_attr` and `shmem_finalize` with all they call, and the collective allocations, on every PE | where each host is, how many collective calls it has entered, `g_state` and the objects behind it | one per call or group of calls between two collective ones, from `shmemi_bootstrap_init` to `shmemi_bootstrap_finalize`; `shmem_init_attr_fails`; `shmem_malloc`, `shmem_calloc`, `shmem_align`, `shmem_free` |
| `Rma` | the calls of the device and of the host that copy, signal, wait and test, over `HostJob` | kernels posted and running, the instructions left, the two copy pipes, event flags, requests of the network device, every heap and unified buffer | `StartKernel`, `StartCall`, `IssueToPipe`, `IssuePost`, `WriteWord`, `ReadWord`, `Proceed` of a core; `Mte2Step`, `Mte3Step`, `NicStep`; `HostPosts`, `shmem_g_host`, `shmem_mte_set_ub_params`, `Synchronize` of a host |

`CoreBarrierProofs`, `NpuBarrierProofs`, `MemoryHeapProofs`,
`TeamProofs`, `RoceQueueProofs`, `QpConnectProofs`, `JobProofs` (about `Rma`
with the `HostJob` in it) and `DataProofs` (the same, on what the heaps hold) extend
these with the theorems. `MCRma` gives `Rma` a job to run, `MCHostJob` gives one to `HostJob`.

**Memory and caches.** Flags and words are written with a store followed by
the cleaning of their cache line, and read after the line is invalidated: the
models treat them as shared registers. The counters are read and written by
`shmemi_load` and `shmemi_store`, plain accesses through a core's own cache:
`line[c]` is the dirty copy in the cache of core c, and what others see is
`sync_counter`. A clean copy need not be modelled, since it is overwritten by
the same call that made it. A dirty copy reaches memory when its core calls
`shmem_quiet` or `shmem_fence`, which clean the whole cache; the application
may do so whenever it is not inside a barrier.

One assumption is hidden in the code: that the cache does not write a dirty
counter back *by itself* while other cores of the device are still in the same
barrier. `Spec` makes it, and everything is proved under it. `SpecEvict` drops
it, and the run `npu_barrier_evict` shows what then happens (section 3).

**Composition.** `NpuBarrier` uses the core barrier through what `Barrier`
promises: a core gets out of its n-th core barrier once all cores of its
device have called it n times (`CoreBarrierOpen`). `CoreBarrier` is shown to
implement exactly that; the hardware's `SyncAll`, which mixed kernels use in
its place, is taken to. The step out of the first core barrier and the load of
the counter are one action: once a barrier is open it stays open, so the
separate return would add no behaviour. The second one is its own action, the
return to the caller.

A device is named by its index in the team, and all devices are members that
agree on the team. When members agree is the subject of `Team`.

**The heap.** A `std::map` from offsets is a set of blocks with one block per
offset, and `emplace` keeps the old block (`Emplace`). The set by size is
ordered by size, then offset; `Fitting` and `FittingAt` are the blocks the two
searches would accept and `IsFirst` the one they stop at. A spin lock is held
over each operation, so that each is one step. Requests that return null or
an error change nothing and have no action: `RefusedOnlyIfFull` speaks of
them. The requests that are refused by the first test of their arguments
(zero, larger than the heap, an alignment that is not a power of two) are not
enumerated.

`release` reads through iterators it has just erased. The model reads the
elements before they are erased, as every build does in which the freed node
still holds its contents; in the language this is undefined.

`aligned_allocate` leaves the block it splits in the map by address (the
finding of section 3). Until something is freed this does no harm, because
the map is only asked whether an offset exists. The variable `history` tells
the phases: `plain` as long as `aligned_allocate` has not been called,
`aligned` up to the first release after it, `mixed` from then on. The promises
of the allocator are stated for the first two phases, which between them
contain every sequence of `shmem_malloc`, `shmem_calloc` and `shmem_free`
without `shmem_align`, and all that happens before the damage with it.

**Teams.** The calls are collective but nothing is exchanged in them: every PE
decides by itself whether it is a member and which index the team gets. The
application is therefore a list of calls (`program`), which each PE makes in
turn with its own handles, and what could go wrong is that the PEs come to
different results. `Splits` is `shmem_team_split_strided` up to the decision
who joins, `Creations` what a member then does, with the outcomes when the mask
is full or the device runtime fails; `Split2d` makes the splits of `Rows` and
then those of `Columns`. The two loops of the code call
`shmem_team_split_strided` for every row and column; the calls in which the PE
does not join change nothing and are left out, and that exactly one is left on
each axis is `GridCovers`. A failure of the device runtime may be that of the
allocation, of the copy of the team or of the copy of the state: all of them
end in `shmem_team_destroy`, whose own update of the device may fail as well.
A pointer to a team's copy on the device is represented by the copy, so that
`device` may be stale but its pointers do not dangle: a device may follow the
pointer of a team that was destroyed when the update failed, which the
application has no reason to do.

`Straight` restricts the applications of `Spec` to splits of the world and of
teams of its first PEs, in which a PE's number is its global rank, and `InParent`
to splits that ask for PEs of the parent. The code needs both (sections 3 and
5). The calls of the code that ask about a team read one field and have no
operator. The application does not destroy the world team and destroys a team
once.

**RoCE queues.** A core writes an entry of the send ring, rings the doorbell
and stores the head; the NIC takes the entries in order, from the index it
executed last to the one the doorbell gave it, and answers each in the
completion ring, whose owner bit changes with every pass. What an entry says
is the number of the request. Heads and tails are words of `Wrap` values, the
doorbell carries the head modulo `DbWrap`, the rings are indexed modulo
`Depth`: the code's 2^32, 65536 and 8192 (`SEND_CQ_DEPTH`, `MAX_SEND_WR`), with
the owner bit of a request in bit 13 (`OwnerPeriod`). The ring counts as full
10 entries (`Margin`) before its end, and then 100 completions (`Batch`) are
polled. The words are written through and read after an invalidation, so they
are shared registers. The NIC is external. It may fail at any request
(`Faulty`), and after the first failure it fails all later ones, as a queue
pair in error does; the promises hold until then (`nic.broken`). `posted`,
`mine` and `delivered` are history variables.

A core that has come out of a quiet is at `"quiet"` until its next call. Two
steps of the code are joined where a single core cannot tell the difference:
the reads at the beginning of a call with the test for a full ring, and the
two stores of the tails at the end of a poll. With two cores that leaves out
interleavings, which the run that has two (it is refuted) does not need.

**QpConnect.** First each rank opens its device by itself: the library is
loaded, the handle of the device taken over from a process that has it open, or
else made anew, and the heap registered. The results of these calls are dropped
by `shmemi_rdma_init` and `OpenDevice`. `has` says what a rank got in the end, and
what it does without: a call through a function of a library that was not
loaded kills the process, one through the uninitialised `qpManager_` (line 443
of `rdma_manager.h`) may do so or not (`Wild`), and MPI then ends the others
(`Killed`). The allgathers and the barrier at the beginning of
`shmemi_rdma_connect_peers` make the ranks begin `Prepare` together (`Met`). The
network library (HCCP) is external. A socket between two ranks exists once the server listens on
the port clients know, has put the client on its white list and the client has
asked for the connection; an end of a queue pair counts from the call that
connects it, and both ends are connected when both exist. Calls may fail on the
ranks of `Faulty`, each call at any time; `broke` records that one has. Time
advances by minutes (`Tick`), and only when every rank has ended or is waiting
for what is not there: the steps themselves take no time against a minute. A
wait that reaches its limit may have seen what it waits for at the last moment,
so `TimeOut` does not exclude it. `Shutdown` is called when all ranks have
ended, whether well or not: `shmemi_transport_setup_connections` drops the
result, and later steps of the initialisation pass barriers before anything is
finalized. The checks at the beginning of `Startup` cannot fail when it is
called once from `Prepare`. What `FillQpInfo` writes is abstracted to whether it
has written (`table`).

**HostJob.** PEs communicate on the host by collective calls only, the
bootstrap's barrier and allgathers. A PE enters its n-th with the step before
(`Enter`) and leaves it with the step after, when all have entered their n-th
(`Gathered`). That one PE's n-th call is the same as another's, with its own
arguments in it, is not assumed: the model lets any two meet, and
`InitMeansReady`, `WorkEnds` and `JobEnds` would not hold if they did not fit. What a PE
contributes is read from its state when others leave the call; it does not
change in between, which the model shows for the white lists, the one
contribution that a wrong order would break. A step stands for the
calls between two collective ones, or for as many as fail or take effect
together. On a PE of `Fallible` a call may fail. Where the code checks the result,
`shmem_init_attr` returns (`shmem_init_attr_fails`), leaving behind what it has
built; where it drops it (`Dropped`: looking up the device and the host,
registering the state's memory, enabling the peers, opening the network device,
connecting) the host goes on. A failed lookup leaves the number of the device
uninitialised, so that it is any value, or the host's hash 0: the tables that
tell which peers MTE reaches are built from the hashes (`info`), and a PE may
then count as foreign to its own host, or as a neighbour of a PE elsewhere whose
own lookup failed. The runtime refuses to import the heap of another host.
`Hosts` is `g_state` and the objects behind it; an array with an entry for each
PE is a set of PEs where only "has one" matters.

`import_pid` passes the number of all other PEs as the length of a list that
holds only those that MTE reaches (`shmemi_heap.cpp`, line 83). Where these are
not the same (`Short`) the runtime reads past the end of the list: the model lets
in a process that is none of the job's (`Stray`), or has the runtime report an
error, or the process die. None of these is a failure of a library, so
`faulty` stays as it is, and nothing that is said about jobs without failures
may rely on the call: a PE of several hosts need not get through its
initialisation.

The allocator is the function `Place`, computed from the used blocks: the
smallest idle stretch that fits, the lowest of these. `MemoryHeap` shows that
idle blocks are such stretches (its `Inv`) as long as nothing is released after
an aligned allocation, which the application therefore does not do
(`NoFreeAfterAlign`).

**Rma.** A call of the device becomes a list of instructions, which the scalar
unit issues in order: copies and event flags go to the pipes MTE2 (into the
unified buffer) and MTE3 (out of it), requests to the network device, and all
of these run at their own speed. `SetFlag` is an instruction of the pipe it
is named after first and `WaitFlag` of the other: `TypeOK` has it that none is
set twice, and none left over at the end of a kernel. A copy is one step; that
the bytes of a copy arrive one by one is below what the properties see, since
a reader must wait for an event, a drain or a signal anyway. Access to a word
with the cache maintenance around it is one step too. `shmemi_quiet` waits for
both pipes (`drain`) and not for the network device. A run of instructions for one
pipe is issued in one step: as a pipe may lag as far as it likes behind the scalar
unit, a part of a run lets it do nothing that the whole does not. The copies within a heap
have cells of a size the program chooses (`c.sz`); the contents of a cell say
whose it was.

The macros of the source make the same functions for every type: one operator
stands for all of these. Its argument `c` is the record of what the call is
given. The contiguous tensor forms with a signal do not set the length of their
buffer (they store it in `logicPos`, lines 806, 870, 962 and 1026): the length is
`c.stale`, whatever it was. The host's calls are `Kernel`s of one device call on
the default stream, in which kernels run one after the other. Calls without
`_nbi` are posted in the same way: the application waits (`Synchronize`).

`ideal` is the memory if each call took effect at once when it begins
(`Ideally`, from what a call is for: `CopyOf`, `Copies`, `Announces`), and
`promise` the words that announce data, with the cells of the data:
both are history variables and the yardstick of `Delivered` and
`SignalAfterData`. A copy from heap to heap leaves remains in the unified
buffer which no call means to be there: in `ideal` these cells are `Spoilt`.

What an application may call is in the code only as what goes wrong otherwise, and is
stated as assumptions about `Programs`, which TLC evaluates in `job`.
`ProgramAssumption`: the forms that take `shmem_ptr` whatever the table of transports
says name a PE of the same host (`shmem_ptr` adds the offset to the peer's base
without asking, and only peers of the host are mapped), and a buffer has room for
one element (the code divides by the number it has room for).
`OrderAssumption`: between two copies of a kernel through the buffer there is a call
that drains the pipes (`Draining`), because the copies leave the last
synchronisation to the caller. Kernels of the repository also do that with flags of
their own (`gm_mem_kernel.cpp`, line 46), which are not among the calls of `Rma`.
`ArgumentAssumption`: addresses, lengths and values are numbers, the rows of a strided
copy do not overlap, and where they lie in the unified buffer they begin at whole
units of it (the code divides their distance by the unit and drops the rest).

Two conditions are about executions and not about the text of programs, and so
are state predicates. `Careful`: when a call begins, no copy, no write and no read
that conflicts with it is under way on any PE (`Meets`; words that are only added to
may be added to at the same time, and a wait may look at a word that is being
written); the ranges of one call do not overlap, in the heap, and lie in memory; what a call takes
out of the unified buffer has been put there by one; and the host does not read a
word that is about to be written. `Telling`: a signal changes its word, by setting
it to another value or adding something positive, and cells that have been announced are
written again only by a call that announces them again by the same word.
`Synchronised` is both. The code demands neither anywhere, and a program that breaks them gets
what the pipes make of it. They are what a data-race-free program of
OpenSHMEM is, in the terms of this model.

The application leaves its run when its own work is done, and meets the others
before it finalises (`Done`): `shmem_finalize` itself has no barrier, and
`AccessBacked` fails without this one. After a call whose result was dropped has
failed it is left with nothing to do, because then the copies may go nowhere.

## 3. Runs

| run | bounds | checks | states |
|---|---|---|---|
| `core_barrier` | 5 cores, 2 barriers each | `TypeOK`, `NoEarlyLeave`, `CounterCurrent`, `NoSignalLost`, `EveryoneLeaves`, `ImplementsBarrier` | 142,097 |
| `npu_barrier` | 3 devices of 2 cores, 2 barriers each | `TypeOK`, `NoEarlyLeave`, `CounterCurrent`, `NoNumberLost`, `PublishedTogether`, `EveryoneLeaves`, `ImplementsBarrier` | 300,216 |
| `npu_barrier_evict` | 2 devices of 2 cores, 2 barriers | `NoEarlyLeave`, violated | |
| `heap` | 15 bytes in grains of 2, alignments up to 8 | `TypeOK`, `BlocksApart`, `NothingLost`, `RefusedOnlyIfFull` | 10,006 |
| `heap_align` | 96 bytes in grains of 16, alignments up to 16 | `NeverOverlap`, violated | |
| `team` | 3 PEs, 3 indices, 3 calls, device runtime of PE 1 may fail | `TypeOK`, `TeamsInStep`, `MembersAgree`, `GridsShareIndex`, `GridCovers`, `RoundTrip` | 173,183 |
| `team_nested` | 3 PEs, 3 indices, 2 calls | `MembersAgree`, violated | |
| `roce` | 1 core, rings of 4, words of 16 values, 20 requests, the NIC may fail | `TypeOK`, `EntriesIntact`, `CompletionsKept`, `QuietCompletes`, `PollsReturn` | 34,589 |
| `roce_cores` | 2 cores, 3 requests, the NIC does not fail | `QuietCompletes`, violated | |
| `qp_connect` | 2 ranks, waits of 2 minutes and 1 minute, calls may fail on both, the library too | `TypeOK`, `ReadyMeansConnected`, `StartupReturns`, `EveryoneConnects` | 2,110 |
| `qp_three` | 3 ranks, the same waits, no call fails | `ReadyMeansConnected`, violated | |
| `job` | 3 PEs on 2 hosts, heap of 24 cells, 6 allocations, 34 programs, calls may fail on PE 0 | `TypeOK`, `InitMeansReady`, `AllocatedEverywhere`, `AccessBacked`, `Synchronised`, `Delivered`, `SignalAfterData`, `WorkEnds` | 79,390 |

**core_barrier.** Five cores need three rounds, with distances 1, 2 and 4, and
as five is no power of two the last round's news overlap the earlier ones':
the case in which a wrong distance or a missing round would show. Two barriers
let a fast core be in the second while a slow one is in the first, which is
the furthest apart two cores can be; a third would repeat the pattern with
larger numbers. The run shows that the algorithm implements `Barrier`, with
its fairness, under any placement of `quiet` between barriers. Deadlock is
checked: the only state without a step of a core is the end (`Finished`).

**npu_barrier.** Three devices shared out among two cores: core 0 looks after
two devices and core 1 after one, so that on some devices the core that
publishes is not the core that waits longest, and `Stride` is the number of
cores; `KVal` is the code's 8. Deadlock is checked.

**npu_barrier_evict.** With `Evict` TLC finds a run in which the fast core of a
device stores the next number, its cache writes it back, and the slow core of
the same device, still to load the counter, takes that number for its own. It
publishes, or waits for, the number of the next barrier, and cores come out of
a barrier that others have not entered. The number is right as long as no core's
store reaches memory before all its siblings have loaded. `dcci` and the
stores of the flags do not write the line back; whether the hardware may is
not said anywhere in the code. Deadlock is not checked here: the cores may
stop for good, which is another face of the same violation.

**heap.** The size 15 is not a multiple of the grain: the last block ends in a
byte that can never be used on its own. Seven grains admit up to seven blocks
with idle ones between them, alignments 1, 2, 4 and 8 with skips of 2, 4 and 6,
merges on either side, on both and on none. The constraint `NotMixed` makes
TLC go on only from states before the damage; the invariants are checked in
the first mixed states too, where only `TypeOK` still says something. The
heap never deadlocks: something can be allocated or released in every state.

**heap_align.** The real grain of 16 and a heap of 96 bytes. `malloc(16)`,
`align(16, 16)`, freeing the first and `malloc(80)` return 80 bytes that
contain the aligned block: the release merged with a block that
`aligned_allocate` had left in `address_idle_tree_`.

**team.** Three calls are what it takes to create, destroy and create again, or
to run out of indices: with two besides the world's a 2-D split takes all of
them. The arguments of the splits range over all starts, strides and sizes up
to three, most of which are refused, and the grids over widths up to four,
wider than the world. On PE 1 each creation and each update of the device may
fail: it then lacks a team the others have, is `missed` from then on and still
has to keep its own indices and its device right. With the world split by grids
only, members agree on the index as well (`GridsShareIndex`); strided splits
that leave PEs out end that, since those keep a lower index free. The only
state without another step is the end of the application (`Finished`).

**team_nested.** When the application splits the team {1, 2} at its first PE,
with size 1, it is PE 2 that becomes a member: the code takes its number in
the parent, 1, for its global rank. Its team says it consists of PE 1.

**roce.** Rings of four entries, full at three, with batches of two, so that a
full ring still has a request under way after a poll. Twenty requests go round
the rings five times, through the owner bit both ways, twice round the
doorbell's eight values and once round the sixteen of the words. Quiet may be
called at any moment between posts. Deadlock is not checked: after a failure
of the NIC a poll may wait for a completion that never comes, because the tails
were not stored (line 145) and later calls take the ring for something it is
not. The code promises nothing then, and the properties say "until the NIC
fails". `PollsReturn` is the one about progress: a core that finds the ring
full waits for a number of completions, and there must be as many requests
under way.

**roce_cores.** Head and tail are in memory that all cores of the device use,
and nothing excludes two cores from one queue pair. TLC finds both reading the
same head; the second entry overwrites the first, the NIC executes one
request, and quiet returns to the core whose request was lost. An application
must give each peer to one core, which no comment says.

**qp_connect.** Two ranks are one server and one client, with the code's own
limits of two minutes and one. Every call may fail on either side at every
point, in combination with every outcome of the other's waits, so the run
covers a rank that waits for one that has given up, one that goes on without
the library or the queue pair manager, and one that dies of that.
`StartupReturns` needs the timeouts. `ReadyMeansConnected` and `EveryoneConnects` say what holds when no
call fails; after a failure a server may report connections it does not have,
for the reason the next run shows.

**qp_three.** A rank in the middle is server first and client second. Rank 0
waits for the socket of rank 1, which it dials as a client only; rank 1 is in
its server phase and waits for rank 2 to create its second queue pair; rank 2
is in its client phase and waits for rank 0 to create its first. Only time gets
them out: the wait of rank 1 for queue pairs ends after a minute, its error is
overwritten with success at line 269, it dials, and the others go on. Rank 1
then reports that all is ready with a queue pair of the host that it never saw
connected.

**job.** PEs 0 and 1 share a host and PE 2 is on another: there is a peer for
each transport, and one for none but RoCE. The initialisation is run in every
interleaving of the three hosts, and on PE 0 with a failure of any call between
the collective ones, of those whose result is checked and of those whose result
is dropped, the lookups of device and host among them. What is not made to fail
are the host's own memory, MPI and the calls of `shmem_finalize`.
With two hosts every PE's list of peers is short, so that on any of the three
`import_pid` may go wrong as well.
Deadlock is not checked because of the former: after `shmem_init_attr` has failed
on PE 0 the others wait in the next collective call. `InitMeansReady` says that
they do not return success, and that all are ready where they do, as far as no dropped
call has failed (`Ready`). The allocations take a block, free it and reuse
its place while a slower PE may not have freed its own, call `shmem_calloc` with
an overflow, which must not meet the others in its barrier, and with a failure
on PE 0. The 34 programs then call each form of each operation of the device
and of the host at least once: contiguous copies of one to four blocks with
and without a rest (the buffer has four cells, three after
`shmem_mte_set_ub_params`), elements of one cell and of two, strided rows with
gaps on either side, both transports, a copy that does not fit the unified
buffer, signals by set and add with every comparison, and PEs that forward what
a signal announced, also when the same cells are announced twice. All pipes and
the network device run freely: `Delivered` fails if
one wait between the pipes is left out, `SignalAfterData` without the drain
before a signal. Programs, not single calls, are enumerated, because one that
has no synchronisation between two copies is the application's mistake.
`Synchronised` says that none of these programs makes it, in any interleaving:
the hypothesis of the theorems about `Delivered` and `SignalAfterData` is met by
programs that use every form of every call. It is not a matter of the programs
alone. They rely on quiet, on the RoCE quiet, on the waits and on the signals, and
it is broken as soon as one of these lets a core go on too early.
`WorkEnds` says that once `shmem_init_attr` has returned success on all PEs every program
comes to its end, whatever it waits for, and every PE finalises, if no call of
a library fails. It begins there because before that the short lists may stop
any PE.

**Configurations that refute.** Six more configurations are not among the runs. Each
checks one sentence that the repository says of itself, which follows from no
interplay but from one line, and which the code does not keep; TLC finds the
violation in seconds (`tlc -config HostJobCalloc.cfg MCHostJob` and so on).

| configuration | module | bounds | refutes |
|---|---|---|---|
| `HostJobCalloc.cfg` | `MCHostJob` | 1 PE, no failures | `CallocClears`: "The memory is set to zero." (`shmem_host_heap.h`, line 30); of two elements only the first is cleared (`shmem_mm.cpp`, line 308), in a block that the application has used before |
| `HostJobTwoHosts.cfg` | `MCHostJob` | 3 PEs on 2 hosts, no failures | `OnlyPeersListed`: "Add Pid into white list", of peers that are "p2p connected" (`shmemi_heap.cpp`, lines 70 and 76); the length passed at line 83 is that of all other PEs |
| `HostJobDropped.cfg` | `MCHostJob` | 2 PEs, failures on PE 0 | `ErrorsReported`: "Returns 0 on success or an error code on failure" (`shmem_host_init.h`, line 70); the PE without a host name returns 0 |
| `HostJobWaits.cfg` | `MCHostJob` | 2 PEs, failures on PE 0 | `InitReturns`: the same line, and the timeout of line 52; where the other PE has failed, this one waits for ever |
| `RmaSynchronous.cfg` | `MCRma` | 2 PEs, no failures, a put and a get of one host | `SynchronousDone`: "Synchronous interface." (`shmem_host_rma.h`, line 48); the put is still in the stream when the get copies |
| `QpConnectDies.cfg` | `QpConnect` | 2 ranks, failures on rank 0 | `NobodyCrashes`: line 70 of `shmem_host_init.h` again; without the network library the rank dies of a null pointer (`rdma_manager.h`, line 61) |

A seventh, `HostJob.cfg`, passes: on one host, where the lists are as long as
they should be, three PEs get through their initialisation, a few
allocations and their end, whatever the interleaving, as long as no call
fails (`JobEnds`, 37,426 states). `import_pid_forgotten` of `HostJob` breaks it: a white list
that stays empty.

**Fairness.** A core inside a barrier runs on hardware of its own: it
eventually takes its next step if that stays possible (`WF_vars(Step(c))`).
Entering a barrier and calling quiet are the application's and are not fair;
`EveryoneLeaves` therefore speaks only of barriers that all have entered. The
heap and the teams have no liveness: their operations return at once. A core
that has begun to post or to poll goes on in the same way, and the NIC takes
the requests it was told of (`WF_vars(Execute)`), well or not: a NIC that
stops answering at all is outside what the code can deal with, since it has no
timeout ("reserved for timeout check", line 135). A rank that connects goes on
when it can (`WF_vars(Step(r))`) and time passes (`WF_vars(Tick)`); failures of
calls (`Break`) are not fair, so nothing depends on one. In `Rma` every host, core,
pipe and network device is a process or a piece of hardware of its own that goes
on while it can, and each has its own weak fairness; collective calls return
once all have entered them, which is MPI's promise. `HostStep` contains the steps
that fail, so that fairness of it forces no failure and excludes none.

**Bounds.** `MaxBarriers` bounds the calls of each core in a run, by a guard
of `Enter`. It is a constant of the proofs, which hold for every value of it.
Numbers of barriers are unbounded integers; the `int32_t` of the code
overflows after 2^31 - 1 barriers of a team, which is listed as a hazard and
not modelled. `MaxRequests` bounds the requests in a run of `RoceQueue`, by a
guard of `PostBegin`, and is a constant of its proofs. In `Rma` the programs, the
sizes of the heap and of the unified buffer bound the run; they are constants of
the proofs in `JobProofs` and `DataProofs`, which hold for all of them.

**Mutants.** Each property of a passing run has a mutant: a definition with a
plausible bug (a loop one round short, a wrong neighbour, a flag tested like a
boolean, a second core barrier left out, a remainder forgotten) that TLC
refutes with the run's own configuration.

## 4. Theorems

All proofs hold for every value of the constants: any number of cores up to
the 64 the six flags serve (`NCoresAssumption`), any team size, number of
cores per device and `KVal` (`SizesAssumption`), any heap, grain and largest
alignment (`HeapAssumption`: they are positive integers), any rings whose
depth, doubled, divides the ranges of the words and of the doorbell
(`QueueAssumption`, which the code's numbers meet), any number of PEs on any
hosts with any heap, grain and list of allocations (`JobAssumption`), any
number of ranks and any limits of their waits (`QpAssumption`), up to 1024 PEs with
any number of team indices and of calls (`TeamAssumption`). A job frees each block once
and after the call that returned it (`FreedOnce`), none after an aligned allocation
(`NoFreeAfterAlign`), and runs any programs that keep to `ProgramAssumption` and, for
`FlagsInTurn` and the two theorems after it, to `OrderAssumption` and `ArgumentAssumption`.

**Core barrier.** `TypeCorrect`, `CoreBarrierSafe` (`NoEarlyLeave`),
`CounterIsCurrent`, `SignalsAreNotLost`, `CoreBarrierRefines` (initial states
and steps of `Barrier`). `NoEarlyLeave` is not inductive: it says nothing of
the flags. `Inv` adds what a flag proves. A flag of the round with distance s
is written by the core s behind its owner, after that core has heard of the s
cores behind itself: its number is therefore a lower bound for the calls of
the cores at distances s to 2s - 1 behind the owner (`FlagKnows`). A core that
has reached distance s has heard of all cores less than s behind it (`Heard`),
and at the end of the loop s is at least the number of cores. Going round the
ring is `Behind`, and its arithmetic is in the lemmas. The counter is current
because a dirty copy always holds its owner's own number (`LineIsDone`) and
somebody's write-back is the number everybody has completed when they load.

**Barrier between devices.** `TypeCorrect`, `NpuBarrierSafe`,
`CounterIsCurrent`, `NumbersAreNotLost`, `NumbersGrowTogether`
(`PublishedTogether`), `NpuBarrierRefines` (`ImplementsBarrier`). The
invariant adds that the core barriers keep a device's cores within one core
barrier of each other (`CoresTogether`), that a published number has been
entered by all cores of its device (`WordIsEntered`) and is not behind what
its cores have left (`WordPublished`), and that a core has heard of the
devices in its share below `i` (`Looked`). At the second core barrier the
shares of a device's cores together are all devices: the residues modulo
`Stride`, of which there are no more than cores. That is where the clipping of
the stride by the number of cores is needed.

**Heap.** `TypeCorrect`, `HeapSafe` (`BlocksApart`), `NothingIsLost`,
`RefusesOnlyWhenFull`, with the lemmas on `AlignUp` and `HeadSkip`. `Inv` says
that used blocks and blocks by size are apart and fill the heap, that no two
idle blocks touch, and that the map by address knows every block by size, and
no other while `history` is `plain`. That no two idle blocks touch is what
makes `RefusedOnlyIfFull` true: a free stretch then lies in a single block.

**Teams.** All six invariants of the run `team`, under `Spec` (the application
splits straight teams): `TypeCorrect`, `TeamsStayInStep` (`TeamsInStep`, which is
`IndicesInUse` and `DeviceKnows`), `TranslateInverts` (`RoundTrip`), `TeamsAgree` (`MembersAgree`), and, on fewer PEs than
`SHMEM_MAX_RANKS`, `GridsCover` (`GridCovers`) and `GridsAtSameIndex`
(`GridsShareIndex`). There are three invariants, each within the next.

* `Inductive` is about one PE at a time. `IndexOK` says that its mask is exactly the
  indices of the teams alive on it (`Lives`), no two at one index, and `Sound` that
  its tables lead to its pool. A destruction then takes away one team's index and
  nothing else, because the application has destroyed that team only once and
  after the call that made it (`ProgramOK`, `Earlier`).
* `Agreement` says what each structure is: the child, by a split of which the PE is
  part, of a straight parent (`ShapeOK`), and that a PE that missed nothing has
  each team it is entitled to (`Complete`). No PE knows anything of another;
  they agree because `Shape` is a function of the program and of the PE's rank, and
  because the number a split gives to one member is the one every other member
  counts (`SameChild`). For grids it needs that rows and columns lie in the parent
  (`RowInside`, `ColumnInside`), no PE in two (`GridOnce`).
* `Sharing` adds that each index given out by a 2-D split is the first one free after
  the answers before it (`FollowsAt`), so that PEs whose answers agree up to a
  call agree on that call (`SameNext`). That every PE takes part in every grid
  (`MineIsOne`) is what keeps their masks equal.

**RoCE queues.** `TypeCorrect` holds for any number of cores. Under `OneCore`
(the queue pair is used by one core) `EntriesIntactCorrect`,
`CompletionsKeptCorrect` and `QuietCompletesCorrect` say that the three
invariants hold for rings of every size and every number of requests. The
invariant (`InvCorrect`) names the true numbers behind the words: `posted` for
the head, a number n for the tails, m and e for a poll's current index and its
end, each the word modulo `Wrap`. Between n, the NIC's number and `posted`
there is at most a ring less the margin, which makes the test for a full ring
exact (`FullIsExact`) and words that are equal stand for equal numbers
(`WordsApart`). `Completions` says what the completion ring holds for the
indices n to n + Depth - 1: a good completion of this pass where the NIC has
been, the opposite owner bit where it has not. The bit works because indices a
ring apart are in passes of different parity (`NextPass`, from `OtherHalf`),
and because wrapping a word does not change the parity (`WrappedIndex`), which
is where twice the depth must divide 2^32. After the NIC has failed the
invariant says no more than the types.

**Job.** `JobInvariant`, `HostTypeCorrect` and `InitReady` (`InitMeansReady`). What a
PE may rely on when `shmem_init_attr` returns concerns the *other* PEs, and the
only thing that it knows of them is that they entered the same number of
collective calls. `JobInv` therefore ties that number to places: `Counted` says
how many collective calls a PE at each place has entered (in the application nine
and one for each allocation so far that ends in a barrier, `Barriers`), `Built`
what it has set up there, and `Allowed` that a PE that is past the
initialisation, or the run, knows that all have entered the last collective
call of it. A PE that has failed has entered at most eight, and so nobody gets
past the ninth. The counting needs that the calls of the application that
return before the barrier do so on every PE (`Overflows`), and that a block in use
lies in the heap (`InHeap`, `PlaceInHeap`), which is where the allocator's
arithmetic comes in. What the mapping of a PE needs from the others (that they let
it import their heap) is a guard of the step, so the safety part does not
need it; that it is met on one host is part of `JobEnds`.

Which PEs those are is what `NamesInv` (`NamesInvariant`) is about: a PE on which nothing has failed
has found its device and its host, what a PE has gathered of the others is what
they have (`LearntInv`), and programs run only where all have found both (`FoundInv`). `Ready` follows
for any failures: only heaps of the same host are mapped, because the runtime imports no
other, and those of two PEs of a host without failures are.

**Allocations.** `AllocatedAlike` (`AllocatedEverywhere`), from `AllocInvariant`. That two
PEs have the same block at the same place is no fact about two PEs: nothing is
exchanged, each allocator decides alone. `AllocInv` therefore says of each one that
it keeps the `Ledger`: the blocks in use are those its answers so far say (`UsedAfter`),
and each answer is the one `Place` gives after those before it (`Answer`). Both are
functions of the list of allocations, so that PEs with answers to the same calls have
the same answers (an induction over the calls, by the least one that differs), and
`Accounted` says, from the number of collective calls entered, that a PE which has left
an allocation finds all others past it. That a block is still there when its owner
has not freed it needs `FreedOnce`, and that two live blocks are never at one place
(`PlaceApart`, `PlaceDistinct`).

**Copies.** `CopiesBacked` (`AccessBacked`), from `RmaInvariant` and `NetInvariant`. `Wired` says
that what is left of the programs consists of calls they contain, that every
instruction in the code of a call or in a pipe leads only to heaps of the same
host (`Fits`, for every call of `Code`: `CodeFits`), and that only a PE at its run has
anything under way. `Registered` says what its network device has by then. Together
with `JobInv` that is enough: a PE at its run has not been through the barrier before
`shmem_finalize`, so nobody has taken anything down (`RunReady`).

`FlagsInTurn` (`TypeOK` of `Rma`) is about the event flags. Its bounds are not inductive,
because they say nothing of what is still in the pipes. `FlagsOf` counts: a flag is what
one pipe and the present call have still to wait for, less what the other pipe and
the call have still to set (`Owed`). Further, read from any place on, each
pipe followed by the rest of the call sets and waits in turn (`Steady`): what is
left of it sets a flag as often as it waits for its counterpart, or once more. Both
flags and the two bounds follow by arithmetic (`FlagsBound`). The calls establish
this: every form is a `Passage` from flags down to flags down, in loops of any
number of blocks (`BlockwisePasses`) as well as strided ones, or does not touch flags
(`CodeApt`). A call with flags may begin only when the pipes have nothing left of
the last one (`FlagsStart`), which `Behind` ensures: while something is under way a
drain is between it and the next such call. The lemmas on sequences count
occurrences from a place on (`Times`) and avoid induction over data by taking
a least counterexample.

**Data.** `CarefulDelivered` is `Spec => ([]Careful => []Delivered)` and
`SynchronisedSignals` is `Spec => ([]Synchronised => []SignalAfterData)`: for every job and every
program, with copies, rows, elements, buffers and blocks of every size, on pipes and network
devices that lag as far as they like. `Careful` and `Telling` are about the moment
a call begins; the two conclusions are about all that happens afterwards, which is where
the library could go wrong.

The proof looks at the instructions that are under way on a PE (`UnderWay`: in the code
of its call, its pipes, its network device), wherever they are, because issuing them
changes nothing that matters. `DataInv` says of them all (`Underway`):

* `Structured`: each is of the right form, in the heap or the buffer of its own PE (`Placed`), and
  at most one of a PE writes a word.
* `Parted`: what one writes in a heap no other reads, and no two write one word
  except by adding to it. Careful gives this when a call begins.
* `Owing`: what an instruction has still to write is in its source already, as `ideal`
  has it; for a store out of the buffer it is in the buffer, or in the heap, if a load
  that feeds it (`Feeds`) is still to come.
* `InTurn`: a load overwrites nothing in the buffer that a store has still to fetch. This is
  about order only, and the order of two pipes is given by the flags: each load and
  each store carries the number of sets and waits that are still behind it, and the
  numbers say which of them comes first (`Clash`). `FlagInv`, the invariant of
  `FlagsInTurn`, is what makes a step of one pipe respect it.
* `Settled`: a cell that nothing under way writes any more is as `ideal` has it, up to
  what is still to be added to it (`Totals`); a cell of the buffer may also be `Spoilt`.

When nothing is under way `Settled` is `Delivered`. A step that executes an instruction
pays what it owed (`LoadGoes`, `StoreGoes`, `OneGoes`, `WordGoes`); one that begins a call adds its
instructions (`CallGoes`), and there it must be shown that they do what the call is for
(`Does`): that copying block by block with a rest copies each cell once
and to its place (`Relays`, `Chunk`, by division with remainder), that rows go
through whole units of the buffer and come out as they were meant (`Carries`), that
whatever leaves the unified buffer is left out on both sides. `ShapeInv` says that
memories are functions of their cells.

`TellInv` adds for each announcement that whatever copy of its cells is under way is a
store of a call that has still to drain and, after that, to write the word to another
value than it has (`Announced`, `Announcing`), that what is still to be added is positive (`Upwards`), and that
no two PEs set the same word (`Apart`). If the word has the value it is to have, no such call is under way, nor
anything to be added; so the cells are settled.

**Connections.** `TypeCorrect` for any number of ranks, and `PairConnects`
(`ReadyMeansConnected`) for two; for three it is false. `PairInv` says that unless a
call has failed the two ranks are `Underway` or both have started (`Over`). Under
way each rank is `Along`: its place determines its sockets, which ends of queue
pairs it has created and what it has got hold of, an end is connected exactly if
both exist, and no minute passes (`waited[r] = 0`), since with two ranks one of
them can always go on. That is what the phases of three ranks break.

What stays with TLC: `EveryoneLeaves`, `PollsReturn`, `StartupReturns`,
`EveryoneConnects`, `WorkEnds`, `JobEnds` and the fairness part of `ImplementsBarrier` in
`core_barrier` (liveness is out of the prover's reach); that the programs of `job` are
`Synchronised`, which is about those programs; and the five runs with a
violation. Every other property of a run is a theorem.

## 5. Findings

* `npu_barrier_evict`: the team counter relies on caches not writing dirty
  lines back by themselves (`shmemi_device_barrier.h`, lines 267 and 280).
* `heap_align`: `aligned_allocate` does not take the block it splits out of
  `address_idle_tree_` (`shmem_mm.cpp`, line 106; `allocate` does, line 63).
* `team_nested`: a split of a team that does not begin with PE 0, or whose
  stride is not 1, confuses numbers in the parent with global ranks
  (`shmem_team.cpp`, line 217).
* `roce_cores`: two cores that post to the same peer may overwrite each other's
  request (`shmem_device_low_level_roce.h`, line 223), and quiet then returns
  although one of them was lost.

* `qp_three`: with three ranks the phases of `Startup` wait for one another
  until a timeout, whose error is then overwritten with success
  (`device_qp_manager.cpp`, line 269), although the demo takes any number of
  ranks (`examples/rdma_demo/README.md`, line 16).

More observations have no run; six of them have a configuration that refutes what
the repository says (section 3). Of the connections: a rank that cannot load the
network library dies of it (`QpConnectDies.cfg`); `FillQpInfo`, called in the
server phase of a rank that is also a client, finds no channel to the smaller
ranks and fails ("missing for remote", line 544), which the same overwriting
hides until the client phase fills the table. A server whose port is taken
listens on the next one (line 64), which no client is told. Server and client
agree on the port only through byte order: 10002 unswapped on one side, 4647
swapped on the other. `CloseServerConnections` deinitialises the server's socket
handle once itself and then once more for each client (lines 91 and 676).

The proof of `GridsCover` shows where 2-D splits end. An initialisation accepts
`SHMEM_MAX_RANKS` = 1024 PEs (`shmem_init.cpp`, lines 122 and 165), but a split with
a stride of 1024 is refused (`shmem_team.cpp`, line 210): when 1024 PEs are split
into rows of 1024 or more, the columns, of one PE each, have the stride 1024, and
none is created, while the call returns 0. The models that TLC checks are too small
for it; the theorem assumes `NPes < MaxRanks`.

A strided split is checked against the size of the world and not that of the
parent (line 229), so that its members may count on PEs that have no handle of
the parent. And `shmem_team_split_2d` returns 0 when the row or the column of
the calling PE could not be created: it logs the error of
`shmem_team_split_strided` and goes on (lines 306 and 330), while
`shmem_host_team.h`, line 41, promises "0 on successful creation of new_team;
otherwise nonzero". `shmem_quiet` cleans the core's cache but polls no queue
pair, while `shmem_device_sync.h`, line 96, says that it "ensures completion of
all operations on symmetric data objects issued by the calling PE": after a RoCE
write only `shmemi_roce_quiet` does, and it drops the status
`shmemi_roce_poll_cq` returns.

Of the life of a job: the results of `LoadLibrary`, `OpenDevice`,
`RegisterMemoryRegion`, `Prepare`, `Connect`, `shmemi_mte_connect_peers`, of looking up the host and the device and of
registering the device's copy of the state are dropped, so that success of
`shmem_init_attr` says nothing of RDMA, nor of which peers are mapped
(`HostJobDropped.cfg`). The device, the library and the handle
of the process manager are never closed. A PE on which a checked step fails leaves the
others in a collective call, where they wait for ever (`HostJobWaits.cfg`). `import_pid` passes
`npes - 1` as the length of a list that holds only the peers of the same host
(`shmemi_heap.cpp`, line 83; `HostJobTwoHosts.cfg`). `shmem_finalize` begins without a barrier, and resets
neither the status that `shmem_init_status` reports nor the pointer it deletes.
`DL_LOAD_SYM` returns `false` from functions that report success as 0 when a symbol is
missing (`host/common`).

Of the allocations: `shmem_calloc` clears one element (`shmem_mm.cpp`, line 308),
while `shmem_host_heap.h` says of the whole array that "The memory is set to zero"
(`HostJobCalloc.cfg`);
a PE whose memset fails gives its block back and its heap differs from its peers'
from then on; a PE on which the size overflows returns before the barrier.

Of the copies: two `_nbi` calls in a row use the same buffer without a
synchronisation between them; four tensor forms with a signal leave the length of
their buffer unset; a buffer smaller than an element divides by zero (line 237 of
`shmem_device_low_level_rma.h`); the strided forms do not look at the size of
the buffer; the blocking and the strided forms, and those with a signal, take
MTE whatever the table of transports says. The host's synchronous calls return
before the kernel has run, although `shmem_host_rma.h` calls them "Synchronous
interface" (lines 48 and 76; `RmaSynchronous.cfg`), and its `shmem_g` returns an uninitialised value
when it fails.

## 6. What could come next

* The words of `NpuBarrier` chosen by the index each member of a team has, with
  teams destroyed and created again.
* A condition on the text of programs that implies `Synchronised`, for instance that
  kernels meet in a barrier between two accesses to a cell; it takes barriers among the
  calls of `Rma`. Flags that kernels set by themselves, among these too.
* Several cores per device in `Rma`, which share a table but not a copy buffer.

## 7. What is not modelled, and why

* The `mf` backend of the initialisation: it forwards each step to a closed
  library. The plugin for unique ids is empty.
* `shmemi_barrier_npu_v1` and `_v2`, the heap's functions that resize a block,
  `CleanupLibrary` and `UnregisterMemoryRegion` are called by nothing, and the
  helpers `shmemi_roce_qpinfo_test` and `shmemi_roce_pollcq_test` by a test only.
* The host's barrier entry points launch a kernel of one block that calls
  `shmemi_barrier` and wait for it.
* The vendor library, the ACL runtime and MPI are not in the repository: the
  models take them as external, with the failures that the code looks for. That a
  barrier or an allgather of MPI itself fails is not among these: MPI's default
  ends the job. A process that dies is modelled where the code leads to it, in
  `QpConnect`.
* Copies between ranges that overlap, which are the caller's error (`Careful`), and the
  padding that `DataCopyPad` leaves in the unified buffer.
* Logging, the Python binding, which forwards each call, the examples, the tests,
  the scripts and the build. `dl_hccp_def.h` declares types.
