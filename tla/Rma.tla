-------------------------------- MODULE Rma ---------------------------------
(***************************************************************************)
(* The remote memory access of a job: the calls of shmem_device_rma.h and  *)
(* shmem_device_low_level_rma.h inside a kernel, the waits and signals of  *)
(* shmemi_device_p2p.h, and the host calls of shmem_rma.cpp, which post    *)
(* kernels of their own.  It runs while the hosts of module HostJob are at *)
(* "run", on the mapping they have made.                                   *)
(*                                                                         *)
(* A kernel is a sequence of device calls, run by one core here.  A call   *)
(* is a sequence of instructions that the scalar unit issues in order.     *)
(* Copies and event flags go to the pipes MTE2 (into the unified buffer)   *)
(* and MTE3 (out of it), each in order but not with each other nor with    *)
(* the scalar unit; RDMA requests go to the network device.  The hardware  *)
(* is external: a copy is one step, and so is the access of a word with    *)
(* the cache maintenance around it (module NpuBarrier looks into that).    *)
(*                                                                         *)
(* An address is an offset in the heap, in cells; an element has c.sz      *)
(* cells.  A cell holds a number that tells where it came from.            *)
(***************************************************************************)
EXTENDS HostJob, SequencesExt

CONSTANTS
  Programs,     \* what the application may run: for each PE, host calls
  Signals,      \* the cells used as signal words, which start as 0
  UbSize,       \* UB_LIMIT, the cells of the unified buffer
  UbUnit,       \* 32 bytes, the grain of rows in the unified buffer
  StagingSize,  \* mte_config.ub_size by default; shmem_ub is 0
  Spoilt        \* what no call means a cell to hold

VARIABLES
  loaded,       \* the application has chosen what to run
  script,       \* the host calls left
  stream,       \* the kernels posted and not begun
  todo,         \* the device calls left in the kernel that runs
  code,         \* the instructions left in the present call
  mte2, mte3,   \* the pipes
  flag,         \* the event flags that are set
  nic,          \* the RDMA requests under way
  mem,          \* the heaps (0 .. NPes - 1) and the unified buffers (the rest)
  config,       \* mte_config
  got,          \* what was read, and what it should have been
  ideal,        \* history: mem if every call were done as it begins
  promise       \* history: the words announced by signals

deviceVars == <<todo, code, mte2, mte3, flag, nic, mem, got, ideal, promise>>
rmaVars == <<loaded, script, stream, config, deviceVars>>
vars == <<hostVars, rmaVars>>

UbOf(p) == NPes + p
Memories == 0 .. 2 * NPes - 1
Size(m) == IF m \in PE THEN HeapSize ELSE UbSize
Fresh(m, i) == IF m \in PE /\ i \notin Signals THEN m * HeapSize + i + 1 ELSE 0
Events == {"MTE2_MTE3", "MTE3_MTE2"}

RmaInit ==
  /\ loaded = FALSE
  /\ script = [p \in PE |-> <<>>] /\ stream = [p \in PE |-> <<>>]
  /\ todo = [p \in PE |-> <<>>] /\ code = [p \in PE |-> <<>>]
  /\ mte2 = [p \in PE |-> <<>>] /\ mte3 = [p \in PE |-> <<>>]
  /\ flag = [p \in PE |-> [e \in Events |-> 0]]
  /\ nic = [p \in PE |-> <<>>]
  /\ mem = [m \in Memories |-> [i \in 0 .. Size(m) - 1 |-> Fresh(m, i)]]
  /\ config = [p \in PE |-> [shmem_ub |-> 0, ub_size |-> StagingSize]]
  /\ got = [p \in PE |-> <<>>]
  /\ ideal = mem /\ promise = {}

-----------------------------------------------------------------------------
(* Memory and instructions.                                                *)

Spot(m, a) == [mem |-> m, at |-> a]
Local(p, a) == Spot(p, a)
Ub(p, a) == Spot(UbOf(p), a)

(* shmem_ptr and shmem_roce_ptr: the same offset from the peer's base. *)
shmem_ptr(a, q) == Spot(q, a)
shmem_roce_ptr(a, q) == Spot(q, a)

(* rows of len cells, from src to dst, whose rows begin sp and dp apart. *)
Copy(op, src, dst, rows, len, sp, dp) ==
  [op |-> op, src |-> src, dst |-> dst, rows |-> rows, len |-> len, sp |-> sp, dp |-> dp]

(* The cells that a copy writes, and the one that each is a copy of. *)
InCopy(x, a) ==
  /\ x.len > 0 /\ a >= x.dst.at
  /\ (a - x.dst.at) \div x.dp < x.rows /\ (a - x.dst.at) % x.dp < x.len
Origin(x, a) == x.src.at + ((a - x.dst.at) \div x.dp) * x.sp + ((a - x.dst.at) % x.dp)

Moved(m, x) ==
  [m EXCEPT ![x.dst.mem] = [a \in DOMAIN @ |->
     IF InCopy(x, a) THEN m[x.src.mem][Origin(x, a)] ELSE @[a]]]

RoundUp(n) == ((n + UbUnit - 1) \div UbUnit) * UbUnit

(* DataCopyPad: gaps between rows are in cells in the heap, and in units   *)
(* on top of whole units in the unified buffer.                            *)
shmemi_copy_gm2ub(ub, gm, rows, len, sgap, dgap) ==
  <<Copy("load", gm, ub, rows, len, len + sgap, RoundUp(len) + dgap * UbUnit)>>

shmemi_copy_ub2gm(gm, ub, rows, len, sgap, dgap) ==
  <<Copy("store", ub, gm, rows, len, RoundUp(len) + sgap * UbUnit, len + dgap)>>

(* Mutant: WaitFlag is forgotten. *)
SetOnly(e) == <<[op |-> "set", event |-> e]>>

(* SetFlag goes to the pipe named first, WaitFlag to the other one. *)
Sync(e) == <<[op |-> "set", event |-> e], [op |-> "wait", event |-> e]>>

Plus(x, n) == [x EXCEPT !.at = @ + n]

(* Mutant: the buffer is filled anew before it has been emptied. *)
ChunkRushed(i, repeat, loops) == <<>>

(* The sync after chunk i (from 0) of the copy loops: not after the last. *)
ChunkSync(i, repeat, loops) ==
  IF i < repeat /\ i # loops - 1 THEN Sync("MTE3_MTE2") ELSE <<>>

(* Mutant: the copy out does not wait for the copy in. *)
ThroughAtOnce(from, to, buf, len) ==
  shmemi_copy_gm2ub(buf, from, 1, len, 0, 0) \o shmemi_copy_ub2gm(to, buf, 1, len, 0, 0)

Through(from, to, buf, len) ==
  shmemi_copy_gm2ub(buf, from, 1, len, 0, 0) \o Sync("MTE2_MTE3")
  \o shmemi_copy_ub2gm(to, buf, 1, len, 0, 0)

(* The loop of a contiguous copy: whole blocks, then the rest. *)
Blockwise(from, to, buf, bytes, block) ==
  LET repeat == bytes \div block
      loops == repeat + IF bytes % block > 0 THEN 1 ELSE 0
      chunk(i) == IF i < repeat THEN block ELSE bytes % block IN
  FlattenSeq([k \in 1 .. loops |->
    Through(Plus(from, (k - 1) * block), Plus(to, (k - 1) * block), buf, chunk(k - 1))
    \o ChunkSync(k - 1, repeat, loops)])

(* A whole number of elements. *)
Whole(size, c) == (size \div c.sz) * c.sz

(* A strided copy: all rows at once, whatever the size of the buffer. *)
Strided(from, to, buf, c) ==
  LET unit == UbUnit \div c.sz
      ub_stride == ((c.len + unit - 1) \div unit) * unit
      gap == (ub_stride - c.len) \div unit IN
  shmemi_copy_gm2ub(buf, from, c.rows, c.len * c.sz, (c.sld - c.len) * c.sz, gap)
  \o Sync("MTE2_MTE3")
  \o shmemi_copy_ub2gm(to, buf, c.rows, c.len * c.sz, gap, (c.dld - c.len) * c.sz)

-----------------------------------------------------------------------------
(* shmem_device_low_level_rma.h, for PE p: pointers, tensors, the strided  *)
(* forms of both, and those on the unified buffer itself.                  *)

shmem_mte_get(p, c, buf, ub_size) ==
  Blockwise(shmem_ptr(c.src, c.pe), Local(p, c.dst), Ub(p, buf), c.n * c.sz, Whole(ub_size, c))
shmem_mte_get_tensor(p, c, tensor) == shmem_mte_get(p, c, tensor.at, tensor.len)
shmem_mte_get_detailed(p, c, buf) ==
  Strided(shmem_ptr(c.src, c.pe), Local(p, c.dst), Ub(p, buf), c)
shmem_mte_get_tensor_detailed(p, c, tensor) == shmem_mte_get_detailed(p, c, tensor.at)

shmem_mte_put(p, c, buf, ub_size) ==
  Blockwise(Local(p, c.src), shmem_ptr(c.dst, c.pe), Ub(p, buf), c.n * c.sz, Whole(ub_size, c))
shmem_mte_put_tensor(p, c, tensor) == shmem_mte_put(p, c, tensor.at, tensor.len)
shmem_mte_put_detailed(p, c, buf) ==
  Strided(Local(p, c.src), shmem_ptr(c.dst, c.pe), Ub(p, buf), c)
shmem_mte_put_tensor_detailed(p, c, tensor) == shmem_mte_put_detailed(p, c, tensor.at)

Post(src, dst, len) == <<Copy("post", src, dst, 1, len, len, len)>>

shmem_roce_get(p, c) == Post(shmem_roce_ptr(c.src, c.pe), Local(p, c.dst), c.n * c.sz)
shmem_roce_get_tensor(p, c) == shmem_roce_get(p, c)
shmem_roce_put(p, c) == Post(Local(p, c.src), shmem_roce_ptr(c.dst, c.pe), c.n * c.sz)
shmem_roce_put_tensor(p, c) == shmem_roce_put(p, c)

(* What would leave the unified buffer is silently not done. *)
Inside(a, num, c, instrs) == IF a + num * c.sz > UbSize THEN <<>> ELSE instrs

UnitGap(ld, c) == (ld - c.len) \div (UbUnit \div c.sz)

shmem_mte_get_ub(p, c) ==
  Inside(c.dst, c.n, c,
    shmemi_copy_gm2ub(Ub(p, c.dst), shmem_ptr(c.src, c.pe), 1, c.n * c.sz, 0, 0))
shmem_mte_get_ub_tensor(p, c) == shmem_mte_get_ub(p, c)
shmem_mte_get_ub_detailed(p, c) ==
  Inside(c.dst, (c.rows - 1) * c.dld + c.len, c,
    shmemi_copy_gm2ub(Ub(p, c.dst), shmem_ptr(c.src, c.pe), c.rows, c.len * c.sz,
                      (c.sld - c.len) * c.sz, UnitGap(c.dld, c)))
shmem_mte_get_ub_tensor_detailed(p, c) == shmem_mte_get_ub_detailed(p, c)

shmem_mte_put_ub(p, c) ==
  Inside(c.src, c.n, c,
    shmemi_copy_ub2gm(shmem_ptr(c.dst, c.pe), Ub(p, c.src), 1, c.n * c.sz, 0, 0))
shmem_mte_put_ub_tensor(p, c) == shmem_mte_put_ub(p, c)
shmem_mte_put_ub_detailed(p, c) ==
  Inside(c.src, (c.rows - 1) * c.sld + c.len, c,
    shmemi_copy_ub2gm(shmem_ptr(c.dst, c.pe), Ub(p, c.src), c.rows, c.len * c.sz,
                      UnitGap(c.sld, c), (c.dld - c.len) * c.sz))
shmem_mte_put_ub_tensor_detailed(p, c) == shmem_mte_put_ub_detailed(p, c)

-----------------------------------------------------------------------------
(* shmemi_device_p2p.h and shmemi_device_quiet.h.                          *)

(* Mutant: the pipes are not waited for. *)
quiet_forgotten == <<>>

(* quiet and fence: all pipes, but not the network device. *)
shmemi_quiet == <<[op |-> "drain"]>>
shmemi_roce_quiet == <<[op |-> "roce_quiet"]>>

Word(op, x, val) == <<[op |-> op, dst |-> x, val |-> val]>>
shmemi_signal_set(a, q, val) == Word("set_word", shmem_ptr(a, q), val)
shmemi_signal_add(a, q, val) == Word("add_word", shmem_ptr(a, q), val)

shmemix_signal_op(c) ==
  CASE c.sigop = "set" -> shmemi_signal_set(c.sig, c.pe, c.val)
    [] c.sigop = "add" -> shmemi_signal_add(c.sig, c.pe, c.val)
    [] OTHER -> <<>>

Compares(cmp, x, y) ==
  \/ cmp = "eq" /\ x = y
  \/ cmp = "ne" /\ x # y
  \/ cmp = "gt" /\ x > y
  \/ cmp = "ge" /\ x >= y
  \/ cmp = "lt" /\ x < y
  \/ cmp = "le" /\ x <= y

Comparators == {"eq", "ne", "gt", "ge", "lt", "le"}
Look(op, x, cmp, val) == <<[op |-> op, src |-> x, cmp |-> cmp, val |-> val]>>

(* An unknown comparator is not waited for. *)
shmemi_signal_wait_until(p, c) ==
  IF c.cmp \in Comparators THEN Look("spin", Local(p, c.sig), c.cmp, c.val) ELSE <<>>
shmemi_wait_until(p, c) == shmemi_signal_wait_until(p, c)
shmemi_signal_fetch(p, c) == Look("fetch", Local(p, c.sig), "eq", 0)
shmemi_test(p, c) == Look("test", Local(p, c.sig), c.cmp, c.val)

(* Those of n words that status does not leave out, one after the other; a *)
(* test of all is the conjunction of these.                                *)
Each(c, one(_)) ==
  FlattenSeq([k \in 1 .. c.n |->
    IF k - 1 \in c.skip THEN <<>> ELSE one([c EXCEPT !.sig = @ + (k - 1) * c.sz])])

(* Mutant: those that status leaves out are waited for as well. *)
wait_until_all_unskipped(p, c) ==
  LET one(d) == shmemi_wait_until(p, d) IN Each([c EXCEPT !.skip = {}], one)

shmemi_wait_until_all(p, c) == LET one(d) == shmemi_wait_until(p, d) IN Each(c, one)
shmemi_test_all(p, c) == LET one(d) == shmemi_test(p, d) IN Each(c, one)

-----------------------------------------------------------------------------
(* shmem_device_rma.h, for PE p.                                           *)

CopyUb(p) == config[p].shmem_ub
CopySize(p) == config[p].ub_size
Tensor(p) == [at |-> CopyUb(p), len |-> CopySize(p)]

(* Mutant: topo_list is not asked. *)
TopoIgnored(p, c, mte, roce) == mte

(* The transport that topo_list names for the peer; none of the two: no copy. *)
ByTopo(p, c, mte, roce) ==
  LET topo == host[p].dev.topo[c.pe] IN
  IF "mte" \in topo THEN mte ELSE IF "roce" \in topo THEN roce ELSE <<>>

shmem_p(p, c) == Word("set_word", shmem_ptr(c.dst, c.pe), c.val)
shmem_g(p, c) == Look("fetch", shmem_ptr(c.src, c.pe), "eq", 0)

(* The blocking forms go by MTE, whatever topo_list says. *)
shmem_getmem(p, c) == shmem_mte_get(p, c, CopyUb(p), CopySize(p)) \o shmemi_quiet
shmem_get_mem(p, c) == shmem_mte_get(p, c, CopyUb(p), CopySize(p)) \o shmemi_quiet
shmem_putmem(p, c) == shmem_mte_put(p, c, CopyUb(p), CopySize(p)) \o shmemi_quiet
shmem_put_mem(p, c) == shmem_mte_put(p, c, CopyUb(p), CopySize(p)) \o shmemi_quiet

shmem_getmem_nbi(p, c) == shmem_mte_get(p, c, CopyUb(p), CopySize(p))
shmem_putmem_nbi(p, c) == shmem_mte_put(p, c, CopyUb(p), CopySize(p))

shmem_get_mem_nbi(p, c) ==
  ByTopo(p, c, shmem_mte_get(p, c, CopyUb(p), CopySize(p)), shmem_roce_get(p, c))
shmem_get_mem_detailed_nbi(p, c) == shmem_mte_get_detailed(p, c, CopyUb(p))
shmem_get_mem_tensor_nbi(p, c) ==
  ByTopo(p, c, shmem_mte_get_tensor(p, c, Tensor(p)), shmem_roce_get_tensor(p, c))
shmem_get_mem_tensor_detailed_nbi(p, c) == shmem_mte_get_tensor_detailed(p, c, Tensor(p))

shmem_put_mem_nbi(p, c) ==
  ByTopo(p, c, shmem_mte_put(p, c, CopyUb(p), CopySize(p)), shmem_roce_put(p, c))
shmem_put_mem_detailed_nbi(p, c) == shmem_mte_put_detailed(p, c, CopyUb(p))
shmem_put_mem_tensor_nbi(p, c) ==
  ByTopo(p, c, shmem_mte_put_tensor(p, c, Tensor(p)), shmem_roce_put_tensor(p, c))
shmem_put_mem_tensor_detailed_nbi(p, c) == shmem_mte_put_tensor_detailed(p, c, Tensor(p))

shmem_get_mem_ub_nbi(p, c) == shmem_mte_get_ub(p, c)
shmem_get_mem_ub_tensor_nbi(p, c) == shmem_mte_get_ub_tensor(p, c)
shmem_get_mem_ub_detailed_nbi(p, c) == shmem_mte_get_ub_detailed(p, c)
shmem_get_mem_ub_tensor_detailed_nbi(p, c) == shmem_mte_get_ub_tensor_detailed(p, c)
shmem_put_mem_ub_nbi(p, c) == shmem_mte_put_ub(p, c)
shmem_put_mem_ub_tensor_nbi(p, c) == shmem_mte_put_ub_tensor(p, c)
shmem_put_mem_ub_detailed_nbi(p, c) == shmem_mte_put_ub_detailed(p, c)
shmem_put_mem_ub_tensor_detailed_nbi(p, c) == shmem_mte_put_ub_tensor_detailed(p, c)

(* The data, then the signal; the _nbi forms call fence, which is quiet. *)
Signalled(c, instrs) == instrs \o shmemi_quiet \o shmemix_signal_op(c)

(* The contiguous tensor forms never set the length of their buffer, which *)
(* is the c.stale cells it happens to be.                                  *)
Unset(p, c) == [at |-> CopyUb(p), len |-> c.stale]

shmem_putmem_signal(p, c) == Signalled(c, shmem_mte_put(p, c, CopyUb(p), CopySize(p)))
shmem_put_mem_signal(p, c) == Signalled(c, shmem_mte_put(p, c, CopyUb(p), CopySize(p)))
shmem_put_mem_signal_tensor(p, c) == Signalled(c, shmem_mte_put_tensor(p, c, Unset(p, c)))
shmem_put_mem_signal_detailed(p, c) == Signalled(c, shmem_mte_put_detailed(p, c, CopyUb(p)))
shmem_put_mem_signal_tensor_detailed(p, c) ==
  Signalled(c, shmem_mte_put_tensor_detailed(p, c, Unset(p, c)))
shmem_putmem_signal_nbi(p, c) == Signalled(c, shmem_mte_put(p, c, CopyUb(p), CopySize(p)))
shmem_put_mem_signal_nbi(p, c) == Signalled(c, shmem_mte_put(p, c, CopyUb(p), CopySize(p)))
shmem_put_mem_signal_tensor_nbi(p, c) ==
  Signalled(c, shmem_mte_put_tensor(p, c, Unset(p, c)))
shmem_put_mem_signal_detailed_nbi(p, c) ==
  Signalled(c, shmem_mte_put_detailed(p, c, CopyUb(p)))
shmem_put_mem_signal_tensor_detailed_nbi(p, c) ==
  Signalled(c, shmem_mte_put_tensor_detailed(p, c, Unset(p, c)))

shmem_test(p, c) == shmemi_quiet \o shmemi_test(p, c)

(* The instructions of a call. *)
Code(p, c) ==
  CASE c.api = "getmem" -> shmem_getmem(p, c)
    [] c.api = "get_mem" -> shmem_get_mem(p, c)
    [] c.api = "putmem" -> shmem_putmem(p, c)
    [] c.api = "put_mem" -> shmem_put_mem(p, c)
    [] c.api = "getmem_nbi" -> shmem_getmem_nbi(p, c)
    [] c.api = "putmem_nbi" -> shmem_putmem_nbi(p, c)
    [] c.api = "get_mem_nbi" -> shmem_get_mem_nbi(p, c)
    [] c.api = "get_mem_detailed_nbi" -> shmem_get_mem_detailed_nbi(p, c)
    [] c.api = "get_mem_tensor_nbi" -> shmem_get_mem_tensor_nbi(p, c)
    [] c.api = "get_mem_tensor_detailed_nbi" -> shmem_get_mem_tensor_detailed_nbi(p, c)
    [] c.api = "put_mem_nbi" -> shmem_put_mem_nbi(p, c)
    [] c.api = "put_mem_detailed_nbi" -> shmem_put_mem_detailed_nbi(p, c)
    [] c.api = "put_mem_tensor_nbi" -> shmem_put_mem_tensor_nbi(p, c)
    [] c.api = "put_mem_tensor_detailed_nbi" -> shmem_put_mem_tensor_detailed_nbi(p, c)
    [] c.api = "get_mem_ub_nbi" -> shmem_get_mem_ub_nbi(p, c)
    [] c.api = "get_mem_ub_tensor_nbi" -> shmem_get_mem_ub_tensor_nbi(p, c)
    [] c.api = "get_mem_ub_detailed_nbi" -> shmem_get_mem_ub_detailed_nbi(p, c)
    [] c.api = "get_mem_ub_tensor_detailed_nbi" -> shmem_get_mem_ub_tensor_detailed_nbi(p, c)
    [] c.api = "put_mem_ub_nbi" -> shmem_put_mem_ub_nbi(p, c)
    [] c.api = "put_mem_ub_tensor_nbi" -> shmem_put_mem_ub_tensor_nbi(p, c)
    [] c.api = "put_mem_ub_detailed_nbi" -> shmem_put_mem_ub_detailed_nbi(p, c)
    [] c.api = "put_mem_ub_tensor_detailed_nbi" -> shmem_put_mem_ub_tensor_detailed_nbi(p, c)
    [] c.api = "putmem_signal" -> shmem_putmem_signal(p, c)
    [] c.api = "put_mem_signal" -> shmem_put_mem_signal(p, c)
    [] c.api = "put_mem_signal_tensor" -> shmem_put_mem_signal_tensor(p, c)
    [] c.api = "put_mem_signal_detailed" -> shmem_put_mem_signal_detailed(p, c)
    [] c.api = "put_mem_signal_tensor_detailed" -> shmem_put_mem_signal_tensor_detailed(p, c)
    [] c.api = "putmem_signal_nbi" -> shmem_putmem_signal_nbi(p, c)
    [] c.api = "put_mem_signal_nbi" -> shmem_put_mem_signal_nbi(p, c)
    [] c.api = "put_mem_signal_tensor_nbi" -> shmem_put_mem_signal_tensor_nbi(p, c)
    [] c.api = "put_mem_signal_detailed_nbi" -> shmem_put_mem_signal_detailed_nbi(p, c)
    [] c.api = "put_mem_signal_tensor_detailed_nbi" ->
         shmem_put_mem_signal_tensor_detailed_nbi(p, c)
    [] c.api = "p" -> shmem_p(p, c)
    [] c.api = "g" -> shmem_g(p, c)
    [] c.api = "quiet" -> shmemi_quiet
    [] c.api = "roce_quiet" -> shmemi_roce_quiet
    [] c.api = "signal_op" -> shmemix_signal_op(c)
    [] c.api = "signal_fetch" -> shmemi_signal_fetch(p, c)
    [] c.api = "signal_wait_until" -> shmemi_signal_wait_until(p, c)
    [] c.api = "wait_until_all" -> shmemi_wait_until_all(p, c)
    [] c.api = "test" -> shmem_test(p, c)
    [] c.api = "test_all" -> shmemi_test_all(p, c)

(* The forms that copy: from a peer's heap, to one, from a peer's heap to  *)
(* the unified buffer, and back; those that copy rows, or send a signal.   *)
Getting ==
  {"getmem", "get_mem", "getmem_nbi", "get_mem_nbi", "get_mem_tensor_nbi", "get_mem_detailed_nbi",
   "get_mem_tensor_detailed_nbi"}
SignalForms ==
  {"putmem_signal", "put_mem_signal", "put_mem_signal_tensor", "put_mem_signal_detailed",
   "put_mem_signal_tensor_detailed", "putmem_signal_nbi", "put_mem_signal_nbi",
   "put_mem_signal_tensor_nbi", "put_mem_signal_detailed_nbi", "put_mem_signal_tensor_detailed_nbi"}
Putting == SignalForms \cup
  {"putmem", "put_mem", "putmem_nbi", "put_mem_nbi", "put_mem_tensor_nbi", "put_mem_detailed_nbi",
   "put_mem_tensor_detailed_nbi"}
Loading ==
  {"get_mem_ub_nbi", "get_mem_ub_tensor_nbi", "get_mem_ub_detailed_nbi",
   "get_mem_ub_tensor_detailed_nbi"}
Storing ==
  {"put_mem_ub_nbi", "put_mem_ub_tensor_nbi", "put_mem_ub_detailed_nbi",
   "put_mem_ub_tensor_detailed_nbi"}
DetailedForms ==
  {"get_mem_detailed_nbi", "get_mem_tensor_detailed_nbi", "put_mem_detailed_nbi",
   "put_mem_tensor_detailed_nbi", "get_mem_ub_detailed_nbi", "get_mem_ub_tensor_detailed_nbi",
   "put_mem_ub_detailed_nbi", "put_mem_ub_tensor_detailed_nbi", "put_mem_signal_detailed",
   "put_mem_signal_tensor_detailed", "put_mem_signal_detailed_nbi",
   "put_mem_signal_tensor_detailed_nbi"}

(* What a call is for: the copy, the word and the announcement it stands   *)
(* for, however it is carried out.                                         *)
Detailed(c) == c.api \in DetailedForms
CopyOf(p, c) ==
  LET src == IF c.api \in Getting \cup Loading THEN Spot(c.pe, c.src)
             ELSE IF c.api \in Putting THEN Spot(p, c.src) ELSE Ub(p, c.src)
      dst == IF c.api \in Putting \cup Storing THEN Spot(c.pe, c.dst)
             ELSE IF c.api \in Getting THEN Spot(p, c.dst) ELSE Ub(p, c.dst) IN
  IF Detailed(c) THEN Copy("ideal", src, dst, c.rows, c.len * c.sz, c.sld * c.sz, c.dld * c.sz)
  ELSE Copy("ideal", src, dst, 1, c.n * c.sz, c.n * c.sz, c.n * c.sz)

(* What leaves the unified buffer is not copied. *)
Elements(c, ld) == IF Detailed(c) THEN (c.rows - 1) * ld + c.len ELSE c.n
Copies(c) ==
  \/ c.api \in Getting \cup Putting
  \/ c.api \in Loading /\ c.dst + Elements(c, IF Detailed(c) THEN c.dld ELSE 0) * c.sz <= UbSize
  \/ c.api \in Storing /\ c.src + Elements(c, IF Detailed(c) THEN c.sld ELSE 0) * c.sz <= UbSize
Announces(c) == c.api \in SignalForms \cup {"signal_op"} /\ c.sigop \in {"set", "add"}

Touched(x) == {<<x.dst.mem, a>> : a \in {b \in 0 .. Size(x.dst.mem) - 1 : InCopy(x, b)}}

Written(m, op, x, val) ==
  [m EXCEPT ![x.mem][x.at] = IF op = "set_word" THEN val ELSE @ + val]

(* A copy from heap to heap leaves nothing of use in the unified buffer. *)
Staged(c) == c.api \in Getting \cup Putting
Spoiled(m, p, instrs) ==
  [m EXCEPT ![UbOf(p)] = [a \in DOMAIN @ |->
     IF \E i \in Range(instrs) : i.op = "load" /\ InCopy(i, a) THEN Spoilt ELSE @[a]]]

Ideally(m, p, c, instrs) ==
  LET moved == Moved(m, CopyOf(p, c))
      copied == IF ~ Copies(c) THEN m
                ELSE IF Staged(c) THEN Spoiled(moved, p, instrs) ELSE moved IN
  CASE Announces(c) -> Written(copied, IF c.sigop = "set" THEN "set_word" ELSE "add_word",
                              Spot(c.pe, c.sig), c.val)
    [] c.api = "p" -> Written(copied, "set_word", Spot(c.pe, c.dst), c.val)
    [] OTHER -> copied

-----------------------------------------------------------------------------
(* A core.                                                                 *)

Idling(p) == todo[p] = <<>> /\ code[p] = <<>> /\ mte2[p] = <<>> /\ mte3[p] = <<>>

(* A kernel begins when those before it in the stream have ended. *)
StartKernel(p) ==
  /\ Idling(p) /\ stream[p] # <<>>
  /\ todo' = [todo EXCEPT ![p] = Head(stream[p])]
  /\ stream' = [stream EXCEPT ![p] = Tail(@)]
  /\ UNCHANGED <<loaded, script, config, code, mte2, mte3, flag, nic, mem, got, ideal, promise>>

StartCall(p) ==
  LET c == Head(todo[p]) IN
  /\ todo[p] # <<>> /\ code[p] = <<>>
  /\ todo' = [todo EXCEPT ![p] = Tail(@)]
  /\ code' = [code EXCEPT ![p] = Code(p, c)]
  /\ ideal' = Ideally(ideal, p, c, code'[p])
  /\ promise' = promise \cup IF Copies(c) /\ Announces(c)
                            THEN {[word |-> <<c.pe, c.sig>>, cells |-> Touched(CopyOf(p, c))]}
                            ELSE {}
  /\ UNCHANGED <<loaded, script, stream, config, mte2, mte3, flag, nic, mem, got>>

Now(p) == Head(code[p])
Is(p, ops) == code[p] # <<>> /\ Now(p).op \in ops
Issued(p) == code' = [code EXCEPT ![p] = Tail(@)]

Piped == {"load", "store", "set", "wait"}

(* The pipe an instruction goes to. *)
ToMte2(i) == \/ i.op = "load"
             \/ i.op = "set" /\ i.event = "MTE2_MTE3"
             \/ i.op = "wait" /\ i.event = "MTE3_MTE2"

(* A run of these for one pipe is issued at once: a pipe may lag as far as  *)
(* it likes.                                                               *)
IssueToPipe(p) ==
  LET early == ToMte2(Now(p))
      other == SelectInSeq(code[p], LAMBDA i : i.op \notin Piped \/ (ToMte2(i) # early))
      n == IF other = 0 THEN Len(code[p]) ELSE other - 1
      run == SubSeq(code[p], 1, n) IN
  /\ Is(p, Piped) /\ code' = [code EXCEPT ![p] = SubSeq(@, n + 1, Len(@))]
  /\ mte2' = [mte2 EXCEPT ![p] = IF early THEN @ \o run ELSE @]
  /\ mte3' = [mte3 EXCEPT ![p] = IF early THEN @ ELSE @ \o run]
  /\ UNCHANGED <<loaded, script, stream, config, todo, flag, nic, mem, got, ideal, promise>>

(* A request is posted with the doorbell (module RoceQueue). *)
IssuePost(p) ==
  /\ Is(p, {"post"}) /\ Issued(p)
  /\ nic' = [nic EXCEPT ![p] = Append(@, Now(p))]
  /\ UNCHANGED <<loaded, script, stream, config, todo, mte2, mte3, flag, mem, got, ideal, promise>>

WriteWord(p) ==
  /\ Is(p, {"set_word", "add_word"}) /\ Issued(p)
  /\ mem' = Written(mem, Now(p).op, Now(p).dst, Now(p).val)
  /\ UNCHANGED <<loaded, script, stream, config, todo, mte2, mte3, flag, nic, got, ideal, promise>>

Seen(m, i) ==
  IF i.op = "fetch" THEN m[i.src.mem][i.src.at]
  ELSE Compares(i.cmp, m[i.src.mem][i.src.at], i.val)

(* The value read, next to the one to expect. *)
ReadWord(p) ==
  /\ Is(p, {"fetch", "test"}) /\ Issued(p)
  /\ got' = [got EXCEPT ![p] = Append(@, <<Seen(mem, Now(p)), Seen(ideal, Now(p))>>)]
  /\ UNCHANGED <<loaded, script, stream, config, todo, mte2, mte3, flag, nic, mem, ideal, promise>>

(* What a wait of the scalar unit is over with. *)
Over(p, i) ==
  \/ i.op = "drain" /\ mte2[p] = <<>> /\ mte3[p] = <<>>
  \/ i.op = "roce_quiet" /\ nic[p] = <<>>
  \/ i.op = "spin" /\ Seen(mem, i)

Proceed(p) ==
  /\ Is(p, {"drain", "roce_quiet", "spin"}) /\ Over(p, Now(p)) /\ Issued(p)
  /\ UNCHANGED <<loaded, script, stream, config, todo, mte2, mte3, flag, nic, mem, got, ideal, promise>>

(* The first instruction of a pipe. *)
Executes(p, i) ==
  \/ /\ i.op \in {"load", "store"}
     /\ mem' = Moved(mem, i) /\ UNCHANGED flag
  \/ /\ i.op = "set"
     /\ flag' = [flag EXCEPT ![p][i.event] = @ + 1] /\ UNCHANGED mem
  \/ /\ i.op = "wait" /\ flag[p][i.event] > 0
     /\ flag' = [flag EXCEPT ![p][i.event] = @ - 1] /\ UNCHANGED mem

Mte2Step(p) ==
  /\ mte2[p] # <<>> /\ Executes(p, Head(mte2[p]))
  /\ mte2' = [mte2 EXCEPT ![p] = Tail(@)]
  /\ UNCHANGED <<loaded, script, stream, config, todo, code, mte3, nic, got, ideal, promise>>

Mte3Step(p) ==
  /\ mte3[p] # <<>> /\ Executes(p, Head(mte3[p]))
  /\ mte3' = [mte3 EXCEPT ![p] = Tail(@)]
  /\ UNCHANGED <<loaded, script, stream, config, todo, code, mte2, nic, got, ideal, promise>>

NicStep(p) ==
  /\ nic[p] # <<>>
  /\ mem' = Moved(mem, Head(nic[p]))
  /\ nic' = [nic EXCEPT ![p] = Tail(@)]
  /\ UNCHANGED <<loaded, script, stream, config, todo, code, mte2, mte3, flag, got, ideal, promise>>

-----------------------------------------------------------------------------
(* A host at work: shmem_rma.cpp and shmemi_device_rma.cpp.                *)

(* shmemi_prepare_and_post_rma: one kernel with one call on bytes, posted  *)
(* to the default stream and not waited for, also by the calls without nbi. *)
shmemi_prepare_and_post_rma(c, api) ==
  <<[c EXCEPT !.api = api, !.n = c.n * c.sz, !.sz = 1]>>

shmem_put_mem_host(c) == shmemi_prepare_and_post_rma(c, "put_mem")
shmem_put_mem_nbi_host(c) == shmemi_prepare_and_post_rma(c, "put_mem_nbi")
shmem_get_mem_host(c) == shmemi_prepare_and_post_rma(c, "get_mem")
shmem_get_mem_nbi_host(c) == shmemi_prepare_and_post_rma(c, "get_mem_nbi")
shmem_put_mem_signal_host(c) == shmemi_prepare_and_post_rma(c, "put_mem_signal")
shmem_put_mem_signal_nbi_host(c) == shmemi_prepare_and_post_rma(c, "put_mem_signal_nbi")
shmem_p_host(c) == <<[c EXCEPT !.api = "p"]>>
shmem_putmem_host(c) == shmemi_prepare_and_post_rma([c EXCEPT !.sz = 1], "put_mem")
shmem_getmem_host(c) == shmemi_prepare_and_post_rma([c EXCEPT !.sz = 1], "get_mem")
shmem_putmem_nbi_host(c) == shmemi_prepare_and_post_rma([c EXCEPT !.sz = 1], "put_mem_nbi")
shmem_getmem_nbi_host(c) == shmemi_prepare_and_post_rma([c EXCEPT !.sz = 1], "get_mem_nbi")
shmem_putmem_signal_nbi_host(c) ==
  shmemi_prepare_and_post_rma([c EXCEPT !.sz = 1], "put_mem_signal_nbi")
shmem_putmem_signal_host(c) ==
  shmemi_prepare_and_post_rma([c EXCEPT !.sz = 1], "put_mem_signal")

(* The kernel of a host call; the application's own kernels are given. *)
Kernel(c) ==
  CASE c.api = "kernel" -> c.calls
    [] c.api = "host_put_mem" -> shmem_put_mem_host(c)
    [] c.api = "host_put_mem_nbi" -> shmem_put_mem_nbi_host(c)
    [] c.api = "host_get_mem" -> shmem_get_mem_host(c)
    [] c.api = "host_get_mem_nbi" -> shmem_get_mem_nbi_host(c)
    [] c.api = "host_put_mem_signal" -> shmem_put_mem_signal_host(c)
    [] c.api = "host_put_mem_signal_nbi" -> shmem_put_mem_signal_nbi_host(c)
    [] c.api = "host_p" -> shmem_p_host(c)
    [] c.api = "host_putmem" -> shmem_putmem_host(c)
    [] c.api = "host_getmem" -> shmem_getmem_host(c)
    [] c.api = "host_putmem_nbi" -> shmem_putmem_nbi_host(c)
    [] c.api = "host_getmem_nbi" -> shmem_getmem_nbi_host(c)
    [] c.api = "host_putmem_signal_nbi" -> shmem_putmem_signal_nbi_host(c)
    [] c.api = "host_putmem_signal" -> shmem_putmem_signal_host(c)

Others == {"host_g", "set_ub_params", "sync"}

(* What an application may call on PE p, and what its kernels and those of *)
(* its host calls call there.                                              *)
HostCalls(p) == UNION {Range(P[p]) : P \in Programs}
DeviceCalls(p) == UNION {Range(Kernel(c)) : c \in {d \in HostCalls(p) : d.api \notin Others}}
BufferSizes(p) ==
  {StagingSize} \cup {c.size : c \in {d \in HostCalls(p) : d.api = "set_ub_params"}}
Rooms(p, c) ==
  IF c.api \in {"put_mem_signal_tensor", "put_mem_signal_tensor_nbi"} THEN {c.stale}
  ELSE BufferSizes(p)

(* The forms that ask topo_list, the other contiguous ones through the     *)
(* buffer, the rest that access a peer's heap, and those that do not.      *)
Routed == {"get_mem_nbi", "get_mem_tensor_nbi", "put_mem_nbi", "put_mem_tensor_nbi"}
Unrouted ==
  {"getmem", "get_mem", "putmem", "put_mem", "getmem_nbi", "putmem_nbi", "putmem_signal",
   "put_mem_signal", "put_mem_signal_tensor", "putmem_signal_nbi", "put_mem_signal_nbi",
   "put_mem_signal_tensor_nbi"}
Direct ==
  {"get_mem_detailed_nbi", "get_mem_tensor_detailed_nbi", "put_mem_detailed_nbi",
   "put_mem_tensor_detailed_nbi", "get_mem_ub_nbi", "get_mem_ub_tensor_nbi",
   "get_mem_ub_detailed_nbi", "get_mem_ub_tensor_detailed_nbi", "put_mem_ub_nbi",
   "put_mem_ub_tensor_nbi", "put_mem_ub_detailed_nbi", "put_mem_ub_tensor_detailed_nbi",
   "put_mem_signal_detailed", "put_mem_signal_tensor_detailed", "put_mem_signal_detailed_nbi",
   "put_mem_signal_tensor_detailed_nbi", "p", "g", "signal_op"}
Inner ==
  {"quiet", "roce_quiet", "signal_fetch", "signal_wait_until", "wait_until_all", "test", "test_all"}

(* What applications keep to.  A pointer of shmem_ptr leads only to a PE   *)
(* of the same host, so forms that use it whatever topo_list says (from    *)
(* include/device/low_level/shmem_device_low_level_rma.h:232 on) name such *)
(* a PE.  A buffer has room for at least one element, also where its       *)
(* length is not set: the code divides by the number it has room for.      *)
ASSUME ProgramAssumption ==
  /\ StagingSize \in Nat
  /\ \A P \in Programs : P = [p \in PE |-> P[p]] /\ \A p \in PE : P[p] \in Seq(Range(P[p]))
  /\ \A p \in PE : \A c \in HostCalls(p) :
       c.api \notin Others => Kernel(c) \in Seq(Range(Kernel(c)))
  /\ \A p \in PE : \A c \in DeviceCalls(p) :
       /\ c.api \in Routed \cup Unrouted \cup Direct \cup Inner
       /\ c.api \in Routed \cup Unrouted \cup Direct => c.pe \in PE
       /\ c.api \in Unrouted \cup Direct => HostOf[c.pe] = HostOf[p]
       /\ c.api \in Routed \cup Unrouted => /\ c.n \in Nat /\ c.sz \in Nat \ {0}
                                            /\ \A s \in Rooms(p, c) : s \in Nat /\ c.sz <= s
       /\ c.api \in {"wait_until_all", "test_all"} => c.n \in Nat

(* The calls that copy from heap to heap through the buffer, which all use *)
(* the same event flags, and the forms that drain the pipes.               *)
Buffered(p, c) ==
  /\ c.api \in Routed \cup Unrouted \cup
       {"get_mem_detailed_nbi", "get_mem_tensor_detailed_nbi", "put_mem_detailed_nbi",
        "put_mem_tensor_detailed_nbi", "put_mem_signal_detailed", "put_mem_signal_tensor_detailed",
        "put_mem_signal_detailed_nbi", "put_mem_signal_tensor_detailed_nbi"}
  /\ c.api \in Routed => HostOf[c.pe] = HostOf[p]
Draining ==
  {"getmem", "get_mem", "putmem", "put_mem", "quiet", "test", "putmem_signal", "put_mem_signal",
   "put_mem_signal_tensor", "put_mem_signal_detailed", "put_mem_signal_tensor_detailed",
   "putmem_signal_nbi", "put_mem_signal_nbi", "put_mem_signal_tensor_nbi",
   "put_mem_signal_detailed_nbi", "put_mem_signal_tensor_detailed_nbi"}

(* The calls of the library do not wait for the copies of those before     *)
(* them, which use the same buffer: kernels synchronise between them.      *)
(* tests/unittest/device/mem/gm_mem/gm_mem_kernel.cpp:46 does it with      *)
(* flags of its own; the kernels here do it with a call that drains.       *)
Orderly(p, calls) ==
  \A i, j \in 1 .. Len(calls) : i < j /\ Buffered(p, calls[i]) /\ Buffered(p, calls[j])
    => \E k \in i .. j - 1 : calls[k].api \in Draining

ASSUME OrderAssumption ==
  \A p \in PE : \A c \in HostCalls(p) : c.api \notin Others => Orderly(p, Kernel(c))

(* Addresses, lengths and values are numbers.  The rows of a copy lie one  *)
(* after the other, and begin at whole units of the unified buffer where   *)
(* they lie there, which the code divides by.                              *)
ASSUME ArgumentAssumption ==
  /\ UbSize \in Nat /\ UbUnit \in Nat \ {0}
  /\ \A p \in PE : \A c \in HostCalls(p) : c.api = "set_ub_params" => c.at \in Nat
  /\ \A p \in PE : \A c \in DeviceCalls(p) :
       /\ c.api \in Getting \cup Putting \cup Loading \cup Storing =>
            /\ c.src \in Nat /\ c.dst \in Nat /\ c.sz \in Nat \ {0}
            /\ ~ Detailed(c) => c.n \in Nat
            /\ Detailed(c) => /\ c.rows \in Nat /\ c.len \in Nat /\ c.sld \in Nat /\ c.dld \in Nat
                              /\ c.len <= c.sld /\ c.len <= c.dld /\ UbUnit % c.sz = 0
            /\ Detailed(c) /\ c.api \in Loading => c.dld % (UbUnit \div c.sz) = 0
            /\ Detailed(c) /\ c.api \in Storing => c.sld % (UbUnit \div c.sz) = 0
       /\ Announces(c) => c.sig \in Nat /\ c.val \in Int
       /\ c.api = "p" => c.dst \in Nat /\ c.val \in Int

Calling(p, apis) == At(p, "run") /\ loaded /\ script[p] # <<>> /\ Head(script[p]).api \in apis
Called(p) == script' = [script EXCEPT ![p] = Tail(@)]

(* The application has decided what its PEs do; after a failure that the   *)
(* library dropped it is left with nothing to do.                          *)
Decide ==
  /\ ~ loaded /\ \E p \in PE : At(p, "run")
  /\ loaded' = TRUE
  /\ script' \in IF faulty = {} THEN Programs ELSE {script}
  /\ UNCHANGED <<stream, config, deviceVars>>

HostPosts(p) ==
  /\ At(p, "run") /\ loaded /\ script[p] # <<>> /\ Head(script[p]).api \notin Others
  /\ Called(p)
  /\ stream' = [stream EXCEPT ![p] = Append(@, Kernel(Head(script[p])))]
  /\ UNCHANGED <<loaded, config, deviceVars>>

(* The host's shmem_ptr *)
HostPtrValid(p, a, q) == q \in PE /\ a \in Cells /\ q \in host[p].p2p

(* shmem_g copies the word from the device at once; when there is none it  *)
(* returns what its variable happens to hold.                              *)
shmem_g_host(p) ==
  LET c == Head(script[p]) IN
  /\ Calling(p, {"host_g"}) /\ Called(p)
  /\ got' = [got EXCEPT ![p] = IF HostPtrValid(p, c.src, c.pe)
       THEN Append(@, <<mem[c.pe][c.src], ideal[c.pe][c.src]>>) ELSE @]
  /\ UNCHANGED <<loaded, stream, config, todo, code, mte2, mte3, flag, nic, mem, ideal, promise>>

(* shmem_mte_set_ub_params: the device sees it at once. *)
shmem_mte_set_ub_params(p) ==
  LET c == Head(script[p]) IN
  /\ Calling(p, {"set_ub_params"}) /\ Called(p)
  /\ config' = [config EXCEPT ![p] = [shmem_ub |-> c.at, ub_size |-> c.size]]
  /\ UNCHANGED <<loaded, stream, deviceVars>>

(* The application waits for the stream. *)
Synchronize(p) ==
  /\ Calling(p, {"sync"}) /\ Called(p)
  /\ stream[p] = <<>> /\ Idling(p)
  /\ UNCHANGED <<loaded, stream, config, deviceVars>>

(* A PE leaves the run when its calls are made and its stream is empty. *)
Leaves(p) ==
  loaded /\ script[p] = <<>> /\ stream[p] = <<>> /\ Idling(p) /\ nic[p] = <<>> /\ Done(p)

-----------------------------------------------------------------------------

Core(p) ==
  \/ StartKernel(p) \/ StartCall(p) \/ IssueToPipe(p) \/ IssuePost(p)
  \/ WriteWord(p) \/ ReadWord(p) \/ Proceed(p)

HostAtWork(p) == HostPosts(p) \/ shmem_g_host(p) \/ shmem_mte_set_ub_params(p) \/ Synchronize(p)

Works(p) == Core(p) \/ Mte2Step(p) \/ Mte3Step(p) \/ NicStep(p) \/ HostAtWork(p)

Init == HostInit /\ RmaInit

Next ==
  \/ \E p \in PE : (HostStep(p) \/ Leaves(p)) /\ UNCHANGED rmaVars
  \/ (Decide \/ \E p \in PE : Works(p)) /\ UNCHANGED hostVars

(* Every host, core, pipe and network device goes on as long as it can. *)
Fairness ==
  /\ WF_vars(Decide /\ UNCHANGED hostVars)
  /\ \A p \in PE :
       /\ WF_vars((HostStep(p) \/ Leaves(p)) /\ UNCHANGED rmaVars)
       /\ WF_vars(HostAtWork(p) /\ UNCHANGED hostVars)
       /\ WF_vars(Core(p) /\ UNCHANGED hostVars)
       /\ WF_vars(Mte2Step(p) /\ UNCHANGED hostVars)
       /\ WF_vars(Mte3Step(p) /\ UNCHANGED hostVars)
       /\ WF_vars(NicStep(p) /\ UNCHANGED hostVars)

Spec == Init /\ [][Next]_vars /\ Fairness

-----------------------------------------------------------------------------

(* The hosts' state and the pipes are well formed, and event flags are     *)
(* used in turn: none is set twice, and none is left when a kernel ends.   *)
TypeOK ==
  /\ HostTypeOK
  /\ \A p \in PE, e \in Events : flag[p][e] \in {0, 1}
  /\ \A p \in PE : Idling(p) => \A e \in Events : flag[p][e] = 0
  /\ \A m \in Memories : DOMAIN mem[m] = 0 .. Size(m) - 1

(* A copy under way by MTE reaches a heap that its PE has mapped and whose *)
(* owner still has it; one by RDMA a heap that is still there and          *)
(* registered: no PE finalises too early and none goes by a transport that *)
(* does not lead there.                                                    *)
Heaps(i) == {i.src.mem, i.dst.mem} \cap PE
AccessBacked ==
  faulty = {} => \A p \in PE :
    /\ \A k \in 1 .. Len(mte2[p]) : mte2[p][k].op = "load" =>
         \A q \in Heaps(mte2[p][k]) : q \in host[p].mapped \cup {p} /\ host[q].phys
    /\ \A k \in 1 .. Len(mte3[p]) : mte3[p][k].op = "store" =>
         \A q \in Heaps(mte3[p][k]) : q \in host[p].mapped \cup {p} /\ host[q].phys
    /\ \A k \in 1 .. Len(nic[p]) :
         \A q \in Heaps(nic[p][k]) : q \in host[p].rdma /\ host[q].nic /\ host[q].phys

(* The cells that an instruction writes and reads; a spin may read while   *)
(* others write.                                                           *)
Copiers == {"load", "store", "post"}
Writers == {"set_word", "add_word"}
Readers == {"fetch", "test"}
Writes(i) ==
  CASE i.op \in Copiers -> Touched(i)
    [] i.op \in Writers -> {<<i.dst.mem, i.dst.at>>}
    [] OTHER -> {}
Reads(i) ==
  CASE i.op \in Copiers -> {<<i.src.mem, Origin(i, x[2])>> : x \in Touched(i)}
    [] i.op \in Readers -> {<<i.src.mem, i.src.at>>}
    [] OTHER -> {}

Everywhere == UNION {{m} \X (0 .. Size(m) - 1) : m \in Memories}
UnderWay(p) == Range(code[p]) \cup Range(mte2[p]) \cup Range(mte3[p]) \cup Range(nic[p])

(* They must not be done in any order: only additions may. *)
Meets(i, j) ==
  \/ Writes(i) \cap Writes(j) # {} /\ ~ (i.op = "add_word" /\ j.op = "add_word")
  \/ Writes(i) \cap Reads(j) # {}
  \/ Reads(i) \cap Writes(j) # {}

(* Programs that synchronise.  A call begins when no copy, write or read   *)
(* under way conflicts with it; it does not copy onto what it copies from  *)
(* or onto its signal; it stays in memory; and what it takes from the      *)
(* unified buffer is what a call has put there.  The host reads no cell    *)
(* that is about to be written.                                            *)
Careful ==
  /\ \A p \in PE : todo[p] # <<>> /\ code[p] = <<>> =>
       LET c == Head(todo[p])
           new == Range(Code(p, c)) IN
       /\ \A i \in new, q \in PE : \A j \in UnderWay(q) : ~ Meets(i, j)
       /\ \A i, j \in new : \A x \in Writes(i) :
            /\ x \in Reads(j) => x[1] \notin PE
            /\ x \in Writes(j) /\ i.op \in Writers => j = i
       /\ \A i \in new : Writes(i) \cup Reads(i) \subseteq Everywhere
       /\ \A i \in new : i.op = "store" /\ c.api \in Storing =>
            \A x \in Reads(i) : ideal[x[1]][x[2]] # Spoilt
  /\ \A p, q \in PE : Calling(p, {"host_g"}) => \A i \in UnderWay(q) :
       <<Head(script[p]).pe, Head(script[p]).src>> \notin Writes(i)

(* Programs whose signals tell something.  A signal changes its word, to   *)
(* another value or upwards, and what has been announced is written again  *)
(* only by a call that signals with the same word.                         *)
Telling ==
  \A p \in PE : todo[p] # <<>> /\ code[p] = <<>> =>
    LET c == Head(todo[p]) IN
    /\ Announces(c) => IF c.sigop = "set" THEN c.val # mem[c.pe][c.sig] ELSE c.val > 0
    /\ \A a \in promise, i \in Range(Code(p, c)) : Writes(i) \cap a.cells # {} =>
         Copies(c) /\ Announces(c) /\ a.word = <<c.pe, c.sig>>

(* What the application owes the library, and the two below rest on.  It   *)
(* takes the library's waits, quiets and signals to keep it: a program of  *)
(* the right form breaks it when one of these returns too early.           *)
Synchronised == Careful /\ Telling

(* When nothing is under way every heap holds exactly what the calls made  *)
(* so far mean, each done at once in the order they began: nothing is      *)
(* lost, torn between blocks or written elsewhere, and every value read    *)
(* was the one to be read.                                                 *)
Delivered ==
  (\A p \in PE : todo[p] = <<>> /\ code[p] = <<>> /\ mte2[p] = <<>> /\ mte3[p] = <<>>
                /\ nic[p] = <<>>)
  => /\ \A q \in PE : mem[q] = ideal[q]
     /\ \A p \in PE : \A k \in 1 .. Len(got[p]) : got[p][k][1] = got[p][k][2]

(* A signal is never seen before the data it announces: once the word has  *)
(* its value, all cells of the copy have theirs.                           *)
SignalAfterData ==
  \A a \in promise :
    mem[a.word[1]][a.word[2]] = ideal[a.word[1]][a.word[2]] =>
      \A x \in a.cells : mem[x[1]][x[2]] = ideal[x[1]][x[2]]

(* Once all PEs have initialised with success and no call of a library     *)
(* fails, every program comes to its end, whatever it waits for, and every *)
(* PE finalises.                                                           *)
WorkEnds ==
  (\A p \in PE : host[p].ret = "ok") ~> (faulty # {} \/ \A p \in PE : pc[p] = "ended")

(* An application that makes synchronous calls only finds what they do     *)
(* done when they have returned, as include/host/shmem_host_rma.h:48 and   *)
(* 76 say: here, when it looks.                                            *)
Synchronous ==
  {"host_put_mem", "host_get_mem", "host_putmem", "host_getmem", "host_put_mem_signal",
   "host_putmem_signal"}

SynchronousDone ==
  (\A p \in PE : \A c \in HostCalls(p) : c.api \in Synchronous \cup {"host_g"}) =>
    \A p \in PE : Calling(p, {"host_g"}) => stream[p] = <<>> /\ Idling(p)
=============================================================================
