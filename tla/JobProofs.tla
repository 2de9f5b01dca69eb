------------------------------ MODULE JobProofs ------------------------------
(***************************************************************************)
(* What shmem_init_attr and collective allocation promise, for jobs of     *)
(* every size: the invariant that relates the place of each host to the    *)
(* collective calls it has entered and to what it has set up; the ledger   *)
(* that each allocator keeps, and AllocatedEverywhere from it; what the    *)
(* PEs learn of their hosts, and InitMeansReady from it.  And what holds   *)
(* of the remote memory access of every program: copies lead only to heaps *)
(* that are there (AccessBacked), and event flags are used in turn         *)
(* (TypeOK).                                                               *)
(***************************************************************************)
EXTENDS Rma, FiniteSetTheorems, WellFoundedInduction, TLAPS

-----------------------------------------------------------------------------
(* Division with remainder by a divisor that is not a literal, and products. *)

LEMMA Division ==
  ASSUME NEW k \in Nat, 0 < k, NEW a \in Nat
  PROVE  /\ a \div k \in Int
         /\ a % k \in 0 .. k - 1
         /\ a = k * (a \div k) + (a % k)
OBVIOUS

LEMMA MultipleAtLeast ==
  ASSUME NEW k \in Nat, 0 < k, NEW m \in Int, 1 <= m
  PROVE  k <= k * m
OBVIOUS

LEMMA Distribute ==
  ASSUME NEW k \in Nat, NEW m \in Int, NEW n \in Int
  PROVE  /\ k * m - k * n = k * (m - n) /\ k * m + k * n = k * (m + n)
         /\ k * m \in Int /\ k * (m - n) \in Int /\ k * (m + n) \in Int
OBVIOUS

LEMMA Associate ==
  ASSUME NEW k \in Nat, NEW m \in Nat, NEW n \in Int
  PROVE  (k * m) * n = k * (m * n) /\ m * n \in Int /\ k * m \in Nat
OBVIOUS

-----------------------------------------------------------------------------
(* The inductive invariant.                                                *)

Opening == {"init", "state", "device", "reserve", "transport", "open", "map", "connect",
  "ips", "mrs", "rdma", "setup", "pids", "handles", "mapping", "team", "pool",
  "counters", "sync", "final"}
Ending == {"unmap", "transports", "boot", "ended"}

(* The collective calls a PE has entered at each place of shmem_init_attr. *)
Before == [init |-> 0, state |-> 0, device |-> 0, reserve |-> 0, transport |-> 0,
  open |-> 1, map |-> 1, connect |-> 2, ips |-> 3, mrs |-> 4, rdma |-> 5, setup |-> 5,
  pids |-> 6, handles |-> 7, mapping |-> 7, team |-> 7, pool |-> 8, counters |-> 8,
  sync |-> 8, final |-> 9]

(* Those of the application's first k allocations that end in a barrier. *)
Collective(c) ==
  \/ c.op \in {"malloc", "align"}
  \/ c.op = "calloc" /\ ~ Overflows(c.m, c.n)
Meeting(k) == {j \in 1 .. k : Collective(Requests[j])}
Barriers(k) == Cardinality(Meeting(k))

(* The last collective call of a job that does not fail. *)
Final == 10 + Barriers(Len(Requests))

(* n is the number of collective calls entered by a PE at c whose state is h. *)
Counted(c, n, h) ==
  \/ c \in Opening /\ n = Before[c] /\ h.ptr = <<>>
  \/ /\ c \in {"app", "alloc", "run"} /\ n = 9 + Barriers(Len(h.ptr))
     /\ Len(h.ptr) <= Len(Requests)
     /\ c = "run" => Len(h.ptr) = Len(Requests)
  \/ c \in {"done"} \cup Ending /\ n = Final
  \/ c = "failed" /\ n <= 8

(* The places at and after which something holds, up to the end of the run. *)
Working == {"final"} \cup Running
Cleared == {"counters", "sync"} \cup Working
Pooled == {"pool"} \cup Cleared
Mapped == {"team"} \cup Pooled
Imported == {"mapping"} \cup Mapped
Reserved == {"pids", "handles"} \cup Imported
Known == {"connect", "ips", "mrs", "rdma", "setup"} \cup Reserved
Physical == {"transport", "open", "map"} \cup Known

(* The PEs that p takes for those of its host, for the hash it has of its  *)
(* own and those it has gathered.                                          *)
Peers(p, hash, info) == {q \in PE \ {p} : info[q] = hash}

(* MTE leads to the PEs with the same hash, RDMA to all but the own one. *)
Leads(p, topo, hash, info) ==
  \A q \in PE : /\ "mte" \in topo[q] <=> info[q] = hash
                /\ "roce" \in topo[q] <=> q # p

(* What PE p has set up at c, where its state is h. *)
Built(p, c, h) ==
  /\ c \in Physical => h.phys
  /\ c \in Known => Leads(p, h.topo, h.hash, h.info)
  /\ c \in Reserved => h.reserved = Peers(p, h.hash, h.info)
  /\ c \in Imported => h.imported = h.reserved /\ h.reserved \subseteq Near(p)
  /\ c \in Mapped => h.mapped = h.reserved /\ h.p2p = h.reserved \cup {p}
  /\ c \in Pooled => h.pool = Place({}, 1, PoolSize)
  /\ c \in Cleared => h.pool # Null /\ h.dirt \cap Span(h.pool, PoolSize) = {}
  /\ c \in Working => /\ h.registered /\ h.initialized
                      /\ h.device => h.dev = Device(h)

(* Blocks in use lie in the heap. *)
InHeap(used) == \A b \in used : b.offset + b.size <= HeapSize

Good(p, c, n, h) ==
  h \in Hosts /\ InHeap(h.used) /\ Counted(c, n, h) /\ Built(p, c, h)

(* A PE is past the initialisation, or the run, when all have entered the  *)
(* last collective call in it.                                             *)
Allowed(c) ==
  /\ c \in Running \cup Ending => \A q \in PE : round[q] >= 9
  /\ c \in Ending => \A q \in PE : round[q] >= Final

JobInv ==
  /\ pc \in [PE -> Places] /\ round \in [PE -> Nat]
  /\ host \in [PE -> Hosts] /\ faulty \subseteq PE
  /\ \A p \in PE : Good(p, pc[p], round[p], host[p]) /\ Allowed(pc[p])

-----------------------------------------------------------------------------
(* Numbers, sequences and the allocator.                                   *)

LEMMA Smallest ==
  ASSUME NEW T \in SUBSET Nat, T # {}
  PROVE  \E x \in T : \A y \in T : x <= y
<1> DEFINE R == {ss \in Nat \X Nat : ss[1] < ss[2]}
<1>1. IsWellFoundedOn(R, Nat)
  BY NatLessThanWellFounded DEF OpToRel
<1>2. \E x \in T : \A y \in T : ~ (<<y, x>> \in R)
  BY <1>1, WFMin
<1>3. \A x, y \in Nat : <<y, x>> \in R <=> y < x
  OBVIOUS
<1> HIDE DEF R
<1>4. PICK x \in T : \A y \in T : ~ (<<y, x>> \in R)
  BY <1>2
<1>5. \A y \in T : ~ (y < x)
  BY <1>3, <1>4, Zenon
<1>6. \A y \in T : x <= y
  BY <1>5
<1> QED BY <1>6

LEMMA AlignUpHolds ==
  ASSUME NEW n \in Nat
  PROVE  AlignUp(n) \in Nat /\ n <= AlignUp(n)
<1> DEFINE a == n + Grain - 1
           q == a \div Grain
<1>1. Grain \in Nat /\ 0 < Grain /\ a \in Nat
  BY JobAssumption
<1>2. q \in Int /\ a % Grain \in 0 .. Grain - 1 /\ a = Grain * q + (a % Grain)
  BY <1>1, Division
<1>3. AlignUp(n) = Grain * q
  BY <1>1, <1>2 DEF AlignUp
<1>4. Grain * q \in Int
  BY <1>1, <1>2, Distribute
<1> HIDE DEF q
<1> QED BY <1>1, <1>2, <1>3, <1>4

LEMMA SkipType ==
  ASSUME NEW g, g.offset \in Nat, NEW a \in Nat, 0 < a
  PROVE  Skip(g, a) \in Nat
<1>1. g.offset % a \in 0 .. a - 1
  BY Division
<1>2. a - (g.offset % a) \in Nat
  BY <1>1
<1>3. (a - (g.offset % a)) % a \in 0 .. a - 1
  BY <1>2, Division
<1> QED BY <1>3 DEF Skip

(* The idle stretches lie in the heap. *)
LEMMA IdleTypes ==
  ASSUME NEW used \in SUBSET Blocks, InHeap(used), NEW g \in Idle(used)
  PROVE  /\ g.offset \in Nat /\ g.size \in Nat
         /\ g.offset + g.size <= HeapSize
<1>1. HeapSize \in Nat
  BY JobAssumption
<1>2. PICK o \in {0} \cup {b.offset + b.size : b \in used},
           e \in {HeapSize} \cup {b.offset : b \in used} : g = Block(o, e - o)
  BY DEF Idle
<1>3. o \in Nat
  BY DEF Blocks
<1>4. e \in Nat /\ e <= HeapSize
  BY <1>1 DEF Blocks, InHeap
<1>5. 0 < g.size
  BY DEF Idle
<1>6. g.offset = o /\ g.size = e - o
  BY <1>2 DEF Block
<1> QED BY <1>1, <1>3, <1>4, <1>5, <1>6

(* An allocation succeeds in an idle stretch that is large enough. *)
LEMMA PlaceFits ==
  ASSUME NEW used \in SUBSET Blocks, InHeap(used), NEW a \in Nat, 0 < a, NEW n \in Nat,
         Place(used, a, n) # Null
  PROVE  /\ n \in 1 .. HeapSize
         /\ \E g \in Idle(used) : /\ Skip(g, a) \in Nat
                                  /\ Skip(g, a) + AlignUp(n) <= g.size
                                  /\ Place(used, a, n) = g.offset + Skip(g, a)
<1> DEFINE F == Fitting(used, a, n)
           o == Place(used, a, n)
<1>1. n \in 1 .. HeapSize /\ PowerOfTwo(a) /\ F # {}
  BY DEF Place
<1>2. \A g \in F : /\ g \in Idle(used)
                   /\ g.offset \in Nat /\ g.size \in Nat /\ Skip(g, a) \in Nat
                   /\ Skip(g, a) + AlignUp(n) <= g.size
  <2> TAKE g \in F
  <2>1. g \in Idle(used) /\ Skip(g, a) + AlignUp(n) <= g.size
    BY DEF Fitting
  <2>2. g.offset \in Nat /\ g.size \in Nat
    BY <2>1, IdleTypes
  <2> QED BY <2>1, <2>2, SkipType
<1>3. PICK s \in {g.size : g \in F} : \A t \in {g.size : g \in F} : s <= t
  <2>1. {g.size : g \in F} \in SUBSET Nat /\ {g.size : g \in F} # {}
    BY <1>1, <1>2
  <2> QED BY <2>1, Smallest
<1> DEFINE G == {g \in F : g.size = s}
<1>4. PICK x \in {g.offset : g \in G} : \A y \in {g.offset : g \in G} : x <= y
  <2>1. {g.offset : g \in G} \in SUBSET Nat /\ {g.offset : g \in G} # {}
    BY <1>2, <1>3
  <2> QED BY <2>1, Smallest
<1>5. PICK g \in F : g.size = s /\ g.offset = x
  BY <1>4
<1>6. \A h \in F : g.size < h.size \/ (g.size = h.size /\ g.offset <= h.offset)
  <2> TAKE h \in F
  <2>1. s \in Nat /\ s <= h.size /\ h.size \in Nat /\ h.offset \in Nat
    BY <1>2, <1>3, <1>5
  <2>2. h.size = s => x <= h.offset
    BY <1>4
  <2> QED BY <1>5, <2>1, <2>2
<1> DEFINE Least(k) ==
      \A h \in F : k.size < h.size \/ (k.size = h.size /\ k.offset <= h.offset)
    k == CHOOSE k \in F : Least(k)
<1>7. k \in F
  BY <1>6
<1>8. o = k.offset + Skip(k, a)
  BY <1>1 DEF Place
<1> HIDE DEF k, F, o
<1>9. k \in Idle(used) /\ Skip(k, a) \in Nat /\ Skip(k, a) + AlignUp(n) <= k.size
  BY <1>2, <1>7
<1> QED BY <1>1, <1>8, <1>9 DEF o

(* What is allocated lies in the heap. *)
LEMMA PlaceInHeap ==
  ASSUME NEW used \in SUBSET Blocks, InHeap(used), NEW a \in Nat, 0 < a, NEW n \in Nat
  PROVE  LET o == Place(used, a, n) IN
         /\ o \in {Null} \cup Cells
         /\ o # Null => o \in Nat /\ 0 < n /\ o + AlignUp(n) <= HeapSize
<1> DEFINE o == Place(used, a, n)
<1>1. HeapSize \in Nat
  BY JobAssumption
<1>2. ASSUME o # Null
      PROVE  o \in Cells /\ o \in Nat /\ 0 < n /\ o + AlignUp(n) <= HeapSize
  <2>1. PICK g \in Idle(used) : /\ Skip(g, a) \in Nat /\ Skip(g, a) + AlignUp(n) <= g.size
                               /\ o = g.offset + Skip(g, a)
    BY <1>2, PlaceFits
  <2>2. n \in 1 .. HeapSize
    BY <1>2, PlaceFits
  <2>3. g.offset \in Nat /\ g.size \in Nat /\ g.offset + g.size <= HeapSize
    BY IdleTypes
  <2>4. AlignUp(n) \in Nat /\ n <= AlignUp(n)
    BY AlignUpHolds
  <2> HIDE DEF o
  <2>5. o \in Cells /\ o \in Nat /\ 0 < n /\ o + AlignUp(n) <= HeapSize
    BY <1>1, <2>1, <2>2, <2>3, <2>4 DEF Cells
  <2> QED BY <2>5
<1> QED BY <1>2

(* What is allocated is apart from all that is in use. *)
LEMMA PlaceApart ==
  ASSUME NEW used \in SUBSET Blocks, InHeap(used), NEW a \in Nat, 0 < a, NEW n \in Nat,
         Place(used, a, n) # Null, NEW b \in used
  PROVE  \/ b.offset + b.size <= Place(used, a, n)
         \/ Place(used, a, n) + AlignUp(n) <= b.offset
<1> DEFINE o == Place(used, a, n)
<1>1. PICK g \in Idle(used) : /\ Skip(g, a) \in Nat /\ Skip(g, a) + AlignUp(n) <= g.size
                             /\ o = g.offset + Skip(g, a)
  BY PlaceFits
<1>2. g.offset \in Nat /\ g.size \in Nat
  BY IdleTypes
<1>3. b.offset + b.size <= g.offset \/ g.offset + g.size <= b.offset
  BY DEF Idle
<1>4. AlignUp(n) \in Nat
  BY AlignUpHolds
<1>5. b.offset \in Nat /\ b.size \in Nat
  BY DEF Blocks
<1> HIDE DEF o
<1>6. b.offset + b.size <= o \/ o + AlignUp(n) <= b.offset
  BY <1>1, <1>2, <1>3, <1>4, <1>5
<1> QED BY <1>6 DEF o

(* A block that is allocated starts at a place of its own. *)
LEMMA PlaceDistinct ==
  ASSUME NEW used \in SUBSET Blocks, InHeap(used), NEW a \in Nat, 0 < a, NEW n \in Nat,
         Place(used, a, n) # Null, NEW b \in used
  PROVE  b.offset # Place(used, a, n)
<1> DEFINE o == Place(used, a, n)
<1>1. o \in Nat /\ 0 < n
  BY PlaceInHeap
<1>2. b.offset + b.size <= o \/ o + AlignUp(n) <= b.offset
  BY PlaceApart
<1>3. AlignUp(n) \in Nat /\ n <= AlignUp(n)
  BY AlignUpHolds
<1>4. b.offset \in Nat /\ b.size \in Nat /\ 0 < b.size
  BY DEF Blocks
<1> HIDE DEF o
<1>5. b.offset # o
  BY <1>1, <1>2, <1>3, <1>4
<1> QED BY <1>5 DEF o

(* How many of the application's allocations end in a barrier. *)
LEMMA BarriersType ==
  ASSUME NEW k \in Nat
  PROVE  IsFiniteSet(Meeting(k)) /\ Barriers(k) \in Nat
<1>1. IsFiniteSet(1 .. k)
  BY FS_Interval
<1>2. IsFiniteSet(Meeting(k))
  BY <1>1, FS_Subset DEF Meeting
<1> QED BY <1>2, FS_CardinalityType DEF Barriers

LEMMA BarriersZero == Barriers(0) = 0
<1>1. Meeting(0) = {}
  BY DEF Meeting
<1> QED BY <1>1, FS_EmptySet DEF Barriers

LEMMA BarriersNext ==
  ASSUME NEW k \in Nat
  PROVE  /\ Collective(Requests[k + 1]) => Barriers(k + 1) = Barriers(k) + 1
         /\ ~ Collective(Requests[k + 1]) => Barriers(k + 1) = Barriers(k)
<1>1. IsFiniteSet(Meeting(k)) /\ k + 1 \notin Meeting(k)
  BY BarriersType DEF Meeting
<1>2. CASE Collective(Requests[k + 1])
  <2>1. Meeting(k + 1) = Meeting(k) \cup {k + 1}
    BY <1>2 DEF Meeting
  <2> QED BY <1>1, <1>2, <2>1, FS_AddElement DEF Barriers
<1>3. CASE ~ Collective(Requests[k + 1])
  <2>1. Meeting(k + 1) = Meeting(k)
    BY <1>3 DEF Meeting
  <2> QED BY <1>3, <2>1 DEF Barriers
<1> QED BY <1>2, <1>3

LEMMA BarriersGrow ==
  ASSUME NEW k \in Nat, k <= Len(Requests)
  PROVE  Barriers(k) <= Barriers(Len(Requests))
<1>1. Len(Requests) \in Nat
  BY JobAssumption
<1>2. IsFiniteSet(Meeting(Len(Requests)))
  BY <1>1, BarriersType
<1>3. Meeting(k) \subseteq Meeting(Len(Requests))
  BY <1>1 DEF Meeting
<1> QED BY <1>2, <1>3, FS_Subset DEF Barriers

LEMMA FinalType == Final \in Nat /\ 10 <= Final
<1>1. Barriers(Len(Requests)) \in Nat
  BY JobAssumption, BarriersType
<1> QED BY <1>1 DEF Final

-----------------------------------------------------------------------------
(* A step of one PE.                                                       *)

(* PE p goes on to c, where it has entered n collective calls and its state *)
(* is h.                                                                   *)
Moves(p, c, n, h) ==
  /\ c \in Places /\ n \in {round[p], round[p] + 1}
  /\ pc' = [pc EXCEPT ![p] = c]
  /\ round' = [round EXCEPT ![p] = n]
  /\ host' = [host EXCEPT ![p] = h]
  /\ faulty' \subseteq PE

LEMMA MoveKeeps ==
  ASSUME JobInv, NEW p \in PE, NEW c, NEW n, NEW h,
         Moves(p, c, n, h), Good(p, c, n, h), Allowed(c)
  PROVE  JobInv'
<1>1. /\ round[p] \in Nat /\ n \in Nat /\ round[p] <= n
  BY DEF JobInv, Moves
<1>2. \A q \in PE : round[q] \in Nat /\ round'[q] \in Nat /\ round[q] <= round'[q]
  BY <1>1 DEF JobInv, Moves
<1>3. /\ pc' \in [PE -> Places] /\ round' \in [PE -> Nat]
      /\ host' \in [PE -> Hosts] /\ faulty' \subseteq PE
  BY <1>1 DEF JobInv, Moves, Good
<1>4. ASSUME NEW q \in PE
      PROVE  Good(q, pc'[q], round'[q], host'[q])
  <2>1. CASE q = p
    <3>1. pc'[q] = c /\ round'[q] = n /\ host'[q] = h
      BY <2>1 DEF JobInv, Moves
    <3> QED BY <2>1, <3>1
  <2>2. CASE q # p
    <3>1. pc'[q] = pc[q] /\ round'[q] = round[q] /\ host'[q] = host[q]
      BY <2>2 DEF JobInv, Moves
    <3> QED BY <3>1 DEF JobInv
  <2> QED BY <2>1, <2>2
<1>5. ASSUME NEW q \in PE
      PROVE  Allowed(pc[q])'
  <2>1. Allowed(pc'[q])
    BY DEF JobInv, Moves
  <2> QED BY <1>2, <2>1, FinalType DEF Allowed
<1> QED BY <1>3, <1>4, <1>5 DEF JobInv

(* What the invariant says of one PE. *)
LEMMA Here ==
  ASSUME JobInv, NEW p \in PE
  PROVE  /\ host[p] \in Hosts /\ pc[p] \in Places /\ round[p] \in Nat
         /\ InHeap(host[p].used) /\ Counted(pc[p], round[p], host[p])
         /\ Built(p, pc[p], host[p]) /\ Allowed(pc[p])
         /\ round = [round EXCEPT ![p] = round[p]]
         /\ host = [host EXCEPT ![p] = host[p]]
BY DEF JobInv, Good

(* Nobody has to wait for a place in the initialisation. *)
LEMMA OpeningAllowed ==
  ASSUME NEW c \in Opening \cup {"failed"}
  PROVE  Allowed(c)
BY DEF Allowed, Opening, Running, Ending

LEMMA shmemi_bootstrap_initKeeps ==
  ASSUME JobInv, NEW p \in PE, shmemi_bootstrap_init(p)
  PROVE  JobInv'
<1>1. /\ host[p] \in Hosts /\ InHeap(host[p].used) /\ round[p] \in Nat
      /\ pc[p] = "init" /\ Counted("init", round[p], host[p]) /\ Built(p, "init", host[p])
  BY Here DEF shmemi_bootstrap_init, At
<1> DEFINE h == [host[p] EXCEPT !.boot = shmemi_bootstrap_plugin_init(@)]
<1>3. Moves(p, "state", round[p], h)
  BY <1>1, Here DEF Moves, shmemi_bootstrap_init, Goto, At, Fine, Places, JobInv
<1>4. h \in Hosts
  BY <1>1 DEF Hosts, shmemi_bootstrap_plugin_init
<1>5. Counted("state", round[p], h)
  BY <1>1 DEF Counted, Opening, Ending, Before, Hosts
<1>6. Built(p, "state", h)
  BY <1>1 DEF Built, Hosts, Physical, Known, Reserved, Imported, Mapped, Pooled, Cleared,
    Working, Running
<1>7. InHeap(h.used)
  BY <1>1 DEF Hosts
<1> QED BY <1>3, <1>4, <1>5, <1>6, <1>7, OpeningAllowed, MoveKeeps DEF Good, Opening

LEMMA shmemi_state_init_attrKeeps ==
  ASSUME JobInv, NEW p \in PE, shmemi_state_init_attr(p)
  PROVE  JobInv'
<1>1. /\ host[p] \in Hosts /\ InHeap(host[p].used) /\ round[p] \in Nat
      /\ pc[p] = "state" /\ Counted("state", round[p], host[p]) /\ Built(p, "state", host[p])
  BY Here DEF shmemi_state_init_attr, At
<1>2. PICK found \in BOOLEAN, right \in BOOLEAN, named \in BOOLEAN :
        /\ found => right
        /\ Dropped(p, found /\ named)
        /\ host' = [host EXCEPT ![p].device = right,
                                ![p].hash = IF named THEN {HostOf[p]} ELSE {}]
  BY DEF shmemi_state_init_attr
<1> DEFINE hash == IF named THEN {HostOf[p]} ELSE {}
           h == [host[p] EXCEPT !.device = right, !.hash = hash]
<1>3. Moves(p, "device", round[p], h)
  BY <1>1, <1>2, Here DEF Moves, shmemi_state_init_attr, Goto, At, Fine, Places, JobInv, Dropped
<1>8. hash \in Hashes
  BY DEF Hashes
<1> HIDE DEF hash
<1>4. h \in Hosts
  BY <1>1, <1>2, <1>8 DEF Hosts
<1>5. Counted("device", round[p], h)
  BY <1>1 DEF Counted, Opening, Ending, Before, Hosts
<1>6. Built(p, "device", h)
  BY <1>1 DEF Built, Hosts, Physical, Known, Reserved, Imported, Mapped, Pooled, Cleared,
    Working, Running
<1>7. InHeap(h.used)
  BY <1>1 DEF Hosts
<1> QED BY <1>3, <1>4, <1>5, <1>6, <1>7, OpeningAllowed, MoveKeeps DEF Good, Opening

LEMMA init_device_stateKeeps ==
  ASSUME JobInv, NEW p \in PE, init_device_state(p)
  PROVE  JobInv'
<1>1. /\ host[p] \in Hosts /\ InHeap(host[p].used) /\ round[p] \in Nat
      /\ pc[p] = "device" /\ Counted("device", round[p], host[p]) /\ Built(p, "device", host[p])
  BY Here DEF init_device_state, At
<1>2. PICK good \in BOOLEAN :
        Dropped(p, good) /\ host' = [host EXCEPT ![p] = global_state_reigister(@, good)]
  BY DEF init_device_state
<1> DEFINE h == [host[p] EXCEPT !.registered = good]
<1>3. Moves(p, "reserve", round[p], h)
  BY <1>1, <1>2, Here DEF Moves, init_device_state, Goto, At, Fine, Places, JobInv,
    Dropped, global_state_reigister
<1>4. h \in Hosts
  BY <1>1, <1>2 DEF Hosts
<1>5. Counted("reserve", round[p], h)
  BY <1>1 DEF Counted, Opening, Ending, Before, Hosts
<1>6. Built(p, "reserve", h)
  BY <1>1 DEF Built, Hosts, Physical, Known, Reserved, Imported, Mapped, Pooled, Cleared,
    Working, Running
<1>7. InHeap(h.used)
  BY <1>1 DEF Hosts
<1> QED BY <1>3, <1>4, <1>5, <1>6, <1>7, OpeningAllowed, MoveKeeps DEF Good, Opening

LEMMA reserve_heapKeeps ==
  ASSUME JobInv, NEW p \in PE, reserve_heap(p)
  PROVE  JobInv'
<1>1. /\ host[p] \in Hosts /\ InHeap(host[p].used) /\ round[p] \in Nat
      /\ pc[p] = "reserve" /\ Counted("reserve", round[p], host[p]) /\ Built(p, "reserve", host[p])
  BY Here DEF reserve_heap, At
<1> DEFINE h == [host[p] EXCEPT !.phys = TRUE]
<1>3. Moves(p, "transport", round[p], h)
  BY <1>1, Here DEF Moves, reserve_heap, Goto, At, Fine, Places, JobInv
<1>4. h \in Hosts
  BY <1>1 DEF Hosts
<1>5. Counted("transport", round[p], h)
  BY <1>1 DEF Counted, Opening, Ending, Before, Hosts
<1>6. Built(p, "transport", h)
  BY <1>1 DEF Built, Hosts, Physical, Known, Reserved, Imported, Mapped, Pooled, Cleared,
    Working, Running
<1>7. InHeap(h.used)
  BY <1>1 DEF Hosts
<1> QED BY <1>3, <1>4, <1>5, <1>6, <1>7, OpeningAllowed, MoveKeeps DEF Good, Opening

LEMMA shmemi_transport_loadKeeps ==
  ASSUME JobInv, NEW p \in PE, shmemi_transport_load(p)
  PROVE  JobInv'
<1>1. /\ host[p] \in Hosts /\ InHeap(host[p].used) /\ round[p] \in Nat
      /\ pc[p] = "transport" /\ Counted("transport", round[p], host[p]) /\ Built(p, "transport", host[p])
  BY Here DEF shmemi_transport_load, At
<1> DEFINE h == host[p]
<1>3. Moves(p, "open", round[p] + 1, h)
  BY <1>1, Here DEF Moves, shmemi_transport_load, Enter, At, Fine, Places, JobInv
<1>4. h \in Hosts
  BY <1>1 DEF Hosts
<1>5. Counted("open", round[p] + 1, h)
  BY <1>1 DEF Counted, Opening, Ending, Before, Hosts
<1>6. Built(p, "open", h)
  BY <1>1 DEF Built, Hosts, Physical, Known, Reserved, Imported, Mapped, Pooled, Cleared,
    Working, Running
<1>7. InHeap(h.used)
  BY <1>1 DEF Hosts
<1> QED BY <1>3, <1>4, <1>5, <1>6, <1>7, OpeningAllowed, MoveKeeps DEF Good, Opening

LEMMA shmemi_transport_initKeeps ==
  ASSUME JobInv, NEW p \in PE, shmemi_transport_init(p)
  PROVE  JobInv'
<1>1. /\ host[p] \in Hosts /\ InHeap(host[p].used) /\ round[p] \in Nat
      /\ pc[p] = "open" /\ Counted("open", round[p], host[p]) /\ Built(p, "open", host[p])
  BY Here DEF shmemi_transport_init, At
<1> DEFINE info == [q \in PE |-> host[q].hash]
<1>2. PICK good \in BOOLEAN :
        /\ Dropped(p, good)
        /\ host' = [host EXCEPT ![p] = shmemi_rdma_init([host[p] EXCEPT !.info = info], good)]
  BY DEF shmemi_transport_init
<1>8. info \in [PE -> Hashes]
  BY DEF JobInv, Hosts
<1> HIDE DEF info
<1> DEFINE h == [host[p] EXCEPT !.info = info, !.nic = good]
<1>9. shmemi_rdma_init([host[p] EXCEPT !.info = info], good) = h
  BY <1>1 DEF shmemi_rdma_init, Hosts
<1>3. Moves(p, "map", round[p], h)
  BY <1>1, <1>2, <1>9, Here DEF Moves, shmemi_transport_init, Goto, At, Fine, Places, JobInv,
    Dropped
<1>4. h \in Hosts
  BY <1>1, <1>2, <1>8 DEF Hosts
<1>5. Counted("map", round[p], h)
  BY <1>1 DEF Counted, Opening, Ending, Before, Hosts
<1>6. Built(p, "map", h)
  BY <1>1 DEF Built, Hosts, Physical, Known, Reserved, Imported, Mapped, Pooled, Cleared,
    Working, Running
<1>7. InHeap(h.used)
  BY <1>1 DEF Hosts
<1> QED BY <1>3, <1>4, <1>5, <1>6, <1>7, OpeningAllowed, MoveKeeps DEF Good, Opening

LEMMA shmemi_mte_connect_peersKeeps ==
  ASSUME JobInv, NEW p \in PE, shmemi_mte_connect_peers(p)
  PROVE  JobInv'
<1>1. /\ host[p] \in Hosts /\ InHeap(host[p].used) /\ round[p] \in Nat
      /\ pc[p] = "connect" /\ Counted("connect", round[p], host[p]) /\ Built(p, "connect", host[p])
  BY Here DEF shmemi_mte_connect_peers, At
<1>2. PICK S \in SUBSET MtePeers(p) :
        Dropped(p, S = MtePeers(p)) /\ host' = [host EXCEPT ![p].peers = S]
  BY DEF shmemi_mte_connect_peers
<1> DEFINE h == [host[p] EXCEPT !.peers = S]
<1>3. Moves(p, "ips", round[p] + 1, h)
  BY <1>1, <1>2, Here DEF Moves, shmemi_mte_connect_peers, Enter, At, Fine, Places, JobInv,
    Dropped
<1>4. h \in Hosts
  BY <1>1, <1>2 DEF Hosts, MtePeers
<1>5. Counted("ips", round[p] + 1, h)
  BY <1>1 DEF Counted, Opening, Ending, Before, Hosts
<1>6. Built(p, "ips", h)
  BY <1>1 DEF Built, Hosts, Physical, Known, Reserved, Imported, Mapped, Pooled, Cleared,
    Working, Running
<1>7. InHeap(h.used)
  BY <1>1 DEF Hosts
<1> QED BY <1>3, <1>4, <1>5, <1>6, <1>7, OpeningAllowed, MoveKeeps DEF Good, Opening

LEMMA GatherIpsKeeps ==
  ASSUME JobInv, NEW p \in PE, GatherIps(p)
  PROVE  JobInv'
<1>1. /\ host[p] \in Hosts /\ InHeap(host[p].used) /\ round[p] \in Nat
      /\ pc[p] = "ips" /\ Counted("ips", round[p], host[p]) /\ Built(p, "ips", host[p])
  BY Here DEF GatherIps, At
<1> DEFINE h == host[p]
<1>3. Moves(p, "mrs", round[p] + 1, h)
  BY <1>1, Here DEF Moves, GatherIps, Enter, At, Fine, Places, JobInv
<1>4. h \in Hosts
  BY <1>1 DEF Hosts
<1>5. Counted("mrs", round[p] + 1, h)
  BY <1>1 DEF Counted, Opening, Ending, Before, Hosts
<1>6. Built(p, "mrs", h)
  BY <1>1 DEF Built, Hosts, Physical, Known, Reserved, Imported, Mapped, Pooled, Cleared,
    Working, Running
<1>7. InHeap(h.used)
  BY <1>1 DEF Hosts
<1> QED BY <1>3, <1>4, <1>5, <1>6, <1>7, OpeningAllowed, MoveKeeps DEF Good, Opening

LEMMA GatherMrsKeeps ==
  ASSUME JobInv, NEW p \in PE, GatherMrs(p)
  PROVE  JobInv'
<1>1. /\ host[p] \in Hosts /\ InHeap(host[p].used) /\ round[p] \in Nat
      /\ pc[p] = "mrs" /\ Counted("mrs", round[p], host[p]) /\ Built(p, "mrs", host[p])
  BY Here DEF GatherMrs, At
<1> DEFINE h == host[p]
<1>3. Moves(p, "rdma", round[p] + 1, h)
  BY <1>1, Here DEF Moves, GatherMrs, Enter, At, Fine, Places, JobInv
<1>4. h \in Hosts
  BY <1>1 DEF Hosts
<1>5. Counted("rdma", round[p] + 1, h)
  BY <1>1 DEF Counted, Opening, Ending, Before, Hosts
<1>6. Built(p, "rdma", h)
  BY <1>1 DEF Built, Hosts, Physical, Known, Reserved, Imported, Mapped, Pooled, Cleared,
    Working, Running
<1>7. InHeap(h.used)
  BY <1>1 DEF Hosts
<1> QED BY <1>3, <1>4, <1>5, <1>6, <1>7, OpeningAllowed, MoveKeeps DEF Good, Opening

LEMMA shmemi_rdma_connect_peersKeeps ==
  ASSUME JobInv, NEW p \in PE, shmemi_rdma_connect_peers(p)
  PROVE  JobInv'
<1>1. /\ host[p] \in Hosts /\ InHeap(host[p].used) /\ round[p] \in Nat
      /\ pc[p] = "rdma" /\ Counted("rdma", round[p], host[p]) /\ Built(p, "rdma", host[p])
  BY Here DEF shmemi_rdma_connect_peers, At
<1>2. PICK good \in BOOLEAN :
        /\ Dropped(p, good)
        /\ host' = [host EXCEPT ![p].rdma = PE, ![p].nic = @ /\ good]
  BY DEF shmemi_rdma_connect_peers
<1> DEFINE h == [host[p] EXCEPT !.rdma = PE, !.nic = @ /\ good]
<1>3. Moves(p, "setup", round[p], h)
  BY <1>1, <1>2, Here DEF Moves, shmemi_rdma_connect_peers, Goto, At, Fine, Places, JobInv,
    Dropped
<1>4. h \in Hosts
  <2>1. host[p].nic \in BOOLEAN
    BY <1>1 DEF Hosts
  <2>2. \A b \in BOOLEAN : [host[p] EXCEPT !.rdma = PE, !.nic = b] \in Hosts
    BY <1>1 DEF Hosts
  <2>3. (host[p].nic /\ good) \in BOOLEAN
    OBVIOUS
  <2> QED BY <2>2, <2>3, Zenon
<1>5. Counted("setup", round[p], h)
  BY <1>1 DEF Counted, Opening, Ending, Before, Hosts
<1>6. Built(p, "setup", h)
  BY <1>1 DEF Built, Hosts, Physical, Known, Reserved, Imported, Mapped, Pooled, Cleared,
    Working, Running
<1>7. InHeap(h.used)
  BY <1>1 DEF Hosts
<1> QED BY <1>3, <1>4, <1>5, <1>6, <1>7, OpeningAllowed, MoveKeeps DEF Good, Opening

LEMMA export_memoryKeeps ==
  ASSUME JobInv, NEW p \in PE, export_memory(p)
  PROVE  JobInv'
<1>1. /\ host[p] \in Hosts /\ InHeap(host[p].used) /\ round[p] \in Nat
      /\ pc[p] = "setup" /\ Counted("setup", round[p], host[p]) /\ Built(p, "setup", host[p])
  BY Here DEF export_memory, At
<1> DEFINE h == [host[p] EXCEPT !.reserved = MtePeers(p)]
<1>3. Moves(p, "pids", round[p] + 1, h)
  BY <1>1, Here DEF Moves, export_memory, Enter, At, Fine, Places, JobInv
<1>4. h \in Hosts
  BY <1>1 DEF Hosts, MtePeers
<1>5. Counted("pids", round[p] + 1, h)
  BY <1>1 DEF Counted, Opening, Ending, Before, Hosts
<1>6. Built(p, "pids", h)
  BY <1>1 DEF Built, Leads, Hosts, MtePeers, Peers, Physical, Known, Reserved, Imported,
    Mapped, Pooled, Cleared, Working, Running
<1>7. InHeap(h.used)
  BY <1>1 DEF Hosts
<1> QED BY <1>3, <1>4, <1>5, <1>6, <1>7, OpeningAllowed, MoveKeeps DEF Good, Opening

LEMMA setup_heapKeeps ==
  ASSUME JobInv, NEW p \in PE, setup_heap(p)
  PROVE  JobInv'
<1>1. /\ host[p] \in Hosts /\ InHeap(host[p].used) /\ round[p] \in Nat
      /\ pc[p] = "mapping" /\ Counted("mapping", round[p], host[p]) /\ Built(p, "mapping", host[p])
  BY Here DEF setup_heap, At
<1> DEFINE h == [host[p] EXCEPT !.mapped = host[p].imported, !.p2p = host[p].reserved \cup {p}, !.created = TRUE]
<1>3. Moves(p, "team", round[p], h)
  BY <1>1, Here DEF Moves, setup_heap, Goto, At, Fine, Places, JobInv, BasesNoted
<1>4. h \in Hosts
  BY <1>1 DEF Hosts
<1>5. Counted("team", round[p], h)
  BY <1>1 DEF Counted, Opening, Ending, Before, Hosts
<1>6. Built(p, "team", h)
  BY <1>1 DEF Built, Hosts, Physical, Known, Reserved, Imported, Mapped, Pooled, Cleared,
    Working, Running
<1>7. InHeap(h.used)
  BY <1>1 DEF Hosts
<1> QED BY <1>3, <1>4, <1>5, <1>6, <1>7, OpeningAllowed, MoveKeeps DEF Good, Opening

LEMMA SyncAreasKeeps ==
  ASSUME JobInv, NEW p \in PE, SyncAreas(p)
  PROVE  JobInv'
<1>1. /\ host[p] \in Hosts /\ InHeap(host[p].used) /\ round[p] \in Nat
      /\ pc[p] = "counters" /\ Counted("counters", round[p], host[p]) /\ Built(p, "counters", host[p])
  BY Here DEF SyncAreas, At
<1> DEFINE h == [host[p] EXCEPT !.counters = 3]
<1>3. Moves(p, "sync", round[p], h)
  BY <1>1, Here DEF Moves, SyncAreas, Goto, At, Fine, Places, JobInv
<1>4. h \in Hosts
  BY <1>1 DEF Hosts
<1>5. Counted("sync", round[p], h)
  BY <1>1 DEF Counted, Opening, Ending, Before, Hosts
<1>6. Built(p, "sync", h)
  BY <1>1 DEF Built, Hosts, Physical, Known, Reserved, Imported, Mapped, Pooled, Cleared,
    Working, Running
<1>7. InHeap(h.used)
  BY <1>1 DEF Hosts
<1> QED BY <1>3, <1>4, <1>5, <1>6, <1>7, OpeningAllowed, MoveKeeps DEF Good, Opening

(* The steps that look at other PEs or may fail. *)

LEMMA shmemi_build_transport_mapKeeps ==
  ASSUME JobInv, NEW p \in PE, shmemi_build_transport_map(p)
  PROVE  JobInv'
<1>1. /\ host[p] \in Hosts /\ InHeap(host[p].used) /\ round[p] \in Nat
      /\ pc[p] = "map" /\ Counted("map", round[p], host[p]) /\ Built(p, "map", host[p])
  BY Here DEF shmemi_build_transport_map, At
<1> DEFINE topo == [q \in PE |->
             {t \in Transports : \/ t = "mte" /\ shmemi_mte_can_access_peer(p, q)
                                 \/ t = "roce" /\ shmemi_rdma_can_access_peer(p, q)}]
           h == [host[p] EXCEPT !.topo = topo]
<1>2. topo \in [PE -> SUBSET Transports]
  OBVIOUS
<1>3. Leads(p, topo, host[p].hash, host[p].info)
  BY DEF Leads, Transports, shmemi_mte_can_access_peer, shmemi_rdma_can_access_peer
<1>4. Moves(p, "connect", round[p] + 1, h)
  BY <1>1, Here DEF Moves, shmemi_build_transport_map, Enter, Fine, Places, JobInv
<1> HIDE DEF topo
<1>5. h \in Hosts
  BY <1>1, <1>2 DEF Hosts
<1>6. Counted("connect", round[p] + 1, h)
  BY <1>1 DEF Counted, Opening, Ending, Before, Hosts
<1>7. Built(p, "connect", h)
  BY <1>1, <1>3 DEF Built, Hosts, Physical, Known, Reserved,
          Imported, Mapped, Pooled, Cleared, Working, Running
<1>8. InHeap(h.used)
  BY <1>1 DEF Hosts
<1> QED BY <1>4, <1>5, <1>6, <1>7, <1>8, OpeningAllowed, MoveKeeps DEF Good, Opening

(* A PE that gives up keeps nothing the invariant speaks of. *)
LEMMA FailureGood ==
  ASSUME NEW p \in PE, NEW h \in Hosts, InHeap(h.used), NEW n \in Nat, n <= 8
  PROVE  Good(p, "failed", n, h)
<1>1. Built(p, "failed", h)
  BY DEF Built, Physical, Known, Reserved,
          Imported, Mapped, Pooled, Cleared, Working, Running
<1>2. Counted("failed", n, h)
  BY DEF Counted
<1> QED BY <1>1, <1>2 DEF Good

LEMMA import_pidKeeps ==
  ASSUME JobInv, NEW p \in PE, import_pid(p)
  PROVE  JobInv'
<1>1. /\ host[p] \in Hosts /\ InHeap(host[p].used) /\ round[p] = 6
      /\ pc[p] = "pids" /\ Counted("pids", round[p], host[p]) /\ Built(p, "pids", host[p])
  BY Here DEF import_pid, At, Counted, Before, Opening, Ending
<1> DEFINE white == host[p].reserved \cup (IF Short(p) THEN {Stray} ELSE {})
<1>2. CASE Enter(p, "handles") /\ host' = [host EXCEPT ![p].white = white]
  <2>1. white \in SUBSET (PE \cup {Stray})
    BY <1>1 DEF Hosts
  <2> HIDE DEF white
  <2> DEFINE h == [host[p] EXCEPT !.white = white]
  <2>2. Moves(p, "handles", round[p] + 1, h)
    BY <1>1, <1>2, Here DEF Moves, import_pid, Enter, Fine, Places, JobInv
  <2>3. h \in Hosts
    BY <1>1, <2>1 DEF Hosts
  <2>4. Counted("handles", round[p] + 1, h)
    BY <1>1 DEF Counted, Opening, Ending, Before, Hosts
  <2>5. Built(p, "handles", h)
    BY <1>1 DEF Built, Hosts, Physical, Known, Reserved,
          Imported, Mapped, Pooled, Cleared, Working, Running
  <2>6. InHeap(h.used)
    BY <1>1 DEF Hosts
  <2> QED BY <2>2, <2>3, <2>4, <2>5, <2>6, OpeningAllowed, MoveKeeps DEF Good, Opening
<1>3. ASSUME NEW r \in {"error", "none"}, Goto(p, "failed"), host' = [host EXCEPT ![p].ret = r]
      PROVE  JobInv'
  <2> DEFINE h == [host[p] EXCEPT !.ret = r]
  <2>1. Moves(p, "failed", round[p], h)
    BY <1>1, <1>3, Here DEF Moves, import_pid, Goto, Fine, Places, JobInv
  <2>2. h \in Hosts /\ InHeap(h.used)
    BY <1>1 DEF Hosts
  <2> HIDE DEF h
  <2>3. Good(p, "failed", round[p], h)
    <3>1. round[p] \in Nat /\ round[p] <= 8
      BY <1>1
    <3> QED BY <2>2, <3>1, FailureGood
  <2> QED BY <2>1, <2>3, OpeningAllowed, MoveKeeps
<1> QED BY <1>2, <1>3 DEF import_pid

LEMMA import_memoryKeeps ==
  ASSUME JobInv, NEW p \in PE, import_memory(p)
  PROVE  JobInv'
<1>1. /\ host[p] \in Hosts /\ InHeap(host[p].used) /\ round[p] = 7
      /\ pc[p] = "handles" /\ Counted("handles", round[p], host[p])
      /\ Built(p, "handles", host[p])
  BY Here DEF import_memory, At, Counted, Before, Opening, Ending
<1> DEFINE Granted == \A q \in host[p].reserved : p \in host[q].white /\ HostOf[q] = HostOf[p]
<1>2. CASE Granted
  <2> DEFINE h == [host[p] EXCEPT !.imported = host[p].reserved]
  <2>1. Moves(p, "mapping", round[p], h)
    BY <1>1, <1>2, Here DEF Moves, import_memory, Goto, Fine, Places, JobInv
  <2>2. h \in Hosts
    BY <1>1 DEF Hosts
  <2>3. Counted("mapping", round[p], h)
    BY <1>1 DEF Counted, Opening, Ending, Before, Hosts
  <2>6. host[p].reserved \subseteq Near(p)
    BY <1>1, <1>2 DEF Built, Reserved, Peers, Near
  <2>4. Built(p, "mapping", h)
    BY <1>1, <2>6 DEF Built, Hosts, Physical, Known, Reserved,
          Imported, Mapped, Pooled, Cleared, Working, Running
  <2>5. InHeap(h.used)
    BY <1>1 DEF Hosts
  <2> QED BY <2>1, <2>2, <2>3, <2>4, <2>5, OpeningAllowed, MoveKeeps DEF Good, Opening
<1>3. CASE ~ Granted
  <2> DEFINE h == [host[p] EXCEPT !.ret = "error"]
  <2>1. Moves(p, "failed", round[p], h)
    BY <1>1, <1>3, Here DEF Moves, import_memory, Goto, Fine, Places, JobInv
  <2>2. h \in Hosts /\ InHeap(h.used)
    BY <1>1 DEF Hosts
  <2> HIDE DEF h
  <2>3. Good(p, "failed", round[p], h)
    <3>1. round[p] \in Nat /\ round[p] <= 8
      BY <1>1
    <3> QED BY <2>2, <3>1, FailureGood
  <2>4. Allowed("failed")
    BY OpeningAllowed
  <2> QED BY <2>1, <2>3, <2>4, MoveKeeps
<1> QED BY <1>2, <1>3

(* The sync pool is the first allocation of a fresh heap. *)
LEMMA PoolPlaced ==
  /\ Place({}, 1, PoolSize) \in {Null} \cup Cells
  /\ LET used == Taken({}, Place({}, 1, PoolSize), PoolSize) IN
     used \in SUBSET Blocks /\ InHeap(used)
<1> DEFINE o == Place({}, 1, PoolSize)
<1>1. PoolSize \in Nat /\ HeapSize \in Nat
  BY JobAssumption
<1>2. /\ o \in {Null} \cup Cells
      /\ o # Null => o \in Nat /\ 0 < PoolSize /\ o + AlignUp(PoolSize) <= HeapSize
  BY <1>1, PlaceInHeap DEF InHeap
<1>3. AlignUp(PoolSize) \in Nat /\ PoolSize <= AlignUp(PoolSize)
  BY <1>1, AlignUpHolds
<1> HIDE DEF o
<1>4. /\ Taken({}, o, PoolSize) \in SUBSET Blocks
      /\ InHeap(Taken({}, o, PoolSize))
  BY <1>1, <1>2, <1>3 DEF Taken, Block, Blocks, InHeap
<1> QED BY <1>2, <1>4 DEF o

LEMMA shmemi_team_initKeeps ==
  ASSUME JobInv, NEW p \in PE, shmemi_team_init(p)
  PROVE  JobInv'
<1>1. /\ host[p] \in Hosts /\ round[p] \in Nat
      /\ pc[p] = "team" /\ Counted("team", round[p], host[p]) /\ Built(p, "team", host[p])
  BY Here DEF shmemi_team_init, At
<1> DEFINE o == Place({}, 1, PoolSize)
           used == Taken({}, o, PoolSize)
           h == [host[p] EXCEPT !.team = TRUE, !.used = used, !.pool = o]
<1>2. [host[p] EXCEPT !.used = {}].used = {}
  BY <1>1 DEF Hosts
<1>3. Moves(p, "pool", round[p] + 1, h)
  <2>1. host' = [host EXCEPT ![p] = [[host[p] EXCEPT !.used = {}]
                   EXCEPT !.team = TRUE, !.used = used, !.pool = o]]
    BY <1>2 DEF shmemi_team_init, memory_manager_initialize
  <2> HIDE DEF o, used
  <2>2. [[host[p] EXCEPT !.used = {}] EXCEPT !.team = TRUE, !.used = used, !.pool = o] = h
    BY <1>1 DEF Hosts
  <2> QED BY <1>1, <2>1, <2>2, Here DEF Moves, shmemi_team_init, Enter, Fine, Places, JobInv
<1>4. o \in {Null} \cup Cells /\ used \in SUBSET Blocks /\ InHeap(used)
  BY PoolPlaced
<1>5. Built(p, "pool", h)
  BY <1>1 DEF Built, Hosts, Physical, Known, Reserved,
          Imported, Mapped, Pooled, Cleared, Working, Running
<1> HIDE DEF o, used
<1>6. h \in Hosts /\ h.used = used
  BY <1>1, <1>4 DEF Hosts
<1>7. Counted("pool", round[p] + 1, h)
  BY <1>1 DEF Counted, Opening, Ending, Before, Hosts
<1> QED BY <1>3, <1>4, <1>5, <1>6, <1>7, OpeningAllowed, MoveKeeps DEF Good, Opening

LEMMA ClearPoolKeeps ==
  ASSUME JobInv, NEW p \in PE, ClearPool(p)
  PROVE  JobInv'
<1>1. /\ host[p] \in Hosts /\ InHeap(host[p].used) /\ round[p] = 8
      /\ pc[p] = "pool" /\ Counted("pool", round[p], host[p]) /\ Built(p, "pool", host[p])
  BY Here DEF ClearPool, At, Counted, Before, Opening, Ending
<1>2. CASE host[p].pool = Null
  <2> DEFINE h == [host[p] EXCEPT !.ret = "error"]
  <2>1. Moves(p, "failed", round[p], h)
    BY <1>1, <1>2, Here DEF Moves, ClearPool, Goto, Fine, Places, JobInv
  <2>2. h \in Hosts /\ InHeap(h.used)
    BY <1>1 DEF Hosts
  <2> HIDE DEF h
  <2>3. Good(p, "failed", round[p], h)
    <3>1. round[p] \in Nat /\ round[p] <= 8
      BY <1>1
    <3> QED BY <2>2, <3>1, FailureGood
  <2>4. Allowed("failed")
    BY OpeningAllowed
  <2> QED BY <2>1, <2>3, <2>4, MoveKeeps
<1>3. CASE host[p].pool # Null
  <2> DEFINE h == [host[p] EXCEPT !.dirt = @ \ Span(host[p].pool, PoolSize)]
  <2>1. Moves(p, "counters", round[p], h)
    BY <1>1, <1>3, Here DEF Moves, ClearPool, Goto, Fine, Places, JobInv
  <2>2. h \in Hosts
    BY <1>1 DEF Hosts
  <2>3. Counted("counters", round[p], h)
    BY <1>1 DEF Counted, Opening, Ending, Before, Hosts
  <2>4. h.dirt \cap Span(h.pool, PoolSize) = {} /\ h.pool = host[p].pool
    BY <1>1 DEF Hosts
  <2>5. Built(p, "counters", h)
    BY <1>1, <1>3, <2>4 DEF Built, Hosts, Physical, Known, Reserved,
          Imported, Mapped, Pooled, Cleared, Working, Running
  <2>6. InHeap(h.used)
    BY <1>1 DEF Hosts
  <2> QED BY <2>1, <2>2, <2>3, <2>5, <2>6, OpeningAllowed, MoveKeeps DEF Good, Opening
<1> QED BY <1>2, <1>3

(* What the device is told changes nothing else, ... *)
SameButDevice(h, k) ==
  /\ k.boot = h.boot /\ k.device = h.device /\ k.hash = h.hash /\ k.info = h.info
  /\ k.registered = h.registered /\ k.phys = h.phys /\ k.nic = h.nic /\ k.peers = h.peers
  /\ k.topo = h.topo /\ k.rdma = h.rdma /\ k.reserved = h.reserved /\ k.white = h.white
  /\ k.imported = h.imported /\ k.mapped = h.mapped /\ k.p2p = h.p2p
  /\ k.created = h.created /\ k.initialized = h.initialized /\ k.team = h.team
  /\ k.used = h.used /\ k.dirt = h.dirt /\ k.pool = h.pool /\ k.counters = h.counters
  /\ k.ptr = h.ptr /\ k.ret = h.ret

(* ... and it is told all, if its number and its memory are right. *)
LEMMA DeviceUpdated ==
  ASSUME NEW h \in Hosts
  PROVE  /\ update_device_state(h) \in Hosts /\ SameButDevice(h, update_device_state(h))
         /\ h.registered /\ h.device => update_device_state(h).dev = Device(update_device_state(h))
<1> DEFINE k == [h EXCEPT !.dev = Device(h)]
<1>1. Device(h) \in [p2p : SUBSET PE, rdma : SUBSET PE, topo : [PE -> SUBSET Transports]]
  BY DEF Device, Hosts
<1>2. k \in Hosts /\ SameButDevice(h, k) /\ SameButDevice(h, h) /\ k.dev = Device(h)
  BY <1>1 DEF Hosts, SameButDevice
<1>3. Device(k) = Device(h)
  BY <1>2 DEF Device, SameButDevice
<1> HIDE DEF k
<1> QED BY <1>2, <1>3 DEF update_device_state, k

LEMMA PublishKeeps ==
  ASSUME JobInv, NEW p \in PE, Publish(p)
  PROVE  JobInv'
<1>1. /\ host[p] \in Hosts /\ InHeap(host[p].used) /\ round[p] = 8
      /\ pc[p] = "sync" /\ Counted("sync", round[p], host[p]) /\ Built(p, "sync", host[p])
  BY Here DEF Publish, At, Counted, Before, Opening, Ending
<1> DEFINE g == [host[p] EXCEPT !.initialized = TRUE]
<1>2. g \in Hosts /\ g.registered = host[p].registered
  BY <1>1 DEF Hosts
<1>3. CASE host[p].registered
  <2> DEFINE h == update_device_state(g)
  <2>1. Moves(p, "final", round[p] + 1, h)
    BY <1>1, <1>2, <1>3, Here DEF Moves, Publish, Enter, Fine, Places, JobInv
  <2>2. h \in Hosts
    BY <1>1, DeviceUpdated, <1>2
  <2>4. (h.device => h.dev = Device(h)) /\ h.initialized /\ h.registered
    <3>1. g.initialized /\ g.registered
      BY <1>1, <1>3 DEF Hosts
    <3> HIDE DEF g
    <3>2. /\ SameButDevice(g, update_device_state(g))
          /\ g.registered /\ g.device
             => update_device_state(g).dev = Device(update_device_state(g))
      BY <1>2, DeviceUpdated
    <3> QED BY <3>1, <3>2 DEF SameButDevice
  <2>5. /\ h.phys = host[p].phys /\ h.topo = host[p].topo /\ h.reserved = host[p].reserved
        /\ h.imported = host[p].imported /\ h.mapped = host[p].mapped /\ h.p2p = host[p].p2p
        /\ h.pool = host[p].pool /\ h.dirt = host[p].dirt /\ h.used = host[p].used
        /\ h.hash = host[p].hash /\ h.info = host[p].info /\ h.ptr = host[p].ptr
    <3>1. /\ g.phys = host[p].phys /\ g.topo = host[p].topo /\ g.reserved = host[p].reserved
          /\ g.imported = host[p].imported /\ g.mapped = host[p].mapped /\ g.p2p = host[p].p2p
          /\ g.pool = host[p].pool /\ g.dirt = host[p].dirt /\ g.used = host[p].used
          /\ g.hash = host[p].hash /\ g.info = host[p].info /\ g.ptr = host[p].ptr
      BY <1>1 DEF Hosts
    <3> QED BY <1>2, <3>1, DeviceUpdated DEF SameButDevice
  <2> HIDE DEF h, g
  <2>3. Counted("final", round[p] + 1, h)
    BY <1>1, <2>5 DEF Counted, Opening, Ending, Before
  <2>6. Built(p, "final", h)
    BY <1>1, <2>4, <2>5 DEF Built, Physical, Known, Reserved,
          Imported, Mapped, Pooled, Cleared, Working, Running
  <2>7. InHeap(h.used)
    BY <1>1, <2>5
  <2> QED BY <2>1, <2>2, <2>3, <2>6, <2>7, OpeningAllowed, MoveKeeps DEF Good, Opening
<1>4. CASE ~ host[p].registered
  <2> DEFINE h == [g EXCEPT !.ret = "error"]
  <2>1. Moves(p, "failed", round[p], h)
    BY <1>1, <1>2, <1>4, Here DEF Moves, Publish, Goto, Fine, Places, JobInv
  <2>2. h \in Hosts /\ InHeap(h.used)
    BY <1>1 DEF Hosts
  <2> HIDE DEF h
  <2>3. Good(p, "failed", round[p], h)
    <3>1. round[p] \in Nat /\ round[p] <= 8
      BY <1>1
    <3> QED BY <2>2, <3>1, FailureGood
  <2>4. Allowed("failed")
    BY OpeningAllowed
  <2> QED BY <2>1, <2>3, <2>4, MoveKeeps
<1> QED BY <1>3, <1>4

(* The end of the initialisation. *)

LEMMA OnwardPlace ==
  ASSUME NEW k
  PROVE  /\ Onward(k) \in {"app", "run"} /\ Onward(k) \in Places
         /\ Onward(k) = "run" => k = Len(Requests)
BY DEF Onward, Places

(* k agrees with h on all that the initialisation has set up. *)
Same(h, k) ==
  /\ k.device = h.device /\ k.hash = h.hash /\ k.info = h.info
  /\ k.phys = h.phys /\ k.topo = h.topo /\ k.reserved = h.reserved
  /\ k.imported = h.imported /\ k.mapped = h.mapped /\ k.p2p = h.p2p
  /\ k.rdma = h.rdma /\ k.pool = h.pool /\ k.dirt \subseteq h.dirt
  /\ k.registered = h.registered /\ k.initialized = h.initialized /\ k.dev = h.dev

LEMMA WorkingBuilt ==
  ASSUME NEW p \in PE, NEW h, NEW k, NEW c \in Working, NEW d \in Working,
         Built(p, c, h), Same(h, k)
  PROVE  Built(p, d, k)
<1>0. /\ c \in Physical /\ c \in Known /\ c \in Reserved /\ c \in Imported /\ c \in Mapped
      /\ c \in Pooled /\ c \in Cleared /\ c \in Working /\ d \in Working
  BY DEF Physical, Known, Reserved, Imported, Mapped, Pooled, Cleared
<1>1. /\ h.phys /\ h.reserved = Peers(p, h.hash, h.info) /\ h.imported = h.reserved
      /\ Leads(p, h.topo, h.hash, h.info) /\ h.reserved \subseteq Near(p)
      /\ h.mapped = h.reserved /\ h.p2p = h.reserved \cup {p}
      /\ h.pool = Place({}, 1, PoolSize) /\ h.pool # Null
      /\ h.dirt \cap Span(h.pool, PoolSize) = {}
      /\ h.registered /\ h.initialized /\ (h.device => h.dev = Device(h))
  BY <1>0 DEF Built
<1>2. Device(k) = Device(h)
  BY DEF Device, Same
<1>3. k.dirt \cap Span(k.pool, PoolSize) = {}
  BY <1>1 DEF Same
<1> QED BY <1>1, <1>2, <1>3 DEF Built, Same

LEMMA shmem_init_attr_returnsKeeps ==
  ASSUME JobInv, NEW p \in PE, shmem_init_attr_returns(p)
  PROVE  JobInv'
<1>1. /\ host[p] \in Hosts /\ InHeap(host[p].used) /\ round[p] = 9 /\ host[p].ptr = <<>>
      /\ pc[p] = "final" /\ Built(p, "final", host[p])
  BY Here DEF shmem_init_attr_returns, At, Counted, Before, Opening, Ending
<1> DEFINE h == [host[p] EXCEPT !.ret = "ok"]
<1>2. Onward(0) \in {"app", "run"} /\ Onward(0) \in Places
      /\ (Onward(0) = "run" => Len(Requests) = 0) /\ Len(Requests) \in Nat
  BY OnwardPlace, JobAssumption
<1>3. Moves(p, Onward(0), round[p], h)
  BY <1>1, <1>2, Here DEF Moves, shmem_init_attr_returns, Goto, Fine, JobInv
<1>4. h \in Hosts /\ InHeap(h.used) /\ Same(host[p], h) /\ h.ptr = <<>>
  BY <1>1 DEF Hosts, Same
<1> HIDE DEF h
<1>5. Counted(Onward(0), round[p], h)
  BY <1>1, <1>2, <1>4, BarriersZero DEF Counted
<1>6. Built(p, Onward(0), h)
  BY <1>1, <1>2, <1>4, WorkingBuilt DEF Working, Running
<1>7. Allowed(Onward(0))
  BY <1>1, <1>2 DEF Allowed, Ending, shmem_init_attr_returns, Gathered
<1> QED BY <1>3, <1>4, <1>5, <1>6, <1>7, MoveKeeps DEF Good

LEMMA shmem_init_attr_failsKeeps ==
  ASSUME JobInv, NEW p \in PE, shmem_init_attr_fails(p)
  PROVE  JobInv'
<1>1. /\ host[p] \in Hosts /\ InHeap(host[p].used) /\ Counted(pc[p], round[p], host[p])
      /\ pc[p] \in Checked
  BY Here DEF shmem_init_attr_fails
<1>2. round[p] \in Nat /\ round[p] <= 8
  BY <1>1 DEF Counted, Checked, Opening, Before, Ending
<1> DEFINE late == pc[p] \in {"pool", "counters"}
           h == [host[p] EXCEPT !.ret = "error",
                   !.used = IF late THEN {} ELSE @,
                   !.pool = IF late THEN Null ELSE @]
<1>3. host' = [host EXCEPT ![p] = h]
  BY DEF shmem_init_attr_fails
<1>4. h \in Hosts /\ InHeap(h.used)
  BY <1>1 DEF Hosts, InHeap
<1> HIDE DEF h
<1>5. Moves(p, "failed", round[p], h)
  BY <1>2, <1>3, Here DEF Moves, shmem_init_attr_fails, Goto, Fine, Places, JobInv
<1>6. Good(p, "failed", round[p], h)
  BY <1>2, <1>4, FailureGood
<1>7. Allowed("failed")
  BY OpeningAllowed
<1> QED BY <1>5, <1>6, <1>7, MoveKeeps

-----------------------------------------------------------------------------
(* The application's allocations. *)

LEMMA AtApp ==
  ASSUME JobInv, NEW p \in PE, pc[p] = "app", Made(p) < Len(Requests)
  PROVE  /\ host[p] \in Hosts /\ InHeap(host[p].used) /\ Built(p, "app", host[p])
         /\ Made(p) \in Nat /\ Made(p) + 1 \in 1 .. Len(Requests) /\ Request(p) \in Calls
         /\ round[p] = 9 + Barriers(Made(p)) /\ \A q \in PE : round[q] >= 9
<1>1. host[p] \in Hosts /\ InHeap(host[p].used) /\ Built(p, "app", host[p])
      /\ Counted("app", round[p], host[p]) /\ Allowed("app")
  BY Here
<1>2. host[p].ptr \in Seq({Null} \cup Cells)
  BY <1>1 DEF Hosts
<1>3. Made(p) \in Nat /\ Len(Requests) \in Nat /\ Requests \in Seq(Calls)
  BY <1>2, JobAssumption DEF Made
<1>4. Made(p) + 1 \in 1 .. Len(Requests)
  BY <1>3
<1>5. Request(p) \in Calls
  BY <1>3, <1>4 DEF Request
<1>6. round[p] = 9 + Barriers(Made(p))
  BY <1>1 DEF Counted, Opening, Ending, Made
<1>7. \A q \in PE : round[q] >= 9
  BY <1>1 DEF Allowed, Running
<1> QED BY <1>1, <1>3, <1>4, <1>5, <1>6, <1>7

(* The next allocation is answered, and the PE goes on or to the barrier. *)
LEMMA AnswerKeeps ==
  ASSUME JobInv, NEW p \in PE, pc[p] = "app", Made(p) < Len(Requests),
         NEW h \in Hosts, InHeap(h.used), Same(host[p], h),
         NEW o, h.ptr = Append(host[p].ptr, o),
         host' = [host EXCEPT ![p] = h], faulty' \subseteq PE,
         \/ Collective(Request(p)) /\ Enter(p, "alloc")
         \/ ~ Collective(Request(p)) /\ Goto(p, Onward(Made(p) + 1))
  PROVE  JobInv'
<1>1. /\ host[p] \in Hosts /\ Built(p, "app", host[p])
      /\ Made(p) \in Nat /\ Made(p) + 1 \in 1 .. Len(Requests)
      /\ round[p] = 9 + Barriers(Made(p)) /\ \A q \in PE : round[q] >= 9
  BY AtApp
<1>2. Len(h.ptr) = Made(p) + 1
  <2>1. host[p].ptr \in Seq({Null} \cup Cells)
    BY <1>1 DEF Hosts
  <2> QED BY <2>1 DEF Made
<1>3. Barriers(Made(p)) \in Nat /\ round[p] \in Nat /\ Len(Requests) \in Nat
  <2>1. Made(p) \in Nat /\ round[p] = 9 + Barriers(Made(p))
    BY <1>1
  <2>2. Barriers(Made(p)) \in Nat
    BY <2>1, BarriersType
  <2>3. Len(Requests) \in Nat
    BY JobAssumption
  <2> QED BY <2>1, <2>2, <2>3
<1>4. CASE Collective(Request(p)) /\ Enter(p, "alloc")
  <2>1. Moves(p, "alloc", round[p] + 1, h)
    BY <1>4 DEF Moves, Enter, Places, JobInv
  <2>2. Barriers(Made(p) + 1) = Barriers(Made(p)) + 1
    BY <1>1, <1>4, BarriersNext DEF Request
  <2>3. Counted("alloc", round[p] + 1, h)
    BY <1>1, <1>2, <1>3, <2>2 DEF Counted
  <2>4. Built(p, "alloc", h)
    BY <1>1, WorkingBuilt DEF Working, Running
  <2>5. Allowed("alloc")
    BY <1>1 DEF Allowed, Ending
  <2> QED BY <2>1, <2>3, <2>4, <2>5, MoveKeeps DEF Good
<1>5. CASE ~ Collective(Request(p)) /\ Goto(p, Onward(Made(p) + 1))
  <2> DEFINE c == Onward(Made(p) + 1)
  <2>1. c \in {"app", "run"} /\ c \in Places /\ (c = "run" => Made(p) + 1 = Len(Requests))
    BY OnwardPlace
  <2>2. Moves(p, c, round[p], h)
    BY <1>5, <2>1, Here DEF Moves, Goto
  <2> HIDE DEF c
  <2>3. Barriers(Made(p) + 1) = Barriers(Made(p))
    BY <1>1, <1>5, BarriersNext DEF Request
  <2>4. Counted(c, round[p], h)
    BY <1>1, <1>2, <1>3, <2>1, <2>3 DEF Counted
  <2>5. Built(p, c, h)
    BY <1>1, <2>1, WorkingBuilt DEF Working, Running
  <2>6. Allowed(c)
    BY <1>1, <2>1 DEF Allowed, Ending
  <2> QED BY <2>2, <2>4, <2>5, <2>6, MoveKeeps DEF Good
<1> QED BY <1>4, <1>5

(* A block that has been found is taken. *)
LEMMA GivenGood ==
  ASSUME NEW h \in Hosts, InHeap(h.used), NEW a \in Nat, 0 < a, NEW n \in Nat
  PROVE  /\ Given(h, Place(h.used, a, n), n) \in Hosts
         /\ InHeap(Given(h, Place(h.used, a, n), n).used)
         /\ Same(h, Given(h, Place(h.used, a, n), n))
         /\ Given(h, Place(h.used, a, n), n).ptr = Append(h.ptr, Place(h.used, a, n))
<1> DEFINE o == Place(h.used, a, n)
           used == Taken(h.used, o, n)
           k == Given(h, o, n)
<1>1. h.used \in SUBSET Blocks /\ h.ptr \in Seq({Null} \cup Cells)
  BY DEF Hosts
<1>2. /\ o \in {Null} \cup Cells
      /\ o # Null => o \in Nat /\ 0 < n /\ o + AlignUp(n) <= HeapSize
  BY <1>1, PlaceInHeap
<1>3. AlignUp(n) \in Nat /\ n <= AlignUp(n)
  BY AlignUpHolds
<1> HIDE DEF o
<1>4. used \in SUBSET Blocks /\ InHeap(used)
  BY <1>1, <1>2, <1>3 DEF Taken, Block, Blocks, InHeap
<1>5. Append(h.ptr, o) \in Seq({Null} \cup Cells)
  BY <1>1, <1>2
<1>6. k = [h EXCEPT !.used = used, !.ptr = Append(@, o)]
  BY DEF Given
<1> HIDE DEF used, k
<1>7. k \in Hosts /\ k.used = used /\ k.ptr = Append(h.ptr, o) /\ Same(h, k)
  BY <1>4, <1>5, <1>6 DEF Hosts, Same
<1> QED BY <1>4, <1>7 DEF o, k

LEMMA shmem_mallocKeeps ==
  ASSUME JobInv, NEW p \in PE, shmem_malloc(p)
  PROVE  JobInv'
<1>1. pc[p] = "app" /\ Made(p) < Len(Requests) /\ Request(p).op = "malloc"
  BY DEF shmem_malloc, Asks, At
<1>2. host[p] \in Hosts /\ InHeap(host[p].used) /\ Request(p) \in Calls
  BY <1>1, AtApp
<1>3. Request(p).n \in Nat
  BY <1>1, <1>2 DEF Calls
<1> DEFINE o == Place(host[p].used, 1, Request(p).n)
           h == Given(host[p], o, Request(p).n)
<1>4. h \in Hosts /\ InHeap(h.used) /\ Same(host[p], h) /\ h.ptr = Append(host[p].ptr, o)
  <2> DEFINE a == 1
             n == Request(p).n
  <2>1. a \in Nat /\ 0 < a /\ n \in Nat /\ o = Place(host[p].used, a, n)
    BY <1>3
  <2>2. h = Given(host[p], Place(host[p].used, a, n), n)
    OBVIOUS
  <2> HIDE DEF a, n, o, h
  <2> QED BY <1>2, <2>1, <2>2, GivenGood
<1>5. host' = [host EXCEPT ![p] = h] /\ Enter(p, "alloc") /\ faulty' \subseteq PE
  BY DEF shmem_malloc, Fine, JobInv
<1>6. Collective(Request(p))
  BY <1>1 DEF Collective
<1> HIDE DEF o, h
<1> QED BY <1>1, <1>4, <1>5, <1>6, AnswerKeeps

LEMMA shmem_alignKeeps ==
  ASSUME JobInv, NEW p \in PE, shmem_align(p)
  PROVE  JobInv'
<1>1. pc[p] = "app" /\ Made(p) < Len(Requests) /\ Request(p).op = "align"
  BY DEF shmem_align, Asks, At
<1>2. host[p] \in Hosts /\ InHeap(host[p].used) /\ Request(p) \in Calls
  BY <1>1, AtApp
<1>3. Request(p).n \in Nat /\ Request(p).a \in Nat /\ 0 < Request(p).a
  BY <1>1, <1>2 DEF Calls
<1> DEFINE a == Request(p).a
           n == Request(p).n
           o == Place(host[p].used, a, n)
           h == Given(host[p], o, n)
<1>4. h \in Hosts /\ InHeap(h.used) /\ Same(host[p], h) /\ h.ptr = Append(host[p].ptr, o)
  <2>1. a \in Nat /\ 0 < a /\ n \in Nat
    BY <1>3
  <2> HIDE DEF a, n
  <2> QED BY <1>2, <2>1, GivenGood
<1>5. host' = [host EXCEPT ![p] = h] /\ Enter(p, "alloc") /\ faulty' \subseteq PE
  BY DEF shmem_align, Fine, JobInv
<1>6. Collective(Request(p))
  BY <1>1 DEF Collective
<1> HIDE DEF o, h
<1> QED BY <1>1, <1>4, <1>5, <1>6, AnswerKeeps

(* A call returns null and takes nothing, or only gives a block back. *)
LEMMA NullGood ==
  ASSUME NEW h \in Hosts, InHeap(h.used), NEW used \in SUBSET h.used
  PROVE  LET k == [h EXCEPT !.used = used, !.ptr = Append(@, Null)] IN
         k \in Hosts /\ InHeap(k.used) /\ Same(h, k) /\ k.ptr = Append(h.ptr, Null)
<1> DEFINE k == [h EXCEPT !.used = used, !.ptr = Append(@, Null)]
<1>1. h.used \in SUBSET Blocks /\ h.ptr \in Seq({Null} \cup Cells)
  BY DEF Hosts
<1>2. used \in SUBSET Blocks /\ InHeap(used) /\ Append(h.ptr, Null) \in Seq({Null} \cup Cells)
  BY <1>1 DEF InHeap
<1>3. k \in Hosts /\ k.used = used /\ k.ptr = Append(h.ptr, Null) /\ Same(h, k)
  BY <1>2 DEF Hosts, Same
<1> QED BY <1>2, <1>3

LEMMA shmem_calloc_failsKeeps ==
  ASSUME JobInv, NEW p \in PE, shmem_calloc_fails(p)
  PROVE  JobInv'
<1>1. /\ pc[p] = "app" /\ Made(p) < Len(Requests) /\ Request(p).op = "calloc"
      /\ Overflows(Request(p).m, Request(p).n)
  BY DEF shmem_calloc_fails, Asks, At
<1>2. host[p] \in Hosts /\ InHeap(host[p].used)
  BY <1>1, AtApp
<1> DEFINE h == [host[p] EXCEPT !.used = host[p].used, !.ptr = Append(@, Null)]
<1>3. h \in Hosts /\ InHeap(h.used) /\ Same(host[p], h) /\ h.ptr = Append(host[p].ptr, Null)
  BY <1>2, NullGood
<1>4. [host[p] EXCEPT !.ptr = Append(@, Null)] = h
  BY <1>2 DEF Hosts
<1>5. host' = [host EXCEPT ![p] = h] /\ Goto(p, Onward(Made(p) + 1)) /\ faulty' \subseteq PE
  BY <1>4 DEF shmem_calloc_fails, Fine, JobInv
<1>6. ~ Collective(Request(p))
  BY <1>1 DEF Collective
<1> HIDE DEF h
<1> QED BY <1>1, <1>3, <1>5, <1>6, AnswerKeeps

LEMMA shmem_callocKeeps ==
  ASSUME JobInv, NEW p \in PE, shmem_calloc(p)
  PROVE  JobInv'
<1>1. /\ pc[p] = "app" /\ Made(p) < Len(Requests) /\ Request(p).op = "calloc"
      /\ ~ Overflows(Request(p).m, Request(p).n) /\ Enter(p, "alloc")
  BY DEF shmem_calloc, Asks, At
<1>2. host[p] \in Hosts /\ InHeap(host[p].used) /\ Request(p) \in Calls
  BY <1>1, AtApp
<1> DEFINE m == Request(p).m
           n == Request(p).n
           o == Place(host[p].used, 1, m * n)
<1>3. m \in Nat /\ n \in Nat
  BY <1>1, <1>2 DEF Calls
<1>4. m * n \in Nat
  BY <1>3, Associate
<1>5. Collective(Request(p))
  BY <1>1 DEF Collective
<1>6. CASE /\ Fine
           /\ host' = [host EXCEPT ![p] =
                Given([host[p] EXCEPT !.dirt = @ \ Span(o, n)], o, m * n)]
  <2> DEFINE g == [host[p] EXCEPT !.dirt = @ \ Span(o, n)]
             h == Given(g, o, m * n)
  <2>1. g \in Hosts /\ g.used = host[p].used /\ g.ptr = host[p].ptr /\ Same(host[p], g)
    BY <1>2 DEF Hosts, Same
  <2>2. host' = [host EXCEPT ![p] = h] /\ faulty' \subseteq PE
    BY <1>6 DEF Fine, JobInv
  <2>3. o = Place(g.used, 1, m * n) /\ InHeap(g.used)
    BY <1>2, <2>1
  <2> HIDE DEF g, o, m, n
  <2>4. h \in Hosts /\ InHeap(h.used) /\ Same(g, h) /\ h.ptr = Append(g.ptr, o)
    <3> DEFINE a == 1
               s == m * n
    <3>1. a \in Nat /\ 0 < a /\ s \in Nat /\ o = Place(g.used, a, s)
      BY <1>4, <2>3
    <3>2. h = Given(g, Place(g.used, a, s), s)
      BY <2>3
    <3> HIDE DEF a, s, h
    <3> QED BY <2>1, <2>3, <3>1, <3>2, GivenGood
  <2>5. Same(host[p], h) /\ h.ptr = Append(host[p].ptr, o)
    BY <2>1, <2>4 DEF Same
  <2> HIDE DEF h
  <2> QED BY <1>1, <1>5, <2>2, <2>4, <2>5, AnswerKeeps
<1>7. CASE /\ faulty' = faulty \cup {p}
           /\ host' = [host EXCEPT ![p].ptr = Append(@, Null)]
  <2> DEFINE h == [host[p] EXCEPT !.used = host[p].used, !.ptr = Append(@, Null)]
  <2>1. h \in Hosts /\ InHeap(h.used) /\ Same(host[p], h) /\ h.ptr = Append(host[p].ptr, Null)
    BY <1>2, NullGood
  <2>2. [host[p] EXCEPT !.ptr = Append(@, Null)] = h
    BY <1>2 DEF Hosts
  <2>3. host' = [host EXCEPT ![p] = h] /\ faulty' \subseteq PE
    BY <1>7, <2>2 DEF JobInv
  <2> HIDE DEF h
  <2> QED BY <1>1, <1>5, <2>1, <2>3, AnswerKeeps
<1> QED BY <1>6, <1>7 DEF shmem_calloc

LEMMA shmem_freeKeeps ==
  ASSUME JobInv, NEW p \in PE, shmem_free(p)
  PROVE  JobInv'
<1>1. pc[p] = "app" /\ Made(p) < Len(Requests) /\ Request(p).op = "free"
  BY DEF shmem_free, Asks, At
<1>2. host[p] \in Hosts /\ InHeap(host[p].used)
  BY <1>1, AtApp
<1> DEFINE used == Released(host[p].used, host[p].ptr[Request(p).k])
           h == [host[p] EXCEPT !.used = used, !.ptr = Append(@, Null)]
<1>3. used \in SUBSET host[p].used
  BY DEF Released
<1>4. h \in Hosts /\ InHeap(h.used) /\ Same(host[p], h) /\ h.ptr = Append(host[p].ptr, Null)
  BY <1>2, <1>3, NullGood
<1>5. host' = [host EXCEPT ![p] = h] /\ Goto(p, Onward(Made(p) + 1)) /\ faulty' \subseteq PE
  BY DEF shmem_free, Fine, JobInv
<1>6. ~ Collective(Request(p))
  BY <1>1 DEF Collective
<1> HIDE DEF h
<1> QED BY <1>1, <1>4, <1>5, <1>6, AnswerKeeps

LEMMA AllocationReturnsKeeps ==
  ASSUME JobInv, NEW p \in PE, AllocationReturns(p)
  PROVE  JobInv'
<1>1. /\ pc[p] = "alloc" /\ host[p] \in Hosts /\ InHeap(host[p].used)
      /\ Built(p, "alloc", host[p]) /\ Counted("alloc", round[p], host[p]) /\ Allowed("alloc")
      /\ Goto(p, Onward(Made(p))) /\ host' = host /\ faulty' = faulty
  BY Here DEF AllocationReturns, At, Fine
<1> DEFINE c == Onward(Made(p))
<1>2. c \in {"app", "run"} /\ c \in Places /\ (c = "run" => Made(p) = Len(Requests))
  BY OnwardPlace
<1>3. Moves(p, c, round[p], host[p])
  BY <1>1, <1>2, Here DEF Moves, Goto, JobInv
<1> HIDE DEF c
<1>4. Counted(c, round[p], host[p])
  BY <1>1, <1>2 DEF Counted, Opening, Ending, Made
<1>5. Built(p, c, host[p])
  BY <1>1, <1>2, WorkingBuilt DEF Working, Running, Same
<1>6. Allowed(c)
  BY <1>1, <1>2 DEF Allowed, Running, Ending
<1> QED BY <1>1, <1>3, <1>4, <1>5, <1>6, MoveKeeps DEF Good

-----------------------------------------------------------------------------
(* The end of the job. *)

LEMMA DoneKeeps ==
  ASSUME JobInv, NEW p \in PE, Done(p)
  PROVE  JobInv'
<1>1. /\ pc[p] = "run" /\ host[p] \in Hosts /\ InHeap(host[p].used) /\ round[p] \in Nat
      /\ Built(p, "run", host[p]) /\ Counted("run", round[p], host[p]) /\ Allowed("run")
      /\ Enter(p, "done") /\ host' = host /\ faulty' = faulty
  BY Here DEF Done, At, Fine
<1>2. Moves(p, "done", round[p] + 1, host[p])
  BY <1>1, Here DEF Moves, Enter, Places, JobInv
<1>3. Counted("done", round[p] + 1, host[p])
  <2>1. round[p] = 9 + Barriers(Len(Requests))
    BY <1>1 DEF Counted, Opening, Ending
  <2>2. Barriers(Len(Requests)) \in Nat
    BY JobAssumption, BarriersType
  <2> QED BY <2>1, <2>2 DEF Counted, Final
<1>4. Built(p, "done", host[p])
  BY <1>1, WorkingBuilt DEF Working, Running, Same
<1>5. Allowed("done")
  BY <1>1 DEF Allowed, Running, Ending
<1> QED BY <1>1, <1>2, <1>3, <1>4, <1>5, MoveKeeps DEF Good

(* A PE that finalises keeps nothing the invariant speaks of. *)
LEMMA EndingGood ==
  ASSUME NEW p \in PE, NEW c \in Ending, NEW h \in Hosts, InHeap(h.used)
  PROVE  Good(p, c, Final, h)
<1>1. Built(p, c, h)
  BY DEF Built, Ending, Physical, Known, Reserved,
          Imported, Mapped, Pooled, Cleared, Working, Running
<1>2. Counted(c, Final, h)
  BY DEF Counted
<1> QED BY <1>1, <1>2 DEF Good

LEMMA shmemi_team_finalizeKeeps ==
  ASSUME JobInv, NEW p \in PE, shmemi_team_finalize(p)
  PROVE  JobInv'
<1>1. /\ pc[p] = "done" /\ host[p] \in Hosts /\ InHeap(host[p].used)
      /\ round[p] = Final
  BY Here DEF shmemi_team_finalize, At, Counted, Opening, Ending
<1> DEFINE g == [host[p] EXCEPT !.team = FALSE]
           k == update_device_state(g)
           used == Released(k.used, k.pool)
           h == [k EXCEPT !.counters = 0, !.used = used, !.pool = Null]
<1>2. g \in Hosts /\ g.used = host[p].used
  BY <1>1 DEF Hosts
<1>3. k \in Hosts /\ k.used = host[p].used
  BY <1>2, DeviceUpdated DEF SameButDevice
<1>4. host' = [host EXCEPT ![p] = h]
  BY DEF shmemi_team_finalize
<1>5. used \subseteq host[p].used
  BY <1>3 DEF Released
<1> HIDE DEF g, k, used
<1>6. h \in Hosts /\ h.used = used
  <2>1. used \in SUBSET Blocks
    BY <1>1, <1>5 DEF Hosts
  <2> QED BY <1>3, <2>1 DEF Hosts
<1>7. InHeap(h.used)
  BY <1>1, <1>5, <1>6 DEF InHeap
<1> HIDE DEF h
<1>8. Moves(p, "unmap", round[p], h)
  BY <1>1, <1>4, Here DEF Moves, shmemi_team_finalize, Goto, Fine, Places, JobInv
<1>9. Good(p, "unmap", round[p], h)
  BY <1>1, <1>6, <1>7, EndingGood DEF Ending
<1>10. Allowed("unmap")
  <2>1. \A q \in PE : round[q] \in Nat /\ round[q] >= Final
    BY <1>1 DEF shmemi_team_finalize, Gathered, JobInv
  <2> QED BY <2>1, FinalType DEF Allowed
<1> QED BY <1>8, <1>9, <1>10, MoveKeeps

(* A step from one place of the finalisation to another. *)
LEMMA EndingKeeps ==
  ASSUME JobInv, NEW p \in PE, pc[p] \in Ending, NEW c \in Ending, Goto(p, c), Fine,
         NEW h \in Hosts, InHeap(h.used), host' = [host EXCEPT ![p] = h]
  PROVE  JobInv'
<1>1. round[p] = Final /\ Allowed(pc[p])
  BY Here DEF Counted, Opening, Ending
<1>2. Allowed(c)
  BY <1>1 DEF Allowed
<1>3. Moves(p, c, round[p], h)
  BY Here DEF Moves, Goto, Fine, Places, Ending, JobInv
<1>4. Good(p, c, round[p], h)
  BY <1>1, EndingGood
<1> QED BY <1>2, <1>3, <1>4, MoveKeeps

LEMMA FinalisesKeeps ==
  ASSUME JobInv, NEW p \in PE,
         release_heap(p) \/ shmemi_transport_finalize(p) \/ shmemi_bootstrap_finalize(p)
  PROVE  JobInv'
<1>1. host[p] \in Hosts /\ InHeap(host[p].used)
  BY Here
<1>2. CASE release_heap(p)
  <2> DEFINE h == [host[p] EXCEPT !.registered = FALSE, !.dev = Nothing, !.mapped = {},
                     !.reserved = {}, !.phys = FALSE]
  <2>1. heap_unreserved(heap_removed(global_state_destroyed(host[p]))) = h
    BY <1>1 DEF heap_unreserved, heap_removed, global_state_destroyed, Hosts
  <2>2. h \in Hosts /\ InHeap(h.used)
    BY <1>1 DEF Hosts, Nothing
  <2>3. /\ host' = [host EXCEPT ![p] = h] /\ pc[p] \in Ending
        /\ Goto(p, "transports") /\ Fine
    BY <1>2, <2>1 DEF release_heap, At, Ending
  <2> HIDE DEF h
  <2> QED BY <2>2, <2>3, EndingKeeps DEF Ending
<1>3. CASE shmemi_transport_finalize(p)
  <2> DEFINE h == [host[p] EXCEPT !.nic = FALSE]
  <2>1. h \in Hosts /\ InHeap(h.used)
    BY <1>1 DEF Hosts
  <2>2. /\ host' = [host EXCEPT ![p] = h] /\ pc[p] \in Ending
        /\ Goto(p, "boot") /\ Fine
    BY <1>3 DEF shmemi_transport_finalize, shmemi_rdma_finalize, At, Ending
  <2> HIDE DEF h
  <2> QED BY <2>1, <2>2, EndingKeeps DEF Ending
<1>4. CASE shmemi_bootstrap_finalize(p)
  <2> DEFINE h == [host[p] EXCEPT !.boot = shmemi_bootstrap_mpi_finalize(@)]
  <2>1. h \in Hosts /\ InHeap(h.used)
    BY <1>1 DEF Hosts, shmemi_bootstrap_mpi_finalize
  <2>2. /\ host' = [host EXCEPT ![p] = h] /\ pc[p] \in Ending
        /\ Goto(p, "ended") /\ Fine
    BY <1>4 DEF shmemi_bootstrap_finalize, At, Ending
  <2> HIDE DEF h
  <2> QED BY <2>1, <2>2, EndingKeeps DEF Ending
<1> QED BY <1>2, <1>3, <1>4

-----------------------------------------------------------------------------
(* The theorems. *)

LEMMA InitInv == HostInit => JobInv
<1> SUFFICES ASSUME HostInit PROVE JobInv
  OBVIOUS
<1>1. PICK b \in {"none", "theirs"} : host = [p \in PE |-> [Blank EXCEPT !.boot = b]]
  BY DEF HostInit
<1> DEFINE h == [Blank EXCEPT !.boot = b]
<1>2. h \in Hosts /\ h.used = {} /\ h.ptr = <<>>
  <2>1. Nothing \in [p2p : SUBSET PE, rdma : SUBSET PE, topo : [PE -> SUBSET Transports]]
    BY DEF Nothing
  <2>2. h.ptr = <<>> /\ <<>> \in Seq({Null} \cup Cells)
    BY DEF Blank
  <2>3. [q \in PE |-> {}] \in [PE -> Hashes] /\ {} \in Hashes
    BY DEF Hashes
  <2> QED BY <2>1, <2>2, <2>3 DEF Hosts, Blank
<1> HIDE DEF h
<1>3. \A p \in PE : pc[p] = "init" /\ round[p] = 0 /\ host[p] = h
  BY <1>1 DEF HostInit, h
<1>4. ASSUME NEW p \in PE
      PROVE  Good(p, "init", 0, h) /\ Allowed("init")
  <2>1. Counted("init", 0, h)
    BY <1>2 DEF Counted, Opening, Before
  <2>2. Built(p, "init", h)
    BY DEF Built, Physical, Known, Reserved,
          Imported, Mapped, Pooled, Cleared, Working, Running
  <2>3. InHeap(h.used)
    BY <1>2 DEF InHeap
  <2> QED BY <1>2, <2>1, <2>2, <2>3, OpeningAllowed DEF Good, Opening
<1>5. /\ pc \in [PE -> Places] /\ round \in [PE -> Nat]
      /\ host \in [PE -> Hosts] /\ faulty \subseteq PE
  BY <1>1, <1>2 DEF HostInit, Places, h
<1> QED BY <1>3, <1>4, <1>5 DEF JobInv

(* Every step of a host keeps the invariant. *)
LEMMA StepInv == JobInv /\ [HostNext]_hostVars => JobInv'
<1> SUFFICES ASSUME JobInv, [HostNext]_hostVars PROVE JobInv'
  OBVIOUS
<1>1. CASE UNCHANGED hostVars
  BY <1>1 DEF JobInv, hostVars, Allowed, Good
<1>2. ASSUME NEW p \in PE, HostStep(p) \/ Done(p)
      PROVE  JobInv'
  <2>1. CASE Initialises(p)
    BY <2>1, shmemi_bootstrap_initKeeps, shmemi_state_init_attrKeeps, init_device_stateKeeps,
       reserve_heapKeeps, shmemi_transport_loadKeeps, shmemi_transport_initKeeps,
       shmemi_build_transport_mapKeeps, shmemi_mte_connect_peersKeeps, GatherIpsKeeps,
       GatherMrsKeeps, shmemi_rdma_connect_peersKeeps, export_memoryKeeps, import_pidKeeps,
       import_memoryKeeps, setup_heapKeeps, shmemi_team_initKeeps, ClearPoolKeeps,
       SyncAreasKeeps, PublishKeeps, shmem_init_attr_returnsKeeps,
       shmem_init_attr_failsKeeps, Zenon DEF Initialises
  <2>2. CASE Allocates(p)
    BY <2>2, shmem_mallocKeeps, shmem_alignKeeps, shmem_calloc_failsKeeps,
       shmem_callocKeeps, AllocationReturnsKeeps, shmem_freeKeeps, Zenon DEF Allocates
  <2>3. CASE Finalises(p)
    BY <2>3, shmemi_team_finalizeKeeps, FinalisesKeeps, Zenon DEF Finalises
  <2>4. CASE Done(p)
    BY <2>4, DoneKeeps
  <2> QED BY <1>2, <2>1, <2>2, <2>3, <2>4 DEF HostStep
<1> QED BY <1>1, <1>2 DEF HostNext

(* The remote memory access leaves the hosts alone: a job is a behaviour   *)
(* of its hosts.                                                           *)
LEMMA HostsOnly == [Next]_vars => [HostNext]_hostVars
BY DEF Next, Leaves, HostNext, vars, hostVars

(* At every moment of a job the place of each host determines how many     *)
(* collective calls it has entered and what it has set up.                 *)
THEOREM JobInvariant == Spec => []JobInv
<1>1. Init => JobInv
  BY InitInv DEF Init
<1>2. JobInv /\ [Next]_vars => JobInv'
  BY StepInv, HostsOnly
<1> QED BY <1>1, <1>2, PTL DEF Spec

(* The state of the hosts keeps its type: in particular every address that *)
(* an allocation returns lies in the heap.                                 *)
THEOREM HostTypeCorrect == Spec => []HostTypeOK
<1>1. JobInv => HostTypeOK
  BY DEF JobInv, HostTypeOK
<1> QED BY <1>1, JobInvariant, PTL

-----------------------------------------------------------------------------
(* The ledger of a PE: what its allocator has answered.                    *)

(* What a call asks of the allocator, and the answer while used are in use. *)
Bytes(c) == IF c.op = "calloc" THEN c.m * c.n ELSE c.n
Boundary(c) == IF c.op = "align" THEN c.a ELSE 1
Answer(used, c) == IF Collective(c) THEN Place(used, Boundary(c), Bytes(c)) ELSE Null

(* Call i frees what starts at o, for a PE whose answers are ptr. *)
Frees(ptr, i, o) == Requests[i].op = "free" /\ ptr[Requests[i].k] = o

(* The calls whose blocks are in use after k calls, and these blocks. *)
Live(ptr, k) ==
  {j \in 1 .. k : ptr[j] # Null /\ \A i \in j + 1 .. k : ~ Frees(ptr, i, ptr[j])}
PoolBlock == Taken({}, Place({}, 1, PoolSize), PoolSize)
BlockOf(ptr, j) == Block(ptr[j], AlignUp(Bytes(Requests[j])))
UsedAfter(ptr, k) == PoolBlock \cup {BlockOf(ptr, j) : j \in Live(ptr, k)}

(* The blocks in use are what the answers say, and each answer follows     *)
(* from those before it; nothing but the pool lies at the pool, and what   *)
(* calloc clears stays clear.                                              *)
Ledger(h) ==
  /\ h.used = UsedAfter(h.ptr, Len(h.ptr))
  /\ \A k \in 1 .. Len(h.ptr) :
       /\ h.ptr[k] = Answer(UsedAfter(h.ptr, k - 1), Requests[k])
       /\ h.ptr[k] # Null => h.ptr[k] # Place({}, 1, PoolSize)
       /\ Requests[k].op = "calloc" => Span(h.ptr[k], Requests[k].n) \cap h.dirt = {}

Pointers == Seq({Null} \cup Cells)

LEMMA RequestType ==
  ASSUME NEW i \in 1 .. Len(Requests)
  PROVE  /\ Requests[i] \in Calls
         /\ Requests[i].op = "free" => Requests[i].k \in 1 .. i - 1
<1>1. Requests[i] \in Calls
  BY JobAssumption
<1>2. Requests[i].op = "free" => Requests[i].k \in Nat \ {0}
  BY <1>1 DEF Calls
<1>3. Requests[i].op = "free" => Requests[i].k < i
  BY FreedOnce
<1>4. Len(Requests) \in Nat
  BY JobAssumption
<1> QED BY <1>1, <1>2, <1>3, <1>4

(* What a call asks is a size and a boundary. *)
LEMMA AskType ==
  ASSUME NEW c \in Calls, Collective(c)
  PROVE  Boundary(c) \in Nat /\ 0 < Boundary(c) /\ Bytes(c) \in Nat
<1>1. CASE c.op = "calloc"
  <2>1. c.m \in Nat /\ c.n \in Nat
    BY <1>1 DEF Calls
  <2>2. c.m * c.n \in Nat
    BY <2>1, Associate
  <2> QED BY <1>1, <2>2 DEF Boundary, Bytes
<1>2. CASE c.op = "malloc" \/ c.op = "align"
  BY <1>2 DEF Boundary, Bytes, Calls
<1> QED BY <1>1, <1>2 DEF Collective

(* The answers to the first calls determine what is in use after them. *)
LEMMA SameAnswers ==
  ASSUME NEW r, NEW s, NEW k \in 0 .. Len(Requests), \A j \in 1 .. k : r[j] = s[j]
  PROVE  Live(r, k) = Live(s, k) /\ UsedAfter(r, k) = UsedAfter(s, k)
<1>1. Len(Requests) \in Nat
  BY JobAssumption
<1>2. ASSUME NEW i \in 1 .. k, NEW o
      PROVE  Frees(r, i, o) <=> Frees(s, i, o)
  <2>1. Requests[i].op = "free" => Requests[i].k \in 1 .. i - 1
    BY <1>1, RequestType
  <2>2. Requests[i].op = "free" => r[Requests[i].k] = s[Requests[i].k]
    BY <2>1
  <2> QED BY <2>2 DEF Frees
<1>3. Live(r, k) = Live(s, k)
  <2>1. ASSUME NEW j \in 1 .. k
        PROVE  j \in Live(r, k) <=> j \in Live(s, k)
    <3>1. \A i \in j + 1 .. k : i \in 1 .. k
      OBVIOUS
    <3>2. r[j] = s[j]
      OBVIOUS
    <3> QED BY <1>2, <3>1, <3>2 DEF Live
  <2> QED BY <2>1 DEF Live
<1>4. \A j \in Live(r, k) : BlockOf(r, j) = BlockOf(s, j)
  BY DEF Live, BlockOf
<1> QED BY <1>3, <1>4 DEF UsedAfter

(* One more call. *)
LEMMA LiveNext ==
  ASSUME NEW r \in Pointers, NEW o \in {Null} \cup Cells, Len(r) < Len(Requests)
  PROVE  LET k == Len(r)
             s == Append(r, o) IN
         Live(s, k + 1) = {j \in Live(r, k) : ~ Frees(r, k + 1, r[j])}
                          \cup {j \in {k + 1} : o # Null}
<1> DEFINE k == Len(r)
           s == Append(r, o)
<1>1. k \in Nat /\ Len(s) = k + 1 /\ s[k + 1] = o /\ Len(Requests) \in Nat
  BY JobAssumption DEF Pointers
<1>2. \A j \in 1 .. k : s[j] = r[j]
  BY DEF Pointers
<1> HIDE DEF s, k
<1>3. ASSUME NEW i \in 1 .. k + 1, NEW x
      PROVE  Frees(s, i, x) <=> Frees(r, i, x)
  <2>1. i \in 1 .. Len(Requests)
    BY <1>1 DEF k
  <2>2. Requests[i].op = "free" => Requests[i].k \in 1 .. k
    BY <1>1, <2>1, RequestType
  <2> QED BY <1>2, <2>2 DEF Frees
<1>4. ASSUME NEW j \in 1 .. k
      PROVE  j \in Live(s, k + 1) <=> j \in Live(r, k) /\ ~ Frees(r, k + 1, r[j])
  <2>1. j + 1 .. k + 1 = (j + 1 .. k) \cup {k + 1}
    BY <1>1
  <2>2. \A i \in j + 1 .. k + 1 : Frees(s, i, s[j]) <=> Frees(r, i, r[j])
    BY <1>1, <1>2, <1>3
  <2>3. j \in 1 .. k + 1 /\ s[j] = r[j]
    BY <1>1, <1>2
  <2> QED BY <2>1, <2>2, <2>3 DEF Live
<1>5. k + 1 \in Live(s, k + 1) <=> o # Null
  <2>1. (k + 1) + 1 .. k + 1 = {} /\ k + 1 \in 1 .. k + 1
    BY <1>1
  <2> QED BY <1>1, <2>1 DEF Live
<1>6. 1 .. k + 1 = (1 .. k) \cup {k + 1} /\ k + 1 \notin 1 .. k
  BY <1>1
<1>7. Live(r, k) \subseteq 1 .. k /\ Live(s, k + 1) \subseteq 1 .. k + 1
  BY DEF Live
<1>8. Live(s, k + 1) = {j \in Live(r, k) : ~ Frees(r, k + 1, r[j])} \cup {j \in {k + 1} : o # Null}
  BY <1>4, <1>5, <1>6, <1>7
<1> QED BY <1>8 DEF k, s

(* A call that frees takes away what starts at the address it gives. *)
LEMMA UsedAfterFree ==
  ASSUME NEW r \in Pointers, Len(r) < Len(Requests), Requests[Len(r) + 1].op = "free",
         \A j \in 1 .. Len(r) : r[j] # Null => r[j] # Place({}, 1, PoolSize)
  PROVE  UsedAfter(Append(r, Null), Len(r) + 1)
           = Released(UsedAfter(r, Len(r)), r[Requests[Len(r) + 1].k])
<1> DEFINE k == Len(r)
           s == Append(r, Null)
           x == r[Requests[k + 1].k]
<1>1. k \in Nat /\ k + 1 \in 1 .. Len(Requests) /\ \A j \in 1 .. k : s[j] = r[j]
  BY JobAssumption DEF Pointers
<1>2. Live(s, k + 1) = {j \in Live(r, k) : ~ Frees(r, k + 1, r[j])}
  <2>1. Null \in {Null} \cup Cells
    OBVIOUS
  <2> QED BY <2>1, LiveNext
<1>3. \A j \in Live(r, k) : Frees(r, k + 1, r[j]) <=> r[j] = x
  BY DEF Frees
<1>4. \A j \in Live(r, k) : BlockOf(s, j) = BlockOf(r, j) /\ BlockOf(r, j).offset = r[j]
  BY <1>1 DEF BlockOf, Block, Live
<1>5. \A b \in PoolBlock : b.offset # x
  <2>1. Requests[k + 1].k \in 1 .. k
    BY <1>1, RequestType
  <2>2. \A b \in PoolBlock : b.offset = Place({}, 1, PoolSize) /\ b.offset # Null
    BY DEF PoolBlock, Taken, Block
  <2>3. x # Null => x # Place({}, 1, PoolSize)
    BY <2>1
  <2> QED BY <2>2, <2>3
<1> HIDE DEF k, s, x
<1>6. UsedAfter(s, k + 1) = Released(UsedAfter(r, k), x)
  BY <1>2, <1>3, <1>4, <1>5 DEF UsedAfter, Released
<1> QED BY <1>6 DEF k, s, x

(* Any other call adds the block it returns. *)
LEMMA UsedAfterAnswer ==
  ASSUME NEW r \in Pointers, Len(r) < Len(Requests), Requests[Len(r) + 1].op # "free",
         NEW o \in {Null} \cup Cells
  PROVE  UsedAfter(Append(r, o), Len(r) + 1)
           = Taken(UsedAfter(r, Len(r)), o, Bytes(Requests[Len(r) + 1]))
<1> DEFINE k == Len(r)
           s == Append(r, o)
<1>1. k \in Nat /\ s[k + 1] = o /\ \A j \in 1 .. k : s[j] = r[j]
  BY DEF Pointers
<1>2. Live(s, k + 1) = Live(r, k) \cup {j \in {k + 1} : o # Null}
  <2>1. \A j \in Live(r, k) : ~ Frees(r, k + 1, r[j])
    BY DEF Frees
  <2> QED BY <2>1, LiveNext
<1>3. \A j \in Live(r, k) : BlockOf(s, j) = BlockOf(r, j)
  BY <1>1 DEF BlockOf, Live
<1>4. BlockOf(s, k + 1) = Block(o, AlignUp(Bytes(Requests[k + 1])))
  BY <1>1 DEF BlockOf
<1> HIDE DEF k, s
<1>5. UsedAfter(s, k + 1) = Taken(UsedAfter(r, k), o, Bytes(Requests[k + 1]))
  <2>1. CASE o = Null
    BY <1>2, <1>3, <2>1 DEF UsedAfter, Taken
  <2>2. CASE o # Null
    BY <1>2, <1>3, <1>4, <2>2 DEF UsedAfter, Taken
  <2> QED BY <2>1, <2>2
<1> QED BY <1>5 DEF k, s

(* The ledger of a PE after its next call. *)
LEMMA LedgerNext ==
  ASSUME NEW g, g.ptr \in Pointers, Ledger(g), Len(g.ptr) < Len(Requests),
         NEW o \in {Null} \cup Cells, NEW h, h.ptr = Append(g.ptr, o), h.dirt \subseteq g.dirt,
         o = Answer(g.used, Requests[Len(g.ptr) + 1]),
         o # Null => o # Place({}, 1, PoolSize),
         Requests[Len(g.ptr) + 1].op = "calloc" =>
           Span(o, Requests[Len(g.ptr) + 1].n) \cap h.dirt = {},
         h.used = IF Requests[Len(g.ptr) + 1].op = "free"
                  THEN Released(g.used, g.ptr[Requests[Len(g.ptr) + 1].k])
                  ELSE Taken(g.used, o, Bytes(Requests[Len(g.ptr) + 1]))
  PROVE  Ledger(h)
<1> DEFINE r == g.ptr
           s == Append(r, o)
           k == Len(r)
<1>1. k \in Nat /\ Len(s) = k + 1 /\ s[k + 1] = o /\ \A j \in 1 .. k : s[j] = r[j]
  BY DEF Pointers
<1>2. g.used = UsedAfter(r, k)
  BY DEF Ledger
<1>3. h.used = UsedAfter(s, k + 1)
  <2>1. CASE Requests[k + 1].op = "free"
    <3>1. o = Null
      BY <2>1 DEF Answer, Collective
    <3>2. \A j \in 1 .. k : r[j] # Null => r[j] # Place({}, 1, PoolSize)
      BY DEF Ledger
    <3> QED BY <1>2, <2>1, <3>1, <3>2, UsedAfterFree
  <2>2. CASE Requests[k + 1].op # "free"
    BY <1>2, <2>2, UsedAfterAnswer
  <2> QED BY <2>1, <2>2
<1>4. \A j \in 0 .. k : UsedAfter(s, j) = UsedAfter(r, j)
  <2> TAKE j \in 0 .. k
  <2>1. j \in 0 .. Len(Requests) /\ \A i \in 1 .. j : r[i] = s[i]
    BY <1>1, JobAssumption
  <2> HIDE DEF s, r
  <2> QED BY <2>1, SameAnswers
<1>5. ASSUME NEW j \in 1 .. k + 1
      PROVE  /\ s[j] = Answer(UsedAfter(s, j - 1), Requests[j])
             /\ s[j] # Null => s[j] # Place({}, 1, PoolSize)
             /\ Requests[j].op = "calloc" => Span(s[j], Requests[j].n) \cap h.dirt = {}
  <2>1. UsedAfter(s, j - 1) = UsedAfter(r, j - 1)
    BY <1>1, <1>4
  <2>2. CASE j \in 1 .. k
    <3>1. s[j] = r[j]
      BY <1>1, <2>2
    <3> HIDE DEF s
    <3>2. /\ r[j] = Answer(UsedAfter(r, j - 1), Requests[j])
          /\ r[j] # Null => r[j] # Place({}, 1, PoolSize)
          /\ Requests[j].op = "calloc" => Span(r[j], Requests[j].n) \cap g.dirt = {}
      BY <2>2 DEF Ledger
    <3> QED BY <2>1, <3>1, <3>2
  <2>3. CASE j = k + 1
    <3>1. s[j] = o /\ j - 1 = k
      BY <1>1, <2>3
    <3> HIDE DEF s
    <3> QED BY <1>2, <2>1, <2>3, <3>1
  <2> QED BY <1>1, <2>2, <2>3
<1> HIDE DEF s
<1>6. h.ptr = s
  BY DEF s
<1> HIDE DEF k, r
<1> QED BY <1>1, <1>3, <1>5, <1>6 DEF Ledger

-----------------------------------------------------------------------------
(* The invariant: a PE on which no call of a library has failed keeps its  *)
(* ledger, and all PEs have entered the barriers of the calls that one has *)
(* left.                                                                   *)

Answered(c, h) == IF c = "alloc" THEN Len(h.ptr) - 1 ELSE Len(h.ptr)

Accounted(p, c, h) ==
  /\ c \in Running => \A q \in PE : round[q] >= 9 + Barriers(Answered(c, h))
  /\ c = "alloc" => h.ptr # <<>>
  /\ c = "done" => Len(h.ptr) = Len(Requests)

AllocInv ==
  \A p \in PE : /\ pc[p] \in Pooled /\ p \notin faulty => Ledger(host[p])
                /\ Accounted(p, pc[p], host[p])

(* A step of p leaves the other PEs alone. *)
OthersStay(p) ==
  /\ \A q \in PE \ {p} : pc'[q] = pc[q] /\ host'[q] = host[q]
  /\ \A q \in PE : round'[q] >= round[q]
  /\ faulty \subseteq faulty'

LEMMA PointersType ==
  ASSUME JobInv, NEW p \in PE
  PROVE  host[p].ptr \in Pointers /\ Len(host[p].ptr) \in Nat
BY DEF JobInv, Hosts, Pointers

LEMMA AnsweredType ==
  ASSUME JobInv, AllocInv, NEW p \in PE
  PROVE  Answered(pc[p], host[p]) \in Nat /\ Barriers(Answered(pc[p], host[p])) \in Nat
<1>1. host[p].ptr \in Pointers /\ Len(host[p].ptr) \in Nat
  BY PointersType
<1>2. pc[p] = "alloc" => Len(host[p].ptr) # 0
  BY <1>1 DEF AllocInv, Accounted, Pointers
<1>3. Answered(pc[p], host[p]) \in Nat
  BY <1>1, <1>2 DEF Answered
<1> QED BY <1>3, BarriersType

LEMMA AllocMove ==
  ASSUME JobInv, AllocInv, NEW p \in PE, OthersStay(p), JobInv',
         pc'[p] \in Pooled /\ p \notin faulty' => Ledger(host'[p]),
         Accounted(p, pc'[p], host'[p])
  PROVE  AllocInv'
<1>1. \A q \in PE : round[q] \in Nat /\ round'[q] \in Nat /\ round'[q] >= round[q]
  BY DEF JobInv, OthersStay
<1>2. ASSUME NEW q \in PE \ {p}
      PROVE  /\ pc'[q] \in Pooled /\ q \notin faulty' => Ledger(host'[q])
             /\ Accounted(q, pc'[q], host'[q])
  <2>1. pc'[q] = pc[q] /\ host'[q] = host[q] /\ (q \notin faulty' => q \notin faulty)
    BY DEF OthersStay
  <2> QED BY <2>1 DEF AllocInv
<1>3. ASSUME NEW q \in PE
      PROVE  Accounted(q, pc[q], host[q])'
  <2>1. Accounted(q, pc'[q], host'[q])
    BY <1>2
  <2>2. /\ host'[q].ptr \in Pointers
        /\ pc'[q] = "alloc" => host'[q].ptr # <<>>
    BY <2>1 DEF JobInv, Hosts, Pointers, Accounted
  <2>3. Answered(pc'[q], host'[q]) \in Nat
    BY <2>2 DEF Answered, Pointers
  <2>4. Barriers(Answered(pc'[q], host'[q])) \in Nat
    BY <2>3, BarriersType
  <2> QED BY <1>1, <2>1, <2>4 DEF Accounted
<1>4. ASSUME NEW q \in PE
      PROVE  (pc[q] \in Pooled /\ q \notin faulty => Ledger(host[q]))'
  BY <1>2
<1> QED BY <1>3, <1>4 DEF AllocInv

(* A PE before its sync pool, or at the end of the job, owes nothing. *)
LEMMA Elsewhere ==
  ASSUME JobInv, AllocInv, NEW p \in PE, OthersStay(p), JobInv', pc'[p] \notin Pooled
  PROVE  AllocInv'
<1>1. Accounted(p, pc'[p], host'[p])
  BY DEF Accounted, Running, Pooled, Cleared, Working
<1> QED BY <1>1, AllocMove

(* Going on, or entering a collective call, concerns one PE only. *)
LEMMA Moving ==
  ASSUME JobInv, NEW p \in PE, NEW c, Goto(p, c) \/ Enter(p, c)
  PROVE  /\ pc'[p] = c /\ \A q \in PE \ {p} : pc'[q] = pc[q]
         /\ \A q \in PE : round'[q] >= round[q]
<1>1. pc \in [PE -> Places] /\ round \in [PE -> Nat]
  BY DEF JobInv
<1>2. pc' = [pc EXCEPT ![p] = c]
  BY DEF Goto, Enter
<1>3. CASE Goto(p, c)
  BY <1>1, <1>2, <1>3 DEF Goto
<1>4. CASE Enter(p, c)
  <2>1. round' = [round EXCEPT ![p] = @ + 1]
    BY <1>4 DEF Enter
  <2> QED BY <1>1, <1>2, <2>1
<1> QED BY <1>3, <1>4

LEMMA Staying ==
  ASSUME JobInv, NEW p \in PE, NEW c, Goto(p, c) \/ Enter(p, c),
         NEW h, host' = [host EXCEPT ![p] = h], faulty \subseteq faulty'
  PROVE  OthersStay(p) /\ pc'[p] = c /\ host'[p] = h
BY Moving DEF OthersStay, JobInv

(* The steps up to the sync pool. *)
LEMMA OpeningStays ==
  ASSUME JobInv, NEW p \in PE,
         \/ shmemi_bootstrap_init(p) \/ shmemi_state_init_attr(p) \/ init_device_state(p)
         \/ reserve_heap(p) \/ shmemi_transport_load(p) \/ shmemi_transport_init(p)
         \/ shmemi_build_transport_map(p) \/ shmemi_mte_connect_peers(p)
         \/ GatherIps(p) \/ GatherMrs(p) \/ shmemi_rdma_connect_peers(p)
         \/ export_memory(p) \/ import_pid(p) \/ import_memory(p) \/ setup_heap(p)
         \/ shmem_init_attr_fails(p)
  PROVE  OthersStay(p) /\ pc'[p] \notin Pooled
<1> USE DEF Fine, Dropped
<1>0. \A c \in {"state", "device", "reserve", "transport", "open", "map", "connect", "ips", "mrs",
               "rdma", "setup", "pids", "handles", "mapping", "team", "failed"} : c \notin Pooled
  BY DEF Pooled, Cleared, Working, Running
<1>1. ASSUME \E c : c \notin Pooled /\ (Goto(p, c) \/ Enter(p, c)),
             \A q \in PE \ {p} : host'[q] = host[q], faulty \subseteq faulty'
      PROVE  OthersStay(p) /\ pc'[p] \notin Pooled
  <2>1. PICK c : c \notin Pooled /\ (Goto(p, c) \/ Enter(p, c))
    BY <1>1
  <2> QED BY <1>1, <2>1, Moving DEF OthersStay
<1>2. host \in [PE -> Hosts]
  BY DEF JobInv
<1>3. CASE shmemi_bootstrap_init(p)
  BY <1>0, <1>1, <1>2, <1>3 DEF shmemi_bootstrap_init
<1>4. CASE shmemi_state_init_attr(p)
  <2>1. PICK found \in BOOLEAN, right \in BOOLEAN, named \in BOOLEAN :
          /\ found => right
          /\ Dropped(p, found /\ named)
          /\ host' = [host EXCEPT ![p].device = right,
                                  ![p].hash = IF named THEN {HostOf[p]} ELSE {}]
    BY <1>4 DEF shmemi_state_init_attr
  <2>2. \A q \in PE \ {p} : host'[q] = host[q]
    BY <1>2, <2>1
  <2>3. faulty \subseteq faulty' /\ Goto(p, "device")
    BY <1>4, <2>1 DEF shmemi_state_init_attr
  <2> QED BY <1>0, <1>1, <2>2, <2>3
<1>5. CASE init_device_state(p)
  BY <1>0, <1>1, <1>2, <1>5 DEF init_device_state
<1>6. CASE reserve_heap(p)
  BY <1>0, <1>1, <1>2, <1>6 DEF reserve_heap
<1>7. CASE shmemi_transport_load(p)
  BY <1>0, <1>1, <1>7 DEF shmemi_transport_load
<1>8. CASE shmemi_transport_init(p)
  BY <1>0, <1>1, <1>2, <1>8 DEF shmemi_transport_init
<1>9. CASE shmemi_build_transport_map(p)
  BY <1>0, <1>1, <1>2, <1>9 DEF shmemi_build_transport_map
<1>10. CASE shmemi_mte_connect_peers(p)
  BY <1>0, <1>1, <1>2, <1>10 DEF shmemi_mte_connect_peers
<1>11. CASE GatherIps(p)
  BY <1>0, <1>1, <1>11 DEF GatherIps
<1>12. CASE GatherMrs(p)
  BY <1>0, <1>1, <1>12 DEF GatherMrs
<1>13. CASE shmemi_rdma_connect_peers(p)
  BY <1>0, <1>1, <1>2, <1>13 DEF shmemi_rdma_connect_peers
<1>14. CASE export_memory(p)
  BY <1>0, <1>1, <1>2, <1>14 DEF export_memory
<1>15. CASE import_pid(p)
  BY <1>0, <1>1, <1>2, <1>15 DEF import_pid
<1>16. CASE import_memory(p)
  BY <1>0, <1>1, <1>2, <1>16 DEF import_memory
<1>17. CASE setup_heap(p)
  BY <1>0, <1>1, <1>2, <1>17 DEF setup_heap
<1>18. CASE shmem_init_attr_fails(p)
  BY <1>0, <1>1, <1>2, <1>18 DEF shmem_init_attr_fails
<1> QED BY <1>3, <1>4, <1>5, <1>6, <1>7, <1>8, <1>9, <1>10, <1>11, <1>12, <1>13, <1>14, <1>15,
          <1>16, <1>17, <1>18

(* Those of the finalisation. *)
LEMMA EndingStays ==
  ASSUME JobInv, NEW p \in PE, Finalises(p)
  PROVE  OthersStay(p) /\ pc'[p] \in Ending
<1>1. host \in [PE -> Hosts] /\ faulty \subseteq faulty'
  BY DEF JobInv, Fine, Finalises, shmemi_team_finalize, release_heap, shmemi_transport_finalize,
    shmemi_bootstrap_finalize
<1>2. PICK c \in Ending : Goto(p, c)
  BY DEF Finalises, shmemi_team_finalize, release_heap, shmemi_transport_finalize,
    shmemi_bootstrap_finalize, Ending
<1>3. \A q \in PE \ {p} : host'[q] = host[q]
  BY <1>1 DEF Finalises, shmemi_team_finalize, release_heap, shmemi_transport_finalize,
    shmemi_bootstrap_finalize
<1> QED BY <1>1, <1>2, <1>3, Moving DEF OthersStay

-----------------------------------------------------------------------------
(* From the sync pool on.                                                  *)

LEMMA LedgerSame ==
  ASSUME NEW g, NEW h, Ledger(g), h.used = g.used, h.ptr = g.ptr, h.dirt \subseteq g.dirt
  PROVE  Ledger(h)
BY DEF Ledger

(* The sync pool is the first block. *)
LEMMA PoolLedger ==
  ASSUME NEW h, h.used = PoolBlock, h.ptr = <<>>
  PROVE  Ledger(h)
<1>1. Len(h.ptr) = 0 /\ Live(h.ptr, 0) = {}
  BY DEF Live
<1>2. UsedAfter(h.ptr, 0) = PoolBlock
  BY <1>1 DEF UsedAfter
<1> QED BY <1>1, <1>2 DEF Ledger

LEMMA shmemi_team_initAccounts ==
  ASSUME JobInv, AllocInv, NEW p \in PE, shmemi_team_init(p), JobInv'
  PROVE  AllocInv'
<1>1. /\ host[p] \in Hosts /\ pc[p] = "team" /\ host[p].ptr = <<>> /\ Enter(p, "pool")
      /\ faulty' = faulty
  BY Here DEF shmemi_team_init, At, Counted, Opening, Ending, Running, Fine
<1> DEFINE g == memory_manager_initialize(host[p])
           o == Place(g.used, 1, PoolSize)
           h == [g EXCEPT !.team = TRUE, !.used = Taken(@, o, PoolSize), !.pool = o]
<1>2. host' = [host EXCEPT ![p] = h]
  BY DEF shmemi_team_init
<1>3. g \in Hosts /\ g.used = {} /\ g.ptr = <<>>
  BY <1>1 DEF memory_manager_initialize, Hosts
<1> HIDE DEF g
<1>4. h.used = PoolBlock /\ h.ptr = <<>>
  <2>1. h.used = Taken({}, o, PoolSize) /\ h.ptr = <<>>
    <3> HIDE DEF o
    <3> QED BY <1>3 DEF Hosts
  <2> QED BY <1>3, <2>1 DEF PoolBlock
<1> HIDE DEF h
<1>5. Ledger(h)
  BY <1>4, PoolLedger
<1>6. OthersStay(p) /\ pc'[p] = "pool" /\ host'[p] = h
  BY <1>1, <1>2, Staying
<1>7. Accounted(p, "pool", h)
  BY DEF Accounted, Running
<1> QED BY <1>5, <1>6, <1>7, AllocMove

(* A step of the initialisation that the ledger does not concern. *)
LEMMA InitialisedMove ==
  ASSUME JobInv, AllocInv, NEW p \in PE, JobInv', pc[p] \in Pooled,
         NEW c \in {"failed", "counters", "sync", "final", "app", "run"},
         Goto(p, c) \/ Enter(p, c), c \in {"app", "run"} => shmem_init_attr_returns(p),
         NEW h, host' = [host EXCEPT ![p] = h], faulty' = faulty,
         h.used = host[p].used, h.ptr = host[p].ptr, h.dirt \subseteq host[p].dirt
  PROVE  AllocInv'
<1>1. OthersStay(p) /\ pc'[p] = c /\ host'[p] = h
  BY Staying
<1>2. p \notin faulty' => Ledger(h)
  BY LedgerSame DEF AllocInv
<1>3. Accounted(p, c, h)
  <2>1. CASE c \in {"app", "run"}
    <3>1. /\ round[p] = 9 /\ host[p].ptr = <<>> /\ \A q \in PE : round[q] >= round[p]
      BY <2>1, Here DEF shmem_init_attr_returns, At, Counted, Before, Opening, Ending, Gathered
    <3>2. Answered(c, h) = 0
      BY <2>1, <3>1 DEF Answered
    <3> QED BY <2>1, <3>1, <3>2, BarriersZero DEF Accounted
  <2>2. CASE c \notin {"app", "run"}
    BY <2>2 DEF Accounted, Running
  <2> QED BY <2>1, <2>2
<1> QED BY <1>1, <1>2, <1>3, AllocMove

LEMMA ClearPoolAccounts ==
  ASSUME JobInv, AllocInv, NEW p \in PE, JobInv', ClearPool(p)
  PROVE  AllocInv'
<1>1. host[p] \in Hosts /\ pc[p] \in Pooled
  BY Here DEF ClearPool, At, Pooled
<1>2. CASE host[p].pool = Null
  <2> DEFINE h == [host[p] EXCEPT !.ret = "error"]
  <2>1. h.used = host[p].used /\ h.ptr = host[p].ptr /\ h.dirt \subseteq host[p].dirt
    BY <1>1 DEF Hosts
  <2>2. Goto(p, "failed") /\ host' = [host EXCEPT ![p] = h] /\ faulty' = faulty
    BY <1>2 DEF ClearPool, Fine
  <2> HIDE DEF h
  <2> QED BY <1>1, <2>1, <2>2, InitialisedMove
<1>3. CASE host[p].pool # Null
  <2> DEFINE h == [host[p] EXCEPT !.dirt = @ \ Span(host[p].pool, PoolSize)]
  <2>1. h.used = host[p].used /\ h.ptr = host[p].ptr /\ h.dirt \subseteq host[p].dirt
    BY <1>1 DEF Hosts
  <2>2. Goto(p, "counters") /\ host' = [host EXCEPT ![p] = h] /\ faulty' = faulty
    BY <1>3 DEF ClearPool, Fine
  <2> HIDE DEF h
  <2> QED BY <1>1, <2>1, <2>2, InitialisedMove
<1> QED BY <1>2, <1>3

LEMMA PublishAccounts ==
  ASSUME JobInv, AllocInv, NEW p \in PE, JobInv', Publish(p)
  PROVE  AllocInv'
<1> DEFINE g == [host[p] EXCEPT !.initialized = TRUE]
<1>1. pc[p] \in Pooled
  BY DEF Publish, At, Pooled, Cleared
<1>2. g \in Hosts /\ g.used = host[p].used /\ g.ptr = host[p].ptr /\ g.dirt = host[p].dirt
  <2>1. host[p] \in Hosts
    BY Here
  <2> QED BY <2>1 DEF Hosts
<1>3. CASE g.registered
  <2> DEFINE h == update_device_state(g)
  <2>1. Enter(p, "final") /\ host' = [host EXCEPT ![p] = h] /\ faulty' = faulty
    BY <1>3 DEF Publish, Fine
  <2> HIDE DEF g
  <2>2. h.used = g.used /\ h.ptr = g.ptr /\ h.dirt = g.dirt
    BY <1>2, <1>3 DEF update_device_state, Hosts
  <2> HIDE DEF h
  <2> QED BY <1>1, <1>2, <2>1, <2>2, InitialisedMove
<1>4. CASE ~ g.registered
  <2> DEFINE h == [g EXCEPT !.ret = "error"]
  <2>1. Goto(p, "failed") /\ host' = [host EXCEPT ![p] = h] /\ faulty' = faulty
    BY <1>4 DEF Publish, Fine
  <2> HIDE DEF g
  <2>2. h.used = g.used /\ h.ptr = g.ptr /\ h.dirt = g.dirt
    BY <1>2 DEF Hosts
  <2> HIDE DEF h
  <2> QED BY <1>1, <1>2, <2>1, <2>2, InitialisedMove
<1> QED BY <1>3, <1>4

LEMMA SettledAccounts ==
  ASSUME JobInv, AllocInv, NEW p \in PE, JobInv', SyncAreas(p) \/ shmem_init_attr_returns(p)
  PROVE  AllocInv'
<1>1. host[p] \in Hosts /\ pc[p] \in Pooled
  BY Here DEF SyncAreas, shmem_init_attr_returns, At, Pooled, Cleared, Working
<1>2. CASE SyncAreas(p)
  <2> DEFINE h == [host[p] EXCEPT !.counters = 3]
  <2>1. h.used = host[p].used /\ h.ptr = host[p].ptr /\ h.dirt = host[p].dirt
    BY <1>1 DEF Hosts
  <2>2. Goto(p, "sync") /\ host' = [host EXCEPT ![p] = h] /\ faulty' = faulty
    BY <1>2 DEF SyncAreas, Fine
  <2> HIDE DEF h
  <2> QED BY <1>1, <2>1, <2>2, InitialisedMove
<1>3. CASE shmem_init_attr_returns(p)
  <2> DEFINE h == [host[p] EXCEPT !.ret = "ok"]
             c == Onward(0)
  <2>1. h.used = host[p].used /\ h.ptr = host[p].ptr /\ h.dirt = host[p].dirt
    BY <1>1 DEF Hosts
  <2>2. Goto(p, c) /\ host' = [host EXCEPT ![p] = h] /\ faulty' = faulty
    BY <1>3 DEF shmem_init_attr_returns, Fine
  <2>3. c \in {"app", "run"}
    BY OnwardPlace
  <2> HIDE DEF h, c
  <2> QED BY <1>1, <1>3, <2>1, <2>2, <2>3, InitialisedMove
<1> QED BY <1>2, <1>3

(* A call of the application is answered. *)
LEMMA AnswerMove ==
  ASSUME JobInv, AllocInv, NEW p \in PE, JobInv', pc[p] = "app", Made(p) < Len(Requests),
         NEW h, NEW o, h.ptr = Append(host[p].ptr, o),
         host' = [host EXCEPT ![p] = h], faulty \subseteq faulty',
         p \notin faulty' => Ledger(h),
         \/ Collective(Request(p)) /\ Enter(p, "alloc")
         \/ ~ Collective(Request(p)) /\ Goto(p, Onward(Made(p) + 1))
  PROVE  AllocInv'
<1>1. host[p].ptr \in Pointers /\ Made(p) \in Nat
  BY PointersType DEF Made
<1>2. Len(h.ptr) = Made(p) + 1 /\ h.ptr # <<>>
  <2>1. h.ptr = Append(host[p].ptr, o)
    OBVIOUS
  <2> QED BY <1>1, <2>1 DEF Made, Pointers
<1>3. \A q \in PE : round[q] >= 9 + Barriers(Made(p))
  BY DEF AllocInv, Accounted, Running, Answered, Made
<1>4. CASE Collective(Request(p)) /\ Enter(p, "alloc")
  <2>1. OthersStay(p) /\ pc'[p] = "alloc" /\ host'[p] = h
    BY <1>4, Staying
  <2>2. Answered("alloc", h) = Made(p)
    BY <1>1, <1>2 DEF Answered
  <2>3. Accounted(p, "alloc", h)
    BY <1>2, <1>3, <2>2 DEF Accounted
  <2> QED BY <2>1, <2>3, AllocMove
<1>5. CASE ~ Collective(Request(p)) /\ Goto(p, Onward(Made(p) + 1))
  <2> DEFINE c == Onward(Made(p) + 1)
  <2>1. c \in {"app", "run"}
    BY OnwardPlace
  <2>2. Goto(p, c)
    BY <1>5
  <2> HIDE DEF c
  <2>3. OthersStay(p) /\ pc'[p] = c /\ host'[p] = h
    BY <2>2, Staying
  <2>4. Barriers(Made(p) + 1) = Barriers(Made(p))
    BY <1>1, <1>5, BarriersNext DEF Request
  <2>5. Answered(c, h) = Made(p) + 1
    BY <1>2, <2>1 DEF Answered
  <2>6. Accounted(p, c, h)
    BY <1>2, <1>3, <2>1, <2>4, <2>5 DEF Accounted
  <2> QED BY <2>3, <2>6, AllocMove
<1> QED BY <1>4, <1>5

(* What the allocator finds is not the pool. *)
LEMMA NotThePool ==
  ASSUME NEW g \in Hosts, InHeap(g.used), Ledger(g), Place({}, 1, PoolSize) # Null,
         NEW c \in Calls, Answer(g.used, c) # Null
  PROVE  Answer(g.used, c) # Place({}, 1, PoolSize)
<1> DEFINE b == Block(Place({}, 1, PoolSize), AlignUp(PoolSize))
<1>1. g.used \in SUBSET Blocks
  BY DEF Hosts
<1>2. b \in g.used /\ b.offset = Place({}, 1, PoolSize)
  BY DEF Ledger, UsedAfter, PoolBlock, Taken, Block
<1>3. Collective(c) /\ Answer(g.used, c) = Place(g.used, Boundary(c), Bytes(c))
  BY DEF Answer
<1>4. Boundary(c) \in Nat /\ 0 < Boundary(c) /\ Bytes(c) \in Nat
  BY <1>3, AskType
<1> HIDE DEF b
<1>5. b.offset # Place(g.used, Boundary(c), Bytes(c))
  BY <1>1, <1>2, <1>3, <1>4, PlaceDistinct
<1> QED BY <1>2, <1>3, <1>5

(* Where a PE in the application stands. *)
LEMMA AppLedger ==
  ASSUME JobInv, AllocInv, NEW p \in PE, pc[p] = "app", Made(p) < Len(Requests), p \notin faulty
  PROVE  /\ host[p] \in Hosts /\ InHeap(host[p].used) /\ host[p].ptr \in Pointers
         /\ Ledger(host[p]) /\ Place({}, 1, PoolSize) # Null
         /\ Request(p) \in Calls /\ Request(p) = Requests[Len(host[p].ptr) + 1]
         /\ Len(host[p].ptr) < Len(Requests)
<1>1. /\ host[p] \in Hosts /\ InHeap(host[p].used) /\ Built(p, "app", host[p])
      /\ Request(p) \in Calls
  BY AtApp
<1>2. Place({}, 1, PoolSize) # Null
  BY <1>1 DEF Built, Pooled, Cleared, Working, Running
<1>3. Ledger(host[p])
  BY DEF AllocInv, Pooled, Cleared, Working, Running
<1> QED BY <1>1, <1>2, <1>3, PointersType DEF Request, Made

(* A block is given to a PE. *)
LEMMA GivenLedger ==
  ASSUME JobInv, AllocInv, NEW p \in PE, pc[p] = "app", Made(p) < Len(Requests), p \notin faulty,
         Collective(Request(p)),
         NEW g \in Hosts, g.used = host[p].used, g.ptr = host[p].ptr, g.dirt \subseteq host[p].dirt,
         NEW o, o = Place(g.used, Boundary(Request(p)), Bytes(Request(p))),
         Request(p).op = "calloc" => Span(o, Request(p).n) \cap g.dirt = {}
  PROVE  Ledger(Given(g, o, Bytes(Request(p))))
<1> DEFINE c == Request(p)
           h == Given(g, o, Bytes(c))
<1>1. /\ host[p] \in Hosts /\ InHeap(host[p].used) /\ host[p].ptr \in Pointers
      /\ Ledger(host[p]) /\ Place({}, 1, PoolSize) # Null
      /\ c \in Calls /\ c = Requests[Len(host[p].ptr) + 1] /\ Len(host[p].ptr) < Len(Requests)
  BY AppLedger
<1>2. o = Answer(host[p].used, c)
  BY DEF Answer
<1>3. o \in {Null} \cup Cells
  <2>1. Boundary(c) \in Nat /\ 0 < Boundary(c) /\ Bytes(c) \in Nat
    BY <1>1, AskType
  <2>2. host[p].used \in SUBSET Blocks
    BY <1>1 DEF Hosts
  <2> QED BY <1>1, <2>1, <2>2, PlaceInHeap
<1>4. o # Null => o # Place({}, 1, PoolSize)
  BY <1>1, <1>2, NotThePool
<1>5. /\ h.ptr = Append(host[p].ptr, o) /\ h.dirt = g.dirt
      /\ h.used = Taken(host[p].used, o, Bytes(c))
  BY DEF Given, Hosts
<1>6. c.op # "free"
  BY DEF Collective
<1> HIDE DEF c, h
<1>7. Ledger(h)
  <2>1. /\ h.dirt \subseteq host[p].dirt
        /\ Requests[Len(host[p].ptr) + 1].op = "calloc" =>
             Span(o, Requests[Len(host[p].ptr) + 1].n) \cap h.dirt = {}
    BY <1>1, <1>5 DEF c
  <2> QED BY <1>1, <1>2, <1>3, <1>4, <1>5, <1>6, <2>1, LedgerNext
<1> QED BY <1>7 DEF c, h

LEMMA shmem_mallocAccounts ==
  ASSUME JobInv, AllocInv, NEW p \in PE, JobInv', shmem_malloc(p) \/ shmem_align(p)
  PROVE  AllocInv'
<1> DEFINE c == Request(p)
           o == Place(host[p].used, Boundary(c), Bytes(c))
           h == Given(host[p], o, Bytes(c))
<1>1. /\ pc[p] = "app" /\ Made(p) < Len(Requests) /\ Collective(c) /\ c.op # "calloc"
      /\ Enter(p, "alloc") /\ faulty' = faulty
  BY DEF shmem_malloc, shmem_align, Asks, At, Collective, Fine
<1>2. host' = [host EXCEPT ![p] = h]
  BY DEF shmem_malloc, shmem_align, Asks, Boundary, Bytes
<1>3. host[p] \in Hosts
  BY Here
<1>4. h.ptr = Append(host[p].ptr, o)
  <2> HIDE DEF o, c
  <2> QED BY <1>3 DEF Given, Hosts
<1>5. p \notin faulty' => Ledger(h)
  <2> SUFFICES ASSUME p \notin faulty PROVE Ledger(h)
    BY <1>1
  <2> QED BY <1>1, <1>3, GivenLedger
<1> HIDE DEF h, o
<1> QED BY <1>1, <1>2, <1>4, <1>5, AnswerMove

LEMMA shmem_callocAccounts ==
  ASSUME JobInv, AllocInv, NEW p \in PE, JobInv', shmem_calloc(p)
  PROVE  AllocInv'
<1> DEFINE c == Request(p)
           o == Place(host[p].used, 1, c.m * c.n)
           g == [host[p] EXCEPT !.dirt = @ \ Span(o, c.n)]
<1>1. /\ pc[p] = "app" /\ Made(p) < Len(Requests) /\ c.op = "calloc" /\ Collective(c)
      /\ Enter(p, "alloc")
  BY DEF shmem_calloc, Asks, At, Collective
<1>2. Boundary(c) = 1 /\ Bytes(c) = c.m * c.n
  BY <1>1 DEF Boundary, Bytes
<1>3. host[p] \in Hosts
  BY Here
<1>4. /\ g \in Hosts /\ g.used = host[p].used /\ g.ptr = host[p].ptr
      /\ g.dirt = host[p].dirt \ Span(o, c.n)
  <2> HIDE DEF o
  <2> QED BY <1>3 DEF Hosts
<1>5. CASE Fine /\ host' = [host EXCEPT ![p] = Given(g, o, c.m * c.n)]
  <2> DEFINE h == Given(g, o, Bytes(c))
  <2>1. host' = [host EXCEPT ![p] = h] /\ faulty' = faulty
    BY <1>2, <1>5 DEF Fine
  <2>2. o = Place(g.used, Boundary(c), Bytes(c))
    BY <1>2, <1>4
  <2> HIDE DEF g, o
  <2>3. h.ptr = Append(host[p].ptr, o)
    BY <1>4 DEF Given, Hosts
  <2>4. p \notin faulty' => Ledger(h)
    <3> SUFFICES ASSUME p \notin faulty PROVE Ledger(h)
      BY <2>1
    <3>1. g.dirt \subseteq host[p].dirt /\ Span(o, c.n) \cap g.dirt = {}
      BY <1>4
    <3> QED BY <1>1, <1>4, <2>2, <3>1, GivenLedger
  <2> HIDE DEF h
  <2> QED BY <1>1, <2>1, <2>3, <2>4, AnswerMove
<1>6. CASE faulty' = faulty \cup {p} /\ host' = [host EXCEPT ![p].ptr = Append(@, Null)]
  <2> DEFINE h == [host[p] EXCEPT !.ptr = Append(@, Null)]
  <2>1. h.ptr = Append(host[p].ptr, Null)
    BY <1>3 DEF Hosts
  <2>2. host' = [host EXCEPT ![p] = h] /\ p \in faulty' /\ faulty \subseteq faulty'
    BY <1>6
  <2> HIDE DEF h
  <2> QED BY <1>1, <2>1, <2>2, AnswerMove
<1> QED BY <1>5, <1>6 DEF shmem_calloc

(* A call that returns null and takes nothing. *)
LEMMA NullLedger ==
  ASSUME JobInv, AllocInv, NEW p \in PE, pc[p] = "app", Made(p) < Len(Requests), p \notin faulty,
         ~ Collective(Request(p)),
         NEW h, h.ptr = Append(host[p].ptr, Null), h.dirt = host[p].dirt,
         h.used = IF Request(p).op = "free" THEN Released(host[p].used, host[p].ptr[Request(p).k])
                                            ELSE host[p].used
  PROVE  Ledger(h)
<1> DEFINE g == host[p]
           c == Request(p)
<1>1. /\ g.ptr \in Pointers /\ Ledger(g) /\ c = Requests[Len(g.ptr) + 1]
      /\ Len(g.ptr) < Len(Requests)
  BY AppLedger
<1>2. Null = Answer(g.used, c) /\ Null \in {Null} \cup Cells
  BY DEF Answer
<1>3. Span(Null, c.n) \cap h.dirt = {}
  BY DEF Span
<1>4. Taken(g.used, Null, Bytes(c)) = g.used
  BY DEF Taken
<1> HIDE DEF g
<1> QED BY <1>1, <1>2, <1>3, <1>4, LedgerNext DEF g

LEMMA shmem_freeAccounts ==
  ASSUME JobInv, AllocInv, NEW p \in PE, JobInv', shmem_free(p) \/ shmem_calloc_fails(p)
  PROVE  AllocInv'
<1> DEFINE c == Request(p)
           used == IF c.op = "free" THEN Released(host[p].used, host[p].ptr[c.k])
                                    ELSE host[p].used
           h == [host[p] EXCEPT !.used = used, !.ptr = Append(@, Null)]
<1>1. /\ pc[p] = "app" /\ Made(p) < Len(Requests) /\ ~ Collective(c)
      /\ Goto(p, Onward(Made(p) + 1)) /\ faulty' = faulty
  BY DEF shmem_free, shmem_calloc_fails, Asks, At, Collective, Fine
<1>2. host[p] \in Hosts
  BY Here
<1>3. host' = [host EXCEPT ![p] = h]
  <2>1. CASE shmem_free(p)
    BY <2>1 DEF shmem_free, Asks
  <2>2. CASE shmem_calloc_fails(p)
    <3>1. used = host[p].used
      BY <2>2 DEF shmem_calloc_fails, Asks
    <3>2. h = [host[p] EXCEPT !.ptr = Append(@, Null)]
      BY <1>2, <3>1 DEF Hosts
    <3> QED BY <2>2, <3>2 DEF shmem_calloc_fails
  <2> QED BY <2>1, <2>2
<1>4. h.used = used /\ h.ptr = Append(host[p].ptr, Null) /\ h.dirt = host[p].dirt
  BY <1>2 DEF Hosts
<1> HIDE DEF h
<1>5. p \notin faulty' => Ledger(h)
  BY <1>1, <1>4, NullLedger
<1> QED BY <1>1, <1>3, <1>4, <1>5, AnswerMove

(* The barrier of an allocation, and the one before the end. *)
LEMMA BarrierAccounts ==
  ASSUME JobInv, AllocInv, NEW p \in PE, JobInv', AllocationReturns(p) \/ Done(p)
  PROVE  AllocInv'
<1>1. /\ host' = host /\ faulty' = faulty /\ pc[p] \in {"alloc", "run"}
      /\ Counted(pc[p], round[p], host[p])
  BY Here DEF AllocationReturns, Done, At, Fine
<1>2. host' = [host EXCEPT ![p] = host[p]] /\ host[p].ptr \in Pointers /\ Made(p) \in Nat
  BY <1>1, Here, PointersType DEF Made
<1>3. p \notin faulty' => Ledger(host[p])
  BY <1>1 DEF AllocInv, Pooled, Cleared, Working, Running
<1>4. CASE AllocationReturns(p)
  <2> DEFINE c == Onward(Made(p))
  <2>1. c \in {"app", "run"} /\ Goto(p, c)
    BY <1>4, OnwardPlace DEF AllocationReturns
  <2> HIDE DEF c
  <2>2. OthersStay(p) /\ pc'[p] = c /\ host'[p] = host[p]
    BY <1>1, <1>2, <2>1, Staying
  <2>3. round[p] = 9 + Barriers(Made(p)) /\ \A q \in PE : round[q] >= round[p]
    BY <1>1, <1>4 DEF AllocationReturns, At, Gathered, Counted, Opening, Ending, Made
  <2>4. Answered(c, host[p]) = Made(p)
    BY <2>1 DEF Answered, Made
  <2>5. Accounted(p, c, host[p])
    BY <2>1, <2>3, <2>4 DEF Accounted
  <2> QED BY <1>3, <2>2, <2>5, AllocMove
<1>5. CASE Done(p)
  <2>1. Enter(p, "done") /\ pc[p] = "run"
    BY <1>5 DEF Done, At
  <2>2. OthersStay(p) /\ pc'[p] = "done" /\ host'[p] = host[p]
    BY <1>1, <1>2, <2>1, Staying
  <2>3. Len(host[p].ptr) = Len(Requests)
    BY <1>1, <2>1 DEF Counted, Opening, Ending
  <2>4. Accounted(p, "done", host[p])
    BY <2>1, <2>3 DEF AllocInv, Accounted, Answered, Running
  <2> QED BY <1>3, <2>2, <2>4, AllocMove
<1> QED BY <1>4, <1>5

LEMMA AllocInit == HostInit => AllocInv
<1> SUFFICES ASSUME HostInit, NEW p \in PE
             PROVE  pc[p] \notin Pooled /\ Accounted(p, pc[p], host[p])
  BY DEF AllocInv
<1>1. pc[p] = "init"
  BY DEF HostInit
<1> QED BY <1>1 DEF Accounted, Pooled, Cleared, Working, Running

LEMMA AllocStep == JobInv /\ JobInv' /\ AllocInv /\ [HostNext]_hostVars => AllocInv'
<1> SUFFICES ASSUME JobInv, JobInv', AllocInv, [HostNext]_hostVars PROVE AllocInv'
  OBVIOUS
<1>1. CASE UNCHANGED hostVars
  BY <1>1 DEF hostVars, AllocInv, Accounted
<1>2. ASSUME NEW p \in PE, HostStep(p) \/ Done(p)
      PROVE  AllocInv'
  <2>1. CASE Initialises(p)
    BY <2>1, OpeningStays, Elsewhere, shmemi_team_initAccounts, ClearPoolAccounts,
       PublishAccounts, SettledAccounts, Zenon DEF Initialises
  <2>2. CASE Allocates(p)
    BY <2>2, shmem_mallocAccounts, shmem_callocAccounts, shmem_freeAccounts, BarrierAccounts,
       Zenon DEF Allocates
  <2>3. CASE Finalises(p)
    <3>1. OthersStay(p) /\ pc'[p] \notin Pooled
      BY <2>3, EndingStays DEF Ending, Pooled, Cleared, Working, Running
    <3> QED BY <3>1, Elsewhere
  <2>4. CASE Done(p)
    BY <2>4, BarrierAccounts
  <2> QED BY <1>2, <2>1, <2>2, <2>3, <2>4 DEF HostStep
<1> QED BY <1>1, <1>2 DEF HostNext

(* A job keeps its accounts, whatever has failed. *)
THEOREM AllocInvariant == Spec => []AllocInv
<1>1. Init => JobInv /\ AllocInv
  BY InitInv, AllocInit DEF Init
<1>2. JobInv /\ AllocInv /\ [Next]_vars => JobInv' /\ AllocInv'
  BY StepInv, HostsOnly, AllocStep
<1> QED BY <1>1, <1>2, PTL DEF Spec

-----------------------------------------------------------------------------
(* What ledgers have in common.                                            *)

(* Two PEs have the same answers, as far as both have come. *)
LEMMA SameLedger ==
  ASSUME NEW g, NEW h, Ledger(g), Ledger(h), NEW k \in 0 .. Len(Requests),
         Len(g.ptr) \in Nat, Len(h.ptr) \in Nat, k <= Len(g.ptr), k <= Len(h.ptr)
  PROVE  \A j \in 1 .. k : g.ptr[j] = h.ptr[j]
<1> DEFINE T == {j \in 1 .. k : g.ptr[j] # h.ptr[j]}
<1>1. k \in Nat /\ k <= Len(Requests) /\ Len(Requests) \in Nat
  BY JobAssumption
<1> SUFFICES ASSUME T # {} PROVE FALSE
  OBVIOUS
<1>2. PICK n \in T : \A j \in T : n <= j
  <2>1. T \in SUBSET Nat
    OBVIOUS
  <2> QED BY <2>1, Smallest
<1>3. n - 1 \in 0 .. Len(Requests) /\ \A j \in 1 .. n - 1 : g.ptr[j] = h.ptr[j]
  <2>1. \A j \in 1 .. n - 1 : j \in 1 .. k /\ ~ (n <= j)
    BY <1>1
  <2> QED BY <1>1, <1>2, <2>1
<1>4. UsedAfter(g.ptr, n - 1) = UsedAfter(h.ptr, n - 1)
  BY <1>3, SameAnswers
<1>5. n \in 1 .. Len(g.ptr) /\ n \in 1 .. Len(h.ptr)
  BY <1>1
<1>6. g.ptr[n] = Answer(UsedAfter(g.ptr, n - 1), Requests[n])
      /\ h.ptr[n] = Answer(UsedAfter(h.ptr, n - 1), Requests[n])
  BY <1>5 DEF Ledger
<1> QED BY <1>4, <1>6

(* A call in progress adds at most its own block. *)
LEMMA UsedGrows ==
  ASSUME NEW r, NEW k \in Nat, 0 < k
  PROVE  UsedAfter(r, k) \subseteq UsedAfter(r, k - 1) \cup {b \in {BlockOf(r, k)} : r[k] # Null}
<1>1. ASSUME NEW j \in Live(r, k), j # k
      PROVE  j \in Live(r, k - 1)
  BY <1>1 DEF Live
<1> QED BY <1>1 DEF UsedAfter, Live

(* What has been in use at any time were blocks in the heap. *)
LEMMA LedgerInHeap ==
  ASSUME NEW h, Ledger(h), h.ptr \in Pointers, Len(h.ptr) <= Len(Requests),
         NEW k \in 0 .. Len(h.ptr)
  PROVE  UsedAfter(h.ptr, k) \in SUBSET Blocks /\ InHeap(UsedAfter(h.ptr, k))
<1> DEFINE U(n) == UsedAfter(h.ptr, n)
           T == {n \in 0 .. Len(h.ptr) : ~ (U(n) \in SUBSET Blocks /\ InHeap(U(n)))}
<1> SUFFICES ASSUME T # {} PROVE FALSE
  OBVIOUS
<1>1. Len(h.ptr) \in Nat /\ Len(Requests) \in Nat
  BY JobAssumption DEF Pointers
<1>2. PICK n \in T : \A m \in T : n <= m
  <2>1. T \in SUBSET Nat
    OBVIOUS
  <2> QED BY <2>1, Smallest
<1>3. CASE n = 0
  <2>1. Live(h.ptr, 0) = {}
    BY DEF Live
  <2>2. U(0) = PoolBlock
    BY <2>1 DEF UsedAfter
  <2>3. PoolBlock \in SUBSET Blocks /\ InHeap(PoolBlock)
    BY PoolPlaced DEF PoolBlock
  <2> HIDE DEF U
  <2> QED BY <1>3, <2>2, <2>3
<1>4. CASE n # 0
  <2> DEFINE c == Requests[n]
             o == h.ptr[n]
  <2>1. n \in 1 .. Len(h.ptr) /\ n - 1 \in 0 .. Len(h.ptr) /\ ~ (n <= n - 1)
    BY <1>1, <1>4
  <2> HIDE DEF U
  <2>2. U(n - 1) \in SUBSET Blocks /\ InHeap(U(n - 1))
    BY <1>2, <2>1
  <2>3. o = Answer(U(n - 1), c)
    BY <2>1 DEF Ledger, U
  <2>4. U(n) \subseteq U(n - 1) \cup {b \in {BlockOf(h.ptr, n)} : o # Null}
    BY <1>1, <2>1, UsedGrows DEF U
  <2>5. o # Null => BlockOf(h.ptr, n) \in Blocks /\ InHeap({BlockOf(h.ptr, n)})
    <3> SUFFICES ASSUME o # Null
                 PROVE  BlockOf(h.ptr, n) \in Blocks /\ InHeap({BlockOf(h.ptr, n)})
      OBVIOUS
    <3>1. Collective(c) /\ o = Place(U(n - 1), Boundary(c), Bytes(c))
      BY <2>3 DEF Answer
    <3>2. c \in Calls
      BY <1>1, <2>1, RequestType
    <3>3. Boundary(c) \in Nat /\ 0 < Boundary(c) /\ Bytes(c) \in Nat
      BY <3>1, <3>2, AskType
    <3>4. o \in Nat /\ 0 < Bytes(c) /\ o + AlignUp(Bytes(c)) <= HeapSize
      BY <2>2, <3>1, <3>3, PlaceInHeap
    <3>5. AlignUp(Bytes(c)) \in Nat /\ Bytes(c) <= AlignUp(Bytes(c))
      BY <3>3, AlignUpHolds
    <3>6. BlockOf(h.ptr, n) = [offset |-> o, size |-> AlignUp(Bytes(c))]
      BY DEF BlockOf, Block
    <3> HIDE DEF o, c
    <3> QED BY <3>3, <3>4, <3>5, <3>6 DEF Blocks, InHeap
  <2>6. U(n) \in SUBSET Blocks /\ InHeap(U(n))
    <3> HIDE DEF o
    <3> QED BY <2>2, <2>4, <2>5 DEF InHeap
  <2> QED BY <2>6
<1> QED BY <1>3, <1>4

(* A block starts where none in use does. *)
LEMMA LedgerDistinct ==
  ASSUME NEW h, Ledger(h), h.ptr \in Pointers, Len(h.ptr) <= Len(Requests),
         NEW n \in 1 .. Len(h.ptr), h.ptr[n] # Null, NEW j \in Live(h.ptr, n - 1)
  PROVE  h.ptr[j] # h.ptr[n]
<1> DEFINE c == Requests[n]
           U == UsedAfter(h.ptr, n - 1)
<1>1. Len(h.ptr) \in Nat /\ Len(Requests) \in Nat
  BY JobAssumption DEF Pointers
<1>2. n - 1 \in 0 .. Len(h.ptr) /\ c \in Calls
  BY <1>1, RequestType
<1>3. U \in SUBSET Blocks /\ InHeap(U)
  BY <1>2, LedgerInHeap
<1>4. Collective(c) /\ h.ptr[n] = Place(U, Boundary(c), Bytes(c))
  BY DEF Ledger, Answer
<1>5. Boundary(c) \in Nat /\ 0 < Boundary(c) /\ Bytes(c) \in Nat
  BY <1>2, <1>4, AskType
<1>6. BlockOf(h.ptr, j) \in U /\ BlockOf(h.ptr, j).offset = h.ptr[j]
  BY DEF UsedAfter, BlockOf, Block
<1> HIDE DEF U, c
<1> QED BY <1>3, <1>4, <1>5, <1>6, PlaceDistinct

(* A call that frees is determined by whose block it frees. *)
LEMMA FreeCall ==
  ASSUME NEW i \in 1 .. Len(Requests), Requests[i].op = "free"
  PROVE  Requests[i] = Free(Requests[i].k)
<1>1. Requests[i] \in Calls
  BY JobAssumption
<1>2. Requests[i] \in [op : {"free"}, k : Nat \ {0}]
  BY <1>1 DEF Calls
<1> QED BY <1>2 DEF Free

(* What is no longer in use has been freed while it was. *)
LEMMA FirstFree ==
  ASSUME NEW r, NEW k \in Nat, NEW j \in 1 .. k, r[j] # Null, j \notin Live(r, k)
  PROVE  \E i \in j + 1 .. k : Frees(r, i, r[j]) /\ j \in Live(r, i - 1)
<1> DEFINE T == {i \in j + 1 .. k : Frees(r, i, r[j])}
<1>1. T \in SUBSET Nat /\ T # {}
  BY DEF Live
<1>2. PICK i \in T : \A l \in T : i <= l
  BY <1>1, Smallest
<1>3. \A l \in j + 1 .. i - 1 : l \in j + 1 .. k /\ ~ (i <= l)
  BY <1>2
<1>4. j \in 1 .. i - 1 /\ \A l \in j + 1 .. i - 1 : ~ Frees(r, l, r[j])
  BY <1>2, <1>3
<1> QED BY <1>2, <1>4 DEF Live

(* What a call frees is what the call it names has returned, and not what  *)
(* has been put in its place since.                                        *)
LEMMA NoStaleFree ==
  ASSUME NEW h, Ledger(h), h.ptr \in Pointers, Len(h.ptr) <= Len(Requests),
         NEW i \in 1 .. Len(h.ptr), NEW j \in Live(h.ptr, i - 1), Frees(h.ptr, i, h.ptr[j])
  PROVE  Requests[i].k = j
<1> DEFINE r == h.ptr
           T == {n \in 1 .. Len(r) : \E x \in Live(r, n - 1) :
                   Frees(r, n, r[x]) /\ Requests[n].k # x}
<1> SUFFICES ASSUME T # {} PROVE FALSE
  OBVIOUS
<1>1. Len(r) \in Nat /\ Len(Requests) \in Nat
  BY JobAssumption DEF Pointers
<1>2. PICK n \in T : \A l \in T : n <= l
  <2>1. T \in SUBSET Nat
    OBVIOUS
  <2> QED BY <2>1, Smallest
<1>3. n \in 1 .. Len(r) /\ n \in 1 .. Len(Requests)
  BY <1>1
<1>4. PICK x \in Live(r, n - 1) : Frees(r, n, r[x]) /\ Requests[n].k # x
  OBVIOUS
<1> DEFINE m == Requests[n].k
<1>5. Requests[n].op = "free" /\ r[m] = r[x] /\ m \in 1 .. n - 1
  BY <1>3, <1>4, RequestType DEF Frees
<1>6. x \in 1 .. n - 1 /\ r[x] # Null /\ \A l \in x + 1 .. n - 1 : ~ Frees(r, l, r[x])
  BY <1>4 DEF Live
<1>7. CASE m < x
  <2>1. m \notin Live(r, x - 1)
    <3>1. x \in 1 .. Len(r)
      BY <1>3, <1>6
    <3> QED BY <1>5, <1>6, <3>1, LedgerDistinct
  <2>2. x - 1 \in Nat /\ m \in 1 .. x - 1 /\ r[m] # Null
    BY <1>5, <1>6, <1>7
  <2>3. PICK l \in m + 1 .. x - 1 : Frees(r, l, r[m]) /\ m \in Live(r, l - 1)
    <3> HIDE DEF m, r
    <3> QED BY <2>1, <2>2, FirstFree
  <2>4. l \in 1 .. Len(r) /\ l \in 1 .. Len(Requests) /\ ~ (n <= l) /\ l # n
    <3> HIDE DEF m, r
    <3> QED BY <1>1, <1>3, <1>5, <1>6, <2>3
  <2>5. Requests[l].k = m /\ Requests[l].op = "free"
    <3> HIDE DEF m
    <3> QED BY <1>2, <2>3, <2>4 DEF Frees
  <2>6. Requests[l] = Requests[n]
    BY <1>3, <1>5, <2>4, <2>5, FreeCall
  <2> QED BY <1>3, <1>5, <2>4, <2>6, FreedOnce
<1>8. CASE x < m
  <2>1. \A l \in x + 1 .. m - 1 : l \in x + 1 .. n - 1
    BY <1>5, <1>6
  <2>2. x \in Live(r, m - 1)
    <3>1. x \in 1 .. m - 1
      BY <1>5, <1>6, <1>8
    <3> HIDE DEF m
    <3> QED BY <1>6, <2>1, <3>1 DEF Live
  <2>3. m \in 1 .. Len(r) /\ r[m] # Null
    BY <1>3, <1>5, <1>6
  <2> QED BY <1>5, <2>2, <2>3, LedgerDistinct
<1>9. m \in Nat /\ x \in Nat /\ m # x
  BY <1>4, <1>5, <1>6
<1> HIDE DEF m
<1> QED BY <1>7, <1>8, <1>9

(* What no call frees stays in use. *)
LEMMA KeptLive ==
  ASSUME NEW h, Ledger(h), h.ptr \in Pointers, Len(h.ptr) <= Len(Requests),
         NEW k \in 1 .. Len(h.ptr), h.ptr[k] # Null, Kept(k)
  PROVE  \E b \in h.used : b.offset = h.ptr[k]
<1> DEFINE r == h.ptr
<1>1. Len(r) \in Nat /\ Len(Requests) \in Nat
  BY JobAssumption DEF Pointers
<1>2. k \in Live(r, Len(r))
  <2> SUFFICES ASSUME k \notin Live(r, Len(r)) PROVE FALSE
    OBVIOUS
  <2>1. PICK i \in k + 1 .. Len(r) : Frees(r, i, r[k]) /\ k \in Live(r, i - 1)
    BY <1>1, FirstFree
  <2>2. i \in 1 .. Len(r) /\ i \in 1 .. Len(Requests)
    BY <1>1, <2>1
  <2>3. Requests[i].k = k
    BY <2>1, <2>2, NoStaleFree
  <2>4. Requests[i] = Free(k)
    BY <2>1, <2>2, <2>3, FreeCall DEF Frees
  <2> QED BY <2>2, <2>4 DEF Kept
<1>3. BlockOf(r, k) \in h.used /\ BlockOf(r, k).offset = r[k]
  BY <1>2 DEF Ledger, UsedAfter, BlockOf, Block
<1> QED BY <1>3

LEMMA BarriersMonotone ==
  ASSUME NEW j \in Nat, NEW k \in Nat, j <= k
  PROVE  Barriers(j) <= Barriers(k)
<1>1. IsFiniteSet(Meeting(k))
  BY BarriersType
<1>2. Meeting(j) \subseteq Meeting(k)
  BY DEF Meeting
<1> QED BY <1>1, <1>2, FS_Subset DEF Barriers

(* When one PE has left an allocation that succeeded, all have made it. *)
LEMMA AllHaveMade ==
  ASSUME JobInv, AllocInv, faulty = {}, NEW p \in PE, NEW q \in PE, NEW k \in 1 .. Len(Requests),
         Left(p, k), pc[q] \in Running, host[p].ptr[k] # Null
  PROVE  k <= Len(host[q].ptr)
<1> DEFINE n == Len(host[q].ptr)
           a == Answered(pc[p], host[p])
<1>1. Len(host[p].ptr) \in Nat /\ n \in Nat /\ k \in Nat /\ Len(Requests) \in Nat
  BY PointersType, JobAssumption
<1>2. Accounted(p, pc[p], host[p]) /\ Accounted(q, pc[q], host[q])
  BY DEF AllocInv
<1>3. CASE pc[q] = "done"
  BY <1>1, <1>2, <1>3 DEF Accounted
<1>4. CASE pc[q] # "done"
  <2> SUFFICES ASSUME n < k PROVE FALSE
    BY <1>1
  <2>1. round[q] = 9 + Barriers(n)
    BY <1>4, Here DEF Running, Counted, Opening, Ending
  <2>2. a \in Nat /\ k <= a /\ round[q] >= 9 + Barriers(a)
    <3>1. pc[p] \in Running
      BY DEF Left
    <3>2. k <= Len(host[p].ptr) /\ (k = Len(host[p].ptr) => pc[p] # "alloc")
      BY DEF Left
    <3>3. round[q] >= 9 + Barriers(a)
      BY <1>2, <3>1 DEF Accounted
    <3>4. a \in Nat
      BY AnsweredType
    <3> QED BY <1>1, <3>2, <3>3, <3>4 DEF Answered
  <2>3. Collective(Requests[k])
    <3>1. p \notin faulty /\ pc[p] \in Pooled
      BY DEF Left, Pooled, Cleared, Working
    <3>2. Ledger(host[p])
      BY <3>1 DEF AllocInv
    <3>3. host[p].ptr[k] = Answer(UsedAfter(host[p].ptr, k - 1), Requests[k])
      BY <3>2 DEF Ledger, Left
    <3> QED BY <3>3 DEF Answer
  <2>4. k - 1 \in Nat /\ n <= k - 1 /\ (k - 1) + 1 = k
    BY <1>1
  <2>5. Barriers(k) = Barriers(k - 1) + 1
    BY <2>3, <2>4, BarriersNext
  <2> HIDE DEF n, a
  <2>6. Barriers(n) <= Barriers(k - 1) /\ Barriers(k) <= Barriers(a)
    BY <1>1, <2>2, <2>4, BarriersMonotone
  <2>7. Barriers(n) \in Nat /\ Barriers(k - 1) \in Nat /\ Barriers(k) \in Nat /\ Barriers(a) \in Nat
    BY <1>1, <2>2, <2>4, BarriersType
  <2> QED BY <2>1, <2>2, <2>5, <2>6, <2>7
<1> QED BY <1>3, <1>4

(* What collective allocation promises, for every number of PEs, heap and  *)
(* sequence of allocations that frees only what has been returned: a block *)
(* that one PE has left with is at the same address on all of them.        *)
THEOREM AllocatedAlike == Spec => []AllocatedEverywhere
<1>1. ASSUME JobInv, AllocInv, faulty = {}, NEW p \in PE, NEW q \in PE,
             NEW k \in 1 .. Len(Requests), Left(p, k), pc[q] \in Running, host[p].ptr[k] # Null
      PROVE  LET o == host[p].ptr[k] IN
             /\ k <= Len(host[q].ptr) /\ host[q].ptr[k] = o
             /\ Kept(k) => \E b \in host[q].used : b.offset = o
  <2>1. Ledger(host[p]) /\ Ledger(host[q])
    BY <1>1 DEF AllocInv, Left, Pooled, Cleared, Working
  <2>2. k <= Len(host[q].ptr)
    BY <1>1, AllHaveMade
  <2>3. /\ host[q].ptr \in Pointers /\ Len(host[q].ptr) \in Nat /\ Len(host[p].ptr) \in Nat
        /\ k \in 1 .. Len(host[q].ptr) /\ k <= Len(host[p].ptr) /\ k \in 0 .. Len(Requests)
    BY <1>1, <2>2, PointersType, JobAssumption DEF Left
  <2>4. host[q].ptr[k] = host[p].ptr[k]
    BY <2>1, <2>3, SameLedger
  <2>5. Len(host[q].ptr) <= Len(Requests)
    <3>1. Counted(pc[q], round[q], host[q]) /\ Accounted(q, pc[q], host[q]) /\ Len(Requests) \in Nat
      BY <1>1, Here, JobAssumption DEF AllocInv
    <3> QED BY <1>1, <3>1 DEF Running, Counted, Accounted, Opening, Ending
  <2>6. Kept(k) => \E b \in host[q].used : b.offset = host[q].ptr[k]
    BY <1>1, <2>1, <2>3, <2>4, <2>5, KeptLive
  <2> QED BY <2>2, <2>4, <2>6
<1>2. JobInv /\ AllocInv => AllocatedEverywhere
  BY <1>1 DEF AllocatedEverywhere
<1> QED BY <1>2, JobInvariant, AllocInvariant, PTL

-----------------------------------------------------------------------------
(* Sequences.                                                              *)

(* Laying sequences end to end, one after the other: if the first one has  *)
(* what R says of one, and each further one keeps it, the whole has what R *)
(* says of all.                                                            *)
LEMMA FlattenSteps ==
  ASSUME NEW X, NEW s \in Seq(Seq(X)), s # <<>>, NEW R, s[1] \in R[1],
         \A i \in 1 .. Len(s) - 1 : \A u \in R[i] : u \o s[i + 1] \in R[i + 1]
  PROVE  FlattenSeq(s) \in R[Len(s)]
<1> DEFINE n == Len(s)
           Laid(f, m) == f = [i \in 1 .. m |-> IF i = 1 THEN s[i] ELSE f[i - 1] \o s[i]]
<1>1. n \in Nat /\ n # 0
  OBVIOUS
<1> HIDE DEF n, Laid
<1>2. ASSUME NEW m \in 1 .. n
      PROVE  \E f : Laid(f, m)
  <2> DEFINE T == {k \in 1 .. n : ~ \E f : Laid(f, k)}
  <2> SUFFICES ASSUME T # {} PROVE FALSE
    OBVIOUS
  <2>1. PICK k \in T : \A j \in T : k <= j
    <3>1. T \in SUBSET Nat
      BY <1>1
    <3> QED BY <3>1, Smallest
  <2>2. CASE k = 1
    <3> DEFINE g == [i \in 1 .. k |-> s[i]]
    <3>1. Laid(g, k)
      BY <2>2 DEF Laid
    <3> QED BY <2>1, <3>1
  <2>3. CASE k # 1
    <3>1. k - 1 \in 1 .. n /\ ~ (k <= k - 1)
      BY <1>1, <2>1, <2>3
    <3>2. PICK f : Laid(f, k - 1)
      BY <2>1, <3>1
    <3> DEFINE g == [i \in 1 .. k |-> IF i = k THEN f[k - 1] \o s[k] ELSE f[i]]
    <3> DEFINE h == [i \in 1 .. k |-> IF i = 1 THEN s[i] ELSE g[i - 1] \o s[i]]
    <3>3. /\ \A i \in 1 .. k - 1 : i \in 1 .. k /\ i # k
          /\ k \in 1 .. k /\ k - 1 \in 1 .. k - 1
          /\ \A i \in 1 .. k : (i = k \/ i \in 1 .. k - 1) /\ (i # 1 => i - 1 \in 1 .. k - 1)
      BY <1>1, <3>1
    <3>4. /\ \A i \in 1 .. k - 1 : g[i] = f[i]
          /\ g[k] = f[k - 1] \o s[k]
      BY <3>3, Zenon
    <3>5. \A i \in 1 .. k - 1 : f[i] = IF i = 1 THEN s[i] ELSE f[i - 1] \o s[i]
      BY <3>2 DEF Laid
    <3>6. ASSUME NEW i \in 1 .. k
          PROVE  g[i] = h[i]
      <4>1. h[i] = IF i = 1 THEN s[i] ELSE g[i - 1] \o s[i]
        OBVIOUS
      <4> HIDE DEF g, h
      <4>2. CASE i = k
        BY <2>3, <3>3, <3>4, <4>1, <4>2
      <4>3. CASE i # k
        <5>1. i \in 1 .. k - 1 /\ (i # 1 => i - 1 \in 1 .. k - 1)
          BY <3>3, <4>3
        <5> QED BY <3>4, <3>5, <4>1, <5>1
      <4> QED BY <4>2, <4>3
    <3>7. g = h
      BY <3>6, Zenon
    <3>8. Laid(g, k)
      BY <3>7 DEF Laid
    <3> QED BY <2>1, <3>8
  <2> QED BY <2>2, <2>3
<1> DEFINE f == CHOOSE f : Laid(f, n)
<1>3. Laid(f, n)
  <2>1. n \in 1 .. n
    BY <1>1
  <2> QED BY <1>2, <2>1
<1>4. FlattenSeq(s) = f[n]
  BY <1>1 DEF FlattenSeq, n, Laid
<1> HIDE DEF f
<1>5. \A i \in 1 .. n : f[i] \in R[i]
  <2> DEFINE T == {i \in 1 .. n : f[i] \notin R[i]}
  <2> SUFFICES ASSUME T # {} PROVE FALSE
    OBVIOUS
  <2>1. PICK k \in T : \A j \in T : k <= j
    <3>1. T \in SUBSET Nat
      OBVIOUS
    <3> QED BY <3>1, Smallest
  <2>2. f[k] = IF k = 1 THEN s[k] ELSE f[k - 1] \o s[k]
    BY <1>3 DEF Laid
  <2>3. k # 1
    BY <2>1, <2>2
  <2>4. k - 1 \in 1 .. n /\ ~ (k <= k - 1) /\ k - 1 \in 1 .. n - 1 /\ (k - 1) + 1 = k
    BY <1>1, <2>3
  <2>5. f[k - 1] \in R[k - 1]
    BY <2>1, <2>4
  <2>6. f[k - 1] \o s[(k - 1) + 1] \in R[(k - 1) + 1]
    BY <2>4, <2>5 DEF n
  <2> QED BY <2>2, <2>3, <2>4, <2>6
<1>6. n \in 1 .. n
  BY <1>1
<1> QED BY <1>4, <1>5, <1>6 DEF n

(* Where all but the last are in A and the last is in B this gives one in  *)
(* B, if it does so for two.                                               *)
LEMMA FlattenEnds ==
  ASSUME NEW X, NEW s \in Seq(Seq(X)), s # <<>>, NEW A \in SUBSET Seq(X), NEW B \in SUBSET Seq(X),
         \A k \in 1 .. Len(s) - 1 : s[k] \in A, s[Len(s)] \in B,
         \A u, v \in A : u \o v \in A, \A u \in A, v \in B : u \o v \in B
  PROVE  FlattenSeq(s) \in B
<1> DEFINE n == Len(s)
           R == [i \in 1 .. n |-> IF i < n THEN A ELSE B]
<1>1. n \in Nat /\ 1 \in 1 .. n /\ n \in 1 .. n /\ ~ (n < n) /\ \A i \in 1 .. n : i < n \/ i = n
  OBVIOUS
<1>2. \A i \in 1 .. n : (i < n => s[i] \in A /\ R[i] = A) /\ (i = n => s[i] \in B /\ R[i] = B)
  OBVIOUS
<1> HIDE DEF R
<1>3. s[1] \in R[1]
  BY <1>1, <1>2
<1>4. \A i \in 1 .. n - 1 : i \in 1 .. n /\ i < n /\ i + 1 \in 1 .. n
  BY <1>1
<1>5. \A i \in 1 .. n - 1 : \A u \in R[i] : u \o s[i + 1] \in R[i + 1]
  <2> TAKE i \in 1 .. n - 1
  <2>1. R[i] = A /\ i + 1 \in 1 .. n
    BY <1>2, <1>4
  <2>2. i + 1 < n \/ i + 1 = n
    BY <1>1, <2>1
  <2>3. (s[i + 1] \in A /\ R[i + 1] = A) \/ (s[i + 1] \in B /\ R[i + 1] = B)
    BY <1>2, <2>1, <2>2
  <2> HIDE DEF n
  <2> QED BY <2>1, <2>3
<1>6. FlattenSeq(s) \in R[n]
  BY <1>3, <1>5, FlattenSteps
<1> QED BY <1>1, <1>2, <1>6

(* Laying sequences end to end gives a sequence of the same things. *)
LEMMA FlattenType ==
  ASSUME NEW X, NEW s \in Seq(Seq(X))
  PROVE  FlattenSeq(s) \in Seq(X)
<1>1. CASE s = <<>>
  <2>1. FlattenSeq(s) = s
    BY <1>1 DEF FlattenSeq
  <2>2. <<>> \in Seq(X)
    OBVIOUS
  <2> QED BY <1>1, <2>1, <2>2, Zenon
<1>2. CASE s # <<>>
  <2>1. \A k \in 1 .. Len(s) : s[k] \in Seq(X)
    OBVIOUS
  <2>2. /\ \A k \in 1 .. Len(s) - 1 : s[k] \in Seq(X)
        /\ s[Len(s)] \in Seq(X)
    BY <1>2
  <2>3. \A u, v \in Seq(X) : u \o v \in Seq(X)
    OBVIOUS
  <2> QED BY <1>2, <2>2, <2>3, FlattenEnds
<1> QED BY <1>1, <1>2

(* What holds for the parts holds for the whole. *)
LEMMA SeqRange ==
  ASSUME NEW X, NEW s \in Seq(X)
  PROVE  s \in Seq(Range(s)) /\ Range(s) \subseteq X
<1>1. s \in [1 .. Len(s) -> X] /\ DOMAIN s = 1 .. Len(s) /\ Len(s) \in Nat
  OBVIOUS
<1>2. s \in [1 .. Len(s) -> Range(s)]
  BY <1>1 DEF Range
<1>3. Range(s) \subseteq X
  BY <1>1 DEF Range
<1> QED BY <1>1, <1>2, <1>3

LEMMA RangeFlat ==
  ASSUME NEW n \in Int, NEW s, DOMAIN s = 1 .. n, s = [k \in 1 .. n |-> s[k]],
         \A k \in 1 .. n : s[k] \in Seq(Range(s[k]))
  PROVE  s \in Seq(Seq(UNION {Range(s[k]) : k \in 1 .. n}))
<1> DEFINE X == UNION {Range(s[k]) : k \in 1 .. n}
<1>1. \A k \in 1 .. n : s[k] \in Seq(X)
  <2> TAKE k \in 1 .. n
  <2>1. s[k] \in Seq(Range(s[k]))
    OBVIOUS
  <2>2. Range(s[k]) \subseteq X
    OBVIOUS
  <2> HIDE DEF X
  <2> QED BY <2>1, <2>2
<1> HIDE DEF X
<1>2. s \in Seq(Seq(X))
  <2>1. CASE n \in Nat
    <3>1. s \in [1 .. n -> Seq(X)]
      BY <1>1
    <3> QED BY <2>1, <3>1
  <2>2. CASE n \notin Nat
    <3>1. 1 .. n = 1 .. 0
      BY <2>2
    <3>2. s \in [1 .. 0 -> Seq(X)]
      BY <1>1, <3>1
    <3>3. 0 \in Nat
      OBVIOUS
    <3> QED BY <3>2, <3>3
  <2> QED BY <2>1, <2>2
<1> QED BY <1>2 DEF X

-----------------------------------------------------------------------------
(* What the PEs learn of their hosts, and the devices of theirs.           *)

(* The other steps of a host: none of them is at the run. *)
LEMMA HostMoves ==
  ASSUME NEW p \in PE, HostStep(p)
  PROVE  pc[p] # "run" /\ \E c : Goto(p, c) \/ Enter(p, c)
<1>1. CASE Initialises(p)
  BY <1>1 DEF Initialises, shmemi_bootstrap_init, shmemi_state_init_attr, init_device_state,
    reserve_heap, shmemi_transport_load, shmemi_transport_init, shmemi_build_transport_map,
    shmemi_mte_connect_peers, GatherIps, GatherMrs, shmemi_rdma_connect_peers, export_memory,
    import_pid, import_memory, setup_heap, shmemi_team_init, ClearPool, SyncAreas, Publish,
    shmem_init_attr_returns, shmem_init_attr_fails, At, Checked
<1>2. CASE Allocates(p)
  BY <1>2 DEF Allocates, shmem_malloc, shmem_align, shmem_calloc_fails, shmem_calloc,
    AllocationReturns, shmem_free, Asks, At
<1>3. CASE Finalises(p)
  BY <1>3 DEF Finalises, shmemi_team_finalize, release_heap, shmemi_transport_finalize,
    shmemi_bootstrap_finalize, At
<1> QED BY <1>1, <1>2, <1>3 DEF HostStep

(* A step of p leaves the other hosts alone. *)
LEMMA HostStays ==
  ASSUME JobInv, NEW p \in PE, HostStep(p) \/ Done(p)
  PROVE  OthersStay(p)
<1>1. host \in [PE -> Hosts]
  BY DEF JobInv
<1>2. \E c : Goto(p, c) \/ Enter(p, c)
  BY HostMoves DEF Done
<1>3. faulty \subseteq faulty' /\ \A q \in PE \ {p} : host'[q] = host[q]
  <2>1. CASE Initialises(p)
    <3>1. CASE shmemi_team_init(p) \/ ClearPool(p) \/ SyncAreas(p) \/ Publish(p) \/ shmem_init_attr_returns(p)
      BY <1>1, <3>1 DEF shmemi_team_init, ClearPool, SyncAreas, Publish, shmem_init_attr_returns, Fine
    <3>2. CASE ~ (shmemi_team_init(p) \/ ClearPool(p) \/ SyncAreas(p) \/ Publish(p)
                  \/ shmem_init_attr_returns(p))
      BY <2>1, <3>2, OpeningStays, Zenon DEF Initialises, OthersStay
    <3> QED BY <3>1, <3>2
  <2>2. CASE Allocates(p)
    BY <1>1, <2>2 DEF Allocates, shmem_malloc, shmem_align, shmem_calloc_fails, shmem_calloc,
      AllocationReturns, shmem_free, Fine
  <2>3. CASE Finalises(p)
    BY <2>3, EndingStays DEF OthersStay
  <2>4. CASE Done(p)
    BY <2>4 DEF Done, Fine
  <2> QED BY <2>1, <2>2, <2>3, <2>4 DEF HostStep
<1> QED BY <1>2, <1>3, Moving DEF OthersStay

(* Steps that leave the network device and the names as they are. *)
SameNames(h, k) == k.device = h.device /\ k.hash = h.hash /\ k.info = h.info
LEMMA NetUntouched ==
  ASSUME NEW p \in PE, host \in [PE -> Hosts],
         \/ UNCHANGED host
         \/ export_memory(p) \/ import_pid(p) \/ import_memory(p) \/ setup_heap(p)
         \/ shmemi_team_init(p) \/ ClearPool(p) \/ SyncAreas(p) \/ Publish(p)
         \/ shmem_init_attr_returns(p) \/ Allocates(p)
  PROVE  /\ host'[p].rdma = host[p].rdma /\ host'[p].nic = host[p].nic
         /\ SameNames(host[p], host'[p])
<1> USE DEF SameNames
<1> DEFINE SameNic(h) == /\ h.rdma = host[p].rdma /\ h.nic = host[p].nic
                         /\ SameNames(host[p], h)
<1>1. host[p] \in Hosts
  OBVIOUS
<1>2. \A h : host' = [host EXCEPT ![p] = h] => host'[p] = h
  OBVIOUS
<1>3. CASE UNCHANGED host
  BY <1>3
<1>4. CASE export_memory(p)
  BY <1>1, <1>4 DEF export_memory, Hosts
<1>5. CASE import_pid(p)
  BY <1>1, <1>5 DEF import_pid, Hosts
<1>6. CASE import_memory(p)
  BY <1>1, <1>6 DEF import_memory, Hosts
<1>7. CASE setup_heap(p)
  <2> DEFINE h == [host[p] EXCEPT !.mapped = host[p].imported]
  <2>1. SameNic(h) /\ SameNic(BasesNoted(p, h))
    BY <1>1 DEF BasesNoted, Hosts
  <2>2. host' = [host EXCEPT ![p] = BasesNoted(p, h)]
    BY <1>7 DEF setup_heap
  <2> QED BY <1>2, <2>1, <2>2
<1>8. CASE shmemi_team_init(p)
  <2> DEFINE h == memory_manager_initialize(host[p])
             o == Place(h.used, 1, PoolSize)
             k == [h EXCEPT !.team = TRUE, !.used = Taken(@, o, PoolSize), !.pool = o]
  <2>1. SameNic(h) /\ SameNic(k)
    BY <1>1 DEF memory_manager_initialize, Hosts
  <2>2. host' = [host EXCEPT ![p] = k]
    BY <1>8 DEF shmemi_team_init
  <2> QED BY <1>2, <2>1, <2>2
<1>9. CASE ClearPool(p)
  BY <1>1, <1>9 DEF ClearPool, Hosts
<1>10. CASE SyncAreas(p)
  BY <1>1, <1>10 DEF SyncAreas, Hosts
<1>11. CASE Publish(p)
  <2> DEFINE h == [host[p] EXCEPT !.initialized = TRUE]
  <2>1. SameNic(h) /\ SameNic([h EXCEPT !.dev = Device(h)]) /\ SameNic([h EXCEPT !.ret = "error"])
    BY <1>1 DEF Hosts
  <2>2. \/ host' = [host EXCEPT ![p] = [h EXCEPT !.dev = Device(h)]]
        \/ host' = [host EXCEPT ![p] = h]
        \/ host' = [host EXCEPT ![p] = [h EXCEPT !.ret = "error"]]
    BY <1>11 DEF Publish, update_device_state
  <2> QED BY <1>2, <2>1, <2>2
<1>12. CASE shmem_init_attr_returns(p)
  BY <1>1, <1>12 DEF shmem_init_attr_returns, Hosts
<1>13. CASE shmem_malloc(p) \/ shmem_align(p)
  <2>1. \A o, n : SameNic(Given(host[p], o, n))
    BY <1>1 DEF Given, Hosts
  <2>2. \E o, n : host' = [host EXCEPT ![p] = Given(host[p], o, n)]
    BY <1>13 DEF shmem_malloc, shmem_align
  <2> QED BY <1>2, <2>1, <2>2
<1>14. CASE shmem_calloc(p)
  <2> DEFINE m == Request(p).m
             n == Request(p).n
             o == Place(host[p].used, 1, m * n)
             h == [host[p] EXCEPT !.dirt = @ \ Span(o, n)]
  <2>1. SameNic(Given(h, o, m * n)) /\ SameNic([host[p] EXCEPT !.ptr = Append(@, Null)])
    BY <1>1 DEF Given, Hosts
  <2>2. \/ host' = [host EXCEPT ![p] = Given(h, o, m * n)]
        \/ host' = [host EXCEPT ![p] = [host[p] EXCEPT !.ptr = Append(@, Null)]]
    BY <1>14 DEF shmem_calloc
  <2> QED BY <1>2, <2>1, <2>2
<1>15. CASE shmem_calloc_fails(p) \/ AllocationReturns(p) \/ shmem_free(p)
  BY <1>1, <1>15 DEF shmem_calloc_fails, AllocationReturns, shmem_free, Hosts
<1> QED BY <1>3, <1>4, <1>5, <1>6, <1>7, <1>8, <1>9, <1>10, <1>11, <1>12, <1>13, <1>14, <1>15 DEF Allocates

(* PE p has found out its device and its host. *)
Named(p) == host[p].device /\ host[p].hash = {HostOf[p]}

(* It is past the place where it tries to. *)
Past(p) == pc[p] \notin {"init", "state"}

(* A PE fails to find out with a fault only, and what it has gathered is   *)
(* what the others have.                                                   *)
LearntInv ==
  \A p \in PE :
    /\ Past(p) /\ p \notin faulty => Named(p)
    /\ pc[p] \in {"map"} \cup Known => \A q \in PE : Past(q) /\ host[p].info[q] = host[q].hash

(* The programs are chosen when nothing has failed. *)
Chosen == \E p \in PE : script[p] # <<>> \/ stream[p] # <<>> \/ todo[p] # <<>>
AllFound == \A p \in PE : Past(p) /\ Named(p)
FoundInv == Chosen => AllFound

NamesInv == LearntInv /\ FoundInv

(* The steps at which nothing is learnt. *)
LEMMA NamesKept ==
  ASSUME JobInv, NEW p \in PE, HostStep(p) \/ Done(p), ~ shmemi_bootstrap_init(p),
         ~ shmemi_state_init_attr(p), ~ shmemi_transport_init(p)
  PROVE  /\ SameNames(host[p], host'[p]) /\ Past(p)'
         /\ Past(p) \/ p \in faulty'
         /\ pc'[p] \in {"map"} \cup Known => pc[p] \in {"map"} \cup Known
<1> DEFINE Fair == Past(p) \/ p \in faulty'
           Goes == pc'[p] \in {"map"} \cup Known => pc[p] \in {"map"} \cup Known
<1>1. host \in [PE -> Hosts] /\ host[p] \in Hosts
  BY DEF JobInv
<1>2. \A c : Goto(p, c) \/ Enter(p, c) => pc'[p] = c
  BY Moving
<1>3. /\ \A c \in {"device", "reserve", "transport", "open", "failed"} \cup Ending :
           c \notin {"init", "state"} /\ c \notin {"map"} \cup Known
      /\ \A c \in {"map", "connect", "ips", "mrs", "rdma", "setup", "pids", "handles", "mapping",
                   "team", "pool", "counters", "sync", "final"} \cup Running :
           c \notin {"init", "state"} /\ c \in {"map"} \cup Known
  BY DEF Ending, Known, Reserved, Imported, Mapped, Pooled, Cleared, Working, Running
<1>4. /\ pc'[p] \in {"device", "reserve", "transport", "open", "failed"} \cup Ending => Past(p)' /\ Goes
      /\ pc[p] \in {"map", "connect", "ips", "mrs", "rdma", "setup", "pids", "handles", "mapping",
                    "team", "pool", "counters", "sync", "final"} \cup Running => Past(p) /\ Goes
      /\ pc'[p] \in {"map", "connect", "ips", "mrs", "rdma", "setup", "pids", "handles", "mapping",
                    "team", "pool", "counters", "sync", "final"} \cup Running => Past(p)'
  BY <1>3 DEF Past
<1>5. CASE init_device_state(p) \/ reserve_heap(p) \/ shmemi_transport_load(p)
  <2>1. /\ pc[p] \in {"device", "reserve", "transport"}
        /\ pc'[p] \in {"reserve", "transport", "open"}
    BY <1>2, <1>5 DEF init_device_state, reserve_heap, shmemi_transport_load, At
  <2>2. Past(p)
    BY <2>1 DEF Past
  <2>3. SameNames(host[p], host'[p])
    BY <1>1, <1>5 DEF init_device_state, reserve_heap, shmemi_transport_load,
      global_state_reigister, SameNames, Hosts
  <2> QED BY <1>4, <2>1, <2>2, <2>3
<1>6. CASE \/ shmemi_build_transport_map(p) \/ shmemi_mte_connect_peers(p) \/ GatherIps(p)
           \/ GatherMrs(p) \/ shmemi_rdma_connect_peers(p)
  <2>1. /\ pc[p] \in {"map", "connect", "ips", "mrs", "rdma"}
        /\ pc'[p] \in {"connect", "ips", "mrs", "rdma", "setup"}
    BY <1>2, <1>6 DEF shmemi_build_transport_map, shmemi_mte_connect_peers, GatherIps, GatherMrs,
      shmemi_rdma_connect_peers, At
  <2>2. SameNames(host[p], host'[p])
    BY <1>1, <1>6 DEF shmemi_build_transport_map, shmemi_mte_connect_peers, GatherIps, GatherMrs,
      shmemi_rdma_connect_peers, SameNames, Hosts
  <2> QED BY <1>4, <2>1, <2>2
<1>7. CASE export_memory(p) \/ import_pid(p) \/ import_memory(p) \/ setup_heap(p)
  <2>1. /\ pc[p] \in {"setup", "pids", "handles", "mapping"}
        /\ pc'[p] \in {"pids", "handles", "mapping", "team", "failed"}
    BY <1>2, <1>7 DEF export_memory, import_pid, import_memory, setup_heap, At
  <2> QED BY <1>1, <1>4, <1>7, <2>1, NetUntouched
<1>8. CASE \/ shmemi_team_init(p) \/ ClearPool(p) \/ SyncAreas(p) \/ Publish(p)
           \/ shmem_init_attr_returns(p)
  <2>1. /\ pc[p] \in {"team", "pool", "counters", "sync", "final"}
        /\ pc'[p] \in {"pool", "counters", "sync", "final", "failed"} \cup Running
    BY <1>2, <1>8 DEF shmemi_team_init, ClearPool, SyncAreas, Publish, shmem_init_attr_returns, At,
      Onward, Running
  <2> QED BY <1>1, <1>4, <1>8, <2>1, NetUntouched
<1>9. CASE shmem_init_attr_fails(p)
  <2>1. pc'[p] = "failed" /\ p \in faulty'
    BY <1>2, <1>9 DEF shmem_init_attr_fails
  <2>2. SameNames(host[p], host'[p])
    BY <1>1, <1>9 DEF shmem_init_attr_fails, SameNames, Hosts
  <2> QED BY <1>4, <2>1, <2>2
<1>10. CASE Allocates(p) \/ Done(p)
  <2>1. pc[p] \in Running /\ pc'[p] \in Running
    BY <1>2, <1>10 DEF Allocates, shmem_malloc, shmem_align, shmem_calloc_fails, shmem_calloc,
      AllocationReturns, shmem_free, Done, Asks, At, Onward, Running
  <2>2. SameNames(host[p], host'[p])
    BY <1>1, <1>10, NetUntouched DEF Done
  <2> QED BY <1>4, <2>1, <2>2
<1>11. CASE Finalises(p)
  <2>1. pc'[p] \in Ending /\ pc[p] \in {"done"} \cup Ending
    BY <1>11, EndingStays DEF Finalises, shmemi_team_finalize, release_heap,
      shmemi_transport_finalize, shmemi_bootstrap_finalize, At, Ending
  <2>2. Past(p)
    BY <1>3, <2>1 DEF Past
  <2>3. SameNames(host[p], host'[p])
    <3> DEFINE g == [host[p] EXCEPT !.team = FALSE]
               f(h) == [h EXCEPT !.counters = 0, !.used = Released(@, h.pool), !.pool = Null]
    <3>1. CASE shmemi_team_finalize(p)
      <4>1. host'[p] = f(g) \/ host'[p] = f([g EXCEPT !.dev = Device(g)])
        BY <1>1, <3>1 DEF shmemi_team_finalize, update_device_state
      <4>2. SameNames(host[p], f(g)) /\ SameNames(host[p], f([g EXCEPT !.dev = Device(g)]))
        BY <1>1 DEF SameNames, Hosts
      <4> QED BY <4>1, <4>2
    <3>2. CASE release_heap(p)
      <4> DEFINE r == heap_unreserved(heap_removed(global_state_destroyed(host[p])))
      <4>1. host'[p] = r
        BY <1>1, <3>2 DEF release_heap
      <4>2. SameNames(host[p], r)
        BY <1>1 DEF heap_unreserved, heap_removed, global_state_destroyed, SameNames, Hosts
      <4> QED BY <4>1, <4>2
    <3>3. CASE shmemi_transport_finalize(p)
      BY <1>1, <3>3 DEF shmemi_transport_finalize, shmemi_rdma_finalize, SameNames, Hosts
    <3>4. CASE shmemi_bootstrap_finalize(p)
      BY <1>1, <3>4 DEF shmemi_bootstrap_finalize, SameNames, Hosts
    <3> QED BY <1>11, <3>1, <3>2, <3>3, <3>4 DEF Finalises
  <2> QED BY <1>4, <2>1, <2>2, <2>3
<1> QED BY <1>5, <1>6, <1>7, <1>8, <1>9, <1>10, <1>11 DEF HostStep, Initialises

(* A step of p that keeps the names keeps what is known of them. *)
LEMMA NamesStay ==
  ASSUME LearntInv, NEW p \in PE, OthersStay(p), SameNames(host[p], host'[p]), Past(p)',
         Past(p) \/ p \in faulty',
         pc'[p] \in {"map"} \cup Known => pc[p] \in {"map"} \cup Known
  PROVE  LearntInv' /\ (AllFound => AllFound')
<1>1. /\ \A q \in PE : (Past(q) => Past(q)') /\ Named(q)' = Named(q) /\ SameNames(host[q], host'[q])
      /\ \A q \in PE \ {p} : Past(q)' = Past(q) /\ pc'[q] = pc[q]
      /\ \A q \in PE : q \notin faulty' => q \notin faulty
  BY DEF OthersStay, SameNames, Named, Past
<1>2. ASSUME NEW q \in PE, Past(q)', q \notin faulty'
      PROVE  Named(q)'
  BY <1>1, <1>2 DEF LearntInv
<1>3. ASSUME NEW q \in PE, pc'[q] \in {"map"} \cup Known, NEW r \in PE
      PROVE  Past(r)' /\ host'[q].info[r] = host'[r].hash
  <2>1. pc[q] \in {"map"} \cup Known
    BY <1>1, <1>3
  <2>2. Past(r) /\ host[q].info[r] = host[r].hash
    BY <2>1 DEF LearntInv
  <2> QED BY <1>1, <2>2 DEF SameNames
<1>4. LearntInv'
  BY <1>2, <1>3 DEF LearntInv
<1> QED BY <1>1, <1>4 DEF AllFound

(* The steps at which something is. *)
LEMMA NamesLearnt ==
  ASSUME JobInv, LearntInv, NEW p \in PE, OthersStay(p),
         shmemi_bootstrap_init(p) \/ shmemi_state_init_attr(p) \/ shmemi_transport_init(p)
  PROVE  LearntInv' /\ (AllFound => AllFound')
<1>1. /\ host \in [PE -> Hosts] /\ host[p] \in Hosts
      /\ \A q \in PE \ {p} : pc'[q] = pc[q] /\ host'[q] = host[q]
      /\ \A q \in PE : q \notin faulty' => q \notin faulty
  BY DEF JobInv, OthersStay
<1>2. \A c : Goto(p, c) => pc'[p] = c
  BY Moving
<1>3. CASE shmemi_bootstrap_init(p) \/ shmemi_state_init_attr(p)
  <2>1. /\ ~ Past(p) /\ pc'[p] \in {"state", "device"}
        /\ shmemi_bootstrap_init(p) => ~ Past(p)'
    BY <1>2, <1>3 DEF shmemi_bootstrap_init, shmemi_state_init_attr, At, Past
  <2>2. \A q \in PE \ {p} : pc'[q] \notin {"map"} \cup Known
    BY <1>1, <2>1 DEF LearntInv
  <2>3. pc'[p] \notin {"map"} \cup Known
    BY <2>1 DEF Known, Reserved, Imported, Mapped, Pooled, Cleared, Working, Running
  <2>4. ASSUME shmemi_state_init_attr(p), p \notin faulty'
        PROVE  Named(p)'
    <3>1. PICK found \in BOOLEAN, right \in BOOLEAN, named \in BOOLEAN :
            /\ found => right
            /\ Dropped(p, found /\ named)
            /\ host' = [host EXCEPT ![p].device = right,
                                    ![p].hash = IF named THEN {HostOf[p]} ELSE {}]
      BY <2>4 DEF shmemi_state_init_attr
    <3>2. right /\ named
      BY <2>4, <3>1 DEF Dropped
    <3>3. host'[p].device /\ host'[p].hash = {HostOf[p]}
      BY <1>1, <3>1, <3>2 DEF Hosts
    <3> QED BY <3>3 DEF Named
  <2>5. \A q \in PE \ {p} : (Named(q)' <=> Named(q)) /\ (Past(q)' <=> Past(q))
    BY <1>1 DEF Named, Past
  <2>6. ASSUME NEW q \in PE, Past(q)', q \notin faulty'
        PROVE  Named(q)'
    BY <1>1, <1>3, <2>1, <2>4, <2>5, <2>6 DEF LearntInv
  <2> QED BY <2>1, <2>2, <2>3, <2>6 DEF LearntInv, AllFound
<1>4. CASE shmemi_transport_init(p)
  <2> DEFINE h == [host[p] EXCEPT !.info = [q \in PE |-> host[q].hash]]
  <2>1. pc[p] = "open" /\ pc'[p] = "map" /\ Gathered(p)
    BY <1>2, <1>4 DEF shmemi_transport_init, At
  <2>2. PICK good \in BOOLEAN : host' = [host EXCEPT ![p] = shmemi_rdma_init(h, good)]
    BY <1>4 DEF shmemi_transport_init
  <2>3. /\ host'[p].device = host[p].device /\ host'[p].hash = host[p].hash
        /\ host'[p].info = [q \in PE |-> host[q].hash]
    BY <1>1, <2>2 DEF shmemi_rdma_init, Hosts
  <2>4. Past(p) /\ Past(p)'
    BY <2>1 DEF Past
  <2>5. \A q \in PE : /\ (Named(q)' <=> Named(q)) /\ (Past(q)' <=> Past(q))
                      /\ host'[q].hash = host[q].hash
                      /\ q # p => host'[q].info = host[q].info
    BY <1>1, <2>3, <2>4 DEF Named, Past
  <2>6. ASSUME NEW q \in PE
        PROVE  Past(q)
    <3>1. round[p] = 1
      BY <2>1, Here DEF Counted, Before, Ending
    <3>2. round[q] >= 1
      BY <2>1, <3>1 DEF Gathered
    <3>3. Counted(pc[q], round[q], host[q])
      BY Here
    <3> QED BY <3>2, <3>3 DEF Counted, Before, Ending, Past
  <2>7. ASSUME NEW q \in PE, Past(q)', q \notin faulty'
        PROVE  Named(q)'
    BY <1>1, <2>5, <2>7 DEF LearntInv
  <2>8. ASSUME NEW q \in PE, pc'[q] \in {"map"} \cup Known, NEW r \in PE
        PROVE  Past(r)' /\ host'[q].info[r] = host'[r].hash
    <3>1. CASE q = p
      BY <2>3, <2>5, <2>6, <3>1
    <3>2. CASE q # p
      <4>1. host[q].info[r] = host[r].hash
        BY <1>1, <2>8, <3>2 DEF LearntInv
      <4> QED BY <2>5, <2>6, <3>2, <4>1
    <3> QED BY <3>1, <3>2
  <2>9. LearntInv'
    BY <2>7, <2>8 DEF LearntInv
  <2> QED BY <2>5, <2>9 DEF AllFound
<1> QED BY <1>3, <1>4

LEMMA LearntStep ==
  ASSUME JobInv, LearntInv, NEW p \in PE, HostStep(p) \/ Done(p)
  PROVE  LearntInv' /\ (AllFound => AllFound')
<1>1. OthersStay(p)
  BY HostStays
<1>2. CASE shmemi_bootstrap_init(p) \/ shmemi_state_init_attr(p) \/ shmemi_transport_init(p)
  BY <1>1, <1>2, NamesLearnt
<1>3. CASE ~ (shmemi_bootstrap_init(p) \/ shmemi_state_init_attr(p) \/ shmemi_transport_init(p))
  BY <1>1, <1>3, NamesKept, NamesStay
<1> QED BY <1>2, <1>3

(* At the run all PEs work. *)
LEMMA RunWorking ==
  ASSUME JobInv, NEW p \in PE, pc[p] = "run", NEW q \in PE
  PROVE  pc[q] \in Working
<1>1. /\ round[q] \in Nat /\ round[q] >= 9 /\ Counted(pc[q], round[q], host[q])
      /\ Counted("run", round[p], host[p]) /\ Allowed(pc[q]) /\ host[p] \in Hosts
  BY Here DEF Allowed, Running
<1>2. pc[q] \in Working \cup Ending
  BY <1>1 DEF Counted, Opening, Before, Working, Running
<1>3. pc[q] \notin Ending
  <2> SUFFICES ASSUME pc[q] \in Ending PROVE FALSE
    OBVIOUS
  <2>1. round[p] >= Final
    BY <1>1 DEF Allowed
  <2>2. round[p] = 9 + Barriers(Len(Requests))
    BY <1>1 DEF Counted, Opening, Ending
  <2>3. Barriers(Len(Requests)) \in Nat
    BY JobAssumption, BarriersType
  <2> QED BY <2>1, <2>2, <2>3 DEF Final
<1> QED BY <1>2, <1>3

LEMMA DecideFound ==
  ASSUME JobInv, NamesInv, Decide, UNCHANGED hostVars
  PROVE  FoundInv'
<1>1. /\ stream' = stream /\ todo' = todo /\ AllFound' = AllFound
  BY DEF Decide, deviceVars, hostVars, AllFound, Past, Named
<1>2. CASE faulty = {}
  <2>1. PICK p \in PE : pc[p] = "run"
    BY DEF Decide, At
  <2>2. \A q \in PE : Past(q)
    BY <2>1, RunWorking DEF Past, Working, Running
  <2>3. AllFound
    BY <1>2, <2>2 DEF AllFound, NamesInv, LearntInv
  <2> QED BY <1>1, <2>3 DEF FoundInv
<1>3. CASE faulty # {}
  <2>1. script' = script
    BY <1>3 DEF Decide
  <2> QED BY <1>1, <2>1 DEF NamesInv, FoundInv, Chosen
<1> QED BY <1>2, <1>3

(* A core or host at work has something chosen. *)
LEMMA WorksFound ==
  ASSUME NamesInv, NEW p \in PE, Works(p), UNCHANGED hostVars
  PROVE  FoundInv'
<1>1. AllFound' = AllFound
  BY DEF hostVars, AllFound, Past, Named
<1>2. ASSUME HostAtWork(p)
      PROVE  Chosen
  BY <1>2 DEF HostAtWork, HostPosts, shmem_g_host, shmem_mte_set_ub_params, Synchronize, Calling,
    Chosen
<1>3. ASSUME StartKernel(p) \/ StartCall(p)
      PROVE  Chosen
  BY <1>3 DEF StartKernel, StartCall, Chosen
<1>4. ASSUME \/ IssueToPipe(p) \/ IssuePost(p) \/ WriteWord(p) \/ ReadWord(p) \/ Proceed(p)
             \/ Mte2Step(p) \/ Mte3Step(p) \/ NicStep(p)
      PROVE  Chosen' => Chosen
  <2>1. script' = script /\ stream' = stream /\ todo' = todo
    BY <1>4 DEF IssueToPipe, IssuePost, WriteWord, ReadWord, Proceed, Mte2Step, Mte3Step, NicStep
  <2> QED BY <2>1 DEF Chosen
<1>5. Chosen' => Chosen
  BY <1>2, <1>3, <1>4 DEF Works, Core
<1> QED BY <1>1, <1>5 DEF NamesInv, FoundInv

LEMMA NamesStep == JobInv /\ NamesInv /\ [Next]_vars => NamesInv'
<1> SUFFICES ASSUME JobInv, NamesInv, [Next]_vars PROVE NamesInv'
  OBVIOUS
<1>1. UNCHANGED hostVars => LearntInv' = LearntInv
  BY DEF hostVars, LearntInv, Past, Named
<1>2. CASE UNCHANGED vars
  BY <1>1, <1>2 DEF vars, rmaVars, deviceVars, hostVars, NamesInv, FoundInv, Chosen, AllFound, Past, Named
<1>3. ASSUME NEW p \in PE, HostStep(p) \/ Leaves(p), UNCHANGED rmaVars
      PROVE  NamesInv'
  <2>1. LearntInv' /\ (AllFound => AllFound')
    BY <1>3, LearntStep DEF Leaves, NamesInv
  <2>2. Chosen' = Chosen
    BY <1>3 DEF rmaVars, deviceVars, Chosen
  <2> QED BY <2>1, <2>2 DEF NamesInv, FoundInv
<1>4. CASE Decide /\ UNCHANGED hostVars
  BY <1>1, <1>4, DecideFound DEF NamesInv
<1>5. ASSUME NEW p \in PE, Works(p), UNCHANGED hostVars
      PROVE  NamesInv'
  BY <1>1, <1>5, WorksFound DEF NamesInv
<1> QED BY <1>2, <1>3, <1>4, <1>5 DEF Next

LEMMA NamesInit == Init => NamesInv
<1> SUFFICES ASSUME Init PROVE NamesInv
  OBVIOUS
<1>1. \A p \in PE : pc[p] = "init" /\ script[p] = <<>> /\ stream[p] = <<>> /\ todo[p] = <<>>
  BY DEF Init, HostInit, RmaInit
<1>2. "init" \notin {"map"} \cup Known
  BY DEF Known, Reserved, Imported, Mapped, Pooled, Cleared, Working, Running
<1> QED BY <1>1, <1>2 DEF NamesInv, LearntInv, FoundInv, Chosen, Past

(* At every moment of a job a PE on which no call of a library has failed  *)
(* has its device and its host, a PE past the first allgather has what the *)
(* others have for theirs, and a program runs only where all are right.    *)
THEOREM NamesInvariant == Spec => []NamesInv
<1>1. Init => JobInv /\ NamesInv
  BY InitInv, NamesInit DEF Init
<1>2. JobInv /\ NamesInv /\ [Next]_vars => JobInv' /\ NamesInv'
  BY StepInv, HostsOnly, NamesStep
<1> QED BY <1>1, <1>2, PTL DEF Spec

(* A PE that is ready for its peers. *)
LEMMA WorkingReady ==
  ASSUME JobInv, LearntInv, NEW q \in PE, pc[q] \in Working
  PROVE  Ready(q)
<1>1. Built(q, pc[q], host[q])
  BY Here
<1>2. /\ pc[q] \in Physical /\ pc[q] \in {"map"} \cup Known /\ pc[q] \in Reserved /\ pc[q] \in Imported
      /\ pc[q] \in Mapped /\ pc[q] \in Pooled /\ pc[q] \in Cleared
  BY DEF Physical, Known, Reserved, Imported, Mapped, Pooled, Cleared
<1>3. /\ host[q].mapped = Peers(q, host[q].hash, host[q].info) /\ host[q].mapped \subseteq Near(q)
      /\ host[q].device => host[q].dev = Device(host[q])
  BY <1>1, <1>2 DEF Built
<1>4. \A r \in PE : Past(r) /\ host[q].info[r] = host[r].hash
  BY <1>2 DEF LearntInv
<1>5. ASSUME q \notin faulty, NEW r \in Near(q) \ faulty
      PROVE  r \in host[q].mapped
  <2>1. r \in PE \ {q} /\ HostOf[r] = HostOf[q] /\ r \notin faulty
    BY <1>5 DEF Near
  <2>2. Named(q) /\ Named(r)
    BY <1>4, <1>5, <2>1 DEF LearntInv
  <2> QED BY <1>3, <1>4, <2>1, <2>2 DEF Named, Peers
<1>6. q \notin faulty => host[q].device
  BY <1>4 DEF LearntInv, Named
<1>7. /\ host[q].phys /\ host[q].registered /\ host[q].initialized
      /\ host[q].pool = Place({}, 1, PoolSize) /\ host[q].pool # Null
      /\ host[q].dirt \cap Span(host[q].pool, PoolSize) = {}
      /\ host[q].p2p = host[q].mapped \cup {q}
  BY <1>1, <1>2 DEF Built
<1> QED BY <1>3, <1>5, <1>6, <1>7 DEF Ready

(* When shmem_init_attr has returned success on one PE, all PEs are ready  *)
(* until they finalise, for every number of PEs, layout of hosts, heap and *)
(* sequence of allocations, even where calls whose results are dropped     *)
(* have failed: as far as none has, each has mapped all the PEs of its     *)
(* host, and its device knows them.                                        *)
THEOREM InitReady == Spec => []InitMeansReady
<1>1. ASSUME JobInv, LearntInv, NEW p \in PE, NEW q \in PE, pc[p] \in Running
      PROVE  \/ pc[q] \in Running \cup {"final"} /\ Ready(q)
             \/ pc[p] = "done" /\ pc[q] \in Ending
  <2>1. round[q] \in Nat /\ round[q] >= 9 /\ Counted(pc[q], round[q], host[q])
        /\ Counted(pc[p], round[p], host[p]) /\ Allowed(pc[q]) /\ host[p] \in Hosts
    BY <1>1, Here DEF Allowed
  <2>2. pc[q] \in Working \cup Ending
    BY <2>1 DEF Counted, Opening, Before, Working, Running
  <2>3. CASE pc[q] \in Working
    BY <1>1, <2>3, WorkingReady DEF Working
  <2>4. CASE pc[q] \in Ending
    <3>1. round[p] >= Final
      BY <2>1, <2>4 DEF Allowed
    <3>2. pc[p] = "done"
      <4>1. SUFFICES ASSUME pc[p] \in {"app", "alloc", "run"}
                     PROVE  FALSE
        BY <1>1 DEF Running
      <4>2. /\ round[p] = 9 + Barriers(Len(host[p].ptr))
            /\ Len(host[p].ptr) <= Len(Requests)
        BY <2>1, <4>1 DEF Counted, Opening, Ending
      <4>3. Len(host[p].ptr) \in Nat
        <5>1. host[p].ptr \in Seq({Null} \cup Cells)
          BY <2>1 DEF Hosts
        <5> QED BY <5>1
      <4>4. Barriers(Len(host[p].ptr)) <= Barriers(Len(Requests))
        BY <4>2, <4>3, BarriersGrow
      <4>5. Len(Requests) \in Nat
        BY JobAssumption
      <4>6. Barriers(Len(host[p].ptr)) \in Nat /\ Barriers(Len(Requests)) \in Nat
        BY <4>3, <4>5, BarriersType, Zenon
      <4> QED BY <3>1, <4>2, <4>4, <4>6 DEF Final
    <3> QED BY <2>4, <3>2
  <2> QED BY <2>2, <2>3, <2>4
<1>2. JobInv /\ LearntInv => InitMeansReady
  BY <1>1 DEF InitMeansReady, Ending
<1> QED BY <1>2, JobInvariant, NamesInvariant, PTL DEF NamesInv

-----------------------------------------------------------------------------
(* The instructions of a call.                                             *)

(* The heaps that PE p has mapped, and what only copies between these.     *)
Home(p) == Near(p) \cup {p}
Backed(p, i) == i.op \in {"load", "store"} => Heaps(i) \subseteq Home(p)
Fits(p, s) == s \in Seq(Range(s)) /\ \A x \in Range(s) : Backed(p, x)

LEMMA FitsAll ==
  ASSUME NEW p, NEW X, \A x \in X : Backed(p, x), NEW s \in Seq(X)
  PROVE  Fits(p, s)
BY SeqRange DEF Fits

LEMMA FitsEmpty ==
  ASSUME NEW p
  PROVE  Fits(p, <<>>)
<1>1. <<>> \in Seq({}) /\ \A x \in {} : Backed(p, x)
  OBVIOUS
<1> QED BY <1>1, FitsAll

LEMMA FitsOne ==
  ASSUME NEW p, NEW i, Backed(p, i)
  PROVE  Fits(p, <<i>>)
<1>1. <<i>> \in Seq({i}) /\ \A x \in {i} : Backed(p, x)
  OBVIOUS
<1> QED BY <1>1, FitsAll

LEMMA FitsTwo ==
  ASSUME NEW p, NEW i, NEW j, Backed(p, i), Backed(p, j)
  PROVE  Fits(p, <<i, j>>)
<1>1. <<i, j>> \in Seq({i, j}) /\ \A x \in {i, j} : Backed(p, x)
  OBVIOUS
<1> QED BY <1>1, FitsAll

LEMMA FitsConcat ==
  ASSUME NEW p, NEW s, NEW t, Fits(p, s), Fits(p, t)
  PROVE  Fits(p, s \o t)
<1> DEFINE X == {x \in Range(s) : Backed(p, x)} \cup {x \in Range(t) : Backed(p, x)}
<1>1. s \in Seq(X) /\ t \in Seq(X)
  BY DEF Fits
<1>2. \A x \in X : Backed(p, x)
  OBVIOUS
<1> HIDE DEF X
<1>3. s \o t \in Seq(X)
  BY <1>1
<1> QED BY <1>2, <1>3, FitsAll

LEMMA FitsSub ==
  ASSUME NEW p, NEW s, Fits(p, s), NEW m \in Nat, 0 < m, NEW n \in Nat, n <= Len(s)
  PROVE  Fits(p, SubSeq(s, m, n)) /\ Len(s) \in Nat
<1> DEFINE X == {x \in Range(s) : Backed(p, x)}
<1>1. s \in Seq(X) /\ \A x \in X : Backed(p, x)
  BY DEF Fits
<1> HIDE DEF X
<1>2. SubSeq(s, m, n) \in Seq(X) /\ Len(s) \in Nat
  BY <1>1
<1> QED BY <1>1, <1>2, FitsAll

LEMMA FitsTail ==
  ASSUME NEW p, NEW s, Fits(p, s), s # <<>>
  PROVE  Fits(p, Tail(s)) /\ Backed(p, Head(s)) /\ Head(s) \in Range(s)
<1> DEFINE X == {x \in Range(s) : Backed(p, x)}
<1>1. s \in Seq(X) /\ \A x \in X : Backed(p, x)
  BY DEF Fits
<1>2. X \subseteq Range(s)
  OBVIOUS
<1> HIDE DEF X
<1>3. Tail(s) \in Seq(X) /\ Head(s) \in X
  BY <1>1
<1> QED BY <1>1, <1>2, <1>3, FitsAll

LEMMA FitsFlat ==
  ASSUME NEW p, NEW n \in Int, NEW s, DOMAIN s = 1 .. n, s = [k \in 1 .. n |-> s[k]],
         \A k \in 1 .. n : Fits(p, s[k])
  PROVE  Fits(p, FlattenSeq(s))
<1> DEFINE X == UNION {Range(s[k]) : k \in 1 .. n}
<1>1. s \in Seq(Seq(X))
  BY RangeFlat DEF Fits
<1>2. \A x \in X : Backed(p, x)
  BY DEF Fits
<1> HIDE DEF X
<1>3. FlattenSeq(s) \in Seq(X)
  BY <1>1, FlattenType
<1> QED BY <1>2, <1>3, FitsAll

(* A memory that PE p may copy from or to: its own unified buffer, and the *)
(* heaps that it has mapped.                                               *)
Close(p, m) == m \in PE => m \in Home(p)

LEMMA CopyBacked ==
  ASSUME NEW p, NEW op, NEW src, NEW dst, NEW rows, NEW len, NEW sp, NEW dp,
         Close(p, src.mem), Close(p, dst.mem)
  PROVE  Backed(p, Copy(op, src, dst, rows, len, sp, dp))
BY DEF Close, Backed, Heaps, Copy

LEMMA OtherBacked ==
  ASSUME NEW p, NEW i, i.op \notin {"load", "store"}
  PROVE  Backed(p, i)
BY DEF Backed

LEMMA UbClose ==
  ASSUME NEW p \in PE, NEW a
  PROVE  Close(p, Ub(p, a).mem)
<1>1. Ub(p, a).mem = NPes + p /\ NPes \in Nat /\ p \in Nat
  BY JobAssumption DEF Ub, Spot, UbOf, PE
<1> QED BY <1>1 DEF Close, PE

LEMMA NearClose ==
  ASSUME NEW p \in PE, NEW q \in PE, HostOf[q] = HostOf[p], NEW a
  PROVE  Close(p, shmem_ptr(a, q).mem) /\ Close(p, Local(p, a).mem)
BY DEF Close, shmem_ptr, Local, Spot, Home, Near

LEMMA InFits ==
  ASSUME NEW p, NEW ub, NEW gm, NEW rows, NEW len, NEW sgap, NEW dgap,
         Close(p, ub.mem), Close(p, gm.mem)
  PROVE  Fits(p, shmemi_copy_gm2ub(ub, gm, rows, len, sgap, dgap))
BY CopyBacked, FitsOne DEF shmemi_copy_gm2ub

LEMMA OutFits ==
  ASSUME NEW p, NEW ub, NEW gm, NEW rows, NEW len, NEW sgap, NEW dgap,
         Close(p, ub.mem), Close(p, gm.mem)
  PROVE  Fits(p, shmemi_copy_ub2gm(gm, ub, rows, len, sgap, dgap))
BY CopyBacked, FitsOne DEF shmemi_copy_ub2gm

LEMMA SyncFits ==
  ASSUME NEW p, NEW e
  PROVE  Fits(p, Sync(e))
<1>1. Backed(p, [op |-> "set", event |-> e]) /\ Backed(p, [op |-> "wait", event |-> e])
  BY OtherBacked
<1> QED BY <1>1, FitsTwo DEF Sync

LEMMA ThroughFits ==
  ASSUME NEW p, NEW from, NEW to, NEW buf, NEW len,
         Close(p, from.mem), Close(p, to.mem), Close(p, buf.mem)
  PROVE  Fits(p, Through(from, to, buf, len))
BY InFits, OutFits, SyncFits, FitsConcat, Zenon DEF Through

LEMMA StridedFits ==
  ASSUME NEW p, NEW from, NEW to, NEW buf, NEW c,
         Close(p, from.mem), Close(p, to.mem), Close(p, buf.mem)
  PROVE  Fits(p, Strided(from, to, buf, c))
BY InFits, OutFits, SyncFits, FitsConcat, Zenon DEF Strided

(* A buffer with room for an element has room for a whole number of them.  *)
LEMMA WholeType ==
  ASSUME NEW c, c.sz \in Nat \ {0}, NEW size \in Nat, c.sz <= size
  PROVE  Whole(size, c) \in Nat /\ 0 < Whole(size, c)
<1> DEFINE k == c.sz
           q == size \div k
<1>1. k \in Nat /\ 0 < k
  OBVIOUS
<1> HIDE DEF k
<1>2. q \in Int /\ size % k \in 0 .. k - 1 /\ size = k * q + (size % k)
  BY <1>1, Division
<1> HIDE DEF q
<1>3. 0 - q \in Int /\ 0 \in Int
  BY <1>2
<1>4. k * 0 - k * q = k * (0 - q) /\ k * q \in Int /\ k * 0 = 0 /\ k * (0 - q) \in Int
  <2>1. k * 0 = 0
    BY <1>1
  <2> QED BY <1>1, <1>2, <1>3, <2>1, Distribute
<1>5. 1 <= q
  <2>1. q = 0 => k * q = 0
    BY <1>1
  <2>2. 1 <= 0 - q => k <= k * (0 - q)
    BY <1>1, <1>3, MultipleAtLeast
  <2>3. k <= size
    BY DEF k
  <2> QED BY <1>1, <1>2, <1>4, <2>1, <2>2, <2>3
<1>6. k <= k * q
  BY <1>1, <1>2, <1>5, MultipleAtLeast
<1>7. k * q = q * k
  BY <1>1, <1>2
<1>8. q * k \in Nat /\ 0 < q * k
  BY <1>1, <1>4, <1>6, <1>7
<1> QED BY <1>8 DEF Whole, q, k

LEMMA ChunkFits ==
  ASSUME NEW p, NEW i, NEW repeat, NEW loops
  PROVE  Fits(p, ChunkSync(i, repeat, loops))
BY SyncFits, FitsEmpty DEF ChunkSync

LEMMA BlockwiseFits ==
  ASSUME NEW p, NEW from, NEW to, NEW buf, NEW m, NEW a, NEW n, NEW b,
         from = Spot(m, a), to = Spot(n, b), Close(p, m), Close(p, n), Close(p, buf.mem),
         NEW bytes \in Nat, NEW block \in Nat, 0 < block
  PROVE  Fits(p, Blockwise(from, to, buf, bytes, block))
<1> DEFINE repeat == bytes \div block
           loops == repeat + IF bytes % block > 0 THEN 1 ELSE 0
           chunk(i) == IF i < repeat THEN block ELSE bytes % block
           part(k) == Through(Plus(from, (k - 1) * block), Plus(to, (k - 1) * block), buf, chunk(k - 1))
                      \o ChunkSync(k - 1, repeat, loops)
           s == [k \in 1 .. loops |-> part(k)]
<1>1. loops \in Int
  <2>1. repeat \in Int
    BY Division
  <2> HIDE DEF repeat
  <2> QED BY <2>1
<1>2. ASSUME NEW k \in 1 .. loops
      PROVE  Fits(p, part(k))
  <2>1. \A x : Plus(from, x).mem = m /\ Plus(to, x).mem = n
    BY DEF Plus, Spot
  <2>2. Fits(p, Through(Plus(from, (k - 1) * block), Plus(to, (k - 1) * block), buf, chunk(k - 1)))
    <3> HIDE DEF chunk
    <3> QED BY <2>1, ThroughFits
  <2> HIDE DEF loops, repeat, chunk
  <2> QED BY <2>2, ChunkFits, FitsConcat
<1> HIDE DEF loops, part
<1>3. Fits(p, FlattenSeq(s))
  <2>1. DOMAIN s = 1 .. loops /\ s = [k \in 1 .. loops |-> s[k]] /\ \A k \in 1 .. loops : Fits(p, s[k])
    BY <1>2
  <2> HIDE DEF s
  <2> QED BY <1>1, <2>1, FitsFlat
<1>4. FlattenSeq(s) = Blockwise(from, to, buf, bytes, block)
  BY DEF Blockwise, loops, part
<1> QED BY <1>3, <1>4

(* The copies by MTE, of whole elements through a buffer with room for one. *)
LEMMA MteFits ==
  ASSUME NEW p \in PE, NEW c, c.pe \in PE, HostOf[c.pe] = HostOf[p],
         c.n \in Nat, c.sz \in Nat \ {0}, NEW buf, NEW size \in Nat, c.sz <= size
  PROVE  Fits(p, shmem_mte_get(p, c, buf, size)) /\ Fits(p, shmem_mte_put(p, c, buf, size))
<1>1. c.n * c.sz \in Nat
  BY Associate
<1>2. Whole(size, c) \in Nat /\ 0 < Whole(size, c)
  BY WholeType
<1>3. \A a : /\ Close(p, Ub(p, a).mem) /\ Local(p, a) = Spot(p, a) /\ shmem_ptr(a, c.pe) = Spot(c.pe, a)
             /\ Spot(p, a).mem = p /\ Spot(c.pe, a).mem = c.pe
  BY UbClose DEF Local, shmem_ptr, Spot
<1>4. Close(p, p) /\ Close(p, c.pe)
  BY DEF Close, Home, Near
<1>5. Fits(p, shmem_mte_get(p, c, buf, size))
  BY <1>1, <1>2, <1>3, <1>4, BlockwiseFits DEF shmem_mte_get
<1>6. Fits(p, shmem_mte_put(p, c, buf, size))
  BY <1>1, <1>2, <1>3, <1>4, BlockwiseFits DEF shmem_mte_put
<1> QED BY <1>5, <1>6

LEMMA DetailedFits ==
  ASSUME NEW p \in PE, NEW c, c.pe \in PE, HostOf[c.pe] = HostOf[p], NEW buf
  PROVE  Fits(p, shmem_mte_get_detailed(p, c, buf)) /\ Fits(p, shmem_mte_put_detailed(p, c, buf))
BY NearClose, UbClose, StridedFits DEF shmem_mte_get_detailed, shmem_mte_put_detailed

LEMMA InsideFits ==
  ASSUME NEW p, NEW a, NEW num, NEW c, NEW s, Fits(p, s)
  PROVE  Fits(p, Inside(a, num, c, s))
BY FitsEmpty DEF Inside

LEMMA UbFits ==
  ASSUME NEW p \in PE, NEW c, c.pe \in PE, HostOf[c.pe] = HostOf[p]
  PROVE  /\ Fits(p, shmem_mte_get_ub(p, c)) /\ Fits(p, shmem_mte_get_ub_detailed(p, c))
         /\ Fits(p, shmem_mte_put_ub(p, c)) /\ Fits(p, shmem_mte_put_ub_detailed(p, c))
<1>1. \A a : Close(p, Ub(p, a).mem) /\ Close(p, shmem_ptr(a, c.pe).mem)
  BY UbClose, NearClose
<1>2. Fits(p, shmem_mte_get_ub(p, c))
  BY <1>1, InFits, InsideFits DEF shmem_mte_get_ub
<1>3. Fits(p, shmem_mte_get_ub_detailed(p, c))
  BY <1>1, InFits, InsideFits DEF shmem_mte_get_ub_detailed
<1>4. Fits(p, shmem_mte_put_ub(p, c))
  BY <1>1, OutFits, InsideFits DEF shmem_mte_put_ub
<1>5. Fits(p, shmem_mte_put_ub_detailed(p, c))
  BY <1>1, OutFits, InsideFits DEF shmem_mte_put_ub_detailed
<1> QED BY <1>2, <1>3, <1>4, <1>5

LEMMA PostFits ==
  ASSUME NEW p, NEW c
  PROVE  Fits(p, shmem_roce_get(p, c)) /\ Fits(p, shmem_roce_put(p, c))
<1>1. \A src, dst, len : Backed(p, Copy("post", src, dst, 1, len, len, len))
  BY OtherBacked DEF Copy
<1> QED BY <1>1, FitsOne DEF shmem_roce_get, shmem_roce_put, Post

(* What only waits, reads or writes words. *)
LEMMA QuietFits ==
  ASSUME NEW p
  PROVE  Fits(p, shmemi_quiet) /\ Fits(p, shmemi_roce_quiet)
<1>1. Backed(p, [op |-> "drain"]) /\ Backed(p, [op |-> "roce_quiet"])
  BY OtherBacked
<1> QED BY <1>1, FitsOne DEF shmemi_quiet, shmemi_roce_quiet

LEMMA WordFits ==
  ASSUME NEW p, NEW x, NEW val
  PROVE  /\ Fits(p, Word("set_word", x, val)) /\ Fits(p, Word("add_word", x, val))
         /\ \A cmp : /\ Fits(p, Look("spin", x, cmp, val)) /\ Fits(p, Look("fetch", x, cmp, val))
                     /\ Fits(p, Look("test", x, cmp, val))
<1>1. \A op : op \notin {"load", "store"} =>
        /\ Backed(p, [op |-> op, dst |-> x, val |-> val])
        /\ \A cmp : Backed(p, [op |-> op, src |-> x, cmp |-> cmp, val |-> val])
  BY OtherBacked
<1>2. \A op : op \notin {"load", "store"} =>
        Fits(p, Word(op, x, val)) /\ \A cmp : Fits(p, Look(op, x, cmp, val))
  BY <1>1, FitsOne DEF Word, Look
<1> QED BY <1>2

LEMMA SignalFits ==
  ASSUME NEW p, NEW c
  PROVE  Fits(p, shmemix_signal_op(c))
<1>1. CASE c.sigop = "set"
  BY <1>1, WordFits DEF shmemix_signal_op, shmemi_signal_set
<1>2. CASE c.sigop = "add"
  BY <1>2, WordFits DEF shmemix_signal_op, shmemi_signal_add
<1>3. CASE c.sigop \notin {"set", "add"}
  BY <1>3, FitsEmpty DEF shmemix_signal_op
<1> QED BY <1>1, <1>2, <1>3

LEMMA SignalledFits ==
  ASSUME NEW p, NEW c, NEW s, Fits(p, s)
  PROVE  Fits(p, Signalled(c, s))
BY QuietFits, SignalFits, FitsConcat, Zenon DEF Signalled

LEMMA WaitFits ==
  ASSUME NEW p, NEW c
  PROVE  /\ Fits(p, shmemi_signal_wait_until(p, c)) /\ Fits(p, shmemi_wait_until(p, c))
         /\ Fits(p, shmemi_signal_fetch(p, c)) /\ Fits(p, shmemi_test(p, c))
BY WordFits, FitsEmpty DEF shmemi_signal_wait_until, shmemi_wait_until, shmemi_signal_fetch, shmemi_test

LEMMA EachFits ==
  ASSUME NEW p, NEW c, c.n \in Nat
  PROVE  Fits(p, shmemi_wait_until_all(p, c)) /\ Fits(p, shmemi_test_all(p, c))
<1>1. Fits(p, shmemi_wait_until_all(p, c))
  <2> DEFINE s == [k \in 1 .. c.n |-> IF k - 1 \in c.skip THEN <<>>
                     ELSE shmemi_wait_until(p, [c EXCEPT !.sig = @ + (k - 1) * c.sz])]
  <2>1. DOMAIN s = 1 .. c.n /\ s = [k \in 1 .. c.n |-> s[k]] /\ \A k \in 1 .. c.n : Fits(p, s[k])
    BY WaitFits, FitsEmpty
  <2>2. shmemi_wait_until_all(p, c) = FlattenSeq(s)
    BY DEF shmemi_wait_until_all, Each
  <2>3. c.n \in Int
    OBVIOUS
  <2> HIDE DEF s
  <2>4. Fits(p, FlattenSeq(s))
    BY <2>1, <2>3, FitsFlat, Zenon
  <2> QED BY <2>2, <2>4
<1>2. Fits(p, shmemi_test_all(p, c))
  <2> DEFINE s == [k \in 1 .. c.n |-> IF k - 1 \in c.skip THEN <<>>
                     ELSE shmemi_test(p, [c EXCEPT !.sig = @ + (k - 1) * c.sz])]
  <2>1. DOMAIN s = 1 .. c.n /\ s = [k \in 1 .. c.n |-> s[k]] /\ \A k \in 1 .. c.n : Fits(p, s[k])
    BY WaitFits, FitsEmpty
  <2>2. shmemi_test_all(p, c) = FlattenSeq(s)
    BY DEF shmemi_test_all, Each
  <2>3. c.n \in Int
    OBVIOUS
  <2> HIDE DEF s
  <2>4. Fits(p, FlattenSeq(s))
    BY <2>1, <2>3, FitsFlat, Zenon
  <2> QED BY <2>2, <2>4
<1> QED BY <1>1, <1>2

(* A call on PE p: where it goes by MTE the PE it names is on the same host. *)
LEMMA RoutedFits ==
  ASSUME NEW p \in PE, NEW c \in DeviceCalls(p), c.api \in Routed,
         config[p].ub_size \in BufferSizes(p),
         \A q \in PE : "mte" \in host[p].dev.topo[q] <=> HostOf[q] = HostOf[p]
  PROVE  Fits(p, Code(p, c))
<1>1. /\ c.pe \in PE /\ c.n \in Nat /\ c.sz \in Nat \ {0}
      /\ config[p].ub_size \in Nat /\ c.sz <= config[p].ub_size
  BY ProgramAssumption DEF Routed, Rooms
<1>2. ASSUME NEW mte, NEW roce, HostOf[c.pe] = HostOf[p] => Fits(p, mte), Fits(p, roce)
      PROVE  Fits(p, ByTopo(p, c, mte, roce))
  BY <1>1, <1>2, FitsEmpty DEF ByTopo
<1>3. /\ Fits(p, shmem_roce_get(p, c)) /\ Fits(p, shmem_roce_put(p, c))
      /\ \A buf : HostOf[c.pe] = HostOf[p] =>
           /\ Fits(p, shmem_mte_get(p, c, buf, config[p].ub_size))
           /\ Fits(p, shmem_mte_put(p, c, buf, config[p].ub_size))
  BY <1>1, MteFits, PostFits
<1>4. CASE c.api = "get_mem_nbi"
  BY <1>2, <1>3, <1>4 DEF Code, shmem_get_mem_nbi, CopySize
<1>5. CASE c.api = "get_mem_tensor_nbi"
  BY <1>2, <1>3, <1>5 DEF Code, shmem_get_mem_tensor_nbi, CopySize, shmem_mte_get_tensor, shmem_roce_get_tensor, Tensor
<1>6. CASE c.api = "put_mem_nbi"
  BY <1>2, <1>3, <1>6 DEF Code, shmem_put_mem_nbi, CopySize
<1>7. CASE c.api = "put_mem_tensor_nbi"
  BY <1>2, <1>3, <1>7 DEF Code, shmem_put_mem_tensor_nbi, CopySize, shmem_mte_put_tensor, shmem_roce_put_tensor, Tensor
<1> QED BY <1>4, <1>5, <1>6, <1>7 DEF Routed

LEMMA UnroutedFits ==
  ASSUME NEW p \in PE, NEW c \in DeviceCalls(p), c.api \in Unrouted,
         config[p].ub_size \in BufferSizes(p)
  PROVE  Fits(p, Code(p, c))
<1> DEFINE size == IF c.api \in {"put_mem_signal_tensor", "put_mem_signal_tensor_nbi"} THEN c.stale
                   ELSE config[p].ub_size
<1>1. /\ c.pe \in PE /\ HostOf[c.pe] = HostOf[p] /\ c.n \in Nat /\ c.sz \in Nat \ {0}
      /\ size \in Nat /\ c.sz <= size
  BY ProgramAssumption DEF Rooms
<1> HIDE DEF size
<1>2. \A buf : Fits(p, shmem_mte_get(p, c, buf, size)) /\ Fits(p, shmem_mte_put(p, c, buf, size))
  BY <1>1, MteFits
<1>3. Fits(p, shmemi_quiet) /\ \A s : Fits(p, s) => Fits(p, Signalled(c, s))
  BY QuietFits, SignalledFits
<1>4. CASE c.api = "getmem"
  BY <1>2, <1>3, <1>4, FitsConcat DEF Code, shmem_getmem, size, CopySize
<1>5. CASE c.api = "get_mem"
  BY <1>2, <1>3, <1>5, FitsConcat DEF Code, shmem_get_mem, size, CopySize
<1>6. CASE c.api = "putmem"
  BY <1>2, <1>3, <1>6, FitsConcat DEF Code, shmem_putmem, size, CopySize
<1>7. CASE c.api = "put_mem"
  BY <1>2, <1>3, <1>7, FitsConcat DEF Code, shmem_put_mem, size, CopySize
<1>8. CASE c.api = "getmem_nbi"
  BY <1>2, <1>3, <1>8 DEF Code, shmem_getmem_nbi, size, CopySize
<1>9. CASE c.api = "putmem_nbi"
  BY <1>2, <1>3, <1>9 DEF Code, shmem_putmem_nbi, size, CopySize
<1>10. CASE c.api = "putmem_signal"
  BY <1>2, <1>3, <1>10 DEF Code, shmem_putmem_signal, size, CopySize
<1>11. CASE c.api = "put_mem_signal"
  BY <1>2, <1>3, <1>11 DEF Code, shmem_put_mem_signal, size, CopySize
<1>12. CASE c.api = "put_mem_signal_tensor"
  BY <1>2, <1>3, <1>12 DEF Code, shmem_put_mem_signal_tensor, size, shmem_mte_put_tensor, Unset
<1>13. CASE c.api = "putmem_signal_nbi"
  BY <1>2, <1>3, <1>13 DEF Code, shmem_putmem_signal_nbi, size, CopySize
<1>14. CASE c.api = "put_mem_signal_nbi"
  BY <1>2, <1>3, <1>14 DEF Code, shmem_put_mem_signal_nbi, size, CopySize
<1>15. CASE c.api = "put_mem_signal_tensor_nbi"
  BY <1>2, <1>3, <1>15 DEF Code, shmem_put_mem_signal_tensor_nbi, size, shmem_mte_put_tensor, Unset
<1> QED BY <1>4, <1>5, <1>6, <1>7, <1>8, <1>9, <1>10, <1>11, <1>12, <1>13, <1>14, <1>15 DEF Unrouted

LEMMA DirectFits ==
  ASSUME NEW p \in PE, NEW c \in DeviceCalls(p), c.api \in Direct
  PROVE  Fits(p, Code(p, c))
<1>1. c.pe \in PE /\ HostOf[c.pe] = HostOf[p]
  BY ProgramAssumption
<1>2. /\ \A buf : /\ Fits(p, shmem_mte_get_detailed(p, c, buf))
                  /\ Fits(p, shmem_mte_put_detailed(p, c, buf))
      /\ Fits(p, shmem_mte_get_ub(p, c)) /\ Fits(p, shmem_mte_get_ub_detailed(p, c))
      /\ Fits(p, shmem_mte_put_ub(p, c)) /\ Fits(p, shmem_mte_put_ub_detailed(p, c))
  BY <1>1, DetailedFits, UbFits
<1>3. \A s : Fits(p, s) => Fits(p, Signalled(c, s))
  BY SignalledFits
<1>4. CASE c.api = "get_mem_detailed_nbi"
  BY <1>2, <1>4 DEF Code, shmem_get_mem_detailed_nbi
<1>5. CASE c.api = "get_mem_tensor_detailed_nbi"
  BY <1>2, <1>5 DEF Code, shmem_get_mem_tensor_detailed_nbi, shmem_mte_get_tensor_detailed
<1>6. CASE c.api = "put_mem_detailed_nbi"
  BY <1>2, <1>6 DEF Code, shmem_put_mem_detailed_nbi
<1>7. CASE c.api = "put_mem_tensor_detailed_nbi"
  BY <1>2, <1>7 DEF Code, shmem_put_mem_tensor_detailed_nbi, shmem_mte_put_tensor_detailed
<1>8. CASE c.api = "get_mem_ub_nbi"
  BY <1>2, <1>8 DEF Code, shmem_get_mem_ub_nbi
<1>9. CASE c.api = "get_mem_ub_tensor_nbi"
  BY <1>2, <1>9 DEF Code, shmem_get_mem_ub_tensor_nbi, shmem_mte_get_ub_tensor
<1>10. CASE c.api = "get_mem_ub_detailed_nbi"
  BY <1>2, <1>10 DEF Code, shmem_get_mem_ub_detailed_nbi
<1>11. CASE c.api = "get_mem_ub_tensor_detailed_nbi"
  BY <1>2, <1>11 DEF Code, shmem_get_mem_ub_tensor_detailed_nbi, shmem_mte_get_ub_tensor_detailed
<1>12. CASE c.api = "put_mem_ub_nbi"
  BY <1>2, <1>12 DEF Code, shmem_put_mem_ub_nbi
<1>13. CASE c.api = "put_mem_ub_tensor_nbi"
  BY <1>2, <1>13 DEF Code, shmem_put_mem_ub_tensor_nbi, shmem_mte_put_ub_tensor
<1>14. CASE c.api = "put_mem_ub_detailed_nbi"
  BY <1>2, <1>14 DEF Code, shmem_put_mem_ub_detailed_nbi
<1>15. CASE c.api = "put_mem_ub_tensor_detailed_nbi"
  BY <1>2, <1>15 DEF Code, shmem_put_mem_ub_tensor_detailed_nbi, shmem_mte_put_ub_tensor_detailed
<1>16. CASE c.api = "put_mem_signal_detailed"
  BY <1>2, <1>3, <1>16 DEF Code, shmem_put_mem_signal_detailed
<1>17. CASE c.api = "put_mem_signal_tensor_detailed"
  BY <1>2, <1>3, <1>17 DEF Code, shmem_put_mem_signal_tensor_detailed, shmem_mte_put_tensor_detailed
<1>18. CASE c.api = "put_mem_signal_detailed_nbi"
  BY <1>2, <1>3, <1>18 DEF Code, shmem_put_mem_signal_detailed_nbi
<1>19. CASE c.api = "put_mem_signal_tensor_detailed_nbi"
  BY <1>2, <1>3, <1>19 DEF Code, shmem_put_mem_signal_tensor_detailed_nbi, shmem_mte_put_tensor_detailed
<1>20. CASE c.api = "p"
  BY <1>20, WordFits DEF Code, shmem_p
<1>21. CASE c.api = "g"
  BY <1>21, WordFits DEF Code, shmem_g
<1>22. CASE c.api = "signal_op"
  BY <1>22, SignalFits DEF Code
<1> QED BY <1>4, <1>5, <1>6, <1>7, <1>8, <1>9, <1>10, <1>11, <1>12, <1>13, <1>14, <1>15, <1>16,
          <1>17, <1>18, <1>19, <1>20, <1>21, <1>22 DEF Direct

LEMMA InnerFits ==
  ASSUME NEW p \in PE, NEW c \in DeviceCalls(p), c.api \in Inner
  PROVE  Fits(p, Code(p, c))
<1>1. c.api \in {"wait_until_all", "test_all"} => c.n \in Nat
  BY ProgramAssumption
<1>2. CASE c.api = "quiet"
  BY <1>2, QuietFits DEF Code
<1>3. CASE c.api = "roce_quiet"
  BY <1>3, QuietFits DEF Code
<1>4. CASE c.api = "signal_fetch"
  BY <1>4, WaitFits DEF Code
<1>5. CASE c.api = "signal_wait_until"
  BY <1>5, WaitFits DEF Code
<1>6. CASE c.api = "wait_until_all"
  BY <1>6, <1>1, EachFits DEF Code
<1>7. CASE c.api = "test"
  BY <1>7, QuietFits, WaitFits, FitsConcat DEF Code, shmem_test
<1>8. CASE c.api = "test_all"
  BY <1>8, <1>1, EachFits DEF Code
<1> QED BY <1>2, <1>3, <1>4, <1>5, <1>6, <1>7, <1>8 DEF Inner

LEMMA CodeFits ==
  ASSUME NEW p \in PE, NEW c \in DeviceCalls(p), config[p].ub_size \in BufferSizes(p),
         \A q \in PE : "mte" \in host[p].dev.topo[q] <=> HostOf[q] = HostOf[p]
  PROVE  Fits(p, Code(p, c))
<1>1. c.api \in Routed \cup Unrouted \cup Direct \cup Inner
  BY ProgramAssumption
<1> QED BY <1>1, RoutedFits, UnroutedFits, DirectFits, InnerFits

-----------------------------------------------------------------------------
(* The invariant of the remote memory access: what is left to be done is   *)
(* what the programs say, what is under way leads to heaps that are there, *)
(* and only a PE at its run has anything under way.                        *)

OnPEs(f) == f = [p \in PE |-> f[p]]
AllOnPEs ==
  /\ OnPEs(script) /\ OnPEs(stream) /\ OnPEs(todo) /\ OnPEs(code) /\ OnPEs(mte2) /\ OnPEs(mte3)
  /\ OnPEs(nic) /\ OnPEs(config)

Busy(p) ==
  \/ stream[p] # <<>> \/ todo[p] # <<>> \/ code[p] # <<>>
  \/ mte2[p] # <<>> \/ mte3[p] # <<>> \/ nic[p] # <<>>

Wired(p) ==
  /\ script[p] \in Seq(HostCalls(p)) /\ stream[p] \in Seq(Seq(DeviceCalls(p)))
  /\ todo[p] \in Seq(DeviceCalls(p)) /\ config[p].ub_size \in BufferSizes(p)
  /\ Fits(p, code[p]) /\ Fits(p, mte2[p]) /\ Fits(p, mte3[p])
  /\ nic[p] \in Seq(Range(nic[p]))
  /\ Busy(p) => pc[p] = "run"

RmaInv == AllOnPEs /\ \A p \in PE : Wired(p)

(* A step of one PE. *)
LEMMA WiredMove ==
  ASSUME RmaInv, NEW p \in PE, AllOnPEs', Wired(p)',
         \A q \in PE \ {p} :
           /\ script'[q] = script[q] /\ stream'[q] = stream[q] /\ todo'[q] = todo[q]
           /\ code'[q] = code[q] /\ mte2'[q] = mte2[q] /\ mte3'[q] = mte3[q]
           /\ nic'[q] = nic[q] /\ config'[q] = config[q] /\ pc'[q] = pc[q]
  PROVE  RmaInv'
<1>1. ASSUME NEW q \in PE \ {p}
      PROVE  Wired(q)'
  <2>1. Wired(q)
    BY DEF RmaInv
  <2>2. /\ script'[q] = script[q] /\ stream'[q] = stream[q] /\ todo'[q] = todo[q]
        /\ code'[q] = code[q] /\ mte2'[q] = mte2[q] /\ mte3'[q] = mte3[q]
        /\ nic'[q] = nic[q] /\ config'[q] = config[q] /\ pc'[q] = pc[q]
    OBVIOUS
  <2> QED BY <2>1, <2>2 DEF Wired, Busy
<1> QED BY <1>1 DEF RmaInv

LEMMA RmaInitInv == HostInit /\ RmaInit => RmaInv
<1> SUFFICES ASSUME RmaInit PROVE RmaInv
  OBVIOUS
<1>1. AllOnPEs
  BY DEF RmaInit, AllOnPEs, OnPEs
<1>2. ASSUME NEW p \in PE
      PROVE  Wired(p)
  <2>1. /\ script[p] = <<>> /\ stream[p] = <<>> /\ todo[p] = <<>> /\ code[p] = <<>>
        /\ mte2[p] = <<>> /\ mte3[p] = <<>> /\ nic[p] = <<>> /\ config[p].ub_size = StagingSize
    BY DEF RmaInit
  <2>2. \A X : <<>> \in Seq(X)
    OBVIOUS
  <2>3. StagingSize \in BufferSizes(p)
    BY DEF BufferSizes
  <2> QED BY <2>1, <2>2, <2>3, FitsEmpty DEF Wired, Busy
<1> QED BY <1>1, <1>2 DEF RmaInv

LEMMA HostWired ==
  ASSUME JobInv, RmaInv, NEW p \in PE, HostStep(p) \/ Leaves(p), UNCHANGED rmaVars
  PROVE  RmaInv'
<1>1. /\ script' = script /\ stream' = stream /\ todo' = todo /\ code' = code /\ mte2' = mte2
      /\ mte3' = mte3 /\ nic' = nic /\ config' = config
  BY DEF rmaVars, deviceVars
<1>2. \A q \in PE \ {p} : pc'[q] = pc[q]
  <2>1. \E c : Goto(p, c) \/ Enter(p, c)
    BY HostMoves DEF Leaves, Done
  <2> QED BY <2>1, Moving
<1>3. AllOnPEs'
  BY <1>1 DEF AllOnPEs, OnPEs, RmaInv
<1>4. ~ Busy(p)
  <2>1. CASE HostStep(p)
    BY <2>1, HostMoves DEF RmaInv, Wired
  <2>2. CASE Leaves(p)
    BY <2>2 DEF Leaves, Idling, Busy
  <2> QED BY <2>1, <2>2
<1>5. Wired(p)'
  <2>1. Wired(p)
    BY DEF RmaInv
  <2> QED BY <1>1, <1>4, <2>1 DEF Wired, Busy
<1> QED BY <1>1, <1>2, <1>3, <1>5, WiredMove

LEMMA DecideWired ==
  ASSUME RmaInv, Decide, UNCHANGED hostVars
  PROVE  RmaInv'
<1>1. /\ stream' = stream /\ todo' = todo /\ code' = code /\ mte2' = mte2 /\ mte3' = mte3
      /\ nic' = nic /\ config' = config /\ pc' = pc
  BY DEF Decide, deviceVars, hostVars
<1>2. OnPEs(script') /\ \A p \in PE : script'[p] \in Seq(HostCalls(p))
  <2>1. CASE script' = script
    BY <2>1 DEF RmaInv, AllOnPEs, Wired
  <2>2. CASE script' \in Programs
    <3>1. OnPEs(script') /\ \A p \in PE : script'[p] \in Seq(Range(script'[p]))
      BY <2>2, ProgramAssumption DEF OnPEs
    <3>2. \A p \in PE : Range(script'[p]) \subseteq HostCalls(p)
      BY <2>2 DEF HostCalls
    <3> QED BY <3>1, <3>2
  <2>3. script' \in Programs \/ script' = script
    BY DEF Decide
  <2> QED BY <2>1, <2>2, <2>3
<1>3. AllOnPEs'
  BY <1>1, <1>2 DEF AllOnPEs, OnPEs, RmaInv
<1>4. ASSUME NEW p \in PE
      PROVE  Wired(p)'
  <2>1. Wired(p)
    BY DEF RmaInv
  <2> QED BY <1>1, <1>2, <2>1 DEF Wired, Busy
<1> QED BY <1>3, <1>4 DEF RmaInv

(* What has been called stays a part of the programs. *)
LEMMA CalledWired ==
  ASSUME NEW p \in PE, script[p] \in Seq(HostCalls(p)), script[p] # <<>>
  PROVE  Tail(script[p]) \in Seq(HostCalls(p)) /\ Head(script[p]) \in HostCalls(p)
OBVIOUS

LEMMA HostAtWorkWired ==
  ASSUME RmaInv, NEW p \in PE, HostAtWork(p), UNCHANGED hostVars
  PROVE  RmaInv'
<1> DEFINE c == Head(script[p])
<1>1. AllOnPEs /\ Wired(p)
  BY DEF RmaInv
<1>2. /\ pc[p] = "run" /\ pc' = pc /\ script[p] # <<>>
      /\ script' = [script EXCEPT ![p] = Tail(@)]
      /\ todo' = todo /\ code' = code /\ mte2' = mte2 /\ mte3' = mte3 /\ nic' = nic
  BY DEF HostAtWork, HostPosts, shmem_g_host, shmem_mte_set_ub_params, Synchronize, Calling, Called,
    At, deviceVars, hostVars
<1>3. Tail(script[p]) \in Seq(HostCalls(p)) /\ c \in HostCalls(p)
  BY <1>1, <1>2, CalledWired DEF Wired
<1> HIDE DEF c
<1>4. /\ script'[p] = Tail(script[p]) /\ OnPEs(script')
      /\ \A q \in PE \ {p} : script'[q] = script[q]
  BY <1>1, <1>2 DEF AllOnPEs, OnPEs
<1>5. CASE HostPosts(p)
  <2>1. /\ stream' = [stream EXCEPT ![p] = Append(@, Kernel(c))] /\ config' = config
        /\ c.api \notin Others
    BY <1>5 DEF HostPosts, c
  <2>2. Kernel(c) \in Seq(DeviceCalls(p))
    <3>1. Kernel(c) \in Seq(Range(Kernel(c)))
      BY <1>3, <2>1, ProgramAssumption
    <3>2. Range(Kernel(c)) \subseteq DeviceCalls(p)
      BY <1>3, <2>1 DEF DeviceCalls
    <3> QED BY <3>1, <3>2
  <2>3. /\ OnPEs(stream') /\ stream'[p] = Append(stream[p], Kernel(c))
        /\ \A q \in PE \ {p} : stream'[q] = stream[q]
    BY <1>1, <2>1 DEF AllOnPEs, OnPEs
  <2>4. stream'[p] \in Seq(Seq(DeviceCalls(p)))
    BY <1>1, <2>2, <2>3 DEF Wired
  <2>5. Wired(p)'
    BY <1>1, <1>2, <1>3, <1>4, <2>1, <2>4 DEF Wired
  <2>6. AllOnPEs'
    BY <1>1, <1>2, <1>4, <2>1, <2>3 DEF AllOnPEs, OnPEs
  <2> QED BY <1>2, <1>4, <2>1, <2>3, <2>5, <2>6, WiredMove
<1>6. CASE shmem_mte_set_ub_params(p)
  <2>1. /\ config' = [config EXCEPT ![p] = [shmem_ub |-> c.at, ub_size |-> c.size]]
        /\ stream' = stream /\ c.api = "set_ub_params"
    BY <1>6 DEF shmem_mte_set_ub_params, Calling, c
  <2>2. /\ OnPEs(config') /\ config'[p].ub_size = c.size
        /\ \A q \in PE \ {p} : config'[q] = config[q]
    BY <1>1, <2>1 DEF AllOnPEs, OnPEs
  <2>3. c.size \in BufferSizes(p)
    BY <1>3, <2>1 DEF BufferSizes
  <2>4. Wired(p)'
    BY <1>1, <1>2, <1>3, <1>4, <2>1, <2>2, <2>3 DEF Wired, Busy
  <2>5. AllOnPEs'
    BY <1>1, <1>2, <1>4, <2>1, <2>2 DEF AllOnPEs, OnPEs
  <2> QED BY <1>2, <1>4, <2>1, <2>2, <2>4, <2>5, WiredMove
<1>7. CASE shmem_g_host(p) \/ Synchronize(p)
  <2>1. config' = config /\ stream' = stream
    BY <1>7 DEF shmem_g_host, Synchronize
  <2>2. Wired(p)'
    BY <1>1, <1>2, <1>3, <1>4, <2>1 DEF Wired, Busy
  <2>3. AllOnPEs'
    BY <1>1, <1>2, <1>4, <2>1 DEF AllOnPEs, OnPEs
  <2> QED BY <1>2, <1>4, <2>1, <2>2, <2>3, WiredMove
<1> QED BY <1>5, <1>6, <1>7 DEF HostAtWork

LEMMA StartKernelWired ==
  ASSUME RmaInv, NEW p \in PE, StartKernel(p), UNCHANGED hostVars
  PROVE  RmaInv'
<1>1. AllOnPEs /\ Wired(p)
  BY DEF RmaInv
<1>2. /\ stream[p] # <<>> /\ stream' = [stream EXCEPT ![p] = Tail(@)]
      /\ todo' = [todo EXCEPT ![p] = Head(stream[p])]
      /\ script' = script /\ code' = code /\ mte2' = mte2 /\ mte3' = mte3 /\ nic' = nic
      /\ config' = config /\ pc' = pc
  BY DEF StartKernel, hostVars
<1>3. /\ OnPEs(stream') /\ stream'[p] = Tail(stream[p]) /\ OnPEs(todo') /\ todo'[p] = Head(stream[p])
      /\ \A q \in PE \ {p} : stream'[q] = stream[q] /\ todo'[q] = todo[q]
  BY <1>1, <1>2 DEF AllOnPEs, OnPEs
<1>4. Tail(stream[p]) \in Seq(Seq(DeviceCalls(p))) /\ Head(stream[p]) \in Seq(DeviceCalls(p))
  BY <1>1, <1>2 DEF Wired
<1>5. pc[p] = "run"
  BY <1>1, <1>2 DEF Wired, Busy
<1>6. Wired(p)'
  BY <1>1, <1>2, <1>3, <1>4, <1>5 DEF Wired
<1>7. AllOnPEs'
  BY <1>1, <1>2, <1>3 DEF AllOnPEs, OnPEs
<1> QED BY <1>2, <1>3, <1>6, <1>7, WiredMove

(* The device of a PE that runs a kernel knows where the transports lead. *)
Routes(p, topo) ==
  \A q \in PE : /\ "mte" \in topo[q] <=> HostOf[q] = HostOf[p]
                /\ "roce" \in topo[q] <=> q # p

LEMMA RunRoutes ==
  ASSUME JobInv, NamesInv, NEW p \in PE, pc[p] = "run", todo[p] # <<>>
  PROVE  Routes(p, host[p].dev.topo)
<1>1. Built(p, "run", host[p])
  BY Here
<1>2. "run" \in Known /\ "run" \in Working
  BY DEF Known, Reserved, Imported, Mapped, Pooled, Cleared, Working, Running
<1>3. AllFound /\ \A q \in PE : host[p].info[q] = host[q].hash
  BY <1>2 DEF NamesInv, FoundInv, Chosen, LearntInv
<1>4. host[p].dev.topo = host[p].topo
  BY <1>1, <1>2, <1>3 DEF Built, AllFound, Named, Device
<1>5. Leads(p, host[p].topo, host[p].hash, host[p].info)
  BY <1>1, <1>2 DEF Built
<1>6. ASSUME NEW q \in PE
      PROVE  host[p].info[q] = host[p].hash <=> HostOf[q] = HostOf[p]
  BY <1>3 DEF AllFound, Named
<1> QED BY <1>4, <1>5, <1>6 DEF Leads, Routes

LEMMA RunTopo ==
  ASSUME JobInv, NamesInv, NEW p \in PE, pc[p] = "run", todo[p] # <<>>
  PROVE  \A q \in PE : "mte" \in host[p].dev.topo[q] <=> HostOf[q] = HostOf[p]
BY RunRoutes DEF Routes

LEMMA StartCallWired ==
  ASSUME JobInv, NamesInv, RmaInv, NEW p \in PE, StartCall(p), UNCHANGED hostVars
  PROVE  RmaInv'
<1> DEFINE c == Head(todo[p])
<1>1. AllOnPEs /\ Wired(p)
  BY DEF RmaInv
<1>2. /\ todo[p] # <<>> /\ todo' = [todo EXCEPT ![p] = Tail(@)]
      /\ code' = [code EXCEPT ![p] = Code(p, c)]
      /\ script' = script /\ stream' = stream /\ mte2' = mte2 /\ mte3' = mte3 /\ nic' = nic
      /\ config' = config /\ pc' = pc
  BY DEF StartCall, hostVars
<1>3. /\ OnPEs(todo') /\ todo'[p] = Tail(todo[p]) /\ OnPEs(code') /\ code'[p] = Code(p, c)
      /\ \A q \in PE \ {p} : todo'[q] = todo[q] /\ code'[q] = code[q]
  BY <1>1, <1>2 DEF AllOnPEs, OnPEs
<1>4. Tail(todo[p]) \in Seq(DeviceCalls(p)) /\ c \in DeviceCalls(p)
  BY <1>1, <1>2 DEF Wired
<1>5. pc[p] = "run"
  BY <1>1, <1>2 DEF Wired, Busy
<1>6. \A q \in PE : "mte" \in host[p].dev.topo[q] <=> HostOf[q] = HostOf[p]
  BY <1>2, <1>5, RunTopo
<1> HIDE DEF c
<1>7. Fits(p, Code(p, c))
  BY <1>1, <1>4, <1>6, CodeFits DEF Wired
<1>8. Wired(p)'
  BY <1>1, <1>2, <1>3, <1>4, <1>5, <1>7 DEF Wired
<1>9. AllOnPEs'
  BY <1>1, <1>2, <1>3 DEF AllOnPEs, OnPEs
<1> QED BY <1>2, <1>3, <1>8, <1>9, WiredMove

LEMMA IssueToPipeWired ==
  ASSUME RmaInv, NEW p \in PE, IssueToPipe(p), UNCHANGED hostVars
  PROVE  RmaInv'
<1> DEFINE early == ToMte2(Now(p))
           I == {i \in 1 .. Len(code[p]) : code[p][i].op \notin Piped \/ (ToMte2(code[p][i]) # early)}
           other == IF I # {} THEN Min(I) ELSE 0
           n == IF other = 0 THEN Len(code[p]) ELSE other - 1
           run == SubSeq(code[p], 1, n)
<1>1. AllOnPEs /\ Wired(p)
  BY DEF RmaInv
<1>2. /\ code[p] # <<>> /\ code' = [code EXCEPT ![p] = SubSeq(@, n + 1, Len(@))]
      /\ mte2' = [mte2 EXCEPT ![p] = IF early THEN @ \o run ELSE @]
      /\ mte3' = [mte3 EXCEPT ![p] = IF early THEN @ ELSE @ \o run]
      /\ script' = script /\ stream' = stream /\ todo' = todo /\ nic' = nic
      /\ config' = config /\ pc' = pc
  BY DEF IssueToPipe, Is, SelectInSeq, hostVars
<1>3. Len(code[p]) \in Nat
  BY <1>1, FitsSub DEF Wired, Fits
<1>4. n \in Nat /\ n <= Len(code[p])
  <2>1. CASE I = {}
    BY <1>3, <2>1
  <2>2. CASE I # {}
    <3> HIDE DEF early
    <3>1. I \in SUBSET Nat
      OBVIOUS
    <3>2. \E x \in I : \A y \in I : x <= y
      BY <2>2, <3>1, Smallest
    <3>3. Min(I) \in I
      BY <3>2 DEF Min
    <3> QED BY <1>3, <2>2, <3>3
  <2> QED BY <2>1, <2>2
<1> HIDE DEF n, early
<1>5. /\ OnPEs(code') /\ code'[p] = SubSeq(code[p], n + 1, Len(code[p]))
      /\ OnPEs(mte2') /\ mte2'[p] = (IF early THEN mte2[p] \o run ELSE mte2[p])
      /\ OnPEs(mte3') /\ mte3'[p] = (IF early THEN mte3[p] ELSE mte3[p] \o run)
      /\ \A q \in PE \ {p} : code'[q] = code[q] /\ mte2'[q] = mte2[q] /\ mte3'[q] = mte3[q]
  BY <1>1, <1>2 DEF AllOnPEs, OnPEs
<1>6. pc[p] = "run"
  BY <1>1, <1>2 DEF Wired, Busy
<1>7. Fits(p, code'[p])
  <2>1. n + 1 \in Nat /\ 0 < n + 1
    BY <1>4
  <2> QED BY <1>1, <1>3, <1>5, <2>1, FitsSub DEF Wired
<1>8. Fits(p, run)
  <2>1. 1 \in Nat /\ 0 < 1
    OBVIOUS
  <2> QED BY <1>1, <1>4, <2>1, FitsSub DEF Wired
<1> HIDE DEF run
<1>9. Fits(p, mte2'[p]) /\ Fits(p, mte3'[p])
  BY <1>1, <1>5, <1>8, FitsConcat DEF Wired
<1>10. Wired(p)'
  BY <1>1, <1>2, <1>6, <1>7, <1>9 DEF Wired
<1>11. AllOnPEs'
  BY <1>1, <1>2, <1>5 DEF AllOnPEs, OnPEs
<1> QED BY <1>2, <1>5, <1>10, <1>11, WiredMove

(* What is put into a queue or taken from it. *)
LEMMA QueueRange ==
  ASSUME NEW s, s \in Seq(Range(s))
  PROVE  /\ \A e : Append(s, e) \in Seq(Range(Append(s, e)))
         /\ s # <<>> => Tail(s) \in Seq(Range(Tail(s)))
<1> DEFINE X == Range(s)
<1>1. s \in Seq(X)
  OBVIOUS
<1> HIDE DEF X
<1>2. ASSUME NEW e
      PROVE  Append(s, e) \in Seq(X \cup {e})
  <2>1. s \in Seq(X \cup {e})
    BY <1>1
  <2> QED BY <2>1
<1>3. s # <<>> => Tail(s) \in Seq(X)
  BY <1>1
<1> QED BY <1>2, <1>3, SeqRange

(* The other steps of the scalar unit issue one instruction. *)
LEMMA IssuedWired ==
  ASSUME RmaInv, NEW p \in PE, UNCHANGED hostVars,
         IssuePost(p) \/ WriteWord(p) \/ ReadWord(p) \/ Proceed(p)
  PROVE  RmaInv'
<1>1. AllOnPEs /\ Wired(p)
  BY DEF RmaInv
<1>2. /\ code[p] # <<>> /\ code' = [code EXCEPT ![p] = Tail(@)]
      /\ nic' = nic \/ nic' = [nic EXCEPT ![p] = Append(@, Now(p))]
      /\ script' = script /\ stream' = stream /\ todo' = todo /\ mte2' = mte2 /\ mte3' = mte3
      /\ config' = config /\ pc' = pc
  BY DEF IssuePost, WriteWord, ReadWord, Proceed, Is, Issued, hostVars
<1>3. /\ OnPEs(code') /\ code'[p] = Tail(code[p]) /\ OnPEs(nic')
      /\ nic'[p] \in {nic[p], Append(nic[p], Now(p))}
      /\ \A q \in PE \ {p} : code'[q] = code[q] /\ nic'[q] = nic[q]
  BY <1>1, <1>2 DEF AllOnPEs, OnPEs
<1>4. pc[p] = "run"
  BY <1>1, <1>2 DEF Wired, Busy
<1>5. Fits(p, Tail(code[p]))
  BY <1>1, <1>2, FitsTail DEF Wired
<1>6. nic'[p] \in Seq(Range(nic'[p]))
  <2>1. nic[p] \in Seq(Range(nic[p]))
    BY <1>1 DEF Wired
  <2>2. \A x \in {nic[p], Append(nic[p], Now(p))} : x \in Seq(Range(x))
    BY <2>1, QueueRange, Zenon
  <2> QED BY <1>3, <2>2, Zenon
<1>7. Wired(p)'
  BY <1>1, <1>2, <1>3, <1>4, <1>5, <1>6 DEF Wired
<1>8. AllOnPEs'
  BY <1>1, <1>2, <1>3 DEF AllOnPEs, OnPEs
<1> QED BY <1>2, <1>3, <1>7, <1>8, WiredMove

(* The pipes and the network device take off what is first. *)
LEMMA TakenWired ==
  ASSUME RmaInv, NEW p \in PE, UNCHANGED hostVars, Mte2Step(p) \/ Mte3Step(p) \/ NicStep(p)
  PROVE  RmaInv'
<1>1. AllOnPEs /\ Wired(p)
  BY DEF RmaInv
<1>2. /\ script' = script /\ stream' = stream /\ todo' = todo /\ code' = code
      /\ config' = config /\ pc' = pc
  BY DEF Mte2Step, Mte3Step, NicStep, hostVars
<1>3. pc[p] = "run"
  BY <1>1 DEF Wired, Busy, Mte2Step, Mte3Step, NicStep
<1>4. CASE Mte2Step(p)
  <2>1. /\ mte2[p] # <<>> /\ mte2' = [mte2 EXCEPT ![p] = Tail(@)] /\ mte3' = mte3 /\ nic' = nic
    BY <1>4 DEF Mte2Step
  <2>2. /\ OnPEs(mte2') /\ mte2'[p] = Tail(mte2[p]) /\ \A q \in PE \ {p} : mte2'[q] = mte2[q]
    BY <1>1, <2>1 DEF AllOnPEs, OnPEs
  <2>3. Fits(p, Tail(mte2[p]))
    BY <1>1, <2>1, FitsTail DEF Wired
  <2>4. Wired(p)'
    BY <1>1, <1>2, <1>3, <2>1, <2>2, <2>3 DEF Wired
  <2>5. AllOnPEs'
    BY <1>1, <1>2, <2>1, <2>2 DEF AllOnPEs, OnPEs
  <2> QED BY <1>2, <2>1, <2>2, <2>4, <2>5, WiredMove
<1>5. CASE Mte3Step(p)
  <2>1. /\ mte3[p] # <<>> /\ mte3' = [mte3 EXCEPT ![p] = Tail(@)] /\ mte2' = mte2 /\ nic' = nic
    BY <1>5 DEF Mte3Step
  <2>2. /\ OnPEs(mte3') /\ mte3'[p] = Tail(mte3[p]) /\ \A q \in PE \ {p} : mte3'[q] = mte3[q]
    BY <1>1, <2>1 DEF AllOnPEs, OnPEs
  <2>3. Fits(p, Tail(mte3[p]))
    BY <1>1, <2>1, FitsTail DEF Wired
  <2>4. Wired(p)'
    BY <1>1, <1>2, <1>3, <2>1, <2>2, <2>3 DEF Wired
  <2>5. AllOnPEs'
    BY <1>1, <1>2, <2>1, <2>2 DEF AllOnPEs, OnPEs
  <2> QED BY <1>2, <2>1, <2>2, <2>4, <2>5, WiredMove
<1>6. CASE NicStep(p)
  <2>1. /\ nic[p] # <<>> /\ nic' = [nic EXCEPT ![p] = Tail(@)] /\ mte2' = mte2 /\ mte3' = mte3
    BY <1>6 DEF NicStep
  <2>2. /\ OnPEs(nic') /\ nic'[p] = Tail(nic[p]) /\ \A q \in PE \ {p} : nic'[q] = nic[q]
    BY <1>1, <2>1 DEF AllOnPEs, OnPEs
  <2>3. nic[p] \in Seq(Range(nic[p]))
    BY <1>1 DEF Wired
  <2>4. nic'[p] \in Seq(Range(nic'[p]))
    BY <2>1, <2>2, <2>3, QueueRange
  <2>5. Wired(p)'
    BY <1>1, <1>2, <1>3, <2>1, <2>4 DEF Wired
  <2>6. AllOnPEs'
    BY <1>1, <1>2, <2>1, <2>2 DEF AllOnPEs, OnPEs
  <2> QED BY <1>2, <2>1, <2>2, <2>5, <2>6, WiredMove
<1> QED BY <1>4, <1>5, <1>6

LEMMA RmaStep == JobInv /\ NamesInv /\ RmaInv /\ [Next]_vars => RmaInv'
<1> SUFFICES ASSUME JobInv, NamesInv, RmaInv, [Next]_vars PROVE RmaInv'
  OBVIOUS
<1>1. CASE UNCHANGED vars
  <2>1. /\ script' = script /\ stream' = stream /\ todo' = todo /\ code' = code /\ mte2' = mte2
        /\ mte3' = mte3 /\ nic' = nic /\ config' = config /\ pc' = pc
    BY <1>1 DEF vars, hostVars, rmaVars, deviceVars
  <2> QED BY <2>1 DEF RmaInv, AllOnPEs, OnPEs, Wired, Busy
<1>2. ASSUME NEW p \in PE, HostStep(p) \/ Leaves(p), UNCHANGED rmaVars
      PROVE  RmaInv'
  BY <1>2, HostWired
<1>3. CASE Decide /\ UNCHANGED hostVars
  BY <1>3, DecideWired
<1>4. ASSUME NEW p \in PE, Works(p), UNCHANGED hostVars
      PROVE  RmaInv'
  BY <1>4, HostAtWorkWired, StartKernelWired, StartCallWired, IssueToPipeWired, IssuedWired,
     TakenWired DEF Works, Core
<1> QED BY <1>1, <1>2, <1>3, <1>4 DEF Next

(* At every moment of a job the programs are well formed, what is under    *)
(* way leads to heaps of the same host or goes by RDMA, and only a PE at   *)
(* its run has anything under way.                                         *)
THEOREM RmaInvariant == Spec => []RmaInv
<1>1. Init => JobInv /\ NamesInv /\ RmaInv
  BY InitInv, NamesInit, RmaInitInv DEF Init
<1>2. JobInv /\ NamesInv /\ RmaInv /\ [Next]_vars => JobInv' /\ NamesInv' /\ RmaInv'
  BY StepInv, HostsOnly, NamesStep, RmaStep
<1> QED BY <1>1, <1>2, PTL DEF Spec

-----------------------------------------------------------------------------
(* The network device of a PE: registered and connected where no call of a *)
(* library has failed, with the bases of all PEs.                          *)
Registered(p, c, h) ==
  /\ c \in {"setup"} \cup Reserved => h.rdma = PE
  /\ c \in {"map"} \cup Known /\ p \notin faulty => h.nic

NetInv == \A p \in PE : Registered(p, pc[p], host[p])

LEMMA NetMove ==
  ASSUME JobInv, NetInv, NEW p \in PE, OthersStay(p),
         /\ pc'[p] \in {"setup"} \cup Reserved => host'[p].rdma = PE
         /\ pc'[p] \in {"map"} \cup Known /\ p \notin faulty' => host'[p].nic
  PROVE  NetInv'
<1>1. ASSUME NEW q \in PE
      PROVE  Registered(q, pc[q], host[q])'
  <2>1. CASE q = p
    BY <2>1 DEF Registered
  <2>2. CASE q # p
    <3>1. pc'[q] = pc[q] /\ host'[q] = host[q] /\ (q \notin faulty' => q \notin faulty)
      BY <2>2 DEF OthersStay
    <3>2. Registered(q, pc[q], host[q])
      BY DEF NetInv
    <3> QED BY <3>1, <3>2 DEF Registered
  <2> QED BY <2>1, <2>2
<1> QED BY <1>1 DEF NetInv

LEMMA NetKept ==
  ASSUME JobInv, NetInv, NEW p \in PE, OthersStay(p),
         host'[p].rdma = host[p].rdma, host'[p].nic = host[p].nic,
         pc'[p] \in {"setup"} \cup Reserved => pc[p] \in {"setup"} \cup Reserved,
         pc'[p] \in {"map"} \cup Known => pc[p] \in {"map"} \cup Known
  PROVE  NetInv'
<1>1. Registered(p, pc[p], host[p]) /\ (p \notin faulty' => p \notin faulty)
  BY DEF NetInv, OthersStay
<1> QED BY <1>1, NetMove DEF Registered

(* The places from which what the network device has is kept. *)
LEMMA NetPlaces ==
  /\ \A c \in {"state", "device", "reserve", "transport", "open", "failed"} \cup Ending :
       c \notin {"setup"} \cup Reserved /\ c \notin {"map"} \cup Known
  /\ \A c \in {"map", "connect", "ips", "mrs", "rdma"} :
       c \notin {"setup"} \cup Reserved /\ c \in {"map"} \cup Known
  /\ \A c \in {"setup", "pids", "handles", "mapping", "team", "pool", "counters", "sync", "final"}
              \cup Running :
       c \in {"setup"} \cup Reserved /\ c \in {"map"} \cup Known
BY DEF Ending, Known, Reserved, Imported, Mapped, Pooled, Cleared, Working, Running

LEMMA NetInitialises ==
  ASSUME JobInv, NetInv, NEW p \in PE, Initialises(p)
  PROVE  NetInv'
<1> DEFINE X == {"state", "device", "reserve", "transport", "open", "failed"}
<1>1. OthersStay(p) /\ host \in [PE -> Hosts] /\ host[p] \in Hosts
  BY HostStays DEF HostStep, JobInv
<1>2. pc'[p] \in X => NetInv'
  BY <1>1, NetPlaces, NetMove
<1>3. \A c : Goto(p, c) \/ Enter(p, c) => pc'[p] = c
  BY Moving
<1>4. CASE \/ shmemi_bootstrap_init(p) \/ shmemi_state_init_attr(p) \/ init_device_state(p)
           \/ reserve_heap(p) \/ shmemi_transport_load(p) \/ shmem_init_attr_fails(p)
  <2>1. pc'[p] \in X
    BY <1>3, <1>4 DEF shmemi_bootstrap_init, shmemi_state_init_attr, init_device_state,
      reserve_heap, shmemi_transport_load, shmem_init_attr_fails
  <2> QED BY <1>2, <2>1
<1>5. CASE shmemi_transport_init(p)
  <2> DEFINE h == [host[p] EXCEPT !.info = [q \in PE |-> host[q].hash]]
  <2>1. PICK good \in BOOLEAN :
          Dropped(p, good) /\ host' = [host EXCEPT ![p] = shmemi_rdma_init(h, good)]
    BY <1>5 DEF shmemi_transport_init
  <2>2. pc'[p] = "map" /\ host'[p].nic = good /\ (p \notin faulty' => good)
    BY <1>1, <1>3, <1>5, <2>1 DEF shmemi_transport_init, Dropped, shmemi_rdma_init, Hosts
  <2> QED BY <1>1, <2>2, NetPlaces, NetMove
<1>6. CASE shmemi_build_transport_map(p) \/ shmemi_mte_connect_peers(p) \/ GatherIps(p) \/ GatherMrs(p)
  <2>1. pc[p] \in {"map", "connect", "ips", "mrs"} /\ pc'[p] \in {"connect", "ips", "mrs", "rdma"}
    BY <1>3, <1>6 DEF shmemi_build_transport_map, shmemi_mte_connect_peers, GatherIps, GatherMrs, At
  <2>2. host'[p].rdma = host[p].rdma /\ host'[p].nic = host[p].nic
    BY <1>1, <1>6 DEF shmemi_build_transport_map, shmemi_mte_connect_peers, GatherIps, GatherMrs, Hosts
  <2> QED BY <1>1, <2>1, <2>2, NetPlaces, NetKept
<1>7. CASE shmemi_rdma_connect_peers(p)
  <2>1. PICK good \in BOOLEAN : /\ Dropped(p, good)
                               /\ host' = [host EXCEPT ![p].rdma = PE, ![p].nic = @ /\ good]
    BY <1>7 DEF shmemi_rdma_connect_peers
  <2>2. pc[p] = "rdma" /\ pc'[p] = "setup"
    BY <1>3, <1>7 DEF shmemi_rdma_connect_peers, At
  <2>3. host'[p].rdma = PE /\ host'[p].nic = (host[p].nic /\ good)
    BY <1>1, <2>1 DEF Hosts
  <2>4. p \notin faulty' => good /\ host[p].nic
    BY <1>1, <2>1, <2>2, NetPlaces DEF Dropped, Fine, NetInv, Registered
  <2> QED BY <1>1, <2>2, <2>3, <2>4, NetMove
<1>8. CASE export_memory(p) \/ import_pid(p) \/ import_memory(p) \/ setup_heap(p)
  <2>1. /\ pc[p] \in {"setup", "pids", "handles", "mapping"}
        /\ pc'[p] \in {"pids", "handles", "mapping", "team", "failed"}
    BY <1>3, <1>8 DEF export_memory, import_pid, import_memory, setup_heap, At
  <2>2. host'[p].rdma = host[p].rdma /\ host'[p].nic = host[p].nic
    BY <1>1, <1>8, NetUntouched
  <2> QED BY <1>1, <1>2, <2>1, <2>2, NetPlaces, NetKept
<1>9. CASE \/ shmemi_team_init(p) \/ ClearPool(p) \/ SyncAreas(p) \/ Publish(p)
           \/ shmem_init_attr_returns(p)
  <2>1. pc[p] \in {"team", "pool", "counters", "sync", "final"}
    BY <1>9 DEF shmemi_team_init, ClearPool, SyncAreas, Publish, shmem_init_attr_returns, At
  <2>2. host'[p].rdma = host[p].rdma /\ host'[p].nic = host[p].nic
    BY <1>1, <1>9, NetUntouched
  <2> QED BY <1>1, <2>1, <2>2, NetPlaces, NetKept
<1> QED BY <1>4, <1>5, <1>6, <1>7, <1>8, <1>9 DEF Initialises

LEMMA NetStep == JobInv /\ NetInv /\ [HostNext]_hostVars => NetInv'
<1> SUFFICES ASSUME JobInv, NetInv, [HostNext]_hostVars PROVE NetInv'
  OBVIOUS
<1>1. CASE UNCHANGED hostVars
  BY <1>1 DEF hostVars, NetInv, Registered
<1>2. ASSUME NEW p \in PE, HostStep(p) \/ Done(p)
      PROVE  NetInv'
  <2>1. OthersStay(p) /\ host \in [PE -> Hosts] /\ host[p] \in Hosts
    BY <1>2, HostStays DEF JobInv
  <2>2. CASE Initialises(p)
    BY <2>2, NetInitialises
  <2>3. CASE Allocates(p) \/ Done(p)
    <3>1. pc[p] \in Running
      BY <2>3 DEF Allocates, shmem_malloc, shmem_align, shmem_calloc_fails, shmem_calloc,
        AllocationReturns, shmem_free, Done, Asks, At, Running
    <3>2. host'[p].rdma = host[p].rdma /\ host'[p].nic = host[p].nic
      BY <2>1, <2>3, NetUntouched DEF Done
    <3> QED BY <2>1, <3>1, <3>2, NetPlaces, NetKept
  <2>4. CASE Finalises(p)
    <3>1. pc'[p] \in Ending
      BY <2>4, EndingStays
    <3> QED BY <2>1, <3>1, NetPlaces, NetMove
  <2> QED BY <1>2, <2>2, <2>3, <2>4 DEF HostStep
<1> QED BY <1>1, <1>2 DEF HostNext

LEMMA NetInit == HostInit => NetInv
<1> SUFFICES ASSUME HostInit, NEW p \in PE PROVE Registered(p, pc[p], host[p])
  BY DEF NetInv
<1>1. pc[p] = "init"
  BY DEF HostInit
<1> QED BY <1>1 DEF Registered, Known, Reserved, Imported, Mapped, Pooled, Cleared, Working, Running

THEOREM NetInvariant == Spec => []NetInv
<1>1. Init => JobInv /\ NetInv
  BY InitInv, NetInit DEF Init
<1>2. JobInv /\ NetInv /\ [Next]_vars => JobInv' /\ NetInv'
  BY StepInv, HostsOnly, NetStep
<1> QED BY <1>1, <1>2, PTL DEF Spec

(* No copy goes where nothing is mapped or registered, for every job and   *)
(* program that keeps to ProgramAssumption: no PE takes away its heap      *)
(* while another has a copy under way, and no form takes a transport that  *)
(* does not lead to the PE it names.                                       *)
THEOREM CopiesBacked == Spec => []AccessBacked
<1>1. ASSUME JobInv, NamesInv, NetInv, RmaInv, faulty = {}, NEW p \in PE, Busy(p), NEW q \in PE
      PROVE  /\ q \in Home(p) => q \in host[p].mapped \cup {p}
             /\ q \in host[p].rdma /\ host[q].nic /\ host[q].phys
  <2>1. pc[p] = "run"
    BY <1>1 DEF RmaInv, Wired
  <2>2. pc[q] \in Working /\ pc[p] \in Working /\ Ready(q) /\ Ready(p)
    BY <1>1, <2>1, RunWorking, WorkingReady DEF NamesInv
  <2>3. pc[p] \in Reserved /\ pc[q] \in Known
    BY <2>1, <2>2 DEF Known, Reserved, Imported, Mapped, Pooled, Cleared, Working, Running
  <2>4. host[p].rdma = PE /\ host[q].nic
    BY <1>1, <2>3 DEF NetInv, Registered
  <2>5. q \in Home(p) => q \in Near(p) \/ q = p
    BY DEF Home
  <2> QED BY <1>1, <2>2, <2>4, <2>5 DEF Ready
<1>2. ASSUME NEW p, NEW s, Fits(p, s), NEW k \in 1 .. Len(s), s[k].op \in {"load", "store"}
      PROVE  Heaps(s[k]) \subseteq Home(p) /\ Heaps(s[k]) \subseteq PE /\ s # <<>>
  <2>1. s \in Seq(Range(s)) /\ s # <<>>
    BY <1>2 DEF Fits
  <2>2. s[k] \in Range(s)
    BY <1>2, <2>1
  <2> QED BY <1>2, <2>1, <2>2 DEF Fits, Backed, Heaps
<1>3. ASSUME JobInv, NamesInv, NetInv, RmaInv, faulty = {}, NEW p \in PE
      PROVE  /\ \A k \in 1 .. Len(mte2[p]) : mte2[p][k].op = "load" =>
                  \A q \in Heaps(mte2[p][k]) : q \in host[p].mapped \cup {p} /\ host[q].phys
             /\ \A k \in 1 .. Len(mte3[p]) : mte3[p][k].op = "store" =>
                  \A q \in Heaps(mte3[p][k]) : q \in host[p].mapped \cup {p} /\ host[q].phys
             /\ \A k \in 1 .. Len(nic[p]) :
                  \A q \in Heaps(nic[p][k]) : q \in host[p].rdma /\ host[q].nic /\ host[q].phys
  <2>1. Fits(p, mte2[p]) /\ Fits(p, mte3[p]) /\ nic[p] \in Seq(Range(nic[p]))
    BY <1>3 DEF RmaInv, Wired
  <2>2. \A k \in 1 .. Len(mte2[p]) : mte2[p][k].op = "load" =>
          \A q \in Heaps(mte2[p][k]) : q \in host[p].mapped \cup {p} /\ host[q].phys
    BY <1>1, <1>2, <1>3, <2>1 DEF Busy
  <2>3. \A k \in 1 .. Len(mte3[p]) : mte3[p][k].op = "store" =>
          \A q \in Heaps(mte3[p][k]) : q \in host[p].mapped \cup {p} /\ host[q].phys
    BY <1>1, <1>2, <1>3, <2>1 DEF Busy
  <2>4. \A k \in 1 .. Len(nic[p]) :
          \A q \in Heaps(nic[p][k]) : q \in host[p].rdma /\ host[q].nic /\ host[q].phys
    <3>1. \A k \in 1 .. Len(nic[p]) : Heaps(nic[p][k]) \subseteq PE
      BY DEF Heaps
    <3>2. 1 .. Len(nic[p]) # {} => Busy(p)
      BY <2>1 DEF Busy
    <3> QED BY <1>1, <1>3, <3>1, <3>2
  <2> QED BY <2>2, <2>3, <2>4
<1>4. JobInv /\ NamesInv /\ NetInv /\ RmaInv => AccessBacked
  BY <1>3 DEF AccessBacked
<1> QED BY <1>4, JobInvariant, NamesInvariant, NetInvariant, RmaInvariant, PTL

-----------------------------------------------------------------------------
(* Counting.                                                               *)

(* How often x occurs in s from place i on. *)
Occurs(s, x, i) == {k \in i .. Len(s) : s[k] = x}
Times(s, x, i) == Cardinality(Occurs(s, x, i))

LEMMA OccursFinite ==
  ASSUME NEW X, NEW s \in Seq(X), NEW x, NEW i \in Nat
  PROVE  IsFiniteSet(Occurs(s, x, i)) /\ Times(s, x, i) \in Nat /\ Len(s) \in Nat
<1>1. Len(s) \in Nat
  OBVIOUS
<1>2. IsFiniteSet(i .. Len(s))
  BY <1>1, FS_Interval
<1>3. IsFiniteSet(Occurs(s, x, i))
  BY <1>2, FS_Subset DEF Occurs
<1> QED BY <1>1, <1>3, FS_CardinalityType DEF Times

LEMMA Disjoint ==
  ASSUME NEW A, NEW B, IsFiniteSet(A), IsFiniteSet(B), A \cap B = {}
  PROVE  Cardinality(A \cup B) = Cardinality(A) + Cardinality(B)
<1>1. Cardinality(A \cup B) = Cardinality(A) + Cardinality(B) - Cardinality(A \cap B)
  BY FS_Union
<1>2. Cardinality(A) \in Nat /\ Cardinality(B) \in Nat /\ Cardinality(A \cap B) = 0
  BY FS_CardinalityType, FS_EmptySet
<1> QED BY <1>1, <1>2

(* Counting does not depend on where one begins to number. *)
LEMMA Shifted ==
  ASSUME NEW d \in Int, NEW S \in SUBSET Int, NEW T \in SUBSET Int, IsFiniteSet(S),
         \A k \in S : k + d \in T, \A k \in T : k - d \in S
  PROVE  Cardinality(T) = Cardinality(S) /\ IsFiniteSet(T)
<1> DEFINE f == [k \in S |-> k + d]
<1>1. \A k \in T : f[k - d] = k
  OBVIOUS
<1>2. f \in Bijection(S, T)
  BY <1>1 DEF Bijection, Injection, Surjection, IsInjective
<1>3. ExistsBijection(S, T)
  BY <1>2 DEF ExistsBijection
<1> QED BY <1>3, FS_Bijection

LEMMA TimesNone ==
  ASSUME NEW X, NEW s \in Seq(X), NEW x, NEW i \in Nat, \A k \in i .. Len(s) : s[k] # x
  PROVE  Times(s, x, i) = 0
<1>1. Occurs(s, x, i) = {}
  BY DEF Occurs
<1> QED BY <1>1, FS_EmptySet DEF Times

LEMMA TimesEnd ==
  ASSUME NEW X, NEW s \in Seq(X), NEW x
  PROVE  Times(s, x, Len(s) + 1) = 0
<1>1. Len(s) + 1 \in Nat /\ \A k \in Len(s) + 1 .. Len(s) : s[k] # x
  OBVIOUS
<1> QED BY <1>1, TimesNone

LEMMA TimesStep ==
  ASSUME NEW X, NEW s \in Seq(X), NEW x, NEW i \in 1 .. Len(s)
  PROVE  Times(s, x, i) = Times(s, x, i + 1) + IF s[i] = x THEN 1 ELSE 0
<1>1. IsFiniteSet(Occurs(s, x, i + 1)) /\ Len(s) \in Nat /\ i \in Nat /\ Times(s, x, i + 1) \in Nat
  BY OccursFinite
<1>2. CASE s[i] = x
  <2>1. Occurs(s, x, i) = Occurs(s, x, i + 1) \cup {i} /\ i \notin Occurs(s, x, i + 1)
    BY <1>1, <1>2 DEF Occurs
  <2> QED BY <1>1, <1>2, <2>1, FS_AddElement DEF Times
<1>3. CASE s[i] # x
  <2>1. Occurs(s, x, i) = Occurs(s, x, i + 1)
    BY <1>1, <1>3 DEF Occurs
  <2> QED BY <1>1, <1>3, <2>1 DEF Times
<1> QED BY <1>2, <1>3

(* Of two sequences end to end, from a place in the second one or in the   *)
(* first one.                                                              *)
LEMMA TimesPast ==
  ASSUME NEW X, NEW s \in Seq(X), NEW t \in Seq(X), NEW x,
         NEW i \in 1 .. Len(t) + 1, NEW j, j = Len(s) + i
  PROVE  Times(s \o t, x, j) = Times(t, x, i) /\ IsFiniteSet(Occurs(s \o t, x, j))
<1> DEFINE S == Occurs(t, x, i)
           T == Occurs(s \o t, x, j)
<1>1. /\ Len(s) \in Nat /\ Len(t) \in Nat /\ Len(s \o t) = Len(s) + Len(t)
      /\ \A k \in 1 .. Len(t) : (s \o t)[Len(s) + k] = t[k]
      /\ i \in Nat
  OBVIOUS
<1>2. IsFiniteSet(S)
  BY <1>1, OccursFinite
<1>3. ASSUME NEW k \in T
      PROVE  k - Len(s) \in S
  <2>1. k - Len(s) \in i .. Len(t) /\ k - Len(s) \in 1 .. Len(t) /\ (s \o t)[k] = x
        /\ k = Len(s) + (k - Len(s))
    BY <1>1 DEF Occurs
  <2>2. t[k - Len(s)] = x
    BY <1>1, <2>1
  <2> QED BY <2>1, <2>2 DEF Occurs
<1>4. ASSUME NEW k \in S
      PROVE  k + Len(s) \in T
  <2>1. k \in 1 .. Len(t) /\ k + Len(s) \in Len(s) + i .. Len(s) + Len(t) /\ t[k] = x
        /\ k + Len(s) = Len(s) + k
    BY <1>1 DEF Occurs
  <2> QED BY <1>1, <2>1 DEF Occurs
<1>5. S \in SUBSET Int /\ T \in SUBSET Int
  BY <1>1 DEF Occurs
<1> HIDE DEF S, T
<1>6. Cardinality(T) = Cardinality(S) /\ IsFiniteSet(T)
  <2>1. Len(s) \in Int /\ \A k \in T : k - Len(s) \in S
    BY <1>1, <1>3
  <2>2. \A k \in S : k + Len(s) \in T
    BY <1>4
  <2> QED BY <1>2, <1>5, <2>1, <2>2, Shifted
<1> QED BY <1>6 DEF Times, S, T

LEMMA TimesConcat ==
  ASSUME NEW X, NEW s \in Seq(X), NEW t \in Seq(X), NEW x, NEW i \in 1 .. Len(s) + 1
  PROVE  Times(s \o t, x, i) = Times(s, x, i) + Times(t, x, 1)
<1> DEFINE A == Occurs(s, x, i)
           m == Len(s) + 1
           B == Occurs(s \o t, x, m)
<1>1. /\ Len(s) \in Nat /\ Len(t) \in Nat /\ Len(s \o t) = Len(s) + Len(t)
      /\ \A k \in 1 .. Len(s) : (s \o t)[k] = s[k]
      /\ i \in Nat /\ m \in Nat /\ 1 \in 1 .. Len(t) + 1
  OBVIOUS
<1>2. Occurs(s \o t, x, i) = A \cup B /\ A \cap B = {}
  <2>1. \A k \in i .. Len(s) : k \in 1 .. Len(s) /\ (s \o t)[k] = s[k]
    BY <1>1
  <2>2. i .. Len(s \o t) = (i .. Len(s)) \cup (m .. Len(s \o t))
    BY <1>1
  <2>3. (i .. Len(s)) \cap (m .. Len(s \o t)) = {}
    BY <1>1
  <2> HIDE DEF m
  <2> QED BY <2>1, <2>2, <2>3 DEF Occurs
<1>3. Cardinality(B) = Times(t, x, 1) /\ IsFiniteSet(B)
  BY <1>1, TimesPast DEF Times
<1>4. IsFiniteSet(A) /\ Cardinality(A) \in Nat
  BY OccursFinite, <1>1 DEF Times
<1> HIDE DEF A, B
<1>5. Cardinality(A \cup B) = Cardinality(A) + Cardinality(B)
  BY <1>2, <1>3, <1>4, Disjoint
<1> QED BY <1>2, <1>3, <1>5 DEF Times, A

LEMMA Parts ==
  ASSUME NEW X, NEW s \in Seq(X), NEW u \in Seq(X), NEW v \in Seq(X), Len(s) = Len(u) + Len(v),
         \A k \in 1 .. Len(u) : u[k] = s[k], \A k \in 1 .. Len(v) : v[k] = s[Len(u) + k]
  PROVE  s = u \o v
<1> DEFINE w == u \o v
<1>1. /\ w \in Seq(X) /\ Len(w) = Len(u) + Len(v) /\ Len(u) \in Nat /\ Len(v) \in Nat
      /\ \A k \in 1 .. Len(u) : w[k] = u[k]
      /\ \A k \in 1 .. Len(v) : w[Len(u) + k] = v[k]
  <2>1. w \in Seq(X) /\ Len(w) = Len(u) + Len(v) /\ Len(u) \in Nat /\ Len(v) \in Nat
    OBVIOUS
  <2>2. \A k \in 1 .. Len(u) : w[k] = u[k]
    OBVIOUS
  <2>3. \A k \in 1 .. Len(v) : w[Len(u) + k] = v[k]
    OBVIOUS
  <2> QED BY <2>1, <2>2, <2>3
<1> HIDE DEF w
<1>2. ASSUME NEW k \in 1 .. Len(s)
      PROVE  w[k] = s[k]
  <2>1. CASE k \in 1 .. Len(u)
    BY <1>1, <2>1
  <2>2. CASE k \notin 1 .. Len(u)
    <3>1. k - Len(u) \in 1 .. Len(v) /\ Len(u) + (k - Len(u)) = k
      BY <1>1, <2>2
    <3>2. s[Len(u) + (k - Len(u))] = v[k - Len(u)] /\ w[Len(u) + (k - Len(u))] = v[k - Len(u)]
      BY <1>1, <3>1, Zenon
    <3> QED BY <3>1, <3>2
  <2> QED BY <2>1, <2>2
<1>3. w = s
  <2>1. \A r \in Seq(X) : r = [k \in 1 .. Len(r) |-> r[k]]
    OBVIOUS
  <2>2. w = [k \in 1 .. Len(w) |-> w[k]] /\ s = [k \in 1 .. Len(s) |-> s[k]] /\ Len(w) = Len(s)
    BY <1>1, <2>1, Zenon
  <2> QED BY <1>2, <2>2, Zenon
<1> QED BY <1>3 DEF w

(* A sequence is the part up to a place and the part after it. *)
LEMMA Split ==
  ASSUME NEW X, NEW s \in Seq(X), NEW n \in 0 .. Len(s)
  PROVE  /\ SubSeq(s, 1, n) \in Seq(X) /\ SubSeq(s, n + 1, Len(s)) \in Seq(X)
         /\ s = SubSeq(s, 1, n) \o SubSeq(s, n + 1, Len(s))
<1> DEFINE u == SubSeq(s, 1, n)
           v == SubSeq(s, n + 1, Len(s))
<1>1. /\ Len(s) = n + (Len(s) - n) /\ u \in Seq(X) /\ v \in Seq(X) /\ Len(u) = n /\ Len(v) = Len(s) - n
      /\ \A k \in 1 .. n : u[k] = s[k]
      /\ \A k \in 1 .. Len(s) - n : v[k] = s[n + k]
  OBVIOUS
<1> HIDE DEF u, v
<1>2. Len(s) = Len(u) + Len(v)
  BY <1>1
<1>3. s = u \o v
  <2>1. \A k \in 1 .. Len(u) : u[k] = s[k]
    BY <1>1
  <2>2. \A k \in 1 .. Len(v) : v[k] = s[Len(u) + k]
    BY <1>1
  <2> QED BY <1>1, <1>2, <2>1, <2>2, Parts, Zenon
<1>4. u \in Seq(X) /\ v \in Seq(X) /\ s = u \o v
  BY <1>1, <1>3
<1> QED BY <1>4 DEF u, v

LEMMA HeadTail ==
  ASSUME NEW X, NEW s \in Seq(X), s # <<>>
  PROVE  /\ Head(s) \in X /\ <<Head(s)>> \in Seq(X) /\ Tail(s) \in Seq(X) /\ s = <<Head(s)>> \o Tail(s)
         /\ Len(s) = Len(Tail(s)) + 1 /\ Len(Tail(s)) \in Nat
         /\ \A k \in 1 .. Len(Tail(s)) : Tail(s)[k] = s[k + 1]
<1> DEFINE u == <<Head(s)>>
           v == Tail(s)
<1>1. 1 \in 0 .. Len(s) /\ u = SubSeq(s, 1, 1) /\ v = SubSeq(s, 1 + 1, Len(s)) /\ Head(s) \in X
      /\ Len(s) = Len(v) + 1 /\ Len(v) \in Nat /\ \A k \in 1 .. Len(v) : v[k] = s[k + 1]
  OBVIOUS
<1> HIDE DEF u, v
<1>2. u \in Seq(X) /\ v \in Seq(X) /\ s = u \o v
  BY <1>1, Split
<1> QED BY <1>1, <1>2 DEF u, v

LEMMA TimesOne ==
  ASSUME NEW e, NEW x
  PROVE  Times(<<e>>, x, 1) = IF e = x THEN 1 ELSE 0
<1> DEFINE s == <<e>>
<1>1. s \in Seq({e}) /\ Len(s) = 1 /\ s[1] = e /\ 1 \in 1 .. Len(s) /\ Len(s) + 1 = 2 /\ 1 + 1 = 2
  OBVIOUS
<1> HIDE DEF s
<1>2. Times(s, x, 2) = 0
  BY <1>1, TimesEnd
<1>3. Times(s, x, 1) = Times(s, x, 1 + 1) + IF s[1] = x THEN 1 ELSE 0
  BY <1>1, TimesStep, Zenon
<1> QED BY <1>1, <1>2, <1>3 DEF s

LEMMA TimesTail ==
  ASSUME NEW X, NEW s \in Seq(X), s # <<>>, NEW x
  PROVE  Times(s, x, 1) = Times(Tail(s), x, 1) + IF Head(s) = x THEN 1 ELSE 0
<1> DEFINE u == <<Head(s)>>
           v == Tail(s)
<1>1. u \in Seq(X) /\ v \in Seq(X) /\ s = u \o v
  BY HeadTail
<1>2. Times(u, x, 1) = IF Head(s) = x THEN 1 ELSE 0
  BY TimesOne
<1>3. 1 \in 1 .. Len(u) + 1 /\ 1 \in Nat
  OBVIOUS
<1> HIDE DEF u, v
<1>4. Times(v, x, 1) \in Nat
  BY <1>1, <1>3, OccursFinite
<1>5. Times(u \o v, x, 1) = Times(u, x, 1) + Times(v, x, 1)
  BY <1>1, <1>3, TimesConcat
<1>6. Times(s, x, 1) = Times(u, x, 1) + Times(v, x, 1)
  BY <1>1, <1>5, Zenon
<1>7. Times(s, x, 1) = Times(v, x, 1) + IF Head(s) = x THEN 1 ELSE 0
  BY <1>2, <1>4, <1>6
<1> QED BY <1>7 DEF v

(* How often x occurs more than y, from place i on; and that this goes up  *)
(* and down by one, where b more are to follow.                            *)
Net(s, x, y, i) == Times(s, x, i) - Times(s, y, i)
Steady(s, x, y, b) == \A i \in 1 .. Len(s) + 1 : Net(s, x, y, i) + b \in {0, 1}

LEMMA NetType ==
  ASSUME NEW X, NEW s \in Seq(X), NEW x, NEW y
  PROVE  /\ \A i \in Nat : Net(s, x, y, i) \in Int
         /\ Net(s, x, y, 1) \in Int /\ Net(s, x, y, Len(s) + 1) = 0 /\ Len(s) \in Nat
<1>1. \A i \in Nat : Times(s, x, i) \in Nat /\ Times(s, y, i) \in Nat
  BY OccursFinite
<1>2. Times(s, x, Len(s) + 1) = 0 /\ Times(s, y, Len(s) + 1) = 0
  BY TimesEnd
<1>3. Len(s) \in Nat
  OBVIOUS
<1>4. \A i \in Nat : Net(s, x, y, i) \in Int
  BY <1>1 DEF Net
<1>5. Net(s, x, y, Len(s) + 1) = 0
  BY <1>2 DEF Net
<1> QED BY <1>3, <1>4, <1>5

LEMMA SteadyEnds ==
  ASSUME NEW X, NEW s \in Seq(X), NEW x, NEW y, NEW b \in Int, Steady(s, x, y, b)
  PROVE  b \in {0, 1} /\ Net(s, x, y, 1) + b \in {0, 1}
<1>1. Len(s) \in Nat /\ 1 \in 1 .. Len(s) + 1 /\ Len(s) + 1 \in 1 .. Len(s) + 1
  OBVIOUS
<1>2. Net(s, x, y, Len(s) + 1) = 0
  BY NetType
<1>3. Net(s, x, y, Len(s) + 1) + b \in {0, 1} /\ Net(s, x, y, 1) + b \in {0, 1}
  BY <1>1 DEF Steady
<1> QED BY <1>2, <1>3

LEMMA NetPast ==
  ASSUME NEW X, NEW s \in Seq(X), NEW t \in Seq(X), NEW x, NEW y,
         NEW i \in 1 .. Len(t) + 1, NEW j, j = Len(s) + i
  PROVE  Net(s \o t, x, y, j) = Net(t, x, y, i)
<1>1. Times(s \o t, x, j) = Times(t, x, i) /\ Times(s \o t, y, j) = Times(t, y, i)
  BY TimesPast
<1> QED BY <1>1 DEF Net

LEMMA NetConcat ==
  ASSUME NEW X, NEW s \in Seq(X), NEW t \in Seq(X), NEW x, NEW y, NEW i \in 1 .. Len(s) + 1
  PROVE  Net(s \o t, x, y, i) = Net(s, x, y, i) + Net(t, x, y, 1)
<1>1. i \in Nat /\ 1 \in Nat
  OBVIOUS
<1>2. /\ Times(s, x, i) \in Nat /\ Times(s, y, i) \in Nat
      /\ Times(t, x, 1) \in Nat /\ Times(t, y, 1) \in Nat
  BY <1>1, OccursFinite
<1>3. /\ Times(s \o t, x, i) = Times(s, x, i) + Times(t, x, 1)
      /\ Times(s \o t, y, i) = Times(s, y, i) + Times(t, y, 1)
  BY TimesConcat
<1> QED BY <1>2, <1>3 DEF Net

LEMMA NetFirst ==
  ASSUME NEW X, NEW s \in Seq(X), NEW t \in Seq(X), NEW x, NEW y
  PROVE  Net(s \o t, x, y, 1) = Net(s, x, y, 1) + Net(t, x, y, 1)
<1>1. 1 \in 1 .. Len(s) + 1
  <2>1. Len(s) \in Nat
    OBVIOUS
  <2> QED BY <2>1
<1> QED BY <1>1, NetConcat

LEMMA SteadyConcat ==
  ASSUME NEW X, NEW s \in Seq(X), NEW t \in Seq(X), NEW x, NEW y, NEW b \in Int
  PROVE  Steady(s \o t, x, y, b) <=> Steady(t, x, y, b) /\ Steady(s, x, y, Net(t, x, y, 1) + b)
<1>1. /\ Len(s) \in Nat /\ Len(t) \in Nat /\ Len(s \o t) = Len(s) + Len(t)
  OBVIOUS
<1>2. ASSUME NEW i \in 1 .. Len(s) + 1
      PROVE  Net(s \o t, x, y, i) + b = Net(s, x, y, i) + (Net(t, x, y, 1) + b)
  <2>1. i \in Nat
    OBVIOUS
  <2>2. Net(s, x, y, i) \in Int /\ Net(t, x, y, 1) \in Int
    BY <2>1, NetType
  <2>3. Net(s \o t, x, y, i) = Net(s, x, y, i) + Net(t, x, y, 1)
    BY NetConcat
  <2> QED BY <2>2, <2>3
<1>3. ASSUME Steady(t, x, y, b), Steady(s, x, y, Net(t, x, y, 1) + b), NEW i \in 1 .. Len(s \o t) + 1
      PROVE  Net(s \o t, x, y, i) + b \in {0, 1}
  <2>1. CASE i \in 1 .. Len(s) + 1
    BY <1>2, <1>3, <2>1 DEF Steady
  <2>2. CASE i \notin 1 .. Len(s) + 1
    <3>1. i - Len(s) \in 1 .. Len(t) + 1 /\ i = Len(s) + (i - Len(s))
      BY <1>1, <2>2
    <3>2. Net(s \o t, x, y, i) = Net(t, x, y, i - Len(s))
      BY <3>1, NetPast
    <3>3. Net(t, x, y, i - Len(s)) + b \in {0, 1}
      BY <1>3, <3>1 DEF Steady
    <3> QED BY <3>2, <3>3
  <2> QED BY <2>1, <2>2
<1>4. ASSUME Steady(s \o t, x, y, b)
      PROVE  Steady(t, x, y, b) /\ Steady(s, x, y, Net(t, x, y, 1) + b)
  <2>1. ASSUME NEW i \in 1 .. Len(t) + 1
        PROVE  Net(t, x, y, i) + b \in {0, 1}
    <3>1. Len(s) + i \in 1 .. Len(s \o t) + 1
      BY <1>1
    <3>2. Net(s \o t, x, y, Len(s) + i) = Net(t, x, y, i)
      BY NetPast
    <3> QED BY <1>4, <3>1, <3>2 DEF Steady
  <2>2. ASSUME NEW i \in 1 .. Len(s) + 1
        PROVE  Net(s, x, y, i) + (Net(t, x, y, 1) + b) \in {0, 1}
    <3>1. i \in 1 .. Len(s \o t) + 1
      BY <1>1
    <3> QED BY <1>2, <1>4, <3>1 DEF Steady
  <2> QED BY <2>1, <2>2 DEF Steady
<1> QED BY <1>3, <1>4 DEF Steady

(* Where neither occurs. *)
LEMMA NetZero ==
  ASSUME NEW X, NEW s \in Seq(X), NEW x, NEW y, \A k \in 1 .. Len(s) : s[k] \notin {x, y}
  PROVE  /\ Net(s, x, y, 1) = 0
         /\ \A b \in {0, 1} : Steady(s, x, y, b)
<1>1. ASSUME NEW i \in 1 .. Len(s) + 1
      PROVE  Net(s, x, y, i) = 0
  <2>1. i \in Nat /\ \A k \in i .. Len(s) : s[k] # x /\ s[k] # y
    OBVIOUS
  <2>2. Times(s, x, i) = 0 /\ Times(s, y, i) = 0
    BY <2>1, TimesNone
  <2> QED BY <2>2 DEF Net
<1>2. 1 \in 1 .. Len(s) + 1
  <2>1. Len(s) \in Nat
    OBVIOUS
  <2> QED BY <2>1
<1> QED BY <1>1, <1>2 DEF Steady

-----------------------------------------------------------------------------
(* Event flags.  What the calls of a kernel tell the pipes to do with them *)
(* takes turns: MTE2 sets SetFull and waits for WaitFree, MTE3 the other   *)
(* two, and each pipe has done the first of its two at most once more than *)
(* the second, at every place in the instructions that are left.           *)

SetFull == [op |-> "set", event |-> "MTE2_MTE3"]
WaitFull == [op |-> "wait", event |-> "MTE2_MTE3"]
SetFree == [op |-> "set", event |-> "MTE3_MTE2"]
WaitFree == [op |-> "wait", event |-> "MTE3_MTE2"]
Turning == {SetFull, WaitFull, SetFree, WaitFree}

Turns(s, b) == Steady(s, SetFull, WaitFree, b) /\ Steady(s, WaitFull, SetFree, b)
Paired(s) ==
  /\ Times(s, SetFull, 1) = Times(s, WaitFull, 1)
  /\ Times(s, SetFree, 1) = Times(s, WaitFree, 1)

Flagging == {"set", "wait"}
Proper(s) == s \in Seq(Range(s)) /\ \A x \in Range(s) : x.op \in Flagging => x \in Turning
Still(s) == Proper(s) /\ \A x \in Range(s) : x.op \notin Flagging
Undrained(s) == \A x \in Range(s) : x.op # "drain"
Drains(s) == \E x \in Range(s) : x.op = "drain"

(* After n, and before b, that have been done once more. *)
Passage(s, b, n) ==
  /\ Proper(s) /\ Turns(s, b) /\ Paired(s) /\ Undrained(s)
  /\ Net(s, SetFull, WaitFree, 1) = n /\ Net(s, WaitFull, SetFree, 1) = n

LEMMA FourFlags ==
  /\ SetFull # WaitFull /\ SetFull # SetFree /\ SetFull # WaitFree
  /\ WaitFull # SetFree /\ WaitFull # WaitFree /\ SetFree # WaitFree
  /\ \A i \in Turning : i.op \in Flagging
<1>1. /\ SetFull.op = "set" /\ WaitFull.op = "wait" /\ SetFree.op = "set" /\ WaitFree.op = "wait"
      /\ SetFull.event = "MTE2_MTE3" /\ WaitFull.event = "MTE2_MTE3"
      /\ SetFree.event = "MTE3_MTE2" /\ WaitFree.event = "MTE3_MTE2"
  BY DEF SetFull, WaitFull, SetFree, WaitFree
<1>2. "set" # "wait" /\ "MTE2_MTE3" # "MTE3_MTE2"
  OBVIOUS
<1> QED BY <1>1, <1>2 DEF Turning, Flagging

LEMMA BothProper ==
  ASSUME NEW s, NEW t, Proper(s), Proper(t)
  PROVE  \E X : /\ s \in Seq(X) /\ t \in Seq(X) /\ s \o t \in Seq(X) /\ Proper(s \o t)
                /\ X = Range(s) \cup Range(t) /\ Range(s \o t) = X
<1> DEFINE X == Range(s) \cup Range(t)
           w == s \o t
<1>1. s \in Seq(X) /\ t \in Seq(X) /\ X = Range(s) \cup Range(t)
  BY DEF Proper
<1>2. DOMAIN s = 1 .. Len(s) /\ DOMAIN t = 1 .. Len(t) /\ Len(s) \in Nat /\ Len(t) \in Nat
  BY <1>1
<1>3. \A x \in X : (\E k \in 1 .. Len(s) : s[k] = x) \/ (\E k \in 1 .. Len(t) : t[k] = x)
  BY <1>2 DEF Range
<1> HIDE DEF X
<1>4. /\ w \in Seq(X) /\ Len(w) = Len(s) + Len(t) /\ DOMAIN w = 1 .. Len(w)
      /\ \A k \in 1 .. Len(s) : w[k] = s[k]
      /\ \A k \in 1 .. Len(t) : w[Len(s) + k] = t[k]
  BY <1>1
<1> HIDE DEF w
<1>5. Proper(w) /\ Range(w) \subseteq X
  <2>1. \A x \in X : x.op \in Flagging => x \in Turning
    BY <1>1 DEF Proper
  <2> QED BY <1>4, <2>1, SeqRange DEF Proper
<1>6. ASSUME NEW x \in X
      PROVE  x \in Range(w)
  <2>1. ASSUME NEW k \in 1 .. Len(s), s[k] = x
        PROVE  x \in Range(w)
    <3>1. k \in DOMAIN w /\ w[k] = x
      BY <1>2, <1>4, <2>1
    <3> QED BY <3>1 DEF Range
  <2>2. ASSUME NEW k \in 1 .. Len(t), t[k] = x
        PROVE  x \in Range(w)
    <3>1. Len(s) + k \in DOMAIN w /\ w[Len(s) + k] = x
      BY <1>2, <1>4, <2>2
    <3> QED BY <3>1 DEF Range
  <2> QED BY <1>3, <2>1, <2>2
<1>7. Range(w) = X
  BY <1>5, <1>6
<1> QED BY <1>1, <1>4, <1>5, <1>7 DEF w

LEMMA StillType ==
  ASSUME NEW s, Still(s)
  PROVE  /\ \A b \in {0, 1} : Turns(s, b)
         /\ Paired(s) /\ Net(s, SetFull, WaitFree, 1) = 0 /\ Net(s, WaitFull, SetFree, 1) = 0
         /\ \A x \in Turning : Times(s, x, 1) = 0
<1>1. PICK X : X = Range(s) /\ s \in Seq(X)
  BY DEF Still, Proper
<1>2. DOMAIN s = 1 .. Len(s) /\ Len(s) \in Nat
  BY <1>1
<1>3. \A k \in 1 .. Len(s) : s[k] \notin Turning
  BY <1>2, FourFlags DEF Still, Range
<1>4. /\ Net(s, SetFull, WaitFree, 1) = 0 /\ Net(s, WaitFull, SetFree, 1) = 0
      /\ \A b \in {0, 1} : Steady(s, SetFull, WaitFree, b) /\ Steady(s, WaitFull, SetFree, b)
  <2>1. \A k \in 1 .. Len(s) : s[k] \notin {SetFull, WaitFree} /\ s[k] \notin {WaitFull, SetFree}
    BY <1>3 DEF Turning
  <2> QED BY <1>1, <2>1, NetZero
<1>5. ASSUME NEW x \in Turning
      PROVE  Times(s, x, 1) = 0
  <2>1. 1 \in Nat /\ \A k \in 1 .. Len(s) : s[k] # x
    BY <1>3
  <2> QED BY <1>1, <2>1, TimesNone
<1>6. Paired(s)
  BY <1>5 DEF Paired, Turning
<1> QED BY <1>4, <1>5, <1>6 DEF Turns

LEMMA PassageStill ==
  ASSUME NEW s, Still(s), Undrained(s), NEW b \in {0, 1}
  PROVE  Passage(s, b, 0)
BY StillType DEF Passage, Still

LEMMA PairedConcat ==
  ASSUME NEW s, NEW t, Proper(s), Proper(t), Paired(s), Paired(t)
  PROVE  Paired(s \o t)
<1>1. PICK X : s \in Seq(X) /\ t \in Seq(X)
  BY BothProper
<1>2. ASSUME NEW x
      PROVE  /\ Times(s \o t, x, 1) = Times(s, x, 1) + Times(t, x, 1)
  <2>1. 1 \in 1 .. Len(s) + 1
    <3>1. Len(s) \in Nat
      BY <1>1
    <3> QED BY <3>1
  <2> QED BY <1>1, <2>1, TimesConcat
<1> QED BY <1>2 DEF Paired

LEMMA TurnsConcat ==
  ASSUME NEW s, NEW t, Proper(s), Proper(t), NEW b \in Int, NEW m \in Int, Turns(t, b), Turns(s, b + m),
         Net(t, SetFull, WaitFree, 1) = m, Net(t, WaitFull, SetFree, 1) = m
  PROVE  Turns(s \o t, b)
<1>1. PICK X : s \in Seq(X) /\ t \in Seq(X)
  BY BothProper
<1>2. m + b = b + m
  OBVIOUS
<1>3. Steady(s, SetFull, WaitFree, m + b) /\ Steady(s, WaitFull, SetFree, m + b)
  BY <1>2 DEF Turns
<1>4. Steady(s \o t, SetFull, WaitFree, b)
  BY <1>1, <1>3, SteadyConcat DEF Turns
<1>5. Steady(s \o t, WaitFull, SetFree, b)
  BY <1>1, <1>3, SteadyConcat DEF Turns
<1> QED BY <1>4, <1>5 DEF Turns

LEMMA PassageConcat ==
  ASSUME NEW s, NEW t, NEW b \in Int, NEW m \in Int, NEW n \in Int,
         Passage(s, b + m, n), Passage(t, b, m)
  PROVE  Passage(s \o t, b, n + m)
<1>1. PICK X : /\ s \in Seq(X) /\ t \in Seq(X) /\ s \o t \in Seq(X) /\ Proper(s \o t)
               /\ X = Range(s) \cup Range(t) /\ Range(s \o t) = X
  BY BothProper DEF Passage
<1>2. Turns(s \o t, b) /\ Paired(s \o t)
  BY TurnsConcat, PairedConcat DEF Passage
<1>3. Undrained(s \o t)
  BY <1>1 DEF Passage, Undrained
<1>4. Net(s \o t, SetFull, WaitFree, 1) = n + m /\ Net(s \o t, WaitFull, SetFree, 1) = n + m
  BY <1>1, NetFirst DEF Passage
<1> QED BY <1>1, <1>2, <1>3, <1>4 DEF Passage
LEMMA StillOne ==
  ASSUME NEW i, i.op \notin Flagging
  PROVE  Still(<<i>>) /\ Range(<<i>>) = {i}
<1> DEFINE s == <<i>>
<1>1. s \in Seq({i}) /\ DOMAIN s = {1} /\ s[1] = i
  OBVIOUS
<1>2. Range(s) = {i}
  BY <1>1 DEF Range
<1> QED BY <1>1, <1>2 DEF Still, Proper

LEMMA StillNone == Still(<<>>) /\ Undrained(<<>>)
<1>1. <<>> \in Seq({}) /\ DOMAIN <<>> = {}
  OBVIOUS
<1>2. Range(<<>>) = {}
  BY <1>1 DEF Range
<1> QED BY <1>1, <1>2 DEF Still, Proper, Undrained

LEMMA StillConcat ==
  ASSUME NEW s, NEW t, Still(s), Still(t)
  PROVE  Still(s \o t)
<1>1. Proper(s \o t) /\ Range(s \o t) = Range(s) \cup Range(t)
  BY BothProper DEF Still
<1> QED BY <1>1 DEF Still

LEMMA StillFlat ==
  ASSUME NEW n \in Int, NEW s, DOMAIN s = 1 .. n, s = [k \in 1 .. n |-> s[k]],
         \A k \in 1 .. n : Still(s[k])
  PROVE  Still(FlattenSeq(s))
<1> DEFINE X == UNION {Range(s[k]) : k \in 1 .. n}
<1>1. s \in Seq(Seq(X))
  BY RangeFlat DEF Still, Proper
<1>2. \A x \in X : x.op \notin Flagging
  BY DEF Still
<1> HIDE DEF X
<1>3. FlattenSeq(s) \in Seq(X)
  BY <1>1, FlattenType
<1> QED BY <1>2, <1>3, SeqRange DEF Still, Proper

(* A flag is set by one pipe and waited for by the other. *)
LEMMA TwoTimes ==
  ASSUME NEW e, NEW f, NEW x, NEW s, s = <<e, f>>
  PROVE  /\ Times(s, x, 1) = (IF e = x THEN 1 ELSE 0) + (IF f = x THEN 1 ELSE 0)
         /\ Times(s, x, 2) = IF f = x THEN 1 ELSE 0
         /\ Times(s, x, 3) = 0
<1>1. s \in Seq({e, f}) /\ Len(s) = 2 /\ s[1] = e /\ s[2] = f /\ 1 \in 1 .. Len(s) /\ 2 \in 1 .. Len(s)
      /\ Len(s) + 1 = 3 /\ 1 + 1 = 2 /\ 2 + 1 = 3
  OBVIOUS
<1>2. Times(s, x, 3) = 0
  BY <1>1, TimesEnd
<1>3. \A i \in 1 .. Len(s) : Times(s, x, i) = Times(s, x, i + 1) + IF s[i] = x THEN 1 ELSE 0
  <2> DEFINE X == {e, f}
  <2>1. s \in Seq(X)
    BY <1>1
  <2> HIDE DEF X
  <2> SUFFICES ASSUME NEW i \in 1 .. Len(s)
               PROVE  Times(s, x, i) = Times(s, x, i + 1) + IF s[i] = x THEN 1 ELSE 0
    OBVIOUS
  <2> QED BY <2>1, TimesStep, Zenon
<1>4. /\ Times(s, x, 2) = Times(s, x, 2 + 1) + IF s[2] = x THEN 1 ELSE 0
      /\ Times(s, x, 1) = Times(s, x, 1 + 1) + IF s[1] = x THEN 1 ELSE 0
  BY <1>1, <1>3, Zenon
<1>5. Times(s, x, 2) = IF f = x THEN 1 ELSE 0
  BY <1>1, <1>2, <1>4
<1> QED BY <1>1, <1>2, <1>4, <1>5

LEMMA SyncPassage == Passage(Sync("MTE2_MTE3"), 0, 1) /\ Passage(Sync("MTE3_MTE2"), 1, -1)
<1>1. ASSUME NEW e, NEW f, NEW s, s = <<e, f>>, e.op # "drain", f.op # "drain",
             e \in Turning, f \in Turning
      PROVE  Proper(s) /\ Undrained(s) /\ Len(s) = 2
  <2>1. s \in Seq({e, f}) /\ Len(s) = 2
    BY <1>1
  <2>2. s \in Seq(Range(s)) /\ Range(s) \subseteq {e, f}
    BY <2>1, SeqRange
  <2>3. Proper(s)
    BY <1>1, <2>2 DEF Proper
  <2> QED BY <1>1, <2>1, <2>2, <2>3 DEF Undrained
<1>2. \A x \in Turning : x.op # "drain"
  BY DEF Turning, SetFull, WaitFull, SetFree, WaitFree
<1>3. Sync("MTE2_MTE3") = <<SetFull, WaitFull>> /\ Sync("MTE3_MTE2") = <<SetFree, WaitFree>>
  BY DEF Sync, SetFull, WaitFull, SetFree, WaitFree
<1>4. PICK s : s = <<SetFull, WaitFull>>
  OBVIOUS
<1>5. PICK t : t = <<SetFree, WaitFree>>
  OBVIOUS
<1>6. Passage(s, 0, 1)
  <2>1. Proper(s) /\ Undrained(s) /\ Len(s) = 2
    BY <1>1, <1>2, <1>4 DEF Turning
  <2>2. /\ Times(s, SetFull, 1) = 1 /\ Times(s, SetFull, 2) = 0 /\ Times(s, SetFull, 3) = 0
        /\ Times(s, WaitFull, 1) = 1 /\ Times(s, WaitFull, 2) = 1 /\ Times(s, WaitFull, 3) = 0
        /\ Times(s, SetFree, 1) = 0 /\ Times(s, SetFree, 2) = 0 /\ Times(s, SetFree, 3) = 0
        /\ Times(s, WaitFree, 1) = 0 /\ Times(s, WaitFree, 2) = 0 /\ Times(s, WaitFree, 3) = 0
    BY <1>4, TwoTimes, FourFlags
  <2>3. \A i \in 1 .. 3 : i = 1 \/ i = 2 \/ i = 3
    OBVIOUS
  <2>4. Turns(s, 0)
    BY <2>1, <2>2, <2>3 DEF Turns, Steady, Net
  <2> QED BY <2>1, <2>2, <2>4 DEF Passage, Paired, Net
<1>7. Passage(t, 1, -1)
  <2>1. Proper(t) /\ Undrained(t) /\ Len(t) = 2
    BY <1>1, <1>2, <1>5 DEF Turning
  <2>2. /\ Times(t, SetFull, 1) = 0 /\ Times(t, SetFull, 2) = 0 /\ Times(t, SetFull, 3) = 0
        /\ Times(t, WaitFull, 1) = 0 /\ Times(t, WaitFull, 2) = 0 /\ Times(t, WaitFull, 3) = 0
        /\ Times(t, SetFree, 1) = 1 /\ Times(t, SetFree, 2) = 0 /\ Times(t, SetFree, 3) = 0
        /\ Times(t, WaitFree, 1) = 1 /\ Times(t, WaitFree, 2) = 1 /\ Times(t, WaitFree, 3) = 0
    BY <1>5, TwoTimes, FourFlags
  <2>3. \A i \in 1 .. 3 : i = 1 \/ i = 2 \/ i = 3
    OBVIOUS
  <2>4. Turns(t, 1)
    BY <2>1, <2>2, <2>3 DEF Turns, Steady, Net
  <2> QED BY <2>1, <2>2, <2>4 DEF Passage, Paired, Net
<1> QED BY <1>3, <1>4, <1>5, <1>6, <1>7

LEMMA CopyPassage ==
  ASSUME NEW op \in {"load", "store"}, NEW src, NEW dst, NEW rows, NEW len, NEW sp, NEW dp, NEW b \in {0, 1}
  PROVE  Passage(<<Copy(op, src, dst, rows, len, sp, dp)>>, b, 0) /\ Still(<<Copy(op, src, dst, rows, len, sp, dp)>>)
<1> DEFINE i == Copy(op, src, dst, rows, len, sp, dp)
<1>1. i.op = op
  BY DEF Copy
<1> HIDE DEF i
<1>2. Still(<<i>>) /\ Undrained(<<i>>)
  BY <1>1, StillOne DEF Undrained, Flagging
<1>3. Passage(<<i>>, b, 0)
  BY <1>2, PassageStill
<1> QED BY <1>2, <1>3 DEF i

(* In, over to the other pipe, and out. *)
LEMMA InOutPassage ==
  ASSUME NEW in, NEW out, Passage(in, 1, 0), Passage(out, 0, 0)
  PROVE  Passage(in \o Sync("MTE2_MTE3") \o out, 0, 1)
<1>1. Passage(in, 0 + 1, 0) /\ 0 \in Int /\ 1 \in Int /\ 0 + 1 = 1
  OBVIOUS
<1>2. Passage(in \o Sync("MTE2_MTE3"), 0, 0 + 1)
  BY <1>1, SyncPassage, PassageConcat, Zenon
<1>3. Passage(in \o Sync("MTE2_MTE3"), 0 + 0, 1) /\ 1 + 0 = 1
  BY <1>2
<1>4. Passage(in \o Sync("MTE2_MTE3") \o out, 0, 1 + 0)
  BY <1>1, <1>3, PassageConcat, Zenon
<1> QED BY <1>4

LEMMA ThroughPassage ==
  ASSUME NEW from, NEW to, NEW buf, NEW len
  PROVE  Passage(Through(from, to, buf, len), 0, 1)
<1>1. \A gm, rows, l, sg, dg : /\ Passage(shmemi_copy_gm2ub(buf, gm, rows, l, sg, dg), 1, 0)
                               /\ Passage(shmemi_copy_ub2gm(gm, buf, rows, l, sg, dg), 0, 0)
  BY CopyPassage DEF shmemi_copy_gm2ub, shmemi_copy_ub2gm
<1> QED BY <1>1, InOutPassage, Zenon DEF Through

LEMMA StridedPassage ==
  ASSUME NEW from, NEW to, NEW buf, NEW c
  PROVE  Passage(Strided(from, to, buf, c), 0, 1)
<1>1. \A gm, rows, l, sg, dg : /\ Passage(shmemi_copy_gm2ub(buf, gm, rows, l, sg, dg), 1, 0)
                               /\ Passage(shmemi_copy_ub2gm(gm, buf, rows, l, sg, dg), 0, 0)
  BY CopyPassage DEF shmemi_copy_gm2ub, shmemi_copy_ub2gm
<1> QED BY <1>1, InOutPassage, Zenon DEF Strided
Passes(s) == Passage(s, 0, 0) \/ Passage(s, 0, 1)

(* One block after the other: before all but the last the buffer is free. *)
LEMMA BlockPassage ==
  ASSUME NEW through, Passage(through, 0, 1)
  PROVE  Passage(through \o Sync("MTE3_MTE2"), 1, 0) /\ Passage(through \o <<>>, 0, 1)
<1>1. Passage(through, 1 + (-1), 1) /\ Passage(through, 0 + 0, 1) /\ 0 \in Int /\ 1 \in Int /\ -1 \in Int
      /\ 1 + (-1) = 0 /\ 1 + 0 = 1 /\ 0 \in {0, 1}
  OBVIOUS
<1>2. Passage(<<>>, 0, 0)
  BY <1>1, StillNone, PassageStill, Zenon
<1>3. Passage(through \o Sync("MTE3_MTE2"), 1, 1 + (-1))
  BY <1>1, SyncPassage, PassageConcat, Zenon
<1>4. Passage(through \o <<>>, 0, 1 + 0)
  BY <1>1, <1>2, PassageConcat, Zenon
<1> QED BY <1>1, <1>3, <1>4

LEMMA BlockwisePasses ==
  ASSUME NEW from, NEW to, NEW buf, NEW bytes \in Nat, NEW block \in Nat, 0 < block
  PROVE  Passes(Blockwise(from, to, buf, bytes, block))
<1> DEFINE repeat == bytes \div block
           loops == repeat + IF bytes % block > 0 THEN 1 ELSE 0
           chunk(i) == IF i < repeat THEN block ELSE bytes % block
           through(k) == Through(Plus(from, (k - 1) * block), Plus(to, (k - 1) * block), buf, chunk(k - 1))
           part(k) == through(k) \o ChunkSync(k - 1, repeat, loops)
           s == [k \in 1 .. loops |-> part(k)]
<1>1. repeat \in Int /\ loops \in Int /\ loops <= repeat + 1
  <2>1. repeat \in Int
    BY Division
  <2> HIDE DEF repeat
  <2> QED BY <2>1
<1>2. \A k : Passage(through(k), 0, 1)
  BY ThroughPassage
<1> HIDE DEF through
<1>3. ASSUME NEW k \in 1 .. loops, k < loops
      PROVE  Passage(part(k), 1, 0)
  <2>1. ChunkSync(k - 1, repeat, loops) = Sync("MTE3_MTE2")
    <3> HIDE DEF repeat, loops
    <3>1. k - 1 < repeat /\ k - 1 # loops - 1
      BY <1>1, <1>3
    <3> QED BY <3>1 DEF ChunkSync
  <2> HIDE DEF repeat, loops
  <2> QED BY <1>2, <2>1, BlockPassage
<1>4. Passage(part(loops), 0, 1)
  <2>1. ChunkSync(loops - 1, repeat, loops) = <<>>
    BY DEF ChunkSync
  <2> HIDE DEF repeat, loops
  <2> QED BY <1>2, <2>1, BlockPassage
<1> HIDE DEF loops, part
<1>5. DOMAIN s = 1 .. loops /\ s = [k \in 1 .. loops |-> s[k]] /\ \A k \in 1 .. loops : s[k] = part(k)
  OBVIOUS
<1>6. Passes(FlattenSeq(s))
  <2>1. CASE loops < 1
    <3>1. 1 .. loops = 1 .. 0
      BY <1>1, <2>1
    <3>2. s = <<>>
      BY <3>1
    <3>3. FlattenSeq(s) = s
      BY <3>2 DEF FlattenSeq
    <3>4. Passage(<<>>, 0, 0)
      BY StillNone, PassageStill
    <3> QED BY <3>2, <3>3, <3>4, Zenon DEF Passes
  <2>2. CASE ~ (loops < 1)
    <3> HIDE DEF s
    <3> DEFINE X == UNION {Range(s[k]) : k \in 1 .. loops}
               A == {u \in Seq(X) : Passage(u, 1, 0)}
               B == {u \in Seq(X) : Passage(u, 0, 1)}
    <3>1. \A k \in 1 .. loops : (k < loops => Passage(s[k], 1, 0)) /\ (k = loops => Passage(s[k], 0, 1))
      BY <1>3, <1>4, <1>5, Zenon
    <3>2. \A k \in 1 .. loops : k < loops \/ k = loops
      BY <1>1
    <3>3. \A k \in 1 .. loops : s[k] \in Seq(Range(s[k]))
      BY <3>1, <3>2, Zenon DEF Passage, Proper
    <3>4. s \in Seq(Seq(X))
      BY <1>1, <1>5, <3>3, RangeFlat, Zenon
    <3> HIDE DEF X
    <3>5. Len(s) = loops /\ s # <<>> /\ \A k \in 1 .. loops : s[k] \in Seq(X)
      BY <1>1, <1>5, <2>2, <3>4
    <3>6. \A k \in 1 .. Len(s) - 1 : s[k] \in A
      BY <1>1, <3>1, <3>5
    <3>7. s[Len(s)] \in B
      BY <1>1, <2>2, <3>1, <3>5
    <3>8. 0 + 1 = 1 /\ 1 + 0 = 1 /\ 0 + 0 = 0 /\ 0 \in Int /\ 1 \in Int
      OBVIOUS
    <3>9. \A u, v \in A : u \o v \in A
      <4> TAKE u, v \in A
      <4>1. u \o v \in Seq(X)
        OBVIOUS
      <4>2. Passage(u, 1 + 0, 0) /\ Passage(v, 1, 0)
        BY <3>8
      <4>3. Passage(u \o v, 1, 0 + 0)
        BY <3>8, <4>2, PassageConcat, Zenon
      <4> QED BY <3>8, <4>1, <4>3
    <3>10. \A u \in A, v \in B : u \o v \in B
      <4> TAKE u \in A, v \in B
      <4>1. u \o v \in Seq(X)
        OBVIOUS
      <4>2. Passage(u, 0 + 1, 0) /\ Passage(v, 0, 1)
        BY <3>8
      <4>3. Passage(u \o v, 0, 0 + 1)
        BY <3>8, <4>2, PassageConcat, Zenon
      <4> QED BY <3>8, <4>1, <4>3
    <3>11. A \in SUBSET Seq(X) /\ B \in SUBSET Seq(X)
      OBVIOUS
    <3> HIDE DEF A, B
    <3>12. FlattenSeq(s) \in B
      BY <3>4, <3>5, <3>6, <3>7, <3>9, <3>10, <3>11, FlattenEnds
    <3> QED BY <3>12 DEF B, Passes
  <2> QED BY <2>1, <2>2
<1>7. FlattenSeq(s) = Blockwise(from, to, buf, bytes, block)
  BY DEF Blockwise, loops, part, through
<1> QED BY <1>6, <1>7

(* What a call is made of: copies by MTE, and what has nothing to do with  *)
(* event flags, after a drain if there is one.                             *)
DrainsLast(s) ==
  \A i, j \in 1 .. Len(s) : i < j /\ s[i].op = "drain" => s[j] \notin Turning
Complete(s) == Proper(s) /\ Turns(s, 0) /\ Paired(s) /\ DrainsLast(s)

LEMMA PassesComplete ==
  ASSUME NEW s, Passes(s)
  PROVE  Complete(s)
<1>1. Proper(s) /\ Turns(s, 0) /\ Paired(s) /\ Undrained(s)
  BY DEF Passes, Passage
<1>2. \A i \in 1 .. Len(s) : s[i].op # "drain"
  <2>1. DOMAIN s = 1 .. Len(s)
    BY <1>1 DEF Proper
  <2> QED BY <1>1, <2>1 DEF Undrained, Range
<1> QED BY <1>1, <1>2 DEF Complete, DrainsLast

LEMMA StillComplete ==
  ASSUME NEW s, Still(s)
  PROVE  Complete(s)
<1>1. Turns(s, 0) /\ Paired(s) /\ Proper(s)
  BY StillType DEF Still
<1>2. \A i \in 1 .. Len(s) : s[i] \notin Turning
  <2>1. DOMAIN s = 1 .. Len(s)
    BY <1>1 DEF Proper
  <2> QED BY <2>1, FourFlags DEF Still, Range
<1> QED BY <1>1, <1>2 DEF Complete, DrainsLast

LEMMA CompleteStill ==
  ASSUME NEW s, NEW t, Complete(s), Still(t)
  PROVE  Complete(s \o t)
<1>1. PICK X : /\ s \in Seq(X) /\ t \in Seq(X) /\ s \o t \in Seq(X) /\ Proper(s \o t)
  BY BothProper DEF Complete, Still
<1>2. Turns(t, 0) /\ Paired(t) /\ Proper(t) /\ Net(t, SetFull, WaitFree, 1) = 0 /\ Net(t, WaitFull, SetFree, 1) = 0
  BY StillType DEF Still
<1>3. Paired(s \o t)
  BY <1>2, PairedConcat DEF Complete
<1>4. Turns(s \o t, 0)
  <2>1. Turns(s, 0 + 0) /\ 0 \in Int
    BY DEF Complete
  <2> QED BY <1>2, <2>1, TurnsConcat DEF Complete
<1>5. DrainsLast(s \o t)
  <2> DEFINE w == s \o t
  <2>1. \A k \in 1 .. Len(t) : t[k] \notin Turning
    <3>1. DOMAIN t = 1 .. Len(t)
      BY <1>1
    <3> QED BY <3>1, FourFlags DEF Still, Range
  <2>2. /\ Len(w) = Len(s) + Len(t) /\ Len(s) \in Nat /\ Len(t) \in Nat
        /\ \A k \in 1 .. Len(s) : w[k] = s[k]
        /\ \A k \in 1 .. Len(t) : w[Len(s) + k] = t[k]
    BY <1>1
  <2> HIDE DEF w
  <2>3. ASSUME NEW i \in 1 .. Len(w), NEW j \in 1 .. Len(w), i < j, w[i].op = "drain"
        PROVE  w[j] \notin Turning
    <3>1. CASE j \in 1 .. Len(s)
      <4>1. i \in 1 .. Len(s)
        BY <2>2, <2>3, <3>1
      <4> QED BY <2>2, <2>3, <3>1, <4>1 DEF Complete, DrainsLast
    <3>2. CASE j \notin 1 .. Len(s)
      <4>1. j - Len(s) \in 1 .. Len(t) /\ Len(s) + (j - Len(s)) = j
        BY <2>2, <3>2
      <4>2. w[Len(s) + (j - Len(s))] = t[j - Len(s)]
        BY <2>2, <4>1, Zenon
      <4> QED BY <2>1, <4>1, <4>2
    <3> QED BY <3>1, <3>2
  <2>4. DrainsLast(w)
    BY <2>3 DEF DrainsLast
  <2> QED BY <2>4 DEF w
<1> QED BY <1>1, <1>3, <1>4, <1>5 DEF Complete

LEMMA DrainsConcat ==
  ASSUME NEW s, NEW t, Proper(s), Proper(t), Drains(s) \/ Drains(t)
  PROVE  Drains(s \o t)
<1>1. Range(s \o t) = Range(s) \cup Range(t)
  BY BothProper
<1> QED BY <1>1 DEF Drains
LEMMA MtePasses ==
  ASSUME NEW p, NEW c, c.n \in Nat, c.sz \in Nat \ {0}, NEW buf, NEW size \in Nat, c.sz <= size
  PROVE  Passes(shmem_mte_get(p, c, buf, size)) /\ Passes(shmem_mte_put(p, c, buf, size))
<1>1. c.n * c.sz \in Nat
  BY Associate
<1>2. Whole(size, c) \in Nat /\ 0 < Whole(size, c)
  BY WholeType
<1>3. Passes(shmem_mte_get(p, c, buf, size))
  BY <1>1, <1>2, BlockwisePasses DEF shmem_mte_get
<1>4. Passes(shmem_mte_put(p, c, buf, size))
  BY <1>1, <1>2, BlockwisePasses DEF shmem_mte_put
<1> QED BY <1>3, <1>4

LEMMA DetailedPasses ==
  ASSUME NEW p, NEW c, NEW buf
  PROVE  Passes(shmem_mte_get_detailed(p, c, buf)) /\ Passes(shmem_mte_put_detailed(p, c, buf))
BY StridedPassage DEF Passes, shmem_mte_get_detailed, shmem_mte_put_detailed

LEMMA UbStill ==
  ASSUME NEW p, NEW c
  PROVE  /\ Still(shmem_mte_get_ub(p, c)) /\ Still(shmem_mte_get_ub_detailed(p, c))
         /\ Still(shmem_mte_put_ub(p, c)) /\ Still(shmem_mte_put_ub_detailed(p, c))
<1>1. \A gm, ub, rows, l, sg, dg : /\ Still(shmemi_copy_gm2ub(ub, gm, rows, l, sg, dg))
                                   /\ Still(shmemi_copy_ub2gm(gm, ub, rows, l, sg, dg))
  BY CopyPassage DEF shmemi_copy_gm2ub, shmemi_copy_ub2gm
<1>2. \A a, num, s : Still(s) => Still(Inside(a, num, c, s))
  BY StillNone DEF Inside
<1> QED BY <1>1, <1>2, Zenon DEF shmem_mte_get_ub, shmem_mte_get_ub_detailed, shmem_mte_put_ub,
          shmem_mte_put_ub_detailed

LEMMA PostStill ==
  ASSUME NEW p, NEW c
  PROVE  Still(shmem_roce_get(p, c)) /\ Still(shmem_roce_put(p, c))
<1>1. \A src, dst, len : Copy("post", src, dst, 1, len, len, len).op \notin Flagging
  BY DEF Copy, Flagging
<1> QED BY <1>1, StillOne DEF shmem_roce_get, shmem_roce_put, Post

LEMMA QuietStill == Still(shmemi_quiet) /\ Drains(shmemi_quiet) /\ Still(shmemi_roce_quiet)
<1> DEFINE i == [op |-> "drain"]
           j == [op |-> "roce_quiet"]
<1>1. i.op = "drain" /\ j.op = "roce_quiet"
  OBVIOUS
<1>2. shmemi_quiet = <<i>> /\ shmemi_roce_quiet = <<j>>
  BY DEF shmemi_quiet, shmemi_roce_quiet
<1> HIDE DEF i, j
<1>3. Still(<<i>>) /\ Still(<<j>>) /\ Range(<<i>>) = {i}
  BY <1>1, StillOne DEF Flagging
<1> QED BY <1>1, <1>2, <1>3 DEF Drains

LEMMA WordStill ==
  ASSUME NEW x, NEW val
  PROVE  /\ Still(Word("set_word", x, val)) /\ Still(Word("add_word", x, val))
         /\ \A cmp : /\ Still(Look("spin", x, cmp, val)) /\ Still(Look("fetch", x, cmp, val))
                     /\ Still(Look("test", x, cmp, val))
<1>1. \A op : op \notin Flagging =>
        /\ Still(<<[op |-> op, dst |-> x, val |-> val]>>)
        /\ \A cmp : Still(<<[op |-> op, src |-> x, cmp |-> cmp, val |-> val]>>)
  BY StillOne
<1>2. \A op : op \notin Flagging =>
        Still(Word(op, x, val)) /\ \A cmp : Still(Look(op, x, cmp, val))
  BY <1>1, Zenon DEF Word, Look
<1> QED BY <1>2 DEF Flagging

LEMMA SignalStill ==
  ASSUME NEW c
  PROVE  Still(shmemix_signal_op(c))
<1>1. CASE c.sigop = "set"
  BY <1>1, WordStill DEF shmemix_signal_op, shmemi_signal_set
<1>2. CASE c.sigop = "add"
  BY <1>2, WordStill DEF shmemix_signal_op, shmemi_signal_add
<1>3. CASE c.sigop \notin {"set", "add"}
  BY <1>3, StillNone DEF shmemix_signal_op
<1> QED BY <1>1, <1>2, <1>3

LEMMA WaitStill ==
  ASSUME NEW p, NEW c
  PROVE  /\ Still(shmemi_signal_wait_until(p, c)) /\ Still(shmemi_wait_until(p, c))
         /\ Still(shmemi_signal_fetch(p, c)) /\ Still(shmemi_test(p, c))
BY WordStill, StillNone DEF shmemi_signal_wait_until, shmemi_wait_until, shmemi_signal_fetch, shmemi_test

LEMMA EachStill ==
  ASSUME NEW p, NEW c, c.n \in Nat
  PROVE  Still(shmemi_wait_until_all(p, c)) /\ Still(shmemi_test_all(p, c))
<1>1. Still(shmemi_wait_until_all(p, c))
  <2> DEFINE s == [k \in 1 .. c.n |-> IF k - 1 \in c.skip THEN <<>>
                     ELSE shmemi_wait_until(p, [c EXCEPT !.sig = @ + (k - 1) * c.sz])]
  <2>1. DOMAIN s = 1 .. c.n /\ s = [k \in 1 .. c.n |-> s[k]] /\ \A k \in 1 .. c.n : Still(s[k])
    BY WaitStill, StillNone
  <2>2. shmemi_wait_until_all(p, c) = FlattenSeq(s)
    BY DEF shmemi_wait_until_all, Each
  <2>3. c.n \in Int
    OBVIOUS
  <2> HIDE DEF s
  <2>4. Still(FlattenSeq(s))
    BY <2>1, <2>3, StillFlat, Zenon
  <2> QED BY <2>2, <2>4
<1>2. Still(shmemi_test_all(p, c))
  <2> DEFINE s == [k \in 1 .. c.n |-> IF k - 1 \in c.skip THEN <<>>
                     ELSE shmemi_test(p, [c EXCEPT !.sig = @ + (k - 1) * c.sz])]
  <2>1. DOMAIN s = 1 .. c.n /\ s = [k \in 1 .. c.n |-> s[k]] /\ \A k \in 1 .. c.n : Still(s[k])
    BY WaitStill, StillNone
  <2>2. shmemi_test_all(p, c) = FlattenSeq(s)
    BY DEF shmemi_test_all, Each
  <2>3. c.n \in Int
    OBVIOUS
  <2> HIDE DEF s
  <2>4. Still(FlattenSeq(s))
    BY <2>1, <2>3, StillFlat, Zenon
  <2> QED BY <2>2, <2>4
<1> QED BY <1>1, <1>2

(* The blocking forms drain the pipes, the ones with a signal before it. *)
LEMMA DrainedComplete ==
  ASSUME NEW c, NEW s, Complete(s)
  PROVE  /\ Complete(s \o shmemi_quiet) /\ Drains(s \o shmemi_quiet)
         /\ Complete(Signalled(c, s)) /\ Drains(Signalled(c, s))
<1>1. Complete(s \o shmemi_quiet)
  BY QuietStill, CompleteStill
<1>2. Drains(s \o shmemi_quiet)
  BY QuietStill, DrainsConcat DEF Complete, Still
<1>3. Complete(Signalled(c, s))
  BY <1>1, SignalStill, CompleteStill, Zenon DEF Signalled
<1>4. Proper(s \o shmemi_quiet) /\ Proper(shmemix_signal_op(c))
  BY <1>1, SignalStill DEF Complete, Still
<1>5. Drains(Signalled(c, s))
  BY <1>2, <1>4, DrainsConcat, Zenon DEF Signalled
<1> QED BY <1>1, <1>2, <1>3, <1>5

(* What the instructions of a call are to the event flags. *)
Apt(p, c, s) ==
  /\ Complete(s)
  /\ ~ Buffered(p, c) => Still(s)
  /\ c.api \in Draining => Drains(s)

LEMMA RoutedApt ==
  ASSUME NEW p \in PE, NEW c \in DeviceCalls(p), c.api \in Routed,
         config[p].ub_size \in BufferSizes(p),
         \A q \in PE : "mte" \in host[p].dev.topo[q] <=> HostOf[q] = HostOf[p]
  PROVE  Apt(p, c, Code(p, c))
<1>1. /\ c.pe \in PE /\ c.n \in Nat /\ c.sz \in Nat \ {0}
      /\ config[p].ub_size \in Nat /\ c.sz <= config[p].ub_size
  BY ProgramAssumption DEF Routed, Rooms
<1>2. c.api \notin Draining /\ (Buffered(p, c) <=> HostOf[c.pe] = HostOf[p])
  BY DEF Routed, Draining, Buffered
<1>3. ASSUME NEW mte, NEW roce, Passes(mte), Still(roce)
      PROVE  Apt(p, c, ByTopo(p, c, mte, roce))
  BY <1>1, <1>2, <1>3, PassesComplete, StillComplete, StillNone DEF ByTopo, Apt
<1>4. /\ Still(shmem_roce_get(p, c)) /\ Still(shmem_roce_put(p, c))
      /\ \A buf : /\ Passes(shmem_mte_get(p, c, buf, config[p].ub_size))
                  /\ Passes(shmem_mte_put(p, c, buf, config[p].ub_size))
  BY <1>1, MtePasses, PostStill
<1>5. CASE c.api = "get_mem_nbi"
  BY <1>3, <1>4, <1>5 DEF Code, shmem_get_mem_nbi, CopySize
<1>6. CASE c.api = "get_mem_tensor_nbi"
  BY <1>3, <1>4, <1>6 DEF Code, shmem_get_mem_tensor_nbi, CopySize, shmem_mte_get_tensor, shmem_roce_get_tensor, Tensor
<1>7. CASE c.api = "put_mem_nbi"
  BY <1>3, <1>4, <1>7 DEF Code, shmem_put_mem_nbi, CopySize
<1>8. CASE c.api = "put_mem_tensor_nbi"
  BY <1>3, <1>4, <1>8 DEF Code, shmem_put_mem_tensor_nbi, CopySize, shmem_mte_put_tensor, shmem_roce_put_tensor, Tensor
<1> QED BY <1>5, <1>6, <1>7, <1>8 DEF Routed

LEMMA UnroutedApt ==
  ASSUME NEW p \in PE, NEW c \in DeviceCalls(p), c.api \in Unrouted,
         config[p].ub_size \in BufferSizes(p)
  PROVE  Apt(p, c, Code(p, c))
<1> DEFINE size == IF c.api \in {"put_mem_signal_tensor", "put_mem_signal_tensor_nbi"} THEN c.stale
                   ELSE config[p].ub_size
<1>1. c.n \in Nat /\ c.sz \in Nat \ {0} /\ size \in Nat /\ c.sz <= size
  BY ProgramAssumption DEF Rooms
<1> HIDE DEF size
<1>2. Buffered(p, c) /\ (c.api \in Draining => c.api \notin {"getmem_nbi", "putmem_nbi"})
  BY DEF Unrouted, Routed, Buffered, Draining
<1>3. \A buf : Complete(shmem_mte_get(p, c, buf, size)) /\ Complete(shmem_mte_put(p, c, buf, size))
  BY <1>1, MtePasses, PassesComplete
<1>4. \A s : Complete(s) => Apt(p, c, s \o shmemi_quiet) /\ Apt(p, c, Signalled(c, s))
  BY <1>2, DrainedComplete, Zenon DEF Apt
<1>5. c.api \in {"getmem_nbi", "putmem_nbi"} => \A s : Complete(s) => Apt(p, c, s)
  BY <1>2 DEF Apt
<1>6. CASE c.api = "getmem"
  BY <1>3, <1>4, <1>6 DEF Code, shmem_getmem, size, CopySize
<1>7. CASE c.api = "get_mem"
  BY <1>3, <1>4, <1>7 DEF Code, shmem_get_mem, size, CopySize
<1>8. CASE c.api = "putmem"
  BY <1>3, <1>4, <1>8 DEF Code, shmem_putmem, size, CopySize
<1>9. CASE c.api = "put_mem"
  BY <1>3, <1>4, <1>9 DEF Code, shmem_put_mem, size, CopySize
<1>10. CASE c.api = "getmem_nbi"
  BY <1>3, <1>5, <1>10 DEF Code, shmem_getmem_nbi, size, CopySize
<1>11. CASE c.api = "putmem_nbi"
  BY <1>3, <1>5, <1>11 DEF Code, shmem_putmem_nbi, size, CopySize
<1>12. CASE c.api = "putmem_signal"
  BY <1>3, <1>4, <1>12 DEF Code, shmem_putmem_signal, size, CopySize
<1>13. CASE c.api = "put_mem_signal"
  BY <1>3, <1>4, <1>13 DEF Code, shmem_put_mem_signal, size, CopySize
<1>14. CASE c.api = "put_mem_signal_tensor"
  BY <1>3, <1>4, <1>14 DEF Code, shmem_put_mem_signal_tensor, size, shmem_mte_put_tensor, Unset
<1>15. CASE c.api = "putmem_signal_nbi"
  BY <1>3, <1>4, <1>15 DEF Code, shmem_putmem_signal_nbi, size, CopySize
<1>16. CASE c.api = "put_mem_signal_nbi"
  BY <1>3, <1>4, <1>16 DEF Code, shmem_put_mem_signal_nbi, size, CopySize
<1>17. CASE c.api = "put_mem_signal_tensor_nbi"
  BY <1>3, <1>4, <1>17 DEF Code, shmem_put_mem_signal_tensor_nbi, size, shmem_mte_put_tensor, Unset
<1> QED BY <1>6, <1>7, <1>8, <1>9, <1>10, <1>11, <1>12, <1>13, <1>14, <1>15, <1>16, <1>17 DEF Unrouted

LEMMA DirectApt ==
  ASSUME NEW p \in PE, NEW c \in DeviceCalls(p), c.api \in Direct
  PROVE  Apt(p, c, Code(p, c))
<1> DEFINE Plain ==
      {"get_mem_detailed_nbi", "get_mem_tensor_detailed_nbi", "put_mem_detailed_nbi",
       "put_mem_tensor_detailed_nbi"}
           Signalling ==
      {"put_mem_signal_detailed", "put_mem_signal_tensor_detailed",
       "put_mem_signal_detailed_nbi", "put_mem_signal_tensor_detailed_nbi"}
<1>1. /\ c.api \in Plain => Buffered(p, c) /\ c.api \notin Draining
      /\ c.api \in Signalling => Buffered(p, c)
      /\ c.api \notin Plain \cup Signalling => c.api \notin Draining
  BY DEF Direct, Routed, Buffered, Draining
<1>2. \A buf : Complete(shmem_mte_get_detailed(p, c, buf)) /\ Complete(shmem_mte_put_detailed(p, c, buf))
  BY DetailedPasses, PassesComplete
<1>3. /\ Still(shmem_mte_get_ub(p, c)) /\ Still(shmem_mte_get_ub_detailed(p, c))
      /\ Still(shmem_mte_put_ub(p, c)) /\ Still(shmem_mte_put_ub_detailed(p, c))
  BY UbStill
<1>4. c.api \in Plain => \A s : Complete(s) => Apt(p, c, s)
  BY <1>1 DEF Apt
<1>5. c.api \in Signalling => \A s : Complete(s) => Apt(p, c, Signalled(c, s))
  BY <1>1, DrainedComplete, Zenon DEF Apt
<1>6. c.api \notin Plain \cup Signalling => \A s : Still(s) => Apt(p, c, s)
  BY <1>1, StillComplete DEF Apt
<1>7. CASE c.api = "get_mem_detailed_nbi"
  BY <1>2, <1>4, <1>7 DEF Code, shmem_get_mem_detailed_nbi
<1>8. CASE c.api = "get_mem_tensor_detailed_nbi"
  BY <1>2, <1>4, <1>8 DEF Code, shmem_get_mem_tensor_detailed_nbi, shmem_mte_get_tensor_detailed
<1>9. CASE c.api = "put_mem_detailed_nbi"
  BY <1>2, <1>4, <1>9 DEF Code, shmem_put_mem_detailed_nbi
<1>10. CASE c.api = "put_mem_tensor_detailed_nbi"
  BY <1>2, <1>4, <1>10 DEF Code, shmem_put_mem_tensor_detailed_nbi, shmem_mte_put_tensor_detailed
<1>11. CASE c.api = "get_mem_ub_nbi"
  BY <1>3, <1>6, <1>11 DEF Code, shmem_get_mem_ub_nbi
<1>12. CASE c.api = "get_mem_ub_tensor_nbi"
  BY <1>3, <1>6, <1>12 DEF Code, shmem_get_mem_ub_tensor_nbi, shmem_mte_get_ub_tensor
<1>13. CASE c.api = "get_mem_ub_detailed_nbi"
  BY <1>3, <1>6, <1>13 DEF Code, shmem_get_mem_ub_detailed_nbi
<1>14. CASE c.api = "get_mem_ub_tensor_detailed_nbi"
  BY <1>3, <1>6, <1>14 DEF Code, shmem_get_mem_ub_tensor_detailed_nbi, shmem_mte_get_ub_tensor_detailed
<1>15. CASE c.api = "put_mem_ub_nbi"
  BY <1>3, <1>6, <1>15 DEF Code, shmem_put_mem_ub_nbi
<1>16. CASE c.api = "put_mem_ub_tensor_nbi"
  BY <1>3, <1>6, <1>16 DEF Code, shmem_put_mem_ub_tensor_nbi, shmem_mte_put_ub_tensor
<1>17. CASE c.api = "put_mem_ub_detailed_nbi"
  BY <1>3, <1>6, <1>17 DEF Code, shmem_put_mem_ub_detailed_nbi
<1>18. CASE c.api = "put_mem_ub_tensor_detailed_nbi"
  BY <1>3, <1>6, <1>18 DEF Code, shmem_put_mem_ub_tensor_detailed_nbi, shmem_mte_put_ub_tensor_detailed
<1>19. CASE c.api = "put_mem_signal_detailed"
  BY <1>2, <1>5, <1>19 DEF Code, shmem_put_mem_signal_detailed
<1>20. CASE c.api = "put_mem_signal_tensor_detailed"
  BY <1>2, <1>5, <1>20 DEF Code, shmem_put_mem_signal_tensor_detailed, shmem_mte_put_tensor_detailed
<1>21. CASE c.api = "put_mem_signal_detailed_nbi"
  BY <1>2, <1>5, <1>21 DEF Code, shmem_put_mem_signal_detailed_nbi
<1>22. CASE c.api = "put_mem_signal_tensor_detailed_nbi"
  BY <1>2, <1>5, <1>22 DEF Code, shmem_put_mem_signal_tensor_detailed_nbi, shmem_mte_put_tensor_detailed
<1>23. CASE c.api = "p"
  BY <1>6, <1>23, WordStill DEF Code, shmem_p
<1>24. CASE c.api = "g"
  BY <1>6, <1>24, WordStill DEF Code, shmem_g
<1>25. CASE c.api = "signal_op"
  BY <1>6, <1>25, SignalStill DEF Code
<1> QED BY <1>7, <1>8, <1>9, <1>10, <1>11, <1>12, <1>13, <1>14, <1>15, <1>16, <1>17, <1>18, <1>19,
          <1>20, <1>21, <1>22, <1>23, <1>24, <1>25 DEF Direct

LEMMA InnerApt ==
  ASSUME NEW p \in PE, NEW c \in DeviceCalls(p), c.api \in Inner
  PROVE  Apt(p, c, Code(p, c))
<1>1. c.api \in {"wait_until_all", "test_all"} => c.n \in Nat
  BY ProgramAssumption
<1>2. c.api \in Draining => c.api \in {"quiet", "test"}
  BY DEF Inner, Draining
<1>3. \A s : Still(s) /\ (c.api \in {"quiet", "test"} => Drains(s)) => Apt(p, c, s)
  BY <1>2, StillComplete DEF Apt
<1>4. CASE c.api = "quiet"
  BY <1>3, <1>4, QuietStill DEF Code
<1>5. CASE c.api = "roce_quiet"
  BY <1>3, <1>5, QuietStill DEF Code
<1>6. CASE c.api = "signal_fetch"
  BY <1>3, <1>6, WaitStill DEF Code
<1>7. CASE c.api = "signal_wait_until"
  BY <1>3, <1>7, WaitStill DEF Code
<1>8. CASE c.api = "wait_until_all"
  BY <1>1, <1>3, <1>8, EachStill DEF Code
<1>9. CASE c.api = "test"
  <2>1. Still(shmem_test(p, c)) /\ Drains(shmem_test(p, c))
    BY QuietStill, WaitStill, StillConcat, DrainsConcat DEF shmem_test, Still
  <2> QED BY <1>3, <1>9, <2>1 DEF Code
<1>10. CASE c.api = "test_all"
  BY <1>1, <1>3, <1>10, EachStill DEF Code
<1> QED BY <1>4, <1>5, <1>6, <1>7, <1>8, <1>9, <1>10 DEF Inner

LEMMA CodeApt ==
  ASSUME NEW p \in PE, NEW c \in DeviceCalls(p), config[p].ub_size \in BufferSizes(p),
         \A q \in PE : "mte" \in host[p].dev.topo[q] <=> HostOf[q] = HostOf[p]
  PROVE  Apt(p, c, Code(p, c))
<1>1. c.api \in Routed \cup Unrouted \cup Direct \cup Inner
  BY ProgramAssumption
<1> QED BY <1>1, RoutedApt, UnroutedApt, DirectApt, InnerApt

-----------------------------------------------------------------------------
(* The flags of a core whose scalar unit has the instructions c left, and  *)
(* its pipes a and b.                                                      *)

Owed(s, t, x) == Times(s, x, 1) + Times(t, x, 1)

FlagsOf(c, a, b, f) ==
  /\ Proper(c) /\ Proper(a) /\ Proper(b) /\ DrainsLast(c)
  /\ \A x \in Range(a) : x \notin {WaitFull, SetFree}
  /\ \A x \in Range(b) : x \notin {SetFull, WaitFree}
  /\ f \in [Events -> Nat]
  /\ f["MTE2_MTE3"] = Owed(b, c, WaitFull) - Owed(a, c, SetFull)
  /\ f["MTE3_MTE2"] = Owed(a, c, WaitFree) - Owed(b, c, SetFree)
  /\ Turns(c, 0)
  /\ Steady(a, SetFull, WaitFree, Net(c, SetFull, WaitFree, 1))
  /\ Steady(b, WaitFull, SetFree, Net(c, WaitFull, SetFree, 1))

LEMMA ProperTimes ==
  ASSUME NEW s, Proper(s)
  PROVE  \A x : Times(s, x, 1) \in Nat
<1>1. PICK X : s \in Seq(X)
  BY DEF Proper
<1>2. 1 \in Nat
  OBVIOUS
<1> QED BY <1>1, <1>2, OccursFinite

(* Both flags together are set at most once. *)
LEMMA FlagsBound ==
  ASSUME NEW c, NEW a, NEW b, NEW f, FlagsOf(c, a, b, f)
  PROVE  /\ \A e \in Events : f[e] \in {0, 1}
         /\ c = <<>> /\ a = <<>> /\ b = <<>> => \A e \in Events : f[e] = 0
<1>1. \A x : Times(c, x, 1) \in Nat /\ Times(a, x, 1) \in Nat /\ Times(b, x, 1) \in Nat
  BY ProperTimes DEF FlagsOf
<1>2. /\ f["MTE2_MTE3"] \in Nat /\ f["MTE3_MTE2"] \in Nat
      /\ \A e \in Events : e = "MTE2_MTE3" \/ e = "MTE3_MTE2"
  BY DEF FlagsOf, Events
<1>3. /\ f["MTE2_MTE3"] = (Times(b, WaitFull, 1) + Times(c, WaitFull, 1)) - (Times(a, SetFull, 1) + Times(c, SetFull, 1))
      /\ f["MTE3_MTE2"] = (Times(a, WaitFree, 1) + Times(c, WaitFree, 1)) - (Times(b, SetFree, 1) + Times(c, SetFree, 1))
  BY DEF FlagsOf, Owed
<1>4. Net(a, SetFull, WaitFree, 1) + Net(c, SetFull, WaitFree, 1) \in {0, 1}
  <2>1. PICK X : a \in Seq(X)
    BY DEF FlagsOf, Proper
  <2>2. Net(c, SetFull, WaitFree, 1) \in Int
    BY <1>1 DEF Net
  <2> QED BY <2>1, <2>2, SteadyEnds DEF FlagsOf
<1>5. Net(b, WaitFull, SetFree, 1) + Net(c, WaitFull, SetFree, 1) \in {0, 1}
  <2>1. PICK X : b \in Seq(X)
    BY DEF FlagsOf, Proper
  <2>2. Net(c, WaitFull, SetFree, 1) \in Int
    BY <1>1 DEF Net
  <2> QED BY <2>1, <2>2, SteadyEnds DEF FlagsOf
<1>6. f["MTE2_MTE3"] + f["MTE3_MTE2"] <= 1
  <2> DEFINE n == Net(a, SetFull, WaitFree, 1) + Net(c, SetFull, WaitFree, 1)
             m == Net(b, WaitFull, SetFree, 1) + Net(c, WaitFull, SetFree, 1)
  <2>1. f["MTE2_MTE3"] + f["MTE3_MTE2"] = m - n
    BY <1>1, <1>3 DEF Net
  <2>2. n \in {0, 1} /\ m \in {0, 1}
    BY <1>4, <1>5
  <2> HIDE DEF n, m
  <2> QED BY <2>1, <2>2
<1>7. \A e \in Events : f[e] \in {0, 1}
  BY <1>2, <1>6
<1>8. ASSUME c = <<>>, a = <<>>, b = <<>>
      PROVE  \A e \in Events : f[e] = 0
  <2>1. \A x \in Turning : Times(<<>>, x, 1) = 0
    BY StillNone, StillType
  <2>2. /\ Times(c, WaitFull, 1) = 0 /\ Times(c, SetFull, 1) = 0 /\ Times(c, WaitFree, 1) = 0
        /\ Times(c, SetFree, 1) = 0 /\ Times(b, WaitFull, 1) = 0 /\ Times(a, SetFull, 1) = 0
        /\ Times(a, WaitFree, 1) = 0 /\ Times(b, SetFree, 1) = 0
    BY <1>8, <2>1 DEF Turning
  <2> QED BY <1>2, <1>3, <2>2
<1> QED BY <1>7, <1>8

(* A run goes to a pipe that is the one for x and y. *)
LEMMA SteadyIssue ==
  ASSUME NEW m, NEW run, NEW rest, Proper(m), Proper(run), Proper(rest), NEW x, NEW y,
         Steady(run \o rest, x, y, 0), Steady(m, x, y, Net(run \o rest, x, y, 1))
  PROVE  /\ Steady(rest, x, y, 0) /\ Steady(m \o run, x, y, Net(rest, x, y, 1))
         /\ Owed(m \o run, rest, x) = Owed(m, run \o rest, x)
         /\ Owed(m \o run, rest, y) = Owed(m, run \o rest, y)
<1>1. PICK X : run \in Seq(X) /\ rest \in Seq(X)
  BY BothProper
<1>2. PICK Y : m \in Seq(Y) /\ run \in Seq(Y)
  BY BothProper
<1>3. \A z : Times(m, z, 1) \in Nat /\ Times(run, z, 1) \in Nat /\ Times(rest, z, 1) \in Nat
  BY ProperTimes
<1>4. ASSUME NEW z
      PROVE  /\ Times(run \o rest, z, 1) = Times(run, z, 1) + Times(rest, z, 1)
             /\ Times(m \o run, z, 1) = Times(m, z, 1) + Times(run, z, 1)
  <2>1. 1 \in 1 .. Len(run) + 1 /\ 1 \in 1 .. Len(m) + 1
    <3>1. Len(run) \in Nat /\ Len(m) \in Nat
      BY <1>2
    <3> QED BY <3>1
  <2> QED BY <1>1, <1>2, <2>1, TimesConcat
<1>5. /\ Net(run \o rest, x, y, 1) = Net(run, x, y, 1) + Net(rest, x, y, 1)
      /\ Net(rest, x, y, 1) \in Int /\ Net(run, x, y, 1) \in Int
  BY <1>3, <1>4 DEF Net
<1>6. Steady(rest, x, y, 0) /\ Steady(run, x, y, Net(rest, x, y, 1) + 0)
  BY <1>1, SteadyConcat
<1>7. Net(rest, x, y, 1) + 0 = Net(rest, x, y, 1)
  BY <1>5
<1>8. Steady(m \o run, x, y, Net(rest, x, y, 1))
  BY <1>2, <1>5, <1>6, <1>7, SteadyConcat
<1>9. \A z : Owed(m \o run, rest, z) = Owed(m, run \o rest, z)
  BY <1>3, <1>4 DEF Owed
<1> QED BY <1>6, <1>8, <1>9

(* It goes to the other one. *)
LEMMA SteadyPass ==
  ASSUME NEW run, NEW rest, Proper(run), Proper(rest), NEW x, NEW y,
         \A i \in Range(run) : i \notin {x, y}, Steady(run \o rest, x, y, 0)
  PROVE  /\ Steady(rest, x, y, 0) /\ Net(rest, x, y, 1) = Net(run \o rest, x, y, 1)
         /\ \A m : /\ Owed(m, rest, x) = Owed(m, run \o rest, x)
                   /\ Owed(m, rest, y) = Owed(m, run \o rest, y)
<1>1. PICK X : run \in Seq(X) /\ rest \in Seq(X)
  BY BothProper
<1>2. \A z : Times(run, z, 1) \in Nat /\ Times(rest, z, 1) \in Nat
  BY ProperTimes
<1>3. Len(run) \in Nat /\ DOMAIN run = 1 .. Len(run) /\ 1 \in 1 .. Len(run) + 1 /\ 1 \in Nat
  <2>1. Len(run) \in Nat /\ DOMAIN run = 1 .. Len(run)
    BY <1>1
  <2> QED BY <2>1
<1>4. Times(run, x, 1) = 0 /\ Times(run, y, 1) = 0
  <2>1. \A k \in 1 .. Len(run) : run[k] # x /\ run[k] # y
    BY <1>3 DEF Range
  <2> QED BY <1>1, <1>3, <2>1, TimesNone
<1>5. /\ Times(run \o rest, x, 1) = Times(run, x, 1) + Times(rest, x, 1)
      /\ Times(run \o rest, y, 1) = Times(run, y, 1) + Times(rest, y, 1)
  BY <1>1, <1>3, TimesConcat
<1>6. Times(run \o rest, x, 1) = Times(rest, x, 1) /\ Times(run \o rest, y, 1) = Times(rest, y, 1)
  BY <1>2, <1>4, <1>5
<1>7. Steady(rest, x, y, 0)
  BY <1>1, SteadyConcat
<1> QED BY <1>6, <1>7 DEF Net, Owed
LEMMA SteadyTail ==
  ASSUME NEW X, NEW s \in Seq(X), s # <<>>, NEW x, NEW y, NEW b \in Int, Steady(s, x, y, b)
  PROVE  Steady(Tail(s), x, y, b)
<1> DEFINE u == <<Head(s)>>
           v == Tail(s)
<1>1. u \in Seq(X) /\ v \in Seq(X) /\ s = u \o v
  BY HeadTail
<1> HIDE DEF u, v
<1>2. Steady(u \o v, x, y, b)
  BY <1>1
<1>3. Steady(v, x, y, b)
  BY <1>1, <1>2, SteadyConcat
<1> QED BY <1>3 DEF v

LEMMA DrainsRest ==
  ASSUME NEW s, NEW t, Proper(s), Proper(t), DrainsLast(s \o t)
  PROVE  DrainsLast(t)
<1> DEFINE w == s \o t
<1>1. PICK X : s \in Seq(X) /\ t \in Seq(X)
  BY BothProper
<1>2. /\ Len(w) = Len(s) + Len(t) /\ Len(s) \in Nat /\ Len(t) \in Nat
      /\ \A k \in 1 .. Len(t) : w[Len(s) + k] = t[k]
  BY <1>1
<1> HIDE DEF w
<1>3. ASSUME NEW i \in 1 .. Len(t), NEW j \in 1 .. Len(t), i < j, t[i].op = "drain"
      PROVE  t[j] \notin Turning
  <2>1. Len(s) + i \in 1 .. Len(w) /\ Len(s) + j \in 1 .. Len(w) /\ Len(s) + i < Len(s) + j
    BY <1>2, <1>3
  <2>2. w[Len(s) + i] = t[i] /\ w[Len(s) + j] = t[j]
    BY <1>2
  <2>3. DrainsLast(w)
    BY DEF w
  <2> QED BY <1>3, <2>1, <2>2, <2>3 DEF DrainsLast
<1> QED BY <1>3 DEF DrainsLast

LEMMA ProperSplit ==
  ASSUME NEW s, Proper(s), s # <<>>
  PROVE  /\ Proper(<<Head(s)>>) /\ Proper(Tail(s)) /\ Head(s) \in Range(s)
         /\ Range(Tail(s)) \subseteq Range(s) /\ Range(<<Head(s)>>) = {Head(s)}
         /\ s = <<Head(s)>> \o Tail(s)
<1>1. PICK X : X = Range(s) /\ s \in Seq(X)
  BY DEF Proper
<1>2. /\ Head(s) \in X /\ <<Head(s)>> \in Seq(X) /\ Tail(s) \in Seq(X)
      /\ s = <<Head(s)>> \o Tail(s)
  BY <1>1, HeadTail
<1>3. /\ <<Head(s)>> \in Seq(Range(<<Head(s)>>)) /\ Tail(s) \in Seq(Range(Tail(s)))
      /\ Range(<<Head(s)>>) \subseteq X /\ Range(Tail(s)) \subseteq X
  BY <1>2, SeqRange
<1>4. Range(<<Head(s)>>) = {Head(s)}
  <2>1. DOMAIN <<Head(s)>> = {1} /\ <<Head(s)>>[1] = Head(s)
    OBVIOUS
  <2> QED BY <2>1 DEF Range
<1> QED BY <1>1, <1>2, <1>3, <1>4 DEF Proper

LEMMA FlagsIssue2 ==
  ASSUME NEW run, NEW rest, NEW a, NEW b, NEW f, FlagsOf(run \o rest, a, b, f), Proper(run), Proper(rest),
         \A i \in Range(run) : i \notin {WaitFull, SetFree}
  PROVE  FlagsOf(rest, a \o run, b, f)
<1>1. DrainsLast(rest) /\ Proper(a) /\ Proper(b) /\ f \in [Events -> Nat]
  BY DrainsRest DEF FlagsOf
<1>2. Proper(a \o run) /\ \A i \in Range(a \o run) : i \notin {WaitFull, SetFree}
  BY BothProper DEF FlagsOf
<1>3. /\ Steady(rest, SetFull, WaitFree, 0)
      /\ Steady(a \o run, SetFull, WaitFree, Net(rest, SetFull, WaitFree, 1))
      /\ Owed(a \o run, rest, SetFull) = Owed(a, run \o rest, SetFull)
      /\ Owed(a \o run, rest, WaitFree) = Owed(a, run \o rest, WaitFree)
  BY <1>1, SteadyIssue DEF FlagsOf, Turns
<1>4. /\ Steady(rest, WaitFull, SetFree, 0)
      /\ Net(rest, WaitFull, SetFree, 1) = Net(run \o rest, WaitFull, SetFree, 1)
      /\ Owed(b, rest, WaitFull) = Owed(b, run \o rest, WaitFull)
      /\ Owed(b, rest, SetFree) = Owed(b, run \o rest, SetFree)
  BY SteadyPass DEF FlagsOf, Turns
<1> QED BY <1>1, <1>2, <1>3, <1>4 DEF FlagsOf, Turns

LEMMA FlagsIssue3 ==
  ASSUME NEW run, NEW rest, NEW a, NEW b, NEW f, FlagsOf(run \o rest, a, b, f), Proper(run), Proper(rest),
         \A i \in Range(run) : i \notin {SetFull, WaitFree}
  PROVE  FlagsOf(rest, a, b \o run, f)
<1>1. DrainsLast(rest) /\ Proper(a) /\ Proper(b) /\ f \in [Events -> Nat]
  BY DrainsRest DEF FlagsOf
<1>2. Proper(b \o run) /\ \A i \in Range(b \o run) : i \notin {SetFull, WaitFree}
  BY BothProper DEF FlagsOf
<1>3. /\ Steady(rest, WaitFull, SetFree, 0)
      /\ Steady(b \o run, WaitFull, SetFree, Net(rest, WaitFull, SetFree, 1))
      /\ Owed(b \o run, rest, WaitFull) = Owed(b, run \o rest, WaitFull)
      /\ Owed(b \o run, rest, SetFree) = Owed(b, run \o rest, SetFree)
  BY <1>1, SteadyIssue DEF FlagsOf, Turns
<1>4. /\ Steady(rest, SetFull, WaitFree, 0)
      /\ Net(rest, SetFull, WaitFree, 1) = Net(run \o rest, SetFull, WaitFree, 1)
      /\ Owed(a, rest, SetFull) = Owed(a, run \o rest, SetFull)
      /\ Owed(a, rest, WaitFree) = Owed(a, run \o rest, WaitFree)
  BY SteadyPass DEF FlagsOf, Turns
<1> QED BY <1>1, <1>2, <1>3, <1>4 DEF FlagsOf, Turns

(* The scalar unit does what has nothing to do with flags. *)
LEMMA FlagsSkip ==
  ASSUME NEW c, NEW a, NEW b, NEW f, FlagsOf(c, a, b, f), c # <<>>, Head(c).op \notin Flagging
  PROVE  FlagsOf(Tail(c), a, b, f)
<1> DEFINE run == <<Head(c)>>
           rest == Tail(c)
<1>1. Proper(run) /\ Proper(rest) /\ Range(run) = {Head(c)} /\ c = run \o rest
  BY ProperSplit DEF FlagsOf
<1>2. \A i \in Range(run) : i \notin Turning
  BY <1>1, FourFlags
<1> HIDE DEF run, rest
<1>3. /\ Steady(rest, SetFull, WaitFree, 0)
      /\ Net(rest, SetFull, WaitFree, 1) = Net(c, SetFull, WaitFree, 1)
      /\ \A m : Owed(m, rest, SetFull) = Owed(m, c, SetFull) /\ Owed(m, rest, WaitFree) = Owed(m, c, WaitFree)
  BY <1>1, <1>2, SteadyPass DEF FlagsOf, Turns, Turning
<1>4. /\ Steady(rest, WaitFull, SetFree, 0)
      /\ Net(rest, WaitFull, SetFree, 1) = Net(c, WaitFull, SetFree, 1)
      /\ \A m : Owed(m, rest, WaitFull) = Owed(m, c, WaitFull) /\ Owed(m, rest, SetFree) = Owed(m, c, SetFree)
  BY <1>1, <1>2, SteadyPass DEF FlagsOf, Turns, Turning
<1>5. DrainsLast(rest)
  BY <1>1, DrainsRest DEF FlagsOf
<1>6. FlagsOf(rest, a, b, f)
  BY <1>1, <1>3, <1>4, <1>5 DEF FlagsOf, Turns
<1> QED BY <1>6 DEF rest

(* What the first instruction of a pipe does to the flags. *)
Acts(i, f, g) ==
  \/ i.op \notin Flagging /\ g = f
  \/ i.op = "set" /\ g = [f EXCEPT ![i.event] = @ + 1]
  \/ i.op = "wait" /\ f[i.event] > 0 /\ g = [f EXCEPT ![i.event] = @ - 1]

LEMMA FlagsTake2 ==
  ASSUME NEW c, NEW a, NEW b, NEW f, NEW g, FlagsOf(c, a, b, f), a # <<>>, Acts(Head(a), f, g)
  PROVE  FlagsOf(c, Tail(a), b, g)
<1> DEFINE i == Head(a)
           t == Tail(a)
<1>1. Proper(t) /\ i \in Range(a) /\ Range(t) \subseteq Range(a) /\ Proper(a)
  BY ProperSplit DEF FlagsOf
<1>2. PICK X : a \in Seq(X)
  BY <1>1 DEF Proper
<1>3. \A x : Times(a, x, 1) = Times(t, x, 1) + IF i = x THEN 1 ELSE 0
  BY <1>2, TimesTail
<1>4. \A x : Times(t, x, 1) \in Nat /\ Times(b, x, 1) \in Nat /\ Times(c, x, 1) \in Nat
  BY <1>1, ProperTimes DEF FlagsOf
<1>5. Steady(t, SetFull, WaitFree, Net(c, SetFull, WaitFree, 1))
  <2>1. Net(c, SetFull, WaitFree, 1) \in Int
    BY <1>4 DEF Net
  <2> QED BY <1>2, <2>1, SteadyTail DEF FlagsOf
<1>6. i.op \in Flagging => i \in {SetFull, WaitFree}
  BY <1>1 DEF FlagsOf, Proper, Turning
<1> HIDE DEF i, t
<1>7. /\ f \in [Events -> Nat] /\ "MTE2_MTE3" \in Events /\ "MTE3_MTE2" \in Events
      /\ f["MTE2_MTE3"] = Owed(b, c, WaitFull) - Owed(a, c, SetFull)
      /\ f["MTE3_MTE2"] = Owed(a, c, WaitFree) - Owed(b, c, SetFree)
  BY DEF FlagsOf, Events
<1>8. /\ Owed(a, c, SetFull) = Owed(t, c, SetFull) + IF i = SetFull THEN 1 ELSE 0
      /\ Owed(a, c, WaitFree) = Owed(t, c, WaitFree) + IF i = WaitFree THEN 1 ELSE 0
      /\ Owed(b, c, WaitFull) \in Nat /\ Owed(t, c, SetFull) \in Nat
      /\ Owed(t, c, WaitFree) \in Nat /\ Owed(b, c, SetFree) \in Nat
  <2>1. ASSUME NEW x
        PROVE  /\ Owed(a, c, x) = Owed(t, c, x) + IF i = x THEN 1 ELSE 0
               /\ Owed(t, c, x) \in Nat /\ Owed(b, c, x) \in Nat
    <3>1. /\ Times(a, x, 1) = Times(t, x, 1) + IF i = x THEN 1 ELSE 0
          /\ Times(t, x, 1) \in Nat /\ Times(b, x, 1) \in Nat /\ Times(c, x, 1) \in Nat
      BY <1>3, <1>4
    <3> QED BY <3>1 DEF Owed
  <2> QED BY <2>1
<1>9. /\ g \in [Events -> Nat]
      /\ g["MTE2_MTE3"] = Owed(b, c, WaitFull) - Owed(t, c, SetFull)
      /\ g["MTE3_MTE2"] = Owed(t, c, WaitFree) - Owed(b, c, SetFree)
  <2>1. CASE i.op \notin Flagging
    <3>1. g = f /\ i # SetFull /\ i # WaitFree
      BY <2>1, FourFlags DEF Acts, Flagging, i, Turning
    <3> QED BY <1>7, <1>8, <3>1
  <2>2. CASE i = SetFull
    <3>1. i.op = "set" /\ i.event = "MTE2_MTE3" /\ i # WaitFree
      BY <2>2, FourFlags DEF SetFull
    <3>2. g = [f EXCEPT !["MTE2_MTE3"] = @ + 1]
      BY <3>1 DEF Acts, Flagging, i
    <3>3. /\ g \in [Events -> Nat] /\ g["MTE2_MTE3"] = f["MTE2_MTE3"] + 1
          /\ g["MTE3_MTE2"] = f["MTE3_MTE2"]
      BY <1>7, <3>2
    <3> QED BY <1>7, <1>8, <2>2, <3>1, <3>3
  <2>3. CASE i = WaitFree
    <3>1. i.op = "wait" /\ i.event = "MTE3_MTE2" /\ i # SetFull
      BY <2>3, FourFlags DEF WaitFree
    <3>2. f["MTE3_MTE2"] > 0 /\ g = [f EXCEPT !["MTE3_MTE2"] = @ - 1]
      BY <3>1 DEF Acts, Flagging, i
    <3>3. /\ g \in [Events -> Nat] /\ g["MTE3_MTE2"] = f["MTE3_MTE2"] - 1
          /\ g["MTE2_MTE3"] = f["MTE2_MTE3"]
      BY <1>7, <3>2
    <3> QED BY <1>7, <1>8, <2>3, <3>1, <3>3
  <2> QED BY <1>6, <2>1, <2>2, <2>3
<1>10. FlagsOf(c, t, b, g)
  BY <1>1, <1>5, <1>9 DEF FlagsOf
<1> QED BY <1>10 DEF t

LEMMA FlagsTake3 ==
  ASSUME NEW c, NEW a, NEW b, NEW f, NEW g, FlagsOf(c, a, b, f), b # <<>>, Acts(Head(b), f, g)
  PROVE  FlagsOf(c, a, Tail(b), g)
<1> DEFINE i == Head(b)
           t == Tail(b)
<1>1. Proper(t) /\ i \in Range(b) /\ Range(t) \subseteq Range(b) /\ Proper(b)
  BY ProperSplit DEF FlagsOf
<1>2. PICK X : b \in Seq(X)
  BY <1>1 DEF Proper
<1>3. \A x : Times(b, x, 1) = Times(t, x, 1) + IF i = x THEN 1 ELSE 0
  BY <1>2, TimesTail
<1>4. \A x : Times(t, x, 1) \in Nat /\ Times(a, x, 1) \in Nat /\ Times(c, x, 1) \in Nat
  BY <1>1, ProperTimes DEF FlagsOf
<1>5. Steady(t, WaitFull, SetFree, Net(c, WaitFull, SetFree, 1))
  <2>1. Net(c, WaitFull, SetFree, 1) \in Int
    BY <1>4 DEF Net
  <2> QED BY <1>2, <2>1, SteadyTail DEF FlagsOf
<1>6. i.op \in Flagging => i \in {SetFree, WaitFull}
  BY <1>1 DEF FlagsOf, Proper, Turning
<1> HIDE DEF i, t
<1>7. /\ f \in [Events -> Nat] /\ "MTE2_MTE3" \in Events /\ "MTE3_MTE2" \in Events
      /\ f["MTE2_MTE3"] = Owed(b, c, WaitFull) - Owed(a, c, SetFull)
      /\ f["MTE3_MTE2"] = Owed(a, c, WaitFree) - Owed(b, c, SetFree)
  BY DEF FlagsOf, Events
<1>8. /\ Owed(b, c, SetFree) = Owed(t, c, SetFree) + IF i = SetFree THEN 1 ELSE 0
      /\ Owed(b, c, WaitFull) = Owed(t, c, WaitFull) + IF i = WaitFull THEN 1 ELSE 0
      /\ Owed(t, c, WaitFull) \in Nat /\ Owed(a, c, SetFull) \in Nat
      /\ Owed(a, c, WaitFree) \in Nat /\ Owed(t, c, SetFree) \in Nat
  <2>1. ASSUME NEW x
        PROVE  /\ Owed(b, c, x) = Owed(t, c, x) + IF i = x THEN 1 ELSE 0
               /\ Owed(t, c, x) \in Nat /\ Owed(a, c, x) \in Nat
    <3>1. /\ Times(b, x, 1) = Times(t, x, 1) + IF i = x THEN 1 ELSE 0
          /\ Times(t, x, 1) \in Nat /\ Times(a, x, 1) \in Nat /\ Times(c, x, 1) \in Nat
      BY <1>3, <1>4
    <3> QED BY <3>1 DEF Owed
  <2> QED BY <2>1
<1>9. /\ g \in [Events -> Nat]
      /\ g["MTE2_MTE3"] = Owed(t, c, WaitFull) - Owed(a, c, SetFull)
      /\ g["MTE3_MTE2"] = Owed(a, c, WaitFree) - Owed(t, c, SetFree)
  <2>1. CASE i.op \notin Flagging
    <3>1. g = f /\ i # SetFree /\ i # WaitFull
      BY <2>1, FourFlags DEF Acts, Flagging, i, Turning
    <3> QED BY <1>7, <1>8, <3>1
  <2>2. CASE i = SetFree
    <3>1. i.op = "set" /\ i.event = "MTE3_MTE2" /\ i # WaitFull
      BY <2>2, FourFlags DEF SetFree
    <3>2. g = [f EXCEPT !["MTE3_MTE2"] = @ + 1]
      BY <3>1 DEF Acts, Flagging, i
    <3>3. /\ g \in [Events -> Nat] /\ g["MTE3_MTE2"] = f["MTE3_MTE2"] + 1
          /\ g["MTE2_MTE3"] = f["MTE2_MTE3"]
      BY <1>7, <3>2
    <3> QED BY <1>7, <1>8, <2>2, <3>1, <3>3
  <2>3. CASE i = WaitFull
    <3>1. i.op = "wait" /\ i.event = "MTE2_MTE3" /\ i # SetFree
      BY <2>3, FourFlags DEF WaitFull
    <3>2. f["MTE2_MTE3"] > 0 /\ g = [f EXCEPT !["MTE2_MTE3"] = @ - 1]
      BY <3>1 DEF Acts, Flagging, i
    <3>3. /\ g \in [Events -> Nat] /\ g["MTE2_MTE3"] = f["MTE2_MTE3"] - 1
          /\ g["MTE3_MTE2"] = f["MTE3_MTE2"]
      BY <1>7, <3>2
    <3> QED BY <1>7, <1>8, <2>3, <3>1, <3>3
  <2> QED BY <1>6, <2>1, <2>2, <2>3
<1>10. FlagsOf(c, a, t, g)
  BY <1>1, <1>5, <1>9 DEF FlagsOf
<1> QED BY <1>10 DEF t

(* A call begins: with copies through the buffer only if the pipes have    *)
(* nothing left to do with the flags.                                      *)
LEMMA FlagsStart ==
  ASSUME NEW c, NEW a, NEW b, NEW f, FlagsOf(<<>>, a, b, f), Complete(c), Still(c) \/ (Still(a) /\ Still(b))
  PROVE  FlagsOf(c, a, b, f)
<1>1. /\ \A x : Times(c, x, 1) \in Nat /\ Times(a, x, 1) \in Nat /\ Times(b, x, 1) \in Nat
      /\ Times(c, SetFull, 1) = Times(c, WaitFull, 1) /\ Times(c, SetFree, 1) = Times(c, WaitFree, 1)
  BY ProperTimes DEF FlagsOf, Complete, Paired
<1>2. /\ \A x \in Turning : Times(<<>>, x, 1) = 0
      /\ Net(<<>>, SetFull, WaitFree, 1) = 0 /\ Net(<<>>, WaitFull, SetFree, 1) = 0
  BY StillNone, StillType
<1>3. /\ f \in [Events -> Nat]
      /\ f["MTE2_MTE3"] = Owed(b, c, WaitFull) - Owed(a, c, SetFull)
      /\ f["MTE3_MTE2"] = Owed(a, c, WaitFree) - Owed(b, c, SetFree)
  <2>1. /\ f["MTE2_MTE3"] = (Times(b, WaitFull, 1) + Times(<<>>, WaitFull, 1)) - (Times(a, SetFull, 1) + Times(<<>>, SetFull, 1))
        /\ f["MTE3_MTE2"] = (Times(a, WaitFree, 1) + Times(<<>>, WaitFree, 1)) - (Times(b, SetFree, 1) + Times(<<>>, SetFree, 1))
        /\ f \in [Events -> Nat]
    BY DEF FlagsOf, Owed
  <2>2. /\ f["MTE2_MTE3"] = Times(b, WaitFull, 1) - Times(a, SetFull, 1)
        /\ f["MTE3_MTE2"] = Times(a, WaitFree, 1) - Times(b, SetFree, 1)
    BY <1>1, <1>2, <2>1 DEF Turning
  <2> QED BY <1>1, <2>1, <2>2 DEF Owed
<1>4. /\ Steady(a, SetFull, WaitFree, Net(c, SetFull, WaitFree, 1))
      /\ Steady(b, WaitFull, SetFree, Net(c, WaitFull, SetFree, 1))
  <2>1. CASE Still(c)
    <3>1. Net(c, SetFull, WaitFree, 1) = 0 /\ Net(c, WaitFull, SetFree, 1) = 0
      BY <2>1, StillType
    <3> QED BY <1>2, <3>1 DEF FlagsOf
  <2>2. CASE Still(a) /\ Still(b)
    <3>1. PICK X : c \in Seq(X)
      BY DEF Complete, Proper
    <3>2. Steady(c, SetFull, WaitFree, 0) /\ Steady(c, WaitFull, SetFree, 0) /\ 0 \in Int
      BY DEF Complete, Turns
    <3>3. Net(c, SetFull, WaitFree, 1) + 0 \in {0, 1} /\ Net(c, WaitFull, SetFree, 1) + 0 \in {0, 1}
      BY <3>1, <3>2, SteadyEnds
    <3>4. Net(c, SetFull, WaitFree, 1) \in {0, 1} /\ Net(c, WaitFull, SetFree, 1) \in {0, 1}
      BY <1>1, <3>3 DEF Net
    <3> QED BY <2>2, <3>4, StillType DEF Turns
  <2> QED BY <2>1, <2>2
<1> QED BY <1>3, <1>4 DEF FlagsOf, Complete

(***************************************************************************)
(* The invariant of the event flags: those set are those that the pipes    *)
(* and the present call still owe, copies through the buffer follow each   *)
(* other only when the pipes have been drained, and while one is under way *)
(* the next one of its kernel is behind a drain.                           *)
(***************************************************************************)
Under(p) == ~ (Still(code[p]) /\ Still(mte2[p]) /\ Still(mte3[p]))
Behind(p) ==
  \A j \in 1 .. Len(todo[p]) : Buffered(p, todo[p][j]) =>
    Drains(code[p]) \/ \E i \in 1 .. j - 1 : todo[p][i].api \in Draining

Flags(p) ==
  /\ FlagsOf(code[p], mte2[p], mte3[p], flag[p])
  /\ Orderly(p, todo[p]) /\ \A k \in 1 .. Len(stream[p]) : Orderly(p, stream[p][k])
  /\ Under(p) => Behind(p)

FlagInv == OnPEs(flag) /\ \A p \in PE : Flags(p)

(* A step of one PE. *)
LEMMA FlagsMove ==
  ASSUME FlagInv, NEW p \in PE, OnPEs(flag'), Flags(p)',
         \A q \in PE \ {p} :
           /\ stream'[q] = stream[q] /\ todo'[q] = todo[q] /\ code'[q] = code[q]
           /\ mte2'[q] = mte2[q] /\ mte3'[q] = mte3[q] /\ flag'[q] = flag[q]
  PROVE  FlagInv'
<1>1. ASSUME NEW q \in PE \ {p}
      PROVE  Flags(q)'
  <2>1. Flags(q)
    BY DEF FlagInv
  <2>2. /\ stream'[q] = stream[q] /\ todo'[q] = todo[q] /\ code'[q] = code[q]
        /\ mte2'[q] = mte2[q] /\ mte3'[q] = mte3[q] /\ flag'[q] = flag[q]
    OBVIOUS
  <2> QED BY <2>1, <2>2 DEF Flags, Under, Behind
<1> QED BY <1>1 DEF FlagInv

(* A step that begins no call: what was behind a drain still is. *)
LEMMA FlagsKept ==
  ASSUME NEW p \in PE, Flags(p), FlagsOf(code'[p], mte2'[p], mte3'[p], flag'[p]),
         todo'[p] = todo[p], stream'[p] = stream[p],
         Under(p)' => Under(p) /\ (Drains(code[p]) => Drains(code'[p]))
  PROVE  Flags(p)'
<1>1. Under(p)' => Behind(p)'
  BY DEF Flags, Behind
<1> QED BY <1>1 DEF Flags

LEMMA StillParts ==
  ASSUME NEW s, Proper(s), s # <<>>
  PROVE  /\ Still(s) => Still(Tail(s))
         /\ Drains(s) /\ Head(s).op # "drain" => Drains(Tail(s))
<1>1. /\ Proper(Tail(s)) /\ Range(Tail(s)) \subseteq Range(s) /\ s = <<Head(s)>> \o Tail(s)
      /\ Range(<<Head(s)>>) = {Head(s)} /\ Proper(<<Head(s)>>)
  BY ProperSplit
<1>2. Range(s) = {Head(s)} \cup Range(Tail(s))
  <2> DEFINE u == <<Head(s)>>
             v == Tail(s)
  <2>1. Proper(u) /\ Proper(v) /\ s = u \o v /\ Range(u) = {Head(s)}
    BY <1>1
  <2> HIDE DEF u, v
  <2>2. Range(u \o v) = Range(u) \cup Range(v)
    BY <2>1, BothProper
  <2>3. Range(s) = {Head(s)} \cup Range(v)
    BY <2>1, <2>2
  <2> QED BY <2>3 DEF v
<1> QED BY <1>1, <1>2 DEF Still, Drains

LEMMA FlagInitInv == RmaInit => FlagInv
<1> SUFFICES ASSUME RmaInit PROVE FlagInv
  OBVIOUS
<1>1. OnPEs(flag)
  BY DEF RmaInit, OnPEs
<1>2. ASSUME NEW p \in PE
      PROVE  Flags(p)
  <2>1. /\ stream[p] = <<>> /\ todo[p] = <<>> /\ code[p] = <<>>
        /\ mte2[p] = <<>> /\ mte3[p] = <<>> /\ flag[p] = [e \in Events |-> 0]
    BY DEF RmaInit
  <2>2. Still(<<>>) /\ Proper(<<>>) /\ Range(<<>>) = {}
    BY StillNone DEF Still, Range
  <2>3. /\ Paired(<<>>) /\ Turns(<<>>, 0) /\ \A x \in Turning : Times(<<>>, x, 1) = 0
        /\ Net(<<>>, SetFull, WaitFree, 1) = 0 /\ Net(<<>>, WaitFull, SetFree, 1) = 0
    BY StillNone, StillType
  <2>4. DrainsLast(<<>>) /\ Orderly(p, <<>>)
    BY DEF DrainsLast, Orderly
  <2>5. FlagsOf(<<>>, <<>>, <<>>, flag[p])
    BY <2>1, <2>2, <2>3, <2>4 DEF FlagsOf, Owed, Turning, Events, Turns
  <2> QED BY <2>1, <2>2, <2>4, <2>5 DEF Flags, Under
<1> QED BY <1>1, <1>2 DEF FlagInv

LEMMA StartKernelFlags ==
  ASSUME RmaInv, FlagInv, NEW p \in PE, StartKernel(p)
  PROVE  FlagInv'
<1>1. AllOnPEs /\ Wired(p) /\ Flags(p)
  BY DEF RmaInv, FlagInv
<1>2. /\ stream[p] # <<>> /\ stream' = [stream EXCEPT ![p] = Tail(@)]
      /\ todo' = [todo EXCEPT ![p] = Head(stream[p])] /\ Idling(p)
      /\ code' = code /\ mte2' = mte2 /\ mte3' = mte3 /\ flag' = flag
  BY DEF StartKernel
<1>3. /\ stream'[p] = Tail(stream[p]) /\ todo'[p] = Head(stream[p])
      /\ \A q \in PE \ {p} : stream'[q] = stream[q] /\ todo'[q] = todo[q]
  BY <1>1, <1>2 DEF AllOnPEs, OnPEs
<1>4. /\ Head(stream[p]) = stream[p][1] /\ 1 \in 1 .. Len(stream[p])
      /\ \A k \in 1 .. Len(Tail(stream[p])) :
           k + 1 \in 1 .. Len(stream[p]) /\ Tail(stream[p])[k] = stream[p][k + 1]
  <2>1. stream[p] \in Seq(Seq(DeviceCalls(p))) /\ stream[p] # <<>>
    BY <1>1, <1>2 DEF Wired
  <2> QED BY <2>1
<1>5. ~ Under(p)'
  BY <1>2, StillNone DEF Idling, Under
<1>6. Flags(p)'
  BY <1>1, <1>2, <1>3, <1>4, <1>5 DEF Flags
<1> QED BY <1>2, <1>3, <1>6, FlagsMove DEF FlagInv

LEMMA StartCallFlags ==
  ASSUME JobInv, NamesInv, RmaInv, FlagInv, NEW p \in PE, StartCall(p)
  PROVE  FlagInv'
<1> DEFINE c == Head(todo[p])
           s == Code(p, c)
<1>1. AllOnPEs /\ Wired(p) /\ Flags(p)
  BY DEF RmaInv, FlagInv
<1>2. /\ todo[p] # <<>> /\ code[p] = <<>> /\ todo' = [todo EXCEPT ![p] = Tail(@)]
      /\ code' = [code EXCEPT ![p] = s]
      /\ stream' = stream /\ mte2' = mte2 /\ mte3' = mte3 /\ flag' = flag
  BY DEF StartCall
<1>3. /\ todo'[p] = Tail(todo[p]) /\ code'[p] = s
      /\ \A q \in PE \ {p} : todo'[q] = todo[q] /\ code'[q] = code[q]
  BY <1>1, <1>2 DEF AllOnPEs, OnPEs
<1>4. /\ todo[p] \in Seq(DeviceCalls(p)) /\ c \in DeviceCalls(p) /\ c = todo[p][1]
      /\ Len(todo[p]) \in Nat /\ 1 \in 1 .. Len(todo[p])
      /\ Len(Tail(todo[p])) = Len(todo[p]) - 1
      /\ \A k \in 1 .. Len(Tail(todo[p])) : Tail(todo[p])[k] = todo[p][k + 1]
  BY <1>1, <1>2 DEF Wired
<1>5. Apt(p, c, s)
  <2>1. \A q \in PE : "mte" \in host[p].dev.topo[q] <=> HostOf[q] = HostOf[p]
    BY <1>1, <1>2, RunTopo DEF Wired, Busy
  <2> HIDE DEF c
  <2> QED BY <1>1, <1>4, <2>1, CodeApt DEF Wired
<1> HIDE DEF c, s
<1>6. ~ Drains(<<>>) /\ Still(<<>>)
  BY StillNone DEF Drains, Undrained
<1>7. Under(p) => \A j \in 1 .. Len(todo[p]) : Buffered(p, todo[p][j]) =>
        \E i \in 1 .. j - 1 : todo[p][i].api \in Draining
  BY <1>1, <1>2, <1>6 DEF Flags, Behind
<1>8. Under(p) => Still(s)
  <2>1. Under(p) => ~ Buffered(p, c)
    BY <1>4, <1>7
  <2> QED BY <1>5, <2>1 DEF Apt
<1>9. FlagsOf(s, mte2[p], mte3[p], flag[p])
  <2>1. FlagsOf(<<>>, mte2[p], mte3[p], flag[p])
    BY <1>1, <1>2 DEF Flags
  <2>2. Still(s) \/ (Still(mte2[p]) /\ Still(mte3[p]))
    BY <1>8 DEF Under
  <2> QED BY <1>5, <2>1, <2>2, FlagsStart DEF Apt
<1>10. Orderly(p, Tail(todo[p]))
  <2> SUFFICES ASSUME NEW i \in 1 .. Len(Tail(todo[p])), NEW j \in 1 .. Len(Tail(todo[p])), i < j,
                      Buffered(p, Tail(todo[p])[i]), Buffered(p, Tail(todo[p])[j])
               PROVE  \E k \in i .. j - 1 : Tail(todo[p])[k].api \in Draining
    BY DEF Orderly
  <2>1. /\ i + 1 \in 1 .. Len(todo[p]) /\ j + 1 \in 1 .. Len(todo[p]) /\ i + 1 < j + 1
        /\ Buffered(p, todo[p][i + 1]) /\ Buffered(p, todo[p][j + 1])
    BY <1>4
  <2>2. PICK k \in i + 1 .. (j + 1) - 1 : todo[p][k].api \in Draining
    BY <1>1, <2>1 DEF Flags, Orderly
  <2>3. k - 1 \in i .. j - 1 /\ k - 1 \in 1 .. Len(Tail(todo[p])) /\ (k - 1) + 1 = k
    BY <1>4, <2>1
  <2> QED BY <1>4, <2>2, <2>3
<1>11. ASSUME Under(p)', NEW j \in 1 .. Len(Tail(todo[p])), Buffered(p, Tail(todo[p])[j])
       PROVE  Drains(s) \/ \E i \in 1 .. j - 1 : Tail(todo[p])[i].api \in Draining
  <2>1. j + 1 \in 1 .. Len(todo[p]) /\ Buffered(p, todo[p][j + 1]) /\ (j + 1) - 1 = j
    BY <1>4, <1>11
  <2>2. PICK k \in 1 .. j : todo[p][k].api \in Draining
    <3>1. CASE Buffered(p, c)
      <4>1. 1 < j + 1
        BY <1>4
      <4>2. \E k \in 1 .. (j + 1) - 1 : todo[p][k].api \in Draining
        BY <1>1, <1>4, <2>1, <3>1, <4>1 DEF Flags, Orderly
      <4> QED BY <2>1, <4>2
    <3>2. CASE ~ Buffered(p, c)
      <4>1. Under(p)
        BY <1>2, <1>3, <1>5, <1>11, <3>2 DEF Under, Apt
      <4>2. \E k \in 1 .. (j + 1) - 1 : todo[p][k].api \in Draining
        BY <1>7, <2>1, <4>1
      <4> QED BY <2>1, <4>2
    <3> QED BY <3>1, <3>2
  <2>3. CASE k = 1
    BY <1>4, <1>5, <2>2, <2>3 DEF Apt
  <2>4. CASE k # 1
    <3>1. k - 1 \in 1 .. j - 1 /\ k - 1 \in 1 .. Len(Tail(todo[p])) /\ (k - 1) + 1 = k
      BY <1>4, <2>4
    <3> QED BY <1>4, <2>2, <3>1
  <2> QED BY <2>3, <2>4
<1>12. Flags(p)'
  <2>1. Under(p)' => Behind(p)'
    BY <1>3, <1>11 DEF Behind
  <2> QED BY <1>1, <1>2, <1>3, <1>9, <1>10, <2>1 DEF Flags
<1> QED BY <1>2, <1>3, <1>12, FlagsMove DEF FlagInv

LEMMA IssueToPipeFlags ==
  ASSUME RmaInv, FlagInv, NEW p \in PE, IssueToPipe(p)
  PROVE  FlagInv'
<1> DEFINE early == ToMte2(Now(p))
           I == {i \in 1 .. Len(code[p]) : code[p][i].op \notin Piped \/ (ToMte2(code[p][i]) # early)}
           other == IF I # {} THEN Min(I) ELSE 0
           n == IF other = 0 THEN Len(code[p]) ELSE other - 1
           run == SubSeq(code[p], 1, n)
           rest == SubSeq(code[p], n + 1, Len(code[p]))
<1>1. AllOnPEs /\ Wired(p) /\ Flags(p)
  BY DEF RmaInv, FlagInv
<1>2. /\ code[p] # <<>> /\ code' = [code EXCEPT ![p] = SubSeq(@, n + 1, Len(@))]
      /\ mte2' = [mte2 EXCEPT ![p] = IF early THEN @ \o run ELSE @]
      /\ mte3' = [mte3 EXCEPT ![p] = IF early THEN @ ELSE @ \o run]
      /\ stream' = stream /\ todo' = todo /\ flag' = flag
  BY DEF IssueToPipe, Is, SelectInSeq
<1>3. /\ code'[p] = rest
      /\ mte2'[p] = (IF early THEN mte2[p] \o run ELSE mte2[p])
      /\ mte3'[p] = (IF early THEN mte3[p] ELSE mte3[p] \o run)
      /\ \A q \in PE \ {p} : code'[q] = code[q] /\ mte2'[q] = mte2[q] /\ mte3'[q] = mte3[q]
  <2> HIDE DEF n, run, early
  <2> QED BY <1>1, <1>2 DEF AllOnPEs, OnPEs
<1>4. code[p] \in Seq(Range(code[p])) /\ Len(code[p]) \in Nat /\ Proper(code[p])
  BY <1>1 DEF Flags, FlagsOf, Proper
<1>5. n \in 0 .. Len(code[p]) /\ \A i \in 1 .. n : code[p][i].op \in Piped /\ ToMte2(code[p][i]) = early
  <2>1. CASE I = {}
    BY <1>4, <2>1
  <2>2. CASE I # {}
    <3> HIDE DEF early
    <3>1. I \in SUBSET Nat
      OBVIOUS
    <3>2. \E x \in I : \A y \in I : x <= y
      BY <2>2, <3>1, Smallest
    <3>3. Min(I) \in I /\ \A y \in I : Min(I) <= y
      BY <3>2 DEF Min
    <3>4. n = Min(I) - 1 /\ Min(I) \in 1 .. Len(code[p])
      BY <2>2, <3>3
    <3>5. \A i \in 1 .. n : i \notin I /\ i \in 1 .. Len(code[p])
      BY <1>4, <3>3, <3>4
    <3>6. \A i \in 1 .. n : code[p][i].op \in Piped /\ ToMte2(code[p][i]) = early
      <4> HIDE DEF n
      <4> QED BY <3>5
    <3>7. n \in 0 .. Len(code[p])
      <4> HIDE DEF n
      <4> QED BY <1>4, <3>4
    <3> HIDE DEF n
    <3> QED BY <3>6, <3>7
  <2> QED BY <2>1, <2>2
<1> HIDE DEF n, early
<1>6. /\ Proper(run) /\ Proper(rest) /\ code[p] = run \o rest
      /\ \A x \in Range(run) : x.op \in Piped /\ ToMte2(x) = early
  <2>1. /\ run \in Seq(Range(code[p])) /\ rest \in Seq(Range(code[p])) /\ code[p] = run \o rest
    BY <1>4, <1>5, Split
  <2>2. \A x \in Range(run) : x.op \in Piped /\ ToMte2(x) = early
    <3>1. Len(run) = n /\ \A i \in 1 .. n : run[i] = code[p][i]
      BY <1>4, <1>5
    <3> QED BY <1>5, <2>1, <3>1 DEF Range
  <2> QED BY <1>4, <2>1, <2>2, SeqRange DEF Proper
<1> HIDE DEF run, rest
<1>7. /\ early => \A i \in Range(run) : i \notin {WaitFull, SetFree}
      /\ ~ early => \A i \in Range(run) : i \notin {SetFull, WaitFree}
  <2>1. /\ ~ ToMte2(WaitFull) /\ ~ ToMte2(SetFree) /\ ToMte2(SetFull) /\ ToMte2(WaitFree)
    BY DEF ToMte2, WaitFull, SetFree, SetFull, WaitFree
  <2> QED BY <1>6, <2>1
<1>8. FlagsOf(run \o rest, mte2[p], mte3[p], flag[p])
  BY <1>1, <1>6 DEF Flags
<1>9. FlagsOf(rest, mte2'[p], mte3'[p], flag[p])
  <2>1. CASE early
    BY <1>3, <1>6, <1>7, <1>8, <2>1, FlagsIssue2
  <2>2. CASE ~ early
    BY <1>3, <1>6, <1>7, <1>8, <2>2, FlagsIssue3
  <2> QED BY <2>1, <2>2
<1>10. /\ Range(code[p]) = Range(run) \cup Range(rest)
       /\ Range(mte2[p] \o run) = Range(mte2[p]) \cup Range(run)
       /\ Range(mte3[p] \o run) = Range(mte3[p]) \cup Range(run)
  <2>1. Proper(mte2[p]) /\ Proper(mte3[p])
    BY <1>1 DEF Flags, FlagsOf
  <2>2. Range(run \o rest) = Range(run) \cup Range(rest)
    BY <1>6, BothProper
  <2>3. /\ Range(mte2[p] \o run) = Range(mte2[p]) \cup Range(run)
        /\ Range(mte3[p] \o run) = Range(mte3[p]) \cup Range(run)
    BY <1>6, <2>1, BothProper
  <2> QED BY <1>6, <2>2, <2>3
<1>11. Under(p)' => Under(p) /\ (Drains(code[p]) => Drains(rest))
  <2>1. Still(code[p]) /\ Still(mte2[p]) /\ Still(mte3[p])
          => Still(rest) /\ Still(mte2'[p]) /\ Still(mte3'[p])
    BY <1>3, <1>6, <1>9, <1>10 DEF Still, FlagsOf
  <2>2. Drains(code[p]) => Drains(rest)
    BY <1>6, <1>10 DEF Drains, Piped
  <2> QED BY <1>3, <2>1, <2>2 DEF Under
<1>12. Flags(p)'
  BY <1>1, <1>2, <1>3, <1>9, <1>11, FlagsKept
<1> QED BY <1>2, <1>3, <1>12, FlagsMove DEF FlagInv

(* The other steps of the scalar unit: a drain is over when nothing is     *)
(* left in the pipes, and nothing of its call comes after it.              *)
LEMMA IssuedFlags ==
  ASSUME RmaInv, FlagInv, NEW p \in PE,
         IssuePost(p) \/ WriteWord(p) \/ ReadWord(p) \/ Proceed(p)
  PROVE  FlagInv'
<1> DEFINE c == code[p]
<1>1. AllOnPEs /\ Wired(p) /\ Flags(p)
  BY DEF RmaInv, FlagInv
<1>2. /\ c # <<>> /\ code' = [code EXCEPT ![p] = Tail(@)]
      /\ stream' = stream /\ todo' = todo /\ mte2' = mte2 /\ mte3' = mte3 /\ flag' = flag
  BY DEF IssuePost, WriteWord, ReadWord, Proceed, Is, Issued
<1>3. Head(c).op \in {"post", "set_word", "add_word", "fetch", "test", "drain", "roce_quiet", "spin"}
  BY DEF IssuePost, WriteWord, ReadWord, Proceed, Is, Now
<1>4. Head(c).op = "drain" => mte2[p] = <<>> /\ mte3[p] = <<>>
  BY DEF IssuePost, WriteWord, ReadWord, Proceed, Is, Now, Over
<1>5. code'[p] = Tail(c) /\ \A q \in PE \ {p} : code'[q] = code[q]
  BY <1>1, <1>2 DEF AllOnPEs, OnPEs
<1>6. FlagsOf(c, mte2[p], mte3[p], flag[p]) /\ Proper(c) /\ DrainsLast(c)
  BY <1>1 DEF Flags, FlagsOf
<1> HIDE DEF c
<1>7. FlagsOf(Tail(c), mte2[p], mte3[p], flag[p])
  BY <1>2, <1>3, <1>6, FlagsSkip DEF Flagging
<1>8. Head(c).op = "drain" => Still(Tail(c))
  <2> SUFFICES ASSUME Head(c).op = "drain" PROVE Still(Tail(c))
    OBVIOUS
  <2>1. Proper(Tail(c)) /\ c \in Seq(Range(c))
    BY <1>2, <1>6, ProperSplit DEF Proper
  <2>2. ASSUME NEW k \in 1 .. Len(Tail(c))
        PROVE  Tail(c)[k] \notin Turning
    <3>1. /\ 1 \in 1 .. Len(c) /\ k + 1 \in 1 .. Len(c) /\ 1 < k + 1 /\ Tail(c)[k] = c[k + 1]
          /\ Head(c) = c[1]
      BY <1>2, <2>1
    <3> QED BY <1>6, <3>1 DEF DrainsLast
  <2>3. DOMAIN Tail(c) = 1 .. Len(Tail(c))
    BY <2>1 DEF Proper
  <2>4. \A x \in Range(Tail(c)) : x \notin Turning
    BY <2>2, <2>3 DEF Range
  <2> QED BY <2>1, <2>4 DEF Still, Proper
<1>9. Under(p)' => Under(p) /\ (Drains(c) => Drains(Tail(c)))
  <2>1. CASE Head(c).op = "drain"
    BY <1>2, <1>4, <1>5, <1>8, <2>1, StillNone DEF Under
  <2>2. CASE Head(c).op # "drain"
    BY <1>2, <1>5, <1>6, <2>2, StillParts DEF Under, c
  <2> QED BY <2>1, <2>2
<1>10. Flags(p)'
  BY <1>1, <1>2, <1>5, <1>7, <1>9, FlagsKept DEF c
<1> QED BY <1>2, <1>5, <1>10, FlagsMove DEF FlagInv

(* What the first instruction of a pipe does. *)
LEMMA ActsFlags ==
  ASSUME FlagInv, NEW p \in PE, NEW i, Executes(p, i)
  PROVE  Acts(i, flag[p], flag'[p]) /\ OnPEs(flag') /\ \A q \in PE \ {p} : flag'[q] = flag[q]
<1>1. OnPEs(flag)
  BY DEF FlagInv
<1>2. CASE i.op \in {"load", "store"} /\ UNCHANGED flag
  BY <1>1, <1>2 DEF Acts, Flagging, OnPEs
<1>3. CASE i.op = "set" /\ flag' = [flag EXCEPT ![p][i.event] = @ + 1]
  <2>1. flag'[p] = [flag[p] EXCEPT ![i.event] = @ + 1]
    BY <1>1, <1>3 DEF OnPEs
  <2> QED BY <1>1, <1>3, <2>1 DEF Acts, OnPEs
<1>4. CASE i.op = "wait" /\ flag[p][i.event] > 0 /\ flag' = [flag EXCEPT ![p][i.event] = @ - 1]
  <2>1. flag'[p] = [flag[p] EXCEPT ![i.event] = @ - 1]
    BY <1>1, <1>4 DEF OnPEs
  <2> QED BY <1>1, <1>4, <2>1 DEF Acts, OnPEs
<1> QED BY <1>2, <1>3, <1>4 DEF Executes

LEMMA PipeFlags ==
  ASSUME RmaInv, FlagInv, NEW p \in PE, Mte2Step(p) \/ Mte3Step(p)
  PROVE  FlagInv'
<1>1. AllOnPEs /\ Wired(p) /\ Flags(p)
  BY DEF RmaInv, FlagInv
<1>2. stream' = stream /\ todo' = todo /\ code' = code
  BY DEF Mte2Step, Mte3Step
<1>3. FlagsOf(code[p], mte2[p], mte3[p], flag[p]) /\ Proper(mte2[p]) /\ Proper(mte3[p])
  BY <1>1 DEF Flags, FlagsOf
<1>4. CASE Mte2Step(p)
  <2>1. mte2[p] # <<>> /\ mte2' = [mte2 EXCEPT ![p] = Tail(@)] /\ mte3' = mte3
    BY <1>4 DEF Mte2Step
  <2>2. mte2'[p] = Tail(mte2[p]) /\ \A q \in PE \ {p} : mte2'[q] = mte2[q]
    BY <1>1, <2>1 DEF AllOnPEs, OnPEs
  <2>3. /\ Acts(Head(mte2[p]), flag[p], flag'[p]) /\ OnPEs(flag')
        /\ \A q \in PE \ {p} : flag'[q] = flag[q]
    BY <1>4, ActsFlags DEF Mte2Step
  <2>4. FlagsOf(code[p], Tail(mte2[p]), mte3[p], flag'[p])
    BY <1>3, <2>1, <2>3, FlagsTake2
  <2>5. Still(mte2[p]) => Still(Tail(mte2[p]))
    BY <1>3, <2>1, StillParts
  <2>6. Flags(p)'
    BY <1>1, <1>2, <2>1, <2>2, <2>4, <2>5, FlagsKept DEF Under
  <2> QED BY <1>2, <2>1, <2>2, <2>3, <2>6, FlagsMove
<1>5. CASE Mte3Step(p)
  <2>1. mte3[p] # <<>> /\ mte3' = [mte3 EXCEPT ![p] = Tail(@)] /\ mte2' = mte2
    BY <1>5 DEF Mte3Step
  <2>2. mte3'[p] = Tail(mte3[p]) /\ \A q \in PE \ {p} : mte3'[q] = mte3[q]
    BY <1>1, <2>1 DEF AllOnPEs, OnPEs
  <2>3. /\ Acts(Head(mte3[p]), flag[p], flag'[p]) /\ OnPEs(flag')
        /\ \A q \in PE \ {p} : flag'[q] = flag[q]
    BY <1>5, ActsFlags DEF Mte3Step
  <2>4. FlagsOf(code[p], mte2[p], Tail(mte3[p]), flag'[p])
    BY <1>3, <2>1, <2>3, FlagsTake3
  <2>5. Still(mte3[p]) => Still(Tail(mte3[p]))
    BY <1>3, <2>1, StillParts
  <2>6. Flags(p)'
    BY <1>1, <1>2, <2>1, <2>2, <2>4, <2>5, FlagsKept DEF Under
  <2> QED BY <1>2, <2>1, <2>2, <2>3, <2>6, FlagsMove
<1> QED BY <1>4, <1>5

(* The steps that touch neither the pipes nor the calls of the core. *)
LEMMA AsideFlags ==
  ASSUME FlagInv, todo' = todo, code' = code, mte2' = mte2, mte3' = mte3, flag' = flag,
         stream' = stream
  PROVE  FlagInv'
BY DEF FlagInv, OnPEs, Flags, Under, Behind

LEMMA PostsFlags ==
  ASSUME RmaInv, FlagInv, NEW p \in PE, HostPosts(p)
  PROVE  FlagInv'
<1> DEFINE c == Head(script[p])
<1>1. AllOnPEs /\ Wired(p) /\ Flags(p)
  BY DEF RmaInv, FlagInv
<1>2. /\ stream' = [stream EXCEPT ![p] = Append(@, Kernel(c))] /\ c.api \notin Others
      /\ script[p] # <<>> /\ todo' = todo /\ code' = code /\ mte2' = mte2 /\ mte3' = mte3
      /\ flag' = flag
  BY DEF HostPosts, deviceVars
<1>3. c \in HostCalls(p)
  BY <1>1, <1>2, CalledWired DEF Wired
<1> HIDE DEF c
<1>4. stream'[p] = Append(stream[p], Kernel(c)) /\ \A q \in PE \ {p} : stream'[q] = stream[q]
  BY <1>1, <1>2 DEF AllOnPEs, OnPEs
<1>5. Orderly(p, Kernel(c))
  BY <1>2, <1>3, OrderAssumption
<1>6. \A k \in 1 .. Len(stream'[p]) : Orderly(p, stream'[p][k])
  <2>1. \A k \in 1 .. Len(stream'[p]) :
          \/ k \in 1 .. Len(stream[p]) /\ stream'[p][k] = stream[p][k]
          \/ stream'[p][k] = Kernel(c)
    <3>1. stream[p] \in Seq(Seq(DeviceCalls(p)))
      BY <1>1 DEF Wired
    <3> QED BY <1>4, <3>1
  <2> QED BY <1>1, <1>5, <2>1 DEF Flags
<1>7. Flags(p)'
  BY <1>1, <1>2, <1>6 DEF Flags, Under, Behind
<1> QED BY <1>2, <1>4, <1>7, FlagsMove DEF FlagInv

LEMMA FlagsStep == JobInv /\ NamesInv /\ RmaInv /\ FlagInv /\ [Next]_vars => FlagInv'
<1> SUFFICES ASSUME JobInv, NamesInv, RmaInv, FlagInv, [Next]_vars PROVE FlagInv'
  OBVIOUS
<1>1. CASE UNCHANGED vars \/ UNCHANGED rmaVars
  BY <1>1, AsideFlags DEF vars, rmaVars, deviceVars
<1>2. CASE Decide
  BY <1>2, AsideFlags DEF Decide, deviceVars
<1>3. ASSUME NEW p \in PE, Works(p)
      PROVE  FlagInv'
  <2>1. CASE shmem_g_host(p) \/ shmem_mte_set_ub_params(p) \/ Synchronize(p) \/ NicStep(p)
    BY <2>1, AsideFlags DEF shmem_g_host, shmem_mte_set_ub_params, Synchronize, NicStep, deviceVars
  <2> QED BY <1>3, <2>1, PostsFlags, StartKernelFlags, StartCallFlags, IssueToPipeFlags,
             IssuedFlags, PipeFlags DEF Works, Core, HostAtWork
<1> QED BY <1>1, <1>2, <1>3 DEF Next

(* The heaps and the unified buffers keep their size. *)
MemInv == \A m \in Memories : DOMAIN mem[m] = 0 .. Size(m) - 1

LEMMA SameCells ==
  ASSUME NEW a, NEW m
  PROVE  /\ \A x : DOMAIN Moved(a, x)[m] = DOMAIN a[m]
         /\ \A op, x, val : DOMAIN Written(a, op, x, val)[m] = DOMAIN a[m]
BY DEF Moved, Written

LEMMA MemStep == MemInv /\ [Next]_vars => MemInv'
<1> SUFFICES ASSUME MemInv, [Next]_vars PROVE MemInv'
  OBVIOUS
<1>1. CASE mem' = mem
  BY <1>1 DEF MemInv
<1>2. CASE (\E x : mem' = Moved(mem, x)) \/ (\E op, x, val : mem' = Written(mem, op, x, val))
  BY <1>2, SameCells DEF MemInv
<1>3. CASE UNCHANGED vars \/ UNCHANGED rmaVars
  BY <1>1, <1>3 DEF vars, rmaVars, deviceVars
<1>4. CASE Decide
  BY <1>1, <1>4 DEF Decide, deviceVars
<1>5. ASSUME NEW p \in PE, Works(p)
      PROVE  MemInv'
  <2>1. CASE StartKernel(p) \/ StartCall(p) \/ IssueToPipe(p) \/ IssuePost(p) \/ ReadWord(p) \/ Proceed(p)
    BY <1>1, <2>1 DEF StartKernel, StartCall, IssueToPipe, IssuePost, ReadWord, Proceed
  <2>2. CASE HostAtWork(p)
    BY <1>1, <2>2 DEF HostAtWork, HostPosts, shmem_g_host, shmem_mte_set_ub_params, Synchronize,
      deviceVars
  <2>3. CASE WriteWord(p)
    BY <1>2, <2>3 DEF WriteWord
  <2>4. CASE Mte2Step(p) \/ Mte3Step(p)
    BY <1>1, <1>2, <2>4 DEF Mte2Step, Mte3Step, Executes
  <2>5. CASE NicStep(p)
    BY <1>2, <2>5 DEF NicStep
  <2> QED BY <1>5, <2>1, <2>2, <2>3, <2>4, <2>5 DEF Works, Core
<1> QED BY <1>3, <1>4, <1>5 DEF Next

(* For every job and every program that keeps to ProgramAssumption and     *)
(* OrderAssumption, the event flags of the copies are used in turn: none   *)
(* is set twice before it is waited for, and none is left when a kernel    *)
(* ends, whatever the sizes of copies and buffers and however far the      *)
(* pipes lag behind the scalar unit.                                       *)
THEOREM FlagsInTurn == Spec => []TypeOK
<1>1. Init => JobInv /\ NamesInv /\ RmaInv /\ FlagInv /\ MemInv
  BY InitInv, NamesInit, RmaInitInv, FlagInitInv DEF Init, RmaInit, MemInv
<1>2. /\ JobInv /\ NamesInv /\ RmaInv /\ FlagInv /\ MemInv /\ [Next]_vars
      => JobInv' /\ NamesInv' /\ RmaInv' /\ FlagInv' /\ MemInv'
  BY StepInv, HostsOnly, NamesStep, RmaStep, FlagsStep, MemStep
<1>3. FlagInv /\ MemInv /\ HostTypeOK => TypeOK
  <2> SUFFICES ASSUME FlagInv, MemInv, HostTypeOK PROVE TypeOK
    OBVIOUS
  <2>1. ASSUME NEW p \in PE
        PROVE  /\ \A e \in Events : flag[p][e] \in {0, 1}
               /\ Idling(p) => \A e \in Events : flag[p][e] = 0
    <3>1. FlagsOf(code[p], mte2[p], mte3[p], flag[p])
      BY DEF FlagInv, Flags
    <3> QED BY <3>1, FlagsBound DEF Idling
  <2> QED BY <2>1 DEF TypeOK, MemInv
<1> QED BY <1>1, <1>2, <1>3, HostTypeCorrect, PTL DEF Spec
=============================================================================
