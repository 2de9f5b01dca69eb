----------------------------- MODULE MemoryHeap -----------------------------
(***************************************************************************)
(* memory_heap of shmem_mm.cpp: the allocator behind shmem_malloc,         *)
(* shmem_calloc, shmem_align and shmem_free, which carves blocks out of    *)
(* the symmetric heap of one PE.                                           *)
(*                                                                         *)
(* Two std::map from offsets to sizes hold the idle and the used blocks,   *)
(* and a std::set holds the idle blocks ordered by size: all three are     *)
(* sets of blocks here, in which an offset appears once for the maps.  A   *)
(* spin lock is held over each operation, which is one step.  Calls that   *)
(* return an error change nothing.                                         *)
(*                                                                         *)
(* aligned_allocate takes the block it splits out of the set by size and   *)
(* leaves it in the idle map.  As long as nothing is freed the idle map is *)
(* not read but for the existence of an offset; the first release after it *)
(* may merge with a block that is not idle.  The history variable tells    *)
(* these phases apart: the heap's promises are stated for the first two.   *)
(***************************************************************************)
EXTENDS Integers

CONSTANTS
  HeapSize,     \* size_ and g_state.heap_size, in bytes
  Grain,        \* sizes are rounded up to a multiple of it, 16 in the code
  MaxAlign      \* the largest alignment the application asks for

ASSUME HeapAssumption ==
  /\ HeapSize \in Nat \ {0}
  /\ Grain \in Nat \ {0}
  /\ MaxAlign \in Nat \ {0}

VARIABLES
  idle,         \* address_idle_tree_
  used,         \* address_used_tree_
  bySize,       \* size_idle_tree_
  history       \* "plain" until an aligned allocation, "aligned" until the
                \* first release after it, then "mixed"

vars == <<idle, used, bySize, history>>

Block(o, s) == [offset |-> o, size |-> s]
End(b) == b.offset + b.size

Blocks == [offset : Nat, size : Nat \ {0}]

TypeOK ==
  /\ idle \in SUBSET Blocks
  /\ used \in SUBSET Blocks
  /\ bySize \in SUBSET Blocks
  /\ history \in {"plain", "aligned", "mixed"}

Init ==
  /\ idle = {Block(0, HeapSize)}
  /\ used = {}
  /\ bySize = {Block(0, HeapSize)}
  /\ history = "plain"

-----------------------------------------------------------------------------

Has(S, o) == \E b \in S : b.offset = o

(* std::map::emplace: an offset that is there already keeps its size. *)
Emplace(S, R) == S \cup {r \in R : ~ Has(S, r.offset)}

(* allocated_size_align_up *)
AlignUp(n) == ((n + Grain - 1) \div Grain) * Grain

(* range_size_first_comparator *)
Precedes(b, c) == b.size < c.size \/ (b.size = c.size /\ b.offset < c.offset)

IsFirst(b, S) == b \in S /\ \A c \in S : c = b \/ Precedes(b, c)

(* The blocks from size_idle_tree_.lower_bound({0, aligned_size}) on. *)
Fitting(n) == {b \in bySize : AlignUp(n) <= b.size}

(* Mutant: an empty remainder is kept as well. *)
RestEmpty(o, e) == IF o <= e THEN {Block(o, e - o)} ELSE {}

(* Mutant: a remainder of no use is forgotten. *)
RestUseful(o, e) == IF o + Grain <= e THEN {Block(o, e - o)} ELSE {}

(* What is left of a block between o and its end e. *)
Rest(o, e) == IF o < e THEN {Block(o, e - o)} ELSE {}

(* allocate, for a size that is not refused at once. *)
Allocate(n) ==
  /\ n \in 1 .. HeapSize
  /\ \E b \in Fitting(n) :
       LET rest == Rest(b.offset + AlignUp(n), End(b)) IN
       /\ IsFirst(b, Fitting(n))
       /\ Has(idle, b.offset)
       /\ bySize' = (bySize \ {b}) \cup rest
       /\ idle' = Emplace({c \in idle : c.offset # b.offset}, rest)
       /\ used' = Emplace(used, {Block(b.offset, AlignUp(n))})
  /\ UNCHANGED history

PowerOfTwo(a) == \E e \in 0 .. a : 2 ^ e = a

(* alignment_matches: the bytes to skip to reach a multiple of a. *)
HeadSkip(b, a) == IF b.offset % a = 0 THEN 0 ELSE a - (b.offset % a)

(* Mutant: the bytes skipped do not count. *)
FittingAtLoose(a, n) == {b \in bySize : AlignUp(n) <= b.size}

FittingAt(a, n) == {b \in bySize : HeadSkip(b, a) + AlignUp(n) <= b.size}

(* aligned_allocate, for arguments that are not refused at once. *)
AlignedAllocate(a, n) ==
  /\ n \in 1 .. HeapSize
  /\ PowerOfTwo(a)
  /\ \E b \in FittingAt(a, n) :
       LET start == b.offset + HeadSkip(b, a)
           head == Rest(b.offset, start)
           rest == Rest(start + AlignUp(n), End(b)) IN
       /\ IsFirst(b, FittingAt(a, n))
       /\ bySize' = (bySize \ {b}) \cup head \cup rest
       /\ idle' = Emplace(Emplace(idle, head), rest)
       /\ used' = Emplace(used, {Block(start, AlignUp(n))})
  /\ history' = IF history = "plain" THEN "aligned" ELSE history

(* Mutant: a freed block is not merged with the one before it. *)
BeforeNone(o) == {}

(* The idle block right before offset o: the one lower_bound(o) steps back *)
(* to, if it ends at o.                                                    *)
Before(o) ==
  {c \in idle : c.offset < o /\ End(c) = o
                /\ \A d \in idle : d.offset < o => d.offset <= c.offset}

(* The idle block right after a used one. *)
After(e) == {c \in idle : c.offset = e}

(* release, of an address that was allocated. *)
Release(b) ==
  /\ b \in used
  /\ \E s \in IF Before(b.offset) = {} THEN {b.offset}
              ELSE {c.offset : c \in Before(b.offset)},
        e \in IF After(End(b)) = {} THEN {End(b)} ELSE {End(c) : c \in After(End(b))} :
       LET merged == Before(b.offset) \cup After(End(b)) IN
       /\ bySize' = (bySize \ merged) \cup {Block(s, e - s)}
       /\ idle' = Emplace(idle \ merged, {Block(s, e - s)})
  /\ used' = used \ {b}
  /\ history' = IF history = "aligned" THEN "mixed" ELSE history

Next ==
  \/ \E n \in 1 .. HeapSize : Allocate(n)
  \/ \E a \in 1 .. MaxAlign, n \in 1 .. HeapSize : AlignedAllocate(a, n)
  \/ \E b \in used : Release(b)

Spec == Init /\ [][Next]_vars

(* The states TLC goes on from. *)
NotMixed == history # "mixed"

-----------------------------------------------------------------------------

Disjoint(b, c) == End(b) <= c.offset \/ End(c) <= b.offset

Apart(S) ==
  /\ \A b \in S : End(b) <= HeapSize
  /\ \A b, c \in S : b = c \/ Disjoint(b, c)

(* Two allocations never share a byte of the heap.  This is what the       *)
(* application relies on, whatever it called before.                       *)
NeverOverlap == Apart(used)

(* The same up to the first release after an aligned allocation. *)
BlocksApart == NotMixed => Apart(used)

(* The idle blocks by size are apart from each other and from the used     *)
(* blocks, ...                                                             *)
Separate ==
  /\ Apart(used)
  /\ Apart(bySize)
  /\ \A b \in used, c \in bySize : Disjoint(b, c)

(* ... they and the used blocks fill the heap, ...                         *)
Covered ==
  \A x \in 0 .. HeapSize - 1 :
    \E b \in used \cup bySize : b.offset <= x /\ x < End(b)

(* ... no two of them touch, ...                                           *)
Coalesced == \A b, c \in bySize : End(b) # c.offset

(* ... and the idle map knows them, and until an aligned allocation no     *)
(* others.                                                                 *)
Listed ==
  /\ \A b \in bySize : Has(idle, b.offset)
  /\ history = "plain" => idle = bySize

(* The inductive invariant. *)
Inv ==
  /\ TypeOK
  /\ NotMixed => Separate /\ Covered /\ Coalesced /\ Listed

(* No byte is lost: each is in a used block or in a block of the set by    *)
(* size, and in one only.                                                  *)
NothingLost ==
  NotMixed => \A x \in 0 .. HeapSize - 1 :
                \E b \in used \cup bySize :
                  /\ b.offset <= x /\ x < End(b)
                  /\ \A c \in used \cup bySize :
                       c.offset <= x /\ x < End(c) => b = c

(* n bytes from o on belong to no allocation. *)
FreeAt(o, n) ==
  /\ o + n <= HeapSize
  /\ \A b \in used : End(b) <= o \/ o + n <= b.offset

(* A request is refused only if nowhere in the heap there is room for it:  *)
(* freed blocks are merged with all their idle neighbours.                 *)
RefusedOnlyIfFull ==
  NotMixed => \A n \in 1 .. HeapSize, o \in 0 .. HeapSize :
    FreeAt(o, AlignUp(n)) =>
      /\ Fitting(n) # {}
      /\ \A b \in Fitting(n) : Has(idle, b.offset)
      /\ \A a \in 1 .. MaxAlign : o % a = 0 => FittingAt(a, n) # {}
=============================================================================
