-------------------------- MODULE MemoryHeapProofs --------------------------
(***************************************************************************)
(* TLAPS proofs about the allocator, for every heap size, granularity and  *)
(* range of alignments.                                                    *)
(***************************************************************************)
EXTENDS MemoryHeap, TLAPS

(* Division with remainder, and products of integers. *)
LEMMA Division ==
  ASSUME NEW k \in Nat, 0 < k, NEW a \in Nat
  PROVE  /\ a \div k \in Int
         /\ a % k \in 0 .. k - 1
         /\ a = k * (a \div k) + (a % k)
OBVIOUS

LEMMA MultipleAtLeast ==
  ASSUME NEW k \in Nat, 0 < k, NEW m \in Int, 1 <= m
  PROVE  k <= k * m
OBVIOUS

LEMMA Products ==
  ASSUME NEW k \in Nat, NEW m \in Int, NEW n \in Int
  PROVE  /\ k * m \in Int /\ k * (m - n) \in Int
         /\ k * m - k * n = k * (m - n)
         /\ m * k = k * m
OBVIOUS

(* The rounded size is a number of bytes that holds the request and wastes *)
(* less than a grain.                                                      *)
LEMMA AlignUpHolds ==
  ASSUME NEW n \in Nat
  PROVE  AlignUp(n) \in Nat /\ n <= AlignUp(n) /\ AlignUp(n) < n + Grain
<1> DEFINE a == n + Grain - 1
           q == a \div Grain
           r == a % Grain
<1>1. Grain \in Nat /\ 0 < Grain /\ a \in Nat
  BY HeapAssumption
<1>2. q \in Int /\ r \in 0 .. Grain - 1 /\ a = Grain * q + r
  BY <1>1, Division
<1>3. AlignUp(n) = q * Grain
  BY DEF AlignUp
<1>4. Grain * q \in Int /\ q * Grain = Grain * q
  BY <1>1, <1>2
<1>5. a = n + Grain - 1
  OBVIOUS
<1> HIDE DEF a, q, r
<1> QED BY <1>1, <1>2, <1>3, <1>4, <1>5

(* Skipping leads to the first multiple of the alignment in the block. *)
LEMMA HeadSkipFirst ==
  ASSUME NEW b \in Blocks, NEW a \in Nat, 0 < a
  PROVE  /\ HeadSkip(b, a) \in Nat
         /\ \A o \in Nat : b.offset <= o /\ (o % a) = 0 => b.offset + HeadSkip(b, a) <= o
<1> DEFINE x == b.offset
           q == x \div a
           r == x % a
<1>1. x \in Nat
  BY DEF Blocks
<1>2. q \in Int /\ r \in 0 .. a - 1 /\ x = a * q + r
  BY <1>1, Division
<1>3. HeadSkip(b, a) = IF r = 0 THEN 0 ELSE a - r
  BY DEF HeadSkip
<1>4. ASSUME NEW o \in Nat, x <= o, (o % a) = 0
      PROVE  x + HeadSkip(b, a) <= o
  <2> DEFINE p == o \div a
  <2>1. p \in Int /\ o = a * p
    <3>1. p \in Int /\ o = a * p + (o % a)
      BY Division
    <3> QED BY <1>4, <3>1
  <2>2. a * p \in Int /\ a * q \in Int /\ a * (p - q) \in Int /\ a * p - a * q = a * (p - q)
    BY <1>2, <2>1, Products
  <2> HIDE DEF x, q, r, p
  <2>3. CASE r = 0
    BY <2>3, <1>1, <1>3, <1>4
  <2>4. CASE r # 0
    <3>1. o - x = a * (p - q) - r
      BY <1>2, <2>1, <2>2
    <3>2. 0 < a * (p - q)
      BY <1>1, <1>2, <1>4, <2>2, <2>4, <3>1
    <3>3. 1 <= p - q
      <4>1. CASE p - q <= 0
        <5>1. a * (p - q) <= 0
          BY <4>1, <1>2, <2>1
        <5> QED BY <3>2, <5>1, <2>2
      <4> QED BY <4>1, <1>2, <2>1
    <3>4. a <= a * (p - q)
      BY <3>3, <1>2, <2>1, MultipleAtLeast
    <3> QED BY <1>1, <1>2, <1>3, <2>2, <2>4, <3>1, <3>4
  <2> QED BY <2>3, <2>4
<1>5. HeadSkip(b, a) \in Nat
  <2> HIDE DEF r
  <2> QED BY <1>2, <1>3
<1> QED BY <1>4, <1>5

-----------------------------------------------------------------------------

(* What Rest and Block build. *)
LEMMA RestParts ==
  ASSUME NEW o \in Nat, NEW e \in Nat
  PROVE  \A d \in Rest(o, e) :
           d \in Blocks /\ d = Block(o, e - o) /\ d.offset = o /\ End(d) = e /\ o < e
BY DEF Rest, Block, Blocks, End

LEMMA BlockParts ==
  ASSUME NEW o \in Nat, NEW n \in Nat
  PROVE  /\ Block(o, n).offset = o /\ Block(o, n).size = n /\ End(Block(o, n)) = o + n
         /\ 0 < n => Block(o, n) \in Blocks
BY DEF Block, Blocks, End

(* What is common to the two ways to carve m bytes from start on out of an *)
(* idle block b.                                                           *)
Carved(b, start, m) ==
  LET head == Rest(b.offset, start)
      rest == Rest(start + m, End(b)) IN
  /\ b \in bySize /\ start \in Nat /\ m \in Nat /\ 0 < m
  /\ b.offset <= start /\ start + m <= End(b)
  /\ bySize' = (bySize \ {b}) \cup head \cup rest
  /\ used' = Emplace(used, {Block(start, m)})

(* The initial states satisfy the invariant. *)
LEMMA InitInv == Init => Inv
<1> SUFFICES ASSUME Init PROVE Inv
  OBVIOUS
<1>1. HeapSize \in Nat /\ 0 < HeapSize
  BY HeapAssumption
<1> DEFINE b == Block(0, HeapSize)
<1>2. b \in Blocks /\ b.offset = 0 /\ End(b) = HeapSize
  BY <1>1, BlockParts
<1> HIDE DEF b
<1>3. idle = {b} /\ used = {} /\ bySize = {b} /\ history = "plain"
  BY DEF Init, b
<1> QED BY <1>1, <1>2, <1>3 DEF Inv, TypeOK, Separate, Apart, Covered, Coalesced, Listed, Has

LEMMA CarvedTypes ==
  ASSUME TypeOK, NEW b, NEW start, NEW m, Carved(b, start, m)
  PROVE  used' \in SUBSET Blocks /\ bySize' \in SUBSET Blocks
<1>1. b \in Blocks /\ start + m \in Nat /\ b.offset \in Nat /\ End(b) \in Nat /\ start \in Nat
      /\ m \in Nat /\ 0 < m
  BY DEF Carved, TypeOK, Blocks, End
<1>2. Rest(b.offset, start) \subseteq Blocks /\ Rest(start + m, End(b)) \subseteq Blocks
  BY <1>1, RestParts
<1>3. Block(start, m) \in Blocks
  BY <1>1, BlockParts
<1> QED BY <1>2, <1>3 DEF Carved, TypeOK, Emplace

(* Carving keeps the blocks apart, the heap covered and the idle blocks    *)
(* from touching each other.                                               *)
LEMMA CarvedKeeps ==
  ASSUME TypeOK, Separate, Covered, Coalesced, NEW b, NEW start, NEW m, Carved(b, start, m)
  PROVE  Separate' /\ Covered' /\ Coalesced'
<1> DEFINE t == Block(start, m)
           P == Rest(b.offset, start) \cup Rest(start + m, End(b))
<1>1. /\ b \in Blocks /\ b \in bySize /\ b.offset \in Nat /\ End(b) \in Nat
      /\ start \in Nat /\ m \in Nat /\ 0 < m /\ b.offset <= start /\ start + m <= End(b)
      /\ End(b) <= HeapSize /\ HeapSize \in Nat
  BY HeapAssumption DEF Carved, TypeOK, Blocks, End, Separate, Apart
<1>2. /\ used \subseteq Blocks /\ bySize \subseteq Blocks
      /\ \A d \in Blocks : d.offset \in Nat /\ End(d) \in Nat /\ d.offset < End(d)
  BY DEF TypeOK, Blocks, End
<1>3. t \in Blocks /\ t.offset = start /\ End(t) = start + m
  BY <1>1, BlockParts
<1>4. \A d \in P : /\ d \in Blocks
                   /\ \/ d.offset = b.offset /\ End(d) = start
                      \/ d.offset = start + m /\ End(d) = End(b)
  BY <1>1, RestParts
<1>5. \A d, e \in P : d = e \/ Disjoint(d, e)
  <2>1. \A d, e \in Rest(b.offset, start) : d = e
    BY DEF Rest
  <2>2. \A d, e \in Rest(start + m, End(b)) : d = e
    BY DEF Rest
  <2>3. \A d \in Rest(b.offset, start), e \in Rest(start + m, End(b)) :
          Disjoint(d, e) /\ Disjoint(e, d)
    BY <1>1, RestParts DEF Disjoint
  <2> QED BY <2>1, <2>2, <2>3
<1>6. \A x \in b.offset .. End(b) - 1 :
        \/ start <= x /\ x < start + m
        \/ \E d \in P : d.offset <= x /\ x < End(d)
  <2>1. ASSUME NEW x \in b.offset .. End(b) - 1, x < start
        PROVE  \E d \in P : d.offset <= x /\ x < End(d)
    <3>1. Block(b.offset, start - b.offset) \in Rest(b.offset, start)
      BY <1>1, <2>1 DEF Rest
    <3> QED BY <3>1, <2>1, <1>1, RestParts
  <2>2. ASSUME NEW x \in b.offset .. End(b) - 1, start + m <= x
        PROVE  \E d \in P : d.offset <= x /\ x < End(d)
    <3>1. Block(start + m, End(b) - (start + m)) \in Rest(start + m, End(b))
      BY <1>1, <2>2 DEF Rest
    <3> QED BY <3>1, <2>2, <1>1, RestParts
  <2> QED BY <1>1, <2>1, <2>2
<1>7. bySize' = (bySize \ {b}) \cup P
  BY DEF Carved
<1> HIDE DEF P
<1>8. used' = used \cup {t}
  <2>1. \A c \in used : c.offset # start
    BY <1>1, <1>2 DEF Separate, Disjoint
  <2> QED BY <2>1, <1>3 DEF Carved, Emplace, Has
<1> HIDE DEF t
<1>9. \A d \in bySize \ {b} : d \in Blocks /\ Disjoint(d, b) /\ End(d) <= HeapSize
  BY <1>1, <1>2 DEF Separate, Apart
<1>10. \A d \in used : d \in Blocks /\ Disjoint(d, b) /\ End(d) <= HeapSize
  BY <1>1, <1>2 DEF Separate, Apart
<1>11. Separate'
  <2>1. Apart(used)'
    BY <1>1, <1>2, <1>3, <1>8, <1>10 DEF Separate, Apart, Disjoint
  <2>2. Apart(bySize)'
    <3>1. \A d \in bySize' : End(d) <= HeapSize
      BY <1>1, <1>2, <1>4, <1>7, <1>9
    <3>2. \A d \in bySize \ {b}, e \in P : Disjoint(d, e) /\ Disjoint(e, d)
      BY <1>1, <1>2, <1>4, <1>9 DEF Disjoint
    <3>3. \A d, e \in bySize \ {b} : d = e \/ Disjoint(d, e)
      BY DEF Separate, Apart
    <3> QED BY <3>1, <3>2, <3>3, <1>5, <1>7 DEF Apart
  <2>3. \A d \in used', e \in bySize' : Disjoint(d, e)
    <3>1. \A d \in used, e \in P : Disjoint(d, e)
      BY <1>1, <1>2, <1>4, <1>10 DEF Disjoint
    <3>2. \A e \in bySize \ {b} : Disjoint(t, e)
      BY <1>1, <1>2, <1>3, <1>9 DEF Disjoint
    <3>3. \A e \in P : Disjoint(t, e)
      BY <1>1, <1>2, <1>3, <1>4 DEF Disjoint
    <3>4. \A d \in used, e \in bySize \ {b} : Disjoint(d, e)
      BY DEF Separate
    <3> QED BY <3>1, <3>2, <3>3, <3>4, <1>7, <1>8
  <2> QED BY <2>1, <2>2, <2>3 DEF Separate
<1>12. Covered'
  <2> SUFFICES ASSUME NEW x \in 0 .. HeapSize - 1
               PROVE  \E d \in used' \cup bySize' : d.offset <= x /\ x < End(d)
    BY DEF Covered
  <2>1. PICK d \in used \cup bySize : d.offset <= x /\ x < End(d)
    BY DEF Covered
  <2>2. CASE d # b
    BY <2>1, <2>2, <1>7, <1>8
  <2>3. CASE d = b
    <3>1. x \in b.offset .. End(b) - 1
      BY <2>1, <2>3, <1>1
    <3>2. CASE start <= x /\ x < start + m
      BY <3>2, <1>3, <1>8
    <3>3. CASE \E f \in P : f.offset <= x /\ x < End(f)
      BY <3>3, <1>7
    <3> QED BY <3>1, <3>2, <3>3, <1>6
  <2> QED BY <2>2, <2>3
<1>13. Coalesced'
  <2>1. \A d \in bySize \ {b}, e \in P : End(d) # e.offset /\ End(e) # d.offset
    <3> SUFFICES ASSUME NEW d \in bySize \ {b}, NEW e \in P
                 PROVE  End(d) # e.offset /\ End(e) # d.offset
      OBVIOUS
    <3>1. End(d) # b.offset /\ End(b) # d.offset
      BY <1>1 DEF Coalesced
    <3>2. e \in Blocks /\ d \in Blocks /\ Disjoint(d, b)
      BY <1>4, <1>9
    <3> QED BY <3>1, <3>2, <1>1, <1>2, <1>4 DEF Disjoint
  <2>2. \A d, e \in P : End(d) # e.offset
    BY <1>1, <1>2, <1>4
  <2>3. \A d, e \in bySize \ {b} : End(d) # e.offset
    BY DEF Coalesced
  <2> QED BY <2>1, <2>2, <2>3, <1>7 DEF Coalesced
<1> QED BY <1>11, <1>12, <1>13
(* allocate and aligned_allocate carve. *)
LEMMA AllocateCarves ==
  ASSUME TypeOK, NEW n \in 1 .. HeapSize, Allocate(n)
  PROVE  \E b \in bySize :
           /\ Carved(b, b.offset, AlignUp(n))
           /\ idle' = Emplace({c \in idle : c.offset # b.offset},
                             Rest(b.offset + AlignUp(n), End(b)))
<1>1. n \in Nat /\ 0 < n /\ AlignUp(n) \in Nat /\ n <= AlignUp(n)
  BY AlignUpHolds, HeapAssumption
<1>2. PICK b \in Fitting(n) :
        /\ bySize' = (bySize \ {b}) \cup Rest(b.offset + AlignUp(n), End(b))
        /\ idle' = Emplace({c \in idle : c.offset # b.offset},
                          Rest(b.offset + AlignUp(n), End(b)))
        /\ used' = Emplace(used, {Block(b.offset, AlignUp(n))})
  BY DEF Allocate
<1>3. b \in bySize /\ b.offset \in Nat /\ b.size \in Nat /\ AlignUp(n) <= b.size
  BY <1>2 DEF Fitting, TypeOK, Blocks
<1>4. Rest(b.offset, b.offset) = {}
  BY <1>3 DEF Rest
<1>5. Carved(b, b.offset, AlignUp(n))
  BY <1>1, <1>2, <1>3, <1>4 DEF Carved, End
<1> QED BY <1>2, <1>3, <1>5

LEMMA AlignedCarves ==
  ASSUME TypeOK, NEW a \in 1 .. MaxAlign, NEW n \in 1 .. HeapSize, AlignedAllocate(a, n)
  PROVE  \E b \in bySize, start \in Nat :
           /\ Carved(b, start, AlignUp(n))
           /\ idle' = Emplace(Emplace(idle, Rest(b.offset, start)),
                             Rest(start + AlignUp(n), End(b)))
<1>1. n \in Nat /\ 0 < n /\ AlignUp(n) \in Nat /\ n <= AlignUp(n)
  BY AlignUpHolds, HeapAssumption
<1>2. PICK b \in FittingAt(a, n) :
        LET start == b.offset + HeadSkip(b, a)
            head == Rest(b.offset, start)
            rest == Rest(start + AlignUp(n), End(b)) IN
        /\ bySize' = (bySize \ {b}) \cup head \cup rest
        /\ idle' = Emplace(Emplace(idle, head), rest)
        /\ used' = Emplace(used, {Block(start, AlignUp(n))})
  BY DEF AlignedAllocate
<1> DEFINE start == b.offset + HeadSkip(b, a)
<1>3. b \in bySize /\ b \in Blocks /\ HeadSkip(b, a) + AlignUp(n) <= b.size
  BY <1>2 DEF FittingAt, TypeOK
<1>4. HeadSkip(b, a) \in Nat /\ b.offset \in Nat /\ b.size \in Nat
  <2>1. a \in Nat /\ 0 < a
    BY HeapAssumption
  <2> QED BY <1>3, <2>1, HeadSkipFirst DEF Blocks
<1>5. start \in Nat /\ b.offset <= start /\ start + AlignUp(n) <= End(b)
  BY <1>1, <1>3, <1>4 DEF End
<1>6. Carved(b, start, AlignUp(n))
  BY <1>1, <1>2, <1>3, <1>5 DEF Carved
<1> QED BY <1>2, <1>3, <1>5, <1>6

(* The idle map after an allocation. *)
LEMMA AllocateStep ==
  ASSUME Inv, NEW n \in 1 .. HeapSize, Allocate(n)
  PROVE  Inv'
<1>1. TypeOK
  BY DEF Inv
<1>2. PICK b \in bySize :
        /\ Carved(b, b.offset, AlignUp(n))
        /\ idle' = Emplace({c \in idle : c.offset # b.offset},
                          Rest(b.offset + AlignUp(n), End(b)))
  BY <1>1, AllocateCarves
<1> DEFINE rest == Rest(b.offset + AlignUp(n), End(b))
<1>3. history' = history
  BY DEF Allocate
<1>4. /\ b \in Blocks /\ b.offset \in Nat /\ End(b) \in Nat
      /\ AlignUp(n) \in Nat /\ 0 < AlignUp(n)
  BY <1>1, <1>2 DEF TypeOK, Blocks, End, Carved
<1>5. \A d \in rest : d \in Blocks /\ d.offset = b.offset + AlignUp(n) /\ End(d) = End(b)
                      /\ d.offset < End(b)
  BY <1>4, RestParts
<1>6. bySize' = (bySize \ {b}) \cup rest
  <2>1. Rest(b.offset, b.offset) = {}
    BY <1>4 DEF Rest
  <2> QED BY <1>2, <2>1 DEF Carved
<1>7. idle' = Emplace({c \in idle : c.offset # b.offset}, rest)
  BY <1>2
<1> HIDE DEF rest
<1>8. TypeOK'
  <2>1. used' \in SUBSET Blocks /\ bySize' \in SUBSET Blocks
    BY <1>1, <1>2, CarvedTypes
  <2>2. idle' \in SUBSET Blocks
    BY <1>1, <1>5, <1>7 DEF Emplace, TypeOK
  <2> QED BY <1>1, <1>3, <2>1, <2>2 DEF TypeOK
<1>9. ASSUME NotMixed'
      PROVE  Separate' /\ Covered' /\ Coalesced' /\ Listed'
  <2>1. Separate /\ Covered /\ Coalesced /\ Listed
    BY <1>3, <1>9 DEF Inv, NotMixed
  <2>2. Separate' /\ Covered' /\ Coalesced'
    BY <1>1, <1>2, <2>1, CarvedKeeps
  <2>3. \A d \in bySize' : Has(idle', d.offset)
    <3> SUFFICES ASSUME NEW d \in bySize'
                 PROVE  \E c \in idle' : c.offset = d.offset
      BY DEF Has
    <3>1. CASE d \in bySize \ {b}
      <4>1. PICK c \in idle : c.offset = d.offset
        BY <2>1, <3>1 DEF Listed, Has
      <4>2. d.offset # b.offset
        <5>1. Disjoint(d, b) /\ d \in Blocks
          BY <1>1, <1>2, <2>1, <3>1 DEF Separate, Apart, TypeOK
        <5> QED BY <1>4, <5>1 DEF Disjoint, End, Blocks
      <4> QED BY <1>7, <4>1, <4>2 DEF Emplace
    <3>2. CASE d \in rest
      BY <1>7, <3>2 DEF Emplace, Has
    <3> QED BY <3>1, <3>2, <1>6
  <2>4. history' = "plain" => idle' = bySize'
    <3> SUFFICES ASSUME idle = bySize PROVE idle' = bySize'
      BY <1>3, <2>1 DEF Listed
    <3>1. \A c \in bySize \ {b} : c.offset < b.offset \/ End(b) <= c.offset
      <4> SUFFICES ASSUME NEW c \in bySize \ {b}
                   PROVE  c.offset < b.offset \/ End(b) <= c.offset
        OBVIOUS
      <4>1. Disjoint(c, b) /\ c \in Blocks
        BY <1>1, <1>2, <2>1 DEF Separate, Apart, TypeOK
      <4> QED BY <1>4, <4>1 DEF Disjoint, End, Blocks
    <3>2. {c \in idle : c.offset # b.offset} = bySize \ {b}
      <4>1. b.offset < End(b)
        BY <1>4 DEF End, Blocks
      <4> QED BY <1>4, <3>1, <4>1
    <3>3. \A r \in rest : ~ Has(bySize \ {b}, r.offset)
      BY <1>4, <1>5, <3>1 DEF Has
    <3> QED BY <1>6, <1>7, <3>2, <3>3 DEF Emplace
  <2> QED BY <2>2, <2>3, <2>4 DEF Listed
<1> QED BY <1>8, <1>9 DEF Inv

LEMMA AlignedStep ==
  ASSUME Inv, NEW a \in 1 .. MaxAlign, NEW n \in 1 .. HeapSize, AlignedAllocate(a, n)
  PROVE  Inv'
<1>1. TypeOK
  BY DEF Inv
<1>2. PICK b \in bySize, start \in Nat :
        /\ Carved(b, start, AlignUp(n))
        /\ idle' = Emplace(Emplace(idle, Rest(b.offset, start)),
                          Rest(start + AlignUp(n), End(b)))
  BY <1>1, AlignedCarves
<1> DEFINE head == Rest(b.offset, start)
           rest == Rest(start + AlignUp(n), End(b))
<1>3. /\ history' \in {"plain", "aligned", "mixed"} /\ history' # "plain"
      /\ history' # "mixed" => history # "mixed"
  BY <1>1 DEF AlignedAllocate, TypeOK
<1>4. b \in Blocks /\ b.offset \in Nat /\ End(b) \in Nat /\ start + AlignUp(n) \in Nat
  BY <1>1, <1>2 DEF TypeOK, Blocks, End, Carved
<1>5. head \subseteq Blocks /\ rest \subseteq Blocks
  BY <1>4, RestParts
<1>6. bySize' = (bySize \ {b}) \cup head \cup rest
  BY <1>2 DEF Carved
<1>7. idle' = Emplace(Emplace(idle, head), rest)
  BY <1>2
<1> HIDE DEF head, rest
<1>8. TypeOK'
  <2>1. used' \in SUBSET Blocks /\ bySize' \in SUBSET Blocks
    BY <1>1, <1>2, CarvedTypes
  <2>2. idle' \in SUBSET Blocks
    BY <1>1, <1>5, <1>7 DEF Emplace, TypeOK
  <2> QED BY <1>3, <2>1, <2>2 DEF TypeOK
<1>9. ASSUME NotMixed'
      PROVE  Separate' /\ Covered' /\ Coalesced' /\ Listed'
  <2>1. Separate /\ Covered /\ Coalesced /\ Listed
    BY <1>3, <1>9 DEF Inv, NotMixed
  <2>2. Separate' /\ Covered' /\ Coalesced'
    BY <1>1, <1>2, <2>1, CarvedKeeps
  <2>3. \A d \in bySize \cup head \cup rest : Has(idle', d.offset)
    BY <1>7, <2>1 DEF Emplace, Has, Listed
  <2> QED BY <1>3, <1>6, <2>2, <2>3 DEF Listed
<1> QED BY <1>8, <1>9 DEF Inv

(* What release merges: s and e are the ends of the merged block. *)
LEMMA ReleaseStep ==
  ASSUME Inv, NEW b \in used, Release(b)
  PROVE  Inv'
<1> DEFINE o == b.offset
           merged == Before(o) \cup After(End(b))
<1>1. TypeOK
  BY DEF Inv
<1>2. PICK s \in IF Before(o) = {} THEN {o} ELSE {c.offset : c \in Before(o)},
           e \in IF After(End(b)) = {} THEN {End(b)} ELSE {End(c) : c \in After(End(b))} :
        /\ bySize' = (bySize \ merged) \cup {Block(s, e - s)}
        /\ idle' = Emplace(idle \ merged, {Block(s, e - s)})
  BY DEF Release
<1>3. /\ used' = used \ {b}
      /\ history' = IF history = "aligned" THEN "mixed" ELSE history
  BY DEF Release
<1> DEFINE w == Block(s, e - s)
<1>4. \A d \in used \cup bySize \cup idle :
        d \in Blocks /\ d.offset \in Nat /\ End(d) \in Nat /\ d.offset < End(d)
  BY <1>1 DEF TypeOK, Blocks, End
<1>5. /\ s \in Nat /\ s <= o
      /\ \/ Before(o) = {} /\ s = o
         \/ \E c \in Before(o) : c \in idle /\ s = c.offset /\ End(c) = o /\ c.offset < o
  BY <1>2, <1>4 DEF Before
<1>6. /\ e \in Nat /\ End(b) <= e
      /\ \/ After(End(b)) = {} /\ e = End(b)
         \/ \E c \in After(End(b)) : c \in idle /\ e = End(c) /\ c.offset = End(b)
  BY <1>2, <1>4 DEF After
<1>7. o \in Nat /\ End(b) \in Nat /\ o < End(b)
  BY <1>4
<1>8. w \in Blocks /\ w.offset = s /\ End(w) = e /\ s < e
  BY <1>5, <1>6, <1>7 DEF Block, Blocks, End
<1>9. /\ bySize' = (bySize \ merged) \cup {w}
      /\ idle' = Emplace(idle \ merged, {w})
  BY <1>2
<1> HIDE DEF w, merged
<1>10. TypeOK'
  BY <1>1, <1>3, <1>8, <1>9 DEF TypeOK, Emplace
<1>11. ASSUME NotMixed'
       PROVE  Separate' /\ Covered' /\ Coalesced' /\ Listed'
  <2>1. /\ Separate /\ Covered /\ Coalesced /\ Listed
        /\ history = "plain" /\ history' = "plain" /\ idle = bySize
    BY <1>1, <1>3, <1>11 DEF Inv, NotMixed, TypeOK, Listed
  (* The merged block is b and its idle neighbours. *)
  <2>2. \A c \in merged : c \in bySize /\ s <= c.offset /\ End(c) <= e
    <3> SUFFICES ASSUME NEW c \in merged
                 PROVE  c \in bySize /\ s <= c.offset /\ End(c) <= e
      OBVIOUS
    <3>1. CASE c \in Before(o)
      <4>1. c \in bySize /\ c.offset < o /\ End(c) = o
        BY <2>1, <3>1 DEF Before
      <4>2. PICK d \in Before(o) : s = d.offset
        BY <1>5, <3>1
      <4>3. c.offset <= d.offset /\ d.offset <= c.offset
        BY <3>1 DEF Before
      <4> QED BY <1>4, <1>6, <1>7, <4>1, <4>2, <4>3 DEF Before
    <3>2. CASE c \in After(End(b))
      <4>1. c \in bySize /\ c.offset = End(b)
        BY <2>1, <3>2 DEF After
      <4>2. PICK d \in After(End(b)) : e = End(d)
        BY <1>6, <3>2
      <4>3. d \in bySize /\ d.offset = End(b)
        BY <2>1, <4>2 DEF After
      <4>4. d = c
        <5>1. d = c \/ Disjoint(d, c)
          BY <2>1, <4>1, <4>3 DEF Separate, Apart
        <5> QED BY <1>4, <4>1, <4>3, <5>1 DEF Disjoint
      <4> QED BY <1>4, <1>5, <1>7, <4>1, <4>2, <4>4
    <3> QED BY <3>1, <3>2 DEF merged
  <2>3. \A x \in s .. e - 1 : (o <= x /\ x < End(b))
                              \/ \E c \in merged : c.offset <= x /\ x < End(c)
    <3> SUFFICES ASSUME NEW x \in s .. e - 1, ~ (o <= x /\ x < End(b))
                 PROVE  \E c \in merged : c.offset <= x /\ x < End(c)
      OBVIOUS
    <3>1. CASE x < o
      BY <3>1, <1>5, <1>7 DEF merged
    <3>2. CASE End(b) <= x
      BY <3>2, <1>5, <1>6, <1>7 DEF merged
    <3> QED BY <3>1, <3>2, <1>5, <1>6, <1>7
  (* Nobody else has a byte of it. *)
  <2>4. e <= HeapSize
    BY <1>6, <2>1 DEF Separate, Apart
  <2>5. \A d \in (used \ {b}) \cup (bySize \ merged) : Disjoint(d, w) /\ Disjoint(w, d)
    <3> SUFFICES ASSUME NEW d \in (used \ {b}) \cup (bySize \ merged)
                 PROVE  End(d) <= s \/ e <= d.offset
      BY <1>8 DEF Disjoint
    <3>1. End(d) <= o \/ End(b) <= d.offset
      BY <2>1 DEF Separate, Apart, Disjoint
    <3>2. s = o \/ End(d) <= s \/ o <= d.offset
      <4> SUFFICES ASSUME s # o PROVE End(d) <= s \/ o <= d.offset
        OBVIOUS
      <4>1. PICK c \in Before(o) : c \in bySize /\ s = c.offset /\ End(c) = o
        BY <1>5, <2>1
      <4>2. Disjoint(c, d) \/ Disjoint(d, c)
        BY <2>1, <4>1 DEF Separate, Apart, merged
      <4> QED BY <4>1, <4>2 DEF Disjoint
    <3>3. e = End(b) \/ e <= d.offset \/ End(d) <= End(b)
      <4> SUFFICES ASSUME e # End(b) PROVE e <= d.offset \/ End(d) <= End(b)
        OBVIOUS
      <4>1. PICK c \in After(End(b)) : c \in bySize /\ e = End(c) /\ c.offset = End(b)
        BY <1>6, <2>1
      <4>2. Disjoint(c, d) \/ Disjoint(d, c)
        BY <2>1, <4>1 DEF Separate, Apart, merged
      <4> QED BY <4>1, <4>2 DEF Disjoint
    <3>4. d.offset \in Nat /\ End(d) \in Nat /\ d.offset < End(d)
      BY <1>4
    <3> QED BY <1>5, <1>6, <1>7, <3>1, <3>2, <3>3, <3>4
  <2>6. Separate'
    <3>1. Apart(used)'
      BY <1>3, <2>1 DEF Separate, Apart
    <3>2. Apart(bySize)'
      BY <1>8, <1>9, <2>1, <2>4, <2>5 DEF Separate, Apart
    <3>3. \A c \in used', d \in bySize' : Disjoint(c, d)
      BY <1>3, <1>9, <2>1, <2>5 DEF Separate
    <3> QED BY <3>1, <3>2, <3>3 DEF Separate
  <2>7. Covered'
    <3> SUFFICES ASSUME NEW x \in 0 .. HeapSize - 1
                 PROVE  \E d \in used' \cup bySize' : d.offset <= x /\ x < End(d)
      BY DEF Covered
    <3>1. PICK d \in used \cup bySize : d.offset <= x /\ x < End(d)
      BY <2>1 DEF Covered
    <3>2. CASE d \in (used \ {b}) \cup (bySize \ merged)
      BY <1>3, <1>9, <3>1, <3>2
    <3>3. CASE d = b \/ d \in merged
      <4>1. s <= x /\ x < e
        BY <1>4, <1>5, <1>6, <1>7, <2>2, <3>1, <3>3
      <4> QED BY <1>8, <1>9, <4>1
    <3> QED BY <3>1, <3>2, <3>3
  (* Nor does an idle block touch it. *)
  <2>8. \A d \in bySize \ merged : End(d) # s /\ d.offset # e
    <3> SUFFICES ASSUME NEW d \in bySize \ merged PROVE End(d) # s /\ d.offset # e
      OBVIOUS
    <3>1. ASSUME End(d) = s PROVE FALSE
      <4>1. CASE Before(o) # {}
        BY <3>1, <4>1, <1>5, <2>1 DEF Coalesced
      <4>2. CASE Before(o) = {}
        <5>1. End(d) = o /\ d.offset < o
          BY <1>4, <1>5, <3>1, <4>2
        <5>2. \A k \in idle : k.offset < o => k.offset <= d.offset
          <6> SUFFICES ASSUME NEW k \in idle, k.offset < o PROVE k.offset <= d.offset
            OBVIOUS
          <6>1. k = d \/ Disjoint(k, d)
            BY <2>1 DEF Separate, Apart
          <6> QED BY <1>4, <1>7, <5>1, <6>1 DEF Disjoint
        <5> QED BY <2>1, <4>2, <5>1, <5>2 DEF Before
      <4> QED BY <4>1, <4>2
    <3>2. ASSUME d.offset = e PROVE FALSE
      <4>1. CASE After(End(b)) # {}
        BY <3>2, <4>1, <1>6, <2>1 DEF Coalesced
      <4>2. CASE After(End(b)) = {}
        BY <3>2, <4>2, <1>6, <2>1 DEF After
      <4> QED BY <4>1, <4>2
    <3> QED BY <3>1, <3>2
  <2>9. Coalesced'
    <3> SUFFICES ASSUME NEW c \in bySize', NEW d \in bySize' PROVE End(c) # d.offset
      BY DEF Coalesced
    <3>1. CASE c # w /\ d # w
      BY <1>9, <2>1, <3>1 DEF Coalesced
    <3>2. CASE c = w /\ d # w
      BY <1>8, <1>9, <2>8, <3>2
    <3>3. CASE c # w /\ d = w
      BY <1>8, <1>9, <2>8, <3>3
    <3>4. CASE c = w /\ d = w
      BY <1>5, <1>6, <1>7, <1>8, <3>4
    <3> QED BY <3>1, <3>2, <3>3, <3>4
  <2>10. Listed'
    <3>1. \A d \in idle \ merged : d.offset # s
      <4> SUFFICES ASSUME NEW d \in bySize \ merged PROVE d.offset # s
        BY <2>1
      <4>1. End(d) <= s \/ e <= d.offset
        BY <1>8, <2>5 DEF Disjoint
      <4> QED BY <1>4, <1>5, <1>6, <1>7, <4>1
    <3>2. idle' = (idle \ merged) \cup {w}
      BY <1>8, <1>9, <3>1 DEF Emplace, Has
    <3> QED BY <1>9, <2>1, <3>2 DEF Listed, Has
  <2> QED BY <2>6, <2>7, <2>9, <2>10
<1> QED BY <1>10, <1>11 DEF Inv

LEMMA NextInv == Inv /\ [Next]_vars => Inv'
<1> SUFFICES ASSUME Inv, [Next]_vars PROVE Inv'
  OBVIOUS
<1>1. CASE Next
  BY <1>1, AllocateStep, AlignedStep, ReleaseStep DEF Next
<1>2. CASE UNCHANGED vars
  BY <1>2 DEF vars, Inv, TypeOK, NotMixed, Separate, Apart, Covered, Coalesced, Listed
<1> QED BY <1>1, <1>2

(* Type correctness: in particular no block is ever empty, and release     *)
(* computes with numbers even after the trees have come apart.             *)
THEOREM TypeCorrect == Spec => []TypeOK
<1>1. Inv => TypeOK
  BY DEF Inv
<1> QED BY <1>1, InitInv, NextInv, PTL DEF Spec

THEOREM Invariance == Spec => []Inv
<1> QED BY InitInv, NextInv, PTL DEF Spec

(* Two allocations never share a byte, whatever the heap's size, up to the *)
(* first release after an aligned allocation.                              *)
THEOREM HeapSafe == Spec => []BlocksApart
<1>1. Inv => BlocksApart
  BY DEF Inv, BlocksApart, Separate
<1> QED BY <1>1, Invariance, PTL

(* Every byte of the heap is in exactly one block. *)
THEOREM NothingIsLost == Spec => []NothingLost
<1>1. ASSUME Inv PROVE NothingLost
  <2> SUFFICES ASSUME NotMixed, NEW x \in 0 .. HeapSize - 1
               PROVE  \E b \in used \cup bySize :
                        /\ b.offset <= x /\ x < End(b)
                        /\ \A c \in used \cup bySize :
                             c.offset <= x /\ x < End(c) => b = c
    BY DEF NothingLost
  <2>1. TypeOK /\ Separate /\ Covered
    BY <1>1 DEF Inv
  <2>2. \A d \in used \cup bySize : d.offset \in Nat /\ End(d) \in Nat
    BY <2>1 DEF TypeOK, Blocks, End
  <2>3. PICK b \in used \cup bySize : b.offset <= x /\ x < End(b)
    BY <2>1 DEF Covered
  <2>4. ASSUME NEW c \in used \cup bySize, c.offset <= x, x < End(c)
        PROVE  b = c
    <3>1. b = c \/ Disjoint(b, c) \/ Disjoint(c, b)
      BY <2>1 DEF Separate, Apart
    <3> QED BY <2>2, <2>3, <2>4, <3>1, HeapAssumption DEF Disjoint
  <2> QED BY <2>3, <2>4
<1> QED BY <1>1, Invariance, PTL

(* The allocator refuses a request only when no free stretch of the heap   *)
(* is long enough, aligned or not: fragments are always merged.            *)
THEOREM RefusesOnlyWhenFull == Spec => []RefusedOnlyIfFull
<1>1. ASSUME Inv PROVE RefusedOnlyIfFull
  <2> SUFFICES ASSUME NotMixed, NEW n \in 1 .. HeapSize, NEW o \in 0 .. HeapSize,
                      FreeAt(o, AlignUp(n))
               PROVE  /\ Fitting(n) # {}
                      /\ \A b \in Fitting(n) : Has(idle, b.offset)
                      /\ \A a \in 1 .. MaxAlign : o % a = 0 => FittingAt(a, n) # {}
    BY DEF RefusedOnlyIfFull
  <2> DEFINE m == AlignUp(n)
  <2>1. TypeOK /\ Separate /\ Covered /\ Coalesced /\ Listed
    BY <1>1 DEF Inv
  <2>2. m \in Nat /\ 0 < m /\ HeapSize \in Nat /\ o \in Nat
    BY AlignUpHolds, HeapAssumption
  <2>3. \A d \in used \cup bySize :
          d.offset \in Nat /\ d.size \in Nat /\ End(d) = d.offset + d.size
    BY <2>1 DEF TypeOK, Blocks, End
  <2>4. /\ o + m <= HeapSize
        /\ \A d \in used : End(d) <= o \/ o + m <= d.offset
    BY DEF FreeAt
  <2> HIDE DEF m
  (* The idle block that holds the first byte holds them all. *)
  <2>5. PICK b \in bySize : b.offset <= o /\ o < End(b)
    <3>1. PICK d \in used \cup bySize : d.offset <= o /\ o < End(d)
      BY <2>1, <2>2, <2>4 DEF Covered
    <3> QED BY <2>2, <2>3, <2>4, <3>1
  <2>6. o + m <= End(b)
    <3> SUFFICES ASSUME End(b) < o + m PROVE FALSE
      BY <2>2, <2>3
    <3>1. End(b) \in 0 .. HeapSize - 1
      BY <2>2, <2>3, <2>4
    <3>2. PICK c \in used \cup bySize : c.offset <= End(b) /\ End(b) < End(c)
      BY <2>1, <3>1 DEF Covered
    <3>3. c \in bySize
      BY <2>2, <2>3, <2>4, <2>5, <3>2
    <3>4. b # c /\ (Disjoint(b, c) \/ Disjoint(c, b))
      BY <2>1, <2>3, <3>2, <3>3 DEF Separate, Apart
    <3>5. End(b) = c.offset
      BY <2>3, <2>5, <3>2, <3>3, <3>4 DEF Disjoint
    <3> QED BY <2>1, <3>3, <3>5 DEF Coalesced
  <2>7. b \in Fitting(n)
    BY <2>2, <2>3, <2>5, <2>6 DEF Fitting, m
  <2>8. \A c \in Fitting(n) : Has(idle, c.offset)
    BY <2>1 DEF Fitting, Listed
  <2>9. ASSUME NEW a \in 1 .. MaxAlign, o % a = 0
        PROVE  b \in FittingAt(a, n)
    <3>1. a \in Nat /\ 0 < a /\ b \in Blocks
      BY <2>1, HeapAssumption DEF TypeOK
    <3>2. HeadSkip(b, a) \in Nat /\ b.offset + HeadSkip(b, a) <= o
      BY <2>2, <2>5, <2>9, <3>1, HeadSkipFirst
    <3> QED BY <2>2, <2>3, <2>5, <2>6, <3>2 DEF FittingAt, m
  <2> QED BY <2>7, <2>8, <2>9
<1> QED BY <1>1, Invariance, PTL

=============================================================================
