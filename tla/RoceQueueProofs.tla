--------------------------- MODULE RoceQueueProofs ---------------------------
(***************************************************************************)
(* TLAPS proofs about the queues towards a peer when one core uses them,   *)
(* for every size of the rings and every number of requests.               *)
(***************************************************************************)
EXTENDS RoceQueue, TLAPS

-----------------------------------------------------------------------------
(* Division with remainder by a divisor that is not a literal, and products. *)

LEMMA Division ==
  ASSUME NEW k \in Nat, 0 < k, NEW a \in Nat
  PROVE  /\ a \div k \in Int
         /\ a % k \in 0 .. k - 1
         /\ a = k * (a \div k) + (a % k)
OBVIOUS

LEMMA MultipleAtLeast ==
  ASSUME NEW k \in Nat, 0 < k, NEW m \in Int, 1 <= m
  PROVE  k <= k * m
OBVIOUS

LEMMA Distribute ==
  ASSUME NEW k \in Nat, NEW m \in Int, NEW n \in Int
  PROVE  /\ k * m - k * n = k * (m - n) /\ k * m + k * n = k * (m + n)
         /\ k * m \in Int /\ k * (m - n) \in Int /\ k * (m + n) \in Int
OBVIOUS

LEMMA Associate ==
  ASSUME NEW k \in Nat, NEW m \in Nat, NEW n \in Int
  PROVE  (k * m) * n = k * (m * n) /\ m * n \in Int /\ k * m \in Nat
OBVIOUS

(* Quotient and remainder are the only numbers with their property. *)
LEMMA Remainder ==
  ASSUME NEW k \in Nat, 0 < k, NEW a \in Nat,
         NEW q \in Int, NEW r \in 0 .. k - 1, a = k * q + r
  PROVE  a % k = r /\ a \div k = q
<1> DEFINE p == a \div k
           s == a % k
<1>1. p \in Int /\ s \in 0 .. k - 1 /\ a = k * p + s
  BY Division
<1>2. /\ k * p \in Int /\ k * q \in Int
      /\ k * p - k * q = k * (p - q) /\ k * q - k * p = k * (q - p)
      /\ k * (p - q) \in Int /\ k * (q - p) \in Int
  BY <1>1, Distribute
<1> HIDE DEF p, s
<1>3. k * (p - q) = r - s /\ k * (q - p) = s - r
  BY <1>1, <1>2
<1>4. ~ (1 <= p - q)
  BY <1>1, <1>2, <1>3, MultipleAtLeast
<1>5. ~ (1 <= q - p)
  BY <1>1, <1>2, <1>3, MultipleAtLeast
<1>6. p = q
  BY <1>1, <1>4, <1>5
<1>7. s = r
  BY <1>1, <1>2, <1>6
<1> QED BY <1>6, <1>7 DEF p, s

(* Two numbers with the same remainder are equal or at least k apart. *)
LEMMA ModBelow ==
  ASSUME NEW k \in Nat, 0 < k, NEW a \in Nat, NEW b \in Nat,
         b < a + k, a % k = b % k
  PROVE  b <= a
<1> DEFINE p == a \div k
           q == b \div k
<1>1. /\ p \in Int /\ q \in Int
      /\ a = k * p + (a % k) /\ b = k * q + (a % k)
  BY Division
<1>2. k * p \in Int /\ k * q \in Int /\ k * (q - p) \in Int /\ a % k \in Int
  BY <1>1, Distribute, Division
<1>3. b - a = k * (q - p)
  <2>1. b - a = k * q - k * p
    BY <1>1, <1>2
  <2> QED BY <2>1, <1>1, Distribute
<1>4. ~ (1 <= q - p)
  BY <1>1, <1>2, <1>3, MultipleAtLeast
<1>5. k * (q - p) <= 0
  BY <1>1, <1>4
<1> QED BY <1>2, <1>3, <1>5

LEMMA ModLess ==
  ASSUME NEW k \in Nat, 0 < k, NEW a \in Nat
  PROVE  a % k \in 0 .. k - 1 /\ a % k <= a /\ (a < k => a % k = a)
OBVIOUS

(* Adding before or after the remainder is taken makes no difference. *)
LEMMA ModPlus ==
  ASSUME NEW k \in Nat, 0 < k, NEW a \in Nat, NEW n \in Nat
  PROVE  ((a % k) + n) % k = (a + n) % k
<1> DEFINE p == a \div k
           s == a % k
           b == s + n
           q == b \div k
           r == b % k
<1>1. p \in Int /\ s \in 0 .. k - 1 /\ a = k * p + s
  BY Division
<1>2. b \in Nat
  BY <1>1
<1>3. q \in Int /\ r \in 0 .. k - 1 /\ b = k * q + r
  BY <1>2, Division
<1>4. k * p \in Int /\ k * q \in Int /\ k * p + k * q = k * (p + q)
  BY <1>1, <1>3, Distribute
<1>5. a + n = k * (p + q) + r
  <2>1. a + n = k * p + b
    BY <1>1, <1>4
  <2> HIDE DEF p, q, r, b
  <2> QED BY <2>1, <1>2, <1>3, <1>4
<1>6. a + n \in Nat /\ p + q \in Int
  BY <1>1, <1>3
<1>7. (a + n) % k = r
  <2> HIDE DEF p, q, r, b
  <2> QED BY <1>3, <1>5, <1>6, Remainder
<1> QED BY <1>7

LEMMA ModStep ==
  ASSUME NEW k \in Nat, 0 < k, NEW a \in Nat
  PROVE  (a + k) % k = a % k
<1> DEFINE p == a \div k
           r == a % k
<1>1. p \in Int /\ r \in 0 .. k - 1 /\ a = k * p + r
  BY Division
<1>2. k * p \in Int /\ k * p + k * 1 = k * (p + 1)
  BY <1>1, Distribute
<1>3. a + k = k * (p + 1) + r /\ p + 1 \in Int /\ a + k \in Nat
  <2> HIDE DEF p, r
  <2> QED BY <1>1, <1>2
<1> HIDE DEF p, r
<1> QED BY <1>1, <1>3, Remainder DEF r

(* A remainder survives taking the remainder by a multiple first. *)
LEMMA ModOfMod ==
  ASSUME NEW d \in Nat, 0 < d, NEW w \in Nat, 0 < w, w % d = 0, NEW a \in Nat
  PROVE  (a % w) % d = a % d
<1> DEFINE m == w \div d
           p == a \div w
           s == a % w
           q == s \div d
           r == s % d
<1>1. m \in Int /\ w = d * m
  BY Division
<1>2. m \in Nat
  <2>1. ~ (1 <= -m)
    <3>1. SUFFICES ASSUME 1 <= -m PROVE FALSE
      OBVIOUS
    <3>2. d <= d * (-m)
      BY <1>1, <3>1, MultipleAtLeast
    <3>3. d * (-m) = -(d * m) /\ d * m \in Int
      BY <1>1
    <3> QED BY <1>1, <3>2, <3>3
  <2> QED BY <1>1, <2>1
<1>3. p \in Int /\ s \in 0 .. w - 1 /\ a = w * p + s
  BY Division
<1>4. s \in Nat
  BY <1>3
<1>5. q \in Int /\ r \in 0 .. d - 1 /\ s = d * q + r
  BY <1>4, Division
<1>6. w * p = d * (m * p) /\ m * p \in Int
  BY <1>1, <1>2, <1>3, Associate
<1>7. d * (m * p) \in Int /\ d * q \in Int /\ d * (m * p) + d * q = d * (m * p + q)
  BY <1>5, <1>6, Distribute
<1>8. a = d * (m * p + q) + r /\ m * p + q \in Int
  <2> HIDE DEF m, p, s, q, r
  <2> QED BY <1>3, <1>5, <1>6, <1>7
<1> HIDE DEF m, p, s, q
<1>9. a % d = r
  <2> HIDE DEF r
  <2> QED BY <1>5, <1>8, Remainder
<1> QED BY <1>9 DEF s

(* Which half of 2k numbers a number falls into is the parity of its       *)
(* quotient by k.                                                          *)
LEMMA Halves ==
  ASSUME NEW k \in Nat, 0 < k, NEW a \in Nat
  PROVE  (a \div k) % 2 = 0 <=> a % (2 * k) < k
<1> DEFINE p == a \div k
           s == a % k
           q == p \div 2
           r == p % 2
<1>1. p \in Int /\ s \in 0 .. k - 1 /\ a = k * p + s
  BY Division
<1>2. p \in Nat
  <2>1. ~ (1 <= -p)
    <3>1. SUFFICES ASSUME 1 <= -p PROVE FALSE
      OBVIOUS
    <3>2. k <= k * (-p)
      BY <1>1, <3>1, MultipleAtLeast
    <3>3. k * (-p) = -(k * p) /\ k * p \in Int
      BY <1>1
    <3> QED BY <1>1, <3>2, <3>3
  <2> QED BY <1>1, <2>1
<1>3. q \in Int /\ r \in {0, 1} /\ p = 2 * q + r
  <2> HIDE DEF p
  <2> QED BY <1>2
<1>4. k * p = (2 * k) * q + k * r
  <2> HIDE DEF p, q, r
  <2>1. k * p = k * (2 * q) + k * r
    BY <1>3, Distribute
  <2>2. k * (2 * q) = (2 * k) * q
    BY <1>3
  <2> QED BY <2>1, <2>2
<1>5. (2 * k) * q \in Int /\ 2 * k \in Nat /\ 0 < 2 * k /\ k * 0 = 0 /\ k * 1 = k
  <2> HIDE DEF q
  <2> QED BY <1>3
<1> HIDE DEF p, s, q
<1>6. CASE r = 0
  <2>1. a = (2 * k) * q + s /\ s \in 0 .. 2 * k - 1
    BY <1>1, <1>4, <1>5, <1>6
  <2>2. a % (2 * k) = s
    BY <2>1, <1>3, <1>5, Remainder
  <2> QED BY <2>2, <1>1, <1>6 DEF p
<1>7. CASE r = 1
  <2>1. a = (2 * k) * q + (k + s) /\ k + s \in 0 .. 2 * k - 1
    BY <1>1, <1>4, <1>5, <1>7
  <2>2. a % (2 * k) = k + s
    BY <2>1, <1>3, <1>5, Remainder
  <2> QED BY <2>2, <1>1, <1>7 DEF p
<1> QED BY <1>3, <1>6, <1>7

(* k further on the number falls into the other half. *)
LEMMA OtherHalf ==
  ASSUME NEW k \in Nat, 0 < k, NEW a \in Nat
  PROVE  ((a + k) \div k) % 2 = 0 <=> ~ ((a \div k) % 2 = 0)
<1> DEFINE p == a \div k
           s == a % k
<1>1. p \in Int /\ s \in 0 .. k - 1 /\ a = k * p + s
  BY Division
<1>2. k * p \in Int /\ k * p + k * 1 = k * (p + 1) /\ k * 1 = k
  BY <1>1, Distribute
<1>3. a + k = k * (p + 1) + s /\ p + 1 \in Int /\ a + k \in Nat
  <2> HIDE DEF p, s
  <2> QED BY <1>1, <1>2
<1> HIDE DEF p, s
<1>4. (a + k) \div k = p + 1
  BY <1>1, <1>3, Remainder
<1>5. (p + 1) % 2 = 0 <=> ~ (p % 2 = 0)
  BY <1>1
<1> QED BY <1>4, <1>5 DEF p

-----------------------------------------------------------------------------

(* The queue pair is used by one core only. *)
OneCore == \E c : Cores = {c}

LEMMA Sizes ==
  /\ Depth \in Nat /\ 0 < Depth /\ CqDepth = Depth /\ OwnerPeriod = Depth
  /\ Margin \in Nat /\ 0 < Margin /\ Batch \in Nat /\ 0 < Batch
  /\ Margin + Batch <= Depth
  /\ Wrap \in Nat /\ 0 < Wrap /\ DbWrap \in Nat /\ 0 < DbWrap
  /\ 2 * Depth <= Wrap /\ 2 * Depth <= DbWrap
  /\ Wrap % Depth = 0 /\ Wrap % (2 * Depth) = 0 /\ Wrap % DbWrap = 0
<1>1. /\ {Depth, CqDepth, OwnerPeriod, Margin, Batch, Wrap, DbWrap} \subseteq Nat \ {0}
      /\ Margin + Batch <= Depth
      /\ OwnerPeriod = Depth /\ CqDepth = Depth
      /\ Wrap % (2 * Depth) = 0 /\ DbWrap % (2 * Depth) = 0 /\ Wrap % DbWrap = 0
  BY QueueAssumption
<1>2. /\ Depth \in Nat /\ 0 < Depth /\ Margin \in Nat /\ 0 < Margin
      /\ Batch \in Nat /\ 0 < Batch /\ Wrap \in Nat /\ 0 < Wrap
      /\ DbWrap \in Nat /\ 0 < DbWrap
  BY <1>1
<1> DEFINE two == 2 * Depth
<1>3. two \in Nat /\ 0 < two /\ two = Depth + Depth
  BY <1>2
<1>4. two <= Wrap /\ two <= DbWrap
  <2> HIDE DEF two
  <2>1. Wrap % two = 0 /\ DbWrap % two = 0
    BY <1>1 DEF two
  <2> QED BY <1>2, <1>3, <2>1, ModLess
<1>5. two % Depth = 0
  <2>1. (Depth + Depth) % Depth = Depth % Depth /\ (0 + Depth) % Depth = 0 % Depth
    BY <1>2, ModStep
  <2>2. 0 % Depth = 0
    BY <1>2, ModLess
  <2> QED BY <1>2, <1>3, <2>1, <2>2
<1>6. Wrap % Depth = 0
  <2> HIDE DEF two
  <2>1. (Wrap % two) % Depth = Wrap % Depth
    BY <1>2, <1>3, <1>5, ModOfMod
  <2>2. Wrap % two = 0 /\ 0 % Depth = 0
    BY <1>1, <1>2, ModLess DEF two
  <2> QED BY <2>1, <2>2
<1> QED BY <1>1, <1>2, <1>4, <1>6

(* A wrapped index leads to the same entry and the same pass of a ring. *)
LEMMA WrappedIndex ==
  ASSUME NEW x \in Nat
  PROVE  /\ x % Wrap \in Words
         /\ x % Depth \in 0 .. Depth - 1
         /\ (x % Wrap) % Depth = x % Depth
         /\ EvenPass(x % Wrap, Depth) = EvenPass(x, Depth)
         /\ (x % Wrap) % DbWrap = x % DbWrap
<1>1. /\ x % Wrap \in Words /\ x % Wrap \in Nat
      /\ x % Depth \in 0 .. Depth - 1
  BY Sizes, ModLess DEF Words
<1>2. (x % Wrap) % Depth = x % Depth /\ (x % Wrap) % DbWrap = x % DbWrap
  BY Sizes, ModOfMod
<1>3. EvenPass(x % Wrap, Depth) = EvenPass(x, Depth)
  <2> DEFINE two == 2 * Depth
             w == x % Wrap
  <2>1. two \in Nat /\ 0 < two /\ Wrap % two = 0
    BY Sizes
  <2>2. w % two = x % two
    <3> HIDE DEF two
    <3> QED BY <2>1, Sizes, ModOfMod
  <2>3. /\ (x \div Depth) % 2 = 0 <=> x % two < Depth
        /\ (w \div Depth) % 2 = 0 <=> w % two < Depth
    <3> HIDE DEF w
    <3>1. w \in Nat
      BY <1>1 DEF w
    <3> QED BY <3>1, Sizes, Halves
  <2> QED BY <2>2, <2>3 DEF EvenPass
<1> QED BY <1>1, <1>2, <1>3

LEMMA WrappedSum ==
  ASSUME NEW x \in Nat, NEW n \in Nat
  PROVE  Plus(x % Wrap, n) = (x + n) % Wrap
BY Sizes, ModPlus DEF Plus

(* Indices less than a ring apart have different entries; a whole ring     *)
(* apart they have the same entry in another pass.                         *)
LEMMA EntriesApart ==
  ASSUME NEW a \in Nat, NEW b \in Nat, a < b, b < a + Depth
  PROVE  a % Depth # b % Depth
<1> SUFFICES ASSUME a % Depth = b % Depth PROVE FALSE
  OBVIOUS
<1>1. b <= a
  BY Sizes, ModBelow
<1> QED BY <1>1

LEMMA NextPass ==
  ASSUME NEW x \in Nat
  PROVE  /\ (x + Depth) % Depth = x % Depth
         /\ EvenPass(x + Depth, Depth) # EvenPass(x, Depth)
BY Sizes, ModStep, OtherHalf DEF EvenPass

LEMMA WordsApart ==
  ASSUME NEW a \in Nat, NEW b \in Nat, a <= b, b <= a + Depth
  PROVE  /\ a % Wrap = b % Wrap => a = b
         /\ a % DbWrap = b % DbWrap => a = b
<1>1. b < a + Wrap /\ b < a + DbWrap
  BY Sizes
<1>2. a % Wrap = b % Wrap => b <= a
  BY <1>1, Sizes, ModBelow
<1>3. a % DbWrap = b % DbWrap => b <= a
  BY <1>1, Sizes, ModBelow
<1> QED BY <1>2, <1>3

(* With x requests posted and n polled, no more than the ring may hold,    *)
(* the test for a full ring is exact.                                      *)
LEMMA FullIsExact ==
  ASSUME NEW x \in Nat, NEW n \in Nat, n <= x, x - n <= Depth - Margin,
         tail = n % Wrap
  PROVE  Full(x % Wrap) <=> x - n = Depth - Margin
<1>1. Full(x % Wrap) <=> (x + Margin) % Depth = n % Depth
  <2>1. Plus(x % Wrap, Margin) = (x + Margin) % Wrap
    BY Sizes, WrappedSum
  <2>2. ((x + Margin) % Wrap) % Depth = (x + Margin) % Depth
    <3>1. x + Margin \in Nat
      BY Sizes
    <3> QED BY <3>1, WrappedIndex
  <2>3. (n % Wrap) % Depth = n % Depth
    BY WrappedIndex
  <2> QED BY <2>1, <2>2, <2>3 DEF Full
<1>2. ASSUME x - n = Depth - Margin PROVE (x + Margin) % Depth = n % Depth
  <2>1. x + Margin = n + Depth
    BY <1>2, Sizes
  <2> QED BY <2>1, Sizes, ModStep
<1>3. ASSUME x - n # Depth - Margin PROVE (x + Margin) % Depth # n % Depth
  <2>1. x + Margin \in Nat /\ n < x + Margin /\ x + Margin < n + Depth
    BY <1>3, Sizes
  <2> QED BY <2>1, EntriesApart
<1> QED BY <1>1, <1>2, <1>3

-----------------------------------------------------------------------------
(* Types                                                                   *)

LEMMA PlusTyped ==
  ASSUME NEW x \in Words, NEW n \in Nat
  PROVE  Plus(x, n) \in Words
<1>1. x + n \in Nat
  BY Sizes DEF Words
<1> QED BY <1>1, Sizes, ModLess DEF Plus, Words

LEMMA TypeInit == Init => TypeOK
<1> SUFFICES ASSUME Init PROVE TypeOK
  OBVIOUS
<1>1. 0 \in Words /\ 0 \in 0 .. DbWrap - 1
  BY Sizes DEF Words
<1> QED BY <1>1 DEF Init, TypeOK

LEMMA TypeStep == TypeOK /\ [Next]_vars => TypeOK'
<1> SUFFICES ASSUME TypeOK, [Next]_vars PROVE TypeOK'
  OBVIOUS
<1> USE DEF TypeOK
<1>1. ASSUME NEW c \in Cores, PostBegin(c) PROVE TypeOK'
  <2>1. PollTarget \in Words
    BY Sizes, PlusTyped DEF PollTarget
  <2>2. [head |-> head, cur |-> cqTail, idx |-> PollTarget, call |-> "post"]
          \in [head : Words, cur : Words, idx : Words, call : {"none", "post", "quiet"}]
    BY <2>1
  <2>3. [loc[c] EXCEPT !.head = head, !.call = "post"]
          \in [head : Words, cur : Words, idx : Words, call : {"none", "post", "quiet"}]
    OBVIOUS
  <2>4. PICK l \in [head : Words, cur : Words, idx : Words, call : {"none", "post", "quiet"}] :
          loc' = [loc EXCEPT ![c] = l]
    BY <1>1, <2>2, <2>3 DEF PostBegin
  <2>5. pc' \in [Cores -> {"idle", "quiet", "poll", "write", "ring", "head"}]
    BY <1>1 DEF PostBegin
  <2> QED BY <1>1, <2>4, <2>5 DEF PostBegin
<1>2. ASSUME NEW c \in Cores, QuietBegin(c) PROVE TypeOK'
  BY <1>2 DEF QuietBegin
<1>3. ASSUME NEW c \in Cores, WriteEntry(c) PROVE TypeOK'
  <2>1. EvenPass(loc[c].head, OwnerPeriod) \in BOOLEAN
    BY DEF EvenPass
  <2>2. PICK e \in [req : Nat, owner : BOOLEAN] : sq' = [sq EXCEPT ![loc[c].head % Depth] = e]
    <3>1. [req |-> posted + 1, owner |-> EvenPass(loc[c].head, OwnerPeriod)]
             \in [req : Nat, owner : BOOLEAN]
      BY <2>1
    <3> QED BY <1>3, <3>1 DEF WriteEntry
  <2>3. sq' \in [0 .. Depth - 1 -> [req : Nat, owner : BOOLEAN]]
    BY <2>2
  <2>4. posted' \in Nat /\ mine' \in [Cores -> SUBSET Nat]
    BY <1>3 DEF WriteEntry
  <2>5. pc' \in [Cores -> {"idle", "quiet", "poll", "write", "ring", "head"}]
    BY <1>3 DEF WriteEntry
  <2> QED BY <1>3, <2>3, <2>4, <2>5 DEF WriteEntry
<1>4. ASSUME NEW c \in Cores, RingDoorbell(c) PROVE TypeOK'
  <2>1. Plus(loc[c].head, 1) \in Words
    BY PlusTyped
  <2>2. Plus(loc[c].head, 1) % DbWrap \in 0 .. DbWrap - 1
    BY <2>1, Sizes, ModLess DEF Words
  <2>3. nic' \in [pi : 0 .. DbWrap - 1, done : Nat, broken : BOOLEAN]
    <3> DEFINE h == Plus(loc[c].head, 1) % DbWrap
    <3>1. nic' = [nic EXCEPT !.pi = h] /\ h \in 0 .. DbWrap - 1
      BY <1>4, <2>2 DEF RingDoorbell
    <3> HIDE DEF h
    <3> QED BY <3>1
  <2>4. pc' \in [Cores -> {"idle", "quiet", "poll", "write", "ring", "head"}]
    BY <1>4 DEF RingDoorbell
  <2> QED BY <1>4, <2>3, <2>4 DEF RingDoorbell
<1>5. ASSUME NEW c \in Cores, StoreHead(c) PROVE TypeOK'
  <2>1. Plus(loc[c].head, 1) \in Words
    BY PlusTyped
  <2>2. head' \in Words /\ tail' \in Words /\ cqTail' \in Words
    BY <1>5, <2>1 DEF StoreHead
  <2>3. pc' \in [Cores -> {"idle", "quiet", "poll", "write", "ring", "head"}]
    BY <1>5 DEF StoreHead
  <2> QED BY <1>5, <2>2, <2>3 DEF StoreHead
<1>6. ASSUME NEW c \in Cores, PollEntry(c) PROVE TypeOK'
  <2>1. Plus(loc[c].cur, 1) \in Words
    BY PlusTyped
  <2>2. loc' \in [Cores -> [head : Words, cur : Words, idx : Words,
                            call : {"none", "post", "quiet"}]]
    <3> DEFINE n == Plus(loc[c].cur, 1)
    <3>1. loc' = [loc EXCEPT ![c].cur = n] /\ n \in Words
      BY <1>6, <2>1 DEF PollEntry
    <3> HIDE DEF n
    <3> QED BY <3>1
  <2>3. pc' \in [Cores -> {"idle", "quiet", "poll", "write", "ring", "head"}]
    BY <1>6 DEF PollEntry, AfterPoll
  <2> QED BY <1>6, <2>2, <2>3 DEF PollEntry
<1>7. ASSUME NEW c \in Cores, PollEnd(c) PROVE TypeOK'
  BY <1>7 DEF PollEnd, AfterPoll
<1>8. ASSUME Execute PROVE TypeOK'
  <2>1. EvenPass(nic.done, CqDepth) \in BOOLEAN
    BY DEF EvenPass
  <2>2. nic.done % Depth \in 0 .. Depth - 1
    BY Sizes, ModLess
  <2>3. sq[nic.done % Depth].req \in Nat
    BY <2>2
  <2>4. PICK ok \in BOOLEAN :
          /\ delivered' = IF ok THEN delivered \cup {sq[nic.done % Depth].req}
                          ELSE delivered
          /\ cq' = [cq EXCEPT ![nic.done % CqDepth] =
                      [owner |-> EvenPass(nic.done, CqDepth), ok |-> ok]]
          /\ nic' = [nic EXCEPT !.done = @ + 1, !.broken = ~ ok]
    BY <1>8 DEF Execute
  <2>5. nic' \in [pi : 0 .. DbWrap - 1, done : Nat, broken : BOOLEAN]
    <3>1. PICK b \in BOOLEAN : nic' = [nic EXCEPT !.done = @ + 1, !.broken = b]
      <4>1. (~ ok) \in BOOLEAN
        OBVIOUS
      <4> QED BY <2>4, <4>1
    <3>2. nic' = [pi |-> nic.pi, done |-> nic.done + 1, broken |-> b]
      BY <3>1
    <3> QED BY <3>2
  <2>6. cq' \in [0 .. CqDepth - 1 -> [owner : BOOLEAN, ok : BOOLEAN]]
    BY <2>1, <2>4
  <2>7. delivered' \subseteq Nat
    BY <2>3, <2>4
  <2> QED BY <1>8, <2>5, <2>6, <2>7 DEF Execute
<1>9. CASE UNCHANGED vars
  BY <1>9 DEF vars
<1> QED
  BY <1>1, <1>2, <1>3, <1>4, <1>5, <1>6, <1>7, <1>8, <1>9 DEF Next, Step

(* The words, entries and locals keep their types, whatever the number of  *)
(* cores.                                                                  *)
THEOREM TypeCorrect == Spec => []TypeOK
<1>1. Init => TypeOK
  BY TypeInit
<1>2. TypeOK /\ [Next]_vars => TypeOK'
  BY TypeStep
<1> QED BY <1>1, <1>2, PTL DEF Spec
-----------------------------------------------------------------------------
(* The invariant                                                           *)

(* The requests the NIC has been told of. *)
Told(c) == IF pc[c] = "ring" THEN posted - 1 ELSE posted

Heads(c) ==
  /\ nic.pi = Told(c) % DbWrap
  /\ nic.done <= Told(c)
  /\ pc[c] \in {"idle", "quiet", "poll", "write"} => head = posted % Wrap
  /\ pc[c] = "write" \/ (pc[c] = "poll" /\ loc[c].call = "post") => loc[c].head = head
  /\ pc[c] \in {"ring", "head"} => posted >= 1 /\ loc[c].head = (posted - 1) % Wrap

(* Every request under way is in its entry of the ring. *)
Entries ==
  \A k \in nic.done .. posted - 1 :
    sq[k % Depth] = [req |-> k + 1, owner |-> EvenPass(k, Depth)]

(* After the first n completions, those the NIC has written are good and   *)
(* the others are of an earlier pass.                                      *)
Completions(n) ==
  \A k \in n .. n + Depth - 1 :
    IF k < nic.done THEN cq[k % Depth] = [owner |-> EvenPass(k, Depth), ok |-> TRUE]
    ELSE cq[k % Depth].owner # EvenPass(k, Depth)

(* The core has polled up to m and will poll up to e. *)
Polling(c, n) ==
  \E m, e \in n .. posted :
    /\ m <= nic.done /\ m <= e
    /\ loc[c].cur = m % Wrap /\ loc[c].idx = e % Wrap
    /\ loc[c].call = "post" => e = n + Batch /\ posted - n = Depth - Margin
    /\ loc[c].call # "post" => e = posted

(* The tails stand for n completions. *)
Polled(c, n) ==
  /\ n <= nic.done /\ posted - n <= Depth - Margin
  /\ tail = n % Wrap /\ cqTail = n % Wrap
  /\ Completions(n)
  /\ pc[c] = "write" => posted - n < Depth - Margin
  /\ pc[c] = "poll" => Polling(c, n)

History(c) ==
  /\ 1 .. nic.done \subseteq delivered
  /\ mine[c] \subseteq 1 .. posted
  /\ pc[c] = "quiet" => posted <= nic.done

Sound(c) ==
  Heads(c) /\ Entries /\ History(c) /\ \E n \in 0 .. posted : Polled(c, n)

Inv == TypeOK /\ (nic.broken \/ \A c \in Cores : Sound(c))

-----------------------------------------------------------------------------
(* The invariant is kept                                                   *)

(* What the proofs of the steps start from. *)
Before(c) == TypeOK /\ c \in Cores /\ Sound(c)

LEMMA PostBeginSound ==
  ASSUME NEW c, Before(c), PostBegin(c)
  PROVE  Sound(c)'
<1>1. /\ TypeOK /\ c \in Cores /\ Heads(c) /\ Entries /\ History(c)
      /\ posted \in Nat /\ nic.done \in Nat
  BY DEF Before, Sound, TypeOK
<1>2. PICK n \in 0 .. posted : Polled(c, n)
  BY DEF Before, Sound
<1>3. n \in Nat /\ n <= posted /\ posted - n <= Depth - Margin
      /\ tail = n % Wrap /\ cqTail = n % Wrap /\ n <= nic.done /\ Completions(n)
  BY <1>1, <1>2 DEF Polled
<1>4. pc[c] \in {"idle", "quiet"} /\ head = posted % Wrap
      /\ nic.pi = posted % DbWrap /\ nic.done <= posted
  BY <1>1 DEF PostBegin, Free, Heads, Told
<1>5. Full(head) <=> posted - n = Depth - Margin
  BY <1>1, <1>3, <1>4, FullIsExact
<1>6. Entries' /\ Completions(n)'
  BY <1>1, <1>3 DEF PostBegin, Entries, Completions
<1>7. CASE Full(head)
  <2>1. /\ pc'[c] = "poll"
        /\ loc'[c] = [head |-> head, cur |-> cqTail, idx |-> PollTarget, call |-> "post"]
        /\ UNCHANGED <<head, tail, cqTail, nic, posted, mine, delivered>>
    BY <1>1, <1>7 DEF PostBegin, TypeOK
  <2>2. PollTarget = (n + Batch) % Wrap
    BY <1>3, Sizes, WrappedSum DEF PollTarget
  <2>3. n + Batch \in n .. posted /\ posted - n = Depth - Margin
    BY <1>1, <1>3, <1>5, <1>7, Sizes
  <2>4. Polling(c, n)'
    BY <1>1, <1>3, <2>1, <2>2, <2>3 DEF Polling
  <2>5. Polled(c, n)'
    BY <1>3, <1>6, <2>1, <2>4 DEF Polled
  <2>6. Heads(c)' /\ History(c)'
    BY <1>1, <1>4, <2>1 DEF Heads, Told, History
  <2> QED BY <1>2, <1>6, <2>1, <2>5, <2>6 DEF Sound
<1>8. CASE ~ Full(head)
  <2>1. /\ pc'[c] = "write" /\ loc'[c].head = head
        /\ UNCHANGED <<head, tail, cqTail, nic, posted, mine, delivered>>
    <3>1. loc'[c] = [loc[c] EXCEPT !.head = head, !.call = "post"]
      BY <1>1, <1>8 DEF PostBegin, TypeOK
    <3>2. loc[c] \in [head : Words, cur : Words, idx : Words, call : {"none", "post", "quiet"}]
      BY <1>1 DEF TypeOK
    <3>3. loc'[c].head = head
      BY <3>1, <3>2
    <3> QED BY <1>1, <1>8, <3>3 DEF PostBegin, TypeOK
  <2>2. posted - n < Depth - Margin
    BY <1>1, <1>3, <1>5, <1>8, Sizes
  <2>3. Polled(c, n)'
    BY <1>3, <1>6, <2>1, <2>2 DEF Polled
  <2>4. Heads(c)' /\ History(c)'
    BY <1>1, <1>4, <2>1 DEF Heads, Told, History
  <2> QED BY <1>2, <1>6, <2>1, <2>3, <2>4 DEF Sound
<1> QED BY <1>7, <1>8

LEMMA QuietBeginSound ==
  ASSUME NEW c, Before(c), QuietBegin(c)
  PROVE  Sound(c)'
<1>1. /\ TypeOK /\ c \in Cores /\ Heads(c) /\ Entries /\ History(c)
      /\ posted \in Nat /\ nic.done \in Nat
  BY DEF Before, Sound, TypeOK
<1>2. PICK n \in 0 .. posted : Polled(c, n)
  BY DEF Before, Sound
<1>3. n \in Nat /\ n <= posted /\ posted - n <= Depth - Margin
      /\ tail = n % Wrap /\ cqTail = n % Wrap /\ n <= nic.done /\ Completions(n)
  BY <1>1, <1>2 DEF Polled
<1>4. pc[c] \in {"idle", "quiet"} /\ head = posted % Wrap
      /\ nic.pi = posted % DbWrap /\ nic.done <= posted
  BY <1>1 DEF QuietBegin, Free, Heads, Told
<1>5. Entries' /\ Completions(n)'
  BY <1>1, <1>3 DEF QuietBegin, Entries, Completions
<1>6. /\ pc'[c] = "poll"
      /\ loc'[c] = [head |-> head, cur |-> cqTail, idx |-> head, call |-> "quiet"]
      /\ UNCHANGED <<head, tail, cqTail, nic, posted, mine, delivered>>
  BY <1>1 DEF QuietBegin, TypeOK
<1>7. Polling(c, n)'
  BY <1>1, <1>3, <1>4, <1>6 DEF Polling
<1>8. Polled(c, n)'
  BY <1>3, <1>5, <1>6, <1>7 DEF Polled
<1>9. Heads(c)' /\ History(c)'
  BY <1>1, <1>4, <1>6 DEF Heads, Told, History
<1> QED BY <1>2, <1>5, <1>6, <1>8, <1>9 DEF Sound

LEMMA WriteEntrySound ==
  ASSUME NEW c, Before(c), WriteEntry(c)
  PROVE  Sound(c)'
<1>1. /\ TypeOK /\ c \in Cores /\ Heads(c) /\ Entries /\ History(c)
      /\ posted \in Nat /\ nic.done \in Nat /\ pc[c] = "write"
  BY DEF Before, Sound, TypeOK, WriteEntry
<1>2. PICK n \in 0 .. posted : Polled(c, n)
  BY DEF Before, Sound
<1>3. n \in Nat /\ n <= posted /\ posted - n < Depth - Margin
      /\ tail = n % Wrap /\ cqTail = n % Wrap /\ n <= nic.done /\ Completions(n)
  BY <1>1, <1>2 DEF Polled
<1>4. loc[c].head = posted % Wrap /\ nic.pi = posted % DbWrap /\ nic.done <= posted
  BY <1>1 DEF Heads, Told
<1>5. /\ pc'[c] = "ring" /\ posted' = posted + 1
      /\ mine'[c] = mine[c] \cup {posted + 1}
      /\ UNCHANGED <<loc, cq, head, tail, cqTail, nic, delivered>>
  BY <1>1 DEF WriteEntry, TypeOK
<1>6. Entries'
  <2> SUFFICES ASSUME NEW k \in nic.done .. posted
               PROVE  sq'[k % Depth] = [req |-> k + 1, owner |-> EvenPass(k, Depth)]
    BY <1>1, <1>5 DEF Entries
  <2>1. k \in Nat /\ k % Depth \in 0 .. Depth - 1 /\ posted % Depth \in 0 .. Depth - 1
    BY <1>1, WrappedIndex
  <2>2. sq' = [sq EXCEPT ![posted % Depth] =
                 [req |-> posted + 1, owner |-> EvenPass(posted, Depth)]]
    BY <1>1, <1>4, Sizes, WrappedIndex DEF WriteEntry
  <2>3. CASE k = posted
    BY <1>1, <2>1, <2>2, <2>3 DEF TypeOK
  <2>4. CASE k # posted
    <3>1. k \in nic.done .. posted - 1 /\ k < posted /\ posted < k + Depth
      BY <1>1, <1>3, <2>1, <2>4, Sizes
    <3>2. k % Depth # posted % Depth
      BY <1>1, <2>1, <3>1, EntriesApart
    <3> QED BY <1>1, <2>1, <2>2, <3>1, <3>2 DEF TypeOK, Entries
  <2> QED BY <2>3, <2>4
<1>7. Completions(n)'
  BY <1>3, <1>5 DEF Completions
<1>8. Polled(c, n)'
  BY <1>1, <1>3, <1>5, <1>7, Sizes DEF Polled
<1>9. Heads(c)'
  BY <1>1, <1>4, <1>5 DEF Heads, Told
<1>10. History(c)'
  BY <1>1, <1>5 DEF History
<1>11. n \in 0 .. posted'
  BY <1>1, <1>3, <1>5
<1> QED BY <1>6, <1>8, <1>9, <1>10, <1>11 DEF Sound

LEMMA RingDoorbellSound ==
  ASSUME NEW c, Before(c), RingDoorbell(c)
  PROVE  Sound(c)'
<1>1. /\ TypeOK /\ c \in Cores /\ Heads(c) /\ Entries /\ History(c)
      /\ posted \in Nat /\ nic.done \in Nat /\ pc[c] = "ring"
  BY DEF Before, Sound, TypeOK, RingDoorbell
<1>2. PICK n \in 0 .. posted : Polled(c, n)
  BY DEF Before, Sound
<1>3. posted - 1 \in Nat /\ loc[c].head = (posted - 1) % Wrap /\ nic.done <= posted - 1
  BY <1>1 DEF Heads, Told
<1>4. Plus(loc[c].head, 1) % DbWrap = posted % DbWrap
  <2>1. Plus(loc[c].head, 1) = (posted - 1 + 1) % Wrap
    BY <1>3, WrappedSum
  <2>2. posted - 1 + 1 = posted
    BY <1>1
  <2> QED BY <1>1, <2>1, <2>2, WrappedIndex
<1>5. /\ pc'[c] = "head" /\ nic'.pi = posted % DbWrap /\ nic'.done = nic.done
      /\ UNCHANGED <<loc, sq, cq, head, tail, cqTail, posted, mine, delivered>>
  BY <1>1, <1>4 DEF RingDoorbell, TypeOK
<1>6. Entries' /\ Completions(n)'
  BY <1>1, <1>2, <1>5 DEF Entries, Completions, Polled
<1>7. Polled(c, n)'
  BY <1>2, <1>5, <1>6 DEF Polled
<1>8. Heads(c)'
  BY <1>1, <1>3, <1>5 DEF Heads, Told
<1>9. History(c)'
  BY <1>1, <1>5 DEF History
<1> QED BY <1>2, <1>5, <1>6, <1>7, <1>8, <1>9 DEF Sound

LEMMA StoreHeadSound ==
  ASSUME NEW c, Before(c), StoreHead(c)
  PROVE  Sound(c)'
<1>1. /\ TypeOK /\ c \in Cores /\ Heads(c) /\ Entries /\ History(c)
      /\ posted \in Nat /\ nic.done \in Nat /\ pc[c] = "head"
  BY DEF Before, Sound, TypeOK, StoreHead
<1>2. PICK n \in 0 .. posted : Polled(c, n)
  BY DEF Before, Sound
<1>3. posted - 1 \in Nat /\ loc[c].head = (posted - 1) % Wrap /\ nic.done <= posted
      /\ nic.pi = posted % DbWrap
  BY <1>1 DEF Heads, Told
<1>4. Plus(loc[c].head, 1) = posted % Wrap
  <2>1. Plus(loc[c].head, 1) = (posted - 1 + 1) % Wrap
    BY <1>3, WrappedSum
  <2> QED BY <1>1, <2>1
<1>5. /\ pc'[c] = "idle" /\ head' = posted % Wrap
      /\ UNCHANGED <<loc, sq, cq, tail, cqTail, nic, posted, mine, delivered>>
  BY <1>1, <1>4 DEF StoreHead, TypeOK
<1>6. Entries' /\ Completions(n)'
  BY <1>1, <1>2, <1>5 DEF Entries, Completions, Polled
<1>7. Polled(c, n)'
  BY <1>2, <1>5, <1>6 DEF Polled
<1>8. Heads(c)' /\ History(c)'
  BY <1>1, <1>3, <1>5 DEF Heads, Told, History
<1> QED BY <1>2, <1>5, <1>6, <1>7, <1>8 DEF Sound

LEMMA PollEntrySound ==
  ASSUME NEW c, Before(c), PollEntry(c)
  PROVE  Sound(c)'
<1>1. /\ TypeOK /\ c \in Cores /\ Heads(c) /\ Entries /\ History(c)
      /\ posted \in Nat /\ nic.done \in Nat /\ pc[c] = "poll"
  BY DEF Before, Sound, TypeOK, PollEntry
<1>2. PICK n \in 0 .. posted : Polled(c, n)
  BY DEF Before, Sound
<1>3. n \in Nat /\ n <= posted /\ posted - n <= Depth - Margin /\ Polling(c, n)
      /\ Completions(n)
  BY <1>1, <1>2 DEF Polled
<1>4. PICK m \in n .. posted, e \in n .. posted :
        /\ m <= nic.done /\ m <= e
        /\ loc[c].cur = m % Wrap /\ loc[c].idx = e % Wrap
        /\ loc[c].call = "post" => e = n + Batch /\ posted - n = Depth - Margin
        /\ loc[c].call # "post" => e = posted
  BY <1>3 DEF Polling
<1>5. m \in Nat /\ m < e /\ m \in n .. n + Depth - 1
  <2>1. m # e
    BY <1>4 DEF PollEntry
  <2> QED BY <1>1, <1>3, <1>4, <2>1, Sizes
<1>6. cq[m % Depth].owner = EvenPass(m, Depth)
  BY <1>4, <1>5, Sizes, WrappedIndex DEF PollEntry, Ready
<1>7. m < nic.done /\ cq[m % Depth].ok = TRUE
  <2>1. m < nic.done
    BY <1>1, <1>3, <1>4, <1>5, <1>6 DEF Completions
  <2>2. cq[m % Depth] = [owner |-> EvenPass(m, Depth), ok |-> TRUE]
    BY <1>3, <1>5, <2>1 DEF Completions
  <2> QED BY <2>1, <2>2
<1>8. cq[loc[c].cur % CqDepth].ok
  BY <1>4, <1>5, <1>7, Sizes, WrappedIndex
<1>9. Plus(loc[c].cur, 1) = (m + 1) % Wrap
  BY <1>4, <1>5, WrappedSum
<1>10. /\ loc'[c].cur = (m + 1) % Wrap
       /\ loc'[c].idx = loc[c].idx /\ loc'[c].head = loc[c].head
       /\ loc'[c].call = loc[c].call
       /\ UNCHANGED <<pc, sq, cq, head, tail, cqTail, nic, posted, mine, delivered>>
  <2>1. loc' = [loc EXCEPT ![c].cur = (m + 1) % Wrap]
    BY <1>9 DEF PollEntry
  <2>2. loc'[c] = [loc[c] EXCEPT !.cur = (m + 1) % Wrap]
    BY <1>1, <2>1 DEF TypeOK
  <2>3. loc[c] \in [head : Words, cur : Words, idx : Words, call : {"none", "post", "quiet"}]
    BY <1>1 DEF TypeOK
  <2> QED BY <1>8, <2>2, <2>3 DEF PollEntry
<1>11. Polling(c, n)'
  <2>1. m + 1 \in n .. posted /\ m + 1 <= nic.done /\ m + 1 <= e
    BY <1>1, <1>3, <1>4, <1>5, <1>7
  <2> QED BY <1>4, <1>10, <2>1 DEF Polling
<1>12. Entries' /\ Completions(n)'
  BY <1>1, <1>3, <1>10 DEF Entries, Completions
<1>13. Polled(c, n)'
  BY <1>1, <1>2, <1>10, <1>11, <1>12 DEF Polled
<1>14. Heads(c)' /\ History(c)'
  BY <1>1, <1>10 DEF Heads, Told, History
<1> QED BY <1>2, <1>10, <1>12, <1>13, <1>14 DEF Sound

LEMMA PollEndSound ==
  ASSUME NEW c, Before(c), PollEnd(c)
  PROVE  Sound(c)'
<1>1. /\ TypeOK /\ c \in Cores /\ Heads(c) /\ Entries /\ History(c)
      /\ posted \in Nat /\ nic.done \in Nat /\ pc[c] = "poll"
  BY DEF Before, Sound, TypeOK, PollEnd
<1>2. PICK n \in 0 .. posted : Polled(c, n)
  BY DEF Before, Sound
<1>3. n \in Nat /\ n <= posted /\ posted - n <= Depth - Margin /\ Polling(c, n)
      /\ Completions(n)
  BY <1>1, <1>2 DEF Polled
<1>4. PICK m \in n .. posted, e \in n .. posted :
        /\ m <= nic.done /\ m <= e
        /\ loc[c].cur = m % Wrap /\ loc[c].idx = e % Wrap
        /\ loc[c].call = "post" => e = n + Batch /\ posted - n = Depth - Margin
        /\ loc[c].call # "post" => e = posted
  BY <1>3 DEF Polling
<1>5. m \in Nat /\ m = e
  <2>1. m \in Nat /\ e \in Nat /\ m <= e /\ e <= m + Depth
    BY <1>1, <1>3, <1>4, Sizes
  <2>2. m % Wrap = e % Wrap
    BY <1>4 DEF PollEnd
  <2> QED BY <2>1, <2>2, WordsApart
<1>6. nic.done <= posted /\ head = posted % Wrap /\ nic.pi = posted % DbWrap
      /\ (loc[c].call = "post" => loc[c].head = head)
  BY <1>1 DEF Heads, Told
<1>7. /\ tail' = m % Wrap /\ cqTail' = m % Wrap
      /\ pc'[c] = IF loc[c].call = "post" THEN "write" ELSE "quiet"
      /\ UNCHANGED <<loc, sq, cq, head, nic, posted, mine, delivered>>
  BY <1>1, <1>4 DEF PollEnd, AfterPoll, TypeOK
<1>8. Completions(m)'
  <2> SUFFICES ASSUME NEW k \in m .. m + Depth - 1
               PROVE  IF k < nic.done
                      THEN cq[k % Depth] = [owner |-> EvenPass(k, Depth), ok |-> TRUE]
                      ELSE cq[k % Depth].owner # EvenPass(k, Depth)
    BY <1>7 DEF Completions
  <2>1. CASE k <= n + Depth - 1
    <3>1. k \in n .. n + Depth - 1
      BY <1>1, <1>3, <1>4, <1>5, <2>1, Sizes
    <3> QED BY <1>3, <3>1 DEF Completions
  <2>2. CASE ~ (k <= n + Depth - 1)
    <3> DEFINE j == k - Depth
    <3>1. j \in Nat /\ j \in n .. n + Depth - 1 /\ j < nic.done /\ k = j + Depth
          /\ ~ (k < nic.done)
      BY <1>1, <1>3, <1>4, <1>5, <1>6, <2>2, Sizes
    <3> HIDE DEF j
    <3>2. cq[j % Depth] = [owner |-> EvenPass(j, Depth), ok |-> TRUE]
      BY <1>3, <3>1 DEF Completions
    <3>3. k % Depth = j % Depth /\ EvenPass(k, Depth) # EvenPass(j, Depth)
      BY <3>1, NextPass
    <3> QED BY <3>1, <3>2, <3>3
  <2> QED BY <2>1, <2>2
<1>9. posted - m <= Depth - Margin
      /\ (pc'[c] = "write" => posted - m < Depth - Margin)
      /\ (pc'[c] = "quiet" => posted <= nic.done)
  BY <1>1, <1>3, <1>4, <1>5, <1>7, Sizes
<1>10. Polled(c, m)'
  BY <1>4, <1>7, <1>8, <1>9 DEF Polled
<1>11. Heads(c)'
  BY <1>1, <1>6, <1>7 DEF Heads, Told
<1>12. History(c)'
  BY <1>1, <1>7, <1>9 DEF History
<1>13. Entries'
  BY <1>1, <1>7 DEF Entries
<1>14. m \in 0 .. posted'
  BY <1>1, <1>3, <1>4, <1>7
<1> QED BY <1>10, <1>11, <1>12, <1>13, <1>14 DEF Sound

LEMMA ExecuteSound ==
  ASSUME NEW c, Before(c), Execute, ~ nic'.broken
  PROVE  Sound(c)'
<1>1. /\ TypeOK /\ c \in Cores /\ Heads(c) /\ Entries /\ History(c)
      /\ posted \in Nat /\ nic.done \in Nat
  BY DEF Before, Sound, TypeOK
<1>2. PICK n \in 0 .. posted : Polled(c, n)
  BY DEF Before, Sound
<1>3. n \in Nat /\ n <= posted /\ posted - n <= Depth - Margin /\ n <= nic.done
      /\ Completions(n)
  BY <1>1, <1>2 DEF Polled
<1> DEFINE d == nic.done
<1>4. d < Told(c) /\ d < posted /\ Told(c) <= posted
  <2>1. d <= Told(c) /\ d # Told(c)
    BY <1>1 DEF Heads, Execute
  <2>2. Told(c) \in Int /\ Told(c) <= posted
    BY <1>1 DEF Told
  <2> QED BY <1>1, <2>1, <2>2
<1>5. /\ delivered' = delivered \cup {sq[d % Depth].req}
      /\ cq' = [cq EXCEPT ![d % Depth] = [owner |-> EvenPass(d, Depth), ok |-> TRUE]]
      /\ nic'.done = d + 1 /\ nic'.pi = nic.pi
  <2>1. PICK ok \in BOOLEAN :
          /\ delivered' = IF ok THEN delivered \cup {sq[d % Depth].req} ELSE delivered
          /\ cq' = [cq EXCEPT ![d % CqDepth] = [owner |-> EvenPass(d, CqDepth), ok |-> ok]]
          /\ nic' = [nic EXCEPT !.done = @ + 1, !.broken = ~ ok]
    BY DEF Execute
  <2>2. nic'.broken = (~ ok) /\ nic'.done = d + 1 /\ nic'.pi = nic.pi
    BY <1>1, <2>1 DEF TypeOK
  <2>3. ok = TRUE
    BY <2>2
  <2> QED BY <2>1, <2>2, <2>3, Sizes
<1>6. UNCHANGED <<pc, loc, sq, head, tail, cqTail, posted, mine>>
  BY DEF Execute
<1>7. sq[d % Depth].req = d + 1
  <2>1. \A k \in d .. posted - 1 :
          sq[k % Depth] = [req |-> k + 1, owner |-> EvenPass(k, Depth)]
    BY <1>1 DEF Entries
  <2>2. d \in d .. posted - 1
    BY <1>1, <1>4
  <2>3. sq[d % Depth] = [req |-> d + 1, owner |-> EvenPass(d, Depth)]
    <3> HIDE DEF d
    <3> QED BY <2>1, <2>2
  <2> QED BY <2>3
<1>8. Entries'
  BY <1>1, <1>5, <1>6 DEF Entries
<1>9. Completions(n)'
  <2> SUFFICES ASSUME NEW k \in n .. n + Depth - 1
               PROVE  IF k < d + 1
                      THEN cq'[k % Depth] = [owner |-> EvenPass(k, Depth), ok |-> TRUE]
                      ELSE cq'[k % Depth].owner # EvenPass(k, Depth)
    BY <1>5 DEF Completions
  <2>1. k \in Nat /\ k % Depth \in 0 .. CqDepth - 1 /\ d % Depth \in 0 .. CqDepth - 1
    BY <1>1, <1>3, Sizes, WrappedIndex
  <2>2. CASE k = d
    BY <1>1, <1>5, <2>1, <2>2 DEF TypeOK
  <2>3. CASE k # d
    <3>1. d < n + Depth
      BY <1>1, <1>3, <1>4, Sizes
    <3>2. (k < d /\ d < k + Depth) \/ (d < k /\ k < d + Depth)
      BY <1>1, <1>3, <2>1, <2>3, <3>1, Sizes
    <3>3. k % Depth # d % Depth
      BY <1>1, <2>1, <3>2, EntriesApart
    <3>4. cq'[k % Depth] = cq[k % Depth]
      BY <1>1, <1>5, <2>1, <3>3 DEF TypeOK
    <3>5. k < d + 1 <=> k < d
      BY <1>1, <2>1, <2>3
    <3> QED BY <1>3, <3>4, <3>5 DEF Completions
  <2> QED BY <2>2, <2>3
<1>10. Polling(c, n) => Polling(c, n)'
  <2> SUFFICES ASSUME Polling(c, n) PROVE Polling(c, n)'
    OBVIOUS
  <2>1. PICK m \in n .. posted, e \in n .. posted :
          /\ m <= nic.done /\ m <= e
          /\ loc[c].cur = m % Wrap /\ loc[c].idx = e % Wrap
          /\ loc[c].call = "post" => e = n + Batch /\ posted - n = Depth - Margin
          /\ loc[c].call # "post" => e = posted
    BY DEF Polling
  <2>2. m <= nic'.done
    BY <1>1, <1>3, <1>5, <2>1
  <2> QED BY <1>6, <2>1, <2>2 DEF Polling
<1>11. Polled(c, n)'
  <2>1. n <= nic'.done
    BY <1>1, <1>3, <1>5
  <2> QED BY <1>2, <1>6, <1>9, <1>10, <2>1 DEF Polled
<1>12. Heads(c)'
  <2>1. Told(c)' = Told(c) /\ Told(c) \in Int
    BY <1>1, <1>6 DEF Told
  <2>2. nic'.done <= Told(c)
    BY <1>1, <1>4, <1>5, <2>1
  <2> QED BY <1>1, <1>5, <1>6, <2>1, <2>2 DEF Heads
<1>13. History(c)'
  <2>1. 1 .. nic'.done \subseteq delivered'
    <3>1. \A i \in 1 .. d + 1 : i \in 1 .. d \/ i = d + 1
      BY <1>1
    <3> QED BY <1>1, <1>5, <1>7, <3>1 DEF History
  <2>2. pc'[c] = "quiet" => posted' <= nic'.done
    BY <1>1, <1>4, <1>6 DEF History
  <2> QED BY <1>1, <1>6, <2>1, <2>2 DEF History
<1> QED BY <1>2, <1>6, <1>8, <1>11, <1>12, <1>13 DEF Sound

LEMMA InvInit == OneCore /\ Init => Inv
<1> SUFFICES ASSUME OneCore, Init PROVE Inv
  OBVIOUS
<1>1. TypeOK
  BY TypeInit
<1>2. ASSUME NEW c \in Cores PROVE Sound(c)
  <2>1. 0 % Wrap = 0 /\ 0 % DbWrap = 0
    BY Sizes, ModLess
  <2>2. pc[c] = "idle" /\ mine[c] = {} /\ nic.done = 0 /\ nic.pi = 0 /\ posted = 0
        /\ head = 0 /\ tail = 0 /\ cqTail = 0
    BY <1>2 DEF Init
  <2>3. Completions(0)
    <3> SUFFICES ASSUME NEW k \in 0 .. Depth - 1
                 PROVE  ~ (k < 0) /\ cq[k % Depth].owner # EvenPass(k, Depth)
      BY <2>2, Sizes DEF Completions
    <3>1. k \in Nat /\ k < Depth /\ ~ (k < 0)
      BY Sizes
    <3>2. k % Depth = k
      BY <3>1, Sizes, ModLess
    <3>3. k \div Depth = 0
      <4>1. k = Depth * 0 + k /\ k \in 0 .. Depth - 1
        BY <3>1, Sizes
      <4> QED BY <4>1, <3>1, Sizes, Remainder
    <3>4. EvenPass(k, Depth)
      BY <3>3 DEF EvenPass
    <3> QED BY <3>1, <3>2, <3>4, Sizes DEF Init
  <2>4. Polled(c, 0)
    BY <2>1, <2>2, <2>3, Sizes DEF Polled
  <2>5. Heads(c) /\ Entries /\ History(c)
    BY <2>1, <2>2 DEF Heads, Told, Entries, History
  <2> QED BY <2>2, <2>4, <2>5 DEF Sound
<1> QED BY <1>1, <1>2 DEF Inv

LEMMA InvStep == OneCore /\ Inv /\ [Next]_vars => Inv'
<1> SUFFICES ASSUME OneCore, Inv, [Next]_vars PROVE Inv'
  OBVIOUS
<1>1. TypeOK /\ TypeOK'
  BY TypeStep DEF Inv
<1>2. PICK c : Cores = {c}
  BY DEF OneCore
<1>3. CASE nic.broken
  <2>1. nic'.broken
    <3>1. ASSUME Execute PROVE nic'.broken
      BY <1>1, <1>3, <3>1 DEF Execute, TypeOK
    <3>2. ASSUME NEW b \in Cores, RingDoorbell(b) PROVE nic'.broken
      BY <1>1, <1>3, <3>2 DEF RingDoorbell, TypeOK
    <3> QED
      BY <1>3, <3>1, <3>2 DEF Next, Step, vars, PostBegin, QuietBegin, WriteEntry,
                              StoreHead, PollEntry, PollEnd
  <2> QED BY <1>1, <2>1 DEF Inv
<1>4. CASE ~ nic.broken
  <2>1. Before(c)
    BY <1>1, <1>2, <1>4 DEF Inv, Before
  <2>2. nic'.broken \/ Sound(c)'
    <3>1. CASE Execute
      BY <2>1, <3>1, ExecuteSound
    <3>2. CASE \E b \in Cores : PostBegin(b) \/ QuietBegin(b) \/ Step(b)
      <4>1. PostBegin(c) \/ QuietBegin(c) \/ Step(c)
        BY <1>2, <3>2
      <4> QED
        BY <2>1, <4>1, PostBeginSound, QuietBeginSound, WriteEntrySound,
           RingDoorbellSound, StoreHeadSound, PollEntrySound, PollEndSound DEF Step
    <3>3. CASE UNCHANGED vars
      BY <2>1, <3>3 DEF Before, vars, Sound, Heads, Told, Entries, History, Polled,
                        Completions, Polling
    <3> QED BY <3>1, <3>2, <3>3 DEF Next
  <2> QED BY <1>1, <1>2, <2>2 DEF Inv
<1> QED BY <1>3, <1>4

(* The words of the queues stand for the numbers of requests posted and    *)
(* polled, and each ring holds what those numbers say.                     *)
THEOREM InvCorrect ==
  ASSUME OneCore PROVE Spec => []Inv
<1>1. Init => Inv
  BY InvInit
<1>2. Inv /\ [Next]_vars => Inv'
  BY InvStep
<1> QED BY <1>1, <1>2, PTL DEF Spec

-----------------------------------------------------------------------------
(* What the invariant gives                                                *)

(* One core never writes over an entry that the NIC has yet to execute,    *)
(* however many requests it posts.                                         *)
THEOREM EntriesIntactCorrect ==
  ASSUME OneCore PROVE Spec => []EntriesIntact
<1>1. Inv => EntriesIntact
  BY DEF OneCore, Inv, Sound, Entries, EntriesIntact
<1> QED BY <1>1, InvCorrect, PTL

(* One core never takes an entry of the completion ring that is not the    *)
(* completion it polls for.                                                *)
THEOREM CompletionsKeptCorrect ==
  ASSUME OneCore PROVE Spec => []CompletionsKept
<1>1. Inv => CompletionsKept
  <2> SUFFICES ASSUME Inv, ~ nic.broken, NEW c \in Cores, pc[c] = "poll"
               PROVE  (nic.done - loc[c].cur) % Wrap <= CqDepth
    BY DEF CompletionsKept
  <2>1. Sound(c) /\ posted \in Nat /\ nic.done \in Nat
    BY DEF Inv, TypeOK
  <2>2. PICK n \in 0 .. posted : Polled(c, n)
    BY <2>1 DEF Sound
  <2>3. PICK m \in n .. posted : m <= nic.done /\ loc[c].cur = m % Wrap
    BY <2>2 DEF Polled, Polling
  <2>4. nic.done <= posted
    BY <2>1 DEF Sound, Heads, Told
  <2>5. m \in Nat /\ posted <= n + Depth
    BY <2>1, <2>2, <2>3, Sizes DEF Polled
  <2> DEFINE r == nic.done - m
             q == m \div Wrap
             w == m % Wrap
  <2>6. r \in 0 .. Depth /\ r \in 0 .. Wrap - 1
    BY <2>1, <2>3, <2>4, <2>5, Sizes
  <2>7. q \in Int /\ w \in 0 .. Wrap - 1 /\ m = Wrap * q + w
    BY <2>5, Sizes, Division
  <2>8. w <= m
    BY <2>5, Sizes, ModLess
  <2>9. Wrap * q \in Int
    <3> HIDE DEF q
    <3> QED BY <2>7, Sizes
  <2>10. nic.done - w = Wrap * q + r /\ nic.done - w \in Nat
    <3> HIDE DEF q, w
    <3> QED BY <2>1, <2>3, <2>5, <2>7, <2>8, <2>9
  <2>11. (nic.done - w) % Wrap = r
    <3> HIDE DEF q, w, r
    <3> QED BY <2>6, <2>7, <2>10, Sizes, Remainder
  <2> QED BY <2>3, <2>6, <2>11, Sizes
<1> QED BY <1>1, InvCorrect, PTL

(* shmemi_roce_quiet returns to the only core of a queue pair when all it  *)
(* has posted has been executed, unless the NIC has failed.                *)
THEOREM QuietCompletesCorrect ==
  ASSUME OneCore PROVE Spec => []QuietCompletes
<1>1. Inv => QuietCompletes
  <2> SUFFICES ASSUME Inv, ~ nic.broken, NEW c \in Cores, pc[c] = "quiet"
               PROVE  mine[c] \subseteq delivered
    BY DEF QuietCompletes
  <2>1. History(c) /\ posted \in Nat /\ nic.done \in Nat
    BY DEF Inv, Sound, TypeOK
  <2>2. 1 .. posted \subseteq 1 .. nic.done
    BY <2>1 DEF History
  <2> QED BY <2>1, <2>2 DEF History
<1> QED BY <1>1, InvCorrect, PTL
=============================================================================
