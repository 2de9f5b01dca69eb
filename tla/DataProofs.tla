----------------------------- MODULE DataProofs ------------------------------
(***************************************************************************)
(* What the remote memory access of a job does to memory, for programs of  *)
(* every kind that synchronise: the instructions under way, wherever they  *)
(* are, still find what they are to bring, and a copy in blocks or rows    *)
(* does what the call is for.  So the heaps come to hold what the calls    *)
(* mean (Delivered), and no signal is seen before its data                 *)
(* (SignalAfterData).                                                      *)
(***************************************************************************)
EXTENDS JobProofs

-----------------------------------------------------------------------------

(* Quotient and remainder are the only numbers with their property. *)
LEMMA Remainder ==
  ASSUME NEW k \in Nat, 0 < k, NEW a \in Nat,
         NEW q \in Int, NEW r \in 0 .. k - 1, a = k * q + r
  PROVE  a % k = r /\ a \div k = q
<1> DEFINE p == a \div k
           s == a % k
<1>1. p \in Int /\ s \in 0 .. k - 1 /\ a = k * p + s
  BY Division
<1>2. /\ k * p \in Int /\ k * q \in Int
      /\ k * p - k * q = k * (p - q) /\ k * q - k * p = k * (q - p)
      /\ k * (p - q) \in Int /\ k * (q - p) \in Int
  BY <1>1, Distribute
<1> HIDE DEF p, s
<1>3. k * (p - q) = r - s /\ k * (q - p) = s - r
  BY <1>1, <1>2
<1>4. ~ (1 <= p - q)
  BY <1>1, <1>2, <1>3, MultipleAtLeast
<1>5. ~ (1 <= q - p)
  BY <1>1, <1>2, <1>3, MultipleAtLeast
<1>6. p = q
  BY <1>1, <1>4, <1>5
<1>7. s = r
  BY <1>1, <1>2, <1>6
<1> QED BY <1>6, <1>7 DEF p, s

-----------------------------------------------------------------------------
(* The copies in a sequence of instructions, each with the number of times *)
(* that x and y are still to come where it stands.                         *)

Entries(s, op, x, y) ==
  {<<s[k], Times(s, x, k), Times(s, y, k)>> : k \in {j \in 1 .. Len(s) : s[j].op = op}}

LEMMA EntryIs ==
  ASSUME NEW X, NEW s \in Seq(X), NEW op, NEW x, NEW y
  PROVE  /\ \A e \in Entries(s, op, x, y) :
              /\ e[1] \in Range(s) /\ e[1].op = op /\ e[2] \in Nat /\ e[3] \in Nat
              /\ e[2] <= Times(s, x, 1) /\ e[3] <= Times(s, y, 1)
              /\ e = <<e[1], e[2], e[3]>>
         /\ \A i \in Range(s) : i.op = op => \E e \in Entries(s, op, x, y) : e[1] = i
<1>1. Len(s) \in Nat /\ DOMAIN s = 1 .. Len(s)
  OBVIOUS
<1>2. ASSUME NEW k \in 1 .. Len(s), NEW z
      PROVE  Times(s, z, k) \in Nat /\ Times(s, z, k) <= Times(s, z, 1)
  <2>1. IsFiniteSet(Occurs(s, z, 1)) /\ Times(s, z, k) \in Nat
    <3>1. k \in Nat /\ 1 \in Nat
      OBVIOUS
    <3> QED BY <3>1, OccursFinite
  <2>2. Occurs(s, z, k) \subseteq Occurs(s, z, 1)
    BY <1>1 DEF Occurs
  <2>3. Cardinality(Occurs(s, z, k)) <= Cardinality(Occurs(s, z, 1))
    BY <2>1, <2>2, FS_Subset
  <2> QED BY <2>1, <2>3 DEF Times
<1>3. ASSUME NEW e \in Entries(s, op, x, y)
      PROVE  /\ e[1] \in Range(s) /\ e[1].op = op /\ e[2] \in Nat /\ e[3] \in Nat
             /\ e[2] <= Times(s, x, 1) /\ e[3] <= Times(s, y, 1)
             /\ e = <<e[1], e[2], e[3]>>
  <2>1. PICK k \in 1 .. Len(s) : s[k].op = op /\ e = <<s[k], Times(s, x, k), Times(s, y, k)>>
    BY DEF Entries
  <2>2. s[k] \in Range(s)
    BY <1>1 DEF Range
  <2> QED BY <1>2, <2>1, <2>2
<1>4. ASSUME NEW i \in Range(s), i.op = op
      PROVE  \E e \in Entries(s, op, x, y) : e[1] = i
  <2>1. PICK k \in 1 .. Len(s) : s[k] = i
    BY <1>1 DEF Range
  <2>2. <<s[k], Times(s, x, k), Times(s, y, k)>> \in Entries(s, op, x, y)
    BY <1>4, <2>1 DEF Entries
  <2> QED BY <2>1, <2>2
<1> QED BY <1>3, <1>4

(* Of two sequences end to end. *)
Later(e, m, n) == <<e[1], e[2] + m, e[3] + n>>

LEMMA EntriesConcat ==
  ASSUME NEW X, NEW s \in Seq(X), NEW t \in Seq(X), NEW op, NEW x, NEW y
  PROVE  Entries(s \o t, op, x, y) =
           {Later(e, Times(t, x, 1), Times(t, y, 1)) : e \in Entries(s, op, x, y)}
           \cup Entries(t, op, x, y)
<1> DEFINE w == s \o t
           At1(k) == <<w[k], Times(w, x, k), Times(w, y, k)>>
           A == {Later(e, Times(t, x, 1), Times(t, y, 1)) : e \in Entries(s, op, x, y)}
           B == Entries(t, op, x, y)
<1>1. /\ Len(s) \in Nat /\ Len(t) \in Nat /\ Len(w) = Len(s) + Len(t)
      /\ \A k \in 1 .. Len(s) : w[k] = s[k]
      /\ \A k \in 1 .. Len(t) : w[Len(s) + k] = t[k]
  OBVIOUS
<1>2. ASSUME NEW k \in 1 .. Len(s)
      PROVE  At1(k) = Later(<<s[k], Times(s, x, k), Times(s, y, k)>>, Times(t, x, 1), Times(t, y, 1))
  <2>1. k \in 1 .. Len(s) + 1
    BY <1>1
  <2>2. Times(w, x, k) = Times(s, x, k) + Times(t, x, 1) /\ Times(w, y, k) = Times(s, y, k) + Times(t, y, 1)
    BY <2>1, TimesConcat
  <2> QED BY <1>1, <2>2 DEF Later
<1>3. ASSUME NEW k \in 1 .. Len(t)
      PROVE  At1(Len(s) + k) = <<t[k], Times(t, x, k), Times(t, y, k)>>
  <2>1. k \in 1 .. Len(t) + 1
    BY <1>1
  <2>2. Times(w, x, Len(s) + k) = Times(t, x, k) /\ Times(w, y, Len(s) + k) = Times(t, y, k)
    BY <2>1, TimesPast
  <2> QED BY <1>1, <2>2
<1>4. Entries(w, op, x, y) = {At1(k) : k \in {j \in 1 .. Len(w) : w[j].op = op}}
  BY DEF Entries
<1> HIDE DEF w, At1
<1>5. A \subseteq Entries(w, op, x, y)
  <2> SUFFICES ASSUME NEW k \in 1 .. Len(s), s[k].op = op
               PROVE  Later(<<s[k], Times(s, x, k), Times(s, y, k)>>, Times(t, x, 1), Times(t, y, 1))
                        \in Entries(w, op, x, y)
    BY DEF Entries
  <2>1. k \in 1 .. Len(w) /\ w[k].op = op
    BY <1>1
  <2> QED BY <1>2, <1>4, <2>1
<1>6. B \subseteq Entries(w, op, x, y)
  <2> SUFFICES ASSUME NEW k \in 1 .. Len(t), t[k].op = op
               PROVE  <<t[k], Times(t, x, k), Times(t, y, k)>> \in Entries(w, op, x, y)
    BY DEF Entries
  <2>1. Len(s) + k \in 1 .. Len(w) /\ w[Len(s) + k].op = op
    BY <1>1
  <2> QED BY <1>3, <1>4, <2>1
<1>7. Entries(w, op, x, y) \subseteq A \cup B
  <2> SUFFICES ASSUME NEW k \in 1 .. Len(w), w[k].op = op
               PROVE  At1(k) \in A \cup B
    BY <1>4
  <2>1. CASE k \in 1 .. Len(s)
    <3>1. <<s[k], Times(s, x, k), Times(s, y, k)>> \in Entries(s, op, x, y)
      BY <1>1, <2>1 DEF Entries
    <3> QED BY <1>2, <2>1, <3>1
  <2>2. CASE k \notin 1 .. Len(s)
    <3>1. k - Len(s) \in 1 .. Len(t) /\ Len(s) + (k - Len(s)) = k
      BY <1>1, <2>2
    <3>2. <<t[k - Len(s)], Times(t, x, k - Len(s)), Times(t, y, k - Len(s))>> \in Entries(t, op, x, y)
      BY <1>1, <3>1 DEF Entries
    <3>3. At1(Len(s) + (k - Len(s))) = <<t[k - Len(s)], Times(t, x, k - Len(s)), Times(t, y, k - Len(s))>>
      BY <1>3, <3>1
    <3> QED BY <3>1, <3>2, <3>3
  <2> QED BY <2>1, <2>2
<1>8. Entries(w, op, x, y) = A \cup B
  BY <1>5, <1>6, <1>7
<1> QED BY <1>8 DEF w

LEMMA ConcatType ==
  ASSUME NEW X, NEW s \in Seq(X), NEW t \in Seq(X)
  PROVE  /\ s \o t \in Seq(X) /\ Len(s \o t) = Len(s) + Len(t)
         /\ \A k \in 1 .. Len(s) : (s \o t)[k] = s[k]
         /\ \A k \in 1 .. Len(t) : (s \o t)[Len(s) + k] = t[k]
OBVIOUS

LEMMA ConcatAssociates ==
  ASSUME NEW X, NEW s \in Seq(X), NEW t \in Seq(X), NEW u \in Seq(X)
  PROVE  s \o (t \o u) = (s \o t) \o u
<1> DEFINE v == t \o u
           w == s \o t
           a == s \o v
           b == w \o u
<1>1. /\ Len(s) \in Nat /\ Len(t) \in Nat /\ Len(u) \in Nat
      /\ v \in Seq(X) /\ Len(v) = Len(t) + Len(u)
      /\ w \in Seq(X) /\ Len(w) = Len(s) + Len(t)
      /\ \A k \in 1 .. Len(s) : w[k] = s[k]
      /\ \A k \in 1 .. Len(t) : w[Len(s) + k] = t[k] /\ v[k] = t[k]
      /\ \A k \in 1 .. Len(u) : v[Len(t) + k] = u[k]
  OBVIOUS
<1> HIDE DEF v, w
<1>2. /\ a \in Seq(X) /\ Len(a) = Len(s) + Len(v)
      /\ \A k \in 1 .. Len(s) : a[k] = s[k]
      /\ \A k \in 1 .. Len(v) : a[Len(s) + k] = v[k]
  <2>1. v \in Seq(X) /\ s \in Seq(X)
    BY <1>1
  <2>2. a \in Seq(X) /\ Len(a) = Len(s) + Len(v)
    BY <2>1, ConcatType, Zenon
  <2>3. \A k \in 1 .. Len(s) : a[k] = s[k]
    BY <2>1, ConcatType, Zenon
  <2>4. \A k \in 1 .. Len(v) : a[Len(s) + k] = v[k]
    BY <2>1, ConcatType
  <2> QED BY <2>2, <2>3, <2>4
<1> HIDE DEF a
<1>3. Len(a) = Len(w) + Len(u)
  BY <1>1, <1>2
<1>4. ASSUME NEW k \in 1 .. Len(w)
      PROVE  w[k] = a[k]
  <2>1. CASE k \in 1 .. Len(s)
    BY <1>1, <1>2, <2>1
  <2>2. CASE k \notin 1 .. Len(s)
    <3>1. k - Len(s) \in 1 .. Len(t) /\ k - Len(s) \in 1 .. Len(v) /\ Len(s) + (k - Len(s)) = k
      BY <1>1, <2>2
    <3>2. /\ w[Len(s) + (k - Len(s))] = t[k - Len(s)] /\ v[k - Len(s)] = t[k - Len(s)]
          /\ a[Len(s) + (k - Len(s))] = v[k - Len(s)]
      BY <1>1, <1>2, <3>1, Zenon
    <3> QED BY <3>1, <3>2
  <2> QED BY <2>1, <2>2
<1>5. ASSUME NEW k \in 1 .. Len(u)
      PROVE  u[k] = a[Len(w) + k]
  <2>1. Len(t) + k \in 1 .. Len(v) /\ Len(w) + k = Len(s) + (Len(t) + k)
    BY <1>1
  <2>2. a[Len(s) + (Len(t) + k)] = v[Len(t) + k]
    BY <1>2, <2>1, Zenon
  <2> QED BY <1>1, <2>1, <2>2
<1>6. a = w \o u
  BY <1>1, <1>2, <1>3, <1>4, <1>5, Parts, Zenon
<1> QED BY <1>6 DEF a, v, w

LEMMA RangeConcat ==
  ASSUME NEW X, NEW s \in Seq(X), NEW t \in Seq(X)
  PROVE  Range(s \o t) = Range(s) \cup Range(t)
<1> DEFINE w == s \o t
<1>1. /\ w \in Seq(X) /\ Len(s) \in Nat /\ Len(t) \in Nat /\ Len(w) = Len(s) + Len(t)
      /\ DOMAIN s = 1 .. Len(s) /\ DOMAIN t = 1 .. Len(t) /\ DOMAIN w = 1 .. Len(w)
      /\ \A k \in 1 .. Len(s) : w[k] = s[k]
      /\ \A k \in 1 .. Len(t) : w[Len(s) + k] = t[k]
  OBVIOUS
<1> HIDE DEF w
<1>2. \A k \in 1 .. Len(s) : k \in 1 .. Len(w)
  BY <1>1
<1>3. \A k \in 1 .. Len(t) : Len(s) + k \in 1 .. Len(w)
  BY <1>1
<1>4. \A k \in 1 .. Len(w) : k \in 1 .. Len(s) \/ (k - Len(s) \in 1 .. Len(t) /\ k = Len(s) + (k - Len(s)))
  BY <1>1
<1>5. Range(s) \subseteq Range(w) /\ Range(t) \subseteq Range(w)
  BY <1>1, <1>2, <1>3 DEF Range
<1>6. \A k \in 1 .. Len(w) : w[k] \in Range(s) \cup Range(t)
  <2> TAKE k \in 1 .. Len(w)
  <2>1. CASE k \in 1 .. Len(s)
    BY <1>1, <2>1 DEF Range
  <2>2. CASE k \notin 1 .. Len(s)
    <3>1. k - Len(s) \in 1 .. Len(t) /\ k = Len(s) + (k - Len(s))
      BY <1>4, <2>2
    <3>2. w[Len(s) + (k - Len(s))] = t[k - Len(s)]
      BY <1>1, <3>1, Zenon
    <3>3. t[k - Len(s)] \in Range(t)
      BY <1>1, <3>1 DEF Range
    <3> QED BY <3>1, <3>2, <3>3
  <2> QED BY <2>1, <2>2
<1>7. Range(w) \subseteq Range(s) \cup Range(t)
  BY <1>1, <1>6 DEF Range
<1> QED BY <1>5, <1>7 DEF w

LEMMA NotInRange ==
  ASSUME NEW X, NEW s \in Seq(X), NEW x, x \notin Range(s)
  PROVE  Times(s, x, 1) = 0
<1>1. \A k \in 1 .. Len(s) : s[k] # x
  <2>1. DOMAIN s = 1 .. Len(s)
    OBVIOUS
  <2> QED BY <2>1 DEF Range
<1>2. 1 \in Nat
  OBVIOUS
<1> QED BY <1>1, <1>2, TimesNone

LEMMA TimesBoth ==
  ASSUME NEW X, NEW s \in Seq(X), NEW t \in Seq(X), NEW x
  PROVE  /\ Times(s \o t, x, 1) = Times(s, x, 1) + Times(t, x, 1)
         /\ Times(s, x, 1) \in Nat /\ Times(t, x, 1) \in Nat
<1>1. Len(s) \in Nat /\ 1 \in 1 .. Len(s) + 1 /\ 1 \in Nat
  <2>1. Len(s) \in Nat
    OBVIOUS
  <2> QED BY <2>1
<1> QED BY <1>1, TimesConcat, OccursFinite

(* Instructions of another kind in between make no difference. *)
LEMMA EntriesPass ==
  ASSUME NEW X, NEW r \in Seq(X), NEW t \in Seq(X), NEW op, NEW x, NEW y,
         x \notin Range(r), y \notin Range(r), \A i \in Range(r) : i.op # op
  PROVE  /\ Entries(r \o t, op, x, y) = Entries(t, op, x, y)
         /\ Times(r \o t, x, 1) = Times(t, x, 1) /\ Times(r \o t, y, 1) = Times(t, y, 1)
<1>1. Entries(r, op, x, y) = {}
  BY EntryIs
<1>2. Times(r, x, 1) = 0 /\ Times(r, y, 1) = 0
  BY NotInRange
<1>3. /\ Times(r \o t, x, 1) = Times(r, x, 1) + Times(t, x, 1)
      /\ Times(r \o t, y, 1) = Times(r, y, 1) + Times(t, y, 1)
      /\ Times(t, x, 1) \in Nat /\ Times(t, y, 1) \in Nat
  BY TimesBoth
<1>4. Entries(r \o t, op, x, y) = {Later(e, Times(t, x, 1), Times(t, y, 1)) : e \in {}}
                                \cup Entries(t, op, x, y)
  BY <1>1, EntriesConcat
<1>5. Entries(r \o t, op, x, y) = Entries(t, op, x, y)
  BY <1>4
<1> QED BY <1>2, <1>3, <1>5

LEMMA EntriesDrop ==
  ASSUME NEW X, NEW m \in Seq(X), NEW r \in Seq(X), NEW t \in Seq(X), NEW op, NEW x, NEW y,
         x \notin Range(r), y \notin Range(r), \A i \in Range(r) : i.op # op
  PROVE  Entries(m \o (r \o t), op, x, y) = Entries(m \o t, op, x, y)
<1> DEFINE u == r \o t
<1>1. /\ Entries(u, op, x, y) = Entries(t, op, x, y)
      /\ Times(u, x, 1) = Times(t, x, 1) /\ Times(u, y, 1) = Times(t, y, 1)
  BY EntriesPass
<1>2. u \in Seq(X)
  OBVIOUS
<1> HIDE DEF u
<1>3. /\ Entries(m \o u, op, x, y) = {Later(e, Times(u, x, 1), Times(u, y, 1)) : e \in Entries(m, op, x, y)}
                                    \cup Entries(u, op, x, y)
      /\ Entries(m \o t, op, x, y) = {Later(e, Times(t, x, 1), Times(t, y, 1)) : e \in Entries(m, op, x, y)}
                                    \cup Entries(t, op, x, y)
  BY <1>2, EntriesConcat
<1>4. Entries(m \o u, op, x, y) = Entries(m \o t, op, x, y)
  BY <1>1, <1>3, Zenon
<1> QED BY <1>4 DEF u

(* The first instruction is taken. *)
LEMMA EntriesTake ==
  ASSUME NEW X, NEW m \in Seq(X), m # <<>>, NEW t \in Seq(X), NEW op, NEW x, NEW y
  PROVE  Entries(m \o t, op, x, y) = Entries(Tail(m) \o t, op, x, y) \cup
           IF Head(m).op = op THEN {<<Head(m), Times(m \o t, x, 1), Times(m \o t, y, 1)>>} ELSE {}
<1> DEFINE h == <<Head(m)>>
           u == Tail(m) \o t
<1>1. h \in Seq(X) /\ Tail(m) \in Seq(X) /\ m = h \o Tail(m)
  BY HeadTail
<1>2. u \in Seq(X)
  BY <1>1
<1>3. m \o t = h \o u
  BY <1>1, ConcatAssociates
<1>4. Entries(h, op, x, y) = IF Head(m).op = op THEN {<<Head(m), Times(h, x, 1), Times(h, y, 1)>>} ELSE {}
  <2>1. Len(h) = 1 /\ h[1] = Head(m)
    OBVIOUS
  <2>2. {j \in 1 .. Len(h) : h[j].op = op} = IF Head(m).op = op THEN {1} ELSE {}
    BY <2>1
  <2> HIDE DEF h
  <2> QED BY <2>1, <2>2 DEF Entries
<1> HIDE DEF h, u
<1>5. /\ Times(h \o u, x, 1) = Times(h, x, 1) + Times(u, x, 1)
      /\ Times(h \o u, y, 1) = Times(h, y, 1) + Times(u, y, 1)
  BY <1>1, <1>2, TimesBoth
<1>6. Entries(h \o u, op, x, y) = {Later(e, Times(u, x, 1), Times(u, y, 1)) : e \in Entries(h, op, x, y)}
                                  \cup Entries(u, op, x, y)
  BY <1>1, <1>2, EntriesConcat
<1>7. {Later(e, Times(u, x, 1), Times(u, y, 1)) : e \in Entries(h, op, x, y)} =
        IF Head(m).op = op THEN {<<Head(m), Times(h \o u, x, 1), Times(h \o u, y, 1)>>} ELSE {}
  <2>1. CASE Head(m).op = op
    BY <1>4, <1>5, <2>1 DEF Later
  <2>2. CASE Head(m).op # op
    <3>1. Entries(h, op, x, y) = {}
      BY <1>4, <2>2
    <3>2. {Later(e, Times(u, x, 1), Times(u, y, 1)) : e \in {}} = {}
      OBVIOUS
    <3> QED BY <2>2, <3>1, <3>2
  <2> QED BY <2>1, <2>2
<1> QED BY <1>3, <1>6, <1>7 DEF u

-----------------------------------------------------------------------------
(* The cells of a copy: those of its rows, at the distance from each other *)
(* that they have in the source.                                           *)

Value(m, x) == m[x[1]][x[2]]
From(i, x) == <<i.src.mem, Origin(i, x[2])>>

LEMMA Farther ==
  ASSUME NEW k \in Nat, 0 < k, NEW m \in Int, NEW n \in Int, m < n
  PROVE  k * m + k <= k * n /\ k * m \in Int /\ k * n \in Int
<1>1. k * n - k * m = k * (n - m) /\ k * n \in Int /\ k * m \in Int /\ k * (n - m) \in Int
  BY Distribute
<1>2. n - m \in Int /\ 1 <= n - m
  OBVIOUS
<1>3. k <= k * (n - m)
  BY <1>2, MultipleAtLeast
<1> QED BY <1>1, <1>3

LEMMA Quotient ==
  ASSUME NEW k \in Nat, 0 < k, NEW a \in Nat
  PROVE  /\ a \div k \in Nat /\ a % k \in 0 .. k - 1 /\ a = k * (a \div k) + (a % k)
         /\ k * (a \div k) \in Nat
         /\ a < k => a \div k = 0 /\ a % k = a
<1> DEFINE q == a \div k
           r == a % k
<1>1. q \in Int /\ r \in 0 .. k - 1 /\ a = k * q + r
  BY Division
<1>2. a < k => q = 0 /\ r = a
  <2> SUFFICES ASSUME a < k PROVE q = 0 /\ r = a
    OBVIOUS
  <2>1. 0 \in Int /\ a \in 0 .. k - 1 /\ a = k * 0 + a
    OBVIOUS
  <2> QED BY <2>1, Remainder
<1> HIDE DEF q, r
<1>3. k * q \in Int /\ k * 0 = 0
  BY <1>1
<1>4. ~ (q < 0)
  <2>1. q < 0 => k * q + k <= k * 0
    BY <1>1, Farther
  <2> QED BY <1>1, <1>3, <2>1
<1>5. q \in Nat
  BY <1>1, <1>4
<1>6. k * q \in Nat
  <2>1. 0 < q => k * 0 + k <= k * q
    BY <1>1, Farther
  <2>2. q = 0 => k * q = 0
    BY <1>3
  <2> QED BY <1>3, <1>5, <2>1, <2>2
<1> QED BY <1>1, <1>2, <1>5, <1>6 DEF q, r

LEMMA OneRow ==
  ASSUME NEW x, x.rows = 1, x.len \in Nat, x.dp \in Nat, x.len <= x.dp, x.dst.at \in Nat,
         x.src.at \in Nat, x.sp \in Int, NEW a \in Nat
  PROVE  /\ InCopy(x, a) <=> x.dst.at <= a /\ a < x.dst.at + x.len
         /\ InCopy(x, a) => Origin(x, a) = x.src.at + (a - x.dst.at)
<1> DEFINE d == a - x.dst.at
<1>1. CASE x.len = 0 \/ ~ (x.dst.at <= a)
  BY <1>1 DEF InCopy
<1>2. CASE x.len # 0 /\ x.dst.at <= a
  <2>1. d \in Nat /\ 0 < x.dp /\ 0 < x.len /\ a >= x.dst.at
    BY <1>2
  <2>2. /\ InCopy(x, a) <=> d \div x.dp < 1 /\ d % x.dp < x.len
        /\ Origin(x, a) = x.src.at + (d \div x.dp) * x.sp + (d % x.dp)
    BY <2>1 DEF InCopy, Origin
  <2> HIDE DEF d
  <2>3. /\ d \div x.dp \in Nat /\ d % x.dp \in 0 .. x.dp - 1
        /\ d = x.dp * (d \div x.dp) + (d % x.dp)
        /\ d < x.dp => d \div x.dp = 0 /\ d % x.dp = d
    BY <2>1, Quotient
  <2>4. d \div x.dp = 0 => d % x.dp = d
    <3> SUFFICES ASSUME d \div x.dp = 0 PROVE d % x.dp = d
      OBVIOUS
    <3>1. x.dp * 0 = 0 /\ d = x.dp * 0 + (d % x.dp)
      BY <2>3
    <3> QED BY <2>3, <3>1
  <2>5. InCopy(x, a) <=> d < x.len
    <3>1. ASSUME d < x.len
          PROVE  InCopy(x, a)
      <4>1. d < x.dp
        BY <2>1, <3>1
      <4>2. d \div x.dp = 0 /\ d % x.dp = d
        BY <2>3, <4>1
      <4>3. d \div x.dp < 1 /\ d % x.dp < x.len
        BY <3>1, <4>2
      <4> QED BY <2>2, <4>3
    <3>2. ASSUME InCopy(x, a)
          PROVE  d < x.len
      <4>1. d \div x.dp < 1 /\ d % x.dp < x.len
        BY <2>2, <3>2
      <4>2. d \div x.dp = 0
        BY <2>3, <4>1
      <4> QED BY <2>4, <4>1, <4>2
    <3> QED BY <3>1, <3>2
  <2>6. InCopy(x, a) => Origin(x, a) = x.src.at + d
    <3> SUFFICES ASSUME InCopy(x, a) PROVE Origin(x, a) = x.src.at + d
      OBVIOUS
    <3>1. d \div x.dp = 0 /\ d % x.dp = d
      BY <2>2, <2>3, <2>4
    <3>2. Origin(x, a) = x.src.at + 0 * x.sp + d
      BY <2>2, <3>1
    <3> QED BY <2>1, <3>2
  <2>7. d < x.len <=> a < x.dst.at + x.len
    BY DEF d
  <2> QED BY <1>2, <2>5, <2>6, <2>7 DEF d
<1> QED BY <1>1, <1>2

(* In and out again, through rows of the same pitch. *)
LEMMA InAndOut ==
  ASSUME NEW ld, NEW st, ld.rows = st.rows, ld.len = st.len, ld.dst = st.src, ld.dp = st.sp,
         st.rows \in Nat, st.len \in Nat, st.sp \in Nat, st.len <= st.sp, st.dp \in Nat,
         st.len <= st.dp, st.dst.at \in Nat, st.src.at \in Nat, NEW a \in Nat, InCopy(st, a)
  PROVE  /\ Origin(st, a) \in Nat /\ InCopy(ld, Origin(st, a))
         /\ Origin(ld, Origin(st, a)) =
              ld.src.at + ((a - st.dst.at) \div st.dp) * ld.sp + ((a - st.dst.at) % st.dp)
<1> DEFINE d == a - st.dst.at
           q == d \div st.dp
           r == d % st.dp
           P == st.sp
           b == Origin(st, a) - ld.dst.at
<1>1. 0 < st.len /\ d \in Nat /\ 0 < st.dp /\ 0 < P /\ P \in Nat
  BY DEF InCopy
<1>2. q < st.rows /\ r < st.len /\ Origin(st, a) = st.src.at + q * P + r
  BY DEF InCopy, Origin
<1>3. q \in Nat /\ r \in 0 .. st.dp - 1
  BY <1>1, Quotient
<1> HIDE DEF q, r, P
<1>4. q * P = P * q /\ P * q \in Nat
  <2>1. q * P = P * q
    BY <1>1, <1>3
  <2> QED BY <1>1, <1>3, <2>1, Associate
<1>5. b = P * q + r /\ b \in Nat /\ r \in 0 .. P - 1 /\ Origin(st, a) \in Nat
  BY <1>1, <1>2, <1>3, <1>4 DEF P
<1>6. Origin(st, a) >= ld.dst.at
  BY <1>2, <1>3, <1>4
<1> HIDE DEF b
<1>7. b % P = r /\ b \div P = q
  BY <1>1, <1>3, <1>5, Remainder
<1>8. InCopy(ld, Origin(st, a))
  BY <1>1, <1>2, <1>6, <1>7 DEF InCopy, P, b
<1>9. Origin(ld, Origin(st, a)) = ld.src.at + q * ld.sp + r
  BY <1>7 DEF Origin, P, b
<1> QED BY <1>5, <1>8, <1>9 DEF q, r

LEMMA WholeUnits ==
  ASSUME NEW k \in Nat, 0 < k, NEW n \in Nat
  PROVE  ((n + k - 1) \div k) * k \in Nat /\ n <= ((n + k - 1) \div k) * k
<1> DEFINE m == n + k - 1
           q == m \div k
<1>1. m \in Nat
  OBVIOUS
<1>2. q \in Nat /\ m % k \in 0 .. k - 1 /\ m = k * q + (m % k) /\ k * q \in Nat
  <2> HIDE DEF m
  <2> QED BY <1>1, Quotient
<1>3. n <= k * q
  <2> HIDE DEF q
  <2> QED BY <1>1, <1>2
<1> HIDE DEF q
<1>4. q * k = k * q
  BY <1>2
<1> QED BY <1>2, <1>3, <1>4 DEF q

LEMMA RoundUpHolds ==
  ASSUME NEW n \in Nat
  PROVE  RoundUp(n) \in Nat /\ n <= RoundUp(n)
<1>1. UbUnit \in Nat /\ 0 < UbUnit
  BY ArgumentAssumption
<1> QED BY <1>1, WholeUnits DEF RoundUp

(* Elements are of k cells each. *)
LEMMA Scaled ==
  ASSUME NEW k \in Nat, NEW m \in Nat, NEW n \in Nat, m <= n
  PROVE  /\ m * k \in Nat /\ n * k \in Nat /\ m * k <= n * k /\ (n - m) * k \in Nat
         /\ m * k + (n - m) * k = n * k
<1>1. n - m \in Nat
  OBVIOUS
<1>2. m * k = k * m /\ n * k = k * n /\ (n - m) * k = k * (n - m)
  OBVIOUS
<1>3. k * m \in Nat /\ k * n \in Nat /\ k * (n - m) \in Nat
  BY <1>1, Associate
<1>4. k * n - k * m = k * (n - m)
  BY Distribute
<1> DEFINE a == k * m
           b == k * n
           d == k * (n - m)
<1> HIDE DEF a, b, d
<1>5. a \in Nat /\ b \in Nat /\ d \in Nat /\ b - a = d
  BY <1>3, <1>4 DEF a, b, d
<1>6. a <= b /\ a + d = b
  BY <1>5
<1> QED BY <1>2, <1>5, <1>6 DEF a, b, d

-----------------------------------------------------------------------------
(* The copies of a piece of code for the pipes, and its event flags.       *)

LoadsIn(s) == Entries(s, "load", SetFull, WaitFree)
StoresIn(s) == Entries(s, "store", WaitFull, SetFree)

Tally(s, loads, stores, full, free) ==
  /\ Proper(s) /\ \A x \in Range(s) : x.op \in Piped
  /\ LoadsIn(s) = loads /\ StoresIn(s) = stores
  /\ Times(s, SetFull, 1) = full /\ Times(s, WaitFull, 1) = full
  /\ Times(s, SetFree, 1) = free /\ Times(s, WaitFree, 1) = free

(* P has those of L, with c and d still to come behind them, and those of M. *)
Joined(P, L, M, c, d) ==
  /\ \A e \in L : Later(e, c, d) \in P
  /\ M \subseteq P
  /\ \A x \in P : x \in M \/ \E e \in L : x = Later(e, c, d)

LEMMA TallyConcat ==
  ASSUME NEW s, NEW t, NEW L, NEW S, NEW M, NEW N, NEW a, NEW b, NEW c, NEW d,
         Tally(s, L, S, a, b), Tally(t, M, N, c, d),
         NEW P, NEW Q, NEW m, NEW n, m = a + c, n = b + d,
         Joined(P, L, M, c, d), Joined(Q, S, N, c, d)
  PROVE  Tally(s \o t, P, Q, m, n)
<1>1. PICK X : /\ s \in Seq(X) /\ t \in Seq(X) /\ Proper(s \o t)
               /\ X = Range(s) \cup Range(t) /\ Range(s \o t) = X
  BY BothProper DEF Tally
<1>2. \A x : Times(s \o t, x, 1) = Times(s, x, 1) + Times(t, x, 1)
  BY <1>1, TimesBoth
<1>3. LoadsIn(s \o t) = P
  <2>1. LoadsIn(s \o t) = {Later(e, Times(t, SetFull, 1), Times(t, WaitFree, 1)) : e \in LoadsIn(s)}
                          \cup LoadsIn(t)
    BY <1>1, EntriesConcat DEF LoadsIn
  <2>2. LoadsIn(s \o t) = {Later(e, c, d) : e \in L} \cup M
    BY <2>1 DEF Tally
  <2> QED BY <2>2 DEF Joined
<1>4. StoresIn(s \o t) = Q
  <2>1. StoresIn(s \o t) = {Later(f, Times(t, WaitFull, 1), Times(t, SetFree, 1)) : f \in StoresIn(s)}
                           \cup StoresIn(t)
    BY <1>1, EntriesConcat DEF StoresIn
  <2>2. StoresIn(s \o t) = {Later(f, c, d) : f \in S} \cup N
    BY <2>1 DEF Tally
  <2> QED BY <2>2 DEF Joined
<1>5. \A x \in Range(s \o t) : x.op \in Piped
  BY <1>1 DEF Tally
<1> QED BY <1>1, <1>2, <1>3, <1>4, <1>5 DEF Tally

LEMMA EntriesOne ==
  ASSUME NEW i, NEW op, NEW x, NEW y
  PROVE  Entries(<<i>>, op, x, y) = IF i.op = op THEN {<<i, Times(<<i>>, x, 1), Times(<<i>>, y, 1)>>} ELSE {}
<1> DEFINE h == <<i>>
<1>1. Len(h) = 1 /\ h[1] = i
  OBVIOUS
<1>2. {j \in 1 .. Len(h) : h[j].op = op} = IF i.op = op THEN {1} ELSE {}
  BY <1>1
<1> HIDE DEF h
<1>3. Entries(h, op, x, y) = IF i.op = op THEN {<<i, Times(h, x, 1), Times(h, y, 1)>>} ELSE {}
  BY <1>1, <1>2 DEF Entries
<1> QED BY <1>3 DEF h

LEMMA TallyCopy ==
  ASSUME NEW i, i.op \in {"load", "store"}
  PROVE  /\ i.op = "load" => Tally(<<i>>, {<<i, 0, 0>>}, {}, 0, 0)
         /\ i.op = "store" => Tally(<<i>>, {}, {<<i, 0, 0>>}, 0, 0)
<1>1. i.op \notin Flagging /\ i.op \in Piped
  BY DEF Flagging, Piped
<1>2. Still(<<i>>) /\ Range(<<i>>) = {i}
  BY <1>1, StillOne
<1>3. /\ Times(<<i>>, SetFull, 1) = 0 /\ Times(<<i>>, WaitFull, 1) = 0
      /\ Times(<<i>>, SetFree, 1) = 0 /\ Times(<<i>>, WaitFree, 1) = 0
  BY <1>2, StillType DEF Turning
<1>4. ASSUME i.op = "load"
      PROVE  LoadsIn(<<i>>) = {<<i, 0, 0>>} /\ StoresIn(<<i>>) = {}
  <2>1. i.op # "store"
    BY <1>4
  <2>2. /\ Entries(<<i>>, "load", SetFull, WaitFree) =
             IF i.op = "load" THEN {<<i, Times(<<i>>, SetFull, 1), Times(<<i>>, WaitFree, 1)>>} ELSE {}
        /\ Entries(<<i>>, "store", WaitFull, SetFree) =
             IF i.op = "store" THEN {<<i, Times(<<i>>, WaitFull, 1), Times(<<i>>, SetFree, 1)>>} ELSE {}
    BY EntriesOne, Zenon
  <2>3. Entries(<<i>>, "load", SetFull, WaitFree) = {<<i, 0, 0>>}
    BY <1>3, <1>4, <2>2, Zenon
  <2>4. Entries(<<i>>, "store", WaitFull, SetFree) = {}
    BY <2>1, <2>2, Zenon
  <2> QED BY <2>3, <2>4, Zenon DEF LoadsIn, StoresIn
<1>5. ASSUME i.op = "store"
      PROVE  LoadsIn(<<i>>) = {} /\ StoresIn(<<i>>) = {<<i, 0, 0>>}
  <2>1. i.op # "load"
    BY <1>5
  <2>2. /\ Entries(<<i>>, "load", SetFull, WaitFree) =
             IF i.op = "load" THEN {<<i, Times(<<i>>, SetFull, 1), Times(<<i>>, WaitFree, 1)>>} ELSE {}
        /\ Entries(<<i>>, "store", WaitFull, SetFree) =
             IF i.op = "store" THEN {<<i, Times(<<i>>, WaitFull, 1), Times(<<i>>, SetFree, 1)>>} ELSE {}
    BY EntriesOne, Zenon
  <2>3. Entries(<<i>>, "store", WaitFull, SetFree) = {<<i, 0, 0>>}
    BY <1>3, <1>5, <2>2, Zenon
  <2>4. Entries(<<i>>, "load", SetFull, WaitFree) = {}
    BY <2>1, <2>2, Zenon
  <2> QED BY <2>3, <2>4, Zenon DEF LoadsIn, StoresIn
<1> QED BY <1>1, <1>2, <1>3, <1>4, <1>5 DEF Tally, Still

LEMMA TallySync ==
  /\ Tally(Sync("MTE2_MTE3"), {}, {}, 1, 0)
  /\ Tally(Sync("MTE3_MTE2"), {}, {}, 0, 1)
<1>1. Sync("MTE2_MTE3") = <<SetFull, WaitFull>> /\ Sync("MTE3_MTE2") = <<SetFree, WaitFree>>
  BY DEF Sync, SetFull, WaitFull, SetFree, WaitFree
<1>2. Proper(Sync("MTE2_MTE3")) /\ Proper(Sync("MTE3_MTE2"))
  BY SyncPassage DEF Passage
<1>3. ASSUME NEW e \in Turning, NEW f \in Turning, NEW s, s = <<e, f>>, Proper(s)
      PROVE  (\A x \in Range(s) : x.op \in Piped) /\ LoadsIn(s) = {} /\ StoresIn(s) = {}
  <2>1. \A x \in Turning : x.op \in Piped /\ x.op # "load" /\ x.op # "store"
    BY DEF Turning, Piped, SetFull, WaitFull, SetFree, WaitFree
  <2>2. \A x \in Range(s) : x \in Turning
    BY <1>3 DEF Range
  <2>3. s \in Seq(Range(s))
    BY <1>3 DEF Proper
  <2> QED BY <2>1, <2>2, <2>3, EntryIs DEF LoadsIn, StoresIn
<1>4. ASSUME NEW s, s = <<SetFull, WaitFull>>
      PROVE  /\ Times(s, SetFull, 1) = 1 /\ Times(s, WaitFull, 1) = 1
             /\ Times(s, SetFree, 1) = 0 /\ Times(s, WaitFree, 1) = 0
  BY <1>4, TwoTimes, FourFlags
<1>5. ASSUME NEW s, s = <<SetFree, WaitFree>>
      PROVE  /\ Times(s, SetFull, 1) = 0 /\ Times(s, WaitFull, 1) = 0
             /\ Times(s, SetFree, 1) = 1 /\ Times(s, WaitFree, 1) = 1
  BY <1>5, TwoTimes, FourFlags
<1>6. SetFull \in Turning /\ WaitFull \in Turning /\ SetFree \in Turning /\ WaitFree \in Turning
  BY DEF Turning
<1>7. ASSUME NEW s, s = Sync("MTE2_MTE3")
      PROVE  Tally(s, {}, {}, 1, 0)
  BY <1>1, <1>2, <1>3, <1>4, <1>6, <1>7 DEF Tally
<1>8. ASSUME NEW s, s = Sync("MTE3_MTE2")
      PROVE  Tally(s, {}, {}, 0, 1)
  BY <1>1, <1>2, <1>3, <1>5, <1>6, <1>8 DEF Tally
<1> QED BY <1>7, <1>8

(* In, over to the other pipe, and out; and back. *)
LEMMA TallyThrough ==
  ASSUME NEW in, NEW out, in.op = "load", out.op = "store"
  PROVE  /\ Tally(<<in>> \o Sync("MTE2_MTE3") \o <<out>>, {<<in, 1, 0>>}, {<<out, 0, 0>>}, 1, 0)
         /\ Tally(<<in>> \o Sync("MTE2_MTE3") \o <<out>> \o <<>>, {<<in, 1, 0>>}, {<<out, 0, 0>>}, 1, 0)
         /\ Tally(<<in>> \o Sync("MTE2_MTE3") \o <<out>> \o Sync("MTE3_MTE2"),
                  {<<in, 1, 1>>}, {<<out, 0, 1>>}, 1, 1)
<1>1. /\ Later(<<in, 0, 0>>, 1, 0) = <<in, 1, 0>> /\ Later(<<in, 1, 0>>, 0, 0) = <<in, 1, 0>>
      /\ Later(<<in, 1, 0>>, 0, 1) = <<in, 1, 1>> /\ Later(<<out, 0, 0>>, 0, 1) = <<out, 0, 1>>
  BY DEF Later
<1>2. \A x, y, c, d : /\ Later(x, c, d) = y => Joined({y}, {x}, {}, c, d)
                      /\ Joined({}, {}, {}, c, d) /\ Joined({x}, {}, {x}, c, d)
  BY DEF Joined
<1>3. 1 = 0 + 1 /\ 1 = 1 + 0 /\ 0 = 0 + 0
  OBVIOUS
<1>4. Tally(<<in>>, {<<in, 0, 0>>}, {}, 0, 0) /\ Tally(<<out>>, {}, {<<out, 0, 0>>}, 0, 0)
  BY TallyCopy
<1> DEFINE u == <<in>> \o Sync("MTE2_MTE3")
           v == u \o <<out>>
<1>5. Tally(u, {<<in, 1, 0>>}, {}, 1, 0)
  <2>1. Joined({<<in, 1, 0>>}, {<<in, 0, 0>>}, {}, 1, 0) /\ Joined({}, {}, {}, 1, 0)
    BY <1>1, <1>2, Zenon
  <2> QED BY <1>3, <1>4, <2>1, TallySync, TallyConcat, Zenon
<1>6. Tally(v, {<<in, 1, 0>>}, {<<out, 0, 0>>}, 1, 0)
  <2>1. Joined({<<in, 1, 0>>}, {<<in, 1, 0>>}, {}, 0, 0) /\ Joined({<<out, 0, 0>>}, {}, {<<out, 0, 0>>}, 0, 0)
    BY <1>1, <1>2, Zenon
  <2> QED BY <1>3, <1>4, <1>5, <2>1, TallyConcat, Zenon
<1>7. Tally(v \o Sync("MTE3_MTE2"), {<<in, 1, 1>>}, {<<out, 0, 1>>}, 1, 1)
  <2>1. Joined({<<in, 1, 1>>}, {<<in, 1, 0>>}, {}, 0, 1) /\ Joined({<<out, 0, 1>>}, {<<out, 0, 0>>}, {}, 0, 1)
    BY <1>1, <1>2, Zenon
  <2> QED BY <1>3, <1>6, <2>1, TallySync, TallyConcat, Zenon
<1>8. v \o <<>> = v
  <2>1. v \in Seq(Range(v))
    BY <1>6 DEF Tally, Proper
  <2> HIDE DEF v
  <2> QED BY <2>1
<1>9. Tally(v \o <<>>, {<<in, 1, 0>>}, {<<out, 0, 0>>}, 1, 0)
  BY <1>6, <1>8, Zenon
<1> QED BY <1>6, <1>7, <1>9

(* One block after the other: the m-th of n copies has n - m more of its   *)
(* kind behind it, and as many flags to wait for.                          *)
BlockLoads(ld, n) == {<<ld[m], n - m + 1, n - m>> : m \in 1 .. n}
BlockStores(st, n) == {<<st[m], n - m, n - m>> : m \in 1 .. n}

LEMMA TallyBlocks ==
  ASSUME NEW n \in Nat, 1 <= n, NEW ld, NEW st, NEW s, DOMAIN s = 1 .. n, s = [k \in 1 .. n |-> s[k]],
         \A k \in 1 .. n : ld[k].op = "load" /\ st[k].op = "store",
         \A k \in 1 .. n : s[k] = <<ld[k]>> \o Sync("MTE2_MTE3") \o <<st[k]>>
                                  \o IF k < n THEN Sync("MTE3_MTE2") ELSE <<>>
  PROVE  Tally(FlattenSeq(s), BlockLoads(ld, n), BlockStores(st, n), n, n - 1)
<1> DEFINE b(i) == IF i < n THEN 1 ELSE 0
           L(i) == {<<ld[m], i - m + 1, i - m + b(i)>> : m \in 1 .. i}
           S(i) == {<<st[m], i - m, i - m + b(i)>> : m \in 1 .. i}
           X == UNION {Range(s[k]) : k \in 1 .. n}
           R == [i \in 1 .. n |-> {u \in Seq(X) : Tally(u, L(i), S(i), i, i - 1 + b(i))}]
<1>1. ASSUME NEW k \in 1 .. n
      PROVE  Tally(s[k], {<<ld[k], 1, b(k)>>}, {<<st[k], 0, b(k)>>}, 1, b(k))
  <2>1. CASE k < n
    <3>1. s[k] = <<ld[k]>> \o Sync("MTE2_MTE3") \o <<st[k]>> \o Sync("MTE3_MTE2")
      BY <2>1
    <3>2. b(k) = 1
      BY <2>1
    <3> HIDE DEF b
    <3> QED BY <3>1, <3>2, TallyThrough, Zenon
  <2>2. CASE ~ (k < n)
    <3>1. s[k] = <<ld[k]>> \o Sync("MTE2_MTE3") \o <<st[k]>> \o <<>>
      BY <2>2
    <3>2. b(k) = 0
      BY <2>2
    <3> HIDE DEF b
    <3> QED BY <3>1, <3>2, TallyThrough, Zenon
  <2> QED BY <2>1, <2>2
<1>2. \A k \in 1 .. n : s[k] \in Seq(Range(s[k]))
  <2> HIDE DEF b
  <2> QED BY <1>1 DEF Tally, Proper
<1>3. s \in Seq(Seq(X))
  BY <1>2, RangeFlat
<1> HIDE DEF X
<1>4. Len(s) = n /\ s # <<>> /\ \A k \in 1 .. n : s[k] \in Seq(X)
  BY <1>3
<1>5. s[1] \in R[1]
  <2>1. L(1) = {<<ld[1], 1, b(1)>>} /\ S(1) = {<<st[1], 0, b(1)>>} /\ 1 - 1 + b(1) = b(1)
    <3>1. 1 .. 1 = {1}
      OBVIOUS
    <3>2. L(1) = {<<ld[1], 1 - 1 + 1, 1 - 1 + b(1)>>} /\ S(1) = {<<st[1], 1 - 1, 1 - 1 + b(1)>>}
      <4> HIDE DEF b
      <4> QED BY <3>1
    <3>3. 1 - 1 + 1 = 1 /\ 1 - 1 = 0 /\ 1 - 1 + b(1) = b(1)
      OBVIOUS
    <3> HIDE DEF b, L, S
    <3> QED BY <3>2, <3>3
  <2>2. 1 \in 1 .. n
    OBVIOUS
  <2>3. Tally(s[1], {<<ld[1], 1, b(1)>>}, {<<st[1], 0, b(1)>>}, 1, b(1))
    BY <1>1, <2>2
  <2> HIDE DEF b, L, S
  <2>4. Tally(s[1], L(1), S(1), 1, 1 - 1 + b(1))
    BY <2>1, <2>3, Zenon
  <2> QED BY <1>4, <2>2, <2>4
<1>6. \A i \in 1 .. Len(s) - 1 : \A u \in R[i] : u \o s[i + 1] \in R[i + 1]
  <2> TAKE i \in 1 .. Len(s) - 1
  <2> TAKE u \in R[i]
  <2> DEFINE j == i + 1
             c == b(j)
  <2>1. i \in 1 .. n /\ j \in 1 .. n /\ b(i) = 1 /\ c \in {0, 1} /\ i \in Nat
    BY <1>4
  <2>2. Tally(s[j], {<<ld[j], 1, c>>}, {<<st[j], 0, c>>}, 1, c)
    BY <1>1, <2>1
  <2>3. u \in Seq(X) /\ Tally(u, L(i), S(i), i, i - 1 + b(i))
    BY <2>1
  <2>4. Joined(L(j), L(i), {<<ld[j], 1, c>>}, 1, c)
    <3>1. \A m \in 1 .. i : Later(<<ld[m], i - m + 1, i - m + b(i)>>, 1, c) = <<ld[m], j - m + 1, j - m + c>>
      <4> TAKE m \in 1 .. i
      <4>1. i - m + 1 + 1 = j - m + 1 /\ i - m + b(i) + c = j - m + c
        BY <2>1
      <4> HIDE DEF b, j, c
      <4> QED BY <4>1 DEF Later
    <3>2. \A m \in 1 .. j : m \in 1 .. i \/ m = j
      OBVIOUS
    <3>3. \A m \in 1 .. i : m \in 1 .. j
      OBVIOUS
    <3>4. <<ld[j], j - j + 1, j - j + c>> = <<ld[j], 1, c>> /\ j \in 1 .. j
      <4>1. j - j + 1 = 1 /\ j - j + c = c
        BY <2>1
      <4> HIDE DEF c
      <4> QED BY <2>1, <4>1
    <3> HIDE DEF j, c, b
    <3>5. \A x \in L(i) : Later(x, 1, c) \in L(j)
      <4> TAKE x \in L(i)
      <4>1. PICK m \in 1 .. i : x = <<ld[m], i - m + 1, i - m + b(i)>>
        OBVIOUS
      <4>2. Later(x, 1, c) = <<ld[m], j - m + 1, j - m + b(j)>> /\ m \in 1 .. j
        BY <3>1, <3>3, <4>1 DEF c
      <4> QED BY <4>2
    <3>6. {<<ld[j], 1, c>>} \subseteq L(j)
      <4>1. <<ld[j], 1, c>> \in L(j)
        BY <3>4 DEF c
      <4> HIDE DEF L
      <4> QED BY <4>1
    <3>7. \A x \in L(j) : x \in {<<ld[j], 1, c>>} \/ \E e \in L(i) : x = Later(e, 1, c)
      <4> TAKE x \in L(j)
      <4>1. PICK m \in 1 .. j : x = <<ld[m], j - m + 1, j - m + b(j)>>
        OBVIOUS
      <4>2. CASE m = j
        BY <3>4, <4>1, <4>2 DEF c
      <4>3. CASE m \in 1 .. i
        <5>1. <<ld[m], i - m + 1, i - m + b(i)>> \in L(i)
          BY <4>3
        <5>2. x = Later(<<ld[m], i - m + 1, i - m + b(i)>>, 1, c)
          BY <3>1, <4>1, <4>3 DEF c
        <5> HIDE DEF L
        <5> QED BY <5>1, <5>2
      <4> QED BY <3>2, <4>2, <4>3
    <3> HIDE DEF L
    <3> QED BY <3>5, <3>6, <3>7 DEF Joined
  <2>5. Joined(S(j), S(i), {<<st[j], 0, c>>}, 1, c)
    <3>1. \A m \in 1 .. i : Later(<<st[m], i - m, i - m + b(i)>>, 1, c) = <<st[m], j - m, j - m + c>>
      <4> TAKE m \in 1 .. i
      <4>1. i - m + 1 = j - m /\ i - m + b(i) + c = j - m + c
        BY <2>1
      <4> HIDE DEF b, j, c
      <4> QED BY <4>1 DEF Later
    <3>2. \A m \in 1 .. j : m \in 1 .. i \/ m = j
      OBVIOUS
    <3>3. \A m \in 1 .. i : m \in 1 .. j
      OBVIOUS
    <3>4. <<st[j], j - j, j - j + c>> = <<st[j], 0, c>> /\ j \in 1 .. j
      <4>1. j - j = 0 /\ j - j + c = c
        BY <2>1
      <4> HIDE DEF c
      <4> QED BY <2>1, <4>1
    <3> HIDE DEF j, c, b
    <3>5. \A x \in S(i) : Later(x, 1, c) \in S(j)
      <4> TAKE x \in S(i)
      <4>1. PICK m \in 1 .. i : x = <<st[m], i - m, i - m + b(i)>>
        OBVIOUS
      <4>2. Later(x, 1, c) = <<st[m], j - m, j - m + b(j)>> /\ m \in 1 .. j
        BY <3>1, <3>3, <4>1 DEF c
      <4> QED BY <4>2
    <3>6. {<<st[j], 0, c>>} \subseteq S(j)
      <4>1. <<st[j], 0, c>> \in S(j)
        BY <3>4 DEF c
      <4> HIDE DEF S
      <4> QED BY <4>1
    <3>7. \A x \in S(j) : x \in {<<st[j], 0, c>>} \/ \E e \in S(i) : x = Later(e, 1, c)
      <4> TAKE x \in S(j)
      <4>1. PICK m \in 1 .. j : x = <<st[m], j - m, j - m + b(j)>>
        OBVIOUS
      <4>2. CASE m = j
        BY <3>4, <4>1, <4>2 DEF c
      <4>3. CASE m \in 1 .. i
        <5>1. <<st[m], i - m, i - m + b(i)>> \in S(i)
          BY <4>3
        <5>2. x = Later(<<st[m], i - m, i - m + b(i)>>, 1, c)
          BY <3>1, <4>1, <4>3 DEF c
        <5> HIDE DEF S
        <5> QED BY <5>1, <5>2
      <4> QED BY <3>2, <4>2, <4>3
    <3> HIDE DEF S
    <3> QED BY <3>5, <3>6, <3>7 DEF Joined
  <2>6. j = i + 1 /\ j - 1 + c = i - 1 + b(i) + c
    BY <2>1
  <2>7. u \o s[j] \in Seq(X)
    BY <1>4, <2>1, <2>3
  <2> HIDE DEF b, c, L, S
  <2>8. Tally(u \o s[j], L(j), S(j), j, j - 1 + c)
    BY <2>2, <2>3, <2>4, <2>5, <2>6, TallyConcat, Zenon
  <2>9. u \o s[j] \in {v \in Seq(X) : Tally(v, L(j), S(j), j, j - 1 + b(j))}
    BY <2>7, <2>8 DEF c
  <2> QED BY <2>1, <2>9
<1>7. FlattenSeq(s) \in R[n]
  <2> HIDE DEF R
  <2> QED BY <1>3, <1>4, <1>5, <1>6, FlattenSteps
<1>8. Tally(FlattenSeq(s), L(n), S(n), n, n - 1 + b(n))
  <2> HIDE DEF L, S, b
  <2>1. n \in 1 .. n
    OBVIOUS
  <2> QED BY <1>7, <2>1
<1>9. /\ L(n) = {<<ld[m], n - m + 1, n - m>> : m \in 1 .. n} /\ S(n) = {<<st[m], n - m, n - m>> : m \in 1 .. n}
      /\ n - 1 + b(n) = n - 1
  <2>1. b(n) = 0 /\ n - 1 + b(n) = n - 1
    OBVIOUS
  <2>2. \A m \in 1 .. n : n - m + b(n) = n - m
    BY <2>1
  <2> HIDE DEF b
  <2> QED BY <2>1, <2>2
<1> QED BY <1>8, <1>9, Zenon DEF BlockLoads, BlockStores

-----------------------------------------------------------------------------
(* What the kinds of instructions write and read. *)
LEMMA WritesOf ==
  ASSUME NEW i
  PROVE  /\ i.op \in Copiers => /\ Writes(i) = Touched(i)
                               /\ Reads(i) = {<<i.src.mem, Origin(i, x[2])>> : x \in Touched(i)}
         /\ i.op \in Writers => Writes(i) = {<<i.dst.mem, i.dst.at>>} /\ Reads(i) = {}
         /\ i.op \in Readers => Writes(i) = {} /\ Reads(i) = {<<i.src.mem, i.src.at>>}
         /\ i.op \notin Copiers \cup Writers => Writes(i) = {}
         /\ i.op \notin Copiers \cup Readers => Reads(i) = {}
<1>1. /\ \A o \in Copiers : o \notin Writers /\ o \notin Readers
      /\ \A o \in Writers : o \notin Copiers /\ o \notin Readers
      /\ \A o \in Readers : o \notin Copiers /\ o \notin Writers
  BY DEF Copiers, Writers, Readers
<1>2. CASE i.op \in Copiers
  BY <1>1, <1>2 DEF Writes, Reads
<1>3. CASE i.op \in Writers
  BY <1>1, <1>3 DEF Writes, Reads
<1>4. CASE i.op \in Readers
  BY <1>1, <1>4 DEF Writes, Reads
<1>5. CASE i.op \notin Copiers \cup Writers \cup Readers
  BY <1>5 DEF Writes, Reads
<1> QED BY <1>1, <1>2, <1>3, <1>4, <1>5

(* Copies through the buffer.  A store is fed by the load whose flag it    *)
(* waits for; what loads L and stores S carry between them is the copy C.  *)

Feeds(e, f, x) == e[2] = f[2] + 1 /\ From(f[1], x) \in Writes(e[1])

Relays(L, S, C) ==
  /\ \A f \in S : \A x \in Writes(f[1]) :
       /\ x \in Touched(C)
       /\ From(f[1], x) \in Everywhere =>
            /\ \E e \in L : Feeds(e, f, x)
            /\ \A e \in L : Feeds(e, f, x) => From(e[1], From(f[1], x)) = From(C, x)
            /\ \A e \in L : From(f[1], x) \in Writes(e[1]) /\ e[2] <= f[2] => e[3] < f[3]
  /\ \A x \in Touched(C) : \E f \in S : x \in Writes(f[1])

(* One load and the store after it. *)
Carries(ld, st, C) ==
  \A x \in Writes(st) :
    /\ x \in Touched(C)
    /\ From(st, x) \in Everywhere => From(st, x) \in Writes(ld) /\ From(ld, From(st, x)) = From(C, x)

LEMMA CarriedRelays ==
  ASSUME NEW n \in Nat, NEW ld, NEW st, NEW C, \A m \in 1 .. n : Carries(ld[m], st[m], C),
         \A x \in Touched(C) : \E m \in 1 .. n : x \in Writes(st[m])
  PROVE  Relays(BlockLoads(ld, n), BlockStores(st, n), C)
<1> DEFINE E(m) == <<ld[m], n - m + 1, n - m>>
           F(m) == <<st[m], n - m, n - m>>
           L == {E(m) : m \in 1 .. n}
           S == {F(m) : m \in 1 .. n}
<1>1. \A m \in 1 .. n : /\ E(m)[1] = ld[m] /\ E(m)[2] = n - m + 1 /\ E(m)[3] = n - m
                        /\ F(m)[1] = st[m] /\ F(m)[2] = n - m /\ F(m)[3] = n - m
  OBVIOUS
<1> HIDE DEF E, F
<1>2. ASSUME NEW m \in 1 .. n, NEW x \in Writes(F(m)[1]), From(F(m)[1], x) \in Everywhere
      PROVE  /\ \E e \in L : Feeds(e, F(m), x)
             /\ \A e \in L : Feeds(e, F(m), x) => From(e[1], From(F(m)[1], x)) = From(C, x)
             /\ \A e \in L : From(F(m)[1], x) \in Writes(e[1]) /\ e[2] <= F(m)[2] => e[3] < F(m)[3]
  <2>1. From(st[m], x) \in Writes(ld[m]) /\ From(ld[m], From(st[m], x)) = From(C, x)
    BY <1>1, <1>2 DEF Carries
  <2>2. Feeds(E(m), F(m), x)
    BY <1>1, <2>1 DEF Feeds
  <2>3. ASSUME NEW k \in 1 .. n, Feeds(E(k), F(m), x)
        PROVE  From(E(k)[1], From(F(m)[1], x)) = From(C, x)
    <3>1. n - k + 1 = n - m + 1
      BY <1>1, <2>3 DEF Feeds
    <3>2. k = m
      BY <3>1
    <3> QED BY <1>1, <2>1, <3>2
  <2>4. ASSUME NEW k \in 1 .. n, E(k)[2] <= F(m)[2]
        PROVE  E(k)[3] < F(m)[3]
    <3>1. n - k + 1 <= n - m
      BY <1>1, <2>4
    <3>2. n - k < n - m
      BY <3>1
    <3> QED BY <1>1, <3>2
  <2> QED BY <2>2, <2>3, <2>4
<1>3. ASSUME NEW m \in 1 .. n, NEW x \in Writes(F(m)[1])
      PROVE  x \in Touched(C)
  BY <1>1, <1>3 DEF Carries
<1>4. ASSUME NEW x \in Touched(C)
      PROVE  \E f \in S : x \in Writes(f[1])
  <2>1. PICK m \in 1 .. n : x \in Writes(st[m])
    OBVIOUS
  <2>2. F(m) \in S /\ F(m)[1] = st[m]
    BY <1>1
  <2> QED BY <2>1, <2>2
<1>5. ASSUME NEW f \in S, NEW x \in Writes(f[1])
      PROVE  /\ x \in Touched(C)
             /\ From(f[1], x) \in Everywhere =>
                  /\ \E e \in L : Feeds(e, f, x)
                  /\ \A e \in L : Feeds(e, f, x) => From(e[1], From(f[1], x)) = From(C, x)
                  /\ \A e \in L : From(f[1], x) \in Writes(e[1]) /\ e[2] <= f[2] => e[3] < f[3]
  <2>1. PICK m \in 1 .. n : f = F(m)
    OBVIOUS
  <2> HIDE DEF L, S
  <2>2. x \in Touched(C)
    BY <1>3, <2>1
  <2>3. From(f[1], x) \in Everywhere =>
          /\ \E e \in L : Feeds(e, f, x)
          /\ \A e \in L : Feeds(e, f, x) => From(e[1], From(f[1], x)) = From(C, x)
          /\ \A e \in L : From(f[1], x) \in Writes(e[1]) /\ e[2] <= f[2] => e[3] < f[3]
    BY <1>2, <2>1, Zenon
  <2> QED BY <2>2, <2>3, Zenon
<1>6. Relays(L, S, C)
  <2> HIDE DEF L, S
  <2> QED BY <1>4, <1>5, Zenon DEF Relays
<1> QED BY <1>6 DEF E, F, BlockLoads, BlockStores

LEMMA CopyCarries ==
  ASSUME NEW ld, NEW st, NEW C, ld.op = "load", st.op = "store", ld.rows = st.rows, ld.len = st.len,
         ld.dst = st.src, ld.dp = st.sp, st.rows \in Nat, st.len \in Nat, st.sp \in Nat,
         st.len <= st.sp, st.dp \in Nat, st.len <= st.dp, st.dst.at \in Nat, st.src.at \in Nat,
         st.dst.mem = C.dst.mem, ld.src.mem = C.src.mem,
         \A a \in Nat : InCopy(st, a) =>
           InCopy(C, a) /\ Origin(C, a) = ld.src.at + ((a - st.dst.at) \div st.dp) * ld.sp
                                         + ((a - st.dst.at) % st.dp)
  PROVE  Carries(ld, st, C)
<1> SUFFICES ASSUME NEW x \in Writes(st)
             PROVE  /\ x \in Touched(C)
                    /\ From(st, x) \in Everywhere =>
                         From(st, x) \in Writes(ld) /\ From(ld, From(st, x)) = From(C, x)
  BY DEF Carries
<1>1. Writes(st) = Touched(st) /\ Writes(ld) = Touched(ld)
  <2>1. st.op \in Copiers /\ ld.op \in Copiers
    BY DEF Copiers
  <2> QED BY <2>1, WritesOf
<1>2. PICK a \in 0 .. Size(st.dst.mem) - 1 : InCopy(st, a) /\ x = <<st.dst.mem, a>>
  BY <1>1 DEF Touched
<1>3. a \in Nat
  OBVIOUS
<1>4. /\ InCopy(C, a)
      /\ Origin(C, a) = ld.src.at + ((a - st.dst.at) \div st.dp) * ld.sp + ((a - st.dst.at) % st.dp)
  BY <1>2, <1>3
<1>5. /\ Origin(st, a) \in Nat /\ InCopy(ld, Origin(st, a))
      /\ Origin(ld, Origin(st, a)) = ld.src.at + ((a - st.dst.at) \div st.dp) * ld.sp
                                     + ((a - st.dst.at) % st.dp)
  BY <1>2, <1>3, InAndOut
<1>6. x \in Touched(C)
  BY <1>2, <1>4 DEF Touched
<1>7. From(st, x) = <<st.src.mem, Origin(st, a)>>
  BY <1>2 DEF From
<1>8. ASSUME From(st, x) \in Everywhere
      PROVE  From(st, x) \in Writes(ld)
  <2>1. PICK m \in Memories : <<st.src.mem, Origin(st, a)>> \in {m} \X (0 .. Size(m) - 1)
    BY <1>7, <1>8 DEF Everywhere
  <2>2. Origin(st, a) \in 0 .. Size(ld.dst.mem) - 1
    BY <2>1
  <2> QED BY <1>1, <1>5, <1>7, <2>2 DEF Touched
<1>9. From(ld, From(st, x)) = From(C, x)
  BY <1>2, <1>4, <1>5, <1>7 DEF From
<1> QED BY <1>6, <1>8, <1>9

(* The blocks of a copy lie within it, one after the other. *)
Chunk(i, repeat, block, rest) == IF i < repeat THEN block ELSE rest

LEMMA BlocksWithin ==
  ASSUME NEW bytes \in Nat, NEW block \in Nat, 0 < block,
         NEW repeat, repeat = bytes \div block,
         NEW loops, loops = repeat + IF bytes % block > 0 THEN 1 ELSE 0
  PROVE  /\ repeat \in Nat /\ loops \in Nat
         /\ \A k \in 1 .. loops :
              /\ (k - 1) * block \in Nat /\ Chunk(k - 1, repeat, block, bytes % block) \in Nat
              /\ (k - 1) * block + Chunk(k - 1, repeat, block, bytes % block) <= bytes
         /\ \A d \in 0 .. bytes - 1 : \E k \in 1 .. loops :
              /\ (k - 1) * block <= d
              /\ d < (k - 1) * block + Chunk(k - 1, repeat, block, bytes % block)
<1> DEFINE r == bytes % block
           chunk(i) == Chunk(i, repeat, block, r)
<1>1. repeat \in Nat /\ r \in 0 .. block - 1 /\ bytes = block * repeat + r /\ block * repeat \in Nat
  BY Quotient
<1> HIDE DEF r
<1>2. loops = repeat + IF r > 0 THEN 1 ELSE 0
  BY DEF r
<1>3. loops \in Nat
  BY <1>1, <1>2
<1>4. \A i \in Nat : i * block = block * i /\ block * i \in Nat
  <2> TAKE i \in Nat
  <2>1. i * block = block * i
    OBVIOUS
  <2> QED BY <2>1, Associate
<1>5. ASSUME NEW k \in 1 .. loops
      PROVE  (k - 1) * block \in Nat /\ chunk(k - 1) \in Nat /\ (k - 1) * block + chunk(k - 1) <= bytes
  <2> DEFINE i == k - 1
  <2>1. i \in Nat /\ i <= repeat /\ (~ (i < repeat) => i = repeat)
    BY <1>1, <1>2
  <2> HIDE DEF i
  <2>2. i * block = block * i /\ block * i \in Nat
    BY <1>4, <2>1
  <2>3. CASE i < repeat
    <3>1. block * i + block <= block * repeat
      BY <1>1, <2>1, <2>3, Farther
    <3>2. chunk(i) = block
      BY <2>3 DEF Chunk
    <3> HIDE DEF chunk
    <3> QED BY <1>1, <2>2, <3>1, <3>2 DEF i
  <2>4. CASE ~ (i < repeat)
    <3>1. block * i = block * repeat
      BY <2>1, <2>4
    <3>2. chunk(i) = r
      BY <2>4 DEF Chunk
    <3> HIDE DEF chunk
    <3> QED BY <1>1, <2>2, <3>1, <3>2 DEF i
  <2> QED BY <2>3, <2>4
<1>6. ASSUME NEW d \in 0 .. bytes - 1
      PROVE  \E k \in 1 .. loops : (k - 1) * block <= d /\ d < (k - 1) * block + chunk(k - 1)
  <2> DEFINE q == d \div block
             z == d % block
  <2>1. q \in Nat /\ z \in 0 .. block - 1 /\ d = block * q + z /\ block * q \in Nat
    <3>1. d \in Nat
      OBVIOUS
    <3> QED BY <3>1, Quotient
  <2> HIDE DEF q, z
  <2>2. q <= repeat
    <3>1. repeat < q => block * repeat + block <= block * q
      BY <1>1, <2>1, Farther
    <3> QED BY <1>1, <2>1, <3>1
  <2>3. (q + 1) - 1 = q /\ q * block = block * q
    BY <1>4, <2>1
  <2>4. q + 1 \in 1 .. loops /\ d < block * q + chunk(q)
    <3>1. CASE q < repeat
      BY <1>1, <1>2, <2>1, <3>1 DEF Chunk
    <3>2. CASE ~ (q < repeat)
      <4>1. q = repeat /\ block * q = block * repeat
        BY <1>1, <2>1, <2>2, <3>2
      <4>2. d < block * q + r /\ r > 0
        BY <1>1, <2>1, <4>1
      <4>3. chunk(q) = r /\ q + 1 \in 1 .. loops
        BY <1>1, <1>2, <3>2, <4>1, <4>2 DEF Chunk
      <4> HIDE DEF chunk
      <4> QED BY <4>2, <4>3
    <3> QED BY <3>1, <3>2
  <2> HIDE DEF chunk
  <2> DEFINE k == q + 1
  <2>5. k \in 1 .. loops /\ k - 1 = q
    BY <2>1, <2>4
  <2>6. q * block <= d /\ d < q * block + chunk(q)
    BY <2>1, <2>3, <2>4
  <2> HIDE DEF k
  <2>7. (k - 1) * block <= d /\ d < (k - 1) * block + chunk(k - 1)
    BY <2>5, <2>6, Zenon
  <2> QED BY <2>5, <2>7, Zenon
<1>7. \A k \in 1 .. loops :
        /\ (k - 1) * block \in Nat /\ Chunk(k - 1, repeat, block, bytes % block) \in Nat
        /\ (k - 1) * block + Chunk(k - 1, repeat, block, bytes % block) <= bytes
  BY <1>5, Zenon DEF r
<1>8. \A d \in 0 .. bytes - 1 : \E k \in 1 .. loops :
        /\ (k - 1) * block <= d
        /\ d < (k - 1) * block + Chunk(k - 1, repeat, block, bytes % block)
  BY <1>6, Zenon DEF r
<1> QED BY <1>1, <1>3, <1>7, <1>8, Zenon

(* One row in and out. *)
LEMMA BlockCarries ==
  ASSUME NEW m, NEW a \in Nat, NEW n, NEW b \in Nat, NEW buf, buf.at \in Nat, NEW bytes \in Nat,
         NEW o \in Nat, NEW l \in Nat, o + l <= bytes,
         NEW ld, ld = Copy("load", Spot(m, a + o), buf, 1, l, l + 0, RoundUp(l) + 0 * UbUnit),
         NEW st, st = Copy("store", buf, Spot(n, b + o), 1, l, RoundUp(l) + 0 * UbUnit, l + 0),
         NEW C, C = Copy("ideal", Spot(m, a), Spot(n, b), 1, bytes, bytes, bytes)
  PROVE  /\ Carries(ld, st, C)
         /\ \A t \in Nat : b + o <= t /\ t < b + o + l => InCopy(st, t)
<1> DEFINE P == RoundUp(l) + 0 * UbUnit
<1>1. P \in Nat /\ l <= P
  <2>1. RoundUp(l) \in Nat /\ l <= RoundUp(l) /\ 0 * UbUnit = 0
    BY RoundUpHolds, ArgumentAssumption
  <2> QED BY <2>1
<1> HIDE DEF P
<1>2. /\ ld.op = "load" /\ ld.src.mem = m /\ ld.src.at = a + o /\ ld.dst = buf /\ ld.rows = 1 /\ ld.len = l
      /\ ld.sp = l /\ ld.dp = P
  BY DEF Copy, Spot, P
<1>3. /\ st.op = "store" /\ st.src = buf /\ st.dst.mem = n /\ st.dst.at = b + o /\ st.rows = 1 /\ st.len = l
      /\ st.sp = P /\ st.dp = l
  BY DEF Copy, Spot, P
<1>4. /\ C.src.mem = m /\ C.src.at = a /\ C.dst.mem = n /\ C.dst.at = b /\ C.rows = 1
      /\ C.len = bytes /\ C.sp = bytes /\ C.dp = bytes
  BY DEF Copy, Spot
<1> HIDE DEF Copy
<1>5. \A t \in Nat : InCopy(st, t) <=> b + o <= t /\ t < b + o + l
  BY <1>1, <1>3, OneRow
<1>6. ASSUME NEW t \in Nat, InCopy(st, t)
      PROVE  /\ InCopy(C, t)
             /\ Origin(C, t) = ld.src.at + ((t - st.dst.at) \div st.dp) * ld.sp + ((t - st.dst.at) % st.dp)
  <2> DEFINE d == t - st.dst.at
  <2>1. b + o <= t /\ t < b + o + l
    BY <1>5, <1>6
  <2>2. C.dst.at <= t /\ t < C.dst.at + C.len
    BY <1>4, <2>1
  <2>3. InCopy(C, t) /\ Origin(C, t) = a + (t - b)
    BY <1>4, <2>2, OneRow
  <2>4. d \in Nat /\ d < l /\ 0 < l /\ d = t - (b + o)
    BY <1>3, <2>1
  <2> HIDE DEF d
  <2>5. d \div l = 0 /\ d % l = d
    BY <2>4, Quotient
  <2>6. (d \div l) * l = 0
    BY <2>5
  <2>7. ld.src.at + (d \div st.dp) * ld.sp + (d % st.dp) = a + o + 0 + d
    BY <1>2, <1>3, <2>5, <2>6
  <2> QED BY <2>3, <2>4, <2>7 DEF d
<1>7. Carries(ld, st, C)
  BY <1>1, <1>2, <1>3, <1>4, <1>6, CopyCarries
<1> QED BY <1>5, <1>7

(* What PE p does for a copy C through its buffer: loads and stores only,  *)
(* which carry it between them.                                            *)
Relayed(p, C, s) ==
  /\ Proper(s) /\ Relays(LoadsIn(s), StoresIn(s), C)
  /\ \A i \in Range(s) :
       /\ i.op = "load" => i.src.mem = C.src.mem /\ i.dst.mem = UbOf(p)
       /\ i.op = "store" => i.src.mem = UbOf(p) /\ i.dst.mem = C.dst.mem
       /\ i.op \in Piped

LEMMA TallyRelayed ==
  ASSUME NEW p, NEW C, NEW s, NEW L, NEW S, NEW a, NEW b, Tally(s, L, S, a, b), Relays(L, S, C),
         \A e \in L : e[1].src.mem = C.src.mem /\ e[1].dst.mem = UbOf(p),
         \A f \in S : f[1].src.mem = UbOf(p) /\ f[1].dst.mem = C.dst.mem
  PROVE  Relayed(p, C, s)
<1>1. Proper(s) /\ LoadsIn(s) = L /\ StoresIn(s) = S /\ \A x \in Range(s) : x.op \in Piped
  BY DEF Tally
<1>2. s \in Seq(Range(s))
  BY <1>1 DEF Proper
<1>3. ASSUME NEW i \in Range(s)
      PROVE  /\ i.op = "load" => \E e \in L : e[1] = i
             /\ i.op = "store" => \E f \in S : f[1] = i
  BY <1>1, <1>2, EntryIs DEF LoadsIn, StoresIn
<1>4. \A x \in Range(s) : x.op # "post"
  BY <1>1 DEF Piped
<1> QED BY <1>1, <1>3, <1>4 DEF Relayed

LEMMA BlockwiseRelayed ==
  ASSUME NEW p, NEW g, NEW a \in Nat, NEW h, NEW b \in Nat, NEW u \in Nat,
         NEW bytes \in Nat, NEW block \in Nat, 0 < block,
         NEW C, C = Copy("ideal", Spot(g, a), Spot(h, b), 1, bytes, bytes, bytes)
  PROVE  Relayed(p, C, Blockwise(Spot(g, a), Spot(h, b), Ub(p, u), bytes, block))
<1> DEFINE repeat == bytes \div block
           loops == repeat + IF bytes % block > 0 THEN 1 ELSE 0
           chunk(i) == Chunk(i, repeat, block, bytes % block)
           buf == Ub(p, u)
           ld == [k \in 1 .. loops |->
                   Copy("load", Spot(g, a + (k - 1) * block), buf, 1, chunk(k - 1), chunk(k - 1) + 0,
                        RoundUp(chunk(k - 1)) + 0 * UbUnit)]
           st == [k \in 1 .. loops |->
                   Copy("store", buf, Spot(h, b + (k - 1) * block), 1, chunk(k - 1),
                        RoundUp(chunk(k - 1)) + 0 * UbUnit, chunk(k - 1) + 0)]
           part(k) == Through(Plus(Spot(g, a), (k - 1) * block), Plus(Spot(h, b), (k - 1) * block),
                              buf, chunk(k - 1))
                      \o ChunkSync(k - 1, repeat, loops)
           s == [k \in 1 .. loops |-> part(k)]
           L == BlockLoads(ld, loops)
           S == BlockStores(st, loops)
<1>1. /\ repeat \in Nat /\ loops \in Nat
      /\ \A k \in 1 .. loops :
           (k - 1) * block \in Nat /\ chunk(k - 1) \in Nat /\ (k - 1) * block + chunk(k - 1) <= bytes
      /\ \A d \in 0 .. bytes - 1 : \E k \in 1 .. loops :
           (k - 1) * block <= d /\ d < (k - 1) * block + chunk(k - 1)
  <2>1. repeat = bytes \div block /\ loops = repeat + IF bytes % block > 0 THEN 1 ELSE 0
    OBVIOUS
  <2> HIDE DEF repeat, loops
  <2>2. repeat \in Nat /\ loops \in Nat
    BY <2>1, BlocksWithin, Zenon
  <2>3. \A k \in 1 .. loops :
           (k - 1) * block \in Nat /\ chunk(k - 1) \in Nat /\ (k - 1) * block + chunk(k - 1) <= bytes
    BY <2>1, BlocksWithin, Zenon
  <2>4. \A d \in 0 .. bytes - 1 : \E k \in 1 .. loops :
           (k - 1) * block <= d /\ d < (k - 1) * block + chunk(k - 1)
    BY <2>1, BlocksWithin, Zenon
  <2> QED BY <2>2, <2>3, <2>4
<1>2. \A k \in 1 .. loops : k < loops => ChunkSync(k - 1, repeat, loops) = Sync("MTE3_MTE2")
  <2> TAKE k \in 1 .. loops
  <2>1. loops <= repeat + 1
    <3>1. repeat \in Nat
      BY <1>1
    <3> HIDE DEF repeat
    <3> QED BY <3>1
  <2> HIDE DEF repeat, loops
  <2>2. k < loops => k - 1 < repeat /\ k - 1 # loops - 1
    BY <1>1, <2>1
  <2> QED BY <2>2 DEF ChunkSync
<1>3. ChunkSync(loops - 1, repeat, loops) = <<>>
  BY DEF ChunkSync
<1> HIDE DEF repeat, loops, chunk
<1>4. ASSUME NEW k \in 1 .. loops
      PROVE  part(k) = <<ld[k]>> \o Sync("MTE2_MTE3") \o <<st[k]>>
                       \o IF k < loops THEN Sync("MTE3_MTE2") ELSE <<>>
  <2>1. /\ Plus(Spot(g, a), (k - 1) * block) = Spot(g, a + (k - 1) * block)
        /\ Plus(Spot(h, b), (k - 1) * block) = Spot(h, b + (k - 1) * block)
    BY DEF Plus, Spot
  <2>2. Through(Plus(Spot(g, a), (k - 1) * block), Plus(Spot(h, b), (k - 1) * block), buf, chunk(k - 1))
          = <<ld[k]>> \o Sync("MTE2_MTE3") \o <<st[k]>>
    <3>1. /\ shmemi_copy_gm2ub(buf, Spot(g, a + (k - 1) * block), 1, chunk(k - 1), 0, 0) = <<ld[k]>>
          /\ shmemi_copy_ub2gm(Spot(h, b + (k - 1) * block), buf, 1, chunk(k - 1), 0, 0) = <<st[k]>>
      BY DEF shmemi_copy_gm2ub, shmemi_copy_ub2gm
    <3> HIDE DEF ld, st, buf
    <3> QED BY <2>1, <3>1, Zenon DEF Through
  <2>3. ChunkSync(k - 1, repeat, loops) = IF k < loops THEN Sync("MTE3_MTE2") ELSE <<>>
    <3>1. CASE k < loops
      BY <1>2, <3>1
    <3>2. CASE ~ (k < loops)
      <4>1. k = loops
        BY <1>1, <3>2
      <4> QED BY <1>3, <3>2, <4>1
    <3> QED BY <3>1, <3>2
  <2> HIDE DEF ld, st, buf
  <2> QED BY <2>2, <2>3, Zenon
<1>5. \A k \in 1 .. loops : ld[k].op = "load" /\ st[k].op = "store" /\ ld[k].src.mem = C.src.mem
        /\ ld[k].dst.mem = UbOf(p) /\ st[k].src.mem = UbOf(p) /\ st[k].dst.mem = C.dst.mem
  BY DEF Copy, Spot, Ub
<1>6. ASSUME NEW k \in 1 .. loops
      PROVE  /\ Carries(ld[k], st[k], C)
             /\ \A t \in Nat : b + (k - 1) * block <= t /\ t < b + (k - 1) * block + chunk(k - 1)
                               => InCopy(st[k], t)
  <2> DEFINE o == (k - 1) * block
             l == chunk(k - 1)
  <2>1. buf.at \in Nat
    BY DEF Ub, Spot
  <2>2. o \in Nat /\ l \in Nat /\ o + l <= bytes
    BY <1>1
  <2>3. /\ ld[k] = Copy("load", Spot(g, a + o), buf, 1, l, l + 0, RoundUp(l) + 0 * UbUnit)
        /\ st[k] = Copy("store", buf, Spot(h, b + o), 1, l, RoundUp(l) + 0 * UbUnit, l + 0)
    OBVIOUS
  <2> HIDE DEF ld, st, o, l, buf
  <2>4. /\ Carries(ld[k], st[k], C)
        /\ \A t \in Nat : b + o <= t /\ t < b + o + l => InCopy(st[k], t)
    BY <2>1, <2>2, <2>3, BlockCarries
  <2> QED BY <2>4 DEF o, l
<1> HIDE DEF ld, st, part, buf
<1>7. \A x \in Touched(C) : \E k \in 1 .. loops : x \in Writes(st[k])
  <2> TAKE x \in Touched(C)
  <2>1. PICK t \in 0 .. Size(h) - 1 : InCopy(C, t) /\ x = <<h, t>>
    BY DEF Touched, Copy, Spot
  <2>2. b <= t /\ t < b + bytes
    <3>1. /\ C.rows = 1 /\ C.len = bytes /\ C.dp = bytes /\ C.sp = bytes /\ C.dst.at = b /\ C.src.at = a
          /\ t \in Nat
      BY DEF Copy, Spot
    <3> QED BY <2>1, <3>1, OneRow
  <2>3. t - b \in 0 .. bytes - 1
    BY <2>2
  <2>4. PICK k \in 1 .. loops : (k - 1) * block <= t - b /\ t - b < (k - 1) * block + chunk(k - 1)
    BY <1>1, <2>3, Zenon
  <2>5. InCopy(st[k], t)
    <3>1. b + (k - 1) * block <= t /\ t < b + (k - 1) * block + chunk(k - 1) /\ t \in Nat
      BY <1>1, <2>4
    <3> QED BY <1>6, <3>1
  <2>6. st[k].dst.mem = h /\ st[k].op \in Copiers
    BY <1>5 DEF Copiers, Copy, Spot
  <2>7. x \in Touched(st[k])
    BY <2>1, <2>5, <2>6 DEF Touched
  <2> QED BY <2>6, <2>7, WritesOf
<1>8. Relays(L, S, C)
  <2>1. \A k \in 1 .. loops : Carries(ld[k], st[k], C)
    BY <1>6
  <2>2. loops \in Nat
    BY <1>1
  <2> QED BY <1>7, <2>1, <2>2, CarriedRelays
<1>9. \E i, j : Tally(FlattenSeq(s), L, S, i, j)
  <2>1. CASE loops < 1
    <3>1. 1 .. loops = {} /\ 1 .. loops = 1 .. 0
      BY <1>1, <2>1
    <3>2. s = <<>> /\ L = {} /\ S = {}
      BY <3>1 DEF BlockLoads, BlockStores
    <3>3. FlattenSeq(s) = s
      BY <3>2 DEF FlattenSeq
    <3>4. Tally(<<>>, {}, {}, 0, 0)
      <4>1. Still(<<>>) /\ Range(<<>>) = {}
        BY StillNone DEF Range
      <4>2. /\ Times(<<>>, SetFull, 1) = 0 /\ Times(<<>>, WaitFull, 1) = 0
            /\ Times(<<>>, SetFree, 1) = 0 /\ Times(<<>>, WaitFree, 1) = 0
        BY <4>1, StillType DEF Turning
      <4>3. LoadsIn(<<>>) = {} /\ StoresIn(<<>>) = {}
        BY <4>1, EntryIs DEF LoadsIn, StoresIn, Still, Proper
      <4> QED BY <4>1, <4>2, <4>3 DEF Tally, Still
    <3> QED BY <3>2, <3>3, <3>4, Zenon
  <2>2. CASE ~ (loops < 1)
    <3>1. /\ 1 <= loops /\ DOMAIN s = 1 .. loops /\ s = [k \in 1 .. loops |-> s[k]]
          /\ \A k \in 1 .. loops : s[k] = part(k)
      BY <1>1, <2>2
    <3> HIDE DEF s
    <3>2. \A k \in 1 .. loops : s[k] = <<ld[k]>> \o Sync("MTE2_MTE3") \o <<st[k]>>
                                       \o IF k < loops THEN Sync("MTE3_MTE2") ELSE <<>>
      BY <1>4, <3>1, Zenon
    <3>3. loops \in Nat /\ \A k \in 1 .. loops : ld[k].op = "load" /\ st[k].op = "store"
      BY <1>1, <1>5
    <3>4. Tally(FlattenSeq(s), L, S, loops, loops - 1)
      BY <3>1, <3>2, <3>3, TallyBlocks
    <3> QED BY <3>4
  <2> QED BY <2>1, <2>2
<1>10. /\ \A e \in L : e[1].src.mem = C.src.mem /\ e[1].dst.mem = UbOf(p)
       /\ \A f \in S : f[1].src.mem = UbOf(p) /\ f[1].dst.mem = C.dst.mem
  BY <1>5 DEF BlockLoads, BlockStores
<1>11. FlattenSeq(s) = Blockwise(Spot(g, a), Spot(h, b), Ub(p, u), bytes, block)
  BY Zenon DEF Blockwise, loops, part, buf, repeat, chunk, Chunk
<1> HIDE DEF L, S, s
<1>12. Relayed(p, C, FlattenSeq(s))
  BY <1>8, <1>9, <1>10, TallyRelayed
<1> QED BY <1>11, <1>12, Zenon

LEMMA OneRelays ==
  ASSUME NEW ld, NEW st, NEW C, Carries(ld, st, C), \A x \in Touched(C) : x \in Writes(st)
  PROVE  Relays({<<ld, 1, 0>>}, {<<st, 0, 0>>}, C)
<1> DEFINE e == <<ld, 1, 0>>
           f == <<st, 0, 0>>
<1>1. e[1] = ld /\ e[2] = 1 /\ f[1] = st /\ f[2] = 0 /\ ~ (e[2] <= f[2]) /\ e[2] = f[2] + 1
  OBVIOUS
<1> HIDE DEF e, f
<1>2. ASSUME NEW x \in Writes(f[1])
      PROVE  /\ x \in Touched(C)
             /\ From(f[1], x) \in Everywhere =>
                  Feeds(e, f, x) /\ From(e[1], From(f[1], x)) = From(C, x)
  BY <1>1, <1>2 DEF Carries, Feeds
<1>3. Relays({e}, {f}, C)
  BY <1>1, <1>2 DEF Relays
<1> QED BY <1>3 DEF e, f

LEMMA StridedRelayed ==
  ASSUME NEW p, NEW g, NEW a \in Nat, NEW h, NEW b \in Nat, NEW u \in Nat, NEW c,
         c.rows \in Nat, c.len \in Nat, c.sld \in Nat, c.dld \in Nat, c.sz \in Nat \ {0},
         c.len <= c.sld, c.len <= c.dld, UbUnit % c.sz = 0,
         NEW C, C = Copy("ideal", Spot(g, a), Spot(h, b), c.rows, c.len * c.sz, c.sld * c.sz, c.dld * c.sz)
  PROVE  Relayed(p, C, Strided(Spot(g, a), Spot(h, b), Ub(p, u), c))
<1> DEFINE unit == UbUnit \div c.sz
           stride == ((c.len + unit - 1) \div unit) * unit
           gap == (stride - c.len) \div unit
           buf == Ub(p, u)
           L == c.len * c.sz
           P == RoundUp(L) + gap * UbUnit
           ld == Copy("load", Spot(g, a), buf, c.rows, L, L + (c.sld - c.len) * c.sz, P)
           st == Copy("store", buf, Spot(h, b), c.rows, L, P, L + (c.dld - c.len) * c.sz)
<1>1. UbUnit \in Nat /\ 0 < UbUnit
  BY ArgumentAssumption
<1>2. unit \in Nat /\ 0 < unit
  <2>1. unit \in Nat /\ UbUnit = c.sz * unit + (UbUnit % c.sz)
    <3>1. c.sz \in Nat /\ 0 < c.sz
      OBVIOUS
    <3> QED BY <1>1, <3>1, Quotient
  <2> HIDE DEF unit
  <2>2. unit = 0 => c.sz * unit = 0
    OBVIOUS
  <2> QED BY <1>1, <2>1, <2>2
<1> HIDE DEF unit
<1>3. stride \in Nat /\ c.len <= stride
  BY <1>2, WholeUnits
<1> HIDE DEF stride
<1>4. gap \in Nat
  <2>1. stride - c.len \in Nat
    BY <1>3
  <2> HIDE DEF stride
  <2> QED BY <1>2, <2>1, Quotient
<1> HIDE DEF gap
<1>5. L \in Nat /\ L + (c.sld - c.len) * c.sz = c.sld * c.sz /\ L + (c.dld - c.len) * c.sz = c.dld * c.sz
      /\ c.sld * c.sz \in Nat /\ c.dld * c.sz \in Nat /\ L <= c.sld * c.sz /\ L <= c.dld * c.sz
  BY Scaled
<1> HIDE DEF L
<1>6. P \in Nat /\ L <= P
  <2>1. gap * UbUnit \in Nat
    BY <1>1, <1>4, Associate
  <2> QED BY <1>5, <2>1, RoundUpHolds
<1> HIDE DEF P
<1>7. Strided(Spot(g, a), Spot(h, b), buf, c) = <<ld>> \o Sync("MTE2_MTE3") \o <<st>>
  <2>1. /\ shmemi_copy_gm2ub(buf, Spot(g, a), c.rows, c.len * c.sz, (c.sld - c.len) * c.sz, gap) = <<ld>>
        /\ shmemi_copy_ub2gm(Spot(h, b), buf, c.rows, c.len * c.sz, gap, (c.dld - c.len) * c.sz) = <<st>>
    BY DEF shmemi_copy_gm2ub, shmemi_copy_ub2gm, L, P
  <2> HIDE DEF ld, st, buf
  <2> QED BY <2>1, Zenon DEF Strided, gap, stride, unit
<1>8. /\ ld.op = "load" /\ ld.src.mem = g /\ ld.src.at = a /\ ld.dst = buf /\ ld.rows = c.rows /\ ld.len = L
      /\ ld.sp = c.sld * c.sz /\ ld.dp = P
  BY <1>5 DEF Copy, Spot
<1>9. /\ st.op = "store" /\ st.src = buf /\ st.dst.mem = h /\ st.dst.at = b /\ st.rows = c.rows
      /\ st.len = L /\ st.sp = P /\ st.dp = c.dld * c.sz
  BY <1>5 DEF Copy, Spot
<1>10. /\ C.src.mem = g /\ C.src.at = a /\ C.dst.mem = h /\ C.dst.at = b /\ C.rows = c.rows
       /\ C.len = L /\ C.sp = c.sld * c.sz /\ C.dp = c.dld * c.sz
  BY DEF Copy, Spot, L
<1>11. buf.mem = UbOf(p) /\ buf.at = u
  BY DEF Ub, Spot
<1> HIDE DEF ld, st, buf
<1>12. \A t \in Nat : /\ InCopy(st, t) <=> InCopy(C, t)
                      /\ Origin(C, t) = ld.src.at + ((t - st.dst.at) \div st.dp) * ld.sp
                                        + ((t - st.dst.at) % st.dp)
  BY <1>8, <1>9, <1>10 DEF InCopy, Origin
<1>13. Carries(ld, st, C)
  BY <1>5, <1>6, <1>8, <1>9, <1>10, <1>11, <1>12, CopyCarries
<1>14. \A x \in Touched(C) : x \in Writes(st)
  <2> TAKE x \in Touched(C)
  <2>1. x \in Touched(st)
    <3>1. PICK t \in 0 .. Size(h) - 1 : InCopy(C, t) /\ x = <<h, t>>
      BY <1>10 DEF Touched
    <3>2. t \in Nat
      OBVIOUS
    <3>3. InCopy(st, t)
      BY <1>12, <3>1, <3>2
    <3> QED BY <1>9, <3>1, <3>3 DEF Touched
  <2>2. st.op \in Copiers
    BY <1>9 DEF Copiers
  <2> QED BY <2>1, <2>2, WritesOf
<1> DEFINE E == {<<ld, 1, 0>>}
           F == {<<st, 0, 0>>}
           s == <<ld>> \o Sync("MTE2_MTE3") \o <<st>>
<1>15. Relays(E, F, C)
  BY <1>13, <1>14, OneRelays
<1>16. Tally(s, E, F, 1, 0)
  BY <1>8, <1>9, TallyThrough
<1>17. /\ \A e \in E : e[1].src.mem = C.src.mem /\ e[1].dst.mem = UbOf(p)
       /\ \A f \in F : f[1].src.mem = UbOf(p) /\ f[1].dst.mem = C.dst.mem
  BY <1>8, <1>9, <1>10, <1>11
<1> HIDE DEF E, F, s
<1>18. Relayed(p, C, s)
  BY <1>15, <1>16, <1>17, TallyRelayed
<1> QED BY <1>7, <1>18, Zenon DEF buf, s

(* Rows that begin at whole units in the unified buffer. *)
LEMMA UnitRows ==
  ASSUME NEW sz \in Nat, 0 < sz, UbUnit % sz = 0, NEW len \in Nat, NEW ld \in Nat, len <= ld,
         ld % (UbUnit \div sz) = 0
  PROVE  RoundUp(len * sz) + ((ld - len) \div (UbUnit \div sz)) * UbUnit = ld * sz
<1> DEFINE U == UbUnit
           unit == UbUnit \div sz
           k == ld \div unit
           q == len \div unit
           r == len % unit
           e == IF r = 0 THEN q ELSE q + 1
<1>1. U \in Nat /\ 0 < U
  BY ArgumentAssumption
<1>2. unit \in Nat /\ 0 < unit /\ U = sz * unit
  <2>1. unit \in Nat /\ U = sz * unit + (U % sz)
    BY <1>1, Quotient
  <2> HIDE DEF unit
  <2>2. unit = 0 => sz * unit = 0
    OBVIOUS
  <2> QED BY <1>1, <2>1, <2>2
<1> HIDE DEF U
<1>3. k \in Nat /\ ld = unit * k
  <2>1. k \in Nat /\ ld = unit * k + (ld % unit) /\ unit * k \in Nat
    <3> HIDE DEF unit
    <3> QED BY <1>2, Quotient
  <2>2. ld % unit = 0
    OBVIOUS
  <2> HIDE DEF unit, k
  <2> QED BY <2>1, <2>2
<1> HIDE DEF unit, k
<1>4. q \in Nat /\ r \in 0 .. unit - 1 /\ len = unit * q + r /\ unit * q \in Nat
  BY <1>2, Quotient
<1> HIDE DEF q, r
<1>5. /\ sz * unit = U /\ U * q \in Nat /\ sz * r \in Nat
      /\ len * sz = U * q + sz * r
  <2>1. len * sz = sz * len /\ sz * len = sz * (unit * q) + sz * r
    <3>1. sz * (unit * q) + sz * r = sz * (unit * q + r)
      BY <1>4, Distribute
    <3> QED BY <1>4, <3>1
  <2>2. (sz * unit) * q = sz * (unit * q)
    BY <1>2, <1>4, Associate
  <2>3. U * q \in Nat /\ sz * r \in Nat
    BY <1>1, <1>4, Associate
  <2> QED BY <1>2, <2>1, <2>2, <2>3
<1>6. (len * sz + U - 1) \div U = e
  <2> DEFINE m == len * sz + U - 1
  <2>1. CASE r = 0
    <3>1. sz * r = 0
      BY <2>1
    <3>2. m \in Nat /\ m = U * q + (U - 1) /\ U - 1 \in 0 .. U - 1
      BY <1>1, <1>5, <3>1
    <3> HIDE DEF m
    <3>3. m \div U = q
      BY <1>1, <1>4, <3>2, Remainder
    <3> QED BY <2>1, <3>3 DEF m
  <2>2. CASE r # 0
    <3>1. 0 < r /\ r < unit
      BY <1>2, <1>4, <2>2
    <3>2. sz * r + sz <= sz * unit
      BY <1>2, <1>4, <3>1, Farther
    <3>3. 1 <= sz * r
      BY <1>4, <3>1, MultipleAtLeast
    <3>4. U * q + U = U * (q + 1)
      <4>1. U * q + U * 1 = U * (q + 1) /\ U * 1 = U
        BY <1>1, <1>4, Distribute
      <4> QED BY <4>1
    <3>5. m \in Nat /\ m = U * (q + 1) + (sz * r - 1) /\ sz * r - 1 \in 0 .. U - 1
      BY <1>1, <1>2, <1>5, <3>2, <3>3, <3>4
    <3> HIDE DEF m
    <3>6. q + 1 \in Int
      BY <1>4
    <3>7. m \div U = q + 1
      BY <1>1, <3>5, <3>6, Remainder
    <3> QED BY <2>2, <3>7 DEF m
  <2> QED BY <2>1, <2>2
<1>7. (ld - len) \div unit = k - e
  <2> DEFINE d == ld - len
  <2>1. unit * k - unit * q = unit * (k - q) /\ unit * (k - q) \in Int /\ unit * k \in Int
    BY <1>2, <1>3, <1>4, Distribute
  <2>2. CASE r = 0
    <3>1. d \in Nat /\ d = unit * (k - q) + 0 /\ 0 \in 0 .. unit - 1 /\ k - q \in Int
      BY <1>2, <1>3, <1>4, <2>1, <2>2
    <3> HIDE DEF d
    <3>2. d \div unit = k - q
      BY <1>2, <3>1, Remainder
    <3> QED BY <2>2, <3>2 DEF d
  <2>3. CASE r # 0
    <3>1. unit * (k - q) - unit = unit * (k - q - 1)
      <4>1. unit * (k - q) - unit * 1 = unit * (k - q - 1) /\ unit * 1 = unit
        <5>1. k - q \in Int
          BY <1>3, <1>4
        <5> QED BY <1>2, <5>1, Distribute
      <4> QED BY <4>1
    <3>2. d \in Nat /\ d = unit * (k - q - 1) + (unit - r) /\ unit - r \in 0 .. unit - 1
          /\ k - q - 1 \in Int
      BY <1>2, <1>3, <1>4, <2>1, <2>3, <3>1
    <3> HIDE DEF d
    <3>3. d \div unit = k - q - 1
      BY <1>2, <3>2, Remainder
    <3>4. k - q - 1 = k - (q + 1)
      BY <1>3, <1>4
    <3> QED BY <2>3, <3>3, <3>4 DEF d
  <2> QED BY <2>2, <2>3
<1>8. e * U + (k - e) * U = ld * sz
  <2>1. e \in Int /\ k - e \in Int
    BY <1>3, <1>4
  <2> HIDE DEF e
  <2>2. e * U = U * e /\ (k - e) * U = U * (k - e)
    BY <1>1, <2>1
  <2>3. U * e + U * (k - e) = U * (e + (k - e)) /\ e + (k - e) = k
    BY <1>1, <1>3, <2>1, Distribute
  <2>4. U * k = sz * (unit * k)
    BY <1>2, <1>3, Associate
  <2>5. sz * ld = ld * sz
    OBVIOUS
  <2> QED BY <1>3, <2>2, <2>3, <2>4, <2>5
<1>9. RoundUp(len * sz) = e * U
  BY <1>6 DEF RoundUp, U
<1> HIDE DEF e
<1> QED BY <1>7, <1>8, <1>9 DEF U, unit

-----------------------------------------------------------------------------
(* What the code of a call does.                                           *)

(* One copy does what C does. *)
Likewise(i, C) == Touched(i) = Touched(C) /\ \A x \in Touched(C) : From(i, x) = From(C, x)

LEMMA SameLikewise ==
  ASSUME NEW i, NEW C, i.src = C.src, i.dst = C.dst, i.rows = C.rows, i.len = C.len, i.sp = C.sp,
         i.dp = C.dp
  PROVE  Likewise(i, C)
<1>1. \A a : (InCopy(i, a) <=> InCopy(C, a)) /\ Origin(i, a) = Origin(C, a)
  BY DEF InCopy, Origin
<1> QED BY <1>1 DEF Likewise, Touched, From

LEMMA RowLikewise ==
  ASSUME NEW i, NEW C, i.src = C.src, i.dst = C.dst, i.rows = 1, C.rows = 1, i.len = C.len,
         C.src.at \in Nat, C.dst.at \in Nat, C.len \in Nat, i.sp \in Int, C.sp \in Int,
         i.dp \in Nat, C.dp \in Nat, C.len <= i.dp, C.len <= C.dp
  PROVE  Likewise(i, C)
<1>1. ASSUME NEW a \in Nat
      PROVE  (InCopy(i, a) <=> InCopy(C, a)) /\ (InCopy(C, a) => Origin(i, a) = Origin(C, a))
  <2>1. /\ InCopy(i, a) <=> C.dst.at <= a /\ a < C.dst.at + C.len
        /\ InCopy(i, a) => Origin(i, a) = C.src.at + (a - C.dst.at)
    BY OneRow
  <2>2. /\ InCopy(C, a) <=> C.dst.at <= a /\ a < C.dst.at + C.len
        /\ InCopy(C, a) => Origin(C, a) = C.src.at + (a - C.dst.at)
    BY OneRow
  <2> QED BY <2>1, <2>2
<1>2. \A n : \A a \in 0 .. n - 1 : a \in Nat
  OBVIOUS
<1>3. Touched(i) = Touched(C)
  BY <1>1, <1>2 DEF Touched
<1>4. ASSUME NEW x \in Touched(C)
      PROVE  From(i, x) = From(C, x)
  <2>1. PICK a \in 0 .. Size(C.dst.mem) - 1 : InCopy(C, a) /\ x = <<C.dst.mem, a>>
    BY DEF Touched
  <2>2. Origin(i, a) = Origin(C, a)
    BY <1>1, <1>2, <2>1
  <2> QED BY <2>1, <2>2 DEF From
<1> QED BY <1>3, <1>4 DEF Likewise

(* The word that a call is to write. *)
Words(c) == Announces(c) \/ c.api = "p"
WordOf(c) ==
  IF c.api = "p" THEN [op |-> "set_word", dst |-> Spot(c.pe, c.dst), val |-> c.val]
  ELSE [op |-> IF c.sigop = "set" THEN "set_word" ELSE "add_word", dst |-> Spot(c.pe, c.sig),
        val |-> c.val]

(* Loads go into the unified buffer and stores out of it, words to a heap. *)
Placed(p, i) ==
  /\ i.op = "load" => i.src.mem \in PE /\ i.dst.mem = UbOf(p)
  /\ i.op = "store" => i.src.mem = UbOf(p) /\ i.dst.mem \in PE
  /\ i.op = "post" => i.src.mem \in PE /\ i.dst.mem \in PE
  /\ i.op \in Writers => i.dst.mem \in PE /\ i.val \in Int
  /\ i.op \in Readers => i.src.mem \in PE

(* A word is written last, and it is the one to write. *)
WordLast(c, s) ==
  \A k \in 1 .. Len(s) : s[k].op \in Writers => k = Len(s) /\ Words(c) /\ s[k] = WordOf(c)

(* The copy is done through the unified buffer or at one go. *)
AtOneGo(c, C, s) ==
  \E i \in Range(s) :
    /\ i.op \in Copiers /\ Likewise(i, C)
    /\ \A j \in Range(s) : j.op \in Copiers => j = i
    /\ Staged(c) => i.op = "post"
    /\ c.api \in Loading => i.op = "load"
    /\ c.api \in Storing => i.op = "store"
Carried(p, c, s) ==
  IF Copies(c)
  THEN \/ /\ Staged(c) /\ Relays(LoadsIn(s), StoresIn(s), CopyOf(p, c))
          /\ \A i \in Range(s) : i.op # "post"
       \/ AtOneGo(c, CopyOf(p, c), s)
  ELSE \A i \in Range(s) : i.op \notin Copiers

Does(p, c, s) ==
  /\ Proper(s) /\ Carried(p, c, s) /\ WordLast(c, s)
  /\ \A i \in Range(s) : Placed(p, i)
  /\ Words(c) => WordOf(c) \in Range(s)

(* What may come after the copy. *)
Ends(c, r) ==
  /\ Still(r) /\ WordLast(c, r)
  /\ \A i \in Range(r) : i.op \notin Copiers \cup Readers
  /\ Words(c) => WordOf(c) \in Range(r)

LEMMA KindsOfOps ==
  /\ \A o \in Copiers : o \notin Writers /\ o \notin Readers /\ o \notin Flagging
  /\ \A o \in Writers : o \notin Copiers /\ o \notin Readers /\ o \notin Flagging /\ o \notin Piped
  /\ \A o \in Readers : o \notin Copiers /\ o \notin Writers /\ o \notin Flagging /\ o \notin Piped
  /\ \A o \in Piped : o \notin Writers /\ o \notin Readers /\ o # "post"
  /\ "drain" \notin Copiers \cup Writers \cup Readers \cup Flagging
  /\ "roce_quiet" \notin Copiers \cup Writers \cup Readers \cup Flagging
  /\ "spin" \notin Copiers \cup Writers \cup Readers \cup Flagging
BY DEF Copiers, Writers, Readers, Flagging, Piped

LEMMA SingleRange ==
  ASSUME NEW i
  PROVE  Range(<<i>>) = {i} /\ <<i>> \in Seq({i}) /\ Len(<<i>>) = 1 /\ <<i>>[1] = i
<1>1. DOMAIN <<i>> = {1} /\ <<i>>[1] = i
  OBVIOUS
<1>2. Range(<<i>>) = {i}
  BY <1>1 DEF Range
<1> QED BY <1>2

LEMMA NoneLeft == Range(<<>>) = {} /\ Len(<<>>) = 0 /\ Still(<<>>)
<1>1. DOMAIN <<>> = {}
  OBVIOUS
<1>2. Range(<<>>) = {}
  BY <1>1 DEF Range
<1> QED BY <1>2, StillNone

LEMMA WordLastConcat ==
  ASSUME NEW c, NEW s, NEW t, Proper(s), Proper(t), \A i \in Range(s) : i.op \notin Writers,
         WordLast(c, t)
  PROVE  WordLast(c, s \o t)
<1> DEFINE w == s \o t
<1>1. PICK X : s \in Seq(X) /\ t \in Seq(X)
  BY BothProper
<1>2. /\ Len(w) = Len(s) + Len(t) /\ Len(s) \in Nat /\ Len(t) \in Nat
      /\ \A k \in 1 .. Len(s) : w[k] = s[k]
      /\ \A k \in 1 .. Len(t) : w[Len(s) + k] = t[k]
      /\ DOMAIN s = 1 .. Len(s)
  BY <1>1
<1> HIDE DEF w
<1>3. ASSUME NEW k \in 1 .. Len(w), w[k].op \in Writers
      PROVE  k = Len(w) /\ Words(c) /\ w[k] = WordOf(c)
  <2>1. CASE k <= Len(s)
    <3>1. k \in 1 .. Len(s)
      BY <1>2, <2>1
    <3>2. s[k] \in Range(s)
      BY <1>2, <3>1 DEF Range
    <3> QED BY <1>2, <1>3, <3>1, <3>2
  <2>2. CASE ~ (k <= Len(s))
    <3> DEFINE j == k - Len(s)
    <3>1. j \in 1 .. Len(t) /\ k = Len(s) + j
      BY <1>2, <2>2
    <3> HIDE DEF j
    <3>2. w[k] = t[j]
      BY <1>2, <3>1
    <3>3. j = Len(t) /\ Words(c) /\ t[j] = WordOf(c)
      BY <1>3, <3>1, <3>2 DEF WordLast
    <3> QED BY <1>2, <3>1, <3>2, <3>3
  <2> QED BY <2>1, <2>2
<1> QED BY <1>3 DEF WordLast, w

LEMMA NoWordLast ==
  ASSUME NEW c, NEW s, Proper(s), \A i \in Range(s) : i.op \notin Writers
  PROVE  WordLast(c, s)
<1>1. s \in Seq(Range(s))
  BY DEF Proper
<1>2. \A k \in 1 .. Len(s) : s[k] \in Range(s)
  BY <1>1 DEF Range
<1> QED BY <1>2 DEF WordLast

(* A copy through the buffer, and what comes after it. *)
LEMMA DoesRelay ==
  ASSUME NEW p \in PE, NEW c, NEW s, NEW r, Relayed(p, CopyOf(p, c), s), Staged(c), Ends(c, r),
         CopyOf(p, c).src.mem \in PE, CopyOf(p, c).dst.mem \in PE,
         Words(c) => c.pe \in PE /\ c.val \in Int
  PROVE  Does(p, c, s \o r)
<1> DEFINE C == CopyOf(p, c)
           w == s \o r
<1>1. Proper(s) /\ Proper(r) /\ Relays(LoadsIn(s), StoresIn(s), C)
  BY DEF Relayed, Ends, Still
<1>2. PICK X : s \in Seq(X) /\ r \in Seq(X) /\ Proper(w) /\ Range(w) = Range(s) \cup Range(r)
  BY <1>1, BothProper
<1>3. /\ \A i \in Range(s) : i.op \notin Writers /\ i.op \notin Readers /\ i.op # "post"
      /\ \A i \in Range(r) : i.op \notin Copiers /\ i.op \notin Readers
  BY KindsOfOps DEF Relayed, Ends
<1>4. LoadsIn(w) = LoadsIn(s) /\ StoresIn(w) = StoresIn(s)
  <2>1. ASSUME NEW op \in {"load", "store"}, NEW x \in Turning, NEW y \in Turning
        PROVE  Entries(w, op, x, y) = Entries(s, op, x, y)
    <3>1. Times(r, x, 1) = 0 /\ Times(r, y, 1) = 0
      BY <2>1, StillType DEF Ends
    <3>2. Entries(r, op, x, y) = {}
      <4>1. \A e \in Entries(r, op, x, y) : e[1] \in Range(r) /\ e[1].op = op
        BY <1>2, EntryIs
      <4>2. op \in Copiers
        BY DEF Copiers
      <4> QED BY <1>3, <4>1, <4>2
    <3>3. Entries(w, op, x, y) = {Later(e, Times(r, x, 1), Times(r, y, 1)) : e \in Entries(s, op, x, y)}
                                 \cup Entries(r, op, x, y)
      BY <1>2, EntriesConcat
    <3>4. \A e \in Entries(s, op, x, y) : Later(e, 0, 0) = e
      <4>1. \A e \in Entries(s, op, x, y) : e[2] \in Nat /\ e[3] \in Nat /\ e = <<e[1], e[2], e[3]>>
        BY <1>2, EntryIs
      <4> QED BY <4>1 DEF Later
    <3> QED BY <3>1, <3>2, <3>3, <3>4
  <2>2. SetFull \in Turning /\ WaitFree \in Turning /\ WaitFull \in Turning /\ SetFree \in Turning
    BY DEF Turning
  <2> QED BY <2>1, <2>2, Zenon DEF LoadsIn, StoresIn
<1>5. Carried(p, c, w)
  <2>1. \A i \in Range(w) : i.op # "post"
    BY <1>2, <1>3 DEF Copiers
  <2>2. Copies(c)
    BY DEF Staged, Copies
  <2> QED BY <1>1, <1>4, <2>1, <2>2 DEF Carried
<1>6. WordLast(c, w)
  BY <1>1, <1>3, WordLastConcat DEF Ends
<1>7. ASSUME NEW i \in Range(w)
      PROVE  Placed(p, i)
  <2>1. CASE i \in Range(s)
    <3>1. /\ i.op = "load" => i.src.mem = C.src.mem /\ i.dst.mem = UbOf(p)
          /\ i.op = "store" => i.src.mem = UbOf(p) /\ i.dst.mem = C.dst.mem
      BY <2>1 DEF Relayed
    <3> QED BY <1>3, <2>1, <3>1 DEF Placed
  <2>2. CASE i \in Range(r)
    <3>1. i.op \in Writers => i = WordOf(c) /\ Words(c)
      <4>1. PICK k \in DOMAIN r : i = r[k]
        BY <2>2 DEF Range
      <4>2. DOMAIN r = 1 .. Len(r)
        BY <1>2
      <4> QED BY <4>1, <4>2 DEF Ends, WordLast
    <3>2. WordOf(c).dst.mem = c.pe /\ WordOf(c).val = c.val
      BY DEF WordOf, Spot
    <3> QED BY <1>3, <2>2, <3>1, <3>2 DEF Placed, Copiers
  <2> QED BY <1>2, <2>1, <2>2
<1>8. Words(c) => WordOf(c) \in Range(w)
  BY <1>2 DEF Ends
<1> QED BY <1>2, <1>5, <1>6, <1>7, <1>8 DEF Does

LEMMA EndsForms ==
  ASSUME NEW c
  PROVE  /\ ~ Words(c) => Ends(c, <<>>) /\ Ends(c, shmemi_quiet)
         /\ c.api \in SignalForms => Ends(c, shmemi_quiet \o shmemix_signal_op(c))
<1> DEFINE d == [op |-> "drain"]
<1>1. shmemi_quiet = <<d>> /\ d.op = "drain"
  BY DEF shmemi_quiet
<1> HIDE DEF d
<1>2. /\ d.op \notin Copiers /\ d.op \notin Readers /\ d.op \notin Writers
      /\ Still(shmemi_quiet) /\ Proper(shmemi_quiet) /\ Range(shmemi_quiet) = {d}
  BY <1>1, KindsOfOps, SingleRange, QuietStill DEF Still
<1>3. ~ Words(c) => Ends(c, <<>>)
  BY NoneLeft DEF Ends, WordLast
<1>4. ~ Words(c) => Ends(c, shmemi_quiet)
  <2>1. WordLast(c, shmemi_quiet)
    BY <1>2, NoWordLast
  <2> QED BY <1>2, <2>1 DEF Ends
<1>5. ASSUME c.api \in SignalForms
      PROVE  Ends(c, shmemi_quiet \o shmemix_signal_op(c))
  <2> DEFINE w == shmemix_signal_op(c)
             i == WordOf(c)
  <2>1. c.api # "p" /\ (Words(c) <=> c.sigop \in {"set", "add"})
    BY <1>5 DEF SignalForms, Words, Announces
  <2>2. /\ c.sigop \in {"set", "add"} => w = <<i>> /\ i.op \in Writers
        /\ c.sigop \notin {"set", "add"} => w = <<>>
    BY <2>1 DEF shmemix_signal_op, shmemi_signal_set, shmemi_signal_add, Word, WordOf, Writers, shmem_ptr
  <2>3. Still(w)
    BY SignalStill
  <2> HIDE DEF w, i
  <2>4. WordLast(c, w) /\ (Words(c) => i \in Range(w)) /\ \A j \in Range(w) : j = i /\ i.op \in Writers
    <3>1. CASE c.sigop \in {"set", "add"}
      <4>1. w = <<i>> /\ Range(w) = {i} /\ Len(w) = 1 /\ w[1] = i
        BY <2>2, <3>1, SingleRange
      <4> QED BY <2>1, <2>2, <3>1, <4>1 DEF WordLast, i
    <3>2. CASE c.sigop \notin {"set", "add"}
      BY <2>1, <2>2, <3>2, NoneLeft DEF WordLast
    <3> QED BY <3>1, <3>2
  <2>5. Proper(w)
    BY <2>3 DEF Still
  <2>6. WordLast(c, shmemi_quiet \o w)
    BY <1>2, <2>4, <2>5, WordLastConcat
  <2>7. Range(shmemi_quiet \o w) = {d} \cup Range(w)
    BY <1>2, <2>5, BothProper
  <2>8. Still(shmemi_quiet \o w)
    BY <1>2, <2>3, StillConcat
  <2>9. \A j \in {d} \cup Range(w) : j.op \notin Copiers \cup Readers
    BY <1>2, <2>4, KindsOfOps
  <2> QED BY <2>4, <2>6, <2>7, <2>8, <2>9 DEF Ends, w, i
<1> QED BY <1>3, <1>4, <1>5

LEMMA DoesRelayOnly ==
  ASSUME NEW p \in PE, NEW c, NEW s, Relayed(p, CopyOf(p, c), s), Staged(c), ~ Words(c),
         CopyOf(p, c).src.mem \in PE, CopyOf(p, c).dst.mem \in PE
  PROVE  Does(p, c, s)
<1>1. s \in Seq(Range(s))
  BY DEF Relayed, Proper
<1>2. s \o <<>> = s
  BY <1>1
<1>3. Does(p, c, s \o <<>>)
  BY DoesRelay, EndsForms
<1> QED BY <1>2, <1>3

LEMMA DoesOne ==
  ASSUME NEW p \in PE, NEW c, NEW i, i.op \in Copiers, Likewise(i, CopyOf(p, c)), Copies(c),
         ~ Words(c), Placed(p, i), Staged(c) => i.op = "post", c.api \in Loading => i.op = "load",
         c.api \in Storing => i.op = "store"
  PROVE  Does(p, c, <<i>>)
<1>1. Still(<<i>>) /\ Range(<<i>>) = {i}
  BY KindsOfOps, StillOne
<1>2. WordLast(c, <<i>>)
  BY <1>1, KindsOfOps, NoWordLast DEF Still
<1>3. Carried(p, c, <<i>>)
  BY <1>1 DEF Carried, AtOneGo
<1> QED BY <1>1, <1>2, <1>3 DEF Does, Still

LEMMA DoesSilent ==
  ASSUME NEW p \in PE, NEW c, NEW s, Still(s), ~ Words(c), ~ Copies(c),
         \A i \in Range(s) : i.op \notin Copiers \cup Writers /\ (i.op \in Readers => i.src.mem \in PE)
  PROVE  Does(p, c, s)
<1>1. Proper(s) /\ WordLast(c, s)
  BY NoWordLast DEF Still
<1>2. Carried(p, c, s)
  BY DEF Carried
<1>3. \A i \in Range(s) : Placed(p, i)
  BY DEF Placed, Copiers
<1> QED BY <1>1, <1>2, <1>3 DEF Does

LEMMA DoesWord ==
  ASSUME NEW p \in PE, NEW c, Words(c), ~ Copies(c), c.pe \in PE, c.val \in Int
  PROVE  Does(p, c, <<WordOf(c)>>)
<1> DEFINE i == WordOf(c)
<1>1. i.op \in Writers /\ i.dst.mem = c.pe /\ i.val = c.val
  BY DEF WordOf, Writers, Spot
<1>2. WordOf(c) = i
  OBVIOUS
<1> HIDE DEF i
<1>3. Still(<<i>>) /\ Range(<<i>>) = {i} /\ Len(<<i>>) = 1 /\ <<i>>[1] = i
  BY <1>1, KindsOfOps, StillOne, SingleRange
<1>4. WordLast(c, <<i>>)
  BY <1>2, <1>3 DEF WordLast
<1>5. Carried(p, c, <<i>>) /\ Placed(p, i)
  BY <1>1, <1>3, KindsOfOps DEF Carried, Placed, Copiers
<1> QED BY <1>2, <1>3, <1>4, <1>5 DEF Does, Still

LEMMA Forms ==
  /\ \A a \in Getting : a \notin Putting /\ a \notin Loading /\ a \notin Storing
  /\ \A a \in Putting : a \notin Getting /\ a \notin Loading /\ a \notin Storing
  /\ \A a \in Loading : a \notin Putting /\ a \notin Getting /\ a \notin Storing
  /\ \A a \in Storing : a \notin Putting /\ a \notin Loading /\ a \notin Getting
BY DEF Getting, Putting, SignalForms, Loading, Storing

LEMMA CopyForms ==
  ASSUME NEW p, NEW c
  PROVE  LET from == IF c.api \in Getting \cup Loading THEN Spot(c.pe, c.src)
                     ELSE IF c.api \in Putting THEN Spot(p, c.src) ELSE Spot(UbOf(p), c.src)
             to == IF c.api \in Putting \cup Storing THEN Spot(c.pe, c.dst)
                   ELSE IF c.api \in Getting THEN Spot(p, c.dst) ELSE Spot(UbOf(p), c.dst) IN
         /\ Detailed(c) => CopyOf(p, c) = Copy("ideal", from, to, c.rows, c.len * c.sz, c.sld * c.sz, c.dld * c.sz)
         /\ ~ Detailed(c) => CopyOf(p, c) = Copy("ideal", from, to, 1, c.n * c.sz, c.n * c.sz, c.n * c.sz)
         /\ CopyOf(p, c).src = from /\ CopyOf(p, c).dst = to
<1> DEFINE from == IF c.api \in Getting \cup Loading THEN Spot(c.pe, c.src)
                   ELSE IF c.api \in Putting THEN Spot(p, c.src) ELSE Spot(UbOf(p), c.src)
           to == IF c.api \in Putting \cup Storing THEN Spot(c.pe, c.dst)
                 ELSE IF c.api \in Getting THEN Spot(p, c.dst) ELSE Spot(UbOf(p), c.dst)
<1>1. CopyOf(p, c) = IF Detailed(c) THEN Copy("ideal", from, to, c.rows, c.len * c.sz, c.sld * c.sz, c.dld * c.sz)
                     ELSE Copy("ideal", from, to, 1, c.n * c.sz, c.n * c.sz, c.n * c.sz)
  BY DEF CopyOf, Ub
<1> HIDE DEF from, to
<1>2. CopyOf(p, c).src = from /\ CopyOf(p, c).dst = to
  <2>1. CASE Detailed(c)
    BY <1>1, <2>1 DEF Copy
  <2>2. CASE ~ Detailed(c)
    BY <1>1, <2>2 DEF Copy
  <2> QED BY <2>1, <2>2
<1> QED BY <1>1, <1>2 DEF from, to

(* The copies through the buffer, and how a call names them. *)
LEMMA MteRelayed ==
  ASSUME NEW p \in PE, NEW c, c.src \in Nat, c.dst \in Nat, c.n \in Nat, c.sz \in Nat \ {0},
         c.pe \in PE, ~ Detailed(c), NEW buf \in Nat, NEW size \in Nat, c.sz <= size
  PROVE  /\ c.api \in Getting => Relayed(p, CopyOf(p, c), shmem_mte_get(p, c, buf, size))
         /\ c.api \in Putting => Relayed(p, CopyOf(p, c), shmem_mte_put(p, c, buf, size))
         /\ c.api \in Getting \cup Putting => CopyOf(p, c).src.mem \in PE /\ CopyOf(p, c).dst.mem \in PE
<1> DEFINE bytes == c.n * c.sz
           block == Whole(size, c)
<1>1. bytes \in Nat /\ block \in Nat /\ 0 < block
  BY Associate, WholeType
<1>2. /\ shmem_mte_get(p, c, buf, size) = Blockwise(Spot(c.pe, c.src), Spot(p, c.dst), Ub(p, buf), bytes, block)
      /\ shmem_mte_put(p, c, buf, size) = Blockwise(Spot(p, c.src), Spot(c.pe, c.dst), Ub(p, buf), bytes, block)
  BY DEF shmem_mte_get, shmem_mte_put, shmem_ptr, Local
<1>3. /\ c.api \in Getting => CopyOf(p, c) = Copy("ideal", Spot(c.pe, c.src), Spot(p, c.dst), 1, bytes, bytes, bytes)
      /\ c.api \in Putting => CopyOf(p, c) = Copy("ideal", Spot(p, c.src), Spot(c.pe, c.dst), 1, bytes, bytes, bytes)
  BY Forms, CopyForms
<1> HIDE DEF bytes, block
<1>4. c.api \in Getting \cup Putting => CopyOf(p, c).src.mem \in PE /\ CopyOf(p, c).dst.mem \in PE
  BY <1>3 DEF Copy, Spot
<1>5. \A C : /\ C = Copy("ideal", Spot(c.pe, c.src), Spot(p, c.dst), 1, bytes, bytes, bytes) =>
                  Relayed(p, C, Blockwise(Spot(c.pe, c.src), Spot(p, c.dst), Ub(p, buf), bytes, block))
             /\ C = Copy("ideal", Spot(p, c.src), Spot(c.pe, c.dst), 1, bytes, bytes, bytes) =>
                  Relayed(p, C, Blockwise(Spot(p, c.src), Spot(c.pe, c.dst), Ub(p, buf), bytes, block))
  BY <1>1, BlockwiseRelayed
<1> QED BY <1>2, <1>3, <1>4, <1>5

LEMMA RowsRelayed ==
  ASSUME NEW p \in PE, NEW c, c.src \in Nat, c.dst \in Nat, c.rows \in Nat, c.len \in Nat,
         c.sld \in Nat, c.dld \in Nat, c.sz \in Nat \ {0}, c.len <= c.sld, c.len <= c.dld,
         UbUnit % c.sz = 0, c.pe \in PE, Detailed(c), NEW buf \in Nat
  PROVE  /\ c.api \in Getting => Relayed(p, CopyOf(p, c), shmem_mte_get_detailed(p, c, buf))
         /\ c.api \in Putting => Relayed(p, CopyOf(p, c), shmem_mte_put_detailed(p, c, buf))
         /\ c.api \in Getting \cup Putting => CopyOf(p, c).src.mem \in PE /\ CopyOf(p, c).dst.mem \in PE
<1>1. /\ shmem_mte_get_detailed(p, c, buf) = Strided(Spot(c.pe, c.src), Spot(p, c.dst), Ub(p, buf), c)
      /\ shmem_mte_put_detailed(p, c, buf) = Strided(Spot(p, c.src), Spot(c.pe, c.dst), Ub(p, buf), c)
  BY DEF shmem_mte_get_detailed, shmem_mte_put_detailed, shmem_ptr, Local
<1>2. /\ c.api \in Getting => CopyOf(p, c) = Copy("ideal", Spot(c.pe, c.src), Spot(p, c.dst), c.rows, c.len * c.sz, c.sld * c.sz, c.dld * c.sz)
      /\ c.api \in Putting => CopyOf(p, c) = Copy("ideal", Spot(p, c.src), Spot(c.pe, c.dst), c.rows, c.len * c.sz, c.sld * c.sz, c.dld * c.sz)
  BY Forms, CopyForms
<1>3. c.api \in Getting \cup Putting => CopyOf(p, c).src.mem \in PE /\ CopyOf(p, c).dst.mem \in PE
  BY <1>2 DEF Copy, Spot
<1>4. \A C : /\ C = Copy("ideal", Spot(c.pe, c.src), Spot(p, c.dst), c.rows, c.len * c.sz, c.sld * c.sz, c.dld * c.sz) =>
                  Relayed(p, C, Strided(Spot(c.pe, c.src), Spot(p, c.dst), Ub(p, buf), c))
             /\ C = Copy("ideal", Spot(p, c.src), Spot(c.pe, c.dst), c.rows, c.len * c.sz, c.sld * c.sz, c.dld * c.sz) =>
                  Relayed(p, C, Strided(Spot(p, c.src), Spot(c.pe, c.dst), Ub(p, buf), c))
  BY StridedRelayed
<1> QED BY <1>1, <1>2, <1>3, <1>4

LEMMA InsideIs ==
  ASSUME NEW c, c.sz \in Nat, NEW a \in Nat, NEW e \in Int, NEW s
  PROVE  Inside(a, e, c, s) = IF a + e * c.sz <= UbSize THEN s ELSE <<>>
<1>1. e * c.sz \in Int
  OBVIOUS
<1>2. a + e * c.sz > UbSize <=> ~ (a + e * c.sz <= UbSize)
  BY <1>1, ArgumentAssumption
<1> QED BY <1>2 DEF Inside

LEMMA PostDoes ==
  ASSUME NEW p \in PE, NEW c, c.pe \in PE, ~ Detailed(c), ~ Words(c)
  PROVE  /\ c.api \in Getting => Does(p, c, shmem_roce_get(p, c))
         /\ c.api \in Putting => Does(p, c, shmem_roce_put(p, c))
<1> DEFINE L == c.n * c.sz
           C == CopyOf(p, c)
<1>1. ASSUME NEW src, NEW dst, src.mem \in PE, dst.mem \in PE, C = Copy("ideal", src, dst, 1, L, L, L), Staged(c)
      PROVE  Does(p, c, Post(src, dst, L))
  <2> DEFINE i == Copy("post", src, dst, 1, L, L, L)
  <2>1. /\ i.op = "post" /\ i.src = src /\ i.dst = dst /\ i.rows = 1 /\ i.len = L /\ i.sp = L /\ i.dp = L
        /\ C.src = src /\ C.dst = dst /\ C.rows = 1 /\ C.len = L /\ C.sp = L /\ C.dp = L
    BY <1>1 DEF Copy
  <2>2. Post(src, dst, L) = <<i>>
    BY DEF Post
  <2> HIDE DEF i, C, L
  <2>3. Likewise(i, C)
    BY <2>1, SameLikewise
  <2>4. Placed(p, i) /\ i.op \in Copiers
    BY <1>1, <2>1 DEF Placed, Copiers, Writers, Readers
  <2>5. Copies(c) /\ c.api \notin Loading /\ c.api \notin Storing
    BY <1>1, Forms DEF Staged, Copies
  <2> QED BY <1>1, <2>1, <2>2, <2>3, <2>4, <2>5, DoesOne DEF C
<1> HIDE DEF L
<1>2. CASE c.api \in Getting
  <2>1. C = Copy("ideal", Spot(c.pe, c.src), Spot(p, c.dst), 1, L, L, L)
    BY <1>2, Forms, CopyForms DEF L
  <2>2. Spot(c.pe, c.src).mem \in PE /\ Spot(p, c.dst).mem \in PE
    BY DEF Spot
  <2>3. shmem_roce_get(p, c) = Post(Spot(c.pe, c.src), Spot(p, c.dst), L)
    BY DEF shmem_roce_get, shmem_roce_ptr, Local, L
  <2>4. Staged(c) /\ c.api \notin Putting
    BY <1>2, Forms DEF Staged
  <2> QED BY <1>1, <2>1, <2>2, <2>3, <2>4, Zenon
<1>3. CASE c.api \in Putting
  <2>1. C = Copy("ideal", Spot(p, c.src), Spot(c.pe, c.dst), 1, L, L, L)
    BY <1>3, Forms, CopyForms DEF L
  <2>2. Spot(c.pe, c.dst).mem \in PE /\ Spot(p, c.src).mem \in PE
    BY DEF Spot
  <2>3. shmem_roce_put(p, c) = Post(Spot(p, c.src), Spot(c.pe, c.dst), L)
    BY DEF shmem_roce_put, shmem_roce_ptr, Local, L
  <2>4. Staged(c) /\ c.api \notin Getting
    BY <1>3, Forms DEF Staged
  <2> QED BY <1>1, <2>1, <2>2, <2>3, <2>4, Zenon
<1> QED BY <1>2, <1>3

(* The forms on the unified buffer itself. *)
LEMMA UbRowDoes ==
  ASSUME NEW p \in PE, NEW c, c.pe \in PE, ~ Detailed(c), ~ Words(c), c.src \in Nat, c.dst \in Nat,
         c.n \in Nat, c.sz \in Nat \ {0}
  PROVE  /\ c.api \in Loading => Does(p, c, shmem_mte_get_ub(p, c))
         /\ c.api \in Storing => Does(p, c, shmem_mte_put_ub(p, c))
<1> DEFINE L == c.n * c.sz
           R == RoundUp(L) + 0 * UbUnit
           C == CopyOf(p, c)
<1>1. L \in Nat /\ R \in Nat /\ L <= R
  <2>1. L \in Nat
    BY Associate
  <2> HIDE DEF L
  <2> QED BY <2>1, RoundUpHolds, ArgumentAssumption
<1>2. L + 0 = L
  BY <1>1
<1> HIDE DEF L, R
<1>3. CASE c.api \in Loading
  <2> DEFINE src == Spot(c.pe, c.src)
             dst == Spot(UbOf(p), c.dst)
             i == Copy("load", src, dst, 1, L, L, R)
  <2>1. c.api \notin Storing /\ ~ Staged(c) /\ (Copies(c) <=> c.dst + L <= UbSize)
    BY <1>3, Forms DEF Staged, Copies, Elements, L
  <2>2. C = Copy("ideal", src, dst, 1, L, L, L)
    BY <1>3, Forms, CopyForms DEF L
  <2>3. /\ i.op = "load" /\ i.src = src /\ i.dst = dst /\ i.rows = 1 /\ i.len = L /\ i.sp = L /\ i.dp = R
        /\ C.src = src /\ C.dst = dst /\ C.rows = 1 /\ C.len = L /\ C.sp = L /\ C.dp = L
    BY <2>2 DEF Copy
  <2>4. src.at \in Nat /\ dst.at \in Nat /\ src.mem \in PE /\ dst.mem = UbOf(p)
    BY DEF Spot
  <2>5. shmem_mte_get_ub(p, c) = IF c.dst + L <= UbSize THEN <<i>> ELSE <<>>
    <3>1. shmemi_copy_gm2ub(Ub(p, c.dst), shmem_ptr(c.src, c.pe), 1, c.n * c.sz, 0, 0) = <<i>>
      BY <1>2 DEF shmemi_copy_gm2ub, Ub, shmem_ptr, L, R
    <3> HIDE DEF i
    <3> QED BY <3>1, InsideIs DEF shmem_mte_get_ub, L
  <2> HIDE DEF i, C, src, dst
  <2>6. Likewise(i, C)
    BY <1>1, <2>3, <2>4, RowLikewise
  <2>7. Placed(p, i) /\ i.op \in Copiers
    BY <2>3, <2>4 DEF Placed, Copiers, Writers, Readers
  <2>8. Copies(c) => Does(p, c, <<i>>)
    BY <2>1, <2>3, <2>6, <2>7, DoesOne DEF C
  <2>9. ~ Copies(c) => Does(p, c, <<>>)
    BY NoneLeft, DoesSilent
  <2> QED BY <2>1, <2>5, <2>8, <2>9
<1>4. CASE c.api \in Storing
  <2> DEFINE src == Spot(UbOf(p), c.src)
             dst == Spot(c.pe, c.dst)
             i == Copy("store", src, dst, 1, L, R, L)
  <2>1. c.api \notin Loading /\ ~ Staged(c) /\ (Copies(c) <=> c.src + L <= UbSize)
    BY <1>4, Forms DEF Staged, Copies, Elements, L
  <2>2. C = Copy("ideal", src, dst, 1, L, L, L)
    BY <1>4, Forms, CopyForms DEF L
  <2>3. /\ i.op = "store" /\ i.src = src /\ i.dst = dst /\ i.rows = 1 /\ i.len = L /\ i.sp = R /\ i.dp = L
        /\ C.src = src /\ C.dst = dst /\ C.rows = 1 /\ C.len = L /\ C.sp = L /\ C.dp = L
    BY <2>2 DEF Copy
  <2>4. src.at \in Nat /\ dst.at \in Nat /\ dst.mem \in PE /\ src.mem = UbOf(p)
    BY DEF Spot
  <2>5. shmem_mte_put_ub(p, c) = IF c.src + L <= UbSize THEN <<i>> ELSE <<>>
    <3>1. shmemi_copy_ub2gm(shmem_ptr(c.dst, c.pe), Ub(p, c.src), 1, c.n * c.sz, 0, 0) = <<i>>
      BY <1>2 DEF shmemi_copy_ub2gm, Ub, shmem_ptr, L, R
    <3> HIDE DEF i
    <3> QED BY <3>1, InsideIs DEF shmem_mte_put_ub, L
  <2> HIDE DEF i, C, src, dst
  <2>6. Likewise(i, C)
    BY <1>1, <2>3, <2>4, RowLikewise
  <2>7. Placed(p, i) /\ i.op \in Copiers
    BY <2>3, <2>4 DEF Placed, Copiers, Writers, Readers
  <2>8. Copies(c) => Does(p, c, <<i>>)
    BY <2>1, <2>3, <2>6, <2>7, DoesOne DEF C
  <2>9. ~ Copies(c) => Does(p, c, <<>>)
    BY NoneLeft, DoesSilent
  <2> QED BY <2>1, <2>5, <2>8, <2>9
<1> QED BY <1>3, <1>4

LEMMA UbRowsDoes ==
  ASSUME NEW p \in PE, NEW c, c.pe \in PE, Detailed(c), ~ Words(c), c.src \in Nat, c.dst \in Nat,
         c.sz \in Nat \ {0}, c.rows \in Nat, c.len \in Nat, c.sld \in Nat, c.dld \in Nat,
         c.len <= c.sld, c.len <= c.dld, UbUnit % c.sz = 0,
         c.api \in Loading => c.dld % (UbUnit \div c.sz) = 0,
         c.api \in Storing => c.sld % (UbUnit \div c.sz) = 0
  PROVE  /\ c.api \in Loading => Does(p, c, shmem_mte_get_ub_detailed(p, c))
         /\ c.api \in Storing => Does(p, c, shmem_mte_put_ub_detailed(p, c))
<1> DEFINE L == c.len * c.sz
           C == CopyOf(p, c)
           S == c.sld * c.sz
           D == c.dld * c.sz
<1>1. c.sz \in Nat /\ 0 < c.sz
  OBVIOUS
<1>2. L + (c.sld - c.len) * c.sz = S /\ L + (c.dld - c.len) * c.sz = D
  BY <1>1, Scaled
<1>3. /\ c.api \in Loading => RoundUp(L) + UnitGap(c.dld, c) * UbUnit = D
      /\ c.api \in Storing => RoundUp(L) + UnitGap(c.sld, c) * UbUnit = S
  BY <1>1, UnitRows DEF UnitGap
<1>4. (c.rows - 1) * c.dld + c.len \in Int /\ (c.rows - 1) * c.sld + c.len \in Int
  <2>1. (c.rows - 1) * c.dld \in Int /\ (c.rows - 1) * c.sld \in Int
    OBVIOUS
  <2> QED BY <2>1
<1>5. CASE c.api \in Loading
  <2> DEFINE src == Spot(c.pe, c.src)
             dst == Spot(UbOf(p), c.dst)
             i == Copy("load", src, dst, c.rows, L, S, D)
             e == (c.rows - 1) * c.dld + c.len
  <2>1. c.api \notin Storing /\ ~ Staged(c) /\ (Copies(c) <=> c.dst + e * c.sz <= UbSize)
    BY <1>5, Forms DEF Staged, Copies, Elements
  <2>2. C = Copy("ideal", src, dst, c.rows, L, S, D)
    BY <1>5, Forms, CopyForms
  <2>3. /\ i.op = "load" /\ i.src = src /\ i.dst = dst /\ i.rows = c.rows /\ i.len = L /\ i.sp = S /\ i.dp = D
        /\ C.src = src /\ C.dst = dst /\ C.rows = c.rows /\ C.len = L /\ C.sp = S /\ C.dp = D
    BY <2>2 DEF Copy
  <2>4. src.mem \in PE /\ dst.mem = UbOf(p)
    BY DEF Spot
  <2>5. shmem_mte_get_ub_detailed(p, c) = IF c.dst + e * c.sz <= UbSize THEN <<i>> ELSE <<>>
    <3>1. shmemi_copy_gm2ub(Ub(p, c.dst), shmem_ptr(c.src, c.pe), c.rows, c.len * c.sz,
                            (c.sld - c.len) * c.sz, UnitGap(c.dld, c)) = <<i>>
      <4>1. shmemi_copy_gm2ub(Ub(p, c.dst), shmem_ptr(c.src, c.pe), c.rows, c.len * c.sz,
                              (c.sld - c.len) * c.sz, UnitGap(c.dld, c))
            = <<Copy("load", shmem_ptr(c.src, c.pe), Ub(p, c.dst), c.rows, L,
                     L + (c.sld - c.len) * c.sz, RoundUp(L) + UnitGap(c.dld, c) * UbUnit)>>
        BY DEF shmemi_copy_gm2ub
      <4>2. shmem_ptr(c.src, c.pe) = src /\ Ub(p, c.dst) = dst
        BY DEF shmem_ptr, Ub
      <4> QED BY <1>2, <1>3, <1>5, <4>1, <4>2, Zenon
    <3> HIDE DEF i
    <3> QED BY <1>1, <1>4, <3>1, InsideIs DEF shmem_mte_get_ub_detailed
  <2> HIDE DEF i, C, src, dst, e
  <2>6. Likewise(i, C)
    BY <2>3, SameLikewise
  <2>7. Placed(p, i) /\ i.op \in Copiers
    BY <2>3, <2>4 DEF Placed, Copiers, Writers, Readers
  <2>8. Copies(c) => Does(p, c, <<i>>)
    BY <2>1, <2>3, <2>6, <2>7, DoesOne DEF C
  <2>9. ~ Copies(c) => Does(p, c, <<>>)
    BY NoneLeft, DoesSilent
  <2> QED BY <2>1, <2>5, <2>8, <2>9
<1>6. CASE c.api \in Storing
  <2> DEFINE src == Spot(UbOf(p), c.src)
             dst == Spot(c.pe, c.dst)
             i == Copy("store", src, dst, c.rows, L, S, D)
             e == (c.rows - 1) * c.sld + c.len
  <2>1. c.api \notin Loading /\ ~ Staged(c) /\ (Copies(c) <=> c.src + e * c.sz <= UbSize)
    BY <1>6, Forms DEF Staged, Copies, Elements
  <2>2. C = Copy("ideal", src, dst, c.rows, L, S, D)
    BY <1>6, Forms, CopyForms
  <2>3. /\ i.op = "store" /\ i.src = src /\ i.dst = dst /\ i.rows = c.rows /\ i.len = L /\ i.sp = S /\ i.dp = D
        /\ C.src = src /\ C.dst = dst /\ C.rows = c.rows /\ C.len = L /\ C.sp = S /\ C.dp = D
    BY <2>2 DEF Copy
  <2>4. dst.mem \in PE /\ src.mem = UbOf(p)
    BY DEF Spot
  <2>5. shmem_mte_put_ub_detailed(p, c) = IF c.src + e * c.sz <= UbSize THEN <<i>> ELSE <<>>
    <3>1. shmemi_copy_ub2gm(shmem_ptr(c.dst, c.pe), Ub(p, c.src), c.rows, c.len * c.sz,
                            UnitGap(c.sld, c), (c.dld - c.len) * c.sz) = <<i>>
      <4>1. shmemi_copy_ub2gm(shmem_ptr(c.dst, c.pe), Ub(p, c.src), c.rows, c.len * c.sz,
                              UnitGap(c.sld, c), (c.dld - c.len) * c.sz)
            = <<Copy("store", Ub(p, c.src), shmem_ptr(c.dst, c.pe), c.rows, L,
                     RoundUp(L) + UnitGap(c.sld, c) * UbUnit, L + (c.dld - c.len) * c.sz)>>
        BY DEF shmemi_copy_ub2gm
      <4>2. shmem_ptr(c.dst, c.pe) = dst /\ Ub(p, c.src) = src
        BY DEF shmem_ptr, Ub
      <4> QED BY <1>2, <1>3, <1>6, <4>1, <4>2, Zenon
    <3> HIDE DEF i
    <3> QED BY <1>1, <1>4, <3>1, InsideIs DEF shmem_mte_put_ub_detailed
  <2> HIDE DEF i, C, src, dst, e
  <2>6. Likewise(i, C)
    BY <2>3, SameLikewise
  <2>7. Placed(p, i) /\ i.op \in Copiers
    BY <2>3, <2>4 DEF Placed, Copiers, Writers, Readers
  <2>8. Copies(c) => Does(p, c, <<i>>)
    BY <2>1, <2>3, <2>6, <2>7, DoesOne DEF C
  <2>9. ~ Copies(c) => Does(p, c, <<>>)
    BY NoneLeft, DoesSilent
  <2> QED BY <2>1, <2>5, <2>8, <2>9
<1> QED BY <1>5, <1>6

LEMMA RoutedDoes ==
  ASSUME NEW p \in PE, NEW c \in DeviceCalls(p), c.api \in Routed, config[p].shmem_ub \in Nat,
         config[p].ub_size \in BufferSizes(p),
         \A q \in PE : "mte" \in host[p].dev.topo[q] \/ "roce" \in host[p].dev.topo[q]
  PROVE  Does(p, c, Code(p, c))
<1> DEFINE buf == config[p].shmem_ub
           size == config[p].ub_size
<1>1. /\ c.pe \in PE /\ c.n \in Nat /\ c.sz \in Nat \ {0} /\ size \in Nat /\ c.sz <= size
  BY ProgramAssumption DEF Routed, Rooms
<1>2. /\ ~ Detailed(c) /\ ~ Words(c) /\ c.api \in Getting \cup Putting
      /\ c.api \in {"get_mem_nbi", "get_mem_tensor_nbi"} => c.api \in Getting
      /\ c.api \in {"put_mem_nbi", "put_mem_tensor_nbi"} => c.api \in Putting
  BY DEF Routed, Detailed, DetailedForms, Words, Announces, SignalForms, Getting, Putting
<1>3. c.src \in Nat /\ c.dst \in Nat
  BY <1>2, ArgumentAssumption
<1>4. \A mte, roce : Does(p, c, mte) /\ Does(p, c, roce) => Does(p, c, ByTopo(p, c, mte, roce))
  BY <1>1 DEF ByTopo
<1>5. /\ c.api \in Getting => Does(p, c, shmem_mte_get(p, c, buf, size)) /\ Does(p, c, shmem_roce_get(p, c))
      /\ c.api \in Putting => Does(p, c, shmem_mte_put(p, c, buf, size)) /\ Does(p, c, shmem_roce_put(p, c))
  <2>1. /\ c.api \in Getting => Does(p, c, shmem_roce_get(p, c))
        /\ c.api \in Putting => Does(p, c, shmem_roce_put(p, c))
    BY <1>1, <1>2, PostDoes
  <2>2. /\ c.api \in Getting => Relayed(p, CopyOf(p, c), shmem_mte_get(p, c, buf, size))
        /\ c.api \in Putting => Relayed(p, CopyOf(p, c), shmem_mte_put(p, c, buf, size))
        /\ CopyOf(p, c).src.mem \in PE /\ CopyOf(p, c).dst.mem \in PE
    BY <1>1, <1>2, <1>3, MteRelayed
  <2>3. Staged(c)
    BY <1>2 DEF Staged
  <2> QED BY <1>2, <2>1, <2>2, <2>3, DoesRelayOnly
<1>6. CASE c.api = "get_mem_nbi"
  BY <1>2, <1>4, <1>5, <1>6 DEF Code, shmem_get_mem_nbi, CopyUb, CopySize
<1>7. CASE c.api = "get_mem_tensor_nbi"
  BY <1>2, <1>4, <1>5, <1>7 DEF Code, shmem_get_mem_tensor_nbi, shmem_mte_get_tensor, shmem_roce_get_tensor, Tensor, CopyUb, CopySize
<1>8. CASE c.api = "put_mem_nbi"
  BY <1>2, <1>4, <1>5, <1>8 DEF Code, shmem_put_mem_nbi, CopyUb, CopySize
<1>9. CASE c.api = "put_mem_tensor_nbi"
  BY <1>2, <1>4, <1>5, <1>9 DEF Code, shmem_put_mem_tensor_nbi, shmem_mte_put_tensor, shmem_roce_put_tensor, Tensor, CopyUb, CopySize
<1> QED BY <1>6, <1>7, <1>8, <1>9 DEF Routed

LEMMA UnroutedDoes ==
  ASSUME NEW p \in PE, NEW c \in DeviceCalls(p), c.api \in Unrouted, config[p].shmem_ub \in Nat,
         config[p].ub_size \in BufferSizes(p)
  PROVE  Does(p, c, Code(p, c))
<1> DEFINE buf == config[p].shmem_ub
           size == IF c.api \in {"put_mem_signal_tensor", "put_mem_signal_tensor_nbi"} THEN c.stale
                   ELSE config[p].ub_size
           Plain == {"getmem", "get_mem", "putmem", "put_mem"}
           Loose == {"getmem_nbi", "putmem_nbi"}
<1>1. c.n \in Nat /\ c.sz \in Nat \ {0} /\ size \in Nat /\ c.sz <= size /\ c.pe \in PE
  BY ProgramAssumption DEF Rooms
<1> HIDE DEF size
<1>2. /\ ~ Detailed(c) /\ c.api \in Getting \cup Putting
      /\ c.api \in {"getmem", "get_mem", "getmem_nbi"} => c.api \in Getting
      /\ c.api \in {"putmem", "put_mem", "putmem_nbi"} => c.api \in Putting
      /\ c.api \in SignalForms => c.api \in Putting
      /\ c.api \in Plain \cup Loose => ~ Words(c)
      /\ c.api \in Plain \cup Loose \cup SignalForms
  BY DEF Unrouted, Detailed, DetailedForms, Words, Announces, SignalForms, Getting, Putting
<1>3. c.src \in Nat /\ c.dst \in Nat /\ (Words(c) => c.val \in Int)
  BY <1>2, ArgumentAssumption DEF Words
<1>4. /\ c.api \in Getting => Relayed(p, CopyOf(p, c), shmem_mte_get(p, c, buf, size))
      /\ c.api \in Putting => Relayed(p, CopyOf(p, c), shmem_mte_put(p, c, buf, size))
      /\ CopyOf(p, c).src.mem \in PE /\ CopyOf(p, c).dst.mem \in PE /\ Staged(c)
  BY <1>1, <1>2, <1>3, MteRelayed DEF Staged
<1>5. \A s, r : Relayed(p, CopyOf(p, c), s) /\ Ends(c, r) => Does(p, c, s \o r)
  BY <1>1, <1>3, <1>4, DoesRelay
<1>6. c.api \in Loose => \A s : Relayed(p, CopyOf(p, c), s) => Does(p, c, s)
  BY <1>2, <1>4, DoesRelayOnly
<1>7. c.api \in Plain => \A s : Relayed(p, CopyOf(p, c), s) => Does(p, c, s \o shmemi_quiet)
  BY <1>2, <1>5, EndsForms
<1>8. c.api \in SignalForms => \A s : Relayed(p, CopyOf(p, c), s) => Does(p, c, Signalled(c, s))
  <2>1. ASSUME NEW s, Relayed(p, CopyOf(p, c), s)
        PROVE  Signalled(c, s) = s \o (shmemi_quiet \o shmemix_signal_op(c))
    <3> DEFINE u == shmemi_quiet
               v == shmemix_signal_op(c)
    <3>1. Signalled(c, s) = (s \o u) \o v
      BY DEF Signalled
    <3>2. Proper(s) /\ Proper(u) /\ Proper(v)
      BY <2>1, QuietStill, SignalStill DEF Still, Relayed
    <3> HIDE DEF u, v
    <3>3. s \in Seq(Range(s) \cup Range(u) \cup Range(v)) /\ u \in Seq(Range(s) \cup Range(u) \cup Range(v))
          /\ v \in Seq(Range(s) \cup Range(u) \cup Range(v))
      BY <3>2 DEF Proper
    <3>4. s \o (u \o v) = (s \o u) \o v
      BY <3>3, ConcatAssociates
    <3> QED BY <3>1, <3>4 DEF u, v
  <2> QED BY <1>5, <2>1, EndsForms
<1>9. CASE c.api = "getmem"
  BY <1>2, <1>4, <1>7, <1>9 DEF Code, shmem_getmem, size, CopyUb, CopySize
<1>10. CASE c.api = "get_mem"
  BY <1>2, <1>4, <1>7, <1>10 DEF Code, shmem_get_mem, size, CopyUb, CopySize
<1>11. CASE c.api = "putmem"
  BY <1>2, <1>4, <1>7, <1>11 DEF Code, shmem_putmem, size, CopyUb, CopySize
<1>12. CASE c.api = "put_mem"
  BY <1>2, <1>4, <1>7, <1>12 DEF Code, shmem_put_mem, size, CopyUb, CopySize
<1>13. CASE c.api = "getmem_nbi"
  BY <1>2, <1>4, <1>6, <1>13 DEF Code, shmem_getmem_nbi, size, CopyUb, CopySize
<1>14. CASE c.api = "putmem_nbi"
  BY <1>2, <1>4, <1>6, <1>14 DEF Code, shmem_putmem_nbi, size, CopyUb, CopySize
<1>15. CASE c.api = "putmem_signal"
  BY <1>2, <1>4, <1>8, <1>15 DEF Code, shmem_putmem_signal, size, CopyUb, CopySize, SignalForms
<1>16. CASE c.api = "put_mem_signal"
  BY <1>2, <1>4, <1>8, <1>16 DEF Code, shmem_put_mem_signal, size, CopyUb, CopySize, SignalForms
<1>17. CASE c.api = "put_mem_signal_tensor"
  BY <1>2, <1>4, <1>8, <1>17 DEF Code, shmem_put_mem_signal_tensor, size, CopyUb, shmem_mte_put_tensor, Unset, SignalForms
<1>18. CASE c.api = "putmem_signal_nbi"
  BY <1>2, <1>4, <1>8, <1>18 DEF Code, shmem_putmem_signal_nbi, size, CopyUb, CopySize, SignalForms
<1>19. CASE c.api = "put_mem_signal_nbi"
  BY <1>2, <1>4, <1>8, <1>19 DEF Code, shmem_put_mem_signal_nbi, size, CopyUb, CopySize, SignalForms
<1>20. CASE c.api = "put_mem_signal_tensor_nbi"
  BY <1>2, <1>4, <1>8, <1>20 DEF Code, shmem_put_mem_signal_tensor_nbi, size, CopyUb, shmem_mte_put_tensor, Unset, SignalForms
<1> QED BY <1>9, <1>10, <1>11, <1>12, <1>13, <1>14, <1>15, <1>16, <1>17, <1>18, <1>19, <1>20 DEF Unrouted

LEMMA DirectDoes ==
  ASSUME NEW p \in PE, NEW c \in DeviceCalls(p), c.api \in Direct, config[p].shmem_ub \in Nat
  PROVE  Does(p, c, Code(p, c))
<1> DEFINE buf == config[p].shmem_ub
           Gets == {"get_mem_detailed_nbi", "get_mem_tensor_detailed_nbi"}
           Puts == {"put_mem_detailed_nbi", "put_mem_tensor_detailed_nbi"}
           Signalling ==
             {"put_mem_signal_detailed", "put_mem_signal_tensor_detailed",
              "put_mem_signal_detailed_nbi", "put_mem_signal_tensor_detailed_nbi"}
           Ubs == Loading \cup Storing
<1>1. c.pe \in PE
  BY ProgramAssumption
<1>2. /\ c.api \in Gets => c.api \in Getting /\ Detailed(c) /\ ~ Words(c)
      /\ c.api \in Puts => c.api \in Putting /\ Detailed(c) /\ ~ Words(c)
      /\ c.api \in Signalling => c.api \in Putting /\ c.api \in SignalForms /\ Detailed(c)
      /\ c.api \in Ubs => ~ Words(c)
      /\ c.api \in {"get_mem_ub_nbi", "get_mem_ub_tensor_nbi", "put_mem_ub_nbi", "put_mem_ub_tensor_nbi"} => ~ Detailed(c)
      /\ c.api \in {"get_mem_ub_detailed_nbi", "get_mem_ub_tensor_detailed_nbi",
                    "put_mem_ub_detailed_nbi", "put_mem_ub_tensor_detailed_nbi"} => Detailed(c)
  BY DEF Detailed, DetailedForms, Words, Announces, SignalForms, Getting, Putting, Loading, Storing
<1>3. c.api \in Getting \cup Putting \cup Loading \cup Storing =>
        /\ c.src \in Nat /\ c.dst \in Nat /\ c.sz \in Nat \ {0}
        /\ ~ Detailed(c) => c.n \in Nat
        /\ Detailed(c) => /\ c.rows \in Nat /\ c.len \in Nat /\ c.sld \in Nat /\ c.dld \in Nat
                          /\ c.len <= c.sld /\ c.len <= c.dld /\ UbUnit % c.sz = 0
        /\ Detailed(c) /\ c.api \in Loading => c.dld % (UbUnit \div c.sz) = 0
        /\ Detailed(c) /\ c.api \in Storing => c.sld % (UbUnit \div c.sz) = 0
  BY ArgumentAssumption, Zenon
<1>4. Words(c) => c.val \in Int
  BY ArgumentAssumption DEF Words
<1>5. Detailed(c) /\ c.api \in Getting \cup Putting =>
        /\ c.api \in Getting => Relayed(p, CopyOf(p, c), shmem_mte_get_detailed(p, c, buf))
        /\ c.api \in Putting => Relayed(p, CopyOf(p, c), shmem_mte_put_detailed(p, c, buf))
        /\ CopyOf(p, c).src.mem \in PE /\ CopyOf(p, c).dst.mem \in PE /\ Staged(c)
  BY <1>1, <1>3, RowsRelayed DEF Staged
<1>6. c.api \in Gets => Does(p, c, shmem_mte_get_detailed(p, c, buf))
  BY <1>2, <1>5, DoesRelayOnly
<1>7. c.api \in Puts => Does(p, c, shmem_mte_put_detailed(p, c, buf))
  BY <1>2, <1>5, DoesRelayOnly
<1>8. c.api \in Signalling => Does(p, c, Signalled(c, shmem_mte_put_detailed(p, c, buf)))
  <2> DEFINE s == shmem_mte_put_detailed(p, c, buf)
             u == shmemi_quiet
             v == shmemix_signal_op(c)
             X == Range(s) \cup Range(u) \cup Range(v)
  <2> SUFFICES ASSUME c.api \in Signalling
               PROVE  Does(p, c, Signalled(c, s))
    OBVIOUS
  <2>1. Ends(c, u \o v) /\ Relayed(p, CopyOf(p, c), s) /\ Staged(c)
    BY <1>2, <1>5, EndsForms
  <2>2. Signalled(c, s) = (s \o u) \o v
    BY DEF Signalled
  <2>3. Proper(s) /\ Proper(u) /\ Proper(v)
    BY <2>1, QuietStill, SignalStill DEF Still, Relayed
  <2>4. CopyOf(p, c).src.mem \in PE /\ CopyOf(p, c).dst.mem \in PE
    BY <1>2, <1>5
  <2> HIDE DEF s, u, v
  <2>5. s \in Seq(X) /\ u \in Seq(X) /\ v \in Seq(X)
    BY <2>3 DEF Proper
  <2>6. s \o (u \o v) = (s \o u) \o v
    BY <2>5, ConcatAssociates
  <2>7. Does(p, c, s \o (u \o v))
    BY <1>1, <1>4, <2>1, <2>4, DoesRelay
  <2> QED BY <2>2, <2>6, <2>7
<1>9. c.api \in Ubs /\ ~ Detailed(c) =>
        /\ c.api \in Loading => Does(p, c, shmem_mte_get_ub(p, c))
        /\ c.api \in Storing => Does(p, c, shmem_mte_put_ub(p, c))
  BY <1>1, <1>2, <1>3, UbRowDoes
<1>10. c.api \in Ubs /\ Detailed(c) =>
        /\ c.api \in Loading => Does(p, c, shmem_mte_get_ub_detailed(p, c))
        /\ c.api \in Storing => Does(p, c, shmem_mte_put_ub_detailed(p, c))
  BY <1>1, <1>2, <1>3, UbRowsDoes
<1>11. CASE c.api = "get_mem_detailed_nbi"
  BY <1>2, <1>6, <1>11 DEF Code, shmem_get_mem_detailed_nbi, CopyUb
<1>12. CASE c.api = "get_mem_tensor_detailed_nbi"
  BY <1>2, <1>6, <1>12 DEF Code, shmem_get_mem_tensor_detailed_nbi, CopyUb, shmem_mte_get_tensor_detailed, Tensor
<1>13. CASE c.api = "put_mem_detailed_nbi"
  BY <1>2, <1>7, <1>13 DEF Code, shmem_put_mem_detailed_nbi, CopyUb
<1>14. CASE c.api = "put_mem_tensor_detailed_nbi"
  BY <1>2, <1>7, <1>14 DEF Code, shmem_put_mem_tensor_detailed_nbi, CopyUb, shmem_mte_put_tensor_detailed, Tensor
<1>15. CASE c.api = "get_mem_ub_nbi"
  BY <1>2, <1>9, <1>15 DEF Code, shmem_get_mem_ub_nbi, CopyUb, Loading
<1>16. CASE c.api = "get_mem_ub_tensor_nbi"
  BY <1>2, <1>9, <1>16 DEF Code, shmem_get_mem_ub_tensor_nbi, CopyUb, shmem_mte_get_ub_tensor, Loading
<1>17. CASE c.api = "get_mem_ub_detailed_nbi"
  BY <1>2, <1>10, <1>17 DEF Code, shmem_get_mem_ub_detailed_nbi, CopyUb, Loading
<1>18. CASE c.api = "get_mem_ub_tensor_detailed_nbi"
  BY <1>2, <1>10, <1>18 DEF Code, shmem_get_mem_ub_tensor_detailed_nbi, CopyUb, shmem_mte_get_ub_tensor_detailed, Loading
<1>19. CASE c.api = "put_mem_ub_nbi"
  BY <1>2, <1>9, <1>19 DEF Code, shmem_put_mem_ub_nbi, CopyUb, Storing
<1>20. CASE c.api = "put_mem_ub_tensor_nbi"
  BY <1>2, <1>9, <1>20 DEF Code, shmem_put_mem_ub_tensor_nbi, CopyUb, shmem_mte_put_ub_tensor, Storing
<1>21. CASE c.api = "put_mem_ub_detailed_nbi"
  BY <1>2, <1>10, <1>21 DEF Code, shmem_put_mem_ub_detailed_nbi, CopyUb, Storing
<1>22. CASE c.api = "put_mem_ub_tensor_detailed_nbi"
  BY <1>2, <1>10, <1>22 DEF Code, shmem_put_mem_ub_tensor_detailed_nbi, CopyUb, shmem_mte_put_ub_tensor_detailed, Storing
<1>23. CASE c.api = "put_mem_signal_detailed"
  BY <1>2, <1>8, <1>23 DEF Code, shmem_put_mem_signal_detailed, CopyUb
<1>24. CASE c.api = "put_mem_signal_tensor_detailed"
  BY <1>2, <1>8, <1>24 DEF Code, shmem_put_mem_signal_tensor_detailed, CopyUb, shmem_mte_put_tensor_detailed, Unset
<1>25. CASE c.api = "put_mem_signal_detailed_nbi"
  BY <1>2, <1>8, <1>25 DEF Code, shmem_put_mem_signal_detailed_nbi, CopyUb
<1>26. CASE c.api = "put_mem_signal_tensor_detailed_nbi"
  BY <1>2, <1>8, <1>26 DEF Code, shmem_put_mem_signal_tensor_detailed_nbi, CopyUb, shmem_mte_put_tensor_detailed, Unset
<1>27. CASE c.api = "p"
  <2>1. Words(c) /\ ~ Copies(c)
    BY <1>27 DEF Words, Copies, Getting, Putting, SignalForms, Loading, Storing
  <2>2. Code(p, c) = <<WordOf(c)>>
    BY <1>27 DEF Code, shmem_p, Word, WordOf, shmem_ptr
  <2> QED BY <1>1, <1>4, <2>1, <2>2, DoesWord
<1>28. CASE c.api = "g"
  <2> DEFINE i == [op |-> "fetch", src |-> Spot(c.pe, c.src), cmp |-> "eq", val |-> 0]
  <2>1. ~ Words(c) /\ ~ Copies(c)
    BY <1>28 DEF Words, Announces, Copies, Getting, Putting, SignalForms, Loading, Storing
  <2>2. Code(p, c) = <<i>>
    BY <1>28 DEF Code, shmem_g, Look, shmem_ptr
  <2>3. i.op = "fetch" /\ i.src.mem \in PE
    BY <1>1 DEF Spot
  <2> HIDE DEF i
  <2>4. i.op \in Readers
    BY <2>3 DEF Readers
  <2>5. Still(<<i>>) /\ Range(<<i>>) = {i} /\ i.op \notin Copiers \cup Writers
    BY <2>4, KindsOfOps, StillOne
  <2> QED BY <2>1, <2>2, <2>3, <2>5, DoesSilent
<1>29. CASE c.api = "signal_op"
  <2>1. ~ Copies(c) /\ (Words(c) <=> c.sigop \in {"set", "add"})
    BY <1>29 DEF Words, Announces, Copies, Getting, Putting, SignalForms, Loading, Storing
  <2>2. Code(p, c) = shmemix_signal_op(c)
    BY <1>29 DEF Code
  <2>3. CASE c.sigop \in {"set", "add"}
    <3>1. shmemix_signal_op(c) = <<WordOf(c)>>
      BY <1>29, <2>3 DEF shmemix_signal_op, shmemi_signal_set, shmemi_signal_add, Word, WordOf, shmem_ptr
    <3> QED BY <1>1, <1>4, <2>1, <2>2, <2>3, <3>1, DoesWord
  <2>4. CASE c.sigop \notin {"set", "add"}
    <3>1. shmemix_signal_op(c) = <<>>
      BY <2>4 DEF shmemix_signal_op
    <3> QED BY <2>1, <2>2, <2>4, <3>1, NoneLeft, DoesSilent
  <2> QED BY <2>3, <2>4
<1> QED BY <1>11, <1>12, <1>13, <1>14, <1>15, <1>16, <1>17, <1>18, <1>19, <1>20, <1>21, <1>22, <1>23, <1>24, <1>25, <1>26, <1>27, <1>28, <1>29 DEF Direct

(* The waits and reads of a PE's own heap. *)
Harmless(s) ==
  /\ Still(s)
  /\ \A i \in Range(s) : i.op \notin Copiers \cup Writers /\ (i.op \in Readers => i.src.mem \in PE)

LEMMA HarmlessOne ==
  ASSUME NEW i, i.op \notin Copiers \cup Writers \cup Flagging, i.op \in Readers => i.src.mem \in PE
  PROVE  Harmless(<<i>>)
<1>1. Still(<<i>>) /\ Range(<<i>>) = {i}
  BY StillOne
<1> QED BY <1>1 DEF Harmless

LEMMA HarmlessForms ==
  ASSUME NEW p \in PE
  PROVE  /\ Harmless(<<>>) /\ Harmless(shmemi_quiet) /\ Harmless(shmemi_roce_quiet)
         /\ \A c : /\ Harmless(shmemi_signal_wait_until(p, c)) /\ Harmless(shmemi_wait_until(p, c))
                   /\ Harmless(shmemi_signal_fetch(p, c)) /\ Harmless(shmemi_test(p, c))
<1>1. Harmless(<<>>)
  BY NoneLeft DEF Harmless
<1>2. Harmless(shmemi_quiet) /\ Harmless(shmemi_roce_quiet)
  <2> DEFINE i == [op |-> "drain"]
             j == [op |-> "roce_quiet"]
  <2>1. i.op = "drain" /\ j.op = "roce_quiet" /\ shmemi_quiet = <<i>> /\ shmemi_roce_quiet = <<j>>
    BY DEF shmemi_quiet, shmemi_roce_quiet
  <2> HIDE DEF i, j
  <2> QED BY <2>1, KindsOfOps, HarmlessOne
<1>3. ASSUME NEW op \in {"spin", "fetch", "test"}, NEW a, NEW cmp, NEW val
      PROVE  Harmless(Look(op, Local(p, a), cmp, val))
  <2> DEFINE i == [op |-> op, src |-> Local(p, a), cmp |-> cmp, val |-> val]
  <2>1. i.op = op /\ i.src.mem = p /\ Look(op, Local(p, a), cmp, val) = <<i>>
    BY DEF Look, Local, Spot
  <2>2. op \notin Copiers \cup Writers \cup Flagging
    BY DEF Copiers, Writers, Flagging
  <2> HIDE DEF i
  <2> QED BY <2>1, <2>2, HarmlessOne
<1>4. ASSUME NEW c
      PROVE  /\ Harmless(shmemi_signal_wait_until(p, c)) /\ Harmless(shmemi_wait_until(p, c))
             /\ Harmless(shmemi_signal_fetch(p, c)) /\ Harmless(shmemi_test(p, c))
  BY <1>1, <1>3 DEF shmemi_signal_wait_until, shmemi_wait_until, shmemi_signal_fetch, shmemi_test
<1> QED BY <1>1, <1>2, <1>4

LEMMA HarmlessConcat ==
  ASSUME NEW s, NEW t, Harmless(s), Harmless(t)
  PROVE  Harmless(s \o t)
<1>1. Still(s \o t) /\ Range(s \o t) = Range(s) \cup Range(t)
  BY StillConcat, BothProper DEF Harmless, Still
<1> QED BY <1>1 DEF Harmless

LEMMA HarmlessFlat ==
  ASSUME NEW n \in Int, NEW s, DOMAIN s = 1 .. n, s = [k \in 1 .. n |-> s[k]],
         \A k \in 1 .. n : Harmless(s[k])
  PROVE  Harmless(FlattenSeq(s))
<1> DEFINE X == UNION {Range(s[k]) : k \in 1 .. n}
<1>1. s \in Seq(Seq(X))
  BY RangeFlat DEF Harmless, Still, Proper
<1>2. Still(FlattenSeq(s))
  BY StillFlat DEF Harmless
<1>3. \A i \in X : i.op \notin Copiers \cup Writers /\ (i.op \in Readers => i.src.mem \in PE)
  BY DEF Harmless
<1> HIDE DEF X
<1>4. FlattenSeq(s) \in Seq(X)
  BY <1>1, FlattenType
<1>5. Range(FlattenSeq(s)) \subseteq X
  BY <1>4, SeqRange
<1> QED BY <1>2, <1>3, <1>5 DEF Harmless

LEMMA HarmlessEach ==
  ASSUME NEW p \in PE, NEW c, c.n \in Nat
  PROVE  Harmless(shmemi_wait_until_all(p, c)) /\ Harmless(shmemi_test_all(p, c))
<1>1. Harmless(shmemi_wait_until_all(p, c))
  <2> DEFINE s == [k \in 1 .. c.n |-> IF k - 1 \in c.skip THEN <<>>
                     ELSE shmemi_wait_until(p, [c EXCEPT !.sig = @ + (k - 1) * c.sz])]
  <2>1. DOMAIN s = 1 .. c.n /\ s = [k \in 1 .. c.n |-> s[k]] /\ \A k \in 1 .. c.n : Harmless(s[k])
    BY HarmlessForms
  <2>2. shmemi_wait_until_all(p, c) = FlattenSeq(s)
    BY DEF shmemi_wait_until_all, Each
  <2>3. c.n \in Int
    OBVIOUS
  <2> HIDE DEF s
  <2> QED BY <2>1, <2>2, <2>3, HarmlessFlat, Zenon
<1>2. Harmless(shmemi_test_all(p, c))
  <2> DEFINE s == [k \in 1 .. c.n |-> IF k - 1 \in c.skip THEN <<>>
                     ELSE shmemi_test(p, [c EXCEPT !.sig = @ + (k - 1) * c.sz])]
  <2>1. DOMAIN s = 1 .. c.n /\ s = [k \in 1 .. c.n |-> s[k]] /\ \A k \in 1 .. c.n : Harmless(s[k])
    BY HarmlessForms
  <2>2. shmemi_test_all(p, c) = FlattenSeq(s)
    BY DEF shmemi_test_all, Each
  <2>3. c.n \in Int
    OBVIOUS
  <2> HIDE DEF s
  <2> QED BY <2>1, <2>2, <2>3, HarmlessFlat, Zenon
<1> QED BY <1>1, <1>2

LEMMA InnerDoes ==
  ASSUME NEW p \in PE, NEW c \in DeviceCalls(p), c.api \in Inner
  PROVE  Does(p, c, Code(p, c))
<1>1. c.api \in {"wait_until_all", "test_all"} => c.n \in Nat
  BY ProgramAssumption
<1>2. ~ Words(c) /\ ~ Copies(c)
  BY DEF Inner, Words, Announces, Copies, Getting, Putting, SignalForms, Loading, Storing
<1>3. \A s : Harmless(s) => Does(p, c, s)
  BY <1>2, DoesSilent DEF Harmless
<1>4. CASE c.api = "quiet"
  BY <1>3, <1>4, HarmlessForms DEF Code
<1>5. CASE c.api = "roce_quiet"
  BY <1>3, <1>5, HarmlessForms DEF Code
<1>6. CASE c.api = "signal_fetch"
  BY <1>3, <1>6, HarmlessForms DEF Code
<1>7. CASE c.api = "signal_wait_until"
  BY <1>3, <1>7, HarmlessForms DEF Code
<1>8. CASE c.api = "wait_until_all"
  BY <1>1, <1>3, <1>8, HarmlessEach DEF Code
<1>9. CASE c.api = "test"
  <2>1. Harmless(shmem_test(p, c))
    BY HarmlessForms, HarmlessConcat DEF shmem_test
  <2> QED BY <1>3, <1>9, <2>1 DEF Code
<1>10. CASE c.api = "test_all"
  BY <1>1, <1>3, <1>10, HarmlessEach DEF Code
<1> QED BY <1>4, <1>5, <1>6, <1>7, <1>8, <1>9, <1>10 DEF Inner

(* Every call's code does what the call is for. *)
LEMMA CodeDoes ==
  ASSUME NEW p \in PE, NEW c \in DeviceCalls(p), config[p].shmem_ub \in Nat,
         config[p].ub_size \in BufferSizes(p),
         \A q \in PE : "mte" \in host[p].dev.topo[q] \/ "roce" \in host[p].dev.topo[q]
  PROVE  Does(p, c, Code(p, c))
<1>1. c.api \in Routed \cup Unrouted \cup Direct \cup Inner
  BY ProgramAssumption
<1> QED BY <1>1, RoutedDoes, UnroutedDoes, DirectDoes, InnerDoes

-----------------------------------------------------------------------------
(* Cells.                                                                  *)

LEMMA EverywhereIs ==
  ASSUME NEW x \in Everywhere
  PROVE  x = <<x[1], x[2]>> /\ x[1] \in Memories /\ x[2] \in 0 .. Size(x[1]) - 1
BY DEF Everywhere

LEMMA CellIs ==
  ASSUME NEW q \in Memories, NEW a \in 0 .. Size(q) - 1
  PROVE  <<q, a>> \in Everywhere
BY DEF Everywhere

LEMMA Buffers ==
  ASSUME NEW p \in PE
  PROVE  /\ UbOf(p) \in Memories /\ UbOf(p) \notin PE /\ p \in Memories
         /\ \A q \in PE : UbOf(q) = UbOf(p) => q = p
BY JobAssumption DEF UbOf, Memories, PE

LEMMA MemoryIs ==
  ASSUME NEW q \in Memories, q \notin PE
  PROVE  \E p \in PE : q = UbOf(p)
<1>1. q - NPes \in PE /\ q = NPes + (q - NPes)
  BY JobAssumption DEF Memories, PE
<1> QED BY <1>1 DEF UbOf

LEMMA CopyReads ==
  ASSUME NEW i, i.op \in Copiers, NEW x \in Writes(i)
  PROVE  /\ x \in Touched(i) /\ x[1] = i.dst.mem /\ From(i, x) \in Reads(i)
         /\ From(i, x)[1] = i.src.mem
<1>1. x \in Touched(i)
  BY WritesOf
<1>2. x[1] = i.dst.mem
  BY <1>1 DEF Touched
<1>3. From(i, x) \in Reads(i)
  BY <1>1, WritesOf DEF From
<1> QED BY <1>1, <1>2, <1>3 DEF From

(* A memory whose cells are all there. *)
Stocked(m) == DOMAIN m = Memories /\ \A q \in Memories : DOMAIN m[q] = 0 .. Size(q) - 1

LEMMA MovedCells ==
  ASSUME NEW m, Stocked(m), NEW i, i.dst.mem \in Memories
  PROVE  /\ Stocked(Moved(m, i))
         /\ \A x \in Everywhere :
              Value(Moved(m, i), x) = IF x \in Touched(i) THEN Value(m, From(i, x)) ELSE Value(m, x)
<1>1. /\ DOMAIN Moved(m, i) = Memories
      /\ \A q \in Memories : q # i.dst.mem => Moved(m, i)[q] = m[q]
      /\ Moved(m, i)[i.dst.mem] = [a \in 0 .. Size(i.dst.mem) - 1 |->
           IF InCopy(i, a) THEN m[i.src.mem][Origin(i, a)] ELSE m[i.dst.mem][a]]
  BY DEF Moved, Stocked
<1>2. Stocked(Moved(m, i))
  BY <1>1 DEF Stocked
<1>3. ASSUME NEW x \in Everywhere
      PROVE  Value(Moved(m, i), x) = IF x \in Touched(i) THEN Value(m, From(i, x)) ELSE Value(m, x)
  <2>1. x = <<x[1], x[2]>> /\ x[1] \in Memories /\ x[2] \in 0 .. Size(x[1]) - 1
    BY EverywhereIs
  <2>2. x \in Touched(i) <=> x[1] = i.dst.mem /\ InCopy(i, x[2])
    BY <2>1 DEF Touched
  <2>3. From(i, x)[1] = i.src.mem /\ From(i, x)[2] = Origin(i, x[2])
    BY DEF From
  <2>4. CASE x[1] = i.dst.mem
    <3> DEFINE h == Moved(m, i)
    <3>1. h[i.dst.mem] = [a \in 0 .. Size(i.dst.mem) - 1 |->
            IF InCopy(i, a) THEN m[i.src.mem][Origin(i, a)] ELSE m[i.dst.mem][a]]
      BY <1>1
    <3> HIDE DEF h
    <3>2. x[2] \in 0 .. Size(i.dst.mem) - 1
      BY <2>1, <2>4, Zenon
    <3>3. h[i.dst.mem][x[2]] = IF InCopy(i, x[2]) THEN m[i.src.mem][Origin(i, x[2])] ELSE m[i.dst.mem][x[2]]
      BY <3>1, <3>2, Zenon
    <3>4. h[x[1]][x[2]] = IF InCopy(i, x[2]) THEN m[i.src.mem][Origin(i, x[2])] ELSE m[x[1]][x[2]]
      BY <2>4, <3>3, Zenon
    <3> QED BY <2>2, <2>3, <2>4, <3>4, Zenon DEF Value, h
  <2>5. CASE x[1] # i.dst.mem
    <3>1. Moved(m, i)[x[1]] = m[x[1]]
      BY <1>1, <2>1, <2>5
    <3> QED BY <2>2, <2>5, <3>1 DEF Value
  <2> QED BY <2>4, <2>5
<1> QED BY <1>2, <1>3

LEMMA WrittenCells ==
  ASSUME NEW m, Stocked(m), NEW op, NEW y, <<y.mem, y.at>> \in Everywhere, NEW val
  PROVE  /\ Stocked(Written(m, op, y, val))
         /\ \A x \in Everywhere :
              Value(Written(m, op, y, val), x) =
                IF x = <<y.mem, y.at>> THEN IF op = "set_word" THEN val ELSE Value(m, x) + val
                ELSE Value(m, x)
<1> DEFINE v == IF op = "set_word" THEN val ELSE m[y.mem][y.at] + val
           w == Written(m, op, y, val)
<1>1. y.mem \in Memories /\ y.at \in 0 .. Size(y.mem) - 1
  BY EverywhereIs
<1>2. /\ DOMAIN w = Memories /\ \A q \in Memories : q # y.mem => w[q] = m[q]
      /\ DOMAIN w[y.mem] = DOMAIN m[y.mem]
      /\ \A a \in DOMAIN m[y.mem] : w[y.mem][a] = IF a = y.at THEN v ELSE m[y.mem][a]
  <2>1. w[y.mem] = [m[y.mem] EXCEPT ![y.at] = v]
    BY <1>1 DEF Written, Stocked
  <2>2. DOMAIN w = Memories /\ \A q \in Memories : q # y.mem => w[q] = m[q]
    BY <1>1 DEF Written, Stocked
  <2> HIDE DEF w, v
  <2> QED BY <1>1, <2>1, <2>2 DEF Stocked
<1>3. DOMAIN m[y.mem] = 0 .. Size(y.mem) - 1
  BY <1>1 DEF Stocked
<1> HIDE DEF w
<1>4. Stocked(w)
  BY <1>2 DEF Stocked
<1>5. ASSUME NEW x \in Everywhere
      PROVE  Value(w, x) = IF x = <<y.mem, y.at>> THEN IF op = "set_word" THEN val ELSE Value(m, x) + val
                           ELSE Value(m, x)
  <2>1. x = <<x[1], x[2]>> /\ x[1] \in Memories /\ x[2] \in 0 .. Size(x[1]) - 1
    BY EverywhereIs
  <2>2. CASE x = <<y.mem, y.at>>
    <3>1. x[1] = y.mem /\ x[2] = y.at
      BY <2>2
    <3>2. w[x[1]][x[2]] = v
      BY <1>1, <1>2, <1>3, <3>1
    <3> QED BY <2>2, <3>1, <3>2 DEF Value
  <2>3. CASE x # <<y.mem, y.at>>
    <3>1. x[1] # y.mem \/ x[2] # y.at
      BY <2>1, <2>3
    <3>2. w[x[1]][x[2]] = m[x[1]][x[2]]
      BY <1>1, <1>2, <1>3, <2>1, <3>1
    <3> QED BY <2>3, <3>2 DEF Value
  <2> QED BY <2>2, <2>3
<1> QED BY <1>4, <1>5 DEF w

LEMMA SpoiledCells ==
  ASSUME NEW m, Stocked(m), NEW p \in PE, NEW s
  PROVE  /\ Stocked(Spoiled(m, p, s))
         /\ \A x \in Everywhere :
              Value(Spoiled(m, p, s), x) =
                IF x[1] = UbOf(p) /\ \E i \in Range(s) : i.op = "load" /\ InCopy(i, x[2])
                THEN Spoilt ELSE Value(m, x)
<1>1. /\ DOMAIN Spoiled(m, p, s) = Memories
      /\ \A q \in Memories : q # UbOf(p) => Spoiled(m, p, s)[q] = m[q]
      /\ Spoiled(m, p, s)[UbOf(p)] = [a \in 0 .. Size(UbOf(p)) - 1 |->
           IF \E i \in Range(s) : i.op = "load" /\ InCopy(i, a) THEN Spoilt ELSE m[UbOf(p)][a]]
  BY Buffers DEF Spoiled, Stocked
<1>2. Stocked(Spoiled(m, p, s))
  BY <1>1 DEF Stocked
<1>3. ASSUME NEW x \in Everywhere
      PROVE  Value(Spoiled(m, p, s), x) =
                IF x[1] = UbOf(p) /\ \E i \in Range(s) : i.op = "load" /\ InCopy(i, x[2])
                THEN Spoilt ELSE Value(m, x)
  <2>1. x = <<x[1], x[2]>> /\ x[1] \in Memories /\ x[2] \in 0 .. Size(x[1]) - 1
    BY EverywhereIs
  <2>2. CASE x[1] = UbOf(p)
    BY <1>1, <2>1, <2>2 DEF Value
  <2>3. CASE x[1] # UbOf(p)
    BY <1>1, <2>1, <2>3 DEF Value
  <2> QED BY <2>2, <2>3
<1> QED BY <1>2, <1>3

-----------------------------------------------------------------------------
(* What is still to be added to a word.                                    *)

Adding(i, x) == i.op = "add_word" /\ x \in Writes(i)
Adds(u, x) == IF \E i \in u : Adding(i, x) THEN (CHOOSE i \in u : Adding(i, x)).val ELSE 0
Totals(U, x, t) ==
  \E s \in [0 .. NPes -> Int] :
    s[0] = 0 /\ s[NPes] = t /\ \A q \in PE : s[q + 1] = s[q] + Adds(U[q], x)

LEMMA NothingAdded ==
  ASSUME NEW U, NEW x, \A q \in PE : Adds(U[q], x) = 0
  PROVE  Totals(U, x, 0) /\ \A t : Totals(U, x, t) => t = 0
<1>1. NPes \in Nat /\ 0 \in 0 .. NPes /\ NPes \in 0 .. NPes
      /\ \A q \in PE : q \in 0 .. NPes /\ q + 1 \in 0 .. NPes
  BY JobAssumption DEF PE
<1>2. Totals(U, x, 0)
  <2> DEFINE s == [k \in 0 .. NPes |-> 0]
  <2>1. s \in [0 .. NPes -> Int] /\ \A k \in 0 .. NPes : s[k] = 0
    OBVIOUS
  <2> HIDE DEF s
  <2>2. s[0] = 0 /\ s[NPes] = 0 /\ \A q \in PE : s[q + 1] = s[q] + Adds(U[q], x)
    BY <1>1, <2>1
  <2> QED BY <2>1, <2>2 DEF Totals
<1>3. ASSUME NEW t, Totals(U, x, t)
      PROVE  t = 0
  <2>1. PICK s \in [0 .. NPes -> Int] :
          s[0] = 0 /\ s[NPes] = t /\ \A q \in PE : s[q + 1] = s[q] + Adds(U[q], x)
    BY <1>3 DEF Totals
  <2>2. \A q \in PE : s[q + 1] = s[q]
    BY <1>1, <2>1
  <2> DEFINE T == {k \in 0 .. NPes : s[k] # 0}
  <2>3. ASSUME T # {}
        PROVE  FALSE
    <3>1. PICK k \in T : \A y \in T : k <= y
      <4>1. T \in SUBSET Nat
        BY <1>1
      <4> QED BY <2>3, <4>1, Smallest
    <3>2. k \in 0 .. NPes /\ s[k] # 0 /\ k # 0
      BY <2>1
    <3>3. k - 1 \in PE /\ k - 1 \in 0 .. NPes /\ (k - 1) + 1 = k /\ ~ (k <= k - 1)
      BY <1>1, <3>2 DEF PE
    <3>4. s[k - 1] = 0
      BY <3>1, <3>3
    <3> QED BY <2>2, <3>2, <3>3, <3>4
  <2>4. s[NPes] = 0
    BY <1>1, <2>3
  <2> QED BY <2>1, <2>4
<1> QED BY <1>2, <1>3

(* One PE has more to add. *)
LEMMA MoreAdded ==
  ASSUME NEW U, NEW V, NEW x, NEW t \in Int, Totals(U, x, t), NEW p \in PE, NEW d \in Int,
         \A q \in PE \ {p} : Adds(V[q], x) = Adds(U[q], x), Adds(V[p], x) = Adds(U[p], x) + d,
         \A q \in PE : Adds(U[q], x) \in Int
  PROVE  Totals(V, x, t + d)
<1>1. PICK s \in [0 .. NPes -> Int] :
        s[0] = 0 /\ s[NPes] = t /\ \A q \in PE : s[q + 1] = s[q] + Adds(U[q], x)
  BY DEF Totals
<1> DEFINE r == [k \in 0 .. NPes |-> IF k <= p THEN s[k] ELSE s[k] + d]
<1>2. NPes \in Nat /\ 0 \in 0 .. NPes /\ NPes \in 0 .. NPes /\ p \in Nat /\ 0 <= p /\ ~ (NPes <= p)
      /\ \A q \in PE : q \in 0 .. NPes /\ q + 1 \in 0 .. NPes
  BY JobAssumption DEF PE
<1>3. r \in [0 .. NPes -> Int] /\ \A k \in 0 .. NPes : r[k] = IF k <= p THEN s[k] ELSE s[k] + d
  OBVIOUS
<1> HIDE DEF r
<1>4. r[0] = 0 /\ r[NPes] = t + d
  BY <1>1, <1>2, <1>3
<1>5. ASSUME NEW q \in PE
      PROVE  r[q + 1] = r[q] + Adds(V[q], x)
  <2>1. s[q] \in Int /\ s[q + 1] = s[q] + Adds(U[q], x) /\ Adds(U[q], x) \in Int /\ q \in Int
    <3>1. q \in 0 .. NPes
      BY <1>2
    <3>2. q \in Int
      BY <3>1
    <3>3. s[q] \in Int
      BY <3>1
    <3> QED BY <1>1, <3>2, <3>3
  <2>2. CASE q < p
    <3>1. q <= p /\ q + 1 <= p /\ q # p
      BY <1>2, <2>1, <2>2
    <3> QED BY <1>2, <1>3, <2>1, <3>1
  <2>3. CASE q = p
    <3>1. p <= p /\ ~ (p + 1 <= p)
      BY <1>2
    <3> QED BY <1>2, <1>3, <2>1, <2>3, <3>1
  <2>4. CASE p < q
    <3>1. ~ (q <= p) /\ ~ (q + 1 <= p) /\ q # p
      BY <1>2, <2>1, <2>4
    <3> QED BY <1>2, <1>3, <2>1, <3>1
  <2> QED BY <1>2, <2>1, <2>2, <2>3, <2>4
<1> QED BY <1>3, <1>4, <1>5 DEF Totals

-----------------------------------------------------------------------------
(* What a call means the memories to hold.                                 *)

(* What Careful says of the instructions of one call. *)
Alone(s) ==
  \A i, j \in Range(s) : \A x \in Writes(i) :
    /\ x \in Reads(j) => x[1] \notin PE
    /\ x \in Writes(j) /\ i.op \in Writers => j = i
Within(u) == \A i \in u : Writes(i) \cup Reads(i) \subseteq Everywhere

(* The cells that instructions s of call c leave alone stay; what a load   *)
(* leaves in the buffer on the way is worth nothing.                       *)
Result(d, r, p, c, s) ==
  /\ Stocked(r)
  /\ \A x \in Everywhere : (\A i \in Range(s) : x \notin Writes(i)) => Value(r, x) = Value(d, x)
  /\ \A i \in Range(s) : \A x \in Writes(i) :
       /\ i.op = "load" /\ Staged(c) => Value(r, x) = Spoilt
       /\ i.op \in Copiers /\ ~ (i.op = "load" /\ Staged(c)) => Value(r, x) = Value(d, From(CopyOf(p, c), x))
       /\ i.op = "set_word" => Value(r, x) = i.val
       /\ i.op = "add_word" => Value(r, x) = Value(d, x) + i.val

(* The cells of a call's copy are those that its instructions write. *)
LEMMA CarriedCells ==
  ASSUME NEW p \in PE, NEW c, NEW s, Does(p, c, s)
  PROVE  /\ Copies(c) => \A x \in Touched(CopyOf(p, c)) :
              \E j \in Range(s) : j.op \in Copiers /\ x \in Writes(j)
         /\ \A i \in Range(s) : i.op \in Copiers =>
              /\ Copies(c) /\ (i.op = "load" => ~ Staged(c) \/ UbOf(p) = i.dst.mem)
              /\ ~ (i.op = "load" /\ Staged(c)) => Writes(i) \subseteq Touched(CopyOf(p, c))
<1> DEFINE C == CopyOf(p, c)
<1>1. /\ Proper(s) /\ Carried(p, c, s) /\ \A i \in Range(s) : Placed(p, i)
      /\ s \in Seq(Range(s))
  BY DEF Does, Proper
<1> HIDE DEF C
<1>2. /\ \A f \in StoresIn(s) : f[1] \in Range(s) /\ f[1].op = "store"
      /\ \A i \in Range(s) : i.op = "store" => \E f \in StoresIn(s) : f[1] = i
  BY <1>1, EntryIs DEF StoresIn
<1>3. "store" \in Copiers /\ "load" \in Copiers /\ "post" \in Copiers
      /\ Copiers = {"load", "store", "post"}
  BY DEF Copiers
<1>4. CASE ~ Copies(c)
  BY <1>1, <1>4 DEF Carried
<1>5. CASE Copies(c) /\ Staged(c) /\ Relays(LoadsIn(s), StoresIn(s), C)
           /\ \A i \in Range(s) : i.op # "post"
  <2>1. ASSUME NEW x \in Touched(C)
        PROVE  \E j \in Range(s) : j.op \in Copiers /\ x \in Writes(j)
    BY <1>2, <1>3, <1>5 DEF Relays
  <2>2. ASSUME NEW i \in Range(s), i.op \in Copiers, ~ (i.op = "load" /\ Staged(c))
        PROVE  Writes(i) \subseteq Touched(C)
    <3>1. i.op = "store"
      BY <1>3, <1>5, <2>2
    <3> QED BY <1>2, <1>5, <3>1 DEF Relays
  <2>3. \A i \in Range(s) : i.op = "load" => UbOf(p) = i.dst.mem
    BY <1>1 DEF Placed
  <2> QED BY <1>5, <2>1, <2>2, <2>3 DEF C
<1>6. CASE Copies(c) /\ AtOneGo(c, C, s)
  <2>1. PICK i \in Range(s) : i.op \in Copiers /\ Likewise(i, C) /\ \A j \in Range(s) : j.op \in Copiers => j = i
    BY <1>6 DEF AtOneGo
  <2>2. Writes(i) = Touched(C)
    BY <2>1, WritesOf DEF Likewise
  <2>3. \A j \in Range(s) : j.op = "load" => UbOf(p) = j.dst.mem
    BY <1>1 DEF Placed
  <2> QED BY <1>6, <2>1, <2>2, <2>3 DEF C
<1> QED BY <1>1, <1>4, <1>5, <1>6 DEF Carried, C

LEMMA IdeallyIs ==
  ASSUME NEW d, NEW p, NEW c, NEW s
  PROVE  LET moved == Moved(d, CopyOf(p, c))
             copied == IF ~ Copies(c) THEN d ELSE IF Staged(c) THEN Spoiled(moved, p, s) ELSE moved
             w == WordOf(c) IN
         Ideally(d, p, c, s) = IF Words(c) THEN Written(copied, w.op, w.dst, w.val) ELSE copied
<1> DEFINE moved == Moved(d, CopyOf(p, c))
           copied == IF ~ Copies(c) THEN d ELSE IF Staged(c) THEN Spoiled(moved, p, s) ELSE moved
<1>1. Ideally(d, p, c, s) =
        CASE Announces(c) -> Written(copied, IF c.sigop = "set" THEN "set_word" ELSE "add_word",
                                     Spot(c.pe, c.sig), c.val)
          [] c.api = "p" -> Written(copied, "set_word", Spot(c.pe, c.dst), c.val)
          [] OTHER -> copied
  BY DEF Ideally
<1> HIDE DEF copied, moved
<1>2. Announces(c) => c.api # "p"
  BY DEF Announces, SignalForms
<1>3. Ideally(d, p, c, s) = IF Words(c) THEN Written(copied, WordOf(c).op, WordOf(c).dst, WordOf(c).val) ELSE copied
  <2>1. CASE Announces(c)
    BY <1>1, <1>2, <2>1 DEF Words, WordOf
  <2>2. CASE c.api = "p"
    BY <1>1, <1>2, <2>2 DEF Words, WordOf
  <2>3. CASE ~ Announces(c) /\ c.api # "p"
    BY <1>1, <2>3 DEF Words
  <2> QED BY <2>1, <2>2, <2>3
<1> QED BY <1>3 DEF copied, moved

LEMMA IdeallyDoes ==
  ASSUME NEW d, Stocked(d), NEW p \in PE, NEW c, NEW s, Does(p, c, s), Alone(s), Within(Range(s)),
         Copies(c) => CopyOf(p, c).dst.mem \in Memories
  PROVE  Result(d, Ideally(d, p, c, s), p, c, s)
<1> DEFINE C == CopyOf(p, c)
           moved == Moved(d, C)
           copied == IF ~ Copies(c) THEN d ELSE IF Staged(c) THEN Spoiled(moved, p, s) ELSE moved
           w == WordOf(c)
           r == Ideally(d, p, c, s)
<1>1. r = IF Words(c) THEN Written(copied, w.op, w.dst, w.val) ELSE copied
  BY IdeallyIs
<1>2. /\ Copies(c) => \A x \in Touched(C) : \E j \in Range(s) : j.op \in Copiers /\ x \in Writes(j)
      /\ \A i \in Range(s) : i.op \in Copiers =>
           /\ Copies(c) /\ (i.op = "load" => ~ Staged(c) \/ UbOf(p) = i.dst.mem)
           /\ ~ (i.op = "load" /\ Staged(c)) => Writes(i) \subseteq Touched(C)
  BY CarriedCells
<1>3. /\ \A i \in Range(s) : Placed(p, i) /\ (Words(c) => w \in Range(s))
      /\ \A i \in Range(s) : i.op \in Writers => Words(c) /\ i = w
      /\ Words(c) => w \in Range(s)
  <2>1. Proper(s) /\ WordLast(c, s) /\ DOMAIN s = 1 .. Len(s)
    BY DEF Does, Proper
  <2> QED BY <2>1 DEF Does, WordLast, Range
<1>4. Copies(c) => /\ Stocked(moved)
                   /\ \A x \in Everywhere :
                        Value(moved, x) = IF x \in Touched(C) THEN Value(d, From(C, x)) ELSE Value(d, x)
  BY MovedCells
<1> DEFINE Lost(x) == Copies(c) /\ Staged(c) /\ x[1] = UbOf(p)
                      /\ \E i \in Range(s) : i.op = "load" /\ InCopy(i, x[2])
<1>5. /\ Stocked(copied)
      /\ \A x \in Everywhere :
           Value(copied, x) = IF Lost(x) THEN Spoilt
                              ELSE IF Copies(c) /\ x \in Touched(C) THEN Value(d, From(C, x)) ELSE Value(d, x)
  <2>1. CASE ~ Copies(c)
    BY <2>1
  <2>2. CASE Copies(c) /\ ~ Staged(c)
    <3> HIDE DEF moved
    <3> QED BY <1>4, <2>2
  <2>3. CASE Copies(c) /\ Staged(c)
    <3> HIDE DEF moved
    <3>1. /\ Stocked(Spoiled(moved, p, s))
          /\ \A x \in Everywhere :
               Value(Spoiled(moved, p, s), x) =
                IF x[1] = UbOf(p) /\ \E i \in Range(s) : i.op = "load" /\ InCopy(i, x[2])
                THEN Spoilt ELSE Value(moved, x)
      BY <1>4, <2>3, SpoiledCells
    <3>2. copied = Spoiled(moved, p, s)
      BY <2>3
    <3> HIDE DEF copied
    <3> QED BY <1>4, <2>3, <3>1, <3>2
  <2> QED BY <2>1, <2>2, <2>3
<1> HIDE DEF copied, moved, r
<1>6. ASSUME NEW x \in Everywhere, Lost(x)
      PROVE  \E i \in Range(s) : i.op = "load" /\ x \in Writes(i)
  <2>1. PICK i \in Range(s) : i.op = "load" /\ InCopy(i, x[2])
    BY <1>6
  <2>2. i.dst.mem = x[1]
    BY <1>3, <1>6, <2>1 DEF Placed
  <2>3. x = <<x[1], x[2]>> /\ x[2] \in 0 .. Size(x[1]) - 1
    BY EverywhereIs
  <2>4. x \in Touched(i)
    BY <2>1, <2>2, <2>3 DEF Touched
  <2>5. x \in Writes(i)
    BY <2>1, <2>4, WritesOf DEF Copiers
  <2> QED BY <2>1, <2>5
<1>7. ASSUME Words(c)
      PROVE  /\ <<w.dst.mem, w.dst.at>> \in Everywhere /\ Writes(w) = {<<w.dst.mem, w.dst.at>>}
             /\ w.op \in Writers /\ w.dst.mem \in PE
  <2>1. w.op \in Writers
    BY <1>7 DEF WordOf, Writers
  <2>2. Writes(w) = {<<w.dst.mem, w.dst.at>>}
    BY <2>1, WritesOf
  <2>3. Writes(w) \subseteq Everywhere /\ Placed(p, w)
    <3> HIDE DEF w
    <3>1. w \in Range(s)
      <4>1. PICK k \in Range(s) : k = w
        BY <1>7 DEF Does, w
      <4> QED BY <4>1
    <3> QED BY <1>3, <3>1 DEF Within
  <2> QED BY <2>1, <2>2, <2>3 DEF Placed
<1>8. /\ Stocked(r)
      /\ \A x \in Everywhere :
           Value(r, x) = IF Words(c) /\ x \in Writes(w)
                         THEN IF w.op = "set_word" THEN w.val ELSE Value(copied, x) + w.val
                         ELSE Value(copied, x)
  <2>1. CASE ~ Words(c)
    BY <1>1, <1>5, <2>1
  <2>2. CASE Words(c)
    <3>1. /\ Stocked(Written(copied, w.op, w.dst, w.val))
          /\ \A x \in Everywhere :
               Value(Written(copied, w.op, w.dst, w.val), x) =
                 IF x = <<w.dst.mem, w.dst.at>> THEN IF w.op = "set_word" THEN w.val ELSE Value(copied, x) + w.val
                 ELSE Value(copied, x)
      <4> HIDE DEF w
      <4> QED BY <1>5, <1>7, <2>2, WrittenCells
    <3> HIDE DEF w
    <3> QED BY <1>1, <1>7, <2>2, <3>1
  <2> QED BY <2>1, <2>2
<1> HIDE DEF w, C, Lost
<1>9. \A i \in Range(s) : \A x \in Writes(i) : x \in Everywhere
  BY DEF Within
<1>10. ASSUME NEW x \in Everywhere, \A i \in Range(s) : x \notin Writes(i)
       PROVE  Value(r, x) = Value(d, x)
  <2>1. ~ Lost(x)
    BY <1>6, <1>10
  <2>2. ~ (Copies(c) /\ x \in Touched(C))
    BY <1>2, <1>10
  <2>3. ~ (Words(c) /\ x \in Writes(w))
    BY <1>3, <1>10
  <2> QED BY <1>5, <1>8, <2>1, <2>2, <2>3
<1>11. ASSUME NEW i \in Range(s), NEW x \in Writes(i), i.op = "load", Staged(c)
       PROVE  Value(r, x) = Spoilt
  <2>1. i.op \in Copiers
    BY <1>11 DEF Copiers
  <2>2. x \in Touched(i) /\ x[1] = i.dst.mem /\ i.dst.mem = UbOf(p) /\ Copies(c)
    BY <1>2, <1>11, <2>1, CopyReads
  <2>3. InCopy(i, x[2])
    BY <2>2 DEF Touched
  <2>4. Lost(x)
    BY <1>11, <2>2, <2>3 DEF Lost
  <2>5. ~ (Words(c) /\ x \in Writes(w))
    <3>1. x[1] \notin PE
      BY <2>2, Buffers
    <3> QED BY <1>7, <3>1
  <2> QED BY <1>5, <1>8, <1>9, <2>4, <2>5
<1>12. ASSUME NEW i \in Range(s), NEW x \in Writes(i), i.op \in Copiers, ~ (i.op = "load" /\ Staged(c))
       PROVE  Value(r, x) = Value(d, From(C, x))
  <2>1. Copies(c) /\ x \in Touched(C) /\ x \in Everywhere
    BY <1>2, <1>9, <1>12
  <2>2. ~ (Words(c) /\ x \in Writes(w))
    <3> SUFFICES ASSUME Words(c), x \in Writes(w) PROVE FALSE
      OBVIOUS
    <3>1. w \in Range(s) /\ w.op \in Writers
      BY <1>3, <1>7
    <3>2. i = w
      BY <3>1 DEF Alone
    <3> QED BY <1>12, <3>1, <3>2, KindsOfOps
  <2>3. ~ Lost(x)
    <3> SUFFICES ASSUME Lost(x) PROVE FALSE
      OBVIOUS
    <3>1. x[1] = UbOf(p) /\ Staged(c)
      BY DEF Lost
    <3>2. i.op \in {"store", "post"}
      BY <1>12, <3>1 DEF Copiers
    <3>3. x[1] \in PE
      BY <1>3, <1>12, <3>2, CopyReads DEF Placed
    <3> QED BY <3>1, <3>3, Buffers
  <2> QED BY <1>5, <1>8, <2>1, <2>2, <2>3
<1>13. ASSUME NEW i \in Range(s), NEW x \in Writes(i), i.op \in Writers
       PROVE  /\ i.op = "set_word" => Value(r, x) = i.val
              /\ i.op = "add_word" => Value(r, x) = Value(d, x) + i.val
  <2>1. Words(c) /\ i = w /\ x \in Everywhere
    BY <1>3, <1>9, <1>13
  <2>2. ~ Lost(x)
    <3>1. x[1] \in PE
      BY <1>7, <2>1
    <3> QED BY <3>1, Buffers DEF Lost
  <2>3. ~ (Copies(c) /\ x \in Touched(C))
    <3> SUFFICES ASSUME Copies(c), x \in Touched(C) PROVE FALSE
      OBVIOUS
    <3>1. PICK j \in Range(s) : j.op \in Copiers /\ x \in Writes(j)
      BY <1>2
    <3>2. j = i
      BY <1>13, <3>1 DEF Alone
    <3> QED BY <1>13, <3>1, <3>2, KindsOfOps
  <2>4. Value(copied, x) = Value(d, x)
    BY <1>5, <2>1, <2>2, <2>3
  <2> QED BY <1>8, <2>1, <2>4
<1>14. "set_word" \in Writers /\ "add_word" \in Writers
  BY DEF Writers
<1>15. Result(d, r, p, c, s)
  BY <1>8, <1>10, <1>11, <1>12, <1>13, <1>14 DEF Result, C
<1> QED BY <1>15 DEF r

-----------------------------------------------------------------------------
(* What holds of the instructions U under way on each PE, the loads L and  *)
(* stores S among them with the flags behind each, the memory m and what   *)
(* the calls mean it to be, d.                                             *)

OneWord(u) == \A i, j \in u : i.op \in Writers /\ j.op \in Writers => i = j

Structured(U, L, S) ==
  \A p \in PE :
    /\ \A i \in U[p] : Placed(p, i)
    /\ Within(U[p]) /\ OneWord(U[p])
    /\ \A e \in L[p] : e[1] \in U[p] /\ e[1].op = "load" /\ e[2] \in Nat /\ e[3] \in Nat
    /\ \A f \in S[p] : f[1] \in U[p] /\ f[1].op = "store" /\ f[2] \in Nat /\ f[3] \in Nat

(* No cell of a heap that is read is to be written, and words are shared   *)
(* by additions only.                                                      *)
Parted(U) ==
  \A p, q \in PE : \A i \in U[p], j \in U[q] : \A x \in Writes(i) :
    /\ x \in Reads(j) => x[1] \notin PE
    /\ x \in Writes(j) /\ i.op \in Writers => (i.op = "add_word" /\ j.op = "add_word") \/ i = j

(* Copies find in the heap what they are to bring; a store finds it in the *)
(* buffer, or the load that feeds it does in the heap.                     *)
Owes(i, m, d) ==
  \A x \in Writes(i) :
    /\ i.op = "load" => Value(d, x) = Spoilt \/ Value(m, From(i, x)) = Value(d, x)
    /\ i.op = "post" => Value(m, From(i, x)) = Value(d, x)
    /\ i.op = "set_word" => Value(d, x) = i.val
StoreOwes(f, l, m, d) ==
  \A x \in Writes(f[1]) :
    /\ \A e \in l : Feeds(e, f, x) => Value(m, From(e[1], From(f[1], x))) = Value(d, x)
    /\ (\A e \in l : ~ Feeds(e, f, x)) => Value(m, From(f[1], x)) = Value(d, x)
Owing(U, L, S, m, d) ==
  \A p \in PE :
    /\ \A i \in U[p] : Owes(i, m, d)
    /\ \A f \in S[p] : StoreOwes(f, L[p], m, d)

(* A load that writes what a store reads feeds it, or comes after it, or   *)
(* before the one that feeds it.                                           *)
Clash(e, f, l) ==
  \A x \in Writes(f[1]) : From(f[1], x) \in Writes(e[1]) =>
    /\ e[2] <= f[2] => e[3] < f[3]
    /\ f[2] + 1 < e[2] => \E g \in l : Feeds(g, f, x)
InTurn(L, S) == \A p \in PE : \A e \in L[p], f \in S[p] : Clash(e, f, L[p])

(* What no copy is to write any more has its value, but for what is still  *)
(* to be added.                                                            *)
Calm(U, x) == \A p \in PE : \A i \in U[p] : x \in Writes(i) => i.op = "add_word"
Settles(U, m, d, x) ==
  IF x[1] \in PE THEN \E t \in Int : Totals(U, x, t) /\ Value(d, x) = Value(m, x) + t
  ELSE Value(d, x) \in {Spoilt, Value(m, x)}
Settled(U, m, d) == \A x \in Everywhere : Calm(U, x) => Settles(U, m, d, x)

Numbers(m) == \A x \in Everywhere : Value(m, x) \in Int

Underway(U, L, S, m, d) ==
  /\ Structured(U, L, S) /\ Parted(U) /\ Owing(U, L, S, m, d) /\ InTurn(L, S)
  /\ Stocked(m) /\ Stocked(d) /\ Numbers(m) /\ Settled(U, m, d)

LEMMA AddsIs ==
  ASSUME NEW u, OneWord(u), NEW x
  PROVE  /\ \A i \in u : Adding(i, x) => Adds(u, x) = i.val
         /\ (\A i \in u : ~ Adding(i, x)) => Adds(u, x) = 0
<1>1. ASSUME NEW i \in u, Adding(i, x)
      PROVE  Adds(u, x) = i.val
  <2> DEFINE k == CHOOSE j \in u : Adding(j, x)
  <2>1. k \in u /\ Adding(k, x)
    BY <1>1
  <2>2. Adds(u, x) = k.val
    BY <1>1 DEF Adds
  <2> HIDE DEF k
  <2>3. k = i
    BY <1>1, <2>1 DEF OneWord, Adding, Writers
  <2> QED BY <2>2, <2>3
<1>2. (\A i \in u : ~ Adding(i, x)) => Adds(u, x) = 0
  BY DEF Adds
<1> QED BY <1>1, <1>2

LEMMA SameTotals ==
  ASSUME NEW U, NEW V, NEW x, NEW t, \A q \in PE : Adds(V[q], x) = Adds(U[q], x), Totals(U, x, t)
  PROVE  Totals(V, x, t)
BY DEF Totals

(* What no instruction under way writes has its value. *)
LEMMA Quiescent ==
  ASSUME NEW U, NEW L, NEW S, NEW m, NEW d, Underway(U, L, S, m, d), NEW x \in Everywhere,
         \A p \in PE : \A i \in U[p] : x \notin Writes(i)
  PROVE  /\ x[1] \in PE => Value(d, x) = Value(m, x)
         /\ x[1] \notin PE => Value(d, x) \in {Spoilt, Value(m, x)}
<1>1. Settles(U, m, d, x) /\ Value(m, x) \in Int
  BY DEF Underway, Settled, Calm, Numbers
<1>2. ASSUME x[1] \in PE
      PROVE  Value(d, x) = Value(m, x)
  <2>1. PICK t \in Int : Totals(U, x, t) /\ Value(d, x) = Value(m, x) + t
    BY <1>1, <1>2 DEF Settles
  <2>2. \A q \in PE : Adds(U[q], x) = 0
    BY DEF Adds, Adding
  <2>3. t = 0
    BY <2>1, <2>2, NothingAdded
  <2> QED BY <1>1, <2>1, <2>3
<1>3. x[1] \notin PE => Value(d, x) \in {Spoilt, Value(m, x)}
  BY <1>1 DEF Settles
<1> QED BY <1>2, <1>3

(* Fewer instructions, of which those done do not write x. *)
LEMMA Fewer ==
  ASSUME NEW U, NEW L, NEW S, NEW V, NEW M, NEW T, Structured(U, L, S), Parted(U),
         \A q \in PE : V[q] \subseteq U[q] /\ M[q] \subseteq L[q] /\ T[q] \subseteq S[q],
         \A q \in PE : /\ \A e \in M[q] : e[1] \in V[q]
                       /\ \A f \in T[q] : f[1] \in V[q]
  PROVE  Structured(V, M, T) /\ Parted(V)
<1>1. Structured(V, M, T)
  BY DEF Structured, Within, OneWord
<1>2. Parted(V)
  BY DEF Parted
<1> QED BY <1>1, <1>2

LEMMA SettlesStill ==
  ASSUME NEW U, NEW V, NEW m, NEW n, NEW d, Settled(U, m, d), NEW x \in Everywhere, Calm(V, x),
         \A q \in PE : V[q] \subseteq U[q] /\ OneWord(U[q]),
         \A q \in PE : \A i \in U[q] : x \in Writes(i) => i \in V[q],
         Value(n, x) = Value(m, x)
  PROVE  Settles(V, n, d, x)
<1>1. Calm(U, x)
  BY DEF Calm
<1>2. Settles(U, m, d, x)
  BY <1>1 DEF Settled
<1>3. ASSUME NEW q \in PE
      PROVE  Adds(V[q], x) = Adds(U[q], x)
  <2>1. OneWord(V[q])
    BY DEF OneWord
  <2>2. CASE \E i \in U[q] : Adding(i, x)
    <3>1. PICK i \in U[q] : Adding(i, x)
      BY <2>2
    <3>2. i \in V[q]
      BY <3>1 DEF Adding
    <3> QED BY <2>1, <3>1, <3>2, AddsIs
  <2>3. CASE \A i \in U[q] : ~ Adding(i, x)
    <3>1. \A i \in V[q] : ~ Adding(i, x)
      BY <2>3
    <3> QED BY <2>1, <2>3, <3>1, AddsIs
  <2> QED BY <2>2, <2>3
<1>4. \A t : Totals(U, x, t) => Totals(V, x, t)
  BY <1>3, SameTotals
<1> QED BY <1>2, <1>4 DEF Settles

(* Instructions that write nothing come to an end, or move to a queue. *)
LEMMA QuietStep ==
  ASSUME NEW U, NEW L, NEW S, NEW m, NEW d, Underway(U, L, S, m, d), NEW V, NEW M, NEW T,
         \A q \in PE : V[q] \subseteq U[q] /\ M[q] = L[q] /\ T[q] = S[q],
         \A q \in PE : \A i \in U[q] : i \in V[q] \/ (Writes(i) = {} /\ i.op \notin Copiers)
  PROVE  Underway(V, M, T, m, d)
<1>1. \A q \in PE : /\ \A e \in M[q] : e[1] \in V[q]
                    /\ \A f \in T[q] : f[1] \in V[q]
  BY DEF Underway, Structured, Copiers
<1>2. Structured(V, M, T) /\ Parted(V)
  BY <1>1, Fewer DEF Underway
<1>3. Owing(V, M, T, m, d)
  BY DEF Underway, Owing
<1>4. InTurn(M, T)
  BY DEF Underway, InTurn
<1>5. Settled(V, m, d)
  BY SettlesStill DEF Underway, Settled, Structured
<1> QED BY <1>2, <1>3, <1>4, <1>5 DEF Underway

LEMMA NumbersMoved ==
  ASSUME NEW m, Stocked(m), Numbers(m), NEW i, i.op \in Copiers, i.dst.mem \in Memories,
         Writes(i) \cup Reads(i) \subseteq Everywhere
  PROVE  Stocked(Moved(m, i)) /\ Numbers(Moved(m, i))
         /\ \A x \in Everywhere :
              Value(Moved(m, i), x) = IF x \in Writes(i) THEN Value(m, From(i, x)) ELSE Value(m, x)
<1> DEFINE n == Moved(m, i)
<1>1. /\ Stocked(n)
      /\ \A x \in Everywhere : Value(n, x) = IF x \in Touched(i) THEN Value(m, From(i, x)) ELSE Value(m, x)
  BY MovedCells
<1>2. Writes(i) = Touched(i) /\ \A x \in Writes(i) : From(i, x) \in Everywhere
  BY WritesOf, CopyReads
<1> HIDE DEF n
<1>3. Numbers(n)
  BY <1>1, <1>2 DEF Numbers
<1> QED BY <1>1, <1>2, <1>3 DEF n

(* The first load of a pipe is done, whatever the pipe out lags behind. *)
LoadGoes(U, L, S, V, M, T, p, e) ==
  /\ p \in PE /\ e \in L[p]
  /\ \A q \in PE : V[q] \subseteq U[q] /\ M[q] \subseteq L[q] /\ T[q] = S[q]
  /\ \A q \in PE : (\A g \in M[q] : g[1] \in V[q]) /\ (\A h \in T[q] : h[1] \in V[q])
  /\ \A q \in PE : \A i \in U[q] : i \in V[q] \/ (q = p /\ i = e[1])
  /\ \A q \in PE : \A g \in L[q] : g \in M[q] \/ (q = p /\ g = e)
  /\ \A g \in M[p] : g[2] <= e[2]
  /\ \A f \in S[p] : f[3] <= e[3]

LEMMA LoadStep ==
  ASSUME NEW U, NEW L, NEW S, NEW m, NEW d, Underway(U, L, S, m, d), NEW V, NEW M, NEW T,
         NEW p, NEW e, LoadGoes(U, L, S, V, M, T, p, e)
  PROVE  Underway(V, M, T, Moved(m, e[1]), d)
<1>0. /\ p \in PE /\ e \in L[p]
      /\ \A q \in PE : V[q] \subseteq U[q] /\ M[q] \subseteq L[q] /\ T[q] = S[q]
      /\ \A q \in PE : (\A g \in M[q] : g[1] \in V[q]) /\ (\A h \in T[q] : h[1] \in V[q])
      /\ \A q \in PE : \A i \in U[q] : i \in V[q] \/ (q = p /\ i = e[1])
      /\ \A q \in PE : \A g \in L[q] : g \in M[q] \/ (q = p /\ g = e)
      /\ \A g \in M[p] : g[2] <= e[2]
      /\ \A f \in S[p] : f[3] <= e[3]
  BY DEF LoadGoes
<1> USE <1>0
<1> DEFINE i == e[1]
           n == Moved(m, i)
<1>1. /\ Structured(U, L, S) /\ Parted(U) /\ Owing(U, L, S, m, d) /\ InTurn(L, S)
      /\ Stocked(m) /\ Stocked(d) /\ Numbers(m) /\ Settled(U, m, d)
  BY DEF Underway
<1>2. /\ i \in U[p] /\ i.op = "load" /\ i.op \in Copiers /\ e[2] \in Nat /\ e[3] \in Nat
      /\ i.dst.mem = UbOf(p) /\ i.src.mem \in PE /\ i.dst.mem \in Memories /\ i.dst.mem \notin PE
      /\ Writes(i) \cup Reads(i) \subseteq Everywhere
  <2>1. i \in U[p] /\ i.op = "load" /\ e[2] \in Nat /\ e[3] \in Nat
    BY <1>1 DEF Structured
  <2>2. Placed(p, i) /\ Within(U[p])
    BY <1>1, <2>1 DEF Structured
  <2> HIDE DEF i
  <2> QED BY <2>1, <2>2, Buffers DEF Placed, Within, Copiers
<1>3. Stocked(n) /\ Numbers(n)
      /\ \A x \in Everywhere : Value(n, x) = IF x \in Writes(i) THEN Value(m, From(i, x)) ELSE Value(m, x)
  <2> HIDE DEF i
  <2> QED BY <1>1, <1>2, NumbersMoved
<1> HIDE DEF n
<1>4. ASSUME NEW x \in Everywhere, x[1] # UbOf(p)
      PROVE  Value(n, x) = Value(m, x)
  <2> HIDE DEF i
  <2> QED BY <1>2, <1>3, <1>4, CopyReads
<1>5. Structured(V, M, T) /\ Parted(V)
  BY <1>1, Fewer
(* Loads and posts read heaps only. *)
<1>6. ASSUME NEW q \in PE, NEW j \in V[q]
      PROVE  Owes(j, n, d)
  <2>1. j \in U[q] /\ Owes(j, m, d) /\ Placed(q, j) /\ Within(U[q])
    BY <1>1, <1>6 DEF Structured, Owing
  <2>2. ASSUME j.op \in {"load", "post"}, NEW x \in Writes(j)
        PROVE  Value(n, From(j, x)) = Value(m, From(j, x))
    <3>1. From(j, x) \in Reads(j) /\ From(j, x)[1] \in PE
      BY <2>1, <2>2, CopyReads DEF Copiers, Placed
    <3> QED BY <1>4, <2>1, <3>1, Buffers DEF Within
  <2> QED BY <2>1, <2>2 DEF Owes
<1>7. ASSUME NEW q \in PE, NEW f \in T[q]
      PROVE  StoreOwes(f, M[q], n, d)
  <2>1. /\ f \in S[q] /\ StoreOwes(f, L[q], m, d) /\ f[1] \in U[q] /\ f[1].op = "store"
        /\ f[2] \in Nat /\ f[3] \in Nat /\ Placed(q, f[1]) /\ Within(U[q])
    BY <1>1, <1>7 DEF Structured, Owing
  <2> SUFFICES ASSUME NEW x \in Writes(f[1])
               PROVE  /\ \A g \in M[q] : Feeds(g, f, x) =>
                           Value(n, From(g[1], From(f[1], x))) = Value(d, x)
                      /\ (\A g \in M[q] : ~ Feeds(g, f, x)) => Value(n, From(f[1], x)) = Value(d, x)
    BY DEF StoreOwes
  <2> DEFINE y == From(f[1], x)
  <2>2. y \in Reads(f[1]) /\ y[1] = UbOf(q) /\ y \in Everywhere
    <3>1. y \in Reads(f[1]) /\ y[1] = f[1].src.mem
      BY <2>1, CopyReads DEF Copiers
    <3> QED BY <2>1, <3>1 DEF Placed, Within
  <2>3. /\ \A g \in L[q] : Feeds(g, f, x) => Value(m, From(g[1], y)) = Value(d, x)
        /\ (\A g \in L[q] : ~ Feeds(g, f, x)) => Value(m, y) = Value(d, x)
    BY <2>1 DEF StoreOwes
  <2> HIDE DEF y
  <2>4. ASSUME NEW g \in M[q], Feeds(g, f, x)
        PROVE  Value(n, From(g[1], y)) = Value(d, x)
    <3>1. g \in L[q] /\ g[1] \in U[q] /\ g[1].op = "load" /\ Placed(q, g[1]) /\ Within(U[q])
      BY <1>1 DEF Structured
    <3>2. y \in Writes(g[1])
      BY <2>4 DEF Feeds, y
    <3>3. From(g[1], y) \in Reads(g[1]) /\ From(g[1], y)[1] \in PE
      BY <3>1, <3>2, CopyReads DEF Copiers, Placed
    <3>4. Value(n, From(g[1], y)) = Value(m, From(g[1], y))
      BY <1>4, <3>1, <3>3, Buffers DEF Within
    <3> QED BY <2>3, <2>4, <3>1, <3>4
  <2>5. ASSUME \A g \in M[q] : ~ Feeds(g, f, x)
        PROVE  Value(n, y) = Value(d, x)
    <3>1. CASE q # p
      <4>1. \A g \in L[q] : ~ Feeds(g, f, x)
        BY <2>5, <3>1
      <4>2. y[1] # UbOf(p)
        BY <2>2, <3>1, Buffers
      <4> QED BY <1>4, <2>2, <2>3, <4>1, <4>2
    <3>2. CASE q = p /\ Feeds(e, f, x)
      <4>1. y \in Writes(i)
        BY <3>2 DEF Feeds, y
      <4>2. Value(m, From(i, y)) = Value(d, x)
        BY <2>3, <3>2
      <4> HIDE DEF i
      <4> QED BY <1>3, <2>2, <4>1, <4>2
    <3>3. CASE q = p /\ ~ Feeds(e, f, x)
      <4>1. \A g \in L[q] : ~ Feeds(g, f, x)
        BY <2>5, <3>3
      <4>2. y \notin Writes(i)
        <5> SUFFICES ASSUME y \in Writes(i) PROVE FALSE
          OBVIOUS
        <5>1. Clash(e, f, L[p]) /\ f[3] <= e[3]
          BY <1>1, <2>1, <3>3 DEF InTurn
        <5>2. ~ (e[2] <= f[2]) /\ ~ (f[2] + 1 < e[2])
          BY <1>2, <2>1, <3>3, <4>1, <5>1 DEF Clash, y
        <5>3. e[2] = f[2] + 1
          BY <1>2, <2>1, <5>2
        <5> QED BY <3>3, <5>3 DEF Feeds, y
      <4> HIDE DEF i
      <4> QED BY <1>3, <2>2, <2>3, <4>1, <4>2
    <3> QED BY <3>1, <3>2, <3>3
  <2> QED BY <2>4, <2>5 DEF y
<1>8. InTurn(M, T)
  <2> SUFFICES ASSUME NEW q \in PE, NEW g \in M[q], NEW f \in T[q], NEW x \in Writes(f[1]),
                      From(f[1], x) \in Writes(g[1])
               PROVE  /\ g[2] <= f[2] => g[3] < f[3]
                      /\ f[2] + 1 < g[2] => \E h \in M[q] : Feeds(h, f, x)
    BY DEF InTurn, Clash
  <2>1. Clash(g, f, L[q]) /\ g[2] \in Nat /\ f[2] \in Nat /\ g \in L[q] /\ f \in S[q]
    BY <1>1 DEF InTurn, Structured
  <2>2. g[2] <= f[2] => g[3] < f[3]
    BY <2>1 DEF Clash
  <2>3. ASSUME f[2] + 1 < g[2]
        PROVE  \E h \in M[q] : Feeds(h, f, x)
    <3>1. PICK h \in L[q] : Feeds(h, f, x)
      BY <2>1, <2>3 DEF Clash
    <3>2. ~ (q = p /\ h = e)
      <4> SUFFICES ASSUME q = p, h = e PROVE FALSE
        OBVIOUS
      <4>1. e[2] = f[2] + 1 /\ g[2] <= e[2]
        BY <3>1 DEF Feeds
      <4> QED BY <1>2, <2>1, <2>3, <4>1
    <3> QED BY <3>1, <3>2
  <2> QED BY <2>2, <2>3
<1>9. Settled(V, n, d)
  <2> SUFFICES ASSUME NEW x \in Everywhere, Calm(V, x) PROVE Settles(V, n, d, x)
    BY DEF Settled
  <2>1. CASE x \in Writes(i)
    <3>1. x[1] \notin PE
      <4> HIDE DEF i
      <4> QED BY <1>2, <2>1, CopyReads
    <3>2. Owes(i, m, d)
      BY <1>1, <1>2 DEF Owing
    <3> HIDE DEF i
    <3> QED BY <1>2, <1>3, <2>1, <3>1, <3>2 DEF Owes, Settles
  <2>2. CASE x \notin Writes(i)
    <3>1. Value(n, x) = Value(m, x)
      BY <1>3, <2>2
    <3>2. \A q \in PE : OneWord(U[q])
      BY <1>1 DEF Structured
    <3>3. \A q \in PE : \A j \in U[q] : x \in Writes(j) => j \in V[q]
      BY <2>2
    <3> QED BY <1>1, <3>1, <3>2, <3>3, SettlesStill
  <2> QED BY <2>1, <2>2
<1>10. Owing(V, M, T, n, d)
  BY <1>6, <1>7 DEF Owing
<1> QED BY <1>1, <1>3, <1>5, <1>8, <1>9, <1>10 DEF Underway, n

(* What is written to a heap is not what anything else reads. *)
LEMMA HeapWrite ==
  ASSUME NEW U, NEW L, NEW S, NEW m, NEW d, Underway(U, L, S, m, d), NEW n, NEW p \in PE,
         NEW i \in U[p], \A x \in Writes(i) : x[1] \in PE,
         \A x \in Everywhere : x \notin Writes(i) => Value(n, x) = Value(m, x)
  PROVE  \A q \in PE : /\ \A j \in U[q] : Owes(j, n, d)
                       /\ \A f \in S[q] : StoreOwes(f, L[q], n, d)
<1>1. Structured(U, L, S) /\ Parted(U) /\ Owing(U, L, S, m, d)
  BY DEF Underway
<1>2. ASSUME NEW q \in PE, NEW j \in U[q], NEW y \in Reads(j), y[1] \in PE
      PROVE  Value(n, y) = Value(m, y)
  <2>1. y \in Everywhere
    BY <1>1 DEF Structured, Within
  <2>2. y \notin Writes(i)
    BY <1>1, <1>2 DEF Parted
  <2> QED BY <2>1, <2>2
<1>3. ASSUME NEW q \in PE, NEW j \in U[q]
      PROVE  Owes(j, n, d)
  <2>1. Owes(j, m, d) /\ Placed(q, j)
    BY <1>1 DEF Structured, Owing
  <2>2. ASSUME j.op \in {"load", "post"}, NEW x \in Writes(j)
        PROVE  Value(n, From(j, x)) = Value(m, From(j, x))
    <3>1. From(j, x) \in Reads(j) /\ From(j, x)[1] \in PE
      BY <2>1, <2>2, CopyReads DEF Copiers, Placed
    <3> QED BY <1>2, <3>1
  <2> QED BY <2>1, <2>2 DEF Owes
<1>4. ASSUME NEW q \in PE, NEW f \in S[q]
      PROVE  StoreOwes(f, L[q], n, d)
  <2>1. /\ StoreOwes(f, L[q], m, d) /\ f[1] \in U[q] /\ f[1].op = "store"
        /\ Placed(q, f[1]) /\ Within(U[q])
    BY <1>1 DEF Structured, Owing
  <2> SUFFICES ASSUME NEW x \in Writes(f[1])
               PROVE  /\ \A g \in L[q] : Feeds(g, f, x) =>
                           Value(n, From(g[1], From(f[1], x))) = Value(d, x)
                      /\ (\A g \in L[q] : ~ Feeds(g, f, x)) => Value(n, From(f[1], x)) = Value(d, x)
    BY DEF StoreOwes
  <2> DEFINE y == From(f[1], x)
  <2>2. y[1] = UbOf(q) /\ y \in Everywhere
    <3>1. y \in Reads(f[1]) /\ y[1] = f[1].src.mem
      BY <2>1, CopyReads DEF Copiers
    <3> QED BY <2>1, <3>1 DEF Placed, Within
  <2>3. /\ \A g \in L[q] : Feeds(g, f, x) => Value(m, From(g[1], y)) = Value(d, x)
        /\ (\A g \in L[q] : ~ Feeds(g, f, x)) => Value(m, y) = Value(d, x)
    BY <2>1 DEF StoreOwes
  <2> HIDE DEF y
  <2>4. ASSUME NEW g \in L[q], Feeds(g, f, x)
        PROVE  Value(n, From(g[1], y)) = Value(d, x)
    <3>1. g[1] \in U[q] /\ g[1].op = "load" /\ Placed(q, g[1])
      BY <1>1 DEF Structured
    <3>2. y \in Writes(g[1])
      BY <2>4 DEF Feeds, y
    <3>3. From(g[1], y) \in Reads(g[1]) /\ From(g[1], y)[1] \in PE
      BY <3>1, <3>2, CopyReads DEF Copiers, Placed
    <3>4. Value(n, From(g[1], y)) = Value(m, From(g[1], y))
      BY <1>2, <3>1, <3>3
    <3> QED BY <2>3, <2>4, <3>4
  <2>5. Value(n, y) = Value(m, y)
    <3>1. y \notin Writes(i)
      BY <2>2, Buffers
    <3> QED BY <2>2, <3>1
  <2> QED BY <2>3, <2>4, <2>5 DEF y
<1> QED BY <1>3, <1>4

(* A store, a request or a set word lands in a heap. *)
LEMMA LandStep ==
  ASSUME NEW U, NEW L, NEW S, NEW m, NEW d, Underway(U, L, S, m, d), NEW V, NEW M, NEW T, NEW n,
         NEW p \in PE, NEW i \in U[p], i.op \in {"store", "post", "set_word"},
         \A q \in PE : V[q] \subseteq U[q] /\ M[q] = L[q] /\ T[q] \subseteq S[q],
         \A q \in PE : /\ \A g \in M[q] : g[1] \in V[q]
                       /\ \A f \in T[q] : f[1] \in V[q],
         \A q \in PE : \A j \in U[q] : j \in V[q] \/ (q = p /\ j = i),
         Stocked(n), Numbers(n),
         \A x \in Everywhere : Value(n, x) = IF x \in Writes(i) THEN Value(d, x) ELSE Value(m, x)
  PROVE  Underway(V, M, T, n, d)
<1>1. /\ Structured(U, L, S) /\ Parted(U) /\ Owing(U, L, S, m, d) /\ InTurn(L, S)
      /\ Stocked(m) /\ Stocked(d) /\ Numbers(m) /\ Settled(U, m, d)
  BY DEF Underway
<1>2. Placed(p, i) /\ Writes(i) \subseteq Everywhere
  BY <1>1 DEF Structured, Within
<1>3. \A x \in Writes(i) : x[1] \in PE
  <2>1. CASE i.op \in Copiers
    BY <1>2, <2>1, CopyReads DEF Placed, Copiers
  <2>2. CASE i.op \in Writers
    BY <1>2, <2>2, WritesOf DEF Placed
  <2> QED BY <2>1, <2>2 DEF Copiers, Writers
<1>4. \A q \in PE : /\ \A j \in U[q] : Owes(j, n, d)
                    /\ \A f \in S[q] : StoreOwes(f, L[q], n, d)
  <2>1. \A x \in Everywhere : x \notin Writes(i) => Value(n, x) = Value(m, x)
    OBVIOUS
  <2>2. i \in U[p] /\ p \in PE /\ Underway(U, L, S, m, d)
    OBVIOUS
  <2> QED BY ONLY <1>3, <2>1, <2>2, HeapWrite
<1>5. Owing(V, M, T, n, d)
  BY <1>4 DEF Owing
<1>6. InTurn(M, T)
  BY <1>1 DEF InTurn
<1>7. Structured(V, M, T) /\ Parted(V)
  <2>1. \A q \in PE : V[q] \subseteq U[q] /\ M[q] \subseteq L[q] /\ T[q] \subseteq S[q]
    OBVIOUS
  <2> QED BY <1>1, <2>1, Fewer
<1>8. Settled(V, n, d)
  <2> SUFFICES ASSUME NEW x \in Everywhere, Calm(V, x) PROVE Settles(V, n, d, x)
    BY DEF Settled
  <2>1. CASE x \in Writes(i)
    <3>1. ASSUME NEW q \in PE, NEW j \in U[q], Adding(j, x)
          PROVE  FALSE
      <4>1. j.op = "add_word" /\ x \in Writes(j) /\ j.op \in Writers
        BY <3>1 DEF Adding, Writers
      <4>2. (j.op = "add_word" /\ i.op = "add_word") \/ j = i
        BY <1>1, <2>1, <4>1 DEF Parted
      <4> QED BY <4>1, <4>2
    <3>2. \A q \in PE : Adds(V[q], x) = 0
      BY <3>1 DEF Adds
    <3>3. Totals(V, x, 0)
      BY <3>2, NothingAdded
    <3>4. Value(n, x) = Value(d, x) /\ Value(n, x) \in Int
      BY <2>1 DEF Numbers
    <3>5. Value(d, x) = Value(n, x) + 0
      BY <3>4
    <3> QED BY <1>3, <2>1, <3>3, <3>5 DEF Settles
  <2>2. CASE x \notin Writes(i)
    <3>1. Value(n, x) = Value(m, x)
      BY <2>2
    <3>2. \A q \in PE : OneWord(U[q])
      BY <1>1 DEF Structured
    <3>3. \A q \in PE : \A j \in U[q] : x \in Writes(j) => j \in V[q]
      BY <2>2
    <3> QED BY <1>1, <3>1, <3>2, <3>3, SettlesStill
  <2> QED BY <2>1, <2>2
<1> QED BY <1>1, <1>5, <1>6, <1>7, <1>8 DEF Underway

(* The first store of a pipe is done, when none that feeds it is left. *)
StoreGoes(U, L, S, V, M, T, p, f) ==
  /\ p \in PE /\ f \in S[p]
  /\ \A q \in PE : V[q] \subseteq U[q] /\ M[q] = L[q] /\ T[q] \subseteq S[q]
  /\ \A q \in PE : (\A g \in M[q] : g[1] \in V[q]) /\ (\A h \in T[q] : h[1] \in V[q])
  /\ \A q \in PE : \A j \in U[q] : j \in V[q] \/ (q = p /\ j = f[1])
  /\ \A g \in L[p] : g[2] <= f[2]

LEMMA StoreStep ==
  ASSUME NEW U, NEW L, NEW S, NEW m, NEW d, Underway(U, L, S, m, d), NEW V, NEW M, NEW T,
         NEW p, NEW f, StoreGoes(U, L, S, V, M, T, p, f)
  PROVE  Underway(V, M, T, Moved(m, f[1]), d)
<1>0. /\ p \in PE /\ f \in S[p]
      /\ \A q \in PE : V[q] \subseteq U[q] /\ M[q] = L[q] /\ T[q] \subseteq S[q]
      /\ \A q \in PE : (\A g \in M[q] : g[1] \in V[q]) /\ (\A h \in T[q] : h[1] \in V[q])
      /\ \A q \in PE : \A j \in U[q] : j \in V[q] \/ (q = p /\ j = f[1])
      /\ \A g \in L[p] : g[2] <= f[2]
  BY DEF StoreGoes
<1> USE <1>0
<1> DEFINE i == f[1]
           n == Moved(m, i)
<1>1. /\ Structured(U, L, S) /\ Owing(U, L, S, m, d) /\ Stocked(m) /\ Numbers(m)
  BY DEF Underway
<1>2. /\ i \in U[p] /\ i.op = "store" /\ i.op \in Copiers /\ f[2] \in Nat
      /\ i.dst.mem \in Memories /\ Writes(i) \cup Reads(i) \subseteq Everywhere
  <2>1. i \in U[p] /\ i.op = "store" /\ f[2] \in Nat
    BY <1>1 DEF Structured
  <2>2. Placed(p, i) /\ Within(U[p])
    BY <1>1, <2>1 DEF Structured
  <2> HIDE DEF i
  <2> QED BY <2>1, <2>2, Buffers DEF Placed, Within, Copiers
<1>3. Stocked(n) /\ Numbers(n)
      /\ \A x \in Everywhere : Value(n, x) = IF x \in Writes(i) THEN Value(m, From(i, x)) ELSE Value(m, x)
  <2> HIDE DEF i
  <2> QED BY <1>1, <1>2, NumbersMoved
<1> HIDE DEF n
<1>4. ASSUME NEW x \in Writes(i)
      PROVE  Value(m, From(i, x)) = Value(d, x)
  <2>1. StoreOwes(f, L[p], m, d)
    BY <1>1 DEF Owing
  <2>2. ASSUME NEW g \in L[p], Feeds(g, f, x)
        PROVE  FALSE
    <3>1. g[2] \in Nat /\ g[2] = f[2] + 1 /\ g[2] <= f[2]
      BY <1>1, <2>2 DEF Structured, Feeds
    <3> QED BY <1>2, <3>1
  <2> QED BY <2>1, <2>2 DEF StoreOwes
<1>5. \A x \in Everywhere : Value(n, x) = IF x \in Writes(i) THEN Value(d, x) ELSE Value(m, x)
  BY <1>3, <1>4
<1>6. \A q \in PE : \A j \in U[q] : j \in V[q] \/ (q = p /\ j = i)
  OBVIOUS
<1>7. i.op \in {"store", "post", "set_word"}
  BY <1>2
<1> HIDE DEF i
<1>8. Underway(V, M, T, n, d)
  BY <1>2, <1>3, <1>5, <1>6, <1>7, LandStep
<1> QED BY <1>8 DEF n, i

(* A request of the network device is done. *)
OneGoes(U, L, S, V, M, T, p, i) ==
  /\ p \in PE /\ i \in U[p]
  /\ \A q \in PE : V[q] \subseteq U[q] /\ M[q] = L[q] /\ T[q] = S[q]
  /\ \A q \in PE : (\A g \in M[q] : g[1] \in V[q]) /\ (\A h \in T[q] : h[1] \in V[q])
  /\ \A q \in PE : \A j \in U[q] : j \in V[q] \/ (q = p /\ j = i)

LEMMA PostStep ==
  ASSUME NEW U, NEW L, NEW S, NEW m, NEW d, Underway(U, L, S, m, d), NEW V, NEW M, NEW T,
         NEW p, NEW i, i.op = "post", OneGoes(U, L, S, V, M, T, p, i)
  PROVE  Underway(V, M, T, Moved(m, i), d)
<1>0. /\ p \in PE /\ i \in U[p]
      /\ \A q \in PE : V[q] \subseteq U[q] /\ M[q] = L[q] /\ T[q] = S[q]
      /\ \A q \in PE : (\A g \in M[q] : g[1] \in V[q]) /\ (\A h \in T[q] : h[1] \in V[q])
      /\ \A q \in PE : \A j \in U[q] : j \in V[q] \/ (q = p /\ j = i)
  BY DEF OneGoes
<1> USE <1>0
<1> DEFINE n == Moved(m, i)
<1>1. /\ Structured(U, L, S) /\ Owing(U, L, S, m, d) /\ Stocked(m) /\ Numbers(m)
  BY DEF Underway
<1>2. /\ i.op \in Copiers /\ i.dst.mem \in Memories /\ Writes(i) \cup Reads(i) \subseteq Everywhere
  <2>1. Placed(p, i) /\ Within(U[p])
    BY <1>1 DEF Structured
  <2> QED BY <2>1, Buffers DEF Placed, Within, Copiers
<1>3. Stocked(n) /\ Numbers(n)
      /\ \A x \in Everywhere : Value(n, x) = IF x \in Writes(i) THEN Value(m, From(i, x)) ELSE Value(m, x)
  BY <1>1, <1>2, NumbersMoved
<1> HIDE DEF n
<1>4. \A x \in Writes(i) : Value(m, From(i, x)) = Value(d, x)
  BY <1>1 DEF Owing, Owes
<1>5. \A x \in Everywhere : Value(n, x) = IF x \in Writes(i) THEN Value(d, x) ELSE Value(m, x)
  BY <1>3, <1>4
<1>6. \A q \in PE : T[q] \subseteq S[q]
  OBVIOUS
<1>7. Underway(V, M, T, n, d)
  BY <1>3, <1>5, <1>6, LandStep
<1> QED BY <1>7 DEF n

(* The word of a call is written. *)
WordGoes(U, L, S, V, M, T, p, i) ==
  /\ OneGoes(U, L, S, V, M, T, p, i)
  /\ \A j \in V[p] : j.op \notin Writers

LEMMA WordStep ==
  ASSUME NEW U, NEW L, NEW S, NEW m, NEW d, Underway(U, L, S, m, d), NEW V, NEW M, NEW T,
         NEW p, NEW i, i.op \in Writers, WordGoes(U, L, S, V, M, T, p, i)
  PROVE  Underway(V, M, T, Written(m, i.op, i.dst, i.val), d)
<1>0. /\ p \in PE /\ i \in U[p]
      /\ \A q \in PE : V[q] \subseteq U[q] /\ M[q] = L[q] /\ T[q] = S[q]
      /\ \A q \in PE : (\A g \in M[q] : g[1] \in V[q]) /\ (\A h \in T[q] : h[1] \in V[q])
      /\ \A q \in PE : \A j \in U[q] : j \in V[q] \/ (q = p /\ j = i)
      /\ \A j \in V[p] : j.op \notin Writers
  BY DEF WordGoes, OneGoes
<1> USE <1>0
<1> DEFINE n == Written(m, i.op, i.dst, i.val)
           y == <<i.dst.mem, i.dst.at>>
<1>1. /\ Structured(U, L, S) /\ Parted(U) /\ Owing(U, L, S, m, d) /\ InTurn(L, S)
      /\ Stocked(m) /\ Stocked(d) /\ Numbers(m) /\ Settled(U, m, d)
  BY DEF Underway
<1>2. /\ Writes(i) = {y} /\ y \in Everywhere /\ i.dst.mem \in PE /\ i.val \in Int
      /\ y[1] = i.dst.mem
  <2>1. Placed(p, i) /\ Within(U[p])
    BY <1>1 DEF Structured
  <2> QED BY <2>1, WritesOf DEF Placed, Within
<1>3. /\ Stocked(n)
      /\ \A x \in Everywhere :
           Value(n, x) = IF x = y THEN IF i.op = "set_word" THEN i.val ELSE Value(m, x) + i.val
                         ELSE Value(m, x)
  <2>1. <<i.dst.mem, i.dst.at>> \in Everywhere
    BY <1>2
  <2> QED BY <1>1, <2>1, WrittenCells
<1>4. Numbers(n)
  BY <1>1, <1>2, <1>3 DEF Numbers
<1> HIDE DEF n, y
<1>5. CASE i.op = "set_word"
  <2>1. Value(d, y) = i.val
    BY <1>1, <1>2, <1>5 DEF Owing, Owes
  <2>2. \A x \in Everywhere : Value(n, x) = IF x \in Writes(i) THEN Value(d, x) ELSE Value(m, x)
    BY <1>2, <1>3, <1>5, <2>1
  <2>3. \A q \in PE : T[q] \subseteq S[q]
    OBVIOUS
  <2>4. Underway(V, M, T, n, d)
    BY <1>3, <1>4, <1>5, <2>2, <2>3, LandStep
  <2> QED BY <2>4 DEF n
<1>6. CASE i.op = "add_word"
  <2>1. \A x \in Everywhere : x \notin Writes(i) => Value(n, x) = Value(m, x)
    BY <1>2, <1>3
  <2>2. \A q \in PE : /\ \A j \in U[q] : Owes(j, n, d)
                      /\ \A f \in S[q] : StoreOwes(f, L[q], n, d)
    <3>1. \A x \in Writes(i) : x[1] \in PE
      BY <1>2
    <3>2. i \in U[p] /\ p \in PE /\ Underway(U, L, S, m, d)
      OBVIOUS
    <3> QED BY ONLY <2>1, <3>1, <3>2, HeapWrite
  <2>3. Owing(V, M, T, n, d)
    BY <2>2 DEF Owing
  <2>4. InTurn(M, T)
    BY <1>1 DEF InTurn
  <2>5. Structured(V, M, T) /\ Parted(V)
    <3>1. \A q \in PE : V[q] \subseteq U[q] /\ M[q] \subseteq L[q] /\ T[q] \subseteq S[q]
      OBVIOUS
    <3>2. \A q \in PE : /\ \A e \in M[q] : e[1] \in V[q]
                        /\ \A f \in T[q] : f[1] \in V[q]
      OBVIOUS
    <3> QED BY ONLY <1>1, <3>1, <3>2, Fewer
  <2>6. Settled(V, n, d)
    <3> SUFFICES ASSUME NEW x \in Everywhere, Calm(V, x) PROVE Settles(V, n, d, x)
      BY DEF Settled
    <3>1. CASE x = y
      <4>1. Calm(U, x)
        BY <1>6 DEF Calm
      <4>2. PICK t \in Int : Totals(U, x, t) /\ Value(d, x) = Value(m, x) + t
        BY <1>1, <1>2, <3>1, <4>1 DEF Settled, Settles
      <4>3. \A q \in PE : OneWord(U[q])
        BY <1>1 DEF Structured
      <4>4. ASSUME NEW q \in PE
            PROVE  Adds(U[q], x) \in Int
        <5>1. CASE \E j \in U[q] : Adding(j, x)
          <6>1. PICK j \in U[q] : Adding(j, x)
            BY <5>1
          <6>2. Adds(U[q], x) = j.val /\ Placed(q, j)
            BY <1>1, <4>3, <6>1, AddsIs DEF Structured
          <6> QED BY <6>1, <6>2 DEF Placed, Adding, Writers
        <5>2. CASE \A j \in U[q] : ~ Adding(j, x)
          BY <4>3, <5>2, AddsIs
        <5> QED BY <5>1, <5>2
      <4>5. ASSUME NEW q \in PE \ {p}
            PROVE  Adds(V[q], x) = Adds(U[q], x)
        <5>1. V[q] = U[q]
          OBVIOUS
        <5> QED BY <5>1
      <4>6. Adds(U[p], x) = i.val /\ Adds(V[p], x) = 0
        <5>1. Adding(i, x)
          BY <1>2, <1>6, <3>1 DEF Adding
        <5>2. \A j \in V[p] : ~ Adding(j, x)
          BY DEF Adding, Writers
        <5>3. OneWord(V[p])
          BY <4>3 DEF OneWord
        <5> QED BY <4>3, <5>1, <5>2, <5>3, AddsIs
      <4>7. - i.val \in Int /\ Adds(V[p], x) = Adds(U[p], x) + - i.val
        BY <1>2, <4>6
      <4>8. Totals(V, x, t + - i.val)
        BY <4>2, <4>4, <4>5, <4>7, MoreAdded
      <4>9. Value(m, x) \in Int
        BY <1>1 DEF Numbers
      <4>10. Value(n, x) = Value(m, x) + i.val
        BY <1>3, <1>6, <3>1
      <4>11. t + - i.val \in Int /\ Value(d, x) = Value(n, x) + (t + - i.val)
        BY <1>2, <4>2, <4>9, <4>10
      <4> QED BY <1>2, <3>1, <4>8, <4>11 DEF Settles
    <3>2. CASE x # y
      <4>1. Value(n, x) = Value(m, x) /\ x \notin Writes(i)
        BY <1>2, <1>3, <3>2
      <4>2. \A q \in PE : OneWord(U[q])
        BY <1>1 DEF Structured
      <4>3. \A q \in PE : \A j \in U[q] : x \in Writes(j) => j \in V[q]
        BY <4>1
      <4> QED BY <1>1, <4>1, <4>2, <4>3, SettlesStill
    <3> QED BY <3>1, <3>2
  <2>7. Underway(V, M, T, n, d)
    BY <1>1, <1>3, <1>4, <2>3, <2>4, <2>5, <2>6 DEF Underway
  <2> QED BY <2>7 DEF n
<1> QED BY <1>5, <1>6 DEF Writers

-----------------------------------------------------------------------------
(* A call begins.                                                          *)

LEMMA GoesAtOnce ==
  ASSUME NEW p \in PE, NEW c, NEW s, Does(p, c, s), NEW i \in Range(s), i.op \in Copiers,
         i.op = "post" \/ ~ Staged(c)
  PROVE  /\ \A x \in Writes(i) : From(CopyOf(p, c), x) = From(i, x)
         /\ \A j \in Range(s) : j.op \in Copiers => j = i
         /\ i.op = "store" => c.api \in Storing
<1>1. Carried(p, c, s) /\ Copies(c)
  BY CarriedCells DEF Does
<1>2. AtOneGo(c, CopyOf(p, c), s)
  BY <1>1 DEF Carried
<1>3. /\ Likewise(i, CopyOf(p, c)) /\ \A j \in Range(s) : j.op \in Copiers => j = i
      /\ Staged(c) => i.op = "post"
      /\ c.api \in Loading => i.op = "load"
  BY <1>2 DEF AtOneGo
<1>4. Writes(i) = Touched(CopyOf(p, c))
  BY <1>3, WritesOf DEF Likewise
<1>5. i.op = "store" => c.api \in Storing
  BY <1>1, <1>3 DEF Copies, Staged
<1> QED BY <1>3, <1>4, <1>5 DEF Likewise

LEMMA GoesThrough ==
  ASSUME NEW p \in PE, NEW c, NEW s, Does(p, c, s), Staged(c), NEW i \in Range(s), i.op = "store"
  PROVE  Relays(LoadsIn(s), StoresIn(s), CopyOf(p, c))
<1>1. Carried(p, c, s) /\ Copies(c) /\ i.op \in Copiers
  BY CarriedCells DEF Does, Copiers
<1>2. ~ AtOneGo(c, CopyOf(p, c), s)
  BY <1>1 DEF AtOneGo
<1> QED BY <1>1, <1>2 DEF Carried

LEMMA NewEntries ==
  ASSUME NEW s, Proper(s)
  PROVE  /\ \A e \in LoadsIn(s) : /\ e[1] \in Range(s) /\ e[1].op = "load"
                                  /\ e[2] \in Nat /\ e[3] \in Nat
         /\ \A f \in StoresIn(s) : /\ f[1] \in Range(s) /\ f[1].op = "store"
                                   /\ f[2] \in Nat /\ f[3] \in Nat
BY EntryIs DEF LoadsIn, StoresIn, Proper

(* What a call is about to do does not meet what is under way. *)
LEMMA Unmet ==
  ASSUME NEW i, NEW j, ~ Meets(i, j)
  PROVE  /\ \A x \in Writes(i) : x \notin Reads(j)
         /\ \A x \in Reads(i) : x \notin Writes(j)
         /\ \A x \in Writes(i) : x \in Writes(j) => i.op = "add_word" /\ j.op = "add_word"
BY DEF Meets

(* Nothing under way changes in what it owes. *)
LEMMA OldOwes ==
  ASSUME NEW U, NEW L, NEW S, NEW m, NEW d, Underway(U, L, S, m, d), NEW p \in PE, NEW c, NEW s,
         NEW r, Result(d, r, p, c, s), \A i \in Range(s), q \in PE : \A j \in U[q] : ~ Meets(i, j)
  PROVE  /\ \A q \in PE : \A j \in U[q] : \A x \in Writes(j) :
              j.op # "add_word" => Value(r, x) = Value(d, x)
         /\ \A q \in PE : /\ \A j \in U[q] : Owes(j, m, r)
                          /\ \A f \in S[q] : StoreOwes(f, L[q], m, r)
<1>1. Structured(U, L, S) /\ Owing(U, L, S, m, d)
  BY DEF Underway
<1>2. ASSUME NEW q \in PE, NEW j \in U[q], NEW x \in Writes(j), j.op # "add_word"
      PROVE  Value(r, x) = Value(d, x)
  <2>1. \A i \in Range(s) : x \notin Writes(i)
    BY <1>2, Unmet
  <2>2. x \in Everywhere
    BY <1>1 DEF Structured, Within
  <2> QED BY <2>1, <2>2 DEF Result
<1>3. ASSUME NEW q \in PE, NEW j \in U[q]
      PROVE  Owes(j, m, r)
  BY <1>1, <1>2 DEF Owing, Owes
<1>4. ASSUME NEW q \in PE, NEW f \in S[q]
      PROVE  StoreOwes(f, L[q], m, r)
  <2>1. f[1] \in U[q] /\ f[1].op # "add_word" /\ StoreOwes(f, L[q], m, d)
    BY <1>1 DEF Structured, Owing
  <2> QED BY <1>2, <2>1 DEF StoreOwes
<1> QED BY <1>2, <1>3, <1>4

(* What a call is about to do owes what it is for. *)
LEMMA NewOwes ==
  ASSUME NEW U, NEW L, NEW S, NEW m, NEW d, Underway(U, L, S, m, d), NEW p \in PE, NEW c, NEW s,
         Does(p, c, s), Within(Range(s)), NEW r, Result(d, r, p, c, s),
         \A i \in Range(s), q \in PE : \A j \in U[q] : ~ Meets(i, j),
         NEW i \in Range(s)
  PROVE  Owes(i, m, r)
<1> SUFFICES ASSUME NEW x \in Writes(i)
             PROVE  /\ i.op = "load" => Value(r, x) = Spoilt \/ Value(m, From(i, x)) = Value(r, x)
                    /\ i.op = "post" => Value(m, From(i, x)) = Value(r, x)
                    /\ i.op = "set_word" => Value(r, x) = i.val
  BY DEF Owes
<1>1. i.op = "set_word" => Value(r, x) = i.val
  BY DEF Result
<1>2. ASSUME i.op \in {"load", "post"}, i.op = "post" \/ ~ Staged(c)
      PROVE  Value(m, From(i, x)) = Value(r, x)
  <2>1. i.op \in Copiers /\ ~ (i.op = "load" /\ Staged(c))
    BY <1>2 DEF Copiers
  <2>2. From(CopyOf(p, c), x) = From(i, x)
    BY <1>2, <2>1, GoesAtOnce
  <2>3. Value(r, x) = Value(d, From(i, x))
    BY <2>1, <2>2 DEF Result
  <2>4. From(i, x) \in Reads(i) /\ From(i, x)[1] = i.src.mem
    BY <2>1, CopyReads
  <2>5. From(i, x) \in Everywhere /\ From(i, x)[1] \in PE
    BY <1>2, <2>4 DEF Within, Does, Placed
  <2>6. \A q \in PE : \A j \in U[q] : From(i, x) \notin Writes(j)
    BY <2>4, Unmet
  <2>7. Value(d, From(i, x)) = Value(m, From(i, x))
    BY <2>5, <2>6, Quiescent
  <2> QED BY <2>3, <2>7
<1>3. i.op = "load" /\ Staged(c) => Value(r, x) = Spoilt
  BY DEF Result
<1> QED BY <1>1, <1>2, <1>3

LEMMA NewStoreOwes ==
  ASSUME NEW U, NEW L, NEW S, NEW m, NEW d, Underway(U, L, S, m, d), NEW p \in PE, NEW c, NEW s,
         Does(p, c, s), Within(Range(s)), NEW r, Result(d, r, p, c, s),
         \A i \in Range(s), q \in PE : \A j \in U[q] : ~ Meets(i, j),
         \A i \in Range(s) : i.op = "store" /\ c.api \in Storing =>
           \A x \in Reads(i) : Value(d, x) # Spoilt,
         NEW l, \A g \in l : g \in LoadsIn(s) \/ g[1] \in U[p], LoadsIn(s) \subseteq l,
         NEW f \in StoresIn(s)
  PROVE  StoreOwes(f, l, m, r)
<1> DEFINE i == f[1]
<1>1. Proper(s) /\ \A j \in Range(s) : Placed(p, j)
  BY DEF Does
<1>2. /\ i \in Range(s) /\ i.op = "store" /\ i.op \in Copiers
      /\ \A e \in LoadsIn(s) : e[1] \in Range(s) /\ e[1].op = "load"
  BY <1>1, NewEntries DEF Copiers
<1> SUFFICES ASSUME NEW x \in Writes(f[1])
             PROVE  /\ \A g \in l : Feeds(g, f, x) => Value(m, From(g[1], From(f[1], x))) = Value(r, x)
                    /\ (\A g \in l : ~ Feeds(g, f, x)) => Value(m, From(f[1], x)) = Value(r, x)
  BY DEF StoreOwes
<1> DEFINE y == From(f[1], x)
           z == From(CopyOf(p, c), x)
<1>3. y \in Reads(i) /\ y[1] = UbOf(p) /\ y \in Everywhere
  <2>1. y \in Reads(i) /\ y[1] = i.src.mem
    BY <1>2, CopyReads
  <2> QED BY <1>1, <1>2, <2>1 DEF Within, Placed
<1>4. Value(r, x) = Value(d, z)
  BY <1>2 DEF Result
<1>5. \A q \in PE : \A j \in U[q] : y \notin Writes(j)
  BY <1>2, <1>3, Unmet
<1>6. ASSUME NEW g \in l, Feeds(g, f, x)
      PROVE  g \in LoadsIn(s) /\ y \in Writes(g[1])
  <2>1. y \in Writes(g[1])
    BY <1>6 DEF Feeds
  <2> QED BY <1>5, <2>1
<1> HIDE DEF y, z
<1>7. CASE Staged(c)
  <2>1. Relays(LoadsIn(s), StoresIn(s), CopyOf(p, c))
    BY <1>2, <1>7, GoesThrough
  <2>2. /\ \E e \in LoadsIn(s) : Feeds(e, f, x)
        /\ \A e \in LoadsIn(s) : Feeds(e, f, x) => From(e[1], y) = z
    BY <1>3, <2>1 DEF Relays, y, z
  <2>3. ASSUME NEW g \in l, Feeds(g, f, x)
        PROVE  Value(m, From(g[1], y)) = Value(r, x)
    <3>1. /\ g \in LoadsIn(s) /\ y \in Writes(g[1]) /\ g[1] \in Range(s) /\ g[1].op = "load"
          /\ g[1].op \in Copiers
      BY <1>2, <1>6, <2>3 DEF Copiers
    <3>2. From(g[1], y) = z /\ z \in Reads(g[1]) /\ z[1] = g[1].src.mem
      BY <2>2, <2>3, <3>1, CopyReads
    <3>3. z \in Everywhere /\ z[1] \in PE
      BY <1>1, <3>1, <3>2 DEF Within, Placed
    <3>4. \A q \in PE : \A j \in U[q] : z \notin Writes(j)
      BY <3>1, <3>2, Unmet
    <3>5. Value(d, z) = Value(m, z)
      BY <3>3, <3>4, Quiescent
    <3> QED BY <1>4, <3>2, <3>5
  <2>4. ~ (\A g \in l : ~ Feeds(g, f, x))
    BY <2>2
  <2> QED BY <2>3, <2>4 DEF y
<1>8. CASE ~ Staged(c)
  <2>1. z = y /\ (\A j \in Range(s) : j.op \in Copiers => j = i) /\ c.api \in Storing
    <3>1. \A w \in Writes(i) : From(CopyOf(p, c), w) = From(i, w)
      BY <1>2, <1>8, GoesAtOnce
    <3> QED BY <1>2, <1>8, <3>1, GoesAtOnce DEF y, z
  <2>2. ASSUME NEW g \in l, Feeds(g, f, x)
        PROVE  FALSE
    <3>1. g[1] \in Range(s) /\ g[1].op = "load"
      BY <1>2, <1>6, <2>2
    <3>2. g[1] = i
      BY <2>1, <3>1 DEF Copiers
    <3> QED BY <1>2, <3>1, <3>2
  <2>3. Value(d, y) # Spoilt
    BY <1>2, <1>3, <2>1
  <2>4. y[1] \notin PE
    BY <1>3, Buffers
  <2>5. Value(d, y) \in {Spoilt, Value(m, y)}
    BY <1>3, <1>5, <2>4, Quiescent
  <2> QED BY <1>4, <2>1, <2>2, <2>3, <2>5 DEF y
<1> QED BY <1>7, <1>8

LEMMA LaterIs ==
  ASSUME NEW e, NEW a, NEW b
  PROVE  Later(e, a, b)[1] = e[1] /\ Later(e, a, b)[2] = e[2] + a /\ Later(e, a, b)[3] = e[3] + b
BY DEF Later

LEMMA LaterFeeds ==
  ASSUME NEW e, NEW f, NEW x, NEW a \in Nat, NEW b, e[2] \in Nat, f[2] \in Nat
  PROVE  Feeds(Later(e, a, b), Later(f, a, b), x) <=> Feeds(e, f, x)
<1>1. e[2] + a = (f[2] + a) + 1 <=> e[2] = f[2] + 1
  OBVIOUS
<1> QED BY <1>1, LaterIs DEF Feeds

(* What is still owed with another call behind. *)
LEMMA LaterOwes ==
  ASSUME NEW l, NEW k, NEW f, NEW a \in Nat, NEW b, NEW m, NEW d, StoreOwes(f, l, m, d), f[2] \in Nat,
         \A e \in l : e[2] \in Nat /\ Later(e, a, b) \in k,
         \A g \in k : (\E e \in l : g = Later(e, a, b))
                      \/ \A x \in Writes(f[1]) : From(f[1], x) \notin Writes(g[1])
  PROVE  StoreOwes(Later(f, a, b), k, m, d)
<1> DEFINE h == Later(f, a, b)
<1>1. h[1] = f[1]
  BY LaterIs
<1>2. ASSUME NEW x \in Writes(f[1]), NEW g \in k, Feeds(g, h, x)
      PROVE  \E e \in l : g[1] = e[1] /\ Feeds(e, f, x)
  <2>1. From(f[1], x) \in Writes(g[1])
    BY <1>1, <1>2 DEF Feeds
  <2>2. PICK e \in l : g = Later(e, a, b)
    BY <2>1
  <2>3. Feeds(e, f, x)
    BY <1>2, <2>2, LaterFeeds
  <2> QED BY <2>2, <2>3, LaterIs
<1>3. ASSUME NEW x \in Writes(f[1]), NEW e \in l, Feeds(e, f, x)
      PROVE  \E g \in k : Feeds(g, h, x)
  <2>1. Feeds(Later(e, a, b), h, x)
    BY <1>3, LaterFeeds
  <2> QED BY <2>1
<1> HIDE DEF h
<1>4. StoreOwes(h, k, m, d)
  BY <1>1, <1>2, <1>3 DEF StoreOwes
<1> QED BY <1>4 DEF h

LEMMA LaterClash ==
  ASSUME NEW l, NEW k, NEW e \in l, NEW f, NEW a \in Nat, NEW b \in Nat, Clash(e, f, l),
         f[2] \in Nat, f[3] \in Nat,
         \A g \in l : g[2] \in Nat /\ g[3] \in Nat /\ Later(g, a, b) \in k
  PROVE  Clash(Later(e, a, b), Later(f, a, b), k)
<1> DEFINE v == Later(e, a, b)
           w == Later(f, a, b)
<1>1. /\ v[1] = e[1] /\ v[2] = e[2] + a /\ v[3] = e[3] + b
      /\ w[1] = f[1] /\ w[2] = f[2] + a /\ w[3] = f[3] + b
  BY LaterIs
<1>2. ASSUME NEW x \in Writes(f[1]), NEW g \in l, Feeds(g, f, x)
      PROVE  \E h \in k : Feeds(h, w, x)
  <2>1. Feeds(Later(g, a, b), w, x)
    BY <1>2, LaterFeeds
  <2> QED BY <2>1
<1> HIDE DEF v, w
<1>3. /\ v[2] <= w[2] <=> e[2] <= f[2]
      /\ v[3] < w[3] <=> e[3] < f[3]
      /\ w[2] + 1 < v[2] <=> f[2] + 1 < e[2]
  BY <1>1
<1>4. Clash(v, w, k)
  BY <1>1, <1>2, <1>3 DEF Clash
<1> QED BY <1>4 DEF v, w

CallGoes(U, L, S, d, V, M, T, p, c, s, a, b) ==
  /\ p \in PE /\ a \in Nat /\ b \in Nat
  /\ Does(p, c, s) /\ Alone(s) /\ Within(Range(s))
  /\ Copies(c) => CopyOf(p, c).dst.mem \in Memories
  /\ \A j \in U[p] : j.op \notin Writers
  /\ \A i \in Range(s), q \in PE : \A j \in U[q] : ~ Meets(i, j)
  /\ \A i \in Range(s) : i.op = "store" /\ c.api \in Storing =>
           \A x \in Reads(i) : Value(d, x) # Spoilt
  /\ \A q \in PE \ {p} : V[q] = U[q] /\ M[q] = L[q] /\ T[q] = S[q]
  /\ V[p] = U[p] \cup Range(s)
  /\ \A g \in M[p] : (\E e \in L[p] : g = Later(e, a, b)) \/ g \in LoadsIn(s)
  /\ (\A e \in L[p] : Later(e, a, b) \in M[p]) /\ LoadsIn(s) \subseteq M[p]
  /\ \A g \in T[p] : (\E f \in S[p] : g = Later(f, a, b)) \/ g \in StoresIn(s)

LEMMA CallStep ==
  ASSUME NEW U, NEW L, NEW S, NEW m, NEW d, Underway(U, L, S, m, d), NEW V, NEW M, NEW T,
         NEW p, NEW c, NEW s, NEW a, NEW b, CallGoes(U, L, S, d, V, M, T, p, c, s, a, b)
  PROVE  Underway(V, M, T, m, Ideally(d, p, c, s))
<1>0. /\ p \in PE /\ a \in Nat /\ b \in Nat
      /\ Does(p, c, s) /\ Alone(s) /\ Within(Range(s))
      /\ Copies(c) => CopyOf(p, c).dst.mem \in Memories
      /\ \A j \in U[p] : j.op \notin Writers
      /\ \A i \in Range(s), q \in PE : \A j \in U[q] : ~ Meets(i, j)
      /\ \A i \in Range(s) : i.op = "store" /\ c.api \in Storing =>
           \A x \in Reads(i) : Value(d, x) # Spoilt
      /\ \A q \in PE \ {p} : V[q] = U[q] /\ M[q] = L[q] /\ T[q] = S[q]
      /\ V[p] = U[p] \cup Range(s)
      /\ \A g \in M[p] : (\E e \in L[p] : g = Later(e, a, b)) \/ g \in LoadsIn(s)
      /\ (\A e \in L[p] : Later(e, a, b) \in M[p]) /\ LoadsIn(s) \subseteq M[p]
      /\ \A g \in T[p] : (\E f \in S[p] : g = Later(f, a, b)) \/ g \in StoresIn(s)
  BY DEF CallGoes
<1> USE <1>0
<1> DEFINE r == Ideally(d, p, c, s)
<1>1. /\ Structured(U, L, S) /\ Parted(U) /\ Owing(U, L, S, m, d) /\ InTurn(L, S)
      /\ Stocked(m) /\ Stocked(d) /\ Numbers(m) /\ Settled(U, m, d)
  BY DEF Underway
<1>2. Result(d, r, p, c, s)
  BY <1>1, IdeallyDoes
<1> HIDE DEF r
<1>3. Proper(s) /\ WordLast(c, s) /\ \A i \in Range(s) : Placed(p, i)
  BY DEF Does
<1>4. /\ \A e \in LoadsIn(s) : /\ e[1] \in Range(s) /\ e[1].op = "load"
                               /\ e[2] \in Nat /\ e[3] \in Nat
      /\ \A f \in StoresIn(s) : /\ f[1] \in Range(s) /\ f[1].op = "store"
                                /\ f[2] \in Nat /\ f[3] \in Nat
  BY <1>3, NewEntries
<1>5. \A i \in Range(s) : i.op \in Writers => i = WordOf(c)
  <2>1. DOMAIN s = 1 .. Len(s)
    BY <1>3 DEF Proper
  <2> QED BY <1>3, <2>1 DEF WordLast, Range
<1>6. Structured(V, M, T)
  <2>1. ASSUME NEW q \in PE \ {p}
        PROVE  /\ \A i \in V[q] : Placed(q, i)
               /\ Within(V[q]) /\ OneWord(V[q])
               /\ \A e \in M[q] : e[1] \in V[q] /\ e[1].op = "load" /\ e[2] \in Nat /\ e[3] \in Nat
               /\ \A f \in T[q] : f[1] \in V[q] /\ f[1].op = "store" /\ f[2] \in Nat /\ f[3] \in Nat
    <3>1. V[q] = U[q] /\ M[q] = L[q] /\ T[q] = S[q]
      OBVIOUS
    <3> QED BY <1>1, <3>1 DEF Structured
  <2>2. /\ \A i \in V[p] : Placed(p, i)
        /\ Within(V[p]) /\ OneWord(V[p])
    BY <1>1, <1>3, <1>5 DEF Structured, Within, OneWord
  <2>3. ASSUME NEW e \in M[p]
        PROVE  e[1] \in V[p] /\ e[1].op = "load" /\ e[2] \in Nat /\ e[3] \in Nat
    <3>1. CASE e \in LoadsIn(s)
      BY <1>4, <3>1
    <3>2. CASE \E g \in L[p] : e = Later(g, a, b)
      <4>1. PICK g \in L[p] : e = Later(g, a, b)
        BY <3>2
      <4>2. g[1] \in U[p] /\ g[1].op = "load" /\ g[2] \in Nat /\ g[3] \in Nat
        BY <1>1 DEF Structured
      <4> QED BY <4>1, <4>2, LaterIs
    <3> QED BY <3>1, <3>2
  <2>4. ASSUME NEW e \in T[p]
        PROVE  e[1] \in V[p] /\ e[1].op = "store" /\ e[2] \in Nat /\ e[3] \in Nat
    <3>1. CASE e \in StoresIn(s)
      BY <1>4, <3>1
    <3>2. CASE \E g \in S[p] : e = Later(g, a, b)
      <4>1. PICK g \in S[p] : e = Later(g, a, b)
        BY <3>2
      <4>2. g[1] \in U[p] /\ g[1].op = "store" /\ g[2] \in Nat /\ g[3] \in Nat
        BY <1>1 DEF Structured
      <4> QED BY <4>1, <4>2, LaterIs
    <3> QED BY <3>1, <3>2
  <2> QED BY <2>1, <2>2, <2>3, <2>4 DEF Structured
<1>7. \A q \in PE : \A i \in V[q] : i \in U[q] \/ i \in Range(s)
  OBVIOUS
<1>8. Parted(V)
  <2> SUFFICES ASSUME NEW q \in PE, NEW o \in PE, NEW i \in V[q], NEW j \in V[o], NEW x \in Writes(i)
               PROVE  /\ x \in Reads(j) => x[1] \notin PE
                      /\ x \in Writes(j) /\ i.op \in Writers =>
                           (i.op = "add_word" /\ j.op = "add_word") \/ i = j
    BY DEF Parted
  <2>1. CASE i \in U[q] /\ j \in U[o]
    BY <1>1, <2>1 DEF Parted
  <2>2. CASE i \in Range(s) /\ j \in Range(s)
    BY <2>2 DEF Alone
  <2>3. CASE i \in Range(s) /\ j \in U[o]
    <3>1. ~ Meets(i, j)
      BY <2>3
    <3> QED BY <3>1, Unmet
  <2>4. CASE i \in U[q] /\ j \in Range(s)
    <3>1. ~ Meets(j, i)
      BY <2>4
    <3> QED BY <3>1, Unmet
  <2> QED BY <1>7, <2>1, <2>2, <2>3, <2>4
<1>9. /\ \A q \in PE : \A j \in U[q] : \A x \in Writes(j) :
           j.op # "add_word" => Value(r, x) = Value(d, x)
      /\ \A q \in PE : /\ \A j \in U[q] : Owes(j, m, r)
                       /\ \A f \in S[q] : StoreOwes(f, L[q], m, r)
  BY <1>2, OldOwes
(* A load of the call and a store before it have nothing in common. *)
<1>10. ASSUME NEW f \in S[p], NEW g \in LoadsIn(s), NEW x \in Writes(f[1])
       PROVE  From(f[1], x) \notin Writes(g[1])
  <2>1. f[1] \in U[p] /\ f[1].op \in Copiers /\ g[1] \in Range(s)
    BY <1>1, <1>4 DEF Structured, Copiers
  <2>2. From(f[1], x) \in Reads(f[1])
    BY <2>1, CopyReads
  <2> QED BY <2>1, <2>2, Unmet
<1>11. ASSUME NEW g \in L[p], NEW f \in StoresIn(s), NEW x \in Writes(f[1])
       PROVE  From(f[1], x) \notin Writes(g[1])
  <2>1. g[1] \in U[p] /\ f[1].op \in Copiers /\ f[1] \in Range(s)
    BY <1>1, <1>4 DEF Structured, Copiers
  <2>2. From(f[1], x) \in Reads(f[1])
    BY <2>1, CopyReads
  <2> QED BY <2>1, <2>2, Unmet
<1>12. Owing(V, M, T, m, r)
  <2>1. ASSUME NEW q \in PE, NEW i \in V[q]
        PROVE  Owes(i, m, r)
    <3>1. CASE i \in U[q]
      BY <1>9, <3>1
    <3>2. CASE i \in Range(s)
      BY <1>2, <3>2, NewOwes
    <3> QED BY <1>7, <3>1, <3>2
  <2>2. ASSUME NEW q \in PE \ {p}, NEW f \in T[q]
        PROVE  StoreOwes(f, M[q], m, r)
    <3>1. f \in S[q] /\ M[q] = L[q]
      OBVIOUS
    <3> QED BY <1>9, <3>1
  <2>3. ASSUME NEW h \in T[p]
        PROVE  StoreOwes(h, M[p], m, r)
    <3>1. CASE h \in StoresIn(s)
      <4>1. \A g \in M[p] : g \in LoadsIn(s) \/ g[1] \in U[p]
        BY <1>1, LaterIs DEF Structured
      <4> QED BY <1>2, <3>1, <4>1, NewStoreOwes
    <3>2. CASE \E f \in S[p] : h = Later(f, a, b)
      <4>1. PICK f \in S[p] : h = Later(f, a, b)
        BY <3>2
      <4>2. StoreOwes(f, L[p], m, r) /\ f[2] \in Nat /\ \A e \in L[p] : e[2] \in Nat
        BY <1>1, <1>9 DEF Structured
      <4>3. \A g \in M[p] : (\E e \in L[p] : g = Later(e, a, b))
                            \/ \A x \in Writes(f[1]) : From(f[1], x) \notin Writes(g[1])
        BY <1>10
      <4> QED BY <4>1, <4>2, <4>3, LaterOwes
    <3> QED BY <3>1, <3>2
  <2> QED BY <2>1, <2>2, <2>3 DEF Owing
<1>13. InTurn(M, T)
  <2>1. ASSUME NEW q \in PE \ {p}, NEW e \in M[q], NEW f \in T[q]
        PROVE  Clash(e, f, M[q])
    <3>1. e \in L[q] /\ f \in S[q] /\ M[q] = L[q]
      OBVIOUS
    <3> QED BY <1>1, <3>1 DEF InTurn
  <2>2. ASSUME NEW e \in M[p], NEW f \in T[p]
        PROVE  Clash(e, f, M[p])
    <3>1. CASE e \in LoadsIn(s) /\ f \in StoresIn(s)
      <4>1. f[1] \in Range(s) /\ f[1].op = "store" /\ e[1] \in Range(s) /\ e[1].op = "load"
        BY <1>4, <3>1
      <4>2. Staged(c)
        <5> SUFFICES ASSUME ~ Staged(c) PROVE FALSE
          OBVIOUS
        <5>1. e[1] = f[1]
          BY <4>1, GoesAtOnce DEF Copiers
        <5> QED BY <4>1, <5>1
      <4>3. Relays(LoadsIn(s), StoresIn(s), CopyOf(p, c))
        BY <4>1, <4>2, GoesThrough
      <4> SUFFICES ASSUME NEW x \in Writes(f[1]), From(f[1], x) \in Writes(e[1])
                   PROVE  /\ e[2] <= f[2] => e[3] < f[3]
                          /\ f[2] + 1 < e[2] => \E g \in M[p] : Feeds(g, f, x)
        BY DEF Clash
      <4>4. From(f[1], x) \in Everywhere
        BY <4>1 DEF Within
      <4> QED BY <3>1, <4>3, <4>4 DEF Relays
    <3>2. ASSUME NEW g \in L[p], e = Later(g, a, b), f \in StoresIn(s)
          PROVE  Clash(e, f, M[p])
      BY <1>11, <3>2, LaterIs DEF Clash
    <3>3. ASSUME NEW h \in S[p], f = Later(h, a, b), e \in LoadsIn(s)
          PROVE  Clash(e, f, M[p])
      BY <1>10, <3>3, LaterIs DEF Clash
    <3>4. ASSUME NEW g \in L[p], e = Later(g, a, b), NEW h \in S[p], f = Later(h, a, b)
          PROVE  Clash(e, f, M[p])
      <4>1. /\ Clash(g, h, L[p]) /\ h[2] \in Nat /\ h[3] \in Nat
            /\ \A k \in L[p] : k[2] \in Nat /\ k[3] \in Nat
        BY <1>1 DEF InTurn, Structured
      <4> QED BY <3>4, <4>1, LaterClash
    <3> QED BY <3>1, <3>2, <3>3, <3>4
  <2> QED BY <2>1, <2>2 DEF InTurn
<1>14. Settled(V, m, r)
  <2> SUFFICES ASSUME NEW x \in Everywhere, Calm(V, x) PROVE Settles(V, m, r, x)
    BY DEF Settled
  <2>1. Calm(U, x)
    <3>1. \A q \in PE : U[q] \subseteq V[q]
      OBVIOUS
    <3> QED BY <3>1 DEF Calm
  <2>2. Settles(U, m, d, x)
    BY <1>1, <2>1 DEF Settled
  <2>3. OneWord(V[p]) /\ \A q \in PE : OneWord(U[q])
    BY <1>1, <1>6 DEF Structured
  <2>4. \A q \in PE \ {p} : Adds(V[q], x) = Adds(U[q], x)
    <3> SUFFICES ASSUME NEW q \in PE \ {p} PROVE Adds(V[q], x) = Adds(U[q], x)
      OBVIOUS
    <3>1. V[q] = U[q]
      OBVIOUS
    <3> QED BY <3>1
  <2>5. Adds(U[p], x) = 0
    <3>1. \A j \in U[p] : ~ Adding(j, x)
      BY DEF Adding, Writers
    <3> QED BY <2>3, <3>1, AddsIs
  <2>6. CASE \A i \in Range(s) : x \notin Writes(i)
    <3>1. Value(r, x) = Value(d, x)
      BY <1>2, <2>6 DEF Result
    <3>2. Adds(V[p], x) = 0
      <4>1. \A j \in V[p] : ~ Adding(j, x)
        BY <2>6 DEF Adding, Writers
      <4> QED BY <2>3, <4>1, AddsIs
    <3>3. \A q \in PE : Adds(V[q], x) = Adds(U[q], x)
      BY <2>4, <2>5, <3>2
    <3>4. \A t : Totals(U, x, t) => Totals(V, x, t)
      BY <3>3, SameTotals
    <3> QED BY <2>2, <3>1, <3>4 DEF Settles
  <2>7. ASSUME NEW i \in Range(s), x \in Writes(i)
        PROVE  Settles(V, m, r, x)
    <3>1. i \in V[p] /\ i.op = "add_word" /\ i.op \in Writers
      BY <2>7 DEF Calm, Writers
    <3>2. Value(r, x) = Value(d, x) + i.val
      BY <1>2, <2>7, <3>1 DEF Result
    <3>3. x[1] \in PE /\ i.val \in Int
      BY <1>3, <2>7, <3>1, WritesOf DEF Placed
    <3>4. PICK t \in Int : Totals(U, x, t) /\ Value(d, x) = Value(m, x) + t
      BY <2>2, <3>3 DEF Settles
    <3>5. ASSUME NEW q \in PE
          PROVE  Adds(U[q], x) \in Int
      <4>1. CASE \E j \in U[q] : Adding(j, x)
        <5>1. PICK j \in U[q] : Adding(j, x)
          BY <4>1
        <5>2. Adds(U[q], x) = j.val /\ Placed(q, j)
          BY <1>1, <2>3, <5>1, AddsIs DEF Structured
        <5> QED BY <5>1, <5>2 DEF Placed, Adding, Writers
      <4>2. CASE \A j \in U[q] : ~ Adding(j, x)
        BY <2>3, <4>2, AddsIs
      <4> QED BY <4>1, <4>2
    <3>6. Adds(V[p], x) = Adds(U[p], x) + i.val
      <4>1. Adding(i, x)
        BY <2>7, <3>1 DEF Adding
      <4>2. Adds(V[p], x) = i.val
        BY <2>3, <3>1, <4>1, AddsIs
      <4> QED BY <2>5, <3>3, <4>2
    <3>7. Totals(V, x, t + i.val)
      BY <2>4, <3>3, <3>4, <3>5, <3>6, MoreAdded
    <3>8. Value(m, x) \in Int
      BY <1>1 DEF Numbers
    <3>9. t + i.val \in Int /\ Value(r, x) = Value(m, x) + (t + i.val)
      BY <3>2, <3>3, <3>4, <3>8
    <3> QED BY <3>3, <3>7, <3>9 DEF Settles
  <2> QED BY <2>6, <2>7
<1>15. Stocked(r)
  BY <1>2 DEF Result
<1>16. Underway(V, M, T, m, r)
  BY <1>1, <1>6, <1>8, <1>12, <1>13, <1>14, <1>15 DEF Underway
<1> QED BY <1>16 DEF r

-----------------------------------------------------------------------------
(* The loads and stores of a pipe and of what is left of a call behind it. *)

LEMMA Widen ==
  ASSUME NEW X, NEW Y, X \subseteq Y, NEW s \in Seq(X)
  PROVE  s \in Seq(Y)
OBVIOUS

LEMMA ThreeProper ==
  ASSUME NEW s, NEW t, NEW u, Proper(s), Proper(t), Proper(u)
  PROVE  \E X : s \in Seq(X) /\ t \in Seq(X) /\ u \in Seq(X)
<1> DEFINE X == Range(s) \cup Range(t) \cup Range(u)
<1>1. s \in Seq(Range(s)) /\ t \in Seq(Range(t)) /\ u \in Seq(Range(u))
  BY DEF Proper
<1>2. Range(s) \subseteq X /\ Range(t) \subseteq X /\ Range(u) \subseteq X
  OBVIOUS
<1> HIDE DEF X
<1>3. s \in Seq(X) /\ t \in Seq(X) /\ u \in Seq(X)
  BY <1>1, <1>2, Widen
<1> QED BY <1>3

LEMMA FromPipe ==
  ASSUME NEW m, NEW r, NEW t, Proper(m), Proper(r), Proper(t)
  PROVE  /\ LoadsIn((m \o r) \o t) = LoadsIn(m \o (r \o t))
         /\ StoresIn((m \o r) \o t) = StoresIn(m \o (r \o t))
         /\ (\A i \in Range(r) : i.op # "load" /\ i \notin {SetFull, WaitFree})
              => LoadsIn(m \o t) = LoadsIn(m \o (r \o t))
         /\ (\A i \in Range(r) : i.op # "store" /\ i \notin {WaitFull, SetFree})
              => StoresIn(m \o t) = StoresIn(m \o (r \o t))
<1>1. PICK X : m \in Seq(X) /\ r \in Seq(X) /\ t \in Seq(X)
  BY ThreeProper
<1>2. m \o (r \o t) = (m \o r) \o t
  BY <1>1, ConcatAssociates
<1>3. ASSUME \A i \in Range(r) : i.op # "load" /\ i \notin {SetFull, WaitFree}
      PROVE  LoadsIn(m \o t) = LoadsIn(m \o (r \o t))
  <2>1. /\ SetFull \notin Range(r) /\ WaitFree \notin Range(r)
        /\ \A i \in Range(r) : i.op # "load"
    BY <1>3
  <2>2. Entries(m \o (r \o t), "load", SetFull, WaitFree) = Entries(m \o t, "load", SetFull, WaitFree)
    BY <1>1, <2>1, EntriesDrop
  <2> QED BY <2>2, Zenon DEF LoadsIn
<1>4. ASSUME \A i \in Range(r) : i.op # "store" /\ i \notin {WaitFull, SetFree}
      PROVE  StoresIn(m \o t) = StoresIn(m \o (r \o t))
  <2>1. /\ WaitFull \notin Range(r) /\ SetFree \notin Range(r)
        /\ \A i \in Range(r) : i.op # "store"
    BY <1>4
  <2>2. Entries(m \o (r \o t), "store", WaitFull, SetFree) = Entries(m \o t, "store", WaitFull, SetFree)
    BY <1>1, <2>1, EntriesDrop
  <2> QED BY <2>2, Zenon DEF StoresIn
<1>5. /\ LoadsIn((m \o r) \o t) = LoadsIn(m \o (r \o t))
      /\ StoresIn((m \o r) \o t) = StoresIn(m \o (r \o t))
  BY <1>2, Zenon
<1> QED BY <1>3, <1>4, <1>5

LEMMA TakeEntries ==
  ASSUME NEW m, NEW t, Proper(m), Proper(t), m # <<>>
  PROVE  /\ LoadsIn(m \o t) = LoadsIn(Tail(m) \o t) \cup
              IF Head(m).op = "load" THEN {<<Head(m), Owed(m, t, SetFull), Owed(m, t, WaitFree)>>} ELSE {}
         /\ StoresIn(m \o t) = StoresIn(Tail(m) \o t) \cup
              IF Head(m).op = "store" THEN {<<Head(m), Owed(m, t, WaitFull), Owed(m, t, SetFree)>>} ELSE {}
<1>1. PICK X : m \in Seq(X) /\ t \in Seq(X)
  BY BothProper
<1>2. \A x : Times(m \o t, x, 1) = Owed(m, t, x)
  BY <1>1, TimesBoth DEF Owed
<1>3. Entries(m \o t, "load", SetFull, WaitFree) = Entries(Tail(m) \o t, "load", SetFull, WaitFree) \cup
        IF Head(m).op = "load" THEN {<<Head(m), Times(m \o t, SetFull, 1), Times(m \o t, WaitFree, 1)>>} ELSE {}
  BY <1>1, EntriesTake
<1>4. Entries(m \o t, "store", WaitFull, SetFree) = Entries(Tail(m) \o t, "store", WaitFull, SetFree) \cup
        IF Head(m).op = "store" THEN {<<Head(m), Times(m \o t, WaitFull, 1), Times(m \o t, SetFree, 1)>>} ELSE {}
  BY <1>1, EntriesTake
<1>5. LoadsIn(m \o t) = LoadsIn(Tail(m) \o t) \cup
        IF Head(m).op = "load" THEN {<<Head(m), Owed(m, t, SetFull), Owed(m, t, WaitFree)>>} ELSE {}
  <2>1. Times(m \o t, SetFull, 1) = Owed(m, t, SetFull) /\ Times(m \o t, WaitFree, 1) = Owed(m, t, WaitFree)
    BY <1>2
  <2> QED BY <1>3, <2>1, Zenon DEF LoadsIn
<1>6. StoresIn(m \o t) = StoresIn(Tail(m) \o t) \cup
        IF Head(m).op = "store" THEN {<<Head(m), Owed(m, t, WaitFull), Owed(m, t, SetFree)>>} ELSE {}
  <2>1. Times(m \o t, WaitFull, 1) = Owed(m, t, WaitFull) /\ Times(m \o t, SetFree, 1) = Owed(m, t, SetFree)
    BY <1>2
  <2> QED BY <1>4, <2>1, Zenon DEF StoresIn
<1> QED BY <1>5, <1>6

LEMMA EntryBound ==
  ASSUME NEW m, NEW t, Proper(m), Proper(t)
  PROVE  /\ \A e \in LoadsIn(m \o t) :
              /\ e[1] \in Range(m) \cup Range(t) /\ e[1].op = "load" /\ e[2] \in Nat /\ e[3] \in Nat
              /\ e[2] <= Owed(m, t, SetFull) /\ e[3] <= Owed(m, t, WaitFree)
         /\ \A f \in StoresIn(m \o t) :
              /\ f[1] \in Range(m) \cup Range(t) /\ f[1].op = "store" /\ f[2] \in Nat /\ f[3] \in Nat
              /\ f[2] <= Owed(m, t, WaitFull) /\ f[3] <= Owed(m, t, SetFree)
<1>1. PICK X : m \in Seq(X) /\ t \in Seq(X) /\ m \o t \in Seq(X) /\ Range(m \o t) = Range(m) \cup Range(t)
  BY BothProper
<1>2. \A x : Times(m \o t, x, 1) = Owed(m, t, x)
  BY <1>1, TimesBoth DEF Owed
<1> DEFINE w == m \o t
<1>3. w \in Seq(X) /\ Range(w) = Range(m) \cup Range(t) /\ \A x : Times(w, x, 1) = Owed(m, t, x)
  BY <1>1, <1>2
<1> HIDE DEF w
<1>4. /\ \A e \in LoadsIn(w) :
           /\ e[1] \in Range(w) /\ e[1].op = "load" /\ e[2] \in Nat /\ e[3] \in Nat
           /\ e[2] <= Times(w, SetFull, 1) /\ e[3] <= Times(w, WaitFree, 1)
      /\ \A f \in StoresIn(w) :
           /\ f[1] \in Range(w) /\ f[1].op = "store" /\ f[2] \in Nat /\ f[3] \in Nat
           /\ f[2] <= Times(w, WaitFull, 1) /\ f[3] <= Times(w, SetFree, 1)
  BY <1>3, EntryIs DEF LoadsIn, StoresIn
<1>5. /\ \A e \in LoadsIn(w) :
           /\ e[1] \in Range(m) \cup Range(t) /\ e[1].op = "load" /\ e[2] \in Nat /\ e[3] \in Nat
           /\ e[2] <= Owed(m, t, SetFull) /\ e[3] <= Owed(m, t, WaitFree)
      /\ \A f \in StoresIn(w) :
           /\ f[1] \in Range(m) \cup Range(t) /\ f[1].op = "store" /\ f[2] \in Nat /\ f[3] \in Nat
           /\ f[2] <= Owed(m, t, WaitFull) /\ f[3] <= Owed(m, t, SetFree)
  BY <1>3, <1>4
<1> QED BY <1>5 DEF w

LEMMA CallEntries ==
  ASSUME NEW m, NEW s, Proper(m), Proper(s), Paired(s)
  PROVE  /\ Times(s, SetFull, 1) \in Nat /\ Times(s, WaitFree, 1) \in Nat
         /\ LoadsIn(m \o s) = {Later(e, Times(s, SetFull, 1), Times(s, WaitFree, 1)) : e \in LoadsIn(m)}
                              \cup LoadsIn(s)
         /\ StoresIn(m \o s) = {Later(e, Times(s, SetFull, 1), Times(s, WaitFree, 1)) : e \in StoresIn(m)}
                               \cup StoresIn(s)
<1>1. PICK X : m \in Seq(X) /\ s \in Seq(X)
  BY BothProper
<1>2. Times(s, SetFull, 1) \in Nat /\ Times(s, WaitFree, 1) \in Nat
  BY ProperTimes
<1>3. Times(s, SetFull, 1) = Times(s, WaitFull, 1) /\ Times(s, SetFree, 1) = Times(s, WaitFree, 1)
  BY DEF Paired
<1>4. LoadsIn(m \o s) = {Later(e, Times(s, SetFull, 1), Times(s, WaitFree, 1)) : e \in LoadsIn(m)}
                        \cup LoadsIn(s)
  BY <1>1, EntriesConcat DEF LoadsIn
<1>5. Entries(m \o s, "store", WaitFull, SetFree) =
        {Later(e, Times(s, WaitFull, 1), Times(s, SetFree, 1)) : e \in Entries(m, "store", WaitFull, SetFree)}
        \cup Entries(s, "store", WaitFull, SetFree)
  BY <1>1, EntriesConcat
<1>6. StoresIn(m \o s) = {Later(e, Times(s, SetFull, 1), Times(s, WaitFree, 1)) : e \in StoresIn(m)}
                        \cup StoresIn(s)
  BY <1>3, <1>5, Zenon DEF StoresIn
<1> QED BY <1>2, <1>4, <1>6

LEMMA NothingBehind ==
  ASSUME NEW m, Proper(m)
  PROVE  m \o <<>> = m
BY DEF Proper

LEMMA HeadRange ==
  ASSUME NEW s, Proper(s), s # <<>>
  PROVE  /\ Range(s) = {Head(s)} \cup Range(Tail(s)) /\ Proper(Tail(s)) /\ Head(s) \in Range(s)
         /\ s = <<Head(s)>> \o Tail(s) /\ Proper(<<Head(s)>>) /\ Range(<<Head(s)>>) = {Head(s)}
<1>1. /\ Proper(<<Head(s)>>) /\ Proper(Tail(s)) /\ Head(s) \in Range(s)
      /\ Range(<<Head(s)>>) = {Head(s)} /\ s = <<Head(s)>> \o Tail(s)
  BY ProperSplit
<1>2. Range(<<Head(s)>> \o Tail(s)) = Range(<<Head(s)>>) \cup Range(Tail(s))
  BY <1>1, BothProper
<1>3. Range(s) = {Head(s)} \cup Range(Tail(s))
  BY <1>1, <1>2, Zenon
<1> QED BY <1>1, <1>3

-----------------------------------------------------------------------------
(* The state of a job as the instructions under way on each PE.            *)

Pending == [p \in PE |-> UnderWay(p)]
PendingLoads == [p \in PE |-> LoadsIn(mte2[p] \o code[p])]
PendingStores == [p \in PE |-> StoresIn(mte3[p] \o code[p])]

(* Every queue has what belongs there, and a word is written last. *)
LastWord(s) == \A k \in 1 .. Len(s) : s[k].op \in Writers => k = Len(s)
Shaped(p) ==
  /\ \A i \in Range(mte2[p]) : i.op \in {"load", "set", "wait"}
  /\ \A i \in Range(mte3[p]) : i.op \in {"store", "set", "wait"}
  /\ \A i \in Range(nic[p]) : i.op = "post"
  /\ LastWord(code[p])
  /\ config[p].shmem_ub \in Nat

(* What was read was what was to be read. *)
GotRight(p) == got[p] \in Seq(Range(got[p])) /\ \A x \in Range(got[p]) : x[1] = x[2]

DataInv ==
  /\ OnPEs(got) /\ \A p \in PE : Shaped(p) /\ GotRight(p)
  /\ Underway(Pending, PendingLoads, PendingStores, mem, ideal)

(* A step of one PE. *)
LEMMA DataMove ==
  ASSUME DataInv, NEW p \in PE, OnPEs(got'), Shaped(p)', GotRight(p)',
         \A q \in PE \ {p} :
           /\ code'[q] = code[q] /\ mte2'[q] = mte2[q] /\ mte3'[q] = mte3[q] /\ nic'[q] = nic[q]
           /\ config'[q] = config[q] /\ got'[q] = got[q],
         Underway(Pending, PendingLoads, PendingStores, mem, ideal)'
  PROVE  DataInv'
<1>1. ASSUME NEW q \in PE \ {p}
      PROVE  Shaped(q)' /\ GotRight(q)'
  <2>1. Shaped(q) /\ GotRight(q)
    BY DEF DataInv
  <2>2. /\ code'[q] = code[q] /\ mte2'[q] = mte2[q] /\ mte3'[q] = mte3[q] /\ nic'[q] = nic[q]
        /\ config'[q] = config[q] /\ got'[q] = got[q]
    OBVIOUS
  <2> QED BY <2>1, <2>2 DEF Shaped, GotRight
<1> QED BY <1>1 DEF DataInv

LEMMA PendingMove ==
  ASSUME NEW q \in PE, code'[q] = code[q], mte2'[q] = mte2[q], mte3'[q] = mte3[q], nic'[q] = nic[q]
  PROVE  /\ Pending'[q] = Pending[q] /\ PendingLoads'[q] = PendingLoads[q]
         /\ PendingStores'[q] = PendingStores[q]
BY DEF Pending, PendingLoads, PendingStores, UnderWay

LEMMA PendingIs ==
  ASSUME NEW p \in PE
  PROVE  /\ Pending[p] = Range(code[p]) \cup Range(mte2[p]) \cup Range(mte3[p]) \cup Range(nic[p])
         /\ PendingLoads[p] = LoadsIn(mte2[p] \o code[p])
         /\ PendingStores[p] = StoresIn(mte3[p] \o code[p])
         /\ Pending[p]' = Range(code'[p]) \cup Range(mte2'[p]) \cup Range(mte3'[p]) \cup Range(nic'[p])
         /\ PendingLoads[p]' = LoadsIn(mte2'[p] \o code'[p])
         /\ PendingStores[p]' = StoresIn(mte3'[p] \o code'[p])
         /\ Pending'[p] = Pending[p]' /\ PendingLoads'[p] = PendingLoads[p]'
         /\ PendingStores'[p] = PendingStores[p]'
BY DEF Pending, PendingLoads, PendingStores, UnderWay

(* The queues of a PE are sequences. *)
LEMMA Queues ==
  ASSUME RmaInv, FlagInv, DataInv, NEW p \in PE
  PROVE  /\ Proper(code[p]) /\ Proper(mte2[p]) /\ Proper(mte3[p]) /\ Proper(nic[p])
         /\ FlagsOf(code[p], mte2[p], mte3[p], flag[p])
         /\ AllOnPEs /\ OnPEs(got) /\ Wired(p) /\ Shaped(p) /\ GotRight(p)
<1>1. Wired(p) /\ Shaped(p) /\ FlagsOf(code[p], mte2[p], mte3[p], flag[p])
  BY DEF RmaInv, DataInv, FlagInv, Flags
<1>2. Proper(nic[p])
  BY <1>1 DEF Wired, Shaped, Proper, Flagging
<1> QED BY <1>1, <1>2 DEF FlagsOf, RmaInv, DataInv

-----------------------------------------------------------------------------
(* Steps that leave the memories alone.                                    *)

LEMMA LastWordParts ==
  ASSUME NEW s, NEW t, Proper(s), Proper(t), LastWord(s \o t)
  PROVE  LastWord(t)
<1>1. PICK X : s \in Seq(X) /\ t \in Seq(X)
  BY BothProper
<1>2. /\ Len(s \o t) = Len(s) + Len(t) /\ Len(s) \in Nat /\ Len(t) \in Nat
      /\ \A k \in 1 .. Len(t) : (s \o t)[Len(s) + k] = t[k]
  BY <1>1, ConcatType
<1> SUFFICES ASSUME NEW k \in 1 .. Len(t), t[k].op \in Writers PROVE k = Len(t)
  BY DEF LastWord
<1>3. Len(s) + k \in 1 .. Len(s \o t) /\ (s \o t)[Len(s) + k].op \in Writers
  BY <1>2
<1>4. Len(s) + k = Len(s \o t)
  BY <1>3 DEF LastWord
<1> QED BY <1>2, <1>4

LEMMA LastWordTail ==
  ASSUME NEW s, Proper(s), s # <<>>, LastWord(s)
  PROVE  /\ LastWord(Tail(s))
         /\ Head(s).op \in Writers => \A j \in Range(Tail(s)) : j.op \notin Writers
<1>1. LastWord(Tail(s))
  <2>1. /\ Proper(<<Head(s)>>) /\ Proper(Tail(s)) /\ s = <<Head(s)>> \o Tail(s)
    BY HeadRange
  <2>2. LastWord(<<Head(s)>> \o Tail(s))
    BY <2>1, Zenon
  <2> QED BY <2>1, <2>2, LastWordParts
<1>2. ASSUME Head(s).op \in Writers
      PROVE  Range(Tail(s)) = {}
  <2>1. s \in Seq(Range(s))
    BY DEF Proper
  <2>2. Head(s) = s[1] /\ 1 \in 1 .. Len(s) /\ Len(Tail(s)) = Len(s) - 1 /\ Len(s) \in Nat
    BY <2>1
  <2>3. Len(s) = 1
    BY <1>2, <2>2 DEF LastWord
  <2>4. DOMAIN Tail(s) = {}
    <3>1. Tail(s) \in Seq(Range(s)) /\ s # <<>>
      BY <2>1
    <3>2. DOMAIN Tail(s) = 1 .. Len(Tail(s))
      BY <3>1
    <3>3. Len(Tail(s)) = 0
      BY <2>2, <2>3
    <3>4. \A k \in 1 .. Len(Tail(s)) : FALSE
      BY <3>3
    <3> QED BY <3>2, <3>4
  <2> QED BY <2>4 DEF Range
<1> QED BY <1>1, <1>2

(* What goes to a pipe at once, and what stays. *)
LEMMA IssueParts ==
  ASSUME NEW p \in PE, IssueToPipe(p), OnPEs(code), OnPEs(mte2), OnPEs(mte3), Proper(code[p])
  PROVE  \E run, rest :
           /\ Proper(run) /\ Proper(rest) /\ code[p] = run \o rest
           /\ \A x \in Range(run) : x.op \in Piped /\ (ToMte2(x) <=> ToMte2(Now(p)))
           /\ code'[p] = rest
           /\ mte2'[p] = IF ToMte2(Now(p)) THEN mte2[p] \o run ELSE mte2[p]
           /\ mte3'[p] = IF ToMte2(Now(p)) THEN mte3[p] ELSE mte3[p] \o run
           /\ \A q \in PE \ {p} : code'[q] = code[q] /\ mte2'[q] = mte2[q] /\ mte3'[q] = mte3[q]
<1> DEFINE early == ToMte2(Now(p))
           I == {i \in 1 .. Len(code[p]) : code[p][i].op \notin Piped \/ (ToMte2(code[p][i]) # early)}
           other == IF I # {} THEN Min(I) ELSE 0
           n == IF other = 0 THEN Len(code[p]) ELSE other - 1
           run == SubSeq(code[p], 1, n)
           rest == SubSeq(code[p], n + 1, Len(code[p]))
<1>1. /\ code[p] # <<>> /\ code' = [code EXCEPT ![p] = SubSeq(@, n + 1, Len(@))]
      /\ mte2' = [mte2 EXCEPT ![p] = IF early THEN @ \o run ELSE @]
      /\ mte3' = [mte3 EXCEPT ![p] = IF early THEN @ ELSE @ \o run]
  BY DEF IssueToPipe, Is, SelectInSeq
<1>2. /\ code'[p] = rest
      /\ mte2'[p] = (IF early THEN mte2[p] \o run ELSE mte2[p])
      /\ mte3'[p] = (IF early THEN mte3[p] ELSE mte3[p] \o run)
      /\ \A q \in PE \ {p} : code'[q] = code[q] /\ mte2'[q] = mte2[q] /\ mte3'[q] = mte3[q]
  <2> HIDE DEF n, run, early
  <2> QED BY <1>1 DEF OnPEs
<1>3. code[p] \in Seq(Range(code[p])) /\ Len(code[p]) \in Nat
  BY DEF Proper
<1>4. n \in 0 .. Len(code[p]) /\ \A i \in 1 .. n : code[p][i].op \in Piped /\ ToMte2(code[p][i]) = early
  <2>1. CASE I = {}
    BY <1>3, <2>1
  <2>2. CASE I # {}
    <3> HIDE DEF early
    <3>1. I \in SUBSET Nat
      OBVIOUS
    <3>2. \E x \in I : \A y \in I : x <= y
      BY <2>2, <3>1, Smallest
    <3>3. Min(I) \in I /\ \A y \in I : Min(I) <= y
      BY <3>2 DEF Min
    <3>4. n = Min(I) - 1 /\ Min(I) \in 1 .. Len(code[p])
      BY <2>2, <3>3
    <3>5. \A i \in 1 .. n : i \notin I /\ i \in 1 .. Len(code[p])
      BY <1>3, <3>3, <3>4
    <3>6. \A i \in 1 .. n : code[p][i].op \in Piped /\ ToMte2(code[p][i]) = early
      <4> HIDE DEF n
      <4> QED BY <3>5
    <3>7. n \in 0 .. Len(code[p])
      <4> HIDE DEF n
      <4> QED BY <1>3, <3>4
    <3> HIDE DEF n
    <3> QED BY <3>6, <3>7
  <2> QED BY <2>1, <2>2
<1> HIDE DEF n, early
<1>5. /\ Proper(run) /\ Proper(rest) /\ code[p] = run \o rest
      /\ \A x \in Range(run) : x.op \in Piped /\ ToMte2(x) = early
  <2>1. /\ run \in Seq(Range(code[p])) /\ rest \in Seq(Range(code[p])) /\ code[p] = run \o rest
    BY <1>3, <1>4, Split
  <2>2. \A x \in Range(run) : x.op \in Piped /\ ToMte2(x) = early
    <3>1. Len(run) = n /\ \A i \in 1 .. n : run[i] = code[p][i]
      BY <1>3, <1>4
    <3> QED BY <1>4, <2>1, <3>1 DEF Range
  <2> QED BY <1>3, <2>1, <2>2, SeqRange DEF Proper
<1> HIDE DEF run, rest
<1> QED BY <1>2, <1>5 DEF early

LEMMA IssueToPipeData ==
  ASSUME RmaInv, FlagInv, DataInv, NEW p \in PE, IssueToPipe(p)
  PROVE  DataInv'
<1>1. /\ Proper(code[p]) /\ Proper(mte2[p]) /\ Proper(mte3[p]) /\ Proper(nic[p])
      /\ AllOnPEs /\ OnPEs(got) /\ Shaped(p) /\ GotRight(p)
  BY Queues
<1>2. /\ config' = config /\ got' = got /\ mem' = mem /\ ideal' = ideal /\ nic' = nic
  BY DEF IssueToPipe
<1>3. PICK run, rest :
           /\ Proper(run) /\ Proper(rest) /\ code[p] = run \o rest
           /\ \A x \in Range(run) : x.op \in Piped /\ (ToMte2(x) <=> ToMte2(Now(p)))
           /\ code'[p] = rest
           /\ mte2'[p] = IF ToMte2(Now(p)) THEN mte2[p] \o run ELSE mte2[p]
           /\ mte3'[p] = IF ToMte2(Now(p)) THEN mte3[p] ELSE mte3[p] \o run
           /\ \A q \in PE \ {p} : code'[q] = code[q] /\ mte2'[q] = mte2[q] /\ mte3'[q] = mte3[q]
  BY <1>1, IssueParts DEF AllOnPEs
<1>4. /\ Range(code[p]) = Range(run) \cup Range(rest)
      /\ Range(mte2[p] \o run) = Range(mte2[p]) \cup Range(run)
      /\ Range(mte3[p] \o run) = Range(mte3[p]) \cup Range(run)
  <2>1. Range(run \o rest) = Range(run) \cup Range(rest)
    BY <1>3, BothProper
  <2>2. Range(code[p]) = Range(run) \cup Range(rest)
    BY <1>3, <2>1, Zenon
  <2>3. Range(mte2[p] \o run) = Range(mte2[p]) \cup Range(run)
    BY <1>1, <1>3, BothProper
  <2>4. Range(mte3[p] \o run) = Range(mte3[p]) \cup Range(run)
    BY <1>1, <1>3, BothProper
  <2> QED BY <2>2, <2>3, <2>4
<1>5. /\ ~ ToMte2(WaitFull) /\ ~ ToMte2(SetFree) /\ ToMte2(SetFull) /\ ToMte2(WaitFree)
      /\ \A x : x.op = "load" => ToMte2(x)
      /\ \A x : x.op = "store" => ~ ToMte2(x)
  BY DEF ToMte2, WaitFull, SetFree, SetFull, WaitFree
<1>6. Pending[p]' = Pending[p]
  <2>1. Range(code'[p]) \cup Range(mte2'[p]) \cup Range(mte3'[p])
          = Range(code[p]) \cup Range(mte2[p]) \cup Range(mte3[p])
    <3>1. CASE ToMte2(Now(p))
      BY <1>3, <1>4, <3>1
    <3>2. CASE ~ ToMte2(Now(p))
      BY <1>3, <1>4, <3>2
    <3> QED BY <3>1, <3>2
  <2>2. /\ Pending[p] = Range(code[p]) \cup Range(mte2[p]) \cup Range(mte3[p]) \cup Range(nic[p])
        /\ Pending[p]' = Range(code'[p]) \cup Range(mte2'[p]) \cup Range(mte3'[p]) \cup Range(nic'[p])
    BY PendingIs
  <2> QED BY <1>2, <2>1, <2>2
<1>7. PendingLoads[p]' = PendingLoads[p] /\ PendingStores[p]' = PendingStores[p]
  <2>1. /\ PendingLoads[p] = LoadsIn(mte2[p] \o (run \o rest))
        /\ PendingStores[p] = StoresIn(mte3[p] \o (run \o rest))
    <3>1. PendingLoads[p] = LoadsIn(mte2[p] \o code[p]) /\ PendingStores[p] = StoresIn(mte3[p] \o code[p])
      BY PendingIs
    <3> QED BY <1>3, <3>1, Zenon
  <2>2. CASE ToMte2(Now(p))
    <3>1. LoadsIn((mte2[p] \o run) \o rest) = LoadsIn(mte2[p] \o (run \o rest))
      BY <1>1, <1>3, FromPipe
    <3>2. \A i \in Range(run) : i.op # "store" /\ i \notin {WaitFull, SetFree}
      BY <1>3, <1>5, <2>2
    <3>3. StoresIn(mte3[p] \o rest) = StoresIn(mte3[p] \o (run \o rest))
      BY <1>1, <1>3, <3>2, FromPipe
    <3>4. PendingLoads[p]' = LoadsIn((mte2[p] \o run) \o rest) /\ PendingStores[p]' = StoresIn(mte3[p] \o rest)
      BY <1>3, <2>2, PendingIs
    <3> QED BY <2>1, <3>1, <3>3, <3>4, Zenon
  <2>3. CASE ~ ToMte2(Now(p))
    <3>1. StoresIn((mte3[p] \o run) \o rest) = StoresIn(mte3[p] \o (run \o rest))
      BY <1>1, <1>3, FromPipe
    <3>2. \A i \in Range(run) : i.op # "load" /\ i \notin {SetFull, WaitFree}
      BY <1>3, <1>5, <2>3
    <3>3. LoadsIn(mte2[p] \o rest) = LoadsIn(mte2[p] \o (run \o rest))
      BY <1>1, <1>3, <3>2, FromPipe
    <3>4. PendingStores[p]' = StoresIn((mte3[p] \o run) \o rest) /\ PendingLoads[p]' = LoadsIn(mte2[p] \o rest)
      BY <1>3, <2>3, PendingIs
    <3> QED BY <2>1, <3>1, <3>3, <3>4, Zenon
  <2> QED BY <2>2, <2>3
<1>8. Underway(Pending, PendingLoads, PendingStores, mem, ideal)'
  <2>1. \A q \in PE : /\ Pending'[q] = Pending[q] /\ PendingLoads'[q] = PendingLoads[q]
                      /\ PendingStores'[q] = PendingStores[q]
    BY <1>2, <1>3, <1>6, <1>7, PendingIs, PendingMove
  <2>2. \A q \in PE : /\ Pending'[q] \subseteq Pending[q] /\ PendingLoads'[q] = PendingLoads[q]
                      /\ PendingStores'[q] = PendingStores[q]
                      /\ \A i \in Pending[q] : i \in Pending'[q]
    BY <2>1
  <2>3. Underway(Pending', PendingLoads', PendingStores', mem, ideal)
    BY <2>2, QuietStep DEF DataInv
  <2> QED BY <1>2, <2>3
<1>9. Shaped(p)'
  <2>1. LastWord(rest)
    <3>1. LastWord(run \o rest)
      BY <1>1, <1>3 DEF Shaped
    <3> QED BY <1>3, <3>1, LastWordParts
  <2>2. \A i \in Range(run) : IF ToMte2(Now(p)) THEN i.op \in {"load", "set", "wait"}
                                               ELSE i.op \in {"store", "set", "wait"}
    BY <1>3, <1>5 DEF Piped
  <2>3. \A i \in Range(mte2'[p]) : i.op \in {"load", "set", "wait"}
    BY <1>1, <1>3, <1>4, <2>2 DEF Shaped
  <2>4. \A i \in Range(mte3'[p]) : i.op \in {"store", "set", "wait"}
    BY <1>1, <1>3, <1>4, <2>2 DEF Shaped
  <2> QED BY <1>1, <1>2, <1>3, <2>1, <2>3, <2>4 DEF Shaped
<1>10. GotRight(p)' /\ OnPEs(got')
  BY <1>1, <1>2 DEF GotRight
<1> QED BY <1>2, <1>3, <1>8, <1>9, <1>10, DataMove

(* One instruction is issued that no pipe carries out. *)
LEMMA IssuedParts ==
  ASSUME RmaInv, FlagInv, DataInv, NEW p \in PE, code[p] # <<>>, Issued(p), Now(p).op \notin Piped,
         mte2' = mte2, mte3' = mte3
  PROVE  /\ code'[p] = Tail(code[p]) /\ \A q \in PE \ {p} : code'[q] = code[q]
         /\ Range(code[p]) = {Now(p)} \cup Range(code'[p]) /\ Now(p) \in Pending[p]
         /\ PendingLoads[p]' = PendingLoads[p] /\ PendingStores[p]' = PendingStores[p]
         /\ LastWord(code'[p])
         /\ Now(p).op \in Writers => \A j \in Range(code'[p]) : j.op \notin Writers
<1>1. /\ Proper(code[p]) /\ Proper(mte2[p]) /\ Proper(mte3[p]) /\ AllOnPEs /\ Shaped(p)
  BY Queues
<1>2. code'[p] = Tail(code[p]) /\ \A q \in PE \ {p} : code'[q] = code[q]
  BY <1>1 DEF Issued, AllOnPEs, OnPEs
<1> DEFINE h == <<Now(p)>>
           t == Tail(code[p])
<1>3. /\ Proper(h) /\ Proper(t) /\ code[p] = h \o t /\ Range(h) = {Now(p)}
      /\ Range(code[p]) = {Now(p)} \cup Range(t)
  BY <1>1, HeadRange DEF Now
<1>4. LastWord(t) /\ (Now(p).op \in Writers => \A j \in Range(t) : j.op \notin Writers)
  BY <1>1, LastWordTail DEF Shaped, Now
<1>5. t = code'[p]
  BY <1>2
<1> HIDE DEF h, t
<1>6. \A i \in Range(h) : /\ i.op # "load" /\ i \notin {SetFull, WaitFree}
                          /\ i.op # "store" /\ i \notin {WaitFull, SetFree}
  BY <1>3 DEF Piped, SetFull, WaitFull, SetFree, WaitFree
<1>7. /\ LoadsIn(mte2[p] \o t) = LoadsIn(mte2[p] \o (h \o t))
      /\ StoresIn(mte3[p] \o t) = StoresIn(mte3[p] \o (h \o t))
  BY <1>1, <1>3, <1>6, FromPipe
<1>8. PendingLoads[p]' = PendingLoads[p] /\ PendingStores[p]' = PendingStores[p]
  <2>1. /\ PendingLoads[p] = LoadsIn(mte2[p] \o (h \o t)) /\ PendingStores[p] = StoresIn(mte3[p] \o (h \o t))
    <3>1. PendingLoads[p] = LoadsIn(mte2[p] \o code[p]) /\ PendingStores[p] = StoresIn(mte3[p] \o code[p])
      BY PendingIs
    <3> QED BY <1>3, <3>1, Zenon
  <2>2. /\ PendingLoads[p]' = LoadsIn(mte2[p] \o t) /\ PendingStores[p]' = StoresIn(mte3[p] \o t)
    <3>1. PendingLoads[p]' = LoadsIn(mte2'[p] \o code'[p]) /\ PendingStores[p]' = StoresIn(mte3'[p] \o code'[p])
      BY PendingIs
    <3>2. mte2'[p] = mte2[p] /\ mte3'[p] = mte3[p] /\ code'[p] = t
      BY <1>5
    <3> QED BY <3>1, <3>2, Zenon
  <2> QED BY <1>7, <2>1, <2>2, Zenon
<1>9. Now(p) \in Pending[p]
  BY <1>3, PendingIs
<1> QED BY <1>2, <1>3, <1>4, <1>5, <1>8, <1>9

(* A request is posted; a wait is over. *)
LEMMA IssuePostData ==
  ASSUME RmaInv, FlagInv, DataInv, NEW p \in PE, IssuePost(p) \/ Proceed(p)
  PROVE  DataInv'
<1>1. /\ Proper(nic[p]) /\ AllOnPEs /\ OnPEs(got) /\ Shaped(p) /\ GotRight(p)
  BY Queues
<1>2. /\ config' = config /\ got' = got /\ mem' = mem /\ ideal' = ideal /\ mte2' = mte2 /\ mte3' = mte3
      /\ code[p] # <<>> /\ Issued(p) /\ Now(p).op \in {"post", "drain", "roce_quiet", "spin"}
      /\ \/ Now(p).op = "post" /\ nic' = [nic EXCEPT ![p] = Append(@, Now(p))]
         \/ Now(p).op # "post" /\ nic' = nic
  BY DEF IssuePost, Proceed, Is
<1>3. /\ code'[p] = Tail(code[p]) /\ \A q \in PE \ {p} : code'[q] = code[q]
      /\ Range(code[p]) = {Now(p)} \cup Range(code'[p]) /\ Now(p) \in Pending[p]
      /\ PendingLoads[p]' = PendingLoads[p] /\ PendingStores[p]' = PendingStores[p]
      /\ LastWord(code'[p])
  <2>1. Now(p).op \notin Piped
    BY <1>2 DEF Piped
  <2> QED BY <1>2, <2>1, IssuedParts
<1>4. /\ \A q \in PE \ {p} : nic'[q] = nic[q]
      /\ Range(nic'[p]) = Range(nic[p]) \cup IF Now(p).op = "post" THEN {Now(p)} ELSE {}
  <2>1. CASE Now(p).op # "post"
    BY <1>2, <2>1
  <2>2. CASE Now(p).op = "post"
    <3>1. /\ nic'[p] = Append(nic[p], Now(p)) /\ \A q \in PE \ {p} : nic'[q] = nic[q]
      BY <1>1, <1>2, <2>2 DEF AllOnPEs, OnPEs
    <3>2. Range(Append(nic[p], Now(p))) = Range(nic[p]) \cup {Now(p)}
      <4>1. Proper(<<Now(p)>>) /\ Range(<<Now(p)>>) = {Now(p)}
        <5>1. Range(<<Now(p)>>) = {Now(p)} /\ <<Now(p)>> \in Seq({Now(p)})
          BY SingleRange
        <5>2. Now(p).op \notin Flagging
          BY <2>2 DEF Flagging
        <5> QED BY <5>1, <5>2 DEF Proper
      <4>2. Range(nic[p] \o <<Now(p)>>) = Range(nic[p]) \cup Range(<<Now(p)>>)
        BY <1>1, <4>1, BothProper
      <4>3. Append(nic[p], Now(p)) = nic[p] \o <<Now(p)>>
        BY <1>1 DEF Proper
      <4> QED BY <4>1, <4>2, <4>3, Zenon
    <3> QED BY <2>2, <3>1, <3>2
  <2> QED BY <2>1, <2>2
<1>5. /\ Pending'[p] \subseteq Pending[p]
      /\ \A i \in Pending[p] : i \in Pending'[p] \/ (Writes(i) = {} /\ i.op \notin Copiers)
  <2>1. /\ Pending[p] = Range(code[p]) \cup Range(mte2[p]) \cup Range(mte3[p]) \cup Range(nic[p])
        /\ Pending'[p] = Range(code'[p]) \cup Range(mte2[p]) \cup Range(mte3[p]) \cup Range(nic'[p])
    BY <1>2, PendingIs
  <2>2. Now(p).op # "post" => Now(p).op \notin Copiers /\ Writes(Now(p)) = {}
    <3>1. Now(p).op # "post" => Now(p).op \notin Copiers \cup Writers
      BY <1>2, KindsOfOps
    <3> QED BY <3>1, WritesOf
  <2> QED BY <1>3, <1>4, <2>1, <2>2
<1>6. Underway(Pending, PendingLoads, PendingStores, mem, ideal)'
  <2>1. \A q \in PE \ {p} : /\ Pending'[q] = Pending[q] /\ PendingLoads'[q] = PendingLoads[q]
                            /\ PendingStores'[q] = PendingStores[q]
    BY <1>2, <1>3, <1>4, PendingMove
  <2>2. \A q \in PE : /\ Pending'[q] \subseteq Pending[q] /\ PendingLoads'[q] = PendingLoads[q]
                      /\ PendingStores'[q] = PendingStores[q]
                      /\ \A i \in Pending[q] : i \in Pending'[q] \/ (Writes(i) = {} /\ i.op \notin Copiers)
    BY <1>3, <1>5, <2>1, PendingIs
  <2>3. Underway(Pending', PendingLoads', PendingStores', mem, ideal)
    BY <2>2, QuietStep DEF DataInv
  <2> QED BY <1>2, <2>3
<1>7. Shaped(p)'
  BY <1>1, <1>2, <1>3, <1>4 DEF Shaped
<1>8. GotRight(p)' /\ OnPEs(got')
  BY <1>1, <1>2 DEF GotRight
<1> QED BY <1>2, <1>3, <1>4, <1>6, <1>7, <1>8, DataMove

LEMMA AppendRange ==
  ASSUME NEW s, s \in Seq(Range(s)), NEW e
  PROVE  Range(Append(s, e)) = Range(s) \cup {e}
<1> DEFINE X == Range(s) \cup {e}
<1>1. s \in Seq(X) /\ <<e>> \in Seq(X) /\ Range(<<e>>) = {e}
  BY SingleRange
<1>2. Append(s, e) = s \o <<e>>
  OBVIOUS
<1> HIDE DEF X
<1>3. Range(s \o <<e>>) = Range(s) \cup Range(<<e>>)
  BY <1>1, RangeConcat
<1> QED BY <1>1, <1>2, <1>3, Zenon

(* The value read is the one to be read. *)
LEMMA ReadWordData ==
  ASSUME RmaInv, FlagInv, DataInv, NEW p \in PE, ReadWord(p)
  PROVE  DataInv'
<1> DEFINE i == Now(p)
           x == <<i.src.mem, i.src.at>>
<1>1. AllOnPEs /\ OnPEs(got) /\ Shaped(p) /\ GotRight(p)
  BY Queues
<1>2. /\ config' = config /\ mem' = mem /\ ideal' = ideal /\ mte2' = mte2 /\ mte3' = mte3
      /\ nic' = nic /\ code[p] # <<>> /\ Issued(p) /\ i.op \in Readers
      /\ got' = [got EXCEPT ![p] = Append(@, <<Seen(mem, i), Seen(ideal, i)>>)]
  BY DEF ReadWord, Is, Readers
<1>3. /\ code'[p] = Tail(code[p]) /\ \A q \in PE \ {p} : code'[q] = code[q]
      /\ Range(code[p]) = {i} \cup Range(code'[p]) /\ i \in Pending[p]
      /\ PendingLoads[p]' = PendingLoads[p] /\ PendingStores[p]' = PendingStores[p]
      /\ LastWord(code'[p])
  <2>1. i.op \notin Piped
    BY <1>2, KindsOfOps
  <2> QED BY <1>2, <2>1, IssuedParts
<1>4. i.op \notin Copiers /\ Writes(i) = {} /\ Reads(i) = {x}
  <2> HIDE DEF i
  <2> QED BY <1>2, KindsOfOps, WritesOf
<1>5. Underway(Pending, PendingLoads, PendingStores, mem, ideal)
  BY DEF DataInv
<1>6. x \in Everywhere /\ x[1] \in PE /\ \A q \in PE : \A j \in Pending[q] : x \notin Writes(j)
  <2>1. Placed(p, i) /\ Within(Pending[p])
    BY <1>3, <1>5 DEF Underway, Structured
  <2>2. x[1] \in PE /\ x \in Everywhere
    BY <1>2, <1>3, <1>4, <2>1 DEF Placed, Within
  <2>3. ASSUME NEW q \in PE, NEW j \in Pending[q]
        PROVE  x \notin Writes(j)
    <3> HIDE DEF i, x
    <3> QED BY <1>3, <1>4, <1>5, <2>2, <2>3 DEF Underway, Parted
  <2> QED BY <2>2, <2>3
<1>7. Seen(mem, i) = Seen(ideal, i)
  <2>1. Value(ideal, x) = Value(mem, x)
    <3> HIDE DEF x
    <3> QED BY <1>5, <1>6, Quiescent
  <2>2. mem[i.src.mem][i.src.at] = ideal[i.src.mem][i.src.at]
    BY <2>1 DEF Value
  <2> QED BY <2>2 DEF Seen
<1>8. Underway(Pending, PendingLoads, PendingStores, mem, ideal)'
  <2>1. \A q \in PE \ {p} : /\ Pending'[q] = Pending[q] /\ PendingLoads'[q] = PendingLoads[q]
                            /\ PendingStores'[q] = PendingStores[q]
    BY <1>2, <1>3, PendingMove
  <2>2. /\ Pending[p] = Range(code[p]) \cup Range(mte2[p]) \cup Range(mte3[p]) \cup Range(nic[p])
        /\ Pending'[p] = Range(code'[p]) \cup Range(mte2[p]) \cup Range(mte3[p]) \cup Range(nic[p])
    BY <1>2, PendingIs
  <2> HIDE DEF i
  <2>3. \A q \in PE : /\ Pending'[q] \subseteq Pending[q] /\ PendingLoads'[q] = PendingLoads[q]
                      /\ PendingStores'[q] = PendingStores[q]
                      /\ \A j \in Pending[q] : j \in Pending'[q] \/ (Writes(j) = {} /\ j.op \notin Copiers)
    BY <1>3, <1>4, <2>1, <2>2, PendingIs
  <2>4. Underway(Pending', PendingLoads', PendingStores', mem, ideal)
    BY <2>3, QuietStep DEF DataInv
  <2> QED BY <1>2, <2>4
<1>9. Shaped(p)'
  BY <1>1, <1>2, <1>3 DEF Shaped
<1>10. OnPEs(got') /\ GotRight(p)' /\ \A q \in PE \ {p} : got'[q] = got[q]
  <2> DEFINE e == <<Seen(mem, i), Seen(ideal, i)>>
  <2>1. e[1] = e[2]
    BY <1>7
  <2>2. got' = [got EXCEPT ![p] = Append(@, e)]
    BY <1>2
  <2> HIDE DEF e, i
  <2>3. /\ OnPEs(got') /\ got'[p] = Append(got[p], e) /\ \A q \in PE \ {p} : got'[q] = got[q]
    BY <1>1, <2>2 DEF OnPEs
  <2>4. /\ Append(got[p], e) \in Seq(Range(Append(got[p], e)))
        /\ Range(Append(got[p], e)) = Range(got[p]) \cup {e}
    BY <1>1, QueueRange, AppendRange DEF GotRight
  <2>5. got'[p] \in Seq(Range(got'[p])) /\ Range(got'[p]) = Range(got[p]) \cup {e}
    BY <2>3, <2>4, Zenon
  <2> QED BY <1>1, <2>1, <2>3, <2>5 DEF GotRight
<1> QED BY <1>2, <1>3, <1>8, <1>9, <1>10, DataMove

(* The entries of a PE are among what it has under way. *)
LEMMA EntriesPending ==
  ASSUME NEW c, NEW m2, NEW m3, Proper(c), Proper(m2), Proper(m3), NEW u, Range(c) \subseteq u,
         Range(m2) \subseteq u, Range(m3) \subseteq u
  PROVE  /\ \A e \in LoadsIn(m2 \o c) : e[1] \in u
         /\ \A f \in StoresIn(m3 \o c) : f[1] \in u
BY EntryBound

LEMMA StillPending ==
  ASSUME RmaInv, FlagInv, DataInv, NEW p \in PE, Proper(code'[p]), Proper(mte2'[p]), Proper(mte3'[p]),
         \A q \in PE \ {p} :
           code'[q] = code[q] /\ mte2'[q] = mte2[q] /\ mte3'[q] = mte3[q] /\ nic'[q] = nic[q]
  PROVE  /\ \A q \in PE \ {p} : /\ Pending'[q] = Pending[q] /\ PendingLoads'[q] = PendingLoads[q]
                                /\ PendingStores'[q] = PendingStores[q]
         /\ \A q \in PE : /\ \A g \in PendingLoads'[q] : g[1] \in Pending'[q]
                          /\ \A f \in PendingStores'[q] : f[1] \in Pending'[q]
<1>1. \A q \in PE \ {p} : /\ Pending'[q] = Pending[q] /\ PendingLoads'[q] = PendingLoads[q]
                          /\ PendingStores'[q] = PendingStores[q]
  BY PendingMove
<1>2. \A q \in PE : /\ \A g \in PendingLoads[q] : g[1] \in Pending[q]
                    /\ \A f \in PendingStores[q] : f[1] \in Pending[q]
  BY DEF DataInv, Underway, Structured
<1>3. /\ \A g \in PendingLoads'[p] : g[1] \in Pending'[p]
      /\ \A f \in PendingStores'[p] : f[1] \in Pending'[p]
  <2>1. /\ Range(code'[p]) \subseteq Pending'[p] /\ Range(mte2'[p]) \subseteq Pending'[p]
        /\ Range(mte3'[p]) \subseteq Pending'[p]
        /\ PendingLoads'[p] = LoadsIn(mte2'[p] \o code'[p])
        /\ PendingStores'[p] = StoresIn(mte3'[p] \o code'[p])
    BY PendingIs
  <2> QED BY <2>1, EntriesPending
<1> QED BY <1>1, <1>2, <1>3

LEMMA WriteWordData ==
  ASSUME RmaInv, FlagInv, DataInv, NEW p \in PE, WriteWord(p)
  PROVE  DataInv'
<1> DEFINE i == Now(p)
<1>1. /\ Proper(code[p]) /\ Proper(mte2[p]) /\ Proper(mte3[p])
      /\ AllOnPEs /\ OnPEs(got) /\ Shaped(p) /\ GotRight(p)
  BY Queues
<1>2. /\ config' = config /\ got' = got /\ ideal' = ideal /\ mte2' = mte2 /\ mte3' = mte3
      /\ nic' = nic /\ code[p] # <<>> /\ Issued(p) /\ i.op \in Writers
      /\ mem' = Written(mem, i.op, i.dst, i.val)
  BY DEF WriteWord, Is, Writers
<1>3. /\ code'[p] = Tail(code[p]) /\ \A q \in PE \ {p} : code'[q] = code[q]
      /\ Range(code[p]) = {i} \cup Range(code'[p]) /\ i \in Pending[p]
      /\ PendingLoads[p]' = PendingLoads[p] /\ PendingStores[p]' = PendingStores[p]
      /\ LastWord(code'[p])
      /\ \A j \in Range(code'[p]) : j.op \notin Writers
  <2>1. i.op \notin Piped
    BY <1>2, KindsOfOps
  <2> QED BY <1>2, <2>1, IssuedParts
<1> HIDE DEF i
<1>4. Proper(code'[p]) /\ Proper(mte2'[p]) /\ Proper(mte3'[p])
  BY <1>1, <1>2, <1>3, HeadRange
<1>5. /\ \A q \in PE \ {p} : /\ Pending'[q] = Pending[q] /\ PendingLoads'[q] = PendingLoads[q]
                             /\ PendingStores'[q] = PendingStores[q]
      /\ \A q \in PE : /\ \A g \in PendingLoads'[q] : g[1] \in Pending'[q]
                       /\ \A f \in PendingStores'[q] : f[1] \in Pending'[q]
  BY <1>2, <1>3, <1>4, StillPending
<1>6. /\ Pending[p] = Range(code[p]) \cup Range(mte2[p]) \cup Range(mte3[p]) \cup Range(nic[p])
      /\ Pending'[p] = Range(code'[p]) \cup Range(mte2[p]) \cup Range(mte3[p]) \cup Range(nic[p])
  BY <1>2, PendingIs
<1>7. /\ \A q \in PE : /\ Pending'[q] \subseteq Pending[q] /\ PendingLoads'[q] = PendingLoads[q]
                       /\ PendingStores'[q] = PendingStores[q]
      /\ \A q \in PE : \A j \in Pending[q] : j \in Pending'[q] \/ (q = p /\ j = i)
  BY <1>3, <1>5, <1>6, PendingIs
<1>8. \A j \in Pending'[p] : j.op \notin Writers
  <2>1. \A j \in Range(mte2[p]) \cup Range(mte3[p]) \cup Range(nic[p]) : j.op \notin Writers
    BY <1>1 DEF Shaped, Writers
  <2> QED BY <1>3, <1>6, <2>1
<1>9. Underway(Pending', PendingLoads', PendingStores', Written(mem, i.op, i.dst, i.val), ideal)
  <2>1. Underway(Pending, PendingLoads, PendingStores, mem, ideal)
    BY DEF DataInv
  <2>2. WordGoes(Pending, PendingLoads, PendingStores, Pending', PendingLoads', PendingStores', p, i)
    BY <1>3, <1>5, <1>7, <1>8 DEF WordGoes, OneGoes
  <2> QED BY <1>2, <2>1, <2>2, WordStep
<1>10. Underway(Pending, PendingLoads, PendingStores, mem, ideal)'
  BY <1>2, <1>9, Zenon
<1>11. Shaped(p)'
  BY <1>1, <1>2, <1>3 DEF Shaped
<1>12. GotRight(p)' /\ OnPEs(got')
  BY <1>1, <1>2 DEF GotRight
<1> QED BY <1>2, <1>3, <1>10, <1>11, <1>12, DataMove

-----------------------------------------------------------------------------
(* Steps of the pipes and of the network device.                           *)

LEMMA Mte2Data ==
  ASSUME RmaInv, FlagInv, DataInv, NEW p \in PE, Mte2Step(p)
  PROVE  DataInv'
<1> DEFINE h == Head(mte2[p])
<1>1. /\ Proper(code[p]) /\ Proper(mte2[p]) /\ Proper(mte3[p]) /\ FlagsOf(code[p], mte2[p], mte3[p], flag[p])
      /\ AllOnPEs /\ OnPEs(got) /\ Shaped(p) /\ GotRight(p)
  BY Queues
<1>2. /\ config' = config /\ got' = got /\ ideal' = ideal /\ mte3' = mte3 /\ nic' = nic /\ code' = code
      /\ mte2[p] # <<>> /\ mte2' = [mte2 EXCEPT ![p] = Tail(@)] /\ Executes(p, h)
  BY DEF Mte2Step
<1>3. mte2'[p] = Tail(mte2[p]) /\ \A q \in PE \ {p} : mte2'[q] = mte2[q]
  BY <1>1, <1>2 DEF AllOnPEs, OnPEs
<1>4. Range(mte2[p]) = {h} \cup Range(mte2'[p]) /\ Proper(mte2'[p]) /\ h \in Range(mte2[p])
  BY <1>1, <1>2, <1>3, HeadRange
<1>5. PendingLoads[p] = PendingLoads'[p] \cup
        IF h.op = "load" THEN {<<h, Owed(mte2[p], code[p], SetFull), Owed(mte2[p], code[p], WaitFree)>>} ELSE {}
  <2>1. LoadsIn(mte2[p] \o code[p]) = LoadsIn(Tail(mte2[p]) \o code[p]) \cup
          IF h.op = "load" THEN {<<h, Owed(mte2[p], code[p], SetFull), Owed(mte2[p], code[p], WaitFree)>>} ELSE {}
    BY <1>1, <1>2, TakeEntries
  <2>2. PendingLoads[p] = LoadsIn(mte2[p] \o code[p]) /\ PendingLoads'[p] = LoadsIn(mte2'[p] \o code'[p])
    BY PendingIs
  <2>3. LoadsIn(mte2'[p] \o code'[p]) = LoadsIn(Tail(mte2[p]) \o code[p])
    BY <1>2, <1>3, Zenon
  <2> QED BY <2>1, <2>2, <2>3, Zenon
<1>6. PendingStores'[p] = PendingStores[p]
  BY <1>2, PendingIs
<1>7. /\ \A q \in PE \ {p} : /\ Pending'[q] = Pending[q] /\ PendingLoads'[q] = PendingLoads[q]
                             /\ PendingStores'[q] = PendingStores[q]
      /\ \A q \in PE : /\ \A g \in PendingLoads'[q] : g[1] \in Pending'[q]
                       /\ \A f \in PendingStores'[q] : f[1] \in Pending'[q]
  <2>1. Proper(code'[p]) /\ Proper(mte2'[p]) /\ Proper(mte3'[p])
    BY <1>1, <1>2, <1>4
  <2> QED BY <1>2, <1>3, <2>1, StillPending
<1>8. /\ Pending[p] = Range(code[p]) \cup Range(mte2[p]) \cup Range(mte3[p]) \cup Range(nic[p])
      /\ Pending'[p] = Range(code[p]) \cup Range(mte2'[p]) \cup Range(mte3[p]) \cup Range(nic[p])
  BY <1>2, PendingIs
<1> HIDE DEF h
<1>9. /\ \A q \in PE : /\ Pending'[q] \subseteq Pending[q] /\ PendingLoads'[q] \subseteq PendingLoads[q]
                       /\ PendingStores'[q] = PendingStores[q]
      /\ \A q \in PE : \A j \in Pending[q] : j \in Pending'[q] \/ (q = p /\ j = h)
  <2>1. /\ Pending'[p] \subseteq Pending[p] /\ PendingLoads'[p] \subseteq PendingLoads[p]
        /\ PendingStores'[p] = PendingStores[p]
        /\ \A j \in Pending[p] : j \in Pending'[p] \/ j = h
    BY <1>4, <1>5, <1>6, <1>8
  <2> QED BY <1>7, <2>1
<1>10. h.op \in {"load", "set", "wait"}
  BY <1>1, <1>4 DEF Shaped
<1>11. Underway(Pending, PendingLoads, PendingStores, mem, ideal)
  BY DEF DataInv
<1>12. ASSUME h.op = "load"
       PROVE  Underway(Pending, PendingLoads, PendingStores, mem, ideal)'
  <2> DEFINE e == <<h, Owed(mte2[p], code[p], SetFull), Owed(mte2[p], code[p], WaitFree)>>
  <2>1. mem' = Moved(mem, h)
    BY <1>2, <1>12 DEF Executes
  <2>2. /\ e \in PendingLoads[p] /\ e[1] = h
        /\ e[2] = Owed(mte2[p], code[p], SetFull) /\ e[3] = Owed(mte2[p], code[p], WaitFree)
        /\ \A g \in PendingLoads[p] : g \in PendingLoads'[p] \/ g = e
    BY <1>5, <1>12
  <2> HIDE DEF e
  <2>3. \A g \in PendingLoads[p] : g[2] <= Owed(mte2[p], code[p], SetFull)
    <3>1. PendingLoads[p] = LoadsIn(mte2[p] \o code[p])
      BY PendingIs
    <3>2. \A g \in LoadsIn(mte2[p] \o code[p]) : g[2] <= Owed(mte2[p], code[p], SetFull)
      BY <1>1, EntryBound
    <3> QED BY <3>1, <3>2
  <2>4. \A f \in PendingStores[p] : f[3] <= Owed(mte2[p], code[p], WaitFree)
    <3>1. PendingStores[p] = StoresIn(mte3[p] \o code[p])
      BY PendingIs
    <3>2. \A f \in StoresIn(mte3[p] \o code[p]) : f[3] \in Nat /\ f[3] <= Owed(mte3[p], code[p], SetFree)
      BY <1>1, EntryBound
    <3>3. /\ \A x : Times(mte2[p], x, 1) \in Nat /\ Times(mte3[p], x, 1) \in Nat /\ Times(code[p], x, 1) \in Nat
      BY <1>1, ProperTimes
    <3>4. Owed(mte3[p], code[p], SetFree) \in Nat /\ Owed(mte2[p], code[p], WaitFree) \in Nat
      BY <3>3 DEF Owed
    <3>5. Owed(mte2[p], code[p], WaitFree) - Owed(mte3[p], code[p], SetFree) \in Nat
      BY <1>1 DEF FlagsOf, Events
    <3>6. Owed(mte3[p], code[p], SetFree) <= Owed(mte2[p], code[p], WaitFree)
      BY <3>4, <3>5
    <3> QED BY <3>1, <3>2, <3>4, <3>6
  <2>5. \A q \in PE : \A j \in Pending[q] : j \in Pending'[q] \/ (q = p /\ j = e[1])
    BY <1>9, <2>2
  <2>6. \A q \in PE : \A g \in PendingLoads[q] : g \in PendingLoads'[q] \/ (q = p /\ g = e)
    BY <1>7, <2>2
  <2>7. (\A g \in PendingLoads'[p] : g[2] <= e[2]) /\ \A f \in PendingStores[p] : f[3] <= e[3]
    BY <1>9, <2>2, <2>3, <2>4
  <2>8. LoadGoes(Pending, PendingLoads, PendingStores, Pending', PendingLoads', PendingStores', p, e)
    BY <1>7, <1>9, <2>2, <2>5, <2>6, <2>7 DEF LoadGoes
  <2>9. Underway(Pending', PendingLoads', PendingStores', Moved(mem, e[1]), ideal)
    BY <1>11, <2>8, LoadStep
  <2> QED BY <1>2, <2>1, <2>2, <2>9, Zenon
<1>13. ASSUME h.op # "load"
       PROVE  Underway(Pending, PendingLoads, PendingStores, mem, ideal)'
  <2>1. mem' = mem
    BY <1>2, <1>10, <1>13 DEF Executes
  <2>2. PendingLoads'[p] = PendingLoads[p]
    BY <1>5, <1>13
  <2>3. Writes(h) = {} /\ h.op \notin Copiers
    <3>1. h.op \notin Copiers \cup Writers
      BY <1>10, <1>13 DEF Copiers, Writers
    <3> QED BY <3>1, WritesOf
  <2>4. \A q \in PE : /\ Pending'[q] \subseteq Pending[q] /\ PendingLoads'[q] = PendingLoads[q]
                      /\ PendingStores'[q] = PendingStores[q]
    BY <1>7, <1>9, <2>2
  <2>5. \A q \in PE : \A j \in Pending[q] : j \in Pending'[q] \/ (Writes(j) = {} /\ j.op \notin Copiers)
    BY <1>9, <2>3
  <2>6. Underway(Pending', PendingLoads', PendingStores', mem, ideal)
    BY ONLY <1>11, <2>4, <2>5, QuietStep
  <2> QED BY <1>2, <2>1, <2>6, Zenon
<1>14. Underway(Pending, PendingLoads, PendingStores, mem, ideal)'
  BY <1>12, <1>13
<1>15. Shaped(p)'
  BY <1>1, <1>2, <1>4 DEF Shaped
<1>16. GotRight(p)' /\ OnPEs(got')
  BY <1>1, <1>2 DEF GotRight
<1> QED BY <1>2, <1>3, <1>14, <1>15, <1>16, DataMove

LEMMA Mte3Data ==
  ASSUME RmaInv, FlagInv, DataInv, NEW p \in PE, Mte3Step(p)
  PROVE  DataInv'
<1> DEFINE h == Head(mte3[p])
<1>1. /\ Proper(code[p]) /\ Proper(mte3[p]) /\ Proper(mte2[p]) /\ FlagsOf(code[p], mte2[p], mte3[p], flag[p])
      /\ AllOnPEs /\ OnPEs(got) /\ Shaped(p) /\ GotRight(p)
  BY Queues
<1>2. /\ config' = config /\ got' = got /\ ideal' = ideal /\ mte2' = mte2 /\ nic' = nic /\ code' = code
      /\ mte3[p] # <<>> /\ mte3' = [mte3 EXCEPT ![p] = Tail(@)] /\ Executes(p, h)
  BY DEF Mte3Step
<1>3. mte3'[p] = Tail(mte3[p]) /\ \A q \in PE \ {p} : mte3'[q] = mte3[q]
  BY <1>1, <1>2 DEF AllOnPEs, OnPEs
<1>4. Range(mte3[p]) = {h} \cup Range(mte3'[p]) /\ Proper(mte3'[p]) /\ h \in Range(mte3[p])
  BY <1>1, <1>2, <1>3, HeadRange
<1>5. PendingStores[p] = PendingStores'[p] \cup
        IF h.op = "store" THEN {<<h, Owed(mte3[p], code[p], WaitFull), Owed(mte3[p], code[p], SetFree)>>} ELSE {}
  <2>1. StoresIn(mte3[p] \o code[p]) = StoresIn(Tail(mte3[p]) \o code[p]) \cup
          IF h.op = "store" THEN {<<h, Owed(mte3[p], code[p], WaitFull), Owed(mte3[p], code[p], SetFree)>>} ELSE {}
    BY <1>1, <1>2, TakeEntries
  <2>2. PendingStores[p] = StoresIn(mte3[p] \o code[p]) /\ PendingStores'[p] = StoresIn(mte3'[p] \o code'[p])
    BY PendingIs
  <2>3. StoresIn(mte3'[p] \o code'[p]) = StoresIn(Tail(mte3[p]) \o code[p])
    BY <1>2, <1>3, Zenon
  <2> QED BY <2>1, <2>2, <2>3, Zenon
<1>6. PendingLoads'[p] = PendingLoads[p]
  BY <1>2, PendingIs
<1>7. /\ \A q \in PE \ {p} : /\ Pending'[q] = Pending[q] /\ PendingStores'[q] = PendingStores[q]
                             /\ PendingLoads'[q] = PendingLoads[q]
      /\ \A q \in PE : /\ \A g \in PendingStores'[q] : g[1] \in Pending'[q]
                       /\ \A f \in PendingLoads'[q] : f[1] \in Pending'[q]
  <2>1. Proper(code'[p]) /\ Proper(mte3'[p]) /\ Proper(mte2'[p])
    BY <1>1, <1>2, <1>4
  <2> QED BY <1>2, <1>3, <2>1, StillPending
<1>8. /\ Pending[p] = Range(code[p]) \cup Range(mte2[p]) \cup Range(mte3[p]) \cup Range(nic[p])
      /\ Pending'[p] = Range(code[p]) \cup Range(mte2[p]) \cup Range(mte3'[p]) \cup Range(nic[p])
  BY <1>2, PendingIs
<1> HIDE DEF h
<1>9. /\ \A q \in PE : /\ Pending'[q] \subseteq Pending[q] /\ PendingStores'[q] \subseteq PendingStores[q]
                       /\ PendingLoads'[q] = PendingLoads[q]
      /\ \A q \in PE : \A j \in Pending[q] : j \in Pending'[q] \/ (q = p /\ j = h)
  <2>1. /\ Pending'[p] \subseteq Pending[p] /\ PendingStores'[p] \subseteq PendingStores[p]
        /\ PendingLoads'[p] = PendingLoads[p]
        /\ \A j \in Pending[p] : j \in Pending'[p] \/ j = h
    BY <1>4, <1>5, <1>6, <1>8
  <2> QED BY <1>7, <2>1
<1>10. h.op \in {"store", "set", "wait"}
  BY <1>1, <1>4 DEF Shaped
<1>11. Underway(Pending, PendingLoads, PendingStores, mem, ideal)
  BY DEF DataInv
<1>12. ASSUME h.op = "store"
       PROVE  Underway(Pending, PendingLoads, PendingStores, mem, ideal)'
  <2> DEFINE e == <<h, Owed(mte3[p], code[p], WaitFull), Owed(mte3[p], code[p], SetFree)>>
  <2>1. mem' = Moved(mem, h)
    BY <1>2, <1>12 DEF Executes
  <2>2. /\ e \in PendingStores[p] /\ e[1] = h
        /\ e[2] = Owed(mte3[p], code[p], WaitFull) /\ e[3] = Owed(mte3[p], code[p], SetFree)
        /\ \A g \in PendingStores[p] : g \in PendingStores'[p] \/ g = e
    BY <1>5, <1>12
  <2> HIDE DEF e
  <2>4. \A g \in PendingLoads[p] : g[2] <= Owed(mte3[p], code[p], WaitFull)
    <3>1. PendingLoads[p] = LoadsIn(mte2[p] \o code[p])
      BY PendingIs
    <3>2. \A g \in LoadsIn(mte2[p] \o code[p]) : g[2] \in Nat /\ g[2] <= Owed(mte2[p], code[p], SetFull)
      BY <1>1, EntryBound
    <3>3. /\ \A x : Times(mte3[p], x, 1) \in Nat /\ Times(mte2[p], x, 1) \in Nat /\ Times(code[p], x, 1) \in Nat
      BY <1>1, ProperTimes
    <3>4. Owed(mte2[p], code[p], SetFull) \in Nat /\ Owed(mte3[p], code[p], WaitFull) \in Nat
      BY <3>3 DEF Owed
    <3>5. Owed(mte3[p], code[p], WaitFull) - Owed(mte2[p], code[p], SetFull) \in Nat
      BY <1>1 DEF FlagsOf, Events
    <3>6. Owed(mte2[p], code[p], SetFull) <= Owed(mte3[p], code[p], WaitFull)
      BY <3>4, <3>5
    <3> QED BY <3>1, <3>2, <3>4, <3>6
  <2>5. \A q \in PE : \A j \in Pending[q] : j \in Pending'[q] \/ (q = p /\ j = e[1])
    BY <1>9, <2>2
  <2>6. \A q \in PE : \A g \in PendingStores[q] : g \in PendingStores'[q] \/ (q = p /\ g = e)
    BY <1>7, <2>2
  <2>7. \A g \in PendingLoads[p] : g[2] <= e[2]
    BY <2>2, <2>4
  <2>8. StoreGoes(Pending, PendingLoads, PendingStores, Pending', PendingLoads', PendingStores', p, e)
    BY <1>7, <1>9, <2>2, <2>5, <2>6, <2>7 DEF StoreGoes
  <2>9. Underway(Pending', PendingLoads', PendingStores', Moved(mem, e[1]), ideal)
    BY <1>11, <2>8, StoreStep
  <2> QED BY <1>2, <2>1, <2>2, <2>9, Zenon
<1>13. ASSUME h.op # "store"
       PROVE  Underway(Pending, PendingLoads, PendingStores, mem, ideal)'
  <2>1. mem' = mem
    BY <1>2, <1>10, <1>13 DEF Executes
  <2>2. PendingStores'[p] = PendingStores[p]
    BY <1>5, <1>13
  <2>3. Writes(h) = {} /\ h.op \notin Copiers
    <3>1. h.op \notin Copiers \cup Writers
      BY <1>10, <1>13 DEF Copiers, Writers
    <3> QED BY <3>1, WritesOf
  <2>4. \A q \in PE : /\ Pending'[q] \subseteq Pending[q] /\ PendingStores'[q] = PendingStores[q]
                      /\ PendingLoads'[q] = PendingLoads[q]
    BY <1>7, <1>9, <2>2
  <2>5. \A q \in PE : \A j \in Pending[q] : j \in Pending'[q] \/ (Writes(j) = {} /\ j.op \notin Copiers)
    BY <1>9, <2>3
  <2>6. Underway(Pending', PendingLoads', PendingStores', mem, ideal)
    BY ONLY <1>11, <2>4, <2>5, QuietStep
  <2> QED BY <1>2, <2>1, <2>6, Zenon
<1>14. Underway(Pending, PendingLoads, PendingStores, mem, ideal)'
  BY <1>12, <1>13
<1>15. Shaped(p)'
  BY <1>1, <1>2, <1>4 DEF Shaped
<1>16. GotRight(p)' /\ OnPEs(got')
  BY <1>1, <1>2 DEF GotRight
<1> QED BY <1>2, <1>3, <1>14, <1>15, <1>16, DataMove

LEMMA NicData ==
  ASSUME RmaInv, FlagInv, DataInv, NEW p \in PE, NicStep(p)
  PROVE  DataInv'
<1> DEFINE h == Head(nic[p])
<1>1. /\ Proper(code[p]) /\ Proper(mte2[p]) /\ Proper(mte3[p]) /\ Proper(nic[p])
      /\ AllOnPEs /\ OnPEs(got) /\ Shaped(p) /\ GotRight(p)
  BY Queues
<1>2. /\ config' = config /\ got' = got /\ ideal' = ideal /\ mte2' = mte2 /\ mte3' = mte3 /\ code' = code
      /\ nic[p] # <<>> /\ nic' = [nic EXCEPT ![p] = Tail(@)] /\ mem' = Moved(mem, h)
  BY DEF NicStep
<1>3. nic'[p] = Tail(nic[p]) /\ \A q \in PE \ {p} : nic'[q] = nic[q]
  BY <1>1, <1>2 DEF AllOnPEs, OnPEs
<1>4. Range(nic[p]) = {h} \cup Range(nic'[p]) /\ h \in Range(nic[p])
  BY <1>1, <1>2, <1>3, HeadRange
<1>5. \A q \in PE : PendingLoads'[q] = PendingLoads[q] /\ PendingStores'[q] = PendingStores[q]
  BY <1>2, PendingIs
<1>6. /\ \A q \in PE \ {p} : Pending'[q] = Pending[q]
      /\ \A q \in PE : /\ \A g \in PendingLoads'[q] : g[1] \in Pending'[q]
                       /\ \A f \in PendingStores'[q] : f[1] \in Pending'[q]
  <2>1. Proper(code'[p]) /\ Proper(mte2'[p]) /\ Proper(mte3'[p])
    BY <1>1, <1>2
  <2> QED BY <1>2, <1>3, <2>1, StillPending
<1>7. /\ Pending[p] = Range(code[p]) \cup Range(mte2[p]) \cup Range(mte3[p]) \cup Range(nic[p])
      /\ Pending'[p] = Range(code[p]) \cup Range(mte2[p]) \cup Range(mte3[p]) \cup Range(nic'[p])
  BY <1>2, PendingIs
<1>8. h.op = "post"
  BY <1>1, <1>4 DEF Shaped
<1> HIDE DEF h
<1>9. /\ h \in Pending[p] /\ \A q \in PE : Pending'[q] \subseteq Pending[q]
      /\ \A q \in PE : \A j \in Pending[q] : j \in Pending'[q] \/ (q = p /\ j = h)
  <2>1. /\ h \in Pending[p] /\ Pending'[p] \subseteq Pending[p]
        /\ \A j \in Pending[p] : j \in Pending'[p] \/ j = h
    BY <1>4, <1>7
  <2> QED BY <1>6, <2>1
<1>10. Underway(Pending, PendingLoads, PendingStores, mem, ideal)'
  <2>1. Underway(Pending, PendingLoads, PendingStores, mem, ideal)
    BY DEF DataInv
  <2>2. OneGoes(Pending, PendingLoads, PendingStores, Pending', PendingLoads', PendingStores', p, h)
    BY <1>5, <1>6, <1>9 DEF OneGoes
  <2>3. Underway(Pending', PendingLoads', PendingStores', Moved(mem, h), ideal)
    BY <1>8, <2>1, <2>2, PostStep
  <2> QED BY <1>2, <2>3, Zenon
<1>11. Shaped(p)'
  BY <1>1, <1>2, <1>4 DEF Shaped
<1>12. GotRight(p)' /\ OnPEs(got')
  BY <1>1, <1>2 DEF GotRight
<1> QED BY <1>2, <1>3, <1>10, <1>11, <1>12, DataMove

-----------------------------------------------------------------------------
(* A call begins.                                                          *)

LEMMA CopyThere ==
  ASSUME NEW p \in PE, NEW c \in DeviceCalls(p), Copies(c)
  PROVE  CopyOf(p, c).dst.mem \in Memories
<1>1. c.api \in Getting \cup Putting \cup Loading \cup Storing
  BY DEF Copies
<1>2. c.api \in Putting \cup Storing => c.pe \in PE
  <2>1. c.api \in Putting \cup Storing => c.api \in Routed \cup Unrouted \cup Direct
    BY DEF Putting, SignalForms, Storing, Routed, Unrouted, Direct
  <2> QED BY <2>1, ProgramAssumption
<1>3. CopyOf(p, c).dst = IF c.api \in Putting \cup Storing THEN Spot(c.pe, c.dst)
        ELSE IF c.api \in Getting THEN Spot(p, c.dst) ELSE Spot(UbOf(p), c.dst)
  BY CopyForms
<1>4. CopyOf(p, c).dst.mem \in {p, UbOf(p)} \cup IF c.api \in Putting \cup Storing THEN {c.pe} ELSE {}
  BY <1>3 DEF Spot
<1> QED BY <1>2, <1>4, Buffers

LEMMA StartCallData ==
  ASSUME JobInv, NamesInv, RmaInv, FlagInv, DataInv, Careful, NEW p \in PE, StartCall(p)
  PROVE  DataInv'
<1> DEFINE c == Head(todo[p])
           s == Code(p, c)
           a == Times(s, SetFull, 1)
           b == Times(s, WaitFree, 1)
<1>1. /\ Proper(code[p]) /\ Proper(mte2[p]) /\ Proper(mte3[p])
      /\ AllOnPEs /\ OnPEs(got) /\ Wired(p) /\ Shaped(p) /\ GotRight(p)
  BY Queues
<1>2. /\ todo[p] # <<>> /\ code[p] = <<>> /\ code' = [code EXCEPT ![p] = s]
      /\ ideal' = Ideally(ideal, p, c, code'[p])
      /\ config' = config /\ got' = got /\ mem' = mem /\ mte2' = mte2 /\ mte3' = mte3 /\ nic' = nic
  BY DEF StartCall
<1>3. code'[p] = s /\ \A q \in PE \ {p} : code'[q] = code[q]
  BY <1>1, <1>2 DEF AllOnPEs, OnPEs
<1>4. c \in DeviceCalls(p)
  BY <1>1, <1>2 DEF Wired
<1>5. Routes(p, host[p].dev.topo)
  BY <1>1, <1>2, RunRoutes DEF Wired, Busy
<1> HIDE DEF c
<1>6. Does(p, c, s)
  <2>1. \A q \in PE : "mte" \in host[p].dev.topo[q] \/ "roce" \in host[p].dev.topo[q]
    BY <1>5 DEF Routes
  <2> QED BY <1>1, <1>4, <2>1, CodeDoes DEF Wired, Shaped
<1>7. Paired(s)
  <2>1. \A q \in PE : "mte" \in host[p].dev.topo[q] <=> HostOf[q] = HostOf[p]
    BY <1>5 DEF Routes
  <2> QED BY <1>1, <1>4, <2>1, CodeApt DEF Wired, Apt, Complete
<1>8. Copies(c) => CopyOf(p, c).dst.mem \in Memories
  BY <1>4, CopyThere
<1>9. /\ \A i \in Range(s), q \in PE : \A j \in Pending[q] : ~ Meets(i, j)
      /\ Alone(s) /\ Within(Range(s))
      /\ \A i \in Range(s) : i.op = "store" /\ c.api \in Storing =>
           \A x \in Reads(i) : Value(ideal, x) # Spoilt
  <2>1. \A q \in PE : Pending[q] = UnderWay(q)
    BY DEF Pending
  <2>2. /\ \A i \in Range(s), q \in PE : \A j \in UnderWay(q) : ~ Meets(i, j)
        /\ \A i, j \in Range(s) : \A x \in Writes(i) :
             /\ x \in Reads(j) => x[1] \notin PE
             /\ x \in Writes(j) /\ i.op \in Writers => j = i
        /\ \A i \in Range(s) : Writes(i) \cup Reads(i) \subseteq Everywhere
        /\ \A i \in Range(s) : i.op = "store" /\ c.api \in Storing =>
             \A x \in Reads(i) : ideal[x[1]][x[2]] # Spoilt
    BY <1>2, Zenon DEF Careful, c
  <2> QED BY <2>1, <2>2 DEF Alone, Within, Value
<1>10. Proper(s) /\ WordLast(c, s)
  BY <1>6 DEF Does
<1> HIDE DEF s
<1>11. /\ a \in Nat /\ b \in Nat
       /\ LoadsIn(mte2[p] \o s) = {Later(e, a, b) : e \in LoadsIn(mte2[p])} \cup LoadsIn(s)
       /\ StoresIn(mte3[p] \o s) = {Later(e, a, b) : e \in StoresIn(mte3[p])} \cup StoresIn(s)
  BY <1>1, <1>7, <1>10, CallEntries
<1> HIDE DEF a, b
<1>12. /\ PendingLoads[p] = LoadsIn(mte2[p]) /\ PendingStores[p] = StoresIn(mte3[p])
       /\ PendingLoads'[p] = LoadsIn(mte2[p] \o s) /\ PendingStores'[p] = StoresIn(mte3[p] \o s)
  <2>1. mte2[p] \o code[p] = mte2[p] /\ mte3[p] \o code[p] = mte3[p]
    BY <1>1, <1>2, NothingBehind
  <2>2. mte2'[p] \o code'[p] = mte2[p] \o s /\ mte3'[p] \o code'[p] = mte3[p] \o s
    BY <1>2, <1>3
  <2> QED BY <2>1, <2>2, PendingIs
<1>13. /\ Pending[p] = Range(mte2[p]) \cup Range(mte3[p]) \cup Range(nic[p])
       /\ Pending'[p] = Pending[p] \cup Range(s)
  <2>1. Range(code[p]) = {}
    BY <1>2 DEF Range
  <2>2. /\ Pending[p] = Range(code[p]) \cup Range(mte2[p]) \cup Range(mte3[p]) \cup Range(nic[p])
        /\ Pending'[p] = Range(s) \cup Range(mte2[p]) \cup Range(mte3[p]) \cup Range(nic[p])
    BY <1>2, <1>3, PendingIs
  <2> QED BY <2>1, <2>2
<1>14. \A j \in Pending[p] : j.op \notin Writers
  BY <1>1, <1>13 DEF Shaped, Writers
<1>15. \A q \in PE \ {p} : /\ Pending'[q] = Pending[q] /\ PendingLoads'[q] = PendingLoads[q]
                           /\ PendingStores'[q] = PendingStores[q]
  BY <1>2, <1>3, PendingMove
<1>16. CallGoes(Pending, PendingLoads, PendingStores, ideal, Pending', PendingLoads', PendingStores',
                p, c, s, a, b)
  <2>1. /\ \A g \in PendingLoads'[p] : (\E e \in PendingLoads[p] : g = Later(e, a, b)) \/ g \in LoadsIn(s)
        /\ (\A e \in PendingLoads[p] : Later(e, a, b) \in PendingLoads'[p])
        /\ LoadsIn(s) \subseteq PendingLoads'[p]
    BY <1>11, <1>12
  <2>2. \A g \in PendingStores'[p] : (\E f \in PendingStores[p] : g = Later(f, a, b)) \/ g \in StoresIn(s)
    BY <1>11, <1>12
  <2> QED BY <1>6, <1>8, <1>9, <1>11, <1>13, <1>14, <1>15, <2>1, <2>2 DEF CallGoes
<1>17. Underway(Pending, PendingLoads, PendingStores, mem, ideal)'
  <2>1. Underway(Pending, PendingLoads, PendingStores, mem, ideal)
    BY DEF DataInv
  <2>2. Underway(Pending', PendingLoads', PendingStores', mem, Ideally(ideal, p, c, s))
    BY <1>16, <2>1, CallStep
  <2>3. ideal' = Ideally(ideal, p, c, s)
    BY <1>2, <1>3
  <2> QED BY <1>2, <2>2, <2>3, Zenon
<1>18. Shaped(p)'
  <2>1. LastWord(s)
    BY <1>10 DEF WordLast, LastWord
  <2> QED BY <1>1, <1>2, <1>3, <2>1 DEF Shaped
<1>19. GotRight(p)' /\ OnPEs(got')
  BY <1>1, <1>2 DEF GotRight
<1> QED BY <1>2, <1>3, <1>17, <1>18, <1>19, DataMove

-----------------------------------------------------------------------------
(* The steps that touch neither the queues nor the memories.               *)

LEMMA SameUnderway ==
  ASSUME DataInv, code' = code, mte2' = mte2, mte3' = mte3, nic' = nic, mem' = mem, ideal' = ideal
  PROVE  Underway(Pending, PendingLoads, PendingStores, mem, ideal)'
<1>1. Pending' = Pending /\ PendingLoads' = PendingLoads /\ PendingStores' = PendingStores
  BY DEF Pending, PendingLoads, PendingStores, UnderWay
<1>2. Underway(Pending, PendingLoads, PendingStores, mem, ideal)
  BY DEF DataInv
<1>3. Underway(Pending', PendingLoads', PendingStores', mem', ideal')
  BY <1>1, <1>2, Zenon
<1> QED BY <1>3

LEMMA AsideData ==
  ASSUME DataInv, code' = code, mte2' = mte2, mte3' = mte3, nic' = nic, mem' = mem, ideal' = ideal,
         config' = config, got' = got
  PROVE  DataInv'
<1>1. \A p \in PE : Shaped(p)' /\ GotRight(p)'
  BY DEF DataInv, Shaped, GotRight
<1>2. OnPEs(got')
  BY DEF DataInv
<1> QED BY <1>1, <1>2, SameUnderway DEF DataInv

LEMMA ParamsData ==
  ASSUME RmaInv, FlagInv, DataInv, NEW p \in PE, shmem_mte_set_ub_params(p)
  PROVE  DataInv'
<1> DEFINE c == Head(script[p])
<1>1. AllOnPEs /\ OnPEs(got) /\ Wired(p) /\ Shaped(p) /\ GotRight(p)
  BY Queues
<1>2. /\ config' = [config EXCEPT ![p] = [shmem_ub |-> c.at, ub_size |-> c.size]]
      /\ script[p] # <<>> /\ c.api = "set_ub_params"
      /\ code' = code /\ mte2' = mte2 /\ mte3' = mte3 /\ nic' = nic /\ mem' = mem /\ ideal' = ideal
      /\ got' = got
  BY DEF shmem_mte_set_ub_params, Calling, deviceVars
<1>3. c \in HostCalls(p)
  BY <1>1, <1>2, CalledWired DEF Wired
<1> HIDE DEF c
<1>4. c.at \in Nat
  BY <1>2, <1>3, ArgumentAssumption
<1>5. config'[p].shmem_ub = c.at /\ \A q \in PE \ {p} : config'[q] = config[q]
  BY <1>1, <1>2 DEF AllOnPEs, OnPEs
<1>6. Shaped(p)' /\ GotRight(p)' /\ OnPEs(got')
  BY <1>1, <1>2, <1>4, <1>5 DEF Shaped, GotRight
<1> QED BY <1>2, <1>5, <1>6, SameUnderway, DataMove

(* The host reads the value to be read. *)
LEMMA HostReadData ==
  ASSUME RmaInv, FlagInv, DataInv, Careful, NEW p \in PE, shmem_g_host(p)
  PROVE  DataInv'
<1> DEFINE c == Head(script[p])
           x == <<c.pe, c.src>>
           e == <<mem[c.pe][c.src], ideal[c.pe][c.src]>>
<1>1. AllOnPEs /\ OnPEs(got) /\ Shaped(p) /\ GotRight(p)
  BY Queues
<1>2. /\ got' = [got EXCEPT ![p] = IF HostPtrValid(p, c.src, c.pe) THEN Append(@, e) ELSE @]
      /\ code' = code /\ mte2' = mte2 /\ mte3' = mte3 /\ nic' = nic /\ mem' = mem /\ ideal' = ideal
      /\ config' = config /\ Calling(p, {"host_g"})
  BY DEF shmem_g_host
<1>3. \A q \in PE : \A i \in Pending[q] : x \notin Writes(i)
  BY <1>2 DEF Careful, Pending
<1> HIDE DEF c
<1>4. ASSUME HostPtrValid(p, c.src, c.pe)
      PROVE  e[1] = e[2]
  <2>1. x \in Everywhere /\ x[1] \in PE
    <3>1. c.pe \in PE /\ c.src \in 0 .. HeapSize - 1
      BY <1>4 DEF HostPtrValid, Cells
    <3>2. c.pe \in Memories /\ Size(c.pe) = HeapSize
      BY <3>1, Buffers DEF Size
    <3>3. <<c.pe, c.src>> \in Everywhere
      BY <3>1, <3>2, CellIs
    <3> QED BY <3>1, <3>3
  <2>2. Value(ideal, x) = Value(mem, x)
    <3>1. Underway(Pending, PendingLoads, PendingStores, mem, ideal)
      BY DEF DataInv
    <3> HIDE DEF x
    <3> QED BY <1>3, <2>1, <3>1, Quiescent
  <2> QED BY <2>2 DEF Value
<1> HIDE DEF e, x
<1>5. /\ OnPEs(got') /\ \A q \in PE \ {p} : got'[q] = got[q]
      /\ got'[p] = IF HostPtrValid(p, c.src, c.pe) THEN Append(got[p], e) ELSE got[p]
  BY <1>1, <1>2 DEF OnPEs
<1>6. /\ Append(got[p], e) \in Seq(Range(Append(got[p], e)))
      /\ Range(Append(got[p], e)) = Range(got[p]) \cup {e}
  BY <1>1, QueueRange, AppendRange DEF GotRight
<1>7. GotRight(p)'
  <2>1. CASE HostPtrValid(p, c.src, c.pe)
    <3>1. got'[p] \in Seq(Range(got'[p])) /\ Range(got'[p]) = Range(got[p]) \cup {e}
      <4>1. got'[p] = Append(got[p], e)
        BY <1>5, <2>1
      <4> QED BY <1>6, <4>1, Zenon
    <3> QED BY <1>1, <1>4, <2>1, <3>1 DEF GotRight
  <2>2. CASE ~ HostPtrValid(p, c.src, c.pe)
    BY <1>1, <1>5, <2>2 DEF GotRight
  <2> QED BY <2>1, <2>2
<1>8. Shaped(p)'
  BY <1>1, <1>2 DEF Shaped
<1> QED BY <1>2, <1>5, <1>7, <1>8, SameUnderway, DataMove

-----------------------------------------------------------------------------
(* The invariant from first to last.                                       *)

LEMMA DataInitInv == RmaInit => DataInv
<1> SUFFICES ASSUME RmaInit PROVE DataInv
  OBVIOUS
<1>1. ASSUME NEW p \in PE
      PROVE  /\ code[p] = <<>> /\ mte2[p] = <<>> /\ mte3[p] = <<>> /\ nic[p] = <<>> /\ got[p] = <<>>
             /\ config[p].shmem_ub = 0
  BY DEF RmaInit
<1>2. OnPEs(got)
  BY DEF RmaInit, OnPEs
<1>3. ASSUME NEW p \in PE
      PROVE  Shaped(p) /\ GotRight(p)
  <2>1. Range(<<>>) = {} /\ LastWord(<<>>) /\ <<>> \in Seq({})
    BY DEF Range, LastWord
  <2>2. Shaped(p)
    BY <1>1, <2>1 DEF Shaped
  <2>3. Range(got[p]) = {} /\ got[p] \in Seq({})
    BY <1>1, <2>1
  <2>4. GotRight(p)
    BY <2>3 DEF GotRight
  <2> QED BY <2>2, <2>4
<1>4. ASSUME NEW p \in PE
      PROVE  Pending[p] = {} /\ PendingLoads[p] = {} /\ PendingStores[p] = {}
  <2>1. Range(<<>>) = {} /\ <<>> \o <<>> = <<>> /\ LoadsIn(<<>>) = {} /\ StoresIn(<<>>) = {}
    BY DEF Range, LoadsIn, StoresIn, Entries
  <2>2. /\ Pending[p] = Range(code[p]) \cup Range(mte2[p]) \cup Range(mte3[p]) \cup Range(nic[p])
        /\ PendingLoads[p] = LoadsIn(mte2[p] \o code[p])
        /\ PendingStores[p] = StoresIn(mte3[p] \o code[p])
    BY PendingIs
  <2> QED BY <1>1, <2>1, <2>2
<1>5. /\ ideal = mem /\ mem = [m \in Memories |-> [i \in 0 .. Size(m) - 1 |-> Fresh(m, i)]]
  BY DEF RmaInit
<1>6. Stocked(mem) /\ Stocked(ideal)
  BY <1>5 DEF Stocked
<1>7. Numbers(mem)
  <2> SUFFICES ASSUME NEW x \in Everywhere PROVE Value(mem, x) \in Int
    BY DEF Numbers
  <2>1. x[1] \in Memories /\ x[2] \in 0 .. Size(x[1]) - 1
    BY EverywhereIs
  <2>2. Value(mem, x) = Fresh(x[1], x[2])
    BY <1>5, <2>1 DEF Value
  <2>3. x[1] \in Int /\ x[2] \in Int /\ HeapSize \in Int
    BY <2>1, JobAssumption DEF Memories
  <2>4. x[1] * HeapSize \in Int
    BY <2>3
  <2>5. Fresh(x[1], x[2]) \in Int
    BY <2>3, <2>4 DEF Fresh
  <2> QED BY <2>2, <2>5
<1>8. Settled(Pending, mem, ideal)
  <2> SUFFICES ASSUME NEW x \in Everywhere PROVE Settles(Pending, mem, ideal, x)
    BY DEF Settled
  <2>1. \A q \in PE : Adds(Pending[q], x) = 0
    BY <1>4 DEF Adds
  <2>2. Totals(Pending, x, 0)
    BY <2>1, NothingAdded
  <2>3. Value(mem, x) \in Int /\ Value(ideal, x) = Value(mem, x)
    BY <1>5, <1>7 DEF Numbers
  <2> QED BY <2>2, <2>3 DEF Settles
<1>9. Structured(Pending, PendingLoads, PendingStores) /\ Parted(Pending) /\ InTurn(PendingLoads, PendingStores)
      /\ Owing(Pending, PendingLoads, PendingStores, mem, ideal)
  BY <1>4 DEF Structured, Parted, InTurn, Owing, Within, OneWord
<1> QED BY <1>2, <1>3, <1>6, <1>7, <1>8, <1>9 DEF DataInv, Underway

LEMMA DataStep ==
  JobInv /\ NamesInv /\ RmaInv /\ FlagInv /\ DataInv /\ Careful /\ [Next]_vars => DataInv'
<1> SUFFICES ASSUME JobInv, NamesInv, RmaInv, FlagInv, DataInv, Careful, [Next]_vars PROVE DataInv'
  OBVIOUS
<1>1. CASE UNCHANGED vars \/ UNCHANGED rmaVars
  BY <1>1, AsideData DEF vars, rmaVars, deviceVars
<1>2. CASE Decide
  BY <1>2, AsideData DEF Decide, deviceVars
<1>3. ASSUME NEW p \in PE, Works(p)
      PROVE  DataInv'
  <2>1. CASE StartKernel(p) \/ HostPosts(p) \/ Synchronize(p)
    BY <2>1, AsideData DEF StartKernel, HostPosts, Synchronize, deviceVars
  <2>2. CASE StartCall(p)
    BY <2>2, StartCallData
  <2>3. CASE IssueToPipe(p)
    BY <2>3, IssueToPipeData
  <2>4. CASE IssuePost(p) \/ Proceed(p)
    BY <2>4, IssuePostData
  <2>5. CASE WriteWord(p)
    BY <2>5, WriteWordData
  <2>6. CASE ReadWord(p)
    BY <2>6, ReadWordData
  <2>7. CASE Mte2Step(p) \/ Mte3Step(p)
    BY <2>7, Mte2Data, Mte3Data
  <2>8. CASE NicStep(p)
    BY <2>8, NicData
  <2>9. CASE shmem_g_host(p)
    BY <2>9, HostReadData
  <2>10. CASE shmem_mte_set_ub_params(p)
    BY <2>10, ParamsData
  <2> QED BY <1>3, <2>1, <2>2, <2>3, <2>4, <2>5, <2>6, <2>7, <2>8, <2>9, <2>10 DEF Works, Core, HostAtWork
<1> QED BY <1>1, <1>2, <1>3 DEF Next

(* The memories are functions on their cells. *)
Cellwise(m) == m = [q \in Memories |-> [a \in 0 .. Size(q) - 1 |-> m[q][a]]]
ShapeInv == Cellwise(mem) /\ Cellwise(ideal)

LEMMA CellwiseIs ==
  ASSUME NEW m, Cellwise(m), NEW q \in Memories
  PROVE  /\ DOMAIN m = Memories /\ DOMAIN m[q] = 0 .. Size(q) - 1
         /\ m[q] = [a \in 0 .. Size(q) - 1 |-> m[q][a]]
<1> DEFINE f(r) == [a \in 0 .. Size(r) - 1 |-> m[r][a]]
           n == [r \in Memories |-> f(r)]
<1>1. m = n
  BY DEF Cellwise
<1>2. n[q] = f(q) /\ DOMAIN n = Memories
  OBVIOUS
<1>3. m[q] = f(q) /\ DOMAIN m = Memories
  BY <1>1, <1>2
<1>4. DOMAIN f(q) = 0 .. Size(q) - 1
  OBVIOUS
<1> QED BY <1>3, <1>4

(* A function on the memories whose values are functions on their cells. *)
LEMMA CellwiseOf ==
  ASSUME NEW m, m = [q \in Memories |-> m[q]],
         \A q \in Memories : m[q] = [a \in 0 .. Size(q) - 1 |-> m[q][a]]
  PROVE  Cellwise(m)
<1>1. [q \in Memories |-> m[q]] = [q \in Memories |-> [a \in 0 .. Size(q) - 1 |-> m[q][a]]]
  OBVIOUS
<1> QED BY <1>1, Zenon DEF Cellwise

(* One memory is replaced by a function on its cells. *)
Celled(k, g) == g = [a \in 0 .. Size(k) - 1 |-> g[a]]

LEMMA CellwiseExcept ==
  ASSUME NEW m, Cellwise(m), NEW k, NEW g, k \in Memories => Celled(k, g)
  PROVE  Cellwise([m EXCEPT ![k] = g])
<1> DEFINE n == [m EXCEPT ![k] = g]
<1>1. DOMAIN m = Memories /\ m = [q \in Memories |-> m[q]]
  BY DEF Cellwise
<1>2. n = [q \in Memories |-> n[q]] /\ \A q \in Memories : n[q] = IF q = k THEN g ELSE m[q]
  BY <1>1
<1> HIDE DEF n
<1>3. ASSUME NEW q \in Memories
      PROVE  n[q] = [a \in 0 .. Size(q) - 1 |-> n[q][a]]
  <2>1. m[q] = [a \in 0 .. Size(q) - 1 |-> m[q][a]]
    BY CellwiseIs
  <2>2. CASE q = k
    <3>1. n[q] = g
      BY <1>2, <2>2
    <3>2. g = [a \in 0 .. Size(q) - 1 |-> g[a]]
      BY <2>2 DEF Celled
    <3> QED BY <3>1, <3>2, Zenon
  <2>3. CASE q # k
    <3>1. n[q] = m[q]
      BY <1>2, <2>3
    <3> QED BY <2>1, <3>1, Zenon
  <2> QED BY <2>2, <2>3
<1>4. Cellwise(n)
  BY <1>2, <1>3, CellwiseOf
<1> QED BY <1>4 DEF n

LEMMA CellwiseMoves ==
  ASSUME NEW m, Cellwise(m)
  PROVE  /\ \A i : Cellwise(Moved(m, i))
         /\ \A op, x, val : Cellwise(Written(m, op, x, val))
         /\ \A p, s : Cellwise(Spoiled(m, p, s))
<1>1. ASSUME NEW i
      PROVE  Cellwise(Moved(m, i))
  <2> DEFINE k == i.dst.mem
             g == [a \in DOMAIN m[k] |-> IF InCopy(i, a) THEN m[i.src.mem][Origin(i, a)] ELSE m[k][a]]
  <2>1. k \in Memories => Celled(k, g)
    BY CellwiseIs DEF Celled
  <2>2. Moved(m, i) = [m EXCEPT ![k] = g]
    BY DEF Moved
  <2> HIDE DEF g, k
  <2>3. Cellwise([m EXCEPT ![k] = g])
    BY <2>1, CellwiseExcept
  <2> QED BY <2>2, <2>3, Zenon
<1>2. ASSUME NEW op, NEW x, NEW val
      PROVE  Cellwise(Written(m, op, x, val))
  <2> DEFINE k == x.mem
             g == [m[k] EXCEPT ![x.at] = IF op = "set_word" THEN val ELSE @ + val]
  <2>1. k \in Memories => Celled(k, g)
    BY CellwiseIs DEF Celled
  <2>2. Written(m, op, x, val) = [m EXCEPT ![k] = g]
    BY DEF Written
  <2> HIDE DEF g, k
  <2>3. Cellwise([m EXCEPT ![k] = g])
    BY <2>1, CellwiseExcept
  <2> QED BY <2>2, <2>3, Zenon
<1>3. ASSUME NEW p, NEW s
      PROVE  Cellwise(Spoiled(m, p, s))
  <2> DEFINE k == UbOf(p)
             g == [a \in DOMAIN m[k] |-> IF \E i \in Range(s) : i.op = "load" /\ InCopy(i, a) THEN Spoilt ELSE m[k][a]]
  <2>1. k \in Memories => Celled(k, g)
    BY CellwiseIs DEF Celled
  <2>2. Spoiled(m, p, s) = [m EXCEPT ![k] = g]
    BY DEF Spoiled
  <2> HIDE DEF g, k
  <2>3. Cellwise([m EXCEPT ![k] = g])
    BY <2>1, CellwiseExcept
  <2> QED BY <2>2, <2>3, Zenon
<1> QED BY <1>1, <1>2, <1>3

LEMMA CellwiseIdeally ==
  ASSUME NEW m, Cellwise(m), NEW p, NEW c, NEW s
  PROVE  Cellwise(Ideally(m, p, c, s))
<1> DEFINE moved == Moved(m, CopyOf(p, c))
           copied == IF ~ Copies(c) THEN m
                     ELSE IF Staged(c) THEN Spoiled(moved, p, s) ELSE moved
<1>1. Cellwise(moved)
  BY CellwiseMoves
<1> HIDE DEF moved
<1>2. Cellwise(Spoiled(moved, p, s))
  BY <1>1, CellwiseMoves
<1>3. Cellwise(copied)
  BY <1>1, <1>2
<1> HIDE DEF copied
<1>4. \A op, x, val : Cellwise(Written(copied, op, x, val))
  BY <1>3, CellwiseMoves
<1>5. Ideally(m, p, c, s) = CASE Announces(c) -> Written(copied, IF c.sigop = "set" THEN "set_word" ELSE "add_word",
                              Spot(c.pe, c.sig), c.val)
    [] c.api = "p" -> Written(copied, "set_word", Spot(c.pe, c.dst), c.val)
    [] OTHER -> copied
  BY Zenon DEF Ideally, copied, moved
<1> QED BY <1>3, <1>4, <1>5

LEMMA ShapeStep == ShapeInv /\ [Next]_vars => ShapeInv'
<1> SUFFICES ASSUME ShapeInv, [Next]_vars PROVE ShapeInv'
  OBVIOUS
<1>1. CASE mem' = mem /\ ideal' = ideal
  BY <1>1 DEF ShapeInv
<1>2. CASE /\ ideal' = ideal
           /\ (\E x : mem' = Moved(mem, x)) \/ \E op, x, val : mem' = Written(mem, op, x, val)
  BY <1>2, CellwiseMoves DEF ShapeInv
<1>3. CASE UNCHANGED vars \/ UNCHANGED rmaVars
  BY <1>1, <1>3 DEF vars, rmaVars, deviceVars
<1>4. CASE Decide
  BY <1>1, <1>4 DEF Decide, deviceVars
<1>5. ASSUME NEW p \in PE, Works(p)
      PROVE  ShapeInv'
  <2>1. CASE StartKernel(p) \/ IssueToPipe(p) \/ IssuePost(p) \/ ReadWord(p) \/ Proceed(p)
    BY <1>1, <2>1 DEF StartKernel, IssueToPipe, IssuePost, ReadWord, Proceed
  <2>2. CASE HostAtWork(p)
    BY <1>1, <2>2 DEF HostAtWork, HostPosts, shmem_g_host, shmem_mte_set_ub_params, Synchronize,
      deviceVars
  <2>3. CASE WriteWord(p)
    BY <1>2, <2>3 DEF WriteWord
  <2>4. CASE Mte2Step(p) \/ Mte3Step(p)
    BY <1>1, <1>2, <2>4 DEF Mte2Step, Mte3Step, Executes
  <2>5. CASE NicStep(p)
    BY <1>2, <2>5 DEF NicStep
  <2>6. CASE StartCall(p)
    <3>1. mem' = mem /\ ideal' = Ideally(ideal, p, Head(todo[p]), code'[p])
      BY <2>6 DEF StartCall
    <3> QED BY <3>1, CellwiseIdeally DEF ShapeInv
  <2> QED BY <1>5, <2>1, <2>2, <2>3, <2>4, <2>5, <2>6 DEF Works, Core
<1> QED BY <1>3, <1>4, <1>5 DEF Next

(* When nothing is under way the heaps hold what the calls mean them to.   *)
LEMMA InvDelivered == RmaInv /\ FlagInv /\ DataInv /\ ShapeInv => Delivered
<1> SUFFICES ASSUME RmaInv, FlagInv, DataInv, ShapeInv,
                    \A p \in PE : /\ todo[p] = <<>> /\ code[p] = <<>> /\ mte2[p] = <<>> /\ mte3[p] = <<>>
                                  /\ nic[p] = <<>>
             PROVE  /\ \A q \in PE : mem[q] = ideal[q]
                    /\ \A p \in PE : \A k \in 1 .. Len(got[p]) : got[p][k][1] = got[p][k][2]
  BY DEF Delivered
<1>1. \A p \in PE : Pending[p] = {}
  BY DEF Pending, UnderWay, Range
<1>2. ASSUME NEW q \in PE
      PROVE  mem[q] = ideal[q]
  <2>1. ASSUME NEW a \in 0 .. Size(q) - 1
        PROVE  mem[q][a] = ideal[q][a]
    <3>1. <<q, a>> \in Everywhere
      BY Buffers, CellIs
    <3> DEFINE x == <<q, a>>
    <3>2. Value(ideal, x) = Value(mem, x)
      <4>1. Underway(Pending, PendingLoads, PendingStores, mem, ideal)
        BY DEF DataInv
      <4>2. x \in Everywhere /\ x[1] \in PE
        BY <3>1
      <4> HIDE DEF x
      <4> QED BY <1>1, <4>1, <4>2, Quiescent
    <3> QED BY <3>2 DEF Value
  <2>2. /\ mem[q] = [a \in 0 .. Size(q) - 1 |-> mem[q][a]]
        /\ ideal[q] = [a \in 0 .. Size(q) - 1 |-> ideal[q][a]]
    BY Buffers, CellwiseIs DEF ShapeInv
  <2>3. [a \in 0 .. Size(q) - 1 |-> mem[q][a]] = [a \in 0 .. Size(q) - 1 |-> ideal[q][a]]
    BY <2>1
  <2> QED BY <2>2, <2>3, Zenon
<1>3. ASSUME NEW p \in PE, NEW k \in 1 .. Len(got[p])
      PROVE  got[p][k][1] = got[p][k][2]
  <2>1. got[p] \in Seq(Range(got[p])) /\ \A x \in Range(got[p]) : x[1] = x[2]
    BY DEF DataInv, GotRight
  <2>2. got[p][k] \in Range(got[p])
    BY <2>1 DEF Range
  <2> QED BY <2>1, <2>2
<1> QED BY <1>2, <1>3

(* For every job and every program: as long as the calls of its PEs are    *)
(* ordered as Careful says, every heap holds, whenever nothing is under    *)
(* way, what the calls mean it to, and every value that was read is the    *)
(* one to be read, whatever the sizes of copies and buffers, however the   *)
(* copies are cut into blocks, and however far the pipes and the network   *)
(* devices lag behind the cores.                                           *)
THEOREM CarefulDelivered == Spec => ([]Careful => []Delivered)
<1> DEFINE Inv == JobInv /\ NamesInv /\ RmaInv /\ FlagInv /\ DataInv /\ ShapeInv
<1>1. Init => Inv
  <2>1. Init => ShapeInv
    BY DEF Init, RmaInit, ShapeInv, Cellwise
  <2> QED BY <2>1, InitInv, NamesInit, RmaInitInv, FlagInitInv, DataInitInv DEF Init
<1>2. Inv /\ Careful /\ [Next]_vars => Inv'
  BY StepInv, HostsOnly, NamesStep, RmaStep, FlagsStep, DataStep, ShapeStep
<1>3. Inv => Delivered
  BY InvDelivered
<1> HIDE DEF Inv
<1> QED BY <1>1, <1>2, <1>3, PTL DEF Spec

-----------------------------------------------------------------------------
(* Signals: the copies of an announced cell that are under way belong to a *)
(* call that is still to drain the pipes, and to write the word after it.  *)

Latter(s) == \A k, l \in 1 .. Len(s) : k < l /\ s[k].op = "drain" => s[l].op \in Writers
Announcing(s, a, m) ==
  /\ Latter(s) /\ Drains(s)
  /\ \E i \in Range(s) : /\ i.op \in Writers /\ Writes(i) = {a.word}
                         /\ i.op = "set_word" => Value(m, a.word) # i.val
Announced(a) ==
  /\ a.cells \subseteq Everywhere /\ \A x \in a.cells : x[1] \in PE
  /\ a.word \in Everywhere /\ a.word[1] \in PE /\ a.word \notin a.cells
  /\ \A q \in PE : \A j \in Pending[q] :
       Writes(j) \cap a.cells # {} => j.op = "store" /\ Announcing(code[q], a, mem)

(* Words are added to upwards, and set by one PE at a time. *)
Upwards(u) == \A i \in u : i.op = "add_word" => i.val > 0
Apart(u, v) == \A i \in u, j \in v : i.op = "set_word" => Writes(i) \cap Writes(j) = {}

TellInv ==
  /\ \A a \in promise : Announced(a)
  /\ \A q \in PE : Upwards(Pending[q])
  /\ \A p, q \in PE : p # q => Apart(Pending[p], Pending[q])

(* Cells: words are what they were for those that are still to set them. *)
LEMMA AnnouncingStill ==
  ASSUME NEW s, NEW a, NEW m, NEW n, Announcing(s, a, m),
         \A i \in Range(s) : i.op = "set_word" => \A x \in Writes(i) : Value(n, x) = Value(m, x)
  PROVE  Announcing(s, a, n)
<1>1. PICK i \in Range(s) : /\ i.op \in Writers /\ Writes(i) = {a.word}
                            /\ i.op = "set_word" => Value(m, a.word) # i.val
  BY DEF Announcing
<1>2. i.op = "set_word" => Value(n, a.word) = Value(m, a.word)
  BY <1>1
<1> QED BY <1>1, <1>2 DEF Announcing

(* A step of PE p that calls nothing. *)
Keeps(p) ==
  /\ promise' = promise
  /\ \A q \in PE : Pending'[q] \subseteq Pending[q]
  /\ \A q \in PE \ {p} : code'[q] = code[q]
  /\ \A a : \A j \in Pending'[p] :
       j.op = "store" /\ Announcing(code[p], a, mem) => Announcing(code'[p], a, mem)
  /\ \A q \in PE : \A i \in Range(code'[q]) : i.op = "set_word" =>
       \A x \in Writes(i) : Value(mem', x) = Value(mem, x)

LEMMA TellMove ==
  ASSUME TellInv, NEW p \in PE, Keeps(p)
  PROVE  TellInv'
<1>1. ASSUME NEW a \in promise'
      PROVE  Announced(a)'
  <2>1. Announced(a)
    BY DEF TellInv, Keeps
  <2>2. ASSUME NEW q \in PE, NEW j \in Pending'[q], Writes(j) \cap a.cells # {}
        PROVE  j.op = "store" /\ Announcing(code'[q], a, mem')
    <3>1. j.op = "store" /\ Announcing(code[q], a, mem)
      BY <2>1, <2>2 DEF Announced, Keeps
    <3>2. Announcing(code'[q], a, mem)
      <4>1. CASE q = p
        BY <2>2, <3>1, <4>1 DEF Keeps
      <4>2. CASE q # p
        <5>1. code'[q] = code[q]
          BY <4>2 DEF Keeps
        <5> QED BY <3>1, <5>1, Zenon
      <4> QED BY <4>1, <4>2
    <3>3. \A i \in Range(code'[q]) : i.op = "set_word" =>
            \A x \in Writes(i) : Value(mem', x) = Value(mem, x)
      BY DEF Keeps
    <3>4. Announcing(code'[q], a, mem')
      BY <3>2, <3>3, AnnouncingStill
    <3> QED BY <3>1, <3>4
  <2> QED BY <2>1, <2>2 DEF Announced
<1>2. \A q \in PE : Upwards(Pending'[q])
  BY DEF TellInv, Keeps, Upwards
<1>3. \A r, q \in PE : r # q => Apart(Pending'[r], Pending'[q])
  BY DEF TellInv, Keeps, Apart
<1> QED BY <1>1, <1>2, <1>3 DEF TellInv

(* What is left of a call that announces. *)
LEMMA LatterParts ==
  ASSUME NEW s, NEW t, Proper(s), Proper(t), NEW a, NEW m, Announcing(s \o t, a, m),
         \A i \in Range(s) : i.op # "drain" /\ i.op \notin Writers
  PROVE  Announcing(t, a, m)
<1>1. PICK X : s \in Seq(X) /\ t \in Seq(X)
  BY BothProper
<1>2. /\ Len(s \o t) = Len(s) + Len(t) /\ Len(s) \in Nat /\ Len(t) \in Nat
      /\ \A k \in 1 .. Len(t) : (s \o t)[Len(s) + k] = t[k]
  BY <1>1, ConcatType
<1>3. Latter(t)
  <2> SUFFICES ASSUME NEW k \in 1 .. Len(t), NEW l \in 1 .. Len(t), k < l, t[k].op = "drain"
               PROVE  t[l].op \in Writers
    BY DEF Latter
  <2>1. /\ Len(s) + k \in 1 .. Len(s \o t) /\ Len(s) + l \in 1 .. Len(s \o t)
        /\ Len(s) + k < Len(s) + l
    BY <1>2
  <2>2. (s \o t)[Len(s) + k].op = "drain" /\ (s \o t)[Len(s) + l] = t[l]
    BY <1>2
  <2>3. Latter(s \o t)
    BY DEF Announcing
  <2>4. (s \o t)[Len(s) + l].op \in Writers
    BY <2>1, <2>2, <2>3 DEF Latter
  <2> QED BY <2>2, <2>4
<1>4. Range(s \o t) = Range(s) \cup Range(t)
  BY <1>1, RangeConcat
<1>5. Drains(t)
  BY <1>4 DEF Announcing, Drains
<1> QED BY <1>3, <1>4, <1>5 DEF Announcing

LEMMA AnnouncingTail ==
  ASSUME NEW s, Proper(s), s # <<>>
  PROVE  /\ Head(s).op # "drain" /\ Head(s).op \notin Writers =>
              \A a, m : Announcing(s, a, m) => Announcing(Tail(s), a, m)
         /\ Head(s).op = "drain" => \A a, m : Announcing(s, a, m) => \A j \in Range(Tail(s)) : j.op \in Writers
         /\ Head(s).op \in Writers /\ LastWord(s) => \A a, m : ~ Announcing(s, a, m)
<1>1. /\ Range(s) = {Head(s)} \cup Range(Tail(s)) /\ Proper(Tail(s))
      /\ s = <<Head(s)>> \o Tail(s) /\ Proper(<<Head(s)>>) /\ Range(<<Head(s)>>) = {Head(s)}
  BY HeadRange
<1>2. ASSUME Head(s).op # "drain", Head(s).op \notin Writers, NEW a, NEW m, Announcing(s, a, m)
      PROVE  Announcing(Tail(s), a, m)
  <2>1. Announcing(<<Head(s)>> \o Tail(s), a, m)
    BY <1>1, <1>2, Zenon
  <2> QED BY <1>1, <1>2, <2>1, LatterParts
<1>3. s \in Seq(Range(s)) /\ Len(s) \in Nat
  BY DEF Proper
<1>4. ASSUME Head(s).op = "drain", NEW a, NEW m, Announcing(s, a, m), NEW j \in Range(Tail(s))
      PROVE  j.op \in Writers
  <2>1. /\ Len(Tail(s)) = Len(s) - 1 /\ Head(s) = s[1] /\ Tail(s) \in Seq(Range(s))
        /\ \A k \in 1 .. Len(s) - 1 : Tail(s)[k] = s[k + 1]
    BY <1>3
  <2>2. PICK k \in 1 .. Len(s) - 1 : j = Tail(s)[k]
    BY <1>4, <2>1 DEF Range
  <2>3. 1 \in 1 .. Len(s) /\ k + 1 \in 1 .. Len(s) /\ 1 < k + 1
    BY <1>3
  <2>4. Latter(s)
    BY <1>4 DEF Announcing
  <2>5. s[k + 1].op \in Writers
    BY <1>4, <2>1, <2>3, <2>4 DEF Latter
  <2> QED BY <2>1, <2>2, <2>5
<1>5. ASSUME Head(s).op \in Writers, LastWord(s), NEW a, NEW m, Announcing(s, a, m)
      PROVE  FALSE
  <2>1. Head(s) = s[1] /\ 1 \in 1 .. Len(s)
    BY <1>3
  <2>2. Len(s) = 1
    BY <1>5, <2>1 DEF LastWord
  <2>3. Range(s) = {Head(s)}
    BY <1>3, <2>1, <2>2 DEF Range
  <2>4. Head(s).op = "drain"
    BY <1>5, <2>3 DEF Announcing, Drains
  <2> QED BY <1>5, <2>4 DEF Writers
<1> QED BY <1>2, <1>4, <1>5

(* An instruction of the scalar unit is done, or goes to the network. *)
LEMMA IssuedPending ==
  ASSUME RmaInv, FlagInv, DataInv, NEW p \in PE,
         IssuePost(p) \/ Proceed(p) \/ ReadWord(p) \/ WriteWord(p)
  PROVE  /\ promise' = promise /\ mte2' = mte2 /\ mte3' = mte3
         /\ code[p] # <<>> /\ Proper(code[p]) /\ LastWord(code[p]) /\ code'[p] = Tail(code[p])
         /\ \A q \in PE \ {p} : code'[q] = code[q]
         /\ \A q \in PE : Pending'[q] \subseteq Pending[q]
         /\ \A j \in Range(nic'[p]) : j.op = "post"
         /\ Pending'[p] = Range(code'[p]) \cup Range(mte2[p]) \cup Range(mte3[p]) \cup Range(nic'[p])
<1>1. /\ Proper(nic[p]) /\ Proper(code[p]) /\ AllOnPEs /\ Shaped(p)
  BY Queues
<1>2. /\ promise' = promise /\ mte2' = mte2 /\ mte3' = mte3
      /\ code[p] # <<>> /\ Issued(p) /\ Now(p).op \notin Piped
      /\ \/ Now(p).op = "post" /\ nic' = [nic EXCEPT ![p] = Append(@, Now(p))]
         \/ nic' = nic
  BY DEF IssuePost, Proceed, ReadWord, WriteWord, Is, Piped
<1>3. /\ code'[p] = Tail(code[p]) /\ \A q \in PE \ {p} : code'[q] = code[q]
      /\ Range(code[p]) = {Now(p)} \cup Range(code'[p])
  BY <1>2, IssuedParts
<1>4. /\ \A q \in PE \ {p} : nic'[q] = nic[q]
      /\ \/ nic'[p] = nic[p]
         \/ Now(p).op = "post" /\ nic'[p] = Append(nic[p], Now(p))
  <2>1. CASE nic' = nic
    BY <2>1
  <2>2. CASE Now(p).op = "post" /\ nic' = [nic EXCEPT ![p] = Append(@, Now(p))]
    BY <1>1, <2>2 DEF AllOnPEs, OnPEs
  <2> QED BY <1>2, <2>1, <2>2
<1>5. /\ Range(nic'[p]) \subseteq Range(nic[p]) \cup {Now(p)}
      /\ \A j \in Range(nic'[p]) : j.op = "post"
  <2>1. \A j \in Range(nic[p]) : j.op = "post"
    BY <1>1 DEF Shaped
  <2>2. Range(Append(nic[p], Now(p))) = Range(nic[p]) \cup {Now(p)}
    BY <1>1, AppendRange DEF Proper
  <2>3. CASE nic'[p] = nic[p]
    <3>1. Range(nic'[p]) = Range(nic[p])
      BY <2>3
    <3> QED BY <2>1, <3>1
  <2>4. CASE Now(p).op = "post" /\ nic'[p] = Append(nic[p], Now(p))
    <3>1. Range(nic'[p]) = Range(nic[p]) \cup {Now(p)}
      BY <2>2, <2>4, Zenon
    <3> QED BY <2>1, <2>4, <3>1
  <2> QED BY <1>4, <2>3, <2>4
<1>6. /\ Pending[p] = Range(code[p]) \cup Range(mte2[p]) \cup Range(mte3[p]) \cup Range(nic[p])
      /\ Pending'[p] = Range(code'[p]) \cup Range(mte2[p]) \cup Range(mte3[p]) \cup Range(nic'[p])
  BY <1>2, PendingIs
<1>7. \A q \in PE \ {p} : Pending'[q] = Pending[q]
  BY <1>2, <1>3, <1>4, PendingMove
<1>8. Pending'[p] \subseteq Pending[p]
  BY <1>3, <1>5, <1>6
<1> QED BY <1>1, <1>2, <1>3, <1>5, <1>6, <1>7, <1>8 DEF Shaped

LEMMA IssuedTell ==
  ASSUME RmaInv, FlagInv, DataInv, TellInv, NEW p \in PE, IssuePost(p) \/ Proceed(p) \/ ReadWord(p)
  PROVE  TellInv'
<1> DEFINE h == Head(code[p])
<1>1. /\ promise' = promise /\ mte2' = mte2 /\ mte3' = mte3
      /\ code[p] # <<>> /\ Proper(code[p]) /\ LastWord(code[p]) /\ code'[p] = Tail(code[p])
      /\ \A q \in PE \ {p} : code'[q] = code[q]
      /\ \A q \in PE : Pending'[q] \subseteq Pending[q]
      /\ \A j \in Range(nic'[p]) : j.op = "post"
      /\ Pending'[p] = Range(code'[p]) \cup Range(mte2[p]) \cup Range(mte3[p]) \cup Range(nic'[p])
  BY IssuedPending
<1>2. /\ mem' = mem /\ h.op \notin Writers
      /\ h.op = "drain" => mte2[p] = <<>> /\ mte3[p] = <<>>
  BY DEF IssuePost, Proceed, ReadWord, Is, Now, Over, Writers
<1>3. ASSUME NEW a, NEW j \in Pending'[p], j.op = "store", Announcing(code[p], a, mem)
      PROVE  Announcing(code'[p], a, mem)
  <2>1. CASE h.op # "drain"
    <3>1. Announcing(Tail(code[p]), a, mem)
      BY <1>1, <1>2, <1>3, <2>1, AnnouncingTail
    <3> QED BY <1>1, <3>1, Zenon
  <2>2. CASE h.op = "drain"
    <3>1. \A i \in Range(Tail(code[p])) : i.op \in Writers
      BY <1>1, <1>3, <2>2, AnnouncingTail
    <3>2. Range(mte2[p]) = {} /\ Range(mte3[p]) = {}
      BY <1>2, <2>2, NoneLeft
    <3>3. j \in Range(Tail(code[p])) \/ j.op = "post"
      BY <1>1, <1>3, <3>2
    <3> QED BY <1>3, <3>1, <3>3 DEF Writers
  <2> QED BY <2>1, <2>2
<1>4. Keeps(p)
  BY <1>1, <1>2, <1>3 DEF Keeps
<1> QED BY <1>4, TellMove

LEMMA WriteWordTell ==
  ASSUME RmaInv, FlagInv, DataInv, TellInv, NEW p \in PE, WriteWord(p)
  PROVE  TellInv'
<1> DEFINE h == Now(p)
<1>1. /\ promise' = promise /\ mte2' = mte2 /\ mte3' = mte3
      /\ code[p] # <<>> /\ Proper(code[p]) /\ LastWord(code[p]) /\ code'[p] = Tail(code[p])
      /\ \A q \in PE \ {p} : code'[q] = code[q]
      /\ \A q \in PE : Pending'[q] \subseteq Pending[q]
  BY IssuedPending
<1>2. h = Head(code[p]) /\ h.op \in Writers /\ Issued(p) /\ mem' = Written(mem, h.op, h.dst, h.val)
  BY DEF WriteWord, Is, Writers, Now
<1>3. \A a : ~ Announcing(code[p], a, mem)
  BY <1>1, <1>2, AnnouncingTail
<1>4. h \in Pending[p] /\ \A j \in Range(code'[p]) : j.op \notin Writers
  <2>1. h.op \notin Piped
    BY <1>2, KindsOfOps
  <2> QED BY <1>1, <1>2, <2>1, IssuedParts
<1>5. Writes(h) = {<<h.dst.mem, h.dst.at>>}
  BY <1>2, WritesOf
<1>6. /\ Stocked(mem) /\ \A q \in PE : \A i \in Pending[q] : Writes(i) \subseteq Everywhere
  BY DEF DataInv, Underway, Structured, Within
<1> HIDE DEF h
<1>7. ASSUME NEW q \in PE, NEW i \in Range(code'[q]), i.op = "set_word", NEW x \in Writes(i)
      PROVE  Value(mem', x) = Value(mem, x)
  <2>1. q # p
    BY <1>4, <1>7 DEF Writers
  <2>2. i \in Pending[q]
    BY <1>1, <2>1, PendingIs
  <2>3. x # <<h.dst.mem, h.dst.at>>
    BY <1>4, <1>5, <1>7, <2>1, <2>2 DEF TellInv, Apart
  <2>4. x \in Everywhere /\ <<h.dst.mem, h.dst.at>> \in Everywhere
    BY <1>4, <1>5, <1>6, <2>2
  <2>5. Value(Written(mem, h.op, h.dst, h.val), x) = Value(mem, x)
    BY <1>6, <2>3, <2>4, WrittenCells
  <2> QED BY <1>2, <2>5, Zenon
<1>8. Keeps(p)
  BY <1>1, <1>3, <1>7 DEF Keeps
<1> QED BY <1>8, TellMove

(* A word that is still to be set is not copied onto. *)
LEMMA CopyBeside ==
  ASSUME DataInv, NEW p \in PE, NEW h \in Pending[p], h.op \in Copiers, NEW q \in PE,
         NEW i \in Pending[q], i.op = "set_word", NEW x \in Writes(i)
  PROVE  Value(Moved(mem, h), x) = Value(mem, x)
<1>1. /\ Parted(Pending) /\ Stocked(mem) /\ Numbers(mem) /\ Placed(p, h)
      /\ Within(Pending[p]) /\ Within(Pending[q])
  BY DEF DataInv, Underway, Structured
<1>2. x \in Everywhere /\ Writes(h) \cup Reads(h) \subseteq Everywhere
  BY <1>1 DEF Within
<1>3. x \notin Writes(h)
  <2>1. i.op \in Writers /\ h.op # "add_word" /\ i # h
    BY DEF Writers, Copiers
  <2> QED BY <1>1, <2>1 DEF Parted
<1>4. h.dst.mem \in Memories
  <2>1. h.dst.mem \in PE \/ h.dst.mem = UbOf(p)
    BY <1>1 DEF Placed, Copiers
  <2> QED BY <2>1, Buffers
<1> QED BY <1>1, <1>2, <1>3, <1>4, NumbersMoved

(* The first instruction of a pipe or of the network device is done. *)
LEMMA QueueTell ==
  ASSUME RmaInv, FlagInv, DataInv, TellInv, NEW p \in PE, Mte2Step(p) \/ Mte3Step(p) \/ NicStep(p)
  PROVE  TellInv'
<1>1. /\ Proper(mte2[p]) /\ Proper(mte3[p]) /\ Proper(nic[p]) /\ AllOnPEs /\ Shaped(p)
  BY Queues
<1>2. /\ promise' = promise /\ code' = code
      /\ \/ mte2[p] # <<>> /\ mte2' = [mte2 EXCEPT ![p] = Tail(@)] /\ mte3' = mte3 /\ nic' = nic
         \/ mte3[p] # <<>> /\ mte3' = [mte3 EXCEPT ![p] = Tail(@)] /\ mte2' = mte2 /\ nic' = nic
         \/ nic[p] # <<>> /\ nic' = [nic EXCEPT ![p] = Tail(@)] /\ mte2' = mte2 /\ mte3' = mte3
  BY DEF Mte2Step, Mte3Step, NicStep
<1>3. /\ \A q \in PE \ {p} : mte2'[q] = mte2[q] /\ mte3'[q] = mte3[q] /\ nic'[q] = nic[q]
      /\ mte2'[p] = mte2[p] \/ (mte2[p] # <<>> /\ mte2'[p] = Tail(mte2[p]))
      /\ mte3'[p] = mte3[p] \/ (mte3[p] # <<>> /\ mte3'[p] = Tail(mte3[p]))
      /\ nic'[p] = nic[p] \/ (nic[p] # <<>> /\ nic'[p] = Tail(nic[p]))
  BY <1>1, <1>2 DEF AllOnPEs, OnPEs
<1>4. \A s : Proper(s) /\ s # <<>> => Range(Tail(s)) \subseteq Range(s) /\ Head(s) \in Range(s)
  BY HeadRange
<1>5. /\ Range(mte2'[p]) \subseteq Range(mte2[p])
      /\ Range(mte3'[p]) \subseteq Range(mte3[p])
      /\ Range(nic'[p]) \subseteq Range(nic[p])
  <2>1. \A s, t : Proper(s) /\ (t = s \/ (s # <<>> /\ t = Tail(s))) => Range(t) \subseteq Range(s)
    BY <1>4
  <2> QED BY <1>1, <1>3, <2>1
<1>6. /\ Pending[p] = Range(code[p]) \cup Range(mte2[p]) \cup Range(mte3[p]) \cup Range(nic[p])
      /\ Pending'[p] = Range(code'[p]) \cup Range(mte2'[p]) \cup Range(mte3'[p]) \cup Range(nic'[p])
  BY PendingIs
<1>7. \A q \in PE \ {p} : Pending'[q] = Pending[q]
  BY <1>2, <1>3, PendingMove
<1>8. \A q \in PE : Pending'[q] \subseteq Pending[q]
  BY <1>2, <1>5, <1>6, <1>7
<1>9. mem' = mem \/ (\E h \in Pending[p] : h.op \in Copiers /\ mem' = Moved(mem, h))
  <2>1. CASE Mte2Step(p)
    <3>1. Head(mte2[p]) \in Pending[p]
      BY <1>1, <1>4, <1>6, <2>1 DEF Mte2Step
    <3> QED BY <2>1, <3>1 DEF Mte2Step, Executes, Copiers
  <2>2. CASE Mte3Step(p)
    <3>1. Head(mte3[p]) \in Pending[p]
      BY <1>1, <1>4, <1>6, <2>2 DEF Mte3Step
    <3> QED BY <2>2, <3>1 DEF Mte3Step, Executes, Copiers
  <2>3. CASE NicStep(p)
    <3>1. Head(nic[p]) \in Pending[p] /\ Head(nic[p]) \in Range(nic[p])
      BY <1>1, <1>4, <1>6, <2>3 DEF NicStep
    <3>2. Head(nic[p]).op \in Copiers
      BY <1>1, <3>1 DEF Shaped, Copiers
    <3> QED BY <2>3, <3>1, <3>2 DEF NicStep
  <2> QED BY <2>1, <2>2, <2>3
<1>10. ASSUME NEW q \in PE, NEW i \in Range(code'[q]), i.op = "set_word", NEW x \in Writes(i)
       PROVE  Value(mem', x) = Value(mem, x)
  <2>1. i \in Pending[q]
    BY <1>2, PendingIs
  <2>2. CASE mem' = mem
    BY <2>2
  <2>3. ASSUME NEW h \in Pending[p], h.op \in Copiers, mem' = Moved(mem, h)
        PROVE  Value(mem', x) = Value(mem, x)
    <3>1. Value(Moved(mem, h), x) = Value(mem, x)
      BY <1>10, <2>1, <2>3, CopyBeside
    <3> QED BY <2>3, <3>1, Zenon
  <2> QED BY <1>9, <2>2, <2>3
<1>11. Keeps(p)
  BY <1>2, <1>8, <1>10 DEF Keeps
<1> QED BY <1>11, TellMove

(* What goes to a pipe is neither the wait for it nor the word. *)
LEMMA IssueToPipeTell ==
  ASSUME RmaInv, FlagInv, DataInv, TellInv, NEW p \in PE, IssueToPipe(p)
  PROVE  TellInv'
<1>1. Proper(code[p]) /\ Proper(mte2[p]) /\ Proper(mte3[p]) /\ AllOnPEs
  BY Queues
<1>2. promise' = promise /\ mem' = mem /\ nic' = nic
  BY DEF IssueToPipe
<1>3. PICK run, rest :
           /\ Proper(run) /\ Proper(rest) /\ code[p] = run \o rest
           /\ \A x \in Range(run) : x.op \in Piped /\ (ToMte2(x) <=> ToMte2(Now(p)))
           /\ code'[p] = rest
           /\ mte2'[p] = IF ToMte2(Now(p)) THEN mte2[p] \o run ELSE mte2[p]
           /\ mte3'[p] = IF ToMte2(Now(p)) THEN mte3[p] ELSE mte3[p] \o run
           /\ \A q \in PE \ {p} : code'[q] = code[q] /\ mte2'[q] = mte2[q] /\ mte3'[q] = mte3[q]
  BY <1>1, IssueParts DEF AllOnPEs
<1>4. /\ Range(run \o rest) = Range(run) \cup Range(rest)
      /\ Range(mte2[p] \o run) = Range(mte2[p]) \cup Range(run)
      /\ Range(mte3[p] \o run) = Range(mte3[p]) \cup Range(run)
  BY <1>1, <1>3, BothProper
<1>5. /\ Range(code[p]) = Range(run) \cup Range(rest)
      /\ Range(mte2'[p]) \subseteq Range(mte2[p]) \cup Range(run)
      /\ Range(mte3'[p]) \subseteq Range(mte3[p]) \cup Range(run)
  <2>1. CASE ToMte2(Now(p))
    <3>1. mte2'[p] = mte2[p] \o run /\ mte3'[p] = mte3[p]
      BY <1>3, <2>1
    <3> QED BY <1>3, <1>4, <3>1
  <2>2. CASE ~ ToMte2(Now(p))
    <3>1. mte2'[p] = mte2[p] /\ mte3'[p] = mte3[p] \o run
      BY <1>3, <2>2
    <3> QED BY <1>3, <1>4, <3>1
  <2> QED BY <2>1, <2>2
<1>6. /\ Pending[p] = Range(code[p]) \cup Range(mte2[p]) \cup Range(mte3[p]) \cup Range(nic[p])
      /\ Pending'[p] = Range(code'[p]) \cup Range(mte2'[p]) \cup Range(mte3'[p]) \cup Range(nic'[p])
  BY PendingIs
<1>7. Pending'[p] \subseteq Pending[p]
  BY <1>2, <1>3, <1>5, <1>6
<1>8. \A q \in PE \ {p} : Pending'[q] = Pending[q] /\ code'[q] = code[q]
  BY <1>2, <1>3, PendingMove
<1>9. \A a : Announcing(code[p], a, mem) => Announcing(code'[p], a, mem)
  <2>1. \A i \in Range(run) : i.op # "drain" /\ i.op \notin Writers
    BY <1>3, KindsOfOps DEF Piped
  <2>2. ASSUME NEW a, Announcing(code[p], a, mem)
        PROVE  Announcing(code'[p], a, mem)
    <3>1. Announcing(run \o rest, a, mem)
      BY <1>3, <2>2, Zenon
    <3>2. Announcing(rest, a, mem)
      BY <1>3, <2>1, <3>1, LatterParts
    <3> QED BY <1>3, <3>2, Zenon
  <2> QED BY <2>2
<1>10. Keeps(p)
  BY <1>2, <1>7, <1>8, <1>9 DEF Keeps
<1> QED BY <1>10, TellMove

-----------------------------------------------------------------------------
(* A call that signals: its copies, the wait for the pipes, its word.      *)

LEMMA SignalledCode ==
  ASSUME NEW p \in PE, NEW c \in DeviceCalls(p), c.api \in SignalForms, config[p].shmem_ub \in Nat,
         config[p].ub_size \in BufferSizes(p)
  PROVE  \E r : Relayed(p, CopyOf(p, c), r) /\ Code(p, c) = Signalled(c, r)
<1> DEFINE buf == config[p].shmem_ub
           Tensors == {"put_mem_signal_tensor", "put_mem_signal_tensor_nbi"}
           size == IF c.api \in Tensors THEN c.stale ELSE config[p].ub_size
           Rowwise == {"put_mem_signal_detailed", "put_mem_signal_tensor_detailed",
                       "put_mem_signal_detailed_nbi", "put_mem_signal_tensor_detailed_nbi"}
<1>1. /\ c.api \in Putting /\ c.api \in Getting \cup Putting \cup Loading \cup Storing
      /\ c.api \in Rowwise => Detailed(c) /\ c.api \in Direct
      /\ c.api \notin Rowwise => ~ Detailed(c) /\ c.api \in Unrouted
  BY DEF SignalForms, Putting, Detailed, DetailedForms, Direct, Unrouted
<1>2. c.pe \in PE /\ (c.api \notin Rowwise =>
        c.n \in Nat /\ c.sz \in Nat \ {0} /\ size \in Nat /\ c.sz <= size)
  <2>1. c.pe \in PE
    BY <1>1, ProgramAssumption
  <2>2. c.api \notin Rowwise => c.n \in Nat /\ c.sz \in Nat \ {0} /\ size \in Nat /\ c.sz <= size
    <3>1. size \in Rooms(p, c)
      BY DEF Rooms
    <3> HIDE DEF size
    <3> QED BY <1>1, <3>1, ProgramAssumption
  <2> QED BY <2>1, <2>2
<1>3. /\ c.src \in Nat /\ c.dst \in Nat /\ c.sz \in Nat \ {0}
      /\ Detailed(c) => /\ c.rows \in Nat /\ c.len \in Nat /\ c.sld \in Nat /\ c.dld \in Nat
                        /\ c.len <= c.sld /\ c.len <= c.dld /\ UbUnit % c.sz = 0
  BY <1>1, ArgumentAssumption, Zenon
<1>4. CASE c.api \in Rowwise
  <2> DEFINE r == shmem_mte_put_detailed(p, c, buf)
  <2>1. Relayed(p, CopyOf(p, c), r)
    BY <1>1, <1>2, <1>3, <1>4, RowsRelayed
  <2>2. Code(p, c) = Signalled(c, r)
    <3>1. CASE c.api = "put_mem_signal_detailed"
      BY <3>1 DEF Code, shmem_put_mem_signal_detailed, CopyUb
    <3>2. CASE c.api = "put_mem_signal_tensor_detailed"
      BY <3>2 DEF Code, shmem_put_mem_signal_tensor_detailed, CopyUb, shmem_mte_put_tensor_detailed, Unset
    <3>3. CASE c.api = "put_mem_signal_detailed_nbi"
      BY <3>3 DEF Code, shmem_put_mem_signal_detailed_nbi, CopyUb
    <3>4. CASE c.api = "put_mem_signal_tensor_detailed_nbi"
      BY <3>4 DEF Code, shmem_put_mem_signal_tensor_detailed_nbi, CopyUb, shmem_mte_put_tensor_detailed, Unset
    <3> QED BY <1>4, <3>1, <3>2, <3>3, <3>4
  <2> QED BY <2>1, <2>2
<1>5. CASE c.api \notin Rowwise
  <2> DEFINE r == shmem_mte_put(p, c, buf, size)
  <2>1. Relayed(p, CopyOf(p, c), r)
    <3> HIDE DEF size
    <3> QED BY <1>1, <1>2, <1>3, <1>5, MteRelayed
  <2>2. Code(p, c) = Signalled(c, r)
    <3>1. CASE c.api = "putmem_signal"
      BY <3>1 DEF Code, shmem_putmem_signal, CopyUb, CopySize
    <3>2. CASE c.api = "put_mem_signal"
      BY <3>2 DEF Code, shmem_put_mem_signal, CopyUb, CopySize
    <3>3. CASE c.api = "put_mem_signal_tensor"
      BY <3>3 DEF Code, shmem_put_mem_signal_tensor, CopyUb, shmem_mte_put_tensor, Unset
    <3>4. CASE c.api = "putmem_signal_nbi"
      BY <3>4 DEF Code, shmem_putmem_signal_nbi, CopyUb, CopySize
    <3>5. CASE c.api = "put_mem_signal_nbi"
      BY <3>5 DEF Code, shmem_put_mem_signal_nbi, CopyUb, CopySize
    <3>6. CASE c.api = "put_mem_signal_tensor_nbi"
      BY <3>6 DEF Code, shmem_put_mem_signal_tensor_nbi, CopyUb, shmem_mte_put_tensor, Unset
    <3> QED BY <1>5, <3>1, <3>2, <3>3, <3>4, <3>5, <3>6 DEF SignalForms
  <2> QED BY <2>1, <2>2
<1> QED BY <1>4, <1>5

LEMMA AnnouncingNew ==
  ASSUME NEW c, Announces(c), c.api # "p", NEW r, Proper(r), \A i \in Range(r) : i.op \in Piped,
         NEW a, a.word = <<c.pe, c.sig>>, NEW m, c.sigop = "set" => c.val # Value(m, a.word)
  PROVE  /\ Announcing(Signalled(c, r), a, m)
         /\ \A j \in Range(Signalled(c, r)) : j.op # "post"
<1> DEFINE d == [op |-> "drain"]
           i == WordOf(c)
<1>1. shmemi_quiet = <<d>> /\ d.op = "drain"
  BY DEF shmemi_quiet
<1>2. shmemix_signal_op(c) = <<i>>
  BY DEF Announces, shmemix_signal_op, shmemi_signal_set, shmemi_signal_add, Word, WordOf, shmem_ptr
<1>3. /\ i.op \in Writers /\ i.dst.mem = c.pe /\ i.dst.at = c.sig /\ i.val = c.val
      /\ i.op = "set_word" => c.sigop = "set"
  BY DEF WordOf, Writers, Spot
<1> HIDE DEF d, i
<1> DEFINE s == (r \o <<d>>) \o <<i>>
<1>4. Signalled(c, r) = s
  BY <1>1, <1>2 DEF Signalled
<1>5. r \in Seq(Range(r)) /\ Len(r) \in Nat
  BY DEF Proper
<1>6. /\ Len(s) = Len(r) + 2 /\ DOMAIN s = 1 .. Len(r) + 2
      /\ \A k \in 1 .. Len(r) : s[k] = r[k] /\ r[k] \in Range(r)
      /\ s[Len(r) + 1] = d /\ s[Len(r) + 2] = i
  <2> DEFINE X == Range(r) \cup {d, i}
  <2>1. r \in Seq(X) /\ <<d>> \in Seq(X) /\ <<i>> \in Seq(X)
        /\ Len(<<d>>) = 1 /\ Len(<<i>>) = 1 /\ <<d>>[1] = d /\ <<i>>[1] = i
    BY <1>5, SingleRange, Widen
  <2>2. \A k \in 1 .. Len(r) : r[k] \in Range(r)
    BY <1>5 DEF Range
  <2> HIDE DEF X
  <2> DEFINE t == r \o <<d>>
  <2>3. /\ t \in Seq(X) /\ Len(t) = Len(r) + 1 /\ \A k \in 1 .. Len(r) : t[k] = r[k]
        /\ t[Len(r) + 1] = d
    BY <1>5, <2>1
  <2> HIDE DEF t
  <2>4. /\ t \o <<i>> \in Seq(X) /\ Len(t \o <<i>>) = Len(t) + 1
        /\ \A k \in 1 .. Len(t) : (t \o <<i>>)[k] = t[k]
        /\ (t \o <<i>>)[Len(t) + 1] = i
    BY <2>1, <2>3
  <2>5. s = t \o <<i>>
    BY DEF t
  <2> HIDE DEF s
  <2>6. s \in Seq(X) /\ Len(s) = Len(r) + 2
    BY <1>5, <2>3, <2>4, <2>5
  <2>7. DOMAIN s = 1 .. Len(r) + 2
    BY <2>6
  <2>8. \A k \in 1 .. Len(r) + 1 : s[k] = t[k]
    BY <2>3, <2>4, <2>5
  <2>9. s[Len(r) + 2] = i
    <3>1. Len(t) + 1 = Len(r) + 2
      BY <1>5, <2>3
    <3> QED BY <2>4, <2>5, <3>1
  <2>10. s[Len(r) + 1] = d /\ \A k \in 1 .. Len(r) : s[k] = r[k]
    BY <1>5, <2>3, <2>8
  <2> QED BY <2>2, <2>6, <2>7, <2>9, <2>10
<1> HIDE DEF s
<1>7. Latter(s)
  <2> SUFFICES ASSUME NEW k \in 1 .. Len(s), NEW l \in 1 .. Len(s), k < l, s[k].op = "drain"
               PROVE  s[l].op \in Writers
    BY DEF Latter
  <2>1. k \notin 1 .. Len(r)
    BY <1>6 DEF Piped
  <2>2. l = Len(r) + 2
    BY <1>5, <1>6, <2>1
  <2> QED BY <1>3, <1>6, <2>2
<1>8. d \in Range(s) /\ i \in Range(s)
  <2>1. Len(r) + 1 \in DOMAIN s /\ Len(r) + 2 \in DOMAIN s
    BY <1>5, <1>6
  <2> QED BY <1>6, <2>1 DEF Range
<1>9. Writes(i) = {a.word}
  BY <1>3, WritesOf
<1>10. i.op = "set_word" => Value(m, a.word) # i.val
  BY <1>3
<1>11. Announcing(s, a, m)
  BY <1>1, <1>3, <1>7, <1>8, <1>9, <1>10 DEF Announcing, Drains
<1>12. ASSUME NEW j \in Range(s)
       PROVE  j.op # "post"
  <2>1. PICK k \in 1 .. Len(r) + 2 : j = s[k]
    BY <1>6 DEF Range
  <2>2. CASE k \in 1 .. Len(r)
    BY <1>6, <2>1, <2>2 DEF Piped
  <2>3. CASE k \notin 1 .. Len(r)
    <3>1. k = Len(r) + 1 \/ k = Len(r) + 2
      BY <1>5, <2>3
    <3> QED BY <1>1, <1>3, <1>6, <2>1, <3>1 DEF Writers
  <2> QED BY <2>2, <2>3
<1> QED BY <1>4, <1>11, <1>12, Zenon

LEMMA StartCallTell ==
  ASSUME JobInv, NamesInv, RmaInv, FlagInv, DataInv, TellInv, Careful, Telling, NEW p \in PE, StartCall(p)
  PROVE  TellInv'
<1> DEFINE c == Head(todo[p])
           s == Code(p, c)
           new == [word |-> <<c.pe, c.sig>>, cells |-> Touched(CopyOf(p, c))]
           sends == Copies(c) /\ Announces(c)
<1>1. AllOnPEs /\ Wired(p) /\ Shaped(p)
  BY Queues
<1>2. /\ todo[p] # <<>> /\ code[p] = <<>> /\ code' = [code EXCEPT ![p] = s]
      /\ promise' = promise \cup IF sends THEN {new} ELSE {}
      /\ mem' = mem /\ mte2' = mte2 /\ mte3' = mte3 /\ nic' = nic
  BY DEF StartCall
<1>3. code'[p] = s /\ \A q \in PE \ {p} : code'[q] = code[q]
  BY <1>1, <1>2 DEF AllOnPEs, OnPEs
<1>4. c \in DeviceCalls(p)
  BY <1>1, <1>2 DEF Wired
<1>5. Routes(p, host[p].dev.topo)
  BY <1>1, <1>2, RunRoutes DEF Wired, Busy
<1> HIDE DEF c
<1>6. Does(p, c, s)
  <2>1. \A q \in PE : "mte" \in host[p].dev.topo[q] \/ "roce" \in host[p].dev.topo[q]
    BY <1>5 DEF Routes
  <2> QED BY <1>1, <1>4, <2>1, CodeDoes DEF Wired, Shaped
<1>7. /\ \A i \in Range(s), q \in PE : \A j \in Pending[q] : ~ Meets(i, j)
      /\ Alone(s) /\ Within(Range(s))
  <2>1. \A q \in PE : Pending[q] = UnderWay(q)
    BY DEF Pending
  <2>2. /\ \A i \in Range(s), q \in PE : \A j \in UnderWay(q) : ~ Meets(i, j)
        /\ \A i, j \in Range(s) : \A x \in Writes(i) :
             /\ x \in Reads(j) => x[1] \notin PE
             /\ x \in Writes(j) /\ i.op \in Writers => j = i
        /\ \A i \in Range(s) : Writes(i) \cup Reads(i) \subseteq Everywhere
    BY <1>2, Zenon DEF Careful, c
  <2> QED BY <2>1, <2>2 DEF Alone, Within
<1>8. /\ Announces(c) => IF c.sigop = "set" THEN c.val # mem[c.pe][c.sig] ELSE c.val > 0
      /\ \A a \in promise, i \in Range(s) : Writes(i) \cap a.cells # {} =>
           sends /\ a.word = <<c.pe, c.sig>>
  BY <1>2 DEF Telling, c
<1>9. /\ sends => c.api \in SignalForms /\ c.api # "p"
      /\ c.pe \in PE \/ ~ Words(c)
  <2>1. sends => c.api \in SignalForms /\ c.api # "p"
    BY DEF Announces, Copies, SignalForms, Getting, Putting, Loading, Storing
  <2>2. Words(c) => c.api \in Unrouted \cup Direct
    BY DEF Words, Announces, SignalForms, Unrouted, Direct
  <2> QED BY <1>4, <2>1, <2>2, ProgramAssumption
<1>10. /\ s \in Seq(Range(s)) /\ \A i \in Range(s) : Placed(p, i)
       /\ \A i \in Range(s) : i.op \in Writers => Words(c) /\ i = WordOf(c)
       /\ Words(c) => WordOf(c) \in Range(s)
  <2>1. /\ s \in Seq(Range(s)) /\ \A i \in Range(s) : Placed(p, i)
        /\ WordLast(c, s) /\ (Words(c) => WordOf(c) \in Range(s))
    BY <1>6 DEF Does, Proper
  <2> HIDE DEF s
  <2>2. \A i \in Range(s) : \E k \in 1 .. Len(s) : i = s[k]
    BY <2>1 DEF Range
  <2> QED BY <2>1, <2>2 DEF WordLast
<1>11. Words(c) /\ c.api # "p" => /\ WordOf(c).op \in Writers /\ WordOf(c).val = c.val
                                  /\ WordOf(c).op = "set_word" <=> c.sigop = "set"
                                  /\ Writes(WordOf(c)) = {<<c.pe, c.sig>>}
  <2> DEFINE w == WordOf(c)
  <2> SUFFICES ASSUME Words(c), c.api # "p"
               PROVE  /\ w.op \in Writers /\ w.val = c.val /\ (w.op = "set_word" <=> c.sigop = "set")
                      /\ Writes(w) = {<<c.pe, c.sig>>}
    OBVIOUS
  <2>1. /\ w.op \in Writers /\ w.val = c.val /\ (w.op = "set_word" <=> c.sigop = "set")
        /\ w.dst.mem = c.pe /\ w.dst.at = c.sig
    BY DEF WordOf, Writers, Spot
  <2> HIDE DEF w
  <2> QED BY <2>1, WritesOf
<1>12. ASSUME sends, NEW a, a.word = <<c.pe, c.sig>>, a.word \notin a.cells,
              \A x \in a.cells : x[1] \in PE, NEW i \in Range(s), Writes(i) \cap a.cells # {}
       PROVE  i.op = "store" /\ Announcing(s, a, mem)
  <2>1. PICK r : Relayed(p, CopyOf(p, c), r) /\ s = Signalled(c, r)
    BY <1>1, <1>4, <1>9, <1>12, SignalledCode DEF Wired, Shaped
  <2>2. Announcing(s, a, mem) /\ \A j \in Range(s) : j.op # "post"
    <3>1. c.sigop = "set" => c.val # Value(mem, a.word)
      BY <1>8, <1>12 DEF Value
    <3>2. /\ Announcing(Signalled(c, r), a, mem)
          /\ \A j \in Range(Signalled(c, r)) : j.op # "post"
      <4>1. Proper(r) /\ \A j \in Range(r) : j.op \in Piped
        BY <2>1 DEF Relayed
      <4> QED BY <1>9, <1>12, <3>1, <4>1, AnnouncingNew
    <3> QED BY <2>1, <3>2
  <2>3. i.op \in Copiers \cup Writers
    BY <1>12, WritesOf
  <2>4. i.op \notin Writers
    <3>1. ASSUME i.op \in Writers
          PROVE  FALSE
      <4>1. i = WordOf(c) /\ Words(c)
        BY <1>10, <3>1
      <4>2. Writes(i) = {a.word}
        BY <1>9, <1>11, <1>12, <4>1
      <4> QED BY <1>12, <4>2
    <3> QED BY <3>1
  <2>5. i.op # "load"
    <3>1. ASSUME i.op = "load"
          PROVE  FALSE
      <4>1. i.dst.mem = UbOf(p) /\ Writes(i) = Touched(i)
        <5>1. Placed(p, i) /\ i.op \in Copiers
          BY <1>10, <3>1 DEF Copiers
        <5> QED BY <3>1, <5>1, WritesOf DEF Placed
      <4>2. PICK x \in Writes(i) : x \in a.cells
        BY <1>12
      <4>3. x[1] = UbOf(p)
        BY <4>1, <4>2 DEF Touched
      <4> QED BY <1>12, <4>2, <4>3, Buffers
    <3> QED BY <3>1
  <2> QED BY <2>2, <2>3, <2>4, <2>5 DEF Copiers
<1>13. /\ Pending'[p] = Pending[p] \cup Range(s)
       /\ \A q \in PE \ {p} : Pending'[q] = Pending[q]
  <2>1. Range(code[p]) = {}
    BY <1>2 DEF Range
  <2>2. /\ Pending[p] = Range(code[p]) \cup Range(mte2[p]) \cup Range(mte3[p]) \cup Range(nic[p])
        /\ Pending'[p] = Range(s) \cup Range(mte2[p]) \cup Range(mte3[p]) \cup Range(nic[p])
    BY <1>2, <1>3, PendingIs
  <2>3. \A q \in PE \ {p} : Pending'[q] = Pending[q]
    BY <1>2, <1>3, PendingMove
  <2> QED BY <2>1, <2>2, <2>3
<1>14. \A a : ~ Announcing(code[p], a, mem)
  <2>1. Range(code[p]) = {}
    BY <1>2, NoneLeft
  <2> QED BY <2>1 DEF Announcing
<1> HIDE DEF s
<1>15. ASSUME NEW a \in promise
       PROVE  Announced(a)'
  <2>1. Announced(a)
    BY DEF TellInv
  <2>2. ASSUME NEW q \in PE, NEW j \in Pending'[q], Writes(j) \cap a.cells # {}
        PROVE  j.op = "store" /\ Announcing(code'[q], a, mem)
    <3>1. CASE q # p
      BY <1>3, <1>13, <2>1, <2>2, <3>1 DEF Announced
    <3>2. CASE q = p
      <4>1. j \notin Pending[p]
        BY <1>14, <2>1, <2>2 DEF Announced
      <4>2. j \in Range(s)
        BY <1>13, <2>2, <3>2, <4>1
      <4>3. sends /\ a.word = <<c.pe, c.sig>>
        BY <1>8, <2>2, <4>2
      <4>4. j.op = "store" /\ Announcing(s, a, mem)
        BY <1>12, <2>1, <2>2, <4>2, <4>3 DEF Announced
      <4> QED BY <1>3, <3>2, <4>4
    <3> QED BY <3>1, <3>2
  <2>3. \A q \in PE : \A j \in Pending'[q] :
          Writes(j) \cap a.cells # {} => j.op = "store" /\ Announcing(code'[q], a, mem')
    BY <1>2, <2>2
  <2> QED BY <2>1, <2>3 DEF Announced
<1>16. ASSUME sends, NEW a, a = new
       PROVE  Announced(a)'
  <2> DEFINE C == CopyOf(p, c)
  <2>1. a.word = <<c.pe, c.sig>> /\ a.cells = Touched(C)
    BY <1>16
  <2>2. Words(c) /\ WordOf(c) \in Range(s) /\ Writes(WordOf(c)) = {a.word} /\ WordOf(c).op \in Writers
    BY <1>9, <1>10, <1>11, <1>16 DEF Words
  <2>3. \A x \in Touched(C) : \E j \in Range(s) : j.op \in Copiers /\ x \in Writes(j)
    BY <1>6, <1>16, CarriedCells
  <2>4. a.word \in Everywhere /\ a.word[1] \in PE
    <3>1. a.word[1] = c.pe
      BY <2>1
    <3> QED BY <1>7, <1>9, <2>2, <3>1 DEF Within
  <2>5. a.cells \subseteq Everywhere
    BY <1>7, <2>1, <2>3 DEF Within
  <2>6. \A x \in a.cells : x[1] \in PE
    <3>1. c.api \in Putting
      BY <1>9, <1>16 DEF Putting
    <3>2. C.dst.mem = c.pe
      <4>1. C.dst = IF c.api \in Putting \cup Storing THEN Spot(c.pe, c.dst)
              ELSE IF c.api \in Getting THEN Spot(p, c.dst) ELSE Spot(UbOf(p), c.dst)
        BY CopyForms
      <4>2. C.dst = Spot(c.pe, c.dst)
        BY <3>1, <4>1
      <4> QED BY <4>2 DEF Spot
    <3>3. \A x \in Touched(C) : x[1] = c.pe
      BY <3>2 DEF Touched
    <3> QED BY <1>9, <2>1, <2>2, <3>3
  <2> HIDE DEF C
  <2>7. a.word \notin a.cells
    <3>1. ASSUME a.word \in a.cells
          PROVE  FALSE
      <4>1. PICK j \in Range(s) : j.op \in Copiers /\ a.word \in Writes(j)
        BY <2>1, <2>3, <3>1
      <4>2. j = WordOf(c)
        BY <1>7, <2>2, <4>1 DEF Alone
      <4> QED BY <2>2, <4>1, <4>2, KindsOfOps
    <3> QED BY <3>1
  <2>8. ASSUME NEW q \in PE, NEW j \in Pending'[q], Writes(j) \cap a.cells # {}
        PROVE  j.op = "store" /\ Announcing(code'[q], a, mem)
    <3>1. j \notin Pending[q]
      <4>1. ASSUME j \in Pending[q]
            PROVE  FALSE
        <5>1. PICK x \in a.cells : x \in Writes(j)
          BY <2>8
        <5>2. PICK i \in Range(s) : i.op \in Copiers /\ x \in Writes(i)
          BY <2>1, <2>3, <5>1
        <5>3. Meets(i, j)
          BY <5>1, <5>2 DEF Meets, Copiers
        <5> QED BY <1>7, <4>1, <5>3
      <4> QED BY <4>1
    <3>2. q = p /\ j \in Range(s)
      BY <1>13, <2>8, <3>1
    <3>3. j.op = "store" /\ Announcing(s, a, mem)
      BY <1>12, <1>16, <2>1, <2>6, <2>7, <2>8, <3>2
    <3> QED BY <1>3, <3>2, <3>3
  <2>9. \A q \in PE : \A j \in Pending'[q] :
          Writes(j) \cap a.cells # {} => j.op = "store" /\ Announcing(code'[q], a, mem')
    BY <1>2, <2>8
  <2> QED BY <2>4, <2>5, <2>6, <2>7, <2>9 DEF Announced
<1>17. \A q \in PE : Upwards(Pending'[q])
  <2>1. \A q \in PE : Upwards(Pending[q])
    BY DEF TellInv
  <2>2. Upwards(Range(s))
    <3> SUFFICES ASSUME NEW i \in Range(s), i.op = "add_word" PROVE i.val > 0
      BY DEF Upwards
    <3>1. i = WordOf(c) /\ Words(c)
      BY <1>10 DEF Writers
    <3>2. c.api # "p"
      BY <3>1 DEF WordOf
    <3>3. Announces(c) /\ c.sigop # "set" /\ i.val = c.val
      BY <1>11, <3>1, <3>2 DEF Words
    <3> QED BY <1>8, <3>3
  <2> QED BY <1>13, <2>1, <2>2 DEF Upwards
<1>18. \A r, q \in PE : r # q => Apart(Pending'[r], Pending'[q])
  <2>1. \A r, q \in PE : r # q => Apart(Pending[r], Pending[q])
    BY DEF TellInv
  <2>2. \A q \in PE : Apart(Range(s), Pending[q]) /\ Apart(Pending[q], Range(s))
    <3> SUFFICES ASSUME NEW q \in PE, NEW i \in Range(s), NEW j \in Pending[q],
                        i.op = "set_word" \/ j.op = "set_word"
                 PROVE  Writes(i) \cap Writes(j) = {}
      BY DEF Apart
    <3>1. ~ Meets(i, j)
      BY <1>7
    <3> QED BY <3>1 DEF Meets
  <2> QED BY <1>13, <2>1, <2>2 DEF Apart
<1> HIDE DEF new
<1> QED BY <1>2, <1>15, <1>16, <1>17, <1>18 DEF TellInv

-----------------------------------------------------------------------------
(* The word tells of the data.                                             *)

LEMMA AsideTell ==
  ASSUME TellInv, code' = code, mte2' = mte2, mte3' = mte3, nic' = nic, mem' = mem,
         promise' = promise
  PROVE  TellInv'
<1>1. Pending' = Pending
  BY DEF Pending, UnderWay
<1>2. \A a \in promise : Announced(a)'
  BY <1>1 DEF TellInv, Announced
<1> QED BY <1>1, <1>2 DEF TellInv

LEMMA TellStep ==
  /\ JobInv /\ NamesInv /\ RmaInv /\ FlagInv /\ DataInv /\ TellInv
  /\ Careful /\ Telling /\ [Next]_vars
  => TellInv'
<1> SUFFICES ASSUME JobInv, NamesInv, RmaInv, FlagInv, DataInv, TellInv, Careful, Telling, [Next]_vars
             PROVE  TellInv'
  OBVIOUS
<1>1. CASE UNCHANGED vars \/ UNCHANGED rmaVars
  BY <1>1, AsideTell DEF vars, rmaVars, deviceVars
<1>2. CASE Decide
  BY <1>2, AsideTell DEF Decide, deviceVars
<1>3. ASSUME NEW p \in PE, Works(p)
      PROVE  TellInv'
  <2>1. CASE StartKernel(p)
    BY <2>1, AsideTell DEF StartKernel
  <2>2. CASE HostAtWork(p)
    BY <2>2, AsideTell DEF HostAtWork, HostPosts, shmem_g_host, shmem_mte_set_ub_params, Synchronize,
      deviceVars
  <2>3. CASE StartCall(p)
    BY <2>3, StartCallTell
  <2>4. CASE IssueToPipe(p)
    BY <2>4, IssueToPipeTell
  <2>5. CASE IssuePost(p) \/ Proceed(p) \/ ReadWord(p)
    BY <2>5, IssuedTell
  <2>6. CASE WriteWord(p)
    BY <2>6, WriteWordTell
  <2>7. CASE Mte2Step(p) \/ Mte3Step(p) \/ NicStep(p)
    BY <2>7, QueueTell
  <2> QED BY <1>3, <2>1, <2>2, <2>3, <2>4, <2>5, <2>6, <2>7 DEF Works, Core
<1> QED BY <1>1, <1>2, <1>3 DEF Next

LEMMA TellInitInv == RmaInit => TellInv
<1> SUFFICES ASSUME RmaInit PROVE TellInv
  OBVIOUS
<1>1. ASSUME NEW p \in PE
      PROVE  Pending[p] = {}
  <2>1. code[p] = <<>> /\ mte2[p] = <<>> /\ mte3[p] = <<>> /\ nic[p] = <<>>
    BY DEF RmaInit
  <2>2. Pending[p] = Range(code[p]) \cup Range(mte2[p]) \cup Range(mte3[p]) \cup Range(nic[p])
    BY PendingIs
  <2> QED BY <2>1, <2>2, NoneLeft
<1>2. promise = {}
  BY DEF RmaInit
<1> QED BY <1>1, <1>2 DEF TellInv, Upwards, Apart

(* What only additions upwards are left for is to grow. *)
LEMMA GrowsYet ==
  ASSUME NEW U, NEW x, NEW t, Totals(U, x, t), \A q \in PE : Adds(U[q], x) \in Nat,
         NEW p \in PE, Adds(U[p], x) > 0
  PROVE  t > 0
<1>1. PICK s \in [0 .. NPes -> Int] :
        s[0] = 0 /\ s[NPes] = t /\ \A q \in PE : s[q + 1] = s[q] + Adds(U[q], x)
  BY DEF Totals
<1>2. /\ NPes \in Nat /\ 0 \in 0 .. NPes /\ NPes \in 0 .. NPes /\ p \in Nat /\ p + 1 <= NPes
      /\ \A q \in PE : q \in 0 .. NPes /\ q + 1 \in 0 .. NPes
  BY JobAssumption DEF PE
<1> DEFINE Floor(k) == IF k <= p THEN 0 ELSE 1
           T == {k \in 0 .. NPes : s[k] < Floor(k)}
<1>3. ASSUME T # {}
      PROVE  FALSE
  <2>1. PICK k \in T : \A y \in T : k <= y
    <3>1. T \in SUBSET Nat
      BY <1>2
    <3> QED BY <1>3, <3>1, Smallest
  <2>2. k \in 0 .. NPes /\ s[k] < Floor(k)
    OBVIOUS
  <2>3. k # 0
    BY <1>1, <1>2, <2>2
  <2> DEFINE j == k - 1
  <2>4. j \in PE /\ j \in 0 .. NPes /\ j + 1 = k /\ ~ (k <= j)
    BY <1>2, <2>2, <2>3 DEF PE
  <2>5. s[j] >= Floor(j) /\ s[j] \in Int /\ s[k] \in Int
    <3>1. j \notin T
      BY <2>1, <2>4
    <3>2. s[j] \in Int /\ s[k] \in Int
      BY <2>2, <2>4
    <3> QED BY <2>4, <3>1, <3>2
  <2>6. s[k] = s[j] + Adds(U[j], x) /\ Adds(U[j], x) \in Nat
    BY <1>1, <2>4
  <2>7. j = p => Adds(U[j], x) > 0
    OBVIOUS
  <2> HIDE DEF j, T
  <2>8. j \in Int /\ k \in Int /\ p \in Int
    BY <1>2, <2>2, <2>4
  <2>9. CASE j = p
    BY <2>2, <2>4, <2>5, <2>6, <2>7, <2>8, <2>9
  <2>10. CASE j < p
    <3>1. j <= p /\ k <= p
      BY <2>4, <2>8, <2>10
    <3> QED BY <2>2, <2>5, <2>6, <3>1
  <2>11. CASE p < j
    <3>1. ~ (j <= p) /\ ~ (k <= p)
      BY <2>4, <2>8, <2>11
    <3> QED BY <2>2, <2>5, <2>6, <3>1
  <2> QED BY <2>8, <2>9, <2>10, <2>11
<1>4. NPes \notin T
  BY <1>3
<1>5. Floor(NPes) = 1 /\ s[NPes] \in Int
  BY <1>2
<1> QED BY <1>1, <1>2, <1>4, <1>5

LEMMA InvSignals == DataInv /\ TellInv => SignalAfterData
<1> SUFFICES ASSUME DataInv, TellInv, NEW a \in promise,
                    mem[a.word[1]][a.word[2]] = ideal[a.word[1]][a.word[2]], NEW x \in a.cells
             PROVE  mem[x[1]][x[2]] = ideal[x[1]][x[2]]
  BY DEF SignalAfterData
<1> DEFINE w == a.word
<1>1. /\ Underway(Pending, PendingLoads, PendingStores, mem, ideal)
      /\ x \in Everywhere /\ x[1] \in PE /\ w \in Everywhere /\ w[1] \in PE
      /\ \A q \in PE : \A j \in Pending[q] :
           x \in Writes(j) => Announcing(code[q], a, mem)
  BY DEF DataInv, TellInv, Announced
<1>2. Value(mem, w) = Value(ideal, w)
  BY DEF Value
<1> HIDE DEF w
<1>3. ASSUME NEW q \in PE, NEW j \in Pending[q], x \in Writes(j)
      PROVE  FALSE
  <2>1. PICK i \in Range(code[q]) : /\ i.op \in Writers /\ Writes(i) = {w}
                                    /\ i.op = "set_word" => Value(mem, w) # i.val
    BY <1>1, <1>3 DEF Announcing, w
  <2>2. i \in Pending[q]
    BY PendingIs
  <2>3. CASE i.op = "set_word"
    <3>1. Value(ideal, w) = i.val
      BY <1>1, <2>1, <2>2, <2>3 DEF Underway, Owing, Owes
    <3> QED BY <1>2, <2>1, <2>3, <3>1
  <2>4. CASE i.op = "add_word"
    <3>1. Calm(Pending, w)
      BY <1>1, <2>1, <2>2, <2>4 DEF Calm, Underway, Parted
    <3>2. PICK t \in Int : Totals(Pending, w, t) /\ Value(ideal, w) = Value(mem, w) + t
      BY <1>1, <3>1 DEF Underway, Settled, Settles
    <3>3. \A r \in PE : OneWord(Pending[r]) /\ Upwards(Pending[r]) /\ \A h \in Pending[r] : Placed(r, h)
      BY <1>1 DEF Underway, Structured, TellInv
    <3>4. ASSUME NEW r \in PE
          PROVE  Adds(Pending[r], w) \in Nat
      <4>1. CASE \E h \in Pending[r] : Adding(h, w)
        <5>1. PICK h \in Pending[r] : Adding(h, w)
          BY <4>1
        <5>2. Adds(Pending[r], w) = h.val
          BY <3>3, <5>1, AddsIs
        <5>3. h.val \in Int /\ h.val > 0
          BY <3>3, <5>1 DEF Adding, Upwards, Placed, Writers
        <5> QED BY <5>2, <5>3
      <4>2. CASE \A h \in Pending[r] : ~ Adding(h, w)
        <5>1. Adds(Pending[r], w) = 0
          BY <3>3, <4>2, AddsIs
        <5> QED BY <5>1
      <4> QED BY <4>1, <4>2
    <3>5. Adds(Pending[q], w) > 0
      <4>1. Adding(i, w)
        BY <2>1, <2>4 DEF Adding
      <4>2. Adds(Pending[q], w) = i.val
        BY <2>2, <3>3, <4>1, AddsIs
      <4>3. i.val > 0
        BY <2>2, <2>4, <3>3 DEF Upwards
      <4> QED BY <4>2, <4>3
    <3>6. t > 0
      <4> HIDE DEF Pending
      <4> QED BY <3>2, <3>4, <3>5, GrowsYet
    <3>7. Value(mem, w) \in Int
      BY <1>1 DEF Underway, Numbers
    <3> QED BY <1>2, <3>2, <3>6, <3>7
  <2> QED BY <2>1, <2>3, <2>4 DEF Writers
<1>4. Value(ideal, x) = Value(mem, x)
  BY <1>1, <1>3, Quiescent
<1> QED BY <1>4 DEF Value

(* For every job and every program: as long as calls are ordered as        *)
(* Careful says, and signals tell something as Telling says, a PE that     *)
(* sees the word of a signal finds the data that it announces, also when   *)
(* several PEs add to one word, and when the same cells are announced      *)
(* again: the copies have left the pipes before the word is written.       *)
THEOREM SynchronisedSignals == Spec => ([]Synchronised => []SignalAfterData)
<1> DEFINE Inv == JobInv /\ NamesInv /\ RmaInv /\ FlagInv /\ DataInv /\ TellInv
<1>1. Init => Inv
  BY InitInv, NamesInit, RmaInitInv, FlagInitInv, DataInitInv, TellInitInv DEF Init
<1>2. Inv /\ Synchronised /\ [Next]_vars => Inv'
  BY StepInv, HostsOnly, NamesStep, RmaStep, FlagsStep, DataStep, TellStep DEF Synchronised
<1>3. Inv => SignalAfterData
  BY InvSignals
<1> HIDE DEF Inv
<1> QED BY <1>1, <1>2, <1>3, PTL DEF Spec
=============================================================================
