----------------------------- MODULE TeamProofs -----------------------------
(***************************************************************************)
(* The teams of shmem_team.cpp, for every number of PEs, of teams and of   *)
(* calls: types, the indices in use, what the device knows, what the       *)
(* members of a team agree on, and how a grid divides its parent.          *)
(***************************************************************************)
EXTENDS Team, FiniteSetTheorems, WellFoundedInduction, TLAPS

-----------------------------------------------------------------------------
(* Division with remainder by a divisor that is not a literal, and products. *)

LEMMA Division ==
  ASSUME NEW k \in Nat, 0 < k, NEW a \in Nat
  PROVE  /\ a \div k \in Int
         /\ a % k \in 0 .. k - 1
         /\ a = k * (a \div k) + (a % k)
OBVIOUS

LEMMA MultipleAtLeast ==
  ASSUME NEW k \in Nat, 0 < k, NEW m \in Int, 1 <= m
  PROVE  k <= k * m
OBVIOUS

LEMMA Distribute ==
  ASSUME NEW k \in Nat, NEW m \in Int, NEW n \in Int
  PROVE  /\ k * m - k * n = k * (m - n) /\ k * m + k * n = k * (m + n)
         /\ k * m \in Int /\ k * (m - n) \in Int /\ k * (m + n) \in Int
OBVIOUS

(* Quotient and remainder are the only numbers with their property. *)
LEMMA Remainder ==
  ASSUME NEW k \in Nat, 0 < k, NEW a \in Nat,
         NEW q \in Int, NEW r \in 0 .. k - 1, a = k * q + r
  PROVE  a % k = r /\ a \div k = q
<1> DEFINE p == a \div k
           s == a % k
<1>1. p \in Int /\ s \in 0 .. k - 1 /\ a = k * p + s
  BY Division
<1>2. /\ k * p \in Int /\ k * q \in Int
      /\ k * p - k * q = k * (p - q) /\ k * q - k * p = k * (q - p)
      /\ k * (p - q) \in Int /\ k * (q - p) \in Int
  BY <1>1, Distribute
<1> HIDE DEF p, s
<1>3. k * (p - q) = r - s /\ k * (q - p) = s - r
  BY <1>1, <1>2
<1>4. ~ (1 <= p - q)
  BY <1>1, <1>2, <1>3, MultipleAtLeast
<1>5. ~ (1 <= q - p)
  BY <1>1, <1>2, <1>3, MultipleAtLeast
<1>6. p = q
  BY <1>1, <1>4, <1>5
<1>7. s = r
  BY <1>1, <1>2, <1>6
<1> QED BY <1>6, <1>7 DEF p, s

-----------------------------------------------------------------------------
(* The state of one PE.                                                    *)

(* What a team in use looks like. *)
Real == [start : Nat, stride : Nat \ {0}, size : Nat \ {0}, mype : Nat]

(* The host's and the device's tables lead to the pool. *)
Sound(s) ==
  /\ s \in States
  /\ \A i \in s.mask : /\ s.pool[i] \in Real
                       /\ s.team_pools[i] = s.pool[i] /\ s.device[i] = s.pool[i]

(* A call that may make one team, from T, leaves in x.state what was s.    *)
Grows(s, x, T) ==
  /\ Sound(x.state)
  /\ x.team \in Indices \cup {Invalid}
  /\ x.team \notin s.mask
  /\ x.state.mask = s.mask \cup (IF x.team = Invalid THEN {} ELSE {x.team})
  /\ \A i \in s.mask : x.state.pool[i] = s.pool[i]
  /\ x.team # Invalid => x.state.pool[x.team] \in T
  /\ x.ret \in 0 .. 1
  /\ x.fault \in {"none", "full", "device"}

LEMMA LeastFree ==
  ASSUME NEW s \in States, s.mask # Indices
  PROVE  /\ FirstFree(s) \in Indices \ s.mask
         /\ \A j \in Indices \ s.mask : FirstFree(s) <= j
<1> DEFINE R == OpToRel(<, Nat)
           F == Indices \ s.mask
<1>1. IsWellFoundedOn(R, Nat)
  BY NatLessThanWellFounded
<1>2. F \subseteq Nat
  BY TeamAssumption DEF Indices
<1>3. s.mask \subseteq Indices
  BY DEF States
<1>4. F # {}
  BY <1>3
<1>5. PICK i \in F : \A j \in F : ~ (<<j, i>> \in R)
  BY <1>1, <1>2, <1>4, WFMin
<1>6. ASSUME NEW j \in F
      PROVE  i <= j
  <2>1. i \in Nat /\ j \in Nat
    BY <1>2
  <2>2. ~ (j < i)
    BY <1>5, <2>1 DEF OpToRel
  <2> QED BY <2>1, <2>2
<1> QED BY <1>6 DEF FirstFree

LEMMA NoTeamTyped == NoTeam \in TeamSet /\ Real \subseteq TeamSet
BY DEF NoTeam, Team, TeamSet, Real

LEMMA DestroyedSound ==
  ASSUME NEW s, Sound(s), NEW i \in Indices, NEW told \in BOOLEAN
  PROVE  /\ Sound(Destroyed(s, i, told))
         /\ Destroyed(s, i, told).mask = s.mask \ {i}
         /\ Destroyed(s, i, told).pool = s.pool
<1> DEFINE d == Destroyed(s, i, told)
           t == [s.team_pools EXCEPT ![i] = NoTeam]
<1>1. /\ s.mask \subseteq Indices /\ s.pool \in [Indices -> TeamSet]
      /\ s.team_pools \in [Indices -> TeamSet] /\ s.device \in [Indices -> TeamSet]
  BY DEF Sound, States
<1>2. t \in [Indices -> TeamSet] /\ \A j \in Indices \ {i} : t[j] = s.team_pools[j]
  BY <1>1, NoTeamTyped
<1> HIDE DEF t
<1>3. /\ d.mask = s.mask \ {i} /\ d.pool = s.pool /\ d.team_pools = t
      /\ d.device = IF told THEN t ELSE s.device
  BY DEF Destroyed, Sound, States, t
<1>4. d \in States
  <2>1. d = [s EXCEPT !.mask = s.mask \ {i}, !.team_pools = t,
                      !.device = IF told THEN t ELSE s.device]
    BY DEF Destroyed, t
  <2> QED BY <2>1, <1>1, <1>2 DEF Sound, States
<1> QED BY <1>1, <1>2, <1>3, <1>4 DEF Sound

LEMMA CreationsGrow ==
  ASSUME NEW s, Sound(s), NEW t \in Real, NEW x \in Creations(s, t)
  PROVE  Grows(s, x, {t}) /\ (x.fault = "none" => x.team # Invalid)
<1>1. /\ s.mask \subseteq Indices /\ s.pool \in [Indices -> TeamSet]
      /\ s.team_pools \in [Indices -> TeamSet] /\ s.device \in [Indices -> TeamSet]
      /\ t \in TeamSet /\ Invalid \notin Indices
  BY NoTeamTyped, TeamAssumption DEF Sound, States, Indices, Invalid
<1>2. CASE s.mask = Indices
  <2>1. x = Failure(s, "full")
    BY <1>2 DEF Creations
  <2>2. x.state = s /\ x.ret = 1 /\ x.team = Invalid /\ x.fault = "full"
    BY <2>1 DEF Failure
  <2>3. Invalid \notin s.mask
    BY <1>1
  <2> QED BY <2>2, <2>3 DEF Grows
<1>3. CASE s.mask # Indices
  <2> DEFINE i == FirstFree(s)
             kept == [s EXCEPT !.mask = @ \cup {i}, !.pool[i] = t]
             made == [kept EXCEPT !.team_pools[i] = t]
             told == [made EXCEPT !.device = made.team_pools]
  <2>1. i \in Indices \ s.mask
    BY <1>3, LeastFree DEF Sound
  <2>2. \/ x = Answer(told, i)
        \/ \E b \in BOOLEAN : x = Failure(Destroyed(made, i, b), "device")
    BY <1>3 DEF Creations
  <2> HIDE DEF i
  <2>3. /\ made = [s EXCEPT !.mask = s.mask \cup {i}, !.pool = [s.pool EXCEPT ![i] = t],
                            !.team_pools = [s.team_pools EXCEPT ![i] = t]]
        /\ told = [made EXCEPT !.device = [s.team_pools EXCEPT ![i] = t]]
        /\ made.mask = s.mask \cup {i} /\ made.pool = [s.pool EXCEPT ![i] = t]
        /\ made.team_pools = [s.team_pools EXCEPT ![i] = t] /\ made.device = s.device
    BY DEF Sound, States
  <2>4. /\ [s.pool EXCEPT ![i] = t] \in [Indices -> TeamSet]
        /\ [s.team_pools EXCEPT ![i] = t] \in [Indices -> TeamSet]
        /\ s.mask \cup {i} \subseteq Indices
    BY <1>1, <2>1
  <2>5. made \in States
    BY <1>1, <2>3, <2>4 DEF Sound, States
  <2> HIDE DEF kept, made, told
  <2>6. /\ told \in States /\ told.mask = s.mask \cup {i}
        /\ told.pool = [s.pool EXCEPT ![i] = t]
        /\ told.team_pools = [s.team_pools EXCEPT ![i] = t]
        /\ told.device = [s.team_pools EXCEPT ![i] = t]
    BY <2>3, <2>4, <2>5 DEF States
  <2>7. CASE x = Answer(told, i)
    <3>1. /\ x.state = told /\ x.ret = 0 /\ x.team = i /\ x.fault = "none"
      BY <2>7 DEF Answer
    <3>2. Sound(told)
      BY <1>1, <2>1, <2>6 DEF Sound
    <3>3. /\ \A j \in s.mask : told.pool[j] = s.pool[j]
          /\ told.pool[i] = t /\ i # Invalid
      BY <1>1, <2>1, <2>6
    <3>4. /\ x.team \in Indices \cup {Invalid} /\ x.team \notin s.mask
          /\ x.state.mask = s.mask \cup (IF x.team = Invalid THEN {} ELSE {x.team})
      BY <2>1, <2>6, <3>1, <3>3
    <3>5. /\ \A j \in s.mask : x.state.pool[j] = s.pool[j]
          /\ x.state.pool[x.team] \in {t} /\ Sound(x.state)
      BY <3>1, <3>2, <3>3
    <3> QED BY <3>1, <3>3, <3>4, <3>5 DEF Grows
  <2>8. CASE \E b \in BOOLEAN : x = Failure(Destroyed(made, i, b), "device")
    <3>1. PICK b \in BOOLEAN : x = Failure(Destroyed(made, i, b), "device")
      BY <2>8
    <3> DEFINE d == Destroyed(made, i, b)
    <3>2. /\ x.state = d /\ x.ret = 1 /\ x.team = Invalid /\ x.fault = "device"
      BY <3>1 DEF Failure
    <3> DEFINE p == [made.team_pools EXCEPT ![i] = NoTeam]
    <3>3. d = [made EXCEPT !.mask = made.mask \ {i}, !.team_pools = p,
                           !.device = IF b THEN p ELSE made.device]
      BY DEF Destroyed
    <3>4. p \in [Indices -> TeamSet] /\ \A j \in s.mask : p[j] = s.team_pools[j]
      BY <1>1, <2>1, <2>3, NoTeamTyped
    <3> HIDE DEF p
    <3>9. /\ made.mask \ {i} = s.mask /\ made.mask \ {i} \subseteq Indices
          /\ (IF b THEN p ELSE made.device) \in [Indices -> TeamSet]
      BY <1>1, <2>1, <2>3, <3>4
    <3> HIDE DEF d
    <3>10. /\ d.mask = made.mask \ {i} /\ d.pool = made.pool
           /\ d.team_pools = p /\ d.device = IF b THEN p ELSE made.device
      BY <2>5, <3>3 DEF States
    <3>11. d \in States
      BY <2>5, <3>3, <3>4, <3>9 DEF States
    <3>5. /\ d \in States /\ d.mask = s.mask /\ d.pool = made.pool
          /\ d.team_pools = p /\ d.device = IF b THEN p ELSE s.device
      BY <2>3, <3>9, <3>10, <3>11
    <3>6. \A j \in s.mask : d.pool[j] = s.pool[j]
      BY <1>1, <2>1, <2>3, <3>5
    <3>7. Sound(d)
      BY <1>1, <3>4, <3>5, <3>6 DEF Sound
    <3>8. Invalid \notin s.mask
      BY <1>1
    <3> QED BY <3>2, <3>5, <3>6, <3>7, <3>8 DEF Grows
  <2> QED BY <2>2, <2>7, <2>8
<1> QED BY <1>2, <1>3

LEMMA Products ==
  ASSUME NEW m \in Nat, NEW n \in Nat
  PROVE  m * n \in Nat /\ (0 < m /\ 0 < n => 0 < m * n)
<1>1. 0 < m /\ 0 < n => m <= m * n
  BY MultipleAtLeast
<1> QED BY <1>1

LEMMA Intervals ==
  /\ \A m \in Nat : \A i : i \in 0 .. m - 1 => i \in Nat
  /\ \A m \in Nat : \A i : i \in 1 .. m => i \in Nat \ {0}
  /\ \A i : i \in 1 .. MaxRanks - 1 => i \in Nat \ {0}
BY DEF MaxRanks

LEMMA Arguments ==
  ASSUME NEW t \in Real, NEW a, Acceptable(t, a)
  PROVE  /\ a.start \in Nat /\ a.stride \in Nat \ {0} /\ a.size \in Nat \ {0}
         /\ First(t, a) \in Nat /\ Stride(t, a) \in Nat \ {0}
<1>1. /\ a.start \in Nat /\ a.stride \in Nat \ {0} /\ a.size \in Nat \ {0}
  <2>1. t.size \in Nat
    BY DEF Real
  <2>2. a.start \in 0 .. t.size - 1 /\ a.size \in 1 .. t.size /\ a.stride \in 1 .. MaxRanks - 1
    BY DEF Acceptable
  <2> QED BY <2>1, <2>2, Intervals
<1>2. t.start \in Nat /\ t.stride \in Nat \ {0}
  BY DEF Real
<1>3. a.start * t.stride \in Nat
  BY <1>1, <1>2, Products
<1>4. t.stride * a.stride \in Nat /\ 0 < t.stride * a.stride
  BY <1>1, <1>2, Products
<1> QED BY <1>1, <1>2, <1>3, <1>4 DEF First, Stride

LEMMA ChildReal ==
  ASSUME NEW t \in Real, NEW a, Acceptable(t, a), Joins(t, a)
  PROVE  Child(t, a) \in Real
<1> DEFINE f == First(t, a)
           k == Stride(t, a)
           m == (t.mype - f) \div k
<1>1. f \in Nat /\ k \in Nat \ {0} /\ a.size \in Nat \ {0} /\ t.mype \in Nat
  BY Arguments DEF Real
<1> HIDE DEF f, k
<1>2. t.mype - f \in Nat
  BY <1>1 DEF Joins, f
<1>3. m \in Nat
  BY <1>1, <1>2
<1>4. Child(t, a) = [start |-> f, stride |-> k, size |-> a.size, mype |-> m]
  BY DEF Child, Team, f, k
<1> QED BY <1>1, <1>3, <1>4 DEF Real

LEMMA AnswerGrows ==
  ASSUME NEW s, Sound(s), NEW T
  PROVE  Grows(s, Answer(s, Invalid), T) /\ Grows(s, Failure(s, "none"), T)
<1>1. Invalid \notin s.mask
  BY TeamAssumption DEF Sound, States, Indices, Invalid
<1> QED BY <1>1 DEF Grows, Answer, Failure

(* The teams that PE state s can get from the splits in A.                 *)
Children(s, parent, A) ==
  {Child(s.pool[parent], a) : a \in Mine(s.pool[parent], A)}

LEMMA SplitsGrow ==
  ASSUME NEW s, Sound(s), NEW parent, NEW a, NEW x \in Splits(s, parent, a)
  PROVE  /\ Grows(s, x, {Child(s.pool[parent], a)})
         /\ x.team # Invalid =>
              /\ parent \in s.mask
              /\ Acceptable(s.pool[parent], a) /\ Joins(s.pool[parent], a)
         /\ x.fault = "none" /\ parent \in s.mask
              /\ Acceptable(s.pool[parent], a) /\ Joins(s.pool[parent], a)
              => x.team # Invalid
<1>1. CASE parent \notin s.mask \/ ~ Acceptable(s.pool[parent], a)
  <2>1. x = Failure(s, "none")
    BY <1>1 DEF Splits
  <2>2. x.team = Invalid
    BY <2>1 DEF Failure
  <2> QED BY <1>1, <2>1, <2>2, AnswerGrows
<1>2. CASE parent \in s.mask /\ Acceptable(s.pool[parent], a) /\ Joins(s.pool[parent], a)
  <2>1. x \in Creations(s, Child(s.pool[parent], a))
    BY <1>2 DEF Splits
  <2>2. Child(s.pool[parent], a) \in Real
    BY <1>2, ChildReal DEF Sound
  <2> QED BY <1>2, <2>1, <2>2, CreationsGrow
<1>3. CASE parent \in s.mask /\ Acceptable(s.pool[parent], a) /\ ~ Joins(s.pool[parent], a)
  <2>1. x = Answer(s, Invalid)
    BY <1>3 DEF Splits
  <2>2. x.team = Invalid
    BY <2>1 DEF Answer
  <2> QED BY <1>3, <2>1, <2>2, AnswerGrows
<1> QED BY <1>1, <1>2, <1>3

LEMMA AxisGrows ==
  ASSUME NEW s, Sound(s), NEW parent \in s.mask, NEW A, NEW x \in Axis(s, parent, A)
  PROVE  /\ Grows(s, x, Children(s, parent, A))
         /\ x.team # Invalid => Mine(s.pool[parent], A) # {}
         /\ x.fault = "none" /\ Mine(s.pool[parent], A) # {} => x.team # Invalid
<1>1. CASE Mine(s.pool[parent], A) = {}
  <2>1. x = Answer(s, Invalid)
    BY <1>1 DEF Axis
  <2>2. x.team = Invalid
    BY <2>1 DEF Answer
  <2> QED BY <1>1, <2>1, <2>2, AnswerGrows
<1>2. CASE Mine(s.pool[parent], A) # {}
  <2>1. PICK a \in Mine(s.pool[parent], A) : x \in Creations(s, Child(s.pool[parent], a))
    BY <1>2 DEF Axis
  <2>2. Child(s.pool[parent], a) \in Real
    BY <2>1, ChildReal DEF Mine, Sound
  <2>3. Grows(s, x, {Child(s.pool[parent], a)}) /\ (x.fault = "none" => x.team # Invalid)
    BY <2>1, <2>2, CreationsGrow
  <2>4. Child(s.pool[parent], a) \in Children(s, parent, A)
    BY <2>1 DEF Children
  <2> QED BY <1>2, <2>3, <2>4 DEF Grows
<1> QED BY <1>1, <1>2

-----------------------------------------------------------------------------
(* The invariant.                                                          *)

Refs == (Nat \ {0}) \X (1 .. 2)
CallSet ==
  [op : {"world"}]
  \cup [op : {"strided"}, parent : Refs, args : [start : Nat, stride : Nat, size : Nat]]
  \cup [op : {"grid"}, parent : Refs, x : Nat]
  \cup [op : {"destroy"}, team : Refs]
AnswerSet == [ret : 0 .. 1, teams : Seq(Indices \cup {Invalid})]

(* The places of a call's answer. *)
Slots(c) == IF c.op = "grid" THEN 1 .. 2 ELSE IF c.op = "destroy" THEN {} ELSE {1}

(* Before call n of the program P, the application has team <<m, k>>. *)
Earlier(P, n, m, k) ==
  /\ m \in 1 .. n - 1 /\ k \in Slots(P[m])
  /\ \A l \in 1 .. n - 1 : P[l] # Destroys(<<m, k>>)

(* A team is split or destroyed by a call after the one that made it, and  *)
(* before the one that destroys it.                                        *)
ProgramOK(P) ==
  /\ P \in Seq(CallSet) /\ 1 <= Len(P)
  /\ \A n \in 1 .. Len(P) :
       /\ P[n].op = "world" <=> n = 1
       /\ P[n].op = "destroy" =>
            \E m, k : Earlier(P, n, m, k) /\ P[n] = Destroys(<<m, k>>)
       /\ P[n].op \in {"strided", "grid"} =>
            \E m, k : Earlier(P, n, m, k) /\ P[n].parent = <<m, k>>

(* A is the answers to one PE: the team in place k of the answer to call   *)
(* n, and whether the PE still has it.                                     *)
At(A, n, k) == A[n].teams[k]

Lives(P, A, n, k) ==
  /\ n \in 1 .. Len(A) /\ k \in Slots(P[n]) /\ At(A, n, k) # Invalid
  /\ \A m \in 1 .. Len(A) : P[m] # Destroys(<<n, k>>)

AnswersOK ==
  /\ answers \in [PEs -> Seq(AnswerSet)] /\ missed \subseteq PEs
  /\ \A p \in PEs : Len(answers[p]) \in 1 .. Len(program)
  /\ \A p \in PEs : \A n \in 1 .. Len(answers[p]) : \A k \in Slots(program[n]) :
       At(answers[p], n, k) \in Indices \cup {Invalid}

(* The mask M is that of the teams the PE still has. *)
IndexOK(P, A, M) ==
  /\ \A i \in Indices : i \in M <=> \E n, k : Lives(P, A, n, k) /\ At(A, n, k) = i
  /\ \A n, k, m, l :
       Lives(P, A, n, k) /\ Lives(P, A, m, l) /\ At(A, n, k) = At(A, m, l)
       => n = m /\ k = l

PeOK ==
  /\ pe \in [PEs -> States]
  /\ \A p \in PEs : Sound(pe[p]) /\ IndexOK(program, answers[p], pe[p].mask)

Inductive == ProgramOK(program) /\ AnswersOK /\ PeOK

LEMMA MadeIs == \A n : Made(n) = Slots(program[n])
BY DEF Made, Slots

LEMMA HeldIs ==
  ASSUME ProgramOK(program), AnswersOK, NEW p \in PEs
  PROVE  \A r : r \in Held(p) <=> \E n, k : r = <<n, k>> /\ Lives(program, answers[p], n, k)
<1>1. /\ Len(answers[p]) \in 1 .. Len(program) /\ Len(program) \in Nat
      /\ Len(answers[p]) \in Nat
  BY DEF ProgramOK, AnswersOK
<1>2. ASSUME NEW r
      PROVE  r \in Teams <=>
               \E n, k : n \in 1 .. Len(program) /\ k \in Slots(program[n]) /\ r = <<n, k>>
  BY MadeIs DEF Teams
<1>3. ASSUME NEW r, r \in Held(p)
      PROVE  \E n, k : r = <<n, k>> /\ Lives(program, answers[p], n, k)
  <2>1. PICK n, k : n \in 1 .. Len(program) /\ k \in Slots(program[n]) /\ r = <<n, k>>
    BY <1>2, <1>3 DEF Held
  <2>2. r[1] = n /\ r[2] = k
    BY <2>1
  <2>3. n \in 1 .. Len(answers[p]) /\ At(answers[p], n, k) # Invalid
    BY <1>1, <1>3, <2>1, <2>2 DEF Held, Holds, Handle, At
  <2>4. \A m \in 1 .. Len(answers[p]) : program[m] # Destroys(<<n, k>>)
    BY <1>3, <2>1 DEF Held
  <2> QED BY <2>1, <2>3, <2>4 DEF Lives
<1>4. ASSUME NEW n, NEW k, Lives(program, answers[p], n, k)
      PROVE  <<n, k>> \in Held(p)
  <2>1. n \in 1 .. Len(program) /\ k \in Slots(program[n]) /\ n <= Len(answers[p])
    BY <1>1, <1>4 DEF Lives
  <2>2. <<n, k>> \in Teams
    BY <1>2, <2>1
  <2>3. Holds(p, <<n, k>>)
    BY <1>4, <2>1 DEF Holds, Handle, At, Lives
  <2> QED BY <1>4, <2>2, <2>3 DEF Held, Lives
<1> QED BY <1>3, <1>4

LEMMA InductiveImplies ==
  ASSUME Inductive
  PROVE  TypeOK /\ IndicesInUse /\ DeviceKnows
<1>1. ProgramOK(program) /\ AnswersOK /\ PeOK
  BY DEF Inductive
<1>2. ASSUME NEW p \in PEs, NEW r \in Held(p)
      PROVE  \E n, k : /\ r = <<n, k>> /\ Lives(program, answers[p], n, k)
                       /\ Handle(p, r) = At(answers[p], n, k) /\ Handle(p, r) \in pe[p].mask
  <2>1. PICK n, k : r = <<n, k>> /\ Lives(program, answers[p], n, k)
    BY <1>1, HeldIs
  <2>2. Handle(p, r) = At(answers[p], n, k)
    BY <2>1 DEF Handle, At
  <2>3. At(answers[p], n, k) \in Indices
    BY <1>1, <2>1 DEF AnswersOK, Lives
  <2>4. At(answers[p], n, k) \in pe[p].mask
    BY <1>1, <2>1, <2>3 DEF PeOK, IndexOK
  <2> QED BY <2>1, <2>2, <2>4
<1>3. TypeOK
  <2>1. pe \in [PEs -> States]
    BY <1>1 DEF PeOK
  <2>2. \A p \in PEs : Len(answers[p]) \in 1 .. Len(program)
    BY <1>1 DEF AnswersOK
  <2>3. ASSUME NEW p \in PEs, NEW r \in Teams, Holds(p, r)
        PROVE  Handle(p, r) \in Indices
    <3>1. PICK n, k : n \in 1 .. Len(program) /\ k \in Slots(program[n]) /\ r = <<n, k>>
      BY MadeIs DEF Teams
    <3>2. n \in 1 .. Len(answers[p])
      BY <1>1, <2>2, <2>3, <3>1 DEF Holds, ProgramOK
    <3>3. At(answers[p], n, k) \in Indices \cup {Invalid}
      BY <1>1, <3>1, <3>2 DEF AnswersOK
    <3> QED BY <2>3, <3>1, <3>3 DEF Holds, Handle, At
  <2> QED BY <1>1, <2>1, <2>2, <2>3 DEF TypeOK, AnswersOK
<1>4. IndicesInUse
  <2>1. ASSUME NEW p \in PEs
        PROVE  pe[p].mask = {Handle(p, r) : r \in Held(p)}
    <3>1. pe[p].mask \subseteq Indices
      BY <1>1 DEF PeOK, Sound, States
    <3>2. ASSUME NEW i \in pe[p].mask
          PROVE  i \in {Handle(p, r) : r \in Held(p)}
      <4>1. PICK n, k : Lives(program, answers[p], n, k) /\ At(answers[p], n, k) = i
        BY <1>1, <3>1 DEF PeOK, IndexOK
      <4>2. <<n, k>> \in Held(p)
        BY <1>1, <4>1, HeldIs
      <4> QED BY <4>1, <4>2 DEF Handle, At
    <3> QED BY <1>2, <3>2
  <2>2. ASSUME NEW p \in PEs, NEW r \in Held(p), NEW s \in Held(p), Handle(p, r) = Handle(p, s)
        PROVE  r = s
    <3>1. PICK n, k : r = <<n, k>> /\ Lives(program, answers[p], n, k) /\ Handle(p, r) = At(answers[p], n, k)
      BY <1>2
    <3>2. PICK m, l : s = <<m, l>> /\ Lives(program, answers[p], m, l) /\ Handle(p, s) = At(answers[p], m, l)
      BY <1>2
    <3>3. n = m /\ k = l
      BY <1>1, <2>2, <3>1, <3>2 DEF PeOK, IndexOK
    <3> QED BY <3>1, <3>2, <3>3
  <2> QED BY <2>1, <2>2 DEF IndicesInUse
<1>5. DeviceKnows
  BY <1>1, <1>2 DEF DeviceKnows, PeOK, Sound
<1> QED BY <1>3, <1>4, <1>5

-----------------------------------------------------------------------------
(* Initially.                                                              *)

LEMMA InitInductive ==
  ASSUME Init
  PROVE  Inductive
<1>1. program = <<[op |-> "world"]>>
  BY DEF Init
<1>2. Len(program) = 1 /\ program[1] = [op |-> "world"] /\ program \in Seq(CallSet)
  <2>1. [op |-> "world"] \in CallSet
    BY DEF CallSet
  <2> QED BY <1>1, <2>1
<1>3. program[1].op = "world" /\ Slots(program[1]) = {1}
  BY <1>2 DEF Slots
<1>4. ProgramOK(program)
  BY <1>2, <1>3 DEF ProgramOK
<1>5. World \in Indices /\ Invalid \notin Indices /\ World # Invalid
  BY TeamAssumption DEF World, Indices, Invalid
<1>6. \A p \in PEs : answers[p] = <<[ret |-> 0, teams |-> <<World>>]>>
  BY DEF Init
<1>7. \A p \in PEs : Len(answers[p]) = 1 /\ At(answers[p], 1, 1) = World
  BY <1>6 DEF At
<1>12. \A n : n \in 1 .. 1 <=> n = 1
  OBVIOUS
<1>8. AnswersOK
  <2>1. [ret |-> 0, teams |-> <<World>>] \in AnswerSet
    BY <1>5 DEF AnswerSet
  <2>2. answers \in [PEs -> Seq(AnswerSet)] /\ missed \subseteq PEs
    BY <2>1 DEF Init
  <2>3. \A p \in PEs : Len(answers[p]) \in 1 .. Len(program)
    BY <1>2, <1>7
  <2>4. ASSUME NEW p \in PEs, NEW n \in 1 .. Len(answers[p]), NEW k \in Slots(program[n])
        PROVE  At(answers[p], n, k) \in Indices \cup {Invalid}
    <3>1. n = 1 /\ k = 1
      BY <1>3, <1>7, <1>12
    <3> QED BY <1>5, <1>7, <3>1
  <2> QED BY <2>2, <2>3, <2>4 DEF AnswersOK
<1>9. ASSUME NEW p \in PEs
      PROVE  \A n, k : Lives(program, answers[p], n, k) <=> n = 1 /\ k = 1
  <2>1. program[1] # Destroys(<<1, 1>>)
    BY <1>3 DEF Destroys
  <2>2. ASSUME NEW n, NEW k, Lives(program, answers[p], n, k)
        PROVE  n = 1 /\ k = 1
    <3>1. n \in 1 .. Len(answers[p]) /\ k \in Slots(program[n])
      BY <2>2 DEF Lives
    <3> QED BY <1>3, <1>7, <1>12, <3>1
  <2>3. Lives(program, answers[p], 1, 1)
    <3>1. \A m \in 1 .. Len(answers[p]) : m = 1
      BY <1>7, <1>12
    <3>2. 1 \in 1 .. Len(answers[p]) /\ 1 \in Slots(program[1])
      BY <1>3, <1>7
    <3> QED BY <1>5, <1>7, <2>1, <3>1, <3>2 DEF Lives
  <2> QED BY <2>2, <2>3
<1>10. ASSUME NEW p \in PEs
       PROVE  Sound(pe[p]) /\ pe[p].mask = {World}
  <2> DEFINE only == [i \in Indices |-> IF i = World THEN WorldOf(p) ELSE NoTeam]
  <2>1. pe[p] = [mask |-> {World}, pool |-> only, team_pools |-> only, device |-> only]
    BY DEF Init
  <2>2. WorldOf(p) \in Real
    BY TeamAssumption DEF WorldOf, Team, Real, PEs
  <2>3. only \in [Indices -> TeamSet] /\ only[World] = WorldOf(p)
    BY <1>5, <2>2, NoTeamTyped
  <2> HIDE DEF only
  <2> QED BY <1>5, <2>1, <2>2, <2>3 DEF Sound, States
<1>11. PeOK
  <2>1. ASSUME NEW p \in PEs
        PROVE  IndexOK(program, answers[p], pe[p].mask)
    BY <1>7, <1>9, <1>10 DEF IndexOK
  <2>2. pe \in [PEs -> States]
    BY <1>10 DEF Init, Sound
  <2> QED BY <1>10, <2>1, <2>2 DEF PeOK
<1> QED BY <1>4, <1>8, <1>11 DEF Inductive

-----------------------------------------------------------------------------
(* A call extends the program, and the answers of one PE.                  *)

(* What a step of p that makes call n, which is c, has in common. *)
Extends(p, n, c) ==
  /\ n = Len(answers[p]) + 1 /\ n \in 1 .. Len(program')
  /\ program'[n] = c /\ Len(program) <= Len(program')
  /\ \A m \in 1 .. Len(program) : program'[m] = program[m]

LEMMA CallsTyped ==
  ASSUME ProgramOK(program), NEW c \in Calls
  PROVE  /\ c \in CallSet /\ c.op \in {"strided", "grid", "destroy"}
         /\ c.op = "destroy" =>
              \E m, k : Earlier(program, Len(program) + 1, m, k) /\ c = Destroys(<<m, k>>)
         /\ c.op \in {"strided", "grid"} =>
              \E m, k : Earlier(program, Len(program) + 1, m, k) /\ c.parent = <<m, k>>
<1>1. Len(program) \in Nat
  BY DEF ProgramOK
<1>2. ASSUME NEW r \in InUse
      PROVE  r \in Refs /\ \E m, k : Earlier(program, Len(program) + 1, m, k) /\ r = <<m, k>>
  <2>1. PICK m, k : m \in 1 .. Len(program) /\ k \in Made(m) /\ r = <<m, k>>
    BY DEF InUse, Teams
  <2>2. k \in 1 .. 2
    BY <2>1 DEF Made
  <2>3. Earlier(program, Len(program) + 1, m, k)
    BY <1>1, <2>1, MadeIs DEF Earlier, InUse
  <2> QED BY <1>1, <2>1, <2>2, <2>3 DEF Refs
<1>3. PICK op \in {"strided", "grid", "destroy"} : c.op = op
  BY DEF Calls, Destroys
<1>4. CASE c.op = "strided"
  <2>1. PICK r \in InUse, a \in [start : 0 .. NPes - 1, stride : 1 .. NPes - 1, size : 1 .. NPes] :
          c = [op |-> "strided", parent |-> r, args |-> a]
    BY <1>4 DEF Calls, Destroys
  <2>2. a \in [start : Nat, stride : Nat, size : Nat]
    BY TeamAssumption
  <2> QED BY <1>2, <2>1, <2>2 DEF CallSet
<1>5. CASE c.op = "grid"
  <2>1. PICK r \in InUse, x \in 1 .. NPes + 1 : c = [op |-> "grid", parent |-> r, x |-> x]
    BY <1>5 DEF Calls, Destroys
  <2>2. x \in Nat
    BY TeamAssumption
  <2> QED BY <1>2, <2>1, <2>2 DEF CallSet
<1>6. CASE c.op = "destroy"
  <2>1. PICK r \in InUse : c = Destroys(r)
    BY <1>6 DEF Calls
  <2> QED BY <1>2, <2>1 DEF CallSet, Destroys
<1> QED BY <1>3, <1>4, <1>5, <1>6

LEMMA EarlierKept ==
  ASSUME ProgramOK(program), \A m \in 1 .. Len(program) : program'[m] = program[m],
         NEW n \in 1 .. Len(program) + 1, NEW m, NEW k
  PROVE  Earlier(program', n, m, k) <=> Earlier(program, n, m, k)
<1>1. n - 1 \in Int /\ Len(program) \in Nat
  BY DEF ProgramOK
<1>2. \A l \in 1 .. n - 1 : program'[l] = program[l]
  BY <1>1
<1> QED BY <1>2 DEF Earlier

LEMMA CallExtends ==
  ASSUME Inductive, NEW p \in PEs, NEW n, Turn(p, n), NEW New, New \subseteq Calls,
         NEW c, c \in IF n <= Len(program) THEN {program[n]} ELSE New, IsCall(n, c)
  PROVE  /\ Extends(p, n, c) /\ ProgramOK(program')
         /\ c \in CallSet /\ c.op \in {"strided", "grid", "destroy"}
<1>1. /\ ProgramOK(program) /\ Len(program) \in Nat /\ program \in Seq(CallSet)
      /\ Len(answers[p]) \in 1 .. Len(program)
      /\ n = Len(answers[p]) + 1
  BY DEF Inductive, ProgramOK, AnswersOK, Turn
<1>2. CASE n <= Len(program)
  <2>1. program' = program /\ c = program[n]
    BY <1>2 DEF IsCall
  <2>2. Extends(p, n, c)
    BY <1>1, <1>2, <2>1 DEF Extends
  <2>3. ProgramOK(program')
    BY <1>1, <2>1 DEF ProgramOK
  <2>4. n \in 1 .. Len(program) /\ n # 1
    BY <1>1, <1>2
  <2>5. c \in CallSet /\ c.op # "world"
    BY <1>1, <2>1, <2>4 DEF ProgramOK
  <2>6. c.op \in {"world", "strided", "grid", "destroy"}
    BY <2>5 DEF CallSet
  <2> QED BY <2>2, <2>3, <2>5, <2>6
<1>3. CASE ~ (n <= Len(program))
  <2>1. program' = Append(program, c) /\ c \in Calls /\ n = Len(program) + 1
    BY <1>1, <1>3 DEF IsCall
  <2>2. /\ c \in CallSet /\ c.op \in {"strided", "grid", "destroy"}
        /\ c.op = "destroy" => \E m, k : Earlier(program, n, m, k) /\ c = Destroys(<<m, k>>)
        /\ c.op \in {"strided", "grid"} => \E m, k : Earlier(program, n, m, k) /\ c.parent = <<m, k>>
    BY <1>1, <2>1, CallsTyped
  <2>3. /\ program' \in Seq(CallSet) /\ Len(program') = n /\ program'[n] = c
        /\ \A m \in 1 .. Len(program) : program'[m] = program[m]
    BY <1>1, <2>1, <2>2
  <2>4. Extends(p, n, c)
    BY <1>1, <2>1, <2>3 DEF Extends
  <2>5. ASSUME NEW m \in 1 .. Len(program')
        PROVE  /\ program'[m].op = "world" <=> m = 1
               /\ program'[m].op = "destroy" =>
                    \E j, k : Earlier(program', m, j, k) /\ program'[m] = Destroys(<<j, k>>)
               /\ program'[m].op \in {"strided", "grid"} =>
                    \E j, k : Earlier(program', m, j, k) /\ program'[m].parent = <<j, k>>
    <3>1. m \in 1 .. Len(program) + 1
      BY <2>1, <2>3
    <3>2. \A j, k : Earlier(program', m, j, k) <=> Earlier(program, m, j, k)
      BY <1>1, <2>3, <3>1, EarlierKept
    <3>3. CASE m \in 1 .. Len(program)
      <4>1. /\ program[m].op = "world" <=> m = 1
            /\ program[m].op = "destroy" =>
                 \E j, k : Earlier(program, m, j, k) /\ program[m] = Destroys(<<j, k>>)
            /\ program[m].op \in {"strided", "grid"} =>
                 \E j, k : Earlier(program, m, j, k) /\ program[m].parent = <<j, k>>
        BY <1>1, <3>3 DEF ProgramOK
      <4>2. program'[m] = program[m]
        BY <2>3, <3>3
      <4> HIDE DEF ProgramOK
      <4> QED BY <3>2, <4>1, <4>2
    <3>4. CASE m = n
      BY <1>1, <2>1, <2>2, <2>3, <3>2, <3>4
    <3> QED BY <1>1, <2>1, <3>1, <3>3, <3>4
  <2>6. ProgramOK(program')
    <3>1. 1 <= Len(program')
      BY <1>1, <2>1, <2>3
    <3> QED BY <2>3, <2>5, <3>1 DEF ProgramOK
  <2> QED BY <2>2, <2>4, <2>6
<1> QED BY <1>2, <1>3

LEMMA DestroyedEarlier ==
  ASSUME NEW P, ProgramOK(P), NEW l \in 1 .. Len(P), NEW n, NEW k, P[l] = Destroys(<<n, k>>)
  PROVE  Earlier(P, l, n, k)
<1>1. P[l].op = "destroy" /\ P[l].team = <<n, k>>
  BY DEF Destroys
<1>2. PICK m, j : Earlier(P, l, m, j) /\ P[l] = Destroys(<<m, j>>)
  BY <1>1 DEF ProgramOK
<1>3. m = n /\ j = k
  BY <1>1, <1>2 DEF Destroys
<1> QED BY <1>2, <1>3

(* The same program, as far as the PE has come. *)
LEMMA LivesSame ==
  ASSUME NEW A \in Seq(AnswerSet), NEW P, NEW Q, \A m \in 1 .. Len(A) : Q[m] = P[m]
  PROVE  \A n, k : Lives(Q, A, n, k) <=> Lives(P, A, n, k)
BY DEF Lives

LEMMA IndexSame ==
  ASSUME NEW A \in Seq(AnswerSet), NEW P, NEW Q, \A m \in 1 .. Len(A) : Q[m] = P[m], NEW M
  PROVE  IndexOK(P, A, M) <=> IndexOK(Q, A, M)
BY LivesSame DEF IndexOK

LEMMA Appended ==
  ASSUME NEW A \in Seq(AnswerSet), NEW a \in AnswerSet
  PROVE  /\ Append(A, a) \in Seq(AnswerSet) /\ Len(Append(A, a)) = Len(A) + 1
         /\ \A m, k : m \in 1 .. Len(A) => At(Append(A, a), m, k) = At(A, m, k)
         /\ \A k : At(Append(A, a), Len(A) + 1, k) = a.teams[k]
         /\ \A m : m \in 1 .. Len(A) + 1 <=> m \in 1 .. Len(A) \/ m = Len(A) + 1
<1>1. Len(A) \in Nat
  OBVIOUS
<1>2. \A m : m \in 1 .. Len(A) + 1 <=> m \in 1 .. Len(A) \/ m = Len(A) + 1
  BY <1>1
<1> QED BY <1>1, <1>2 DEF At

(* A split: the new teams are added. *)
LEMMA LivesGained ==
  ASSUME NEW P, ProgramOK(P), NEW A \in Seq(AnswerSet), NEW a \in AnswerSet,
         Len(A) < Len(P), P[Len(A) + 1].op # "destroy"
  PROVE  \A m, k : Lives(P, Append(A, a), m, k) <=>
           \/ Lives(P, A, m, k)
           \/ m = Len(A) + 1 /\ k \in Slots(P[m]) /\ a.teams[k] # Invalid
<1> DEFINE B == Append(A, a)
           n == Len(A) + 1
<1>1. Len(A) \in Nat /\ Len(P) \in Nat /\ n \in 1 .. Len(P) /\ n \notin 1 .. Len(A)
  BY DEF ProgramOK
<1>2. /\ Len(B) = n /\ \A m, k : m \in 1 .. Len(A) => At(B, m, k) = At(A, m, k)
      /\ \A k : At(B, n, k) = a.teams[k]
      /\ \A m : m \in 1 .. n <=> m \in 1 .. Len(A) \/ m = n
  BY Appended
<1>3. \A k : P[n] # Destroys(k)
  BY DEF Destroys
<1>4. ASSUME NEW k, NEW l \in 1 .. n
      PROVE  P[l] # Destroys(<<n, k>>)
  <2>1. SUFFICES ASSUME P[l] = Destroys(<<n, k>>)
                 PROVE  FALSE
    OBVIOUS
  <2>2. Earlier(P, l, n, k)
    BY <1>1, <2>1, DestroyedEarlier
  <2> QED BY <1>1, <2>2 DEF Earlier
<1> HIDE DEF B, n
<1>5. ASSUME NEW m, NEW k
      PROVE  Lives(P, B, m, k) <=>
             Lives(P, A, m, k) \/ (m = n /\ k \in Slots(P[m]) /\ a.teams[k] # Invalid)
  <2>1. CASE m = n
    BY <1>1, <1>2, <1>4, <2>1 DEF Lives
  <2>2. CASE m \in 1 .. Len(A)
    BY <1>1, <1>2, <1>3, <2>2 DEF Lives
  <2>3. CASE m # n /\ m \notin 1 .. Len(A)
    BY <1>2, <2>3 DEF Lives
  <2> QED BY <2>1, <2>2, <2>3
<1> QED BY <1>5 DEF B, n

(* A team is destroyed. *)
LEMMA LivesLost ==
  ASSUME NEW P, ProgramOK(P), NEW A \in Seq(AnswerSet), NEW a \in AnswerSet,
         Len(A) < Len(P), NEW x, NEW y, P[Len(A) + 1] = Destroys(<<x, y>>)
  PROVE  \A m, k : Lives(P, Append(A, a), m, k) <=>
                   Lives(P, A, m, k) /\ ~ (m = x /\ k = y)
<1> DEFINE B == Append(A, a)
           n == Len(A) + 1
<1>1. Len(A) \in Nat /\ Len(P) \in Nat /\ n \in 1 .. Len(P) /\ n \notin 1 .. Len(A)
  BY DEF ProgramOK
<1>2. /\ Len(B) = n /\ \A m, k : m \in 1 .. Len(A) => At(B, m, k) = At(A, m, k)
      /\ \A m : m \in 1 .. n <=> m \in 1 .. Len(A) \/ m = n
  BY Appended
<1>3. Slots(P[n]) = {}
  BY DEF Slots, Destroys
<1>4. \A m, k : P[n] = Destroys(<<m, k>>) <=> m = x /\ k = y
  BY DEF Destroys
<1> HIDE DEF B, n
<1>5. ASSUME NEW m, NEW k
      PROVE  Lives(P, B, m, k) <=> Lives(P, A, m, k) /\ ~ (m = x /\ k = y)
  <2>1. CASE m = n
    BY <1>1, <1>3, <2>1 DEF Lives
  <2>2. CASE m \in 1 .. Len(A)
    BY <1>2, <1>4, <2>2 DEF Lives
  <2>3. CASE m # n /\ m \notin 1 .. Len(A)
    BY <1>2, <2>3 DEF Lives
  <2> QED BY <2>1, <2>2, <2>3
<1> QED BY <1>5 DEF B, n

(* Every team in the answers so far has an index or none. *)
Answered(P, A) ==
  \A n \in 1 .. Len(A) : \A k \in Slots(P[n]) : At(A, n, k) \in Indices \cup {Invalid}

LEMMA InvalidIsNone == Invalid \notin Indices
BY TeamAssumption DEF Invalid, Indices

LEMMA LivingInMask ==
  ASSUME NEW P, NEW A, Answered(P, A), NEW M, IndexOK(P, A, M), NEW n, NEW k, Lives(P, A, n, k)
  PROVE  At(A, n, k) \in Indices \cap M
<1>1. At(A, n, k) \in Indices
  BY DEF Lives, Answered
<1> QED BY <1>1 DEF IndexOK

(* The teams of an answer are new, and M becomes N with them.              *)
NewTeams(teams, K, M, N) ==
  /\ \A k \in K : teams[k] \in Indices \cup {Invalid} /\ teams[k] \notin M
  /\ \A k, l \in K : teams[k] = teams[l] /\ teams[k] # Invalid => k = l
  /\ \A i \in Indices : i \in N <=> i \in M \/ \E k \in K : teams[k] = i

LEMMA IndexGained ==
  ASSUME NEW P, ProgramOK(P), NEW A \in Seq(AnswerSet), NEW a \in AnswerSet,
         Len(A) < Len(P), P[Len(A) + 1].op # "destroy", Answered(P, A),
         NEW M, IndexOK(P, A, M), NEW N, NewTeams(a.teams, Slots(P[Len(A) + 1]), M, N)
  PROVE  IndexOK(P, Append(A, a), N) /\ Answered(P, Append(A, a))
<1> DEFINE B == Append(A, a)
           n == Len(A) + 1
<1>1. /\ Len(B) = n /\ \A m, k : m \in 1 .. Len(A) => At(B, m, k) = At(A, m, k)
      /\ \A k : At(B, n, k) = a.teams[k]
      /\ \A m : m \in 1 .. n <=> m \in 1 .. Len(A) \/ m = n
  BY Appended
<1>2. \A m, k : Lives(P, B, m, k) <=>
                Lives(P, A, m, k) \/ (m = n /\ k \in Slots(P[m]) /\ a.teams[k] # Invalid)
  BY LivesGained
<1>3. \A m, k : Lives(P, A, m, k) => /\ m \in 1 .. Len(A) /\ At(B, m, k) = At(A, m, k)
                                     /\ At(B, m, k) \in Indices \cap M
  BY <1>1, LivingInMask DEF Lives
<1>4. NewTeams(a.teams, Slots(P[n]), M, N)
  OBVIOUS
<1> HIDE DEF B, n
<1>5. Answered(P, B)
  <2>1. ASSUME NEW m \in 1 .. n, NEW k \in Slots(P[m])
        PROVE  At(B, m, k) \in Indices \cup {Invalid}
    BY <1>1, <1>4 DEF Answered, NewTeams
  <2> QED BY <1>1, <2>1 DEF Answered
<1>6. ASSUME NEW i \in Indices
      PROVE  i \in N <=> \E m, k : Lives(P, B, m, k) /\ At(B, m, k) = i
  <2>1. i \in M <=> \E m, k : Lives(P, A, m, k) /\ At(B, m, k) = i
    BY <1>3 DEF IndexOK
  <2>2. (\E k \in Slots(P[n]) : a.teams[k] = i) <=>
        \E m, k : (m = n /\ k \in Slots(P[m]) /\ a.teams[k] # Invalid) /\ At(B, m, k) = i
    BY <1>1, InvalidIsNone
  <2>3. i \in N <=> i \in M \/ \E k \in Slots(P[n]) : a.teams[k] = i
    BY <1>4 DEF NewTeams
  <2> QED BY <1>2, <2>1, <2>2, <2>3
<1>7. ASSUME NEW m, NEW k, NEW j, NEW l,
             Lives(P, B, m, k), Lives(P, B, j, l), At(B, m, k) = At(B, j, l)
      PROVE  m = j /\ k = l
  <2>1. CASE Lives(P, A, m, k) /\ Lives(P, A, j, l)
    BY <1>3, <1>7, <2>1 DEF IndexOK
  <2>2. CASE ~ Lives(P, A, m, k) /\ ~ Lives(P, A, j, l)
    BY <1>1, <1>2, <1>4, <1>7, <2>2 DEF NewTeams
  <2>3. CASE Lives(P, A, m, k) /\ ~ Lives(P, A, j, l)
    BY <1>1, <1>2, <1>3, <1>4, <1>7, <2>3 DEF NewTeams
  <2>4. CASE ~ Lives(P, A, m, k) /\ Lives(P, A, j, l)
    BY <1>1, <1>2, <1>3, <1>4, <1>7, <2>4 DEF NewTeams
  <2> QED BY <2>1, <2>2, <2>3, <2>4
<1>8. IndexOK(P, B, N)
  BY <1>6, <1>7 DEF IndexOK
<1> QED BY <1>5, <1>8 DEF B

LEMMA IndexLost ==
  ASSUME NEW P, ProgramOK(P), NEW A \in Seq(AnswerSet), NEW a \in AnswerSet,
         Len(A) < Len(P), NEW x, NEW y, P[Len(A) + 1] = Destroys(<<x, y>>), Answered(P, A),
         x \in 1 .. Len(A), y \in Slots(P[x]),
         NEW M, IndexOK(P, A, M), NEW N, N = M \ {At(A, x, y)}
  PROVE  IndexOK(P, Append(A, a), N) /\ Answered(P, Append(A, a))
<1> DEFINE B == Append(A, a)
           n == Len(A) + 1
<1>1. /\ Len(B) = n /\ \A m, k : m \in 1 .. Len(A) => At(B, m, k) = At(A, m, k)
      /\ \A m : m \in 1 .. n <=> m \in 1 .. Len(A) \/ m = n
  BY Appended
<1>2. \A m, k : Lives(P, B, m, k) <=> Lives(P, A, m, k) /\ ~ (m = x /\ k = y)
  BY LivesLost
<1>3. \A m, k : Lives(P, A, m, k) => /\ m \in 1 .. Len(A) /\ At(B, m, k) = At(A, m, k)
                                     /\ At(B, m, k) \in Indices \cap M
  BY <1>1, LivingInMask DEF Lives
<1>4. Slots(P[n]) = {}
  BY DEF Slots, Destroys
<1>5. n \in 1 .. Len(P)
  <2>1. Len(A) \in Nat /\ Len(P) \in Nat
    BY DEF ProgramOK
  <2> QED BY <2>1
<1>6. Earlier(P, n, x, y)
  BY <1>5, DestroyedEarlier
<1>7. \A l \in 1 .. Len(A) : P[l] # Destroys(<<x, y>>)
  BY <1>6 DEF Earlier
<1> HIDE DEF B, n
<1>8. Answered(P, B)
  BY <1>1, <1>4 DEF Answered
<1>9. At(A, x, y) # Invalid => Lives(P, A, x, y)
  BY <1>7 DEF Lives
<1>10. ASSUME NEW i \in Indices
       PROVE  i \in N <=> \E m, k : Lives(P, B, m, k) /\ At(B, m, k) = i
  <2>1. i \in M <=> \E m, k : Lives(P, A, m, k) /\ At(A, m, k) = i
    BY DEF IndexOK
  <2>2. i = At(A, x, y) => Lives(P, A, x, y)
    BY <1>9, InvalidIsNone
  <2>3. \A m, k : Lives(P, A, m, k) /\ At(A, m, k) = At(A, x, y) /\ Lives(P, A, x, y) =>
          m = x /\ k = y
    BY DEF IndexOK
  <2>4. CASE i = At(A, x, y)
    BY <1>2, <1>3, <2>2, <2>3, <2>4
  <2>5. CASE i # At(A, x, y)
    BY <1>2, <1>3, <2>1, <2>5
  <2> QED BY <2>4, <2>5
<1>11. ASSUME NEW m, NEW k, NEW j, NEW l,
              Lives(P, B, m, k), Lives(P, B, j, l), At(B, m, k) = At(B, j, l)
       PROVE  m = j /\ k = l
  BY <1>2, <1>3, <1>11 DEF IndexOK
<1>12. IndexOK(P, B, N)
  BY <1>10, <1>11 DEF IndexOK
<1> QED BY <1>8, <1>12 DEF B

-----------------------------------------------------------------------------
(* The steps.                                                              *)

(* What holds before p's call n, seen in the program as it is after. *)
LEMMA Before ==
  ASSUME Inductive, NEW p \in PEs, NEW n, NEW c, Extends(p, n, c)
  PROVE  /\ answers[p] \in Seq(AnswerSet) /\ n = Len(answers[p]) + 1
         /\ Len(answers[p]) < Len(program') /\ Sound(pe[p])
         /\ IndexOK(program', answers[p], pe[p].mask) /\ Answered(program', answers[p])
         /\ \A m \in 1 .. Len(answers[p]) : program'[m] = program[m]
<1>1. /\ answers[p] \in Seq(AnswerSet) /\ Len(answers[p]) \in 1 .. Len(program)
      /\ Len(program) \in Nat /\ Answered(program, answers[p])
      /\ Sound(pe[p]) /\ IndexOK(program, answers[p], pe[p].mask)
  <2>1. Answered(program, answers[p])
    BY DEF Inductive, AnswersOK, Answered
  <2>2. Len(program) \in Nat /\ Sound(pe[p]) /\ IndexOK(program, answers[p], pe[p].mask)
    BY DEF Inductive, PeOK, ProgramOK
  <2> QED BY <2>1, <2>2 DEF Inductive, AnswersOK
<1>2. \A m \in 1 .. Len(answers[p]) : program'[m] = program[m]
  BY <1>1 DEF Extends
<1>3. IndexOK(program', answers[p], pe[p].mask)
  BY <1>1, <1>2, IndexSame
<1>4. Answered(program', answers[p])
  BY <1>1, <1>2 DEF Answered
<1>5. Len(answers[p]) < Len(program')
  BY <1>1 DEF Extends
<1> QED BY <1>1, <1>2, <1>3, <1>4, <1>5 DEF Extends

(* p's own part of the invariant is enough: the others' is not disturbed.  *)
LEMMA Returned ==
  ASSUME Inductive, NEW p \in PEs, NEW n, NEW c, Extends(p, n, c), ProgramOK(program'),
         NEW s, Sound(s), NEW ret \in 0 .. 1, NEW teams \in Seq(Indices \cup {Invalid}),
         Returns(p, s, ret, teams), missed' \subseteq PEs,
         LET A == Append(answers[p], [ret |-> ret, teams |-> teams]) IN
         IndexOK(program', A, s.mask) /\ Answered(program', A)
  PROVE  Inductive'
<1> DEFINE a == [ret |-> ret, teams |-> teams]
<1>1. a \in AnswerSet
  BY DEF AnswerSet
<1> HIDE DEF a
<1>2. /\ answers \in [PEs -> Seq(AnswerSet)] /\ pe \in [PEs -> States] /\ s \in States
      /\ Len(program) \in Nat /\ Len(program') \in Nat /\ Len(program) <= Len(program')
      /\ n = Len(answers[p]) + 1 /\ n \in 1 .. Len(program')
  BY DEF Inductive, AnswersOK, PeOK, ProgramOK, Sound, Extends
<1>3. /\ answers' = [answers EXCEPT ![p] = Append(answers[p], a)]
      /\ pe' = [pe EXCEPT ![p] = s]
      /\ IndexOK(program', Append(answers[p], a), s.mask)
      /\ Answered(program', Append(answers[p], a))
  BY DEF Returns, a
<1>4. Append(answers[p], a) \in Seq(AnswerSet) /\ Len(Append(answers[p], a)) = n
  BY <1>1, <1>2, Appended
<1>5. answers' \in [PEs -> Seq(AnswerSet)] /\ pe' \in [PEs -> States]
  BY <1>2, <1>3, <1>4
<1>6. ASSUME NEW q \in PEs
      PROVE  /\ Len(answers'[q]) \in 1 .. Len(program') /\ Answered(program', answers'[q])
             /\ Sound(pe'[q]) /\ IndexOK(program', answers'[q], pe'[q].mask)
  <2>1. CASE q = p
    <3>1. answers'[q] = Append(answers[p], a) /\ pe'[q] = s
      BY <1>2, <1>3, <2>1
    <3> QED BY <1>2, <1>3, <1>4, <3>1
  <2>2. CASE q # p
    <3>1. answers'[q] = answers[q] /\ pe'[q] = pe[q]
      BY <1>2, <1>3, <2>2
    <3>2. /\ answers[q] \in Seq(AnswerSet) /\ Len(answers[q]) \in 1 .. Len(program)
          /\ Answered(program, answers[q])
          /\ Sound(pe[q]) /\ IndexOK(program, answers[q], pe[q].mask)
      BY DEF Inductive, AnswersOK, PeOK, Answered
    <3>3. \A m \in 1 .. Len(answers[q]) : program'[m] = program[m]
      BY <1>2, <3>2 DEF Extends
    <3>4. IndexOK(program', answers[q], pe[q].mask)
      BY <3>2, <3>3, IndexSame
    <3>5. Answered(program', answers[q])
      BY <3>2, <3>3 DEF Answered
    <3> QED BY <1>2, <3>1, <3>2, <3>4, <3>5
  <2> QED BY <2>1, <2>2
<1>7. AnswersOK'
  BY <1>5, <1>6 DEF AnswersOK, Answered
<1>8. PeOK'
  BY <1>5, <1>6 DEF PeOK
<1> QED BY <1>7, <1>8 DEF Inductive

LEMMA OneNew ==
  ASSUME NEW s, NEW x, NEW T, Grows(s, x, T), Sound(s)
  PROVE  NewTeams(<<x.team>>, {1}, s.mask, x.state.mask)
<1>1. Invalid \notin s.mask
  BY InvalidIsNone DEF Sound, States
<1> QED BY <1>1, InvalidIsNone DEF Grows, NewTeams

LEMMA TwoNew ==
  ASSUME NEW s, NEW x, NEW y, NEW T, NEW U, Sound(s), Grows(s, x, T), Grows(x.state, y, U)
  PROVE  NewTeams(<<x.team, y.team>>, 1 .. 2, s.mask, y.state.mask)
<1>1. /\ x.team \in Indices \cup {Invalid} /\ y.team \in Indices \cup {Invalid}
      /\ x.team \notin s.mask /\ y.team \notin x.state.mask
      /\ x.state.mask = s.mask \cup (IF x.team = Invalid THEN {} ELSE {x.team})
      /\ y.state.mask = x.state.mask \cup (IF y.team = Invalid THEN {} ELSE {y.team})
  BY DEF Grows
<1> DEFINE teams == <<x.team, y.team>>
<1>2. teams[1] = x.team /\ teams[2] = y.team /\ 1 .. 2 = {1, 2}
  OBVIOUS
<1> HIDE DEF teams
<1>3. \A k \in 1 .. 2 : teams[k] \in Indices \cup {Invalid} /\ teams[k] \notin s.mask
  BY <1>1, <1>2
<1>4. \A k, l \in 1 .. 2 : teams[k] = teams[l] /\ teams[k] # Invalid => k = l
  BY <1>1, <1>2
<1>5. \A i \in Indices : i \in y.state.mask <=> i \in s.mask \/ \E k \in 1 .. 2 : teams[k] = i
  BY <1>1, <1>2, InvalidIsNone
<1> QED BY <1>3, <1>4, <1>5 DEF NewTeams, teams

LEMMA FaultsMissed ==
  ASSUME Inductive, NEW p \in PEs, NEW faults, Faults(p, faults)
  PROVE  missed' \subseteq PEs
BY DEF Inductive, AnswersOK, Faults

LEMMA SplitStridedStep ==
  ASSUME Inductive, NEW p \in PEs, NEW n, NEW c, Extends(p, n, c), ProgramOK(program'),
         SplitStrided(p, c)
  PROVE  Inductive'
<1>1. PICK x \in Splits(pe[p], Handle(p, c.parent), c.args) :
         Returns(p, x.state, x.ret, <<x.team>>) /\ Faults(p, {x.fault}) /\ c.op = "strided"
  BY DEF SplitStrided
<1> DEFINE T == {Child(pe[p].pool[Handle(p, c.parent)], c.args)}
<1>2. Sound(pe[p]) /\ Grows(pe[p], x, T)
  BY Before, SplitsGrow
<1> HIDE DEF T
<1>3. /\ Sound(x.state) /\ x.ret \in 0 .. 1 /\ x.team \in Indices \cup {Invalid}
      /\ NewTeams(<<x.team>>, {1}, pe[p].mask, x.state.mask) /\ missed' \subseteq PEs
  BY <1>1, <1>2, OneNew, FaultsMissed DEF Grows
<1>4. /\ answers[p] \in Seq(AnswerSet) /\ n = Len(answers[p]) + 1
      /\ Len(answers[p]) < Len(program') /\ program'[n] = c
      /\ IndexOK(program', answers[p], pe[p].mask) /\ Answered(program', answers[p])
  BY Before DEF Extends
<1> DEFINE a == [ret |-> x.ret, teams |-> <<x.team>>]
<1>5. a \in AnswerSet /\ a.teams = <<x.team>> /\ <<x.team>> \in Seq(Indices \cup {Invalid})
  BY <1>3 DEF AnswerSet
<1>6. Slots(program'[n]) = {1} /\ program'[n].op # "destroy"
  BY <1>1, <1>4 DEF Slots
<1> HIDE DEF a
<1>7. /\ IndexOK(program', Append(answers[p], a), x.state.mask)
      /\ Answered(program', Append(answers[p], a))
  BY <1>3, <1>4, <1>5, <1>6, IndexGained
<1> QED BY <1>1, <1>3, <1>5, <1>7, Returned DEF a

LEMMA Split2dStep ==
  ASSUME Inductive, NEW p \in PEs, NEW n, NEW c, Extends(p, n, c), ProgramOK(program'),
         Split2d(p, c)
  PROVE  Inductive'
<1> DEFINE parent == Handle(p, c.parent)
           size == pe[p].pool[parent].size
           X == Rows(size, c.x)
           Y == Columns(size, c.x)
<1>1. /\ answers[p] \in Seq(AnswerSet) /\ n = Len(answers[p]) + 1
      /\ Len(answers[p]) < Len(program') /\ program'[n] = c /\ Sound(pe[p])
      /\ IndexOK(program', answers[p], pe[p].mask) /\ Answered(program', answers[p])
  BY Before DEF Extends
<1>2. Slots(program'[n]) = 1 .. 2 /\ program'[n].op # "destroy"
  BY <1>1 DEF Slots, Split2d
<1>3. ASSUME NEW s, Sound(s), NEW ret \in 0 .. 1,
             NEW t \in Indices \cup {Invalid}, NEW u \in Indices \cup {Invalid},
             NewTeams(<<t, u>>, 1 .. 2, pe[p].mask, s.mask),
             Returns(p, s, ret, <<t, u>>), missed' \subseteq PEs
      PROVE  Inductive'
  <2> DEFINE a == [ret |-> ret, teams |-> <<t, u>>]
  <2>1. a \in AnswerSet /\ a.teams = <<t, u>> /\ <<t, u>> \in Seq(Indices \cup {Invalid})
    BY DEF AnswerSet
  <2> HIDE DEF a
  <2>2. /\ IndexOK(program', Append(answers[p], a), s.mask)
        /\ Answered(program', Append(answers[p], a))
    BY <1>1, <1>2, <1>3, <2>1, IndexGained
  <2> QED BY <1>3, <2>1, <2>2, Returned DEF a
<1>4. CASE parent \notin pe[p].mask
  <2>1. Returns(p, pe[p], 1, <<Invalid, Invalid>>) /\ Faults(p, {"none"})
    BY <1>4 DEF Split2d
  <2>2. Invalid \notin pe[p].mask
    BY <1>1, InvalidIsNone DEF Sound, States
  <2>3. NewTeams(<<Invalid, Invalid>>, 1 .. 2, pe[p].mask, pe[p].mask)
    <3> DEFINE teams == <<Invalid, Invalid>>
    <3>1. \A k \in 1 .. 2 : teams[k] = Invalid
      OBVIOUS
    <3> HIDE DEF teams
    <3>2. NewTeams(teams, 1 .. 2, pe[p].mask, pe[p].mask)
      BY <2>2, <3>1, InvalidIsNone DEF NewTeams
    <3> QED BY <3>2 DEF teams
  <2> QED BY <1>1, <1>3, <2>1, <2>3, FaultsMissed
<1>5. CASE parent \in pe[p].mask
  <2>1. PICK x \in Axis(pe[p], parent, X) : \E y \in Axis(x.state, parent, Y) :
          Returns(p, y.state, 0, <<x.team, y.team>>) /\ Faults(p, {x.fault, y.fault})
    BY <1>5 DEF Split2d
  <2>2. PICK y \in Axis(x.state, parent, Y) :
          Returns(p, y.state, 0, <<x.team, y.team>>) /\ Faults(p, {x.fault, y.fault})
    BY <2>1
  <2> HIDE DEF X, Y, size
  <2>3. Grows(pe[p], x, Children(pe[p], parent, X))
    BY <1>1, <1>5, AxisGrows
  <2>4. Sound(x.state) /\ parent \in x.state.mask
    BY <1>5, <2>3 DEF Grows
  <2>5. Grows(x.state, y, Children(x.state, parent, Y))
    BY <2>4, AxisGrows
  <2>6. NewTeams(<<x.team, y.team>>, 1 .. 2, pe[p].mask, y.state.mask)
    BY <1>1, <2>3, <2>5, TwoNew
  <2>7. /\ Sound(y.state) /\ x.team \in Indices \cup {Invalid}
        /\ y.team \in Indices \cup {Invalid} /\ missed' \subseteq PEs
    BY <2>2, <2>3, <2>5, FaultsMissed DEF Grows
  <2> QED BY <1>3, <2>2, <2>6, <2>7
<1> QED BY <1>4, <1>5

LEMMA DestroyStep ==
  ASSUME Inductive, NEW p \in PEs, NEW n, NEW c, Extends(p, n, c), ProgramOK(program'),
         Destroy(p, c)
  PROVE  Inductive'
<1>1. /\ answers[p] \in Seq(AnswerSet) /\ n = Len(answers[p]) + 1
      /\ Len(answers[p]) < Len(program') /\ program'[n] = c /\ n \in 1 .. Len(program')
      /\ Sound(pe[p]) /\ IndexOK(program', answers[p], pe[p].mask)
      /\ Answered(program', answers[p])
  BY Before DEF Extends
<1>2. PICK x, y : Earlier(program', n, x, y) /\ c = Destroys(<<x, y>>)
  BY <1>1 DEF ProgramOK, Destroy
<1> DEFINE i == At(answers[p], x, y)
           a == [ret |-> 0, teams |-> <<>>]
<1>3. x \in 1 .. Len(answers[p]) /\ y \in Slots(program'[x])
  BY <1>1, <1>2 DEF Earlier
<1>4. Handle(p, c.team) = i /\ i \in Indices \cup {Invalid}
  BY <1>1, <1>2, <1>3 DEF Handle, At, Destroys, Answered
<1> HIDE DEF i
<1>5. a \in AnswerSet /\ <<>> \in Seq(Indices \cup {Invalid})
  BY DEF AnswerSet
<1>6. missed' \subseteq PEs
  BY DEF Inductive, AnswersOK, Destroy
<1>7. ASSUME NEW s, Sound(s), s.mask = pe[p].mask \ {i}, Returns(p, s, 0, <<>>)
      PROVE  Inductive'
  <2>1. /\ IndexOK(program', Append(answers[p], a), s.mask)
        /\ Answered(program', Append(answers[p], a))
    <3> HIDE DEF a
    <3> QED BY <1>1, <1>2, <1>3, <1>5, <1>7, IndexLost DEF i
  <2>2. 0 \in 0 .. 1
    OBVIOUS
  <2> QED BY <1>5, <1>6, <1>7, <2>1, <2>2, Returned
<1>8. CASE i \in pe[p].mask
  <2>1. PICK told \in BOOLEAN : Returns(p, Destroyed(pe[p], i, told), 0, <<>>)
    BY <1>4, <1>8 DEF Destroy
  <2>2. i \in Indices
    BY <1>1, <1>8 DEF Sound, States
  <2>3. /\ Sound(Destroyed(pe[p], i, told))
        /\ Destroyed(pe[p], i, told).mask = pe[p].mask \ {i}
    BY <1>1, <2>2, DestroyedSound
  <2> QED BY <1>7, <2>1, <2>3
<1>9. CASE i \notin pe[p].mask
  <2>1. Returns(p, pe[p], 0, <<>>)
    BY <1>4, <1>9 DEF Destroy
  <2>2. pe[p].mask = pe[p].mask \ {i}
    BY <1>9
  <2> QED BY <1>1, <1>7, <2>1, <2>2
<1> QED BY <1>8, <1>9

LEMMA MakesStep ==
  ASSUME Inductive, NEW p \in PEs, NEW New, New \subseteq Calls, Makes(p, New)
  PROVE  Inductive'
<1>1. PICK n \in 1 .. MaxCalls + 1 :
        /\ Turn(p, n)
        /\ \E c \in IF n <= Len(program) THEN {program[n]} ELSE New :
             /\ IsCall(n, c)
             /\ SplitStrided(p, c) \/ Split2d(p, c) \/ Destroy(p, c)
  BY DEF Makes
<1>2. PICK c \in IF n <= Len(program) THEN {program[n]} ELSE New :
        IsCall(n, c) /\ (SplitStrided(p, c) \/ Split2d(p, c) \/ Destroy(p, c))
  BY <1>1
<1>3. Extends(p, n, c) /\ ProgramOK(program')
  BY <1>1, <1>2, CallExtends
<1>4. CASE SplitStrided(p, c)
  BY <1>3, <1>4, SplitStridedStep
<1>5. CASE Split2d(p, c)
  BY <1>3, <1>5, Split2dStep
<1>6. CASE Destroy(p, c)
  BY <1>3, <1>6, DestroyStep
<1> QED BY <1>2, <1>4, <1>5, <1>6

LEMMA StutterStep ==
  ASSUME Inductive, UNCHANGED vars
  PROVE  Inductive'
BY DEF Inductive, vars, AnswersOK, PeOK, Sound

LEMMA InductiveHolds == Spec => []Inductive
<1>1. Init => Inductive
  BY InitInductive
<1>2. Inductive /\ [Next]_vars => Inductive'
  <2> SUFFICES ASSUME Inductive, [Next]_vars
               PROVE  Inductive'
    OBVIOUS
  <2>1. StraightCalls \subseteq Calls
    BY DEF StraightCalls
  <2>2. CASE \E p \in PEs : Makes(p, StraightCalls)
    BY <2>1, <2>2, MakesStep
  <2>3. CASE Finished \/ UNCHANGED vars
    BY <2>3, StutterStep DEF Finished
  <2> QED BY <2>2, <2>3 DEF Next
<1> QED BY <1>1, <1>2, PTL DEF Spec

(* Types, whatever the numbers of PEs, teams and calls. *)
THEOREM TypeCorrect == Spec => []TypeOK
<1>1. Inductive => TypeOK
  BY InductiveImplies
<1> QED BY <1>1, InductiveHolds, PTL

(* The pool neither leaks an index nor gives one to two teams, and what a  *)
(* kernel finds under a team's index is that team, also after creations    *)
(* that failed half-way and were undone and updates of the device that     *)
(* failed.                                                                 *)
THEOREM TeamsStayInStep == Spec => []TeamsInStep
<1>1. Inductive => TeamsInStep
  BY InductiveImplies DEF TeamsInStep
<1> QED BY <1>1, InductiveHolds, PTL

-----------------------------------------------------------------------------
(* Translation.                                                            *)

(* The rank of a member, and the member of a rank. *)
LEMMA MemberAt ==
  ASSUME NEW k \in Nat \ {0}, NEW f \in Nat, NEW j \in Nat
  PROVE  /\ j * k \in Nat /\ f + j * k \in Nat /\ f + j * k - f = j * k
         /\ (j * k) % k = 0 /\ (j * k) \div k = j
<1>1. j * k \in Nat /\ j * k = k * j + 0 /\ 0 \in 0 .. k - 1
  BY Products
<1>2. (j * k) % k = 0 /\ (j * k) \div k = j
  BY <1>1, Remainder
<1>3. f + j * k - f = j * k
  BY <1>1
<1> QED BY <1>1, <1>2, <1>3

LEMMA AtMember ==
  ASSUME NEW k \in Nat \ {0}, NEW f \in Nat, NEW g \in Nat, f <= g, (g - f) % k = 0
  PROVE  (g - f) \div k \in Nat /\ f + ((g - f) \div k) * k = g
<1> DEFINE m == (g - f) \div k
<1>1. g - f \in Nat
  OBVIOUS
<1>2. m \in Int /\ g - f = k * m + 0
  BY <1>1, Division
<1>3. m \in Nat
  BY <1>1
<1>4. m * k = k * m
  BY <1>3
<1> HIDE DEF m
<1>5. k * m \in Nat
  BY <1>3, Products
<1>6. f + m * k = g
  BY <1>2, <1>4, <1>5
<1> QED BY <1>3, <1>6 DEF m

LEMMA TranslateBack ==
  ASSUME NEW s \in Real, NEW d \in Real, NEW n \in 0 .. s.size - 1, Translate(s, n, d) # -1
  PROVE  /\ Member(d, Translate(s, n, d)) = Member(s, n)
         /\ Translate(d, Translate(s, n, d), s) = n
<1> DEFINE g == Member(s, n)
           m == (g - d.start) \div d.stride
<1>1. /\ s.start \in Nat /\ s.stride \in Nat \ {0} /\ s.size \in Nat /\ n \in Nat /\ n < s.size
      /\ d.start \in Nat /\ d.stride \in Nat \ {0} /\ d.size \in Nat
  BY DEF Real
<1>2. /\ g \in Nat /\ s.start <= g /\ (g - s.start) % s.stride = 0
      /\ (g - s.start) \div s.stride = n
  <2>1. /\ n * s.stride \in Nat /\ s.start + n * s.stride \in Nat
        /\ s.start + n * s.stride - s.start = n * s.stride
        /\ (n * s.stride) % s.stride = 0 /\ (n * s.stride) \div s.stride = n
    BY <1>1, MemberAt
  <2>2. g = s.start + n * s.stride
    BY DEF Member
  <2> HIDE DEF g
  <2>3. g \in Nat /\ s.start <= g
    BY <1>1, <2>1, <2>2
  <2>4. g - s.start = n * s.stride
    <3> DEFINE w == n * s.stride
    <3>1. w \in Nat /\ g = s.start + w
      BY <2>1, <2>2
    <3> HIDE DEF w
    <3>2. g - s.start = w
      BY <1>1, <3>1
    <3> QED BY <3>2 DEF w
  <2> QED BY <2>1, <2>3, <2>4
<1> HIDE DEF g
<1>3. /\ Translate(s, n, d) = m /\ ~ (g < d.start)
      /\ (g - d.start) % d.stride = 0 /\ ~ (m >= d.size)
  BY DEF Translate, g
<1>4. m \in Nat /\ d.start + m * d.stride = g
  <2>1. d.start <= g
    BY <1>1, <1>2, <1>3
  <2> QED BY <1>1, <1>2, <1>3, <2>1, AtMember
<1> HIDE DEF m
<1>5. Member(d, m) = g
  BY <1>4 DEF Member
<1>6. Translate(d, m, s) = n
  <2>1. ~ (m > d.size)
    BY <1>1, <1>3, <1>4
  <2>2. ~ (g < s.start) /\ ~ (n >= s.size)
    BY <1>1, <1>2
  <2> QED BY <1>2, <1>5, <2>1, <2>2 DEF Translate
<1> QED BY <1>3, <1>5, <1>6 DEF g

(* A PE's number translated to another team of its, and back. *)
THEOREM TranslateInverts == Spec => []RoundTrip
<1>1. ASSUME Inductive
      PROVE  RoundTrip
  <2>1. ASSUME NEW p \in PEs, NEW r \in Held(p)
        PROVE  Of(p, r) \in Real
    <3>1. PICK n, k : r = <<n, k>> /\ Lives(program, answers[p], n, k)
      BY <1>1, HeldIs DEF Inductive
    <3>2. Handle(p, r) = At(answers[p], n, k)
      BY <3>1 DEF Handle, At
    <3>3. Answered(program, answers[p]) /\ IndexOK(program, answers[p], pe[p].mask)
      BY <1>1 DEF Inductive, AnswersOK, PeOK, Answered
    <3>4. Handle(p, r) \in pe[p].mask
      BY <3>1, <3>2, <3>3, LivingInMask
    <3> QED BY <1>1, <3>4 DEF Of, Inductive, PeOK, Sound
  <2>2. ASSUME NEW p \in PEs, NEW r \in Held(p), NEW s \in Held(p),
               NEW n \in 0 .. Of(p, r).size - 1,
               Translate(Of(p, r), n, Of(p, s)) # -1
        PROVE  /\ Member(Of(p, s), Translate(Of(p, r), n, Of(p, s))) = Member(Of(p, r), n)
               /\ Translate(Of(p, s), Translate(Of(p, r), n, Of(p, s)), Of(p, r)) = n
    <3>1. Of(p, r) \in Real /\ Of(p, s) \in Real
      BY <2>1
    <3> QED BY <2>2, <3>1, TranslateBack
  <2> QED BY <2>2 DEF RoundTrip
<1> QED BY <1>1, InductiveHolds, PTL

-----------------------------------------------------------------------------
(* The rows and the columns of a grid of S PEs lie within it, and a PE is  *)
(* in at most one of each.                                                 *)

Row(S, x, i) ==
  LET r == Smaller(x, S) IN
  Strided(i * r, 1, IF i = (S + x - 1) \div x - 1 /\ S % r # 0 THEN S % r ELSE r)

Column(S, x, i) ==
  LET r == Smaller(x, S) IN
  Strided(i, r, IF i < S % r THEN S \div r + 1 ELSE S \div r)

LEMMA RowsAre ==
  ASSUME NEW S, NEW x
  PROVE  /\ Rows(S, x) = {Row(S, x, i) : i \in 0 .. (S + x - 1) \div x - 1}
         /\ Columns(S, x) = {Column(S, x, i) : i \in 0 .. x - 1}
BY DEF Rows, Row, Columns, Column

LEMMA Multiples ==
  ASSUME NEW k \in Nat, NEW i \in Nat, NEW d \in Nat, i < d
  PROVE  i * k \in Nat /\ d * k \in Nat /\ i * k + k <= d * k
<1>1. /\ i * k \in Nat /\ d * k \in Nat /\ (d - i - 1) * k \in Nat
  BY Products
<1>2. d * k = i * k + k + (d - i - 1) * k
  OBVIOUS
<1> QED BY <1>1, <1>2

LEMMA RowInside ==
  ASSUME NEW S \in Nat \ {0}, NEW x \in Nat \ {0}, NEW i \in 0 .. (S + x - 1) \div x - 1
  PROVE  /\ Row(S, x, i).start = i * Smaller(x, S) /\ Row(S, x, i).stride = 1
         /\ i * Smaller(x, S) \in Nat /\ i \in Nat
         /\ Row(S, x, i).size \in 0 .. Smaller(x, S)
         /\ i * Smaller(x, S) + Row(S, x, i).size <= S
<1> DEFINE rows == (S + x - 1) \div x
           r == Smaller(x, S)
           e == S % r
           size == IF i = rows - 1 /\ e # 0 THEN e ELSE r
<1>1. /\ Row(S, x, i).start = i * r /\ Row(S, x, i).stride = 1 /\ Row(S, x, i).size = size
  BY DEF Row, Strided
<1>2. rows \in Nat /\ i \in Nat /\ i < rows
  <2>1. S + x - 1 \in Nat
    OBVIOUS
  <2>2. rows \in Int
    BY <2>1, Division
  <2> HIDE DEF rows
  <2>3. i \in 0 .. rows - 1
    BY DEF rows
  <2> QED BY <2>2, <2>3
<1>3. r \in Nat \ {0}
  BY DEF Smaller
<1>4. e \in 0 .. r - 1 /\ i * r \in Nat
  BY <1>2, <1>3, Division, Products
<1>5. size \in 0 .. r /\ i * r + size <= S
  <2>1. CASE S <= x
    <3>1. r = S
      BY <2>1 DEF Smaller
    <3>2. rows = 1
      <4>1. S + x - 1 = x * 1 + (S - 1) /\ S - 1 \in 0 .. x - 1 /\ S + x - 1 \in Nat
        BY <2>1
      <4> QED BY <4>1, Remainder
    <3>3. e = 0
      <4>1. S = S * 1 + 0 /\ 0 \in 0 .. S - 1
        OBVIOUS
      <4> QED BY <3>1, <4>1, Remainder
    <3> HIDE DEF rows, r, e
    <3>4. i = 0 /\ size = S
      BY <1>2, <3>1, <3>2, <3>3
    <3>5. i * r = 0
      BY <1>3, <3>4
    <3> QED BY <3>1, <3>4, <3>5
  <2>2. CASE x < S
    <3> DEFINE d == S \div x
    <3>1. r = x
      BY <2>2 DEF Smaller
    <3>2. d \in Nat /\ S = x * d + e /\ x * d \in Nat /\ d * x = x * d
      <4>1. d \in Int /\ S = x * d + (S % x)
        BY Division
      <4>2. d \in Nat
        OBVIOUS
      <4> HIDE DEF d
      <4>3. x * d \in Nat /\ d * x = x * d
        BY <4>2, Products
      <4> QED BY <3>1, <4>1, <4>2, <4>3
    <3> HIDE DEF d, r, e
    <3>3. CASE e = 0
      <4>1. rows = d
        <5>1. S + x - 1 = x * d + (x - 1) /\ x - 1 \in 0 .. x - 1 /\ S + x - 1 \in Nat
          BY <3>2, <3>3
        <5> QED BY <3>2, <5>1, Remainder
      <4> HIDE DEF rows
      <4>2. i * x + x <= d * x
        BY <1>2, <4>1, Multiples
      <4>3. size = x
        BY <3>1, <3>3
      <4> QED BY <1>4, <3>1, <3>2, <3>3, <4>2, <4>3
    <3>4. CASE e # 0
      <4>1. rows = d + 1
        <5>1. x * (d + 1) = x * d + x
          BY <3>2
        <5>2. S + x - 1 = x * (d + 1) + (e - 1) /\ e - 1 \in 0 .. x - 1 /\ S + x - 1 \in Nat
          BY <1>4, <3>1, <3>2, <3>4, <5>1
        <5>3. d + 1 \in Int
          BY <3>2
        <5> QED BY <5>2, <5>3, Remainder
      <4> HIDE DEF rows
      <4>2. CASE i = d
        BY <1>4, <3>1, <3>2, <3>4, <4>1, <4>2
      <4>3. CASE i # d
        <5>1. i * x + x <= d * x
          BY <1>2, <3>2, <4>1, <4>3, Multiples
        <5>2. size = x
          BY <1>2, <3>1, <3>2, <4>1, <4>3
        <5> QED BY <1>4, <3>1, <3>2, <5>1, <5>2
      <4> QED BY <4>2, <4>3
    <3> QED BY <3>3, <3>4
  <2> QED BY <2>1, <2>2
<1> QED BY <1>1, <1>2, <1>4, <1>5

LEMMA RowsOnce ==
  ASSUME NEW S \in Nat \ {0}, NEW x \in Nat \ {0}, NEW a \in Rows(S, x), NEW b \in Rows(S, x),
         NEW q \in Nat, a.start <= q, q < a.start + a.size, b.start <= q, q < b.start + b.size
  PROVE  a = b
<1> DEFINE r == Smaller(x, S)
           Top == (S + x - 1) \div x - 1
<1>1. r \in Nat \ {0}
  BY DEF Smaller
<1>2. PICK i \in 0 .. Top : a = Row(S, x, i)
  BY RowsAre
<1>3. PICK j \in 0 .. Top : b = Row(S, x, j)
  BY RowsAre
<1>4. /\ a.start = i * r /\ i \in Nat /\ i * r \in Nat /\ a.size \in 0 .. r
  BY <1>2, RowInside
<1>5. /\ b.start = j * r /\ j \in Nat /\ j * r \in Nat /\ b.size \in 0 .. r
  BY <1>3, RowInside
<1> HIDE DEF r, Top
<1>6. q \div r = i
  <2>1. q - i * r \in 0 .. r - 1 /\ q = r * i + (q - i * r)
    BY <1>1, <1>4
  <2> QED BY <1>1, <1>4, <2>1, Remainder
<1>7. q \div r = j
  <2>1. q - j * r \in 0 .. r - 1 /\ q = r * j + (q - j * r)
    BY <1>1, <1>5
  <2> QED BY <1>1, <1>5, <2>1, Remainder
<1> QED BY <1>2, <1>3, <1>6, <1>7

LEMMA ColumnInside ==
  ASSUME NEW S \in Nat \ {0}, NEW x \in Nat \ {0}, NEW i \in 0 .. x - 1, i < S,
         Column(S, x, i).size >= 1
  PROVE  /\ Column(S, x, i).start = i /\ Column(S, x, i).stride = Smaller(x, S)
         /\ i < Smaller(x, S) /\ Column(S, x, i).size \in Nat
         /\ i + (Column(S, x, i).size - 1) * Smaller(x, S) < S
<1> DEFINE r == Smaller(x, S)
           e == S % r
           d == S \div r
           size == IF i < e THEN d + 1 ELSE d
<1>1. /\ Column(S, x, i).start = i /\ Column(S, x, i).stride = r
      /\ Column(S, x, i).size = size
  BY DEF Column, Strided
<1>2. r \in Nat \ {0} /\ i < r /\ i \in Nat
  BY DEF Smaller
<1>3. e \in 0 .. r - 1 /\ d \in Nat /\ S = r * d + e /\ r * d \in Nat /\ d * r = r * d
  <2>1. d \in Int /\ e \in 0 .. r - 1 /\ S = r * d + e
    BY <1>2, Division
  <2>2. d \in Nat
    BY <1>2
  <2> HIDE DEF d, e
  <2>3. r * d \in Nat /\ d * r = r * d
    BY <1>2, <2>2, Products
  <2> QED BY <2>1, <2>2, <2>3
<1>4. size >= 1
  BY <1>1
<1> HIDE DEF r, e, d
<1>5. CASE i < e
  <2>1. (size - 1) * r = d * r
    BY <1>3, <1>5
  <2> QED BY <1>1, <1>2, <1>3, <1>5, <2>1 DEF r
<1>6. CASE ~ (i < e) /\ r <= S
  <2>1. size = d /\ (d - 1) * r = d * r - r
    BY <1>2, <1>3, <1>6
  <2> QED BY <1>1, <1>2, <1>3, <1>6, <2>1 DEF r
<1>7. r <= S
  BY DEF r, Smaller
<1> QED BY <1>5, <1>6, <1>7

LEMMA Residue ==
  ASSUME NEW r \in Nat \ {0}, NEW q \in Nat, NEW l \in Nat, l < r, l <= q, (q - l) % r = 0
  PROVE  q % r = l
<1> DEFINE m == (q - l) \div r
<1>1. q - l \in Nat
  OBVIOUS
<1>2. m \in Int /\ q - l = r * m + 0
  BY <1>1, Division
<1>3. m \in Nat
  BY <1>1
<1> HIDE DEF m
<1>4. r * m \in Nat
  BY <1>3, Products
<1>5. q = r * m + l /\ l \in 0 .. r - 1
  BY <1>2, <1>4
<1> QED BY <1>2, <1>5, Remainder

LEMMA ColumnsOnce ==
  ASSUME NEW S \in Nat \ {0}, NEW x \in Nat \ {0},
         NEW a \in Columns(S, x), NEW b \in Columns(S, x), NEW q \in Nat,
         a.start < S, a.size >= 1, a.start <= q, (q - a.start) % a.stride = 0,
         b.start < S, b.size >= 1, b.start <= q, (q - b.start) % b.stride = 0
  PROVE  a = b
<1> DEFINE r == Smaller(x, S)
<1>1. r \in Nat \ {0}
  BY DEF Smaller
<1>2. PICK i \in 0 .. x - 1 : a = Column(S, x, i)
  BY RowsAre
<1>3. PICK j \in 0 .. x - 1 : b = Column(S, x, j)
  BY RowsAre
<1>4. a.start = i /\ b.start = j
  BY <1>2, <1>3 DEF Column, Strided
<1>5. a.stride = r /\ i < r /\ b.stride = r /\ j < r
  BY <1>2, <1>3, <1>4, ColumnInside
<1>6. i \in Nat /\ j \in Nat /\ i <= q /\ j <= q /\ (q - i) % r = 0 /\ (q - j) % r = 0
  BY <1>4, <1>5
<1> HIDE DEF r
<1>7. q % r = i /\ q % r = j
  BY <1>1, <1>5, <1>6, Residue
<1> QED BY <1>2, <1>3, <1>7

-----------------------------------------------------------------------------
(* The teams that a split of a straight team of S PEs makes.               *)

Straights(S, q) == Team(0, 1, S, q)

Within(a, q) ==
  a.start <= q /\ (q - a.start) % a.stride = 0 /\ (q - a.start) \div a.stride < a.size

LEMMA StraightChild ==
  ASSUME NEW S \in Nat \ {0}, NEW q \in Nat, NEW a, Acceptable(Straights(S, q), a)
  PROVE  /\ a.start \in Nat /\ a.stride \in Nat \ {0} /\ a.size \in Nat \ {0}
         /\ a.start < S /\ a.start + (a.size - 1) * a.stride < NPes
         /\ Joins(Straights(S, q), a) <=> Within(a, q)
         /\ Child(Straights(S, q), a)
              = Team(a.start, a.stride, a.size, (q - a.start) \div a.stride)
         /\ \A w \in Nat : Acceptable(Straights(S, w), a)
<1> DEFINE t == Straights(S, q)
<1>1. t \in Real /\ \A w : Straights(S, w).start = 0 /\ Straights(S, w).stride = 1
                           /\ Straights(S, w).size = S /\ Straights(S, w).mype = w
  BY DEF Straights, Team, Real
<1>2. a.start \in Nat /\ a.stride \in Nat \ {0} /\ a.size \in Nat \ {0} /\ a.start < S
  <2>1. a.start \in 0 .. t.size - 1 /\ t.size = S
    BY <1>1 DEF Acceptable
  <2> HIDE DEF t
  <2>2. a.start < S
    BY <2>1
  <2> QED BY <1>1, <2>2, Arguments DEF t
<1>3. \A w : First(Straights(S, w), a) = a.start /\ Stride(Straights(S, w), a) = a.stride
  BY <1>1, <1>2 DEF First, Stride
<1>4. Joins(t, a) <=> Within(a, q)
  BY <1>1, <1>3 DEF Joins, Within
<1>5. Child(t, a) = Team(a.start, a.stride, a.size, (q - a.start) \div a.stride)
  BY <1>1, <1>3 DEF Child
<1>6. ASSUME NEW w \in Nat
      PROVE  Acceptable(Straights(S, w), a)
  <2>1. Last(Straights(S, w), a) = Last(t, a) /\ First(Straights(S, w), a) = First(t, a)
    BY <1>3 DEF Last
  <2>2. Straights(S, w).size = t.size
    BY <1>1
  <2> QED BY <2>1, <2>2 DEF Acceptable
<1>7. a.start + (a.size - 1) * a.stride < NPes
  <2>1. Last(t, a) < NPes /\ Last(t, a) = a.start + a.stride * (a.size - 1)
    BY <1>3 DEF Acceptable, Last
  <2>2. a.stride * (a.size - 1) = (a.size - 1) * a.stride
    BY <1>2
  <2> QED BY <2>1, <2>2
<1> QED BY <1>2, <1>4, <1>5, <1>6, <1>7

LEMMA WithinMember ==
  ASSUME NEW a, NEW j, a.start \in Nat, a.stride \in Nat \ {0}, a.size \in Nat \ {0},
         j \in 0 .. a.size - 1
  PROVE  /\ a.start + j * a.stride \in Nat /\ Within(a, a.start + j * a.stride)
         /\ (a.start + j * a.stride - a.start) \div a.stride = j
         /\ a.start + j * a.stride <= a.start + (a.size - 1) * a.stride
<1>1. /\ j \in Nat /\ j * a.stride \in Nat /\ a.start + j * a.stride \in Nat
      /\ a.start + j * a.stride - a.start = j * a.stride
      /\ (j * a.stride) % a.stride = 0 /\ (j * a.stride) \div a.stride = j
  <2>1. j \in Nat
    OBVIOUS
  <2> DEFINE k == a.stride
             f == a.start
  <2>2. k \in Nat \ {0} /\ f \in Nat
    OBVIOUS
  <2> HIDE DEF k, f
  <2>3. /\ j * k \in Nat /\ f + j * k \in Nat /\ f + j * k - f = j * k
        /\ (j * k) % k = 0 /\ (j * k) \div k = j
    BY <2>1, <2>2, MemberAt
  <2> QED BY <2>1, <2>3 DEF k, f
<1>2. a.start + j * a.stride <= a.start + (a.size - 1) * a.stride
  <2>1. (a.size - 1 - j) * a.stride \in Nat
    BY Products
  <2>2. (a.size - 1) * a.stride = j * a.stride + (a.size - 1 - j) * a.stride
    OBVIOUS
  <2> DEFINE u == j * a.stride
             v == (a.size - 1 - j) * a.stride
             w == (a.size - 1) * a.stride
  <2>3. u \in Nat /\ v \in Nat /\ w = u + v
    BY <1>1, <2>1, <2>2
  <2> HIDE DEF u, v, w
  <2>4. a.start + u <= a.start + w
    BY <2>3
  <2> QED BY <2>4 DEF u, w
<1>3. Within(a, a.start + j * a.stride)
  <2> DEFINE g == a.start + j * a.stride
  <2>1. a.start <= g
    BY <1>1
  <2>2. g - a.start = j * a.stride
    BY <1>1
  <2> HIDE DEF g
  <2>3. j < a.size
    OBVIOUS
  <2>4. Within(a, g)
    BY <1>1, <2>1, <2>2, <2>3 DEF Within
  <2> QED BY <2>4 DEF g
<1> QED BY <1>1, <1>2, <1>3

(* Each member of the child has the same child, with its own number in it. *)
LEMMA SameChild ==
  ASSUME NEW S \in Nat \ {0}, S <= NPes, NEW q \in 0 .. S - 1, NEW L,
         NEW a \in Mine(Straights(S, q), L), a.start + (a.size - 1) * a.stride < S,
         NEW t, t = Child(Straights(S, q), a)
  PROVE  /\ t.mype \in 0 .. t.size - 1 /\ Member(t, t.mype) = q
         /\ \A j \in 0 .. t.size - 1 :
              /\ Member(t, j) \in 0 .. S - 1
              /\ a \in Mine(Straights(S, Member(t, j)), L)
              /\ Child(Straights(S, Member(t, j)), a) = [t EXCEPT !.mype = j]
<1>1. /\ a \in L /\ Acceptable(Straights(S, q), a) /\ Joins(Straights(S, q), a)
      /\ q \in Nat
  BY DEF Mine
<1>2. /\ a.start \in Nat /\ a.stride \in Nat \ {0} /\ a.size \in Nat \ {0}
      /\ Within(a, q)
      /\ t = Team(a.start, a.stride, a.size, (q - a.start) \div a.stride)
      /\ \A w \in Nat : Acceptable(Straights(S, w), a)
  BY <1>1, StraightChild
<1>3. /\ t.start = a.start /\ t.stride = a.stride /\ t.size = a.size
      /\ t.mype = (q - a.start) \div a.stride
  BY <1>2 DEF Team
<1>4. t.mype \in 0 .. t.size - 1 /\ Member(t, t.mype) = q
  <2>1. t.mype \in Nat /\ a.start + t.mype * a.stride = q
    <3> DEFINE k == a.stride
               f == a.start
    <3>1. k \in Nat \ {0} /\ f \in Nat /\ f <= q /\ (q - f) % k = 0
      BY <1>2 DEF Within
    <3> HIDE DEF k, f
    <3>2. (q - f) \div k \in Nat /\ f + ((q - f) \div k) * k = q
      BY <1>1, <3>1, AtMember
    <3> QED BY <1>3, <3>2 DEF k, f
  <2>2. t.mype < a.size
    BY <1>2, <1>3 DEF Within
  <2> QED BY <1>2, <1>3, <2>1, <2>2 DEF Member
<1>5. ASSUME NEW j \in 0 .. t.size - 1
      PROVE  /\ Member(t, j) \in 0 .. S - 1
             /\ a \in Mine(Straights(S, Member(t, j)), L)
             /\ Child(Straights(S, Member(t, j)), a) = [t EXCEPT !.mype = j]
  <2> DEFINE w == Member(t, j)
  <2>1. w = a.start + j * a.stride
    BY <1>3 DEF Member
  <2>2. /\ w \in Nat /\ Within(a, w) /\ (w - a.start) \div a.stride = j
        /\ w <= a.start + (a.size - 1) * a.stride
    BY <1>2, <1>3, <2>1, WithinMember
  <2> HIDE DEF w
  <2>3. w \in 0 .. S - 1
    <3>1. (a.size - 1) * a.stride \in Nat
      BY <1>2, Products
    <3> DEFINE v == (a.size - 1) * a.stride
    <3>2. a.start + v < S /\ w <= a.start + v /\ v \in Nat
      BY <2>2, <3>1
    <3> HIDE DEF v
    <3> QED BY <1>2, <2>2, <3>2
  <2>4. /\ Acceptable(Straights(S, w), a) /\ Joins(Straights(S, w), a)
        /\ Child(Straights(S, w), a) = Team(a.start, a.stride, a.size, j)
    BY <1>2, <2>2, StraightChild
  <2>5. [t EXCEPT !.mype = j] = Team(a.start, a.stride, a.size, j)
    BY <1>2 DEF Team
  <2> QED BY <1>1, <2>3, <2>4, <2>5 DEF Mine, w
<1> QED BY <1>4, <1>5

-----------------------------------------------------------------------------
(* Programs that split straight teams only.                                *)

SizeOf(P, m) == IF P[m].op = "world" THEN NPes ELSE P[m].args.size

StraightCall(P, m) ==
  \/ P[m].op = "world"
  \/ /\ P[m].op = "strided" /\ P[m].parent = <<1, 1>>
     /\ P[m].args.start = 0 /\ P[m].args.stride = 1

Arity == [start : 0 .. NPes - 1, stride : 1 .. NPes - 1, size : 1 .. NPes]

(* Of the call n: its parent has so many PEs, and its place k is one of    *)
(* these teams of the parent.                                              *)
Parents(P, n) == SizeOf(P, P[n].parent[1])
Choices(P, n, k) ==
  IF P[n].op = "strided" THEN {P[n].args}
  ELSE IF k = 1 THEN Rows(Parents(P, n), P[n].x) ELSE Columns(Parents(P, n), P[n].x)

ProgramStraight(P) ==
  \A n \in 1 .. Len(P) : P[n].op \in {"strided", "grid"} =>
    /\ P[n].parent[1] \in 1 .. n - 1 /\ StraightCall(P, P[n].parent[1])
    /\ P[n].parent[2] = 1
    /\ P[n].op = "strided" =>
         /\ P[n].args \in Arity
         /\ \/ P[n].parent = <<1, 1>>
            \/ P[n].args.start + (P[n].args.size - 1) * P[n].args.stride < Parents(P, n)
    /\ P[n].op = "grid" => P[n].x \in 1 .. NPes + 1

LEMMA ParentsIs ==
  ASSUME NEW P, ProgramOK(P), ProgramStraight(P),
         NEW n \in 1 .. Len(P), P[n].op \in {"strided", "grid"}
  PROVE  Parents(P, n) \in Nat \ {0} /\ Parents(P, n) <= NPes
<1>1. Len(P) \in Nat /\ NPes \in Nat \ {0}
  BY TeamAssumption DEF ProgramOK
<1> DEFINE m == P[n].parent[1]
<1>2. m \in 1 .. Len(P) /\ StraightCall(P, m)
  <2>1. m \in 1 .. n - 1 /\ StraightCall(P, m)
    BY DEF ProgramStraight
  <2> HIDE DEF m
  <2> QED BY <1>1, <2>1
<1> HIDE DEF m
<1>3. SizeOf(P, m) \in 1 .. NPes
  <2>1. CASE P[m].op = "world"
    BY <1>1, <2>1 DEF SizeOf
  <2>2. CASE P[m].op = "strided"
    <3>1. P[m].args \in Arity
      BY <1>2, <2>2 DEF ProgramStraight
    <3> QED BY <2>2, <3>1 DEF SizeOf, Arity
  <2> QED BY <1>2, <2>1, <2>2 DEF StraightCall
<1>4. Parents(P, n) = SizeOf(P, m)
  BY DEF Parents, m
<1> QED BY <1>1, <1>3, <1>4

LEMMA ChoicesInside ==
  ASSUME NEW P, ProgramOK(P), ProgramStraight(P),
         NEW n \in 1 .. Len(P), P[n].op \in {"strided", "grid"}, NEW k \in Slots(P[n]),
         NEW q \in 0 .. Parents(P, n) - 1,
         NEW a \in Mine(Straights(Parents(P, n), q), Choices(P, n, k))
  PROVE  a.start + (a.size - 1) * a.stride < Parents(P, n)
<1> DEFINE S == Parents(P, n)
           x == P[n].x
<1>1. S \in Nat \ {0}
  BY ParentsIs
<1>2. /\ a \in Choices(P, n, k) /\ a.start \in Nat /\ a.stride \in Nat \ {0}
      /\ a.size \in Nat \ {0} /\ a.start < S
      /\ a.start + (a.size - 1) * a.stride < NPes
  <2>1. a \in Choices(P, n, k) /\ Acceptable(Straights(S, q), a) /\ q \in Nat
    BY <1>1 DEF Mine
  <2> HIDE DEF S
  <2> QED BY <1>1, <2>1, StraightChild
<1>3. CASE P[n].op = "strided"
  <2>1. CASE P[n].parent = <<1, 1>>
    <3>1. P[1].op = "world"
      BY TeamAssumption DEF ProgramOK
    <3>2. S = NPes
      BY <2>1, <3>1 DEF Parents, SizeOf
    <3> QED BY <1>2, <3>2
  <2>2. CASE P[n].parent # <<1, 1>>
    BY <1>2, <1>3, <2>2 DEF Choices, ProgramStraight
  <2> QED BY <2>1, <2>2
<1>4. CASE P[n].op = "grid"
  <2>1. x \in Nat \ {0}
    <3>1. x \in 1 .. NPes + 1
      BY <1>4 DEF ProgramStraight
    <3> HIDE DEF x
    <3> QED BY <3>1, TeamAssumption
  <2>2. a \in Rows(S, x) \/ a \in Columns(S, x)
    BY <1>2, <1>4 DEF Choices
  <2> HIDE DEF S, x
  <2>3. CASE a \in Rows(S, x)
    <3>1. PICK i \in 0 .. (S + x - 1) \div x - 1 : a = Row(S, x, i)
      BY <2>3, RowsAre
    <3>2. a.stride = 1 /\ a.start + a.size <= S
      BY <1>1, <2>1, <3>1, RowInside
    <3>3. a.start + (a.size - 1) * a.stride < S
      BY <1>1, <1>2, <3>2
    <3> QED BY <3>3 DEF S
  <2>4. CASE a \in Columns(S, x)
    <3>1. PICK i \in 0 .. x - 1 : a = Column(S, x, i)
      BY <2>4, RowsAre
    <3>2. a.start = i
      BY <3>1 DEF Column, Strided
    <3>3. i < S /\ a.size >= 1
      BY <1>2, <3>2
    <3>4. a.stride = Smaller(x, S) /\ i + (a.size - 1) * Smaller(x, S) < S
      BY <1>1, <2>1, <3>1, <3>3, ColumnInside
    <3>5. a.start + (a.size - 1) * a.stride < S
      BY <3>2, <3>4
    <3> QED BY <3>5 DEF S
  <2> QED BY <2>2, <2>3, <2>4
<1>5. P[n].op \in {"strided", "grid"}
  OBVIOUS
<1> QED BY <1>3, <1>4, <1>5

LEMMA GridOnce ==
  ASSUME NEW S \in Nat \ {0}, NEW x \in Nat \ {0}, NEW q \in 0 .. S - 1,
         NEW L \in {Rows(S, x), Columns(S, x)},
         NEW a \in Mine(Straights(S, q), L), NEW b \in Mine(Straights(S, q), L)
  PROVE  a = b
<1>1. ASSUME NEW c \in Mine(Straights(S, q), L)
      PROVE  /\ c \in L /\ c.start \in Nat /\ c.stride \in Nat \ {0} /\ c.size \in Nat
             /\ c.size >= 1 /\ c.start < S /\ c.start <= q
             /\ (q - c.start) % c.stride = 0 /\ (q - c.start) \div c.stride < c.size
  <2>1. c \in L /\ Acceptable(Straights(S, q), c) /\ Joins(Straights(S, q), c)
    BY <1>1 DEF Mine
  <2> QED BY <2>1, StraightChild DEF Within
<1>2. q \in Nat
  OBVIOUS
<1>3. CASE L = Rows(S, x)
  <2>1. a \in Rows(S, x) /\ b \in Rows(S, x)
    BY <1>1, <1>3
  <2>2. a.stride = 1 /\ b.stride = 1
    BY <2>1, RowsAre DEF Row, Strided
  <2>3. /\ a.start \in Nat /\ a.size \in Nat /\ a.start <= q
        /\ (q - a.start) \div 1 < a.size
    BY <1>1, <2>2
  <2>4. /\ b.start \in Nat /\ b.size \in Nat /\ b.start <= q
        /\ (q - b.start) \div 1 < b.size
    BY <1>1, <2>2
  <2>5. q < a.start + a.size /\ q < b.start + b.size
    BY <1>2, <2>3, <2>4
  <2> QED BY <1>2, <2>1, <2>3, <2>4, <2>5, RowsOnce
<1>4. CASE L = Columns(S, x)
  <2>1. /\ a \in Columns(S, x) /\ a.start < S /\ a.size >= 1 /\ a.start <= q
        /\ (q - a.start) % a.stride = 0
    BY <1>1, <1>4
  <2>2. /\ b \in Columns(S, x) /\ b.start < S /\ b.size >= 1 /\ b.start <= q
        /\ (q - b.start) % b.stride = 0
    BY <1>1, <1>4
  <2> QED BY <1>2, <2>1, <2>2, ColumnsOnce
<1> QED BY <1>3, <1>4

LEMMA ChoicesOnce ==
  ASSUME NEW P, ProgramOK(P), ProgramStraight(P),
         NEW n \in 1 .. Len(P), P[n].op \in {"strided", "grid"}, NEW k \in Slots(P[n]),
         NEW q \in 0 .. Parents(P, n) - 1,
         NEW a \in Mine(Straights(Parents(P, n), q), Choices(P, n, k)),
         NEW b \in Mine(Straights(Parents(P, n), q), Choices(P, n, k))
  PROVE  a = b
<1>1. CASE P[n].op = "strided"
  BY <1>1 DEF Choices, Mine
<1>2. CASE P[n].op = "grid"
  <2>1. P[n].x \in Nat \ {0} /\ Parents(P, n) \in Nat \ {0}
    <3> DEFINE x == P[n].x
    <3>1. x \in 1 .. NPes + 1
      BY <1>2 DEF ProgramStraight
    <3> HIDE DEF x
    <3>2. x \in Nat \ {0}
      BY <3>1, TeamAssumption
    <3> QED BY <3>2, ParentsIs DEF x
  <2>2. Choices(P, n, k) \in {Rows(Parents(P, n), P[n].x), Columns(Parents(P, n), P[n].x)}
    BY <1>2 DEF Choices
  <2> QED BY <2>1, <2>2, GridOnce
<1>3. P[n].op \in {"strided", "grid"}
  OBVIOUS
<1> QED BY <1>1, <1>2, <1>3

-----------------------------------------------------------------------------
(* The members of a team agree.                                            *)

(* The structure that PE q has for the team in place k of call n. *)
Shape(P, q, n, k, t) ==
  IF n = 1 THEN t = WorldOf(q)
  ELSE /\ q < Parents(P, n)
       /\ \E a \in Mine(Straights(Parents(P, n), q), Choices(P, n, k)) :
            t = Child(Straights(Parents(P, n), q), a)

(* q is in some team of that place. *)
Entitled(P, q, n, k) ==
  \/ n = 1
  \/ /\ q < Parents(P, n)
     /\ Mine(Straights(Parents(P, n), q), Choices(P, n, k)) # {}

ShapeOK(P, q, A, pool) ==
  \A n, k : Lives(P, A, n, k) => Shape(P, q, n, k, pool[At(A, n, k)])

Complete(P, q, A) ==
  \A n \in 1 .. Len(A) : \A k \in Slots(P[n]) : Entitled(P, q, n, k) => At(A, n, k) # Invalid

Agreement ==
  /\ Inductive /\ ProgramStraight(program)
  /\ \A q \in PEs : /\ ShapeOK(program, q, answers[q], pe[q].pool)
                    /\ q \notin missed => Complete(program, q, answers[q])

LEMMA OthersHave ==
  ASSUME Agreement, NEW p \in PEs, NEW n, NEW k, Lives(program, answers[p], n, k),
         NEW q \in PEs, q \notin missed, Len(answers[q]) = Len(answers[p]),
         Entitled(program, q, n, k)
  PROVE  <<n, k>> \in Held(q) /\ Shape(program, q, n, k, Of(q, <<n, k>>))
<1>1. Lives(program, answers[q], n, k)
  BY DEF Agreement, Complete, Lives
<1>2. <<n, k>> \in Held(q)
  BY <1>1, HeldIs DEF Agreement, Inductive
<1>3. Of(q, <<n, k>>) = pe[q].pool[At(answers[q], n, k)]
  BY DEF Of, Handle, At
<1>4. Shape(program, q, n, k, Of(q, <<n, k>>))
  BY <1>1, <1>3 DEF Agreement, ShapeOK
<1> QED BY <1>2, <1>4

LEMMA AgreementImplies ==
  ASSUME Agreement
  PROVE  MembersAgree
<1> SUFFICES ASSUME NEW p \in PEs, NEW r \in Held(p), NEW t, t = Of(p, r)
             PROVE  /\ t.mype \in 0 .. t.size - 1 /\ Member(t, t.mype) = p
                    /\ \A j \in 0 .. t.size - 1 :
                         /\ Member(t, j) \in PEs
                         /\ /\ Member(t, j) \notin missed
                            /\ Len(answers[Member(t, j)]) = Len(answers[p])
                            => /\ r \in Held(Member(t, j))
                               /\ Of(Member(t, j), r) = [t EXCEPT !.mype = j]
  BY DEF MembersAgree
<1>1. /\ ProgramOK(program) /\ ProgramStraight(program) /\ AnswersOK
      /\ NPes \in Nat \ {0} /\ Len(program) \in Nat
  BY TeamAssumption DEF Agreement, Inductive, ProgramOK
<1>2. PICK n, k : r = <<n, k>> /\ Lives(program, answers[p], n, k)
  BY <1>1, HeldIs
<1>3. Shape(program, p, n, k, t)
  <2>1. t = pe[p].pool[At(answers[p], n, k)]
    BY <1>2 DEF Of, Handle, At
  <2> QED BY <1>2, <2>1 DEF Agreement, ShapeOK
<1>4. n \in 1 .. Len(program) /\ k \in Slots(program[n])
  <2>1. n \in 1 .. Len(answers[p]) /\ Len(answers[p]) \in 1 .. Len(program)
    BY <1>1, <1>2 DEF AnswersOK, Lives
  <2> QED BY <1>1, <1>2, <2>1 DEF Lives
<1>5. CASE n = 1
  <2>1. t = WorldOf(p)
    BY <1>3, <1>5 DEF Shape
  <2>2. t.start = 0 /\ t.stride = 1 /\ t.size = NPes /\ t.mype = p
    BY <2>1 DEF WorldOf, Team
  <2>3. \A j \in 0 .. NPes - 1 : Member(t, j) = j
    BY <1>1, <2>2 DEF Member
  <2>4. p \in 0 .. NPes - 1 /\ PEs = 0 .. NPes - 1
    BY DEF PEs
  <2>5. ASSUME NEW j \in PEs, j \notin missed, Len(answers[j]) = Len(answers[p])
        PROVE  r \in Held(j) /\ Of(j, r) = [t EXCEPT !.mype = j]
    <3>1. r \in Held(j) /\ Shape(program, j, n, k, Of(j, r))
      BY <1>2, <1>5, <2>5, OthersHave DEF Entitled
    <3>2. Of(j, r) = WorldOf(j)
      BY <1>5, <3>1 DEF Shape
    <3>3. WorldOf(j) = [t EXCEPT !.mype = j]
      BY <2>1 DEF WorldOf, Team
    <3> QED BY <3>1, <3>2, <3>3
  <2> QED BY <2>2, <2>3, <2>4, <2>5
<1>6. CASE n # 1
  <2> DEFINE S == Parents(program, n)
             L == Choices(program, n, k)
  <2>1. program[n].op \in {"strided", "grid"}
    <3>1. program[n].op \in {"world", "strided", "grid", "destroy"}
      BY <1>1, <1>4 DEF ProgramOK, CallSet
    <3>2. program[n].op # "world" /\ program[n].op # "destroy"
      BY <1>1, <1>4, <1>6 DEF ProgramOK, Slots
    <3> QED BY <3>1, <3>2
  <2>2. S \in Nat \ {0} /\ S <= NPes
    BY <1>1, <1>4, <2>1, ParentsIs
  <2>3. p \in 0 .. S - 1
    BY <1>3, <1>6, <2>2, TeamAssumption DEF Shape, PEs
  <2>4. PICK a \in Mine(Straights(S, p), L) : t = Child(Straights(S, p), a)
    BY <1>3, <1>6 DEF Shape
  <2>5. a.start + (a.size - 1) * a.stride < S
    BY <1>1, <1>4, <2>1, <2>3, <2>4, ChoicesInside
  <2>6. /\ t.mype \in 0 .. t.size - 1 /\ Member(t, t.mype) = p
        /\ \A j \in 0 .. t.size - 1 :
             /\ Member(t, j) \in 0 .. S - 1
             /\ a \in Mine(Straights(S, Member(t, j)), L)
             /\ Child(Straights(S, Member(t, j)), a) = [t EXCEPT !.mype = j]
    <3> HIDE DEF S, L
    <3> QED BY <2>2, <2>3, <2>4, <2>5, SameChild
  <2>7. ASSUME NEW j \in 0 .. t.size - 1
        PROVE  /\ Member(t, j) \in PEs
               /\ /\ Member(t, j) \notin missed
                  /\ Len(answers[Member(t, j)]) = Len(answers[p])
                  => /\ r \in Held(Member(t, j))
                     /\ Of(Member(t, j), r) = [t EXCEPT !.mype = j]
    <3> DEFINE q == Member(t, j)
    <3>1. q \in 0 .. S - 1 /\ a \in Mine(Straights(S, q), L)
      BY <2>6
    <3> HIDE DEF q
    <3>2. q \in PEs
      BY <2>2, <3>1, TeamAssumption DEF PEs
    <3>3. ASSUME q \notin missed, Len(answers[q]) = Len(answers[p])
          PROVE  r \in Held(q) /\ Of(q, r) = [t EXCEPT !.mype = j]
      <4>1. Entitled(program, q, n, k)
        BY <2>2, <3>1 DEF Entitled
      <4>2. r \in Held(q) /\ Shape(program, q, n, k, Of(q, r))
        BY <1>2, <3>2, <3>3, <4>1, OthersHave
      <4>3. PICK b \in Mine(Straights(S, q), L) : Of(q, r) = Child(Straights(S, q), b)
        BY <1>6, <4>2 DEF Shape
      <4>4. b = a
        BY <1>1, <1>4, <2>1, <3>1, <4>3, ChoicesOnce
      <4>5. Child(Straights(S, q), a) = [t EXCEPT !.mype = j]
        BY <2>6 DEF q
      <4> QED BY <4>2, <4>3, <4>4, <4>5
    <3> QED BY <3>2, <3>3 DEF q
  <2> QED BY <2>6, <2>7
<1> QED BY <1>5, <1>6

LEMMA AgreementInit ==
  ASSUME Init
  PROVE  Agreement
<1>1. Inductive
  BY InitInductive
<1>2. program[1].op = "world" /\ Len(program) = 1 /\ \A m : m \in 1 .. 1 <=> m = 1
  BY DEF Init
<1>3. ProgramStraight(program)
  BY <1>2 DEF ProgramStraight
<1>4. \A p \in PEs : Len(answers[p]) = 1 /\ At(answers[p], 1, 1) = World /\ World # Invalid
  BY DEF Init, At, World, Invalid
<1>5. Slots(program[1]) = {1}
  BY <1>2 DEF Slots
<1>6. ASSUME NEW p \in PEs
      PROVE  /\ ShapeOK(program, p, answers[p], pe[p].pool)
             /\ Complete(program, p, answers[p])
  <2>1. \A n, k : n \in 1 .. Len(answers[p]) /\ k \in Slots(program[n]) => n = 1 /\ k = 1
    BY <1>2, <1>4, <1>5
  <2>2. pe[p].pool[World] = WorldOf(p)
    <3>1. pe[p].pool = [i \in Indices |-> IF i = World THEN WorldOf(p) ELSE NoTeam]
      BY DEF Init
    <3>2. World \in Indices
      BY TeamAssumption DEF World, Indices
    <3> QED BY <3>1, <3>2
  <2> QED BY <1>4, <2>1, <2>2 DEF ShapeOK, Complete, Lives, Shape
<1> QED BY <1>1, <1>3, <1>6 DEF Agreement

LEMMA ShapeSame ==
  ASSUME NEW P, NEW Q, ProgramOK(P), ProgramStraight(P), \A m \in 1 .. Len(P) : Q[m] = P[m],
         NEW n \in 1 .. Len(P), NEW k \in Slots(P[n]), NEW q
  PROVE  /\ \A t : Shape(Q, q, n, k, t) <=> Shape(P, q, n, k, t)
         /\ Entitled(Q, q, n, k) <=> Entitled(P, q, n, k)
<1>1. CASE n = 1
  BY <1>1 DEF Shape, Entitled
<1>2. CASE n # 1
  <2>1. P[n].op \in {"strided", "grid"}
    <3>1. P[n] \in CallSet /\ P[n].op # "world" /\ P[n].op # "destroy"
      BY <1>2 DEF ProgramOK, Slots
    <3> QED BY <3>1 DEF CallSet
  <2>2. P[n].parent[1] \in 1 .. Len(P)
    <3>1. Len(P) \in Nat
      BY DEF ProgramOK
    <3>2. P[n].parent[1] \in 1 .. n - 1
      BY <2>1 DEF ProgramStraight
    <3> QED BY <3>1, <3>2
  <2>3. Q[n] = P[n] /\ Q[P[n].parent[1]] = P[P[n].parent[1]]
    BY <2>2
  <2>4. Parents(Q, n) = Parents(P, n)
    BY <2>3 DEF Parents, SizeOf
  <2>5. Choices(Q, n, k) = Choices(P, n, k)
    BY <2>3, <2>4 DEF Choices
  <2> QED BY <2>4, <2>5 DEF Shape, Entitled
<1> QED BY <1>1, <1>2

(* The same for a PE that has come as far as A in the program. *)
LEMMA AgreeSame ==
  ASSUME NEW P, NEW Q, ProgramOK(P), ProgramStraight(P), \A m \in 1 .. Len(P) : Q[m] = P[m],
         NEW A \in Seq(AnswerSet), Len(A) <= Len(P), NEW q, NEW pool
  PROVE  /\ ShapeOK(P, q, A, pool) => ShapeOK(Q, q, A, pool)
         /\ Complete(P, q, A) => Complete(Q, q, A)
<1>1. Len(A) \in Nat /\ Len(P) \in Nat
  BY DEF ProgramOK
<1>2. \A m \in 1 .. Len(A) : m \in 1 .. Len(P) /\ Q[m] = P[m]
  BY <1>1
<1>3. \A n, k : Lives(Q, A, n, k) <=> Lives(P, A, n, k)
  BY <1>2, LivesSame
<1>4. ASSUME NEW n \in 1 .. Len(A), NEW k \in Slots(P[n])
      PROVE  /\ \A t : Shape(Q, q, n, k, t) <=> Shape(P, q, n, k, t)
             /\ Entitled(Q, q, n, k) <=> Entitled(P, q, n, k)
  BY <1>2, ShapeSame
<1>5. ASSUME ShapeOK(P, q, A, pool)
      PROVE  ShapeOK(Q, q, A, pool)
  <2>1. ASSUME NEW n, NEW k, Lives(P, A, n, k)
        PROVE  Shape(Q, q, n, k, pool[At(A, n, k)])
    <3>1. n \in 1 .. Len(A) /\ k \in Slots(P[n])
      BY <2>1 DEF Lives
    <3> QED BY <1>4, <1>5, <2>1, <3>1 DEF ShapeOK
  <2> QED BY <1>3, <2>1 DEF ShapeOK
<1>6. ASSUME Complete(P, q, A)
      PROVE  Complete(Q, q, A)
  BY <1>2, <1>4, <1>6 DEF Complete
<1> QED BY <1>5, <1>6

(* The application's choice of calls keeps the program straight. *)
LEMMA StraightExtends ==
  ASSUME Agreement, NEW p \in PEs, NEW n, Turn(p, n),
         NEW c, c \in IF n <= Len(program) THEN {program[n]} ELSE StraightCalls, IsCall(n, c)
  PROVE  ProgramStraight(program')
<1>1. /\ ProgramOK(program) /\ ProgramStraight(program) /\ Len(program) \in Nat
      /\ program \in Seq(CallSet) /\ program[1].op = "world" /\ 1 \in 1 .. Len(program)
      /\ Len(answers[p]) \in 1 .. Len(program) /\ n = Len(answers[p]) + 1
  <2>1. ProgramOK(program) /\ ProgramStraight(program) /\ AnswersOK
    BY DEF Agreement, Inductive
  <2>2. Len(program) \in Nat /\ program \in Seq(CallSet) /\ 1 \in 1 .. Len(program)
    BY <2>1 DEF ProgramOK
  <2>3. program[1].op = "world"
    BY <2>1, <2>2 DEF ProgramOK
  <2> QED BY <2>1, <2>2, <2>3 DEF AnswersOK, Turn
<1>2. CASE n <= Len(program)
  BY <1>1, <1>2 DEF IsCall
<1>3. CASE ~ (n <= Len(program))
  <2>1. program' = Append(program, c) /\ c \in StraightCalls /\ n = Len(program) + 1
    BY <1>1, <1>3 DEF IsCall
  <2>2. c \in Calls /\ (c.op = "destroy" \/ (Straight(c.parent) /\ InParent(c)))
    BY <2>1 DEF StraightCalls
  <2>3. c \in CallSet
    BY <1>1, <2>2, CallsTyped
  <2>4. /\ Len(program') = n /\ program'[n] = c
        /\ \A m \in 1 .. Len(program) : program'[m] = program[m]
    BY <1>1, <2>1, <2>3
  <2>5. ASSUME c.op \in {"strided", "grid"}
        PROVE  /\ c.parent[1] \in 1 .. Len(program) /\ StraightCall(program, c.parent[1])
               /\ c.parent[2] = 1
               /\ c.op = "strided" =>
                    /\ c.args \in Arity
                    /\ \/ c.parent = <<1, 1>>
                       \/ c.args.start + (c.args.size - 1) * c.args.stride
                            < SizeOf(program, c.parent[1])
               /\ c.op = "grid" => c.x \in 1 .. NPes + 1
    <3>1. c.parent \in InUse /\ Straight(c.parent) /\ InParent(c)
      BY <2>2, <2>5 DEF Calls, Destroys
    <3>2. PICK m, k : m \in 1 .. Len(program) /\ k \in Slots(program[m]) /\ c.parent = <<m, k>>
      BY <3>1, MadeIs DEF InUse, Teams
    <3>3. c.parent[1] = m /\ c.parent[2] = k
      BY <3>2
    <3>4. StraightCall(program, m)
      BY <3>1, <3>3 DEF Straight, StraightCall
    <3>5. k = 1
      BY <3>2, <3>4 DEF Slots, StraightCall
    <3>6. c.op = "strided" => c.args \in Arity
      BY <2>2 DEF Calls, Destroys, Arity
    <3>7. c.op = "grid" => c.x \in 1 .. NPes + 1
      BY <2>2 DEF Calls, Destroys
    <3>8. Size(c.parent) = SizeOf(program, m)
      BY <3>3 DEF Size, SizeOf
    <3> QED BY <3>1, <3>2, <3>3, <3>4, <3>5, <3>6, <3>7, <3>8 DEF InParent
  <2>6. ASSUME NEW m \in 1 .. Len(program), program[m].op \in {"strided", "grid"}
        PROVE  /\ program[m].parent[1] \in 1 .. Len(program)
               /\ Parents(program', m) = Parents(program, m)
               /\ StraightCall(program', program[m].parent[1])
    <3>1. program[m].parent[1] \in 1 .. m - 1 /\ StraightCall(program, program[m].parent[1])
      BY <1>1, <2>6 DEF ProgramStraight
    <3>2. program[m].parent[1] \in 1 .. Len(program)
      BY <1>1, <3>1
    <3> QED BY <2>4, <3>1, <3>2 DEF Parents, SizeOf, StraightCall
  <2>7. ASSUME NEW m \in 1 .. Len(program'), program'[m].op \in {"strided", "grid"}
        PROVE  /\ program'[m].parent[1] \in 1 .. m - 1
               /\ StraightCall(program', program'[m].parent[1])
               /\ program'[m].parent[2] = 1
               /\ program'[m].op = "strided" =>
                    /\ program'[m].args \in Arity
                    /\ \/ program'[m].parent = <<1, 1>>
                       \/ program'[m].args.start
                            + (program'[m].args.size - 1) * program'[m].args.stride
                            < Parents(program', m)
               /\ program'[m].op = "grid" => program'[m].x \in 1 .. NPes + 1
    <3>1. CASE m \in 1 .. Len(program)
      <4>1. program'[m] = program[m]
        BY <2>4, <3>1
      <4>2. Parents(program', m) = Parents(program, m)
            /\ StraightCall(program', program[m].parent[1])
        BY <2>6, <2>7, <3>1, <4>1
      <4> QED BY <1>1, <2>7, <3>1, <4>1, <4>2 DEF ProgramStraight
    <3>2. CASE m = n
      <4>1. program'[m] = c /\ m - 1 = Len(program)
        BY <1>1, <2>1, <2>4, <3>2
      <4>2. program'[c.parent[1]] = program[c.parent[1]]
        BY <2>4, <2>5, <2>7, <4>1
      <4>3. /\ StraightCall(program', c.parent[1])
            /\ Parents(program', m) = SizeOf(program, c.parent[1])
        BY <2>5, <2>7, <4>1, <4>2 DEF StraightCall, Parents, SizeOf
      <4> QED BY <2>5, <2>7, <4>1, <4>3
    <3> QED BY <1>1, <2>1, <2>4, <3>1, <3>2
  <2> QED BY <2>7 DEF ProgramStraight
<1> QED BY <1>2, <1>3

(* What p has of a straight team. *)
LEMMA StraightShape ==
  ASSUME NEW P, ProgramOK(P), ProgramStraight(P), NEW m \in 1 .. Len(P), NEW k \in Slots(P[m]),
         StraightCall(P, m), NEW p \in PEs, NEW t, Shape(P, p, m, k, t)
  PROVE  /\ SizeOf(P, m) \in 1 .. NPes /\ p < SizeOf(P, m)
         /\ t = Straights(SizeOf(P, m), p)
<1>1. p \in Nat /\ p < NPes /\ NPes \in Nat \ {0}
  BY TeamAssumption DEF PEs
<1>2. CASE m = 1
  <2>1. t = WorldOf(p) /\ SizeOf(P, m) = NPes
    BY <1>2 DEF Shape, ProgramOK, SizeOf
  <2> QED BY <1>1, <2>1 DEF WorldOf, Straights
<1>3. CASE m # 1
  <2> DEFINE a == P[m].args
  <2>1. /\ P[m].op = "strided" /\ P[m].parent = <<1, 1>>
        /\ a.start = 0 /\ a.stride = 1 /\ a \in Arity
    BY <1>3 DEF StraightCall, ProgramOK, ProgramStraight
  <2>2. Parents(P, m) = NPes /\ SizeOf(P, m) = a.size /\ Choices(P, m, k) = {a}
    <3>1. P[1].op = "world" /\ P[m].parent[1] = 1
      BY <2>1 DEF ProgramOK
    <3> QED BY <2>1, <3>1 DEF Parents, SizeOf, Choices
  <2> HIDE DEF a
  <2>3. PICK b \in Mine(Straights(NPes, p), {a}) : t = Child(Straights(NPes, p), b)
    BY <1>3, <2>2 DEF Shape
  <2>4. b = a /\ Acceptable(Straights(NPes, p), a) /\ Joins(Straights(NPes, p), a)
    BY <2>3 DEF Mine
  <2>5. Within(a, p) /\ t = Team(a.start, a.stride, a.size, (p - a.start) \div a.stride)
    BY <1>1, <2>3, <2>4, StraightChild
  <2>6. (p - 0) % 1 = 0 /\ (p - 0) \div 1 = p
    BY <1>1
  <2>7. a.size \in 1 .. NPes
    BY <2>1 DEF Arity
  <2> QED BY <2>1, <2>2, <2>5, <2>6, <2>7 DEF Within, Straights
<1> QED BY <1>2, <1>3

(* What p knows before its call n, which splits a team of S PEs. *)
LEMMA ParentHeld ==
  ASSUME Agreement, NEW p \in PEs, NEW n, NEW c, Extends(p, n, c), ProgramOK(program'),
         ProgramStraight(program'), c.op \in {"strided", "grid"},
         NEW i, i = Handle(p, c.parent), NEW S, S = Parents(program', n)
  PROVE  /\ S \in Nat \ {0}
         /\ i \in pe[p].mask => p < S /\ pe[p].pool[i] = Straights(S, p)
         /\ p \notin missed /\ p < S => i \in pe[p].mask
<1> DEFINE P == program'
           A == answers[p]
<1>1. Inductive /\ ProgramOK(program) /\ ProgramStraight(program)
  BY DEF Agreement, Inductive
<1>2. /\ A \in Seq(AnswerSet) /\ n = Len(A) + 1 /\ Len(A) < Len(P) /\ P[n] = c
      /\ n \in 1 .. Len(P) /\ Len(A) \in Nat /\ Len(P) \in Nat
      /\ IndexOK(P, A, pe[p].mask) /\ Answered(P, A)
  BY <1>1, Before DEF Extends, ProgramOK
<1>3. ShapeOK(P, p, A, pe[p].pool) /\ (p \notin missed => Complete(P, p, A))
  <2>1. \A m \in 1 .. Len(program) : P[m] = program[m]
    BY DEF Extends
  <2>2. Len(A) <= Len(program)
    BY <1>1 DEF Inductive, AnswersOK, ProgramOK
  <2>3. ShapeOK(program, p, A, pe[p].pool) /\ (p \notin missed => Complete(program, p, A))
    BY DEF Agreement
  <2> HIDE DEF P, A
  <2> QED BY <1>1, <1>2, <2>1, <2>2, <2>3, AgreeSame
<1> HIDE DEF P, A
<1>4. ProgramOK(P) /\ ProgramStraight(P)
  BY DEF P
<1>5. PICK m, k : Earlier(P, n, m, k) /\ c.parent = <<m, k>>
  BY <1>2, <1>4 DEF ProgramOK
<1>6. /\ m \in 1 .. Len(A) /\ m \in 1 .. Len(P) /\ k = 1 /\ k \in Slots(P[m])
      /\ StraightCall(P, m) /\ S = SizeOf(P, m)
  <2>1. m = c.parent[1] /\ k = c.parent[2] /\ m \in 1 .. n - 1 /\ k \in Slots(P[m])
    BY <1>5 DEF Earlier
  <2>2. StraightCall(P, m) /\ k = 1
    BY <1>2, <1>4, <2>1 DEF ProgramStraight
  <2>3. S = SizeOf(P, m)
    BY <1>2, <2>1 DEF Parents, P
  <2> QED BY <1>2, <2>1, <2>2, <2>3
<1>7. S \in Nat \ {0} /\ S <= NPes
  <2>1. S = Parents(P, n)
    BY DEF P
  <2> QED BY <1>2, <1>4, <2>1, ParentsIs
<1>8. i = At(A, m, k)
  BY <1>5 DEF Handle, At, A
<1>9. i # Invalid => Lives(P, A, m, k)
  <2>1. n - 1 = Len(A)
    BY <1>2
  <2>2. \A l \in 1 .. Len(A) : P[l] # Destroys(<<m, k>>)
    BY <1>5, <2>1 DEF Earlier
  <2> QED BY <1>6, <1>8, <2>2 DEF Lives
<1>10. p \in Nat /\ p < NPes /\ NPes \in Nat \ {0}
  BY TeamAssumption DEF PEs
<1>11. m = 1 => P[m].op = "world" /\ S = NPes
  BY <1>4, <1>6 DEF ProgramOK, SizeOf
<1>12. ASSUME m # 1
       PROVE  /\ P[m].op = "strided" /\ Parents(P, m) = NPes /\ S = P[m].args.size
              /\ P[m].args.start = 0 /\ P[m].args.stride = 1 /\ P[m].args \in Arity
              /\ Choices(P, m, k) = {P[m].args}
  <2>1. P[m].op # "world"
    BY <1>4, <1>6, <1>12 DEF ProgramOK
  <2>2. /\ P[m].op = "strided" /\ P[m].parent = <<1, 1>>
        /\ P[m].args.start = 0 /\ P[m].args.stride = 1
    BY <1>6, <2>1 DEF StraightCall
  <2>3. P[1].op = "world"
    BY <1>2, <1>4 DEF ProgramOK
  <2>4. P[m].args \in Arity
    BY <1>4, <1>6, <2>2 DEF ProgramStraight
  <2> QED BY <1>6, <2>2, <2>3, <2>4 DEF Parents, SizeOf, Choices
<1>13. ASSUME i \in pe[p].mask
       PROVE  p < S /\ pe[p].pool[i] = Straights(S, p)
  <2>1. i # Invalid
    BY <1>1, <1>13, InvalidIsNone DEF Inductive, PeOK, Sound, States
  <2>2. Shape(P, p, m, k, pe[p].pool[i])
    BY <1>3, <1>8, <1>9, <2>1 DEF ShapeOK
  <2> QED BY <1>4, <1>6, <2>2, StraightShape
<1>14. ASSUME p \notin missed, p < S
       PROVE  i \in pe[p].mask
  <2>1. Entitled(P, p, m, k)
    <3>1. CASE m # 1
      <4> DEFINE a == P[m].args
                 t == Straights(NPes, p)
      <4>1. /\ a.start = 0 /\ a.stride = 1 /\ a.size = S /\ Parents(P, m) = NPes
            /\ Choices(P, m, k) = {a}
        BY <1>12, <3>1
      <4> HIDE DEF a
      <4>2. t.start = 0 /\ t.stride = 1 /\ t.size = NPes /\ t.mype = p
        BY DEF Straights, Team
      <4>3. First(t, a) = 0 /\ Stride(t, a) = 1 /\ Last(t, a) = S - 1
        BY <1>7, <4>1, <4>2 DEF First, Stride, Last
      <4>4. Acceptable(t, a)
        BY <1>7, <1>10, <4>1, <4>2, <4>3 DEF Acceptable, MaxRanks
      <4>5. Within(a, p)
        BY <1>10, <1>14, <4>1 DEF Within
      <4>6. Joins(t, a)
        BY <1>10, <4>4, <4>5, StraightChild
      <4> QED BY <1>10, <4>1, <4>4, <4>6 DEF Entitled, Mine
    <3> QED BY <3>1 DEF Entitled
  <2>2. i # Invalid
    BY <1>3, <1>6, <1>8, <1>14, <2>1 DEF Complete
  <2> QED BY <1>2, <1>8, <1>9, <2>2, LivingInMask
<1> QED BY <1>7, <1>13, <1>14

(* A call of p that leaves its teams as they are, but for those it made.   *)
LEMMA AgreementReturned ==
  ASSUME Agreement, Inductive', NEW p \in PEs, NEW n, NEW c, Extends(p, n, c),
         ProgramStraight(program'), NEW s, NEW ret, NEW teams,
         [ret |-> ret, teams |-> teams] \in AnswerSet, Returns(p, s, ret, teams),
         missed \subseteq missed', \A i \in pe[p].mask : s.pool[i] = pe[p].pool[i],
         \A k \in Slots(c) : teams[k] # Invalid => Shape(program', p, n, k, s.pool[teams[k]]),
         p \notin missed' => \A k \in Slots(c) : Entitled(program', p, n, k) => teams[k] # Invalid,
         \A m, k : Lives(program', Append(answers[p], [ret |-> ret, teams |-> teams]), m, k)
                   => Lives(program', answers[p], m, k) \/ (m = n /\ k \in Slots(c) /\ teams[k] # Invalid)
  PROVE  Agreement'
<1> DEFINE a == [ret |-> ret, teams |-> teams]
           A == answers[p]
           P == program'
<1>1. Inductive /\ ProgramOK(program) /\ ProgramStraight(program) /\ AnswersOK /\ PeOK
  BY DEF Agreement, Inductive
<1>2. /\ answers \in [PEs -> Seq(AnswerSet)] /\ pe \in [PEs -> States]
      /\ \A q \in PEs : answers[q] \in Seq(AnswerSet) /\ Len(answers[q]) <= Len(program)
      /\ \A m \in 1 .. Len(program) : P[m] = program[m]
  BY <1>1 DEF AnswersOK, PeOK, ProgramOK, Extends
<1>3. answers' = [answers EXCEPT ![p] = Append(A, a)] /\ pe' = [pe EXCEPT ![p] = s]
  BY DEF Returns
<1>4. ASSUME NEW q \in PEs
      PROVE  /\ ShapeOK(P, q, answers[q], pe[q].pool)
             /\ q \notin missed => Complete(P, q, answers[q])
  <2>1. /\ ShapeOK(program, q, answers[q], pe[q].pool)
        /\ q \notin missed => Complete(program, q, answers[q])
    BY DEF Agreement
  <2> HIDE DEF P
  <2> QED BY <1>1, <1>2, <2>1, AgreeSame
<1>5. /\ A \in Seq(AnswerSet) /\ n = Len(A) + 1 /\ P[n] = c
      /\ IndexOK(P, A, pe[p].mask) /\ Answered(P, A)
  BY <1>1, Before DEF Extends
<1>6. /\ Len(Append(A, a)) = n
      /\ \A m, k : m \in 1 .. Len(A) => At(Append(A, a), m, k) = At(A, m, k)
      /\ \A k : At(Append(A, a), n, k) = teams[k]
      /\ \A m : m \in 1 .. n <=> m \in 1 .. Len(A) \/ m = n
  <2>1. a \in AnswerSet /\ a.teams = teams
    OBVIOUS
  <2> HIDE DEF a, A
  <2> QED BY <1>5, <2>1, Appended
<1>7. ShapeOK(P, p, Append(A, a), s.pool)
  <2>1. ASSUME NEW m, NEW k, Lives(P, Append(A, a), m, k)
        PROVE  Shape(P, p, m, k, s.pool[At(Append(A, a), m, k)])
    <3>1. CASE Lives(P, A, m, k)
      <4>1. At(Append(A, a), m, k) = At(A, m, k)
        BY <1>6, <3>1 DEF Lives
      <4>2. At(A, m, k) \in pe[p].mask
        BY <1>5, <3>1, LivingInMask
      <4>3. Shape(P, p, m, k, pe[p].pool[At(A, m, k)])
        BY <1>4, <3>1 DEF ShapeOK
      <4> HIDE DEF P, A, a
      <4> QED BY <4>1, <4>2, <4>3
    <3>2. CASE m = n /\ k \in Slots(c) /\ teams[k] # Invalid
      <4>1. At(Append(A, a), m, k) = teams[k]
        BY <1>6, <3>2
      <4> QED BY <3>2, <4>1
    <3> QED BY <2>1, <3>1, <3>2
  <2> QED BY <2>1 DEF ShapeOK
<1>8. ASSUME p \notin missed'
      PROVE  Complete(P, p, Append(A, a))
  <2>1. Complete(P, p, A)
    BY <1>4, <1>8
  <2>2. ASSUME NEW m \in 1 .. n, NEW k \in Slots(P[m]), Entitled(P, p, m, k)
        PROVE  At(Append(A, a), m, k) # Invalid
    <3>1. CASE m \in 1 .. Len(A)
      BY <1>6, <2>1, <2>2, <3>1 DEF Complete
    <3>2. CASE m = n
      BY <1>5, <1>6, <1>8, <2>2, <3>2
    <3> QED BY <1>6, <3>1, <3>2
  <2> QED BY <1>6, <2>2 DEF Complete
<1> HIDE DEF a
<1>9. ASSUME NEW q \in PEs
      PROVE  /\ ShapeOK(P, q, answers'[q], pe'[q].pool)
             /\ q \notin missed' => Complete(P, q, answers'[q])
  <2>1. CASE q = p
    <3>1. answers'[q] = Append(A, a) /\ pe'[q] = s
      BY <1>2, <1>3, <2>1
    <3> HIDE DEF P, A
    <3> QED BY <1>7, <1>8, <2>1, <3>1
  <2>2. CASE q # p
    <3>1. answers'[q] = answers[q] /\ pe'[q] = pe[q]
      BY <1>2, <1>3, <2>2
    <3> HIDE DEF P, A
    <3> QED BY <1>4, <3>1
  <2> QED BY <2>1, <2>2
<1> QED BY <1>9 DEF Agreement

LEMMA FaultsTell ==
  ASSUME NEW p \in PEs, NEW faults, Faults(p, faults)
  PROVE  missed \subseteq missed' /\ (p \notin missed' => p \notin missed /\ faults = {"none"})
BY DEF Faults

LEMMA SplitStridedAgrees ==
  ASSUME Agreement, Inductive', NEW p \in PEs, NEW n, NEW c, Extends(p, n, c),
         ProgramOK(program'), ProgramStraight(program'), SplitStrided(p, c)
  PROVE  Agreement'
<1> DEFINE P == program'
           A == answers[p]
           i == Handle(p, c.parent)
           S == Parents(P, n)
           t == Straights(S, p)
<1>1. PICK x \in Splits(pe[p], i, c.args) :
         Returns(p, x.state, x.ret, <<x.team>>) /\ Faults(p, {x.fault}) /\ c.op = "strided"
  BY DEF SplitStrided
<1>2. /\ A \in Seq(AnswerSet) /\ n = Len(A) + 1 /\ Len(A) < Len(P) /\ P[n] = c
      /\ Sound(pe[p]) /\ Inductive /\ n # 1
  <2>1. Inductive
    BY DEF Agreement
  <2>2. Len(A) \in 1 .. Len(program)
    BY <2>1 DEF Inductive, AnswersOK
  <2> QED BY <2>1, <2>2, Before DEF Extends
<1>3. /\ S \in Nat \ {0}
      /\ i \in pe[p].mask => p < S /\ pe[p].pool[i] = t
      /\ p \notin missed /\ p < S => i \in pe[p].mask
  <2> HIDE DEF i
  <2>1. c.op \in {"strided", "grid"}
    BY <1>1
  <2> QED BY <2>1, ParentHeld DEF i
<1>4. /\ Grows(pe[p], x, {Child(pe[p].pool[i], c.args)})
      /\ x.team # Invalid => /\ i \in pe[p].mask /\ Acceptable(pe[p].pool[i], c.args)
                             /\ Joins(pe[p].pool[i], c.args)
      /\ x.fault = "none" /\ i \in pe[p].mask /\ Acceptable(pe[p].pool[i], c.args)
           /\ Joins(pe[p].pool[i], c.args) => x.team # Invalid
  BY <1>1, <1>2, SplitsGrow
<1>5. Choices(P, n, 1) = {c.args} /\ Slots(c) = {1} /\ c.op # "destroy" /\ n # 1
  BY <1>1, <1>2 DEF Choices, Slots
<1> HIDE DEF S, i, P, A
<1>6. x.team # Invalid => Shape(P, p, n, 1, x.state.pool[x.team])
  <2>1. ASSUME x.team # Invalid
        PROVE  Shape(P, p, n, 1, x.state.pool[x.team])
    <3>1. p < S /\ Acceptable(t, c.args) /\ Joins(t, c.args)
      BY <1>3, <1>4, <2>1
    <3>2. x.state.pool[x.team] = Child(t, c.args)
      BY <1>3, <1>4, <2>1 DEF Grows
    <3>3. c.args \in Mine(t, Choices(P, n, 1))
      BY <1>5, <3>1 DEF Mine
    <3> QED BY <1>5, <3>1, <3>2, <3>3 DEF Shape, S
  <2> QED BY <2>1
<1>7. ASSUME p \notin missed', Entitled(P, p, n, 1)
      PROVE  x.team # Invalid
  <2>1. p \notin missed /\ x.fault = "none"
    BY <1>1, <1>7, FaultsTell
  <2>2. p < S /\ Mine(t, {c.args}) # {}
    BY <1>5, <1>7 DEF Entitled, S
  <2>3. Acceptable(t, c.args) /\ Joins(t, c.args)
    BY <2>2 DEF Mine
  <2> QED BY <1>3, <1>4, <2>1, <2>2, <2>3
<1> DEFINE teams == <<x.team>>
           a == [ret |-> x.ret, teams |-> teams]
<1>8. a \in AnswerSet /\ teams[1] = x.team
  BY <1>4 DEF AnswerSet, Grows
<1>9. \A m, k : Lives(P, Append(A, a), m, k) =>
        Lives(P, A, m, k) \/ (m = n /\ k \in Slots(c) /\ teams[k] # Invalid)
  <2>1. a.teams = teams /\ ProgramOK(P)
    BY DEF P
  <2> HIDE DEF a, teams
  <2>2. \A m, k : Lives(P, Append(A, a), m, k) <=>
          Lives(P, A, m, k) \/ (m = Len(A) + 1 /\ k \in Slots(P[m]) /\ a.teams[k] # Invalid)
    BY <1>2, <1>5, <1>8, <2>1, LivesGained
  <2> QED BY <1>2, <2>1, <2>2
<1>10. /\ missed \subseteq missed' /\ Returns(p, x.state, x.ret, teams)
       /\ \A j \in pe[p].mask : x.state.pool[j] = pe[p].pool[j]
  BY <1>1, <1>4, FaultsTell DEF Grows
<1> HIDE DEF teams
<1>11. /\ \A k \in Slots(c) : teams[k] # Invalid => Shape(P, p, n, k, x.state.pool[teams[k]])
       /\ p \notin missed' => \A k \in Slots(c) : Entitled(P, p, n, k) => teams[k] # Invalid
  BY <1>5, <1>6, <1>7, <1>8
<1> QED BY <1>8, <1>9, <1>10, <1>11, AgreementReturned DEF P, A

LEMMA Split2dAgrees ==
  ASSUME Agreement, Inductive', NEW p \in PEs, NEW n, NEW c, Extends(p, n, c),
         ProgramOK(program'), ProgramStraight(program'), Split2d(p, c)
  PROVE  Agreement'
<1> DEFINE P == program'
           A == answers[p]
           i == Handle(p, c.parent)
           S == Parents(P, n)
           t == Straights(S, p)
<1>1. c.op = "grid"
  BY DEF Split2d
<1>2. /\ A \in Seq(AnswerSet) /\ n = Len(A) + 1 /\ Len(A) < Len(P) /\ P[n] = c
      /\ Sound(pe[p]) /\ Inductive /\ n # 1
  <2>1. Inductive
    BY DEF Agreement
  <2>2. Len(A) \in 1 .. Len(program)
    BY <2>1 DEF Inductive, AnswersOK
  <2> QED BY <2>1, <2>2, Before DEF Extends
<1>3. /\ S \in Nat \ {0}
      /\ i \in pe[p].mask => p < S /\ pe[p].pool[i] = t
      /\ p \notin missed /\ p < S => i \in pe[p].mask
  <2> HIDE DEF i
  <2>1. c.op \in {"strided", "grid"}
    BY <1>1
  <2> QED BY <2>1, ParentHeld DEF i
<1>4. /\ Choices(P, n, 1) = Rows(S, c.x) /\ Choices(P, n, 2) = Columns(S, c.x)
      /\ Slots(c) = 1 .. 2 /\ c.op # "destroy" /\ n # 1
  BY <1>1, <1>2 DEF Choices, Slots
<1>5. t.size = S
  BY DEF Straights, Team
<1> HIDE DEF S
<1>6. ASSUME NEW s, NEW ret \in 0 .. 1,
             NEW v \in Indices \cup {Invalid}, NEW w \in Indices \cup {Invalid},
             Returns(p, s, ret, <<v, w>>), missed \subseteq missed',
             \A j \in pe[p].mask : s.pool[j] = pe[p].pool[j],
             v # Invalid => Shape(P, p, n, 1, s.pool[v]),
             w # Invalid => Shape(P, p, n, 2, s.pool[w]),
             p \notin missed' /\ Entitled(P, p, n, 1) => v # Invalid,
             p \notin missed' /\ Entitled(P, p, n, 2) => w # Invalid
      PROVE  Agreement'
  <2> DEFINE teams == <<v, w>>
             a == [ret |-> ret, teams |-> teams]
  <2>1. a \in AnswerSet /\ teams[1] = v /\ teams[2] = w /\ 1 .. 2 = {1, 2}
    BY DEF AnswerSet
  <2>2. a.teams = teams /\ ProgramOK(P) /\ Returns(p, s, ret, teams)
    BY <1>6
  <2> HIDE DEF teams, P, A
  <2>3. \A m, k : Lives(P, Append(A, a), m, k) =>
          Lives(P, A, m, k) \/ (m = n /\ k \in Slots(c) /\ teams[k] # Invalid)
    <3> HIDE DEF a
    <3>1. \A m, k : Lives(P, Append(A, a), m, k) <=>
            Lives(P, A, m, k) \/ (m = Len(A) + 1 /\ k \in Slots(P[m]) /\ a.teams[k] # Invalid)
      BY <1>2, <1>4, <2>1, <2>2, LivesGained
    <3> QED BY <1>2, <2>2, <3>1
  <2>4. /\ \A k \in Slots(c) : teams[k] # Invalid => Shape(P, p, n, k, s.pool[teams[k]])
        /\ p \notin missed' => \A k \in Slots(c) : Entitled(P, p, n, k) => teams[k] # Invalid
    BY <1>4, <1>6, <2>1
  <2> QED BY <1>6, <2>1, <2>2, <2>3, <2>4, AgreementReturned DEF P, A
<1>7. ASSUME NEW k, Entitled(P, p, n, k)
      PROVE  p < S /\ Mine(t, Choices(P, n, k)) # {}
  BY <1>4, <1>7 DEF Entitled, S
<1>8. ASSUME NEW k, NEW u \in Children(pe[p], i, Choices(P, n, k)), i \in pe[p].mask
      PROVE  Shape(P, p, n, k, u)
  <2>1. PICK a \in Mine(t, Choices(P, n, k)) : u = Child(t, a)
    BY <1>3, <1>8 DEF Children
  <2> QED BY <1>3, <1>4, <1>8, <2>1 DEF Shape, S
<1>9. CASE i \notin pe[p].mask
  <2>1. Returns(p, pe[p], 1, <<Invalid, Invalid>>) /\ Faults(p, {"none"})
    BY <1>9 DEF Split2d
  <2>2. missed \subseteq missed' /\ (p \notin missed' => p \notin missed)
    BY <2>1, FaultsTell
  <2>3. p \notin missed' => ~ Entitled(P, p, n, 1) /\ ~ Entitled(P, p, n, 2)
    BY <1>3, <1>7, <1>9, <2>2
  <2> HIDE DEF P, A, i, t
  <2> QED BY <1>6, <2>1, <2>2, <2>3
<1>10. CASE i \in pe[p].mask
  <2>1. pe[p].pool[i] = t /\ pe[p].pool[i].size = S
    BY <1>3, <1>5, <1>10
  <2>2. PICK x \in Axis(pe[p], i, Rows(S, c.x)) : \E y \in Axis(x.state, i, Columns(S, c.x)) :
          Returns(p, y.state, 0, <<x.team, y.team>>) /\ Faults(p, {x.fault, y.fault})
    BY <1>10, <2>1 DEF Split2d
  <2>3. PICK y \in Axis(x.state, i, Columns(S, c.x)) :
          Returns(p, y.state, 0, <<x.team, y.team>>) /\ Faults(p, {x.fault, y.fault})
    BY <2>2
  <2> HIDE DEF P, A, i, t
  <2>4. /\ Grows(pe[p], x, Children(pe[p], i, Choices(P, n, 1)))
        /\ x.fault = "none" /\ Mine(pe[p].pool[i], Choices(P, n, 1)) # {} => x.team # Invalid
    BY <1>2, <1>4, <1>10, AxisGrows
  <2>5. Sound(x.state) /\ i \in x.state.mask /\ x.state.pool[i] = pe[p].pool[i]
    BY <1>10, <2>4 DEF Grows
  <2>6. Children(x.state, i, Choices(P, n, 2)) = Children(pe[p], i, Choices(P, n, 2))
    BY <2>5 DEF Children
  <2>7. /\ Grows(x.state, y, Children(pe[p], i, Choices(P, n, 2)))
        /\ y.fault = "none" /\ Mine(pe[p].pool[i], Choices(P, n, 2)) # {} => y.team # Invalid
    BY <1>4, <2>5, <2>6, AxisGrows
  <2>8. /\ x.team \in Indices \cup {Invalid} /\ y.team \in Indices \cup {Invalid}
        /\ \A j \in pe[p].mask : y.state.pool[j] = pe[p].pool[j]
        /\ x.team # Invalid => y.state.pool[x.team] = x.state.pool[x.team]
    BY <2>4, <2>7 DEF Grows
  <2>9. x.team # Invalid => Shape(P, p, n, 1, y.state.pool[x.team])
    BY <1>8, <1>10, <2>4, <2>8 DEF Grows
  <2>10. y.team # Invalid => Shape(P, p, n, 2, y.state.pool[y.team])
    BY <1>8, <1>10, <2>7 DEF Grows
  <2>11. missed \subseteq missed'
         /\ (p \notin missed' => x.fault = "none" /\ y.fault = "none")
    BY <2>3, FaultsTell
  <2>12. /\ p \notin missed' /\ Entitled(P, p, n, 1) => x.team # Invalid
         /\ p \notin missed' /\ Entitled(P, p, n, 2) => y.team # Invalid
    BY <1>7, <2>1, <2>4, <2>7, <2>11
  <2>13. 0 \in 0 .. 1 /\ Returns(p, y.state, 0, <<x.team, y.team>>)
    BY <2>3
  <2>14. missed \subseteq missed'
    BY <2>11
  <2> QED BY <1>6, <2>8, <2>9, <2>10, <2>12, <2>13, <2>14
<1> QED BY <1>9, <1>10

LEMMA DestroyAgrees ==
  ASSUME Agreement, Inductive', NEW p \in PEs, NEW n, NEW c, Extends(p, n, c),
         ProgramOK(program'), ProgramStraight(program'), Destroy(p, c)
  PROVE  Agreement'
<1> DEFINE P == program'
           A == answers[p]
           a == [ret |-> 0, teams |-> <<>>]
<1>1. /\ A \in Seq(AnswerSet) /\ n = Len(A) + 1 /\ Len(A) < Len(P) /\ P[n] = c
      /\ Sound(pe[p]) /\ n \in 1 .. Len(P)
  BY Before DEF Extends, Agreement
<1>2. c.op = "destroy" /\ missed' = missed
  BY DEF Destroy
<1>3. Slots(c) = {}
  BY <1>2 DEF Slots
<1>4. a \in AnswerSet
  BY DEF AnswerSet
<1>5. PICK x, y : Earlier(P, n, x, y) /\ c = Destroys(<<x, y>>)
  BY <1>1, <1>2 DEF ProgramOK
<1>6. \A m, k : Lives(P, Append(A, a), m, k) => Lives(P, A, m, k)
  <2>1. ProgramOK(P)
    OBVIOUS
  <2> HIDE DEF P, A, a
  <2> QED BY <1>1, <1>4, <1>5, <2>1, LivesLost
<1>7. ASSUME NEW s, s.pool = pe[p].pool, Returns(p, s, 0, <<>>)
      PROVE  Agreement'
  <2> DEFINE teams == <<>>
  <2>1. /\ missed \subseteq missed' /\ \A i \in pe[p].mask : s.pool[i] = pe[p].pool[i]
        /\ Returns(p, s, 0, teams) /\ [ret |-> 0, teams |-> teams] = a
    BY <1>2, <1>7
  <2> HIDE DEF teams, P, A, a
  <2>2. \A m, k : Lives(P, Append(A, [ret |-> 0, teams |-> teams]), m, k) =>
          Lives(P, A, m, k) \/ (m = n /\ k \in Slots(c) /\ teams[k] # Invalid)
    BY <1>6, <2>1
  <2>3. /\ \A k \in Slots(c) : teams[k] # Invalid => Shape(P, p, n, k, s.pool[teams[k]])
        /\ p \notin missed' => \A k \in Slots(c) : Entitled(P, p, n, k) => teams[k] # Invalid
    BY <1>3
  <2> QED BY <1>4, <2>1, <2>2, <2>3, AgreementReturned DEF P, A
<1>8. CASE Handle(p, c.team) \in pe[p].mask
  <2>1. PICK told \in BOOLEAN :
          Returns(p, Destroyed(pe[p], Handle(p, c.team), told), 0, <<>>)
    BY <1>8 DEF Destroy
  <2>2. Handle(p, c.team) \in Indices
    BY <1>1, <1>8 DEF Sound, States
  <2>3. Destroyed(pe[p], Handle(p, c.team), told).pool = pe[p].pool
    BY <1>1, <2>2, DestroyedSound
  <2> QED BY <1>7, <2>1, <2>3
<1>9. CASE Handle(p, c.team) \notin pe[p].mask
  BY <1>7, <1>9 DEF Destroy
<1> QED BY <1>8, <1>9

LEMMA AgreementStep ==
  ASSUME Agreement, [Next]_vars
  PROVE  Agreement'
<1>1. Inductive
  BY DEF Agreement
<1>2. ASSUME NEW p \in PEs, Makes(p, StraightCalls)
      PROVE  Agreement'
  <2>1. PICK n \in 1 .. MaxCalls + 1 :
          /\ Turn(p, n)
          /\ \E c \in IF n <= Len(program) THEN {program[n]} ELSE StraightCalls :
               /\ IsCall(n, c)
               /\ SplitStrided(p, c) \/ Split2d(p, c) \/ Destroy(p, c)
    BY <1>2 DEF Makes
  <2>2. PICK c \in IF n <= Len(program) THEN {program[n]} ELSE StraightCalls :
          IsCall(n, c) /\ (SplitStrided(p, c) \/ Split2d(p, c) \/ Destroy(p, c))
    BY <2>1
  <2>3. StraightCalls \subseteq Calls
    BY DEF StraightCalls
  <2>4. Extends(p, n, c) /\ ProgramOK(program')
    BY <1>1, <2>1, <2>2, <2>3, CallExtends
  <2>5. ProgramStraight(program')
    BY <2>1, <2>2, StraightExtends
  <2>6. Inductive'
    BY <1>1, <1>2, <2>3, MakesStep
  <2>7. CASE SplitStrided(p, c)
    BY <2>4, <2>5, <2>6, <2>7, SplitStridedAgrees
  <2>8. CASE Split2d(p, c)
    BY <2>4, <2>5, <2>6, <2>8, Split2dAgrees
  <2>9. CASE Destroy(p, c)
    BY <2>4, <2>5, <2>6, <2>9, DestroyAgrees
  <2> QED BY <2>2, <2>7, <2>8, <2>9
<1>3. CASE Finished \/ UNCHANGED vars
  <2>1. UNCHANGED vars
    BY <1>3 DEF Finished
  <2>2. Inductive'
    BY <1>1, <2>1, StutterStep
  <2> QED BY <2>1, <2>2 DEF vars, Agreement
<1> QED BY <1>2, <1>3 DEF Next

(* As long as the application splits straight teams only, the members of a *)
(* team agree on it, without having exchanged anything: each PE has        *)
(* computed by itself, from its own rank, whether it is a member and with  *)
(* which number, and so have all those it counts as the other members.     *)
THEOREM TeamsAgree == Spec => []MembersAgree
<1>1. Init => Agreement
  BY AgreementInit
<1>2. Agreement /\ [Next]_vars => Agreement'
  BY AgreementStep
<1>3. Agreement => MembersAgree
  BY AgreementImplies
<1> QED BY <1>1, <1>2, <1>3, PTL DEF Spec

-----------------------------------------------------------------------------
(* A grid of S PEs leaves none of them out, when no stride in it is as     *)
(* large as SHMEM_MAX_RANKS, which the code refuses.                       *)

LEMMA QuotientIs ==
  ASSUME NEW S \in Nat \ {0}, NEW r \in Nat \ {0}
  PROVE  /\ S \div r \in Nat /\ S % r \in 0 .. r - 1 /\ r * (S \div r) \in Nat
         /\ S = r * (S \div r) + (S % r) /\ (S \div r) * r = r * (S \div r)
<1> DEFINE d == S \div r
<1>1. d \in Int /\ S % r \in 0 .. r - 1 /\ S = r * d + (S % r)
  BY Division
<1>2. d \in Nat
  OBVIOUS
<1> HIDE DEF d
<1>3. r * d \in Nat /\ d * r = r * d
  BY <1>2, Products
<1> QED BY <1>1, <1>2, <1>3 DEF d

(* The row of PE q. *)
LEMMA OwnRow ==
  ASSUME NEW S \in Nat \ {0}, NEW x \in Nat \ {0}, NEW q \in 0 .. S - 1
  PROVE  LET r == Smaller(x, S)  i == q \div r IN
         /\ i \in 0 .. (S + x - 1) \div x - 1 /\ i * r \in Nat /\ i * r <= q
         /\ q < i * r + Row(S, x, i).size
<1> DEFINE r == Smaller(x, S)
           i == q \div r
           rows == (S + x - 1) \div x
           e == S % r
           d == S \div r
           f == q % r
<1>1. r \in Nat \ {0} /\ r <= S /\ r <= x
  BY DEF Smaller
<1>2. i \in Nat /\ f \in 0 .. r - 1 /\ r * i \in Nat /\ q = r * i + f /\ i * r = r * i
  <2>1. q \in Nat
    OBVIOUS
  <2> HIDE DEF r
  <2>2. i \in Int /\ f \in 0 .. r - 1 /\ q = r * i + f
    BY <1>1, <2>1, Division
  <2>3. i \in Nat
    BY <1>1, <2>1
  <2> HIDE DEF i, f, r
  <2>4. r * i \in Nat /\ i * r = r * i
    BY <1>1, <2>3, Products
  <2> QED BY <2>2, <2>3, <2>4
<1>3. d \in Nat /\ e \in 0 .. r - 1 /\ r * d \in Nat /\ S = r * d + e /\ d * r = r * d
  BY <1>1, QuotientIs
<1>4. rows \in Nat /\ x * rows \in Nat /\ S <= x * rows
  <2> DEFINE n == S + x - 1
  <2>1. n \in Nat \ {0} \/ n = 0
    OBVIOUS
  <2>2. n \in Nat /\ rows \in Int /\ n % x \in 0 .. x - 1 /\ n = x * rows + (n % x)
    BY Division
  <2>3. rows \in Nat
    BY <2>2
  <2> HIDE DEF rows
  <2>4. x * rows \in Nat
    BY <2>3, Products
  <2>5. x * rows = n - (n % x)
    BY <2>2, <2>4
  <2> QED BY <2>2, <2>3, <2>4, <2>5
<1> HIDE DEF r, i, rows, e, d, f
<1>5. Row(S, x, i).size = IF i = rows - 1 /\ e # 0 THEN e ELSE r
  BY DEF Row, Strided, r, rows, e
<1>6. CASE S <= x
  <2>1. r = S
    BY <1>6 DEF r, Smaller
  <2>2. e = 0
    <3>1. S = S * 1 + 0 /\ 0 \in 0 .. S - 1
      OBVIOUS
    <3> QED BY <2>1, <3>1, Remainder DEF e
  <2>3. i = 0
    <3>1. ~ (1 <= i)
      <4>1. 1 <= i => r <= r * i
        BY <1>1, <1>2, MultipleAtLeast
      <4> QED BY <1>2, <2>1, <4>1
    <3> QED BY <1>2, <3>1
  <2>4. rows >= 1
    <3>1. rows = 0 => x * rows = 0
      OBVIOUS
    <3> QED BY <1>4, <3>1
  <2> QED BY <1>2, <1>4, <1>5, <2>1, <2>2, <2>3, <2>4 DEF r, i, rows
<1>7. CASE x < S
  <2>1. r = x
    BY <1>7 DEF r, Smaller
  <2>2. i < rows
    <3>1. rows < i => rows * x + x <= i * x
      BY <1>2, <1>4, Multiples
    <3>2. i * x = r * i /\ rows * x = x * rows
      BY <1>2, <1>4, <2>1
    <3>3. rows = i => x * rows = r * i
      BY <2>1
    <3> QED BY <1>2, <1>4, <3>1, <3>2, <3>3
  <2>3. f < Row(S, x, i).size
    <3>1. CASE i = rows - 1 /\ e # 0
      <4>1. rows = d + 1
        <5>1. x * (d + 1) = x * d + x
          BY <1>3
        <5>2. S + x - 1 = x * (d + 1) + (e - 1) /\ e - 1 \in 0 .. x - 1 /\ S + x - 1 \in Nat
          BY <1>3, <2>1, <3>1, <5>1
        <5>3. d + 1 \in Int
          BY <1>3
        <5>4. (S + x - 1) \div x = d + 1
          <6> DEFINE n == S + x - 1
                     u == d + 1
                     v == e - 1
          <6>1. n \in Nat /\ u \in Int /\ v \in 0 .. x - 1 /\ n = x * u + v
            BY <5>2, <5>3
          <6> HIDE DEF n, u, v
          <6>2. n \div x = u
            BY <6>1, Remainder
          <6> QED BY <6>2 DEF n, u
        <5> QED BY <5>4 DEF rows
      <4>2. i = d
        BY <1>2, <1>3, <3>1, <4>1
      <4>3. r * i = r * d
        BY <4>2
      <4>4. f < e
        BY <1>2, <1>3, <4>3
      <4>5. Row(S, x, i).size = e
        BY <1>5, <3>1
      <4> QED BY <4>4, <4>5
    <3>2. CASE ~ (i = rows - 1 /\ e # 0)
      <4>1. Row(S, x, i).size = r
        BY <1>5, <3>2
      <4> QED BY <1>1, <1>2, <4>1
    <3> QED BY <3>1, <3>2
  <2>4. Row(S, x, i).size \in Nat
    BY <1>1, <1>3, <1>5
  <2> QED BY <1>2, <1>4, <2>2, <2>3, <2>4 DEF r, i, rows
<1> QED BY <1>6, <1>7

(* The column of PE q. *)
LEMMA OwnColumn ==
  ASSUME NEW S \in Nat \ {0}, NEW x \in Nat \ {0}, NEW q \in 0 .. S - 1
  PROVE  LET r == Smaller(x, S)  j == q % r IN
         /\ j \in 0 .. x - 1 /\ j <= q /\ j < S
         /\ (q - j) % r = 0 /\ (q - j) \div r < Column(S, x, j).size
         /\ Column(S, x, j).size \in 1 .. S
<1> DEFINE r == Smaller(x, S)
           j == q % r
           m == q \div r
           e == S % r
           d == S \div r
<1>1. r \in Nat \ {0} /\ r <= S /\ r <= x
  BY DEF Smaller
<1>2. m \in Nat /\ j \in 0 .. r - 1 /\ r * m \in Nat /\ q = r * m + j
  <2>1. q \in Nat
    OBVIOUS
  <2> HIDE DEF r
  <2>2. m \in Int /\ j \in 0 .. r - 1 /\ q = r * m + j
    BY <1>1, <2>1, Division
  <2>3. m \in Nat
    BY <1>1, <2>1
  <2> HIDE DEF m, j, r
  <2>4. r * m \in Nat
    BY <1>1, <2>3, Products
  <2> QED BY <2>2, <2>3, <2>4
<1>3. d \in Nat /\ e \in 0 .. r - 1 /\ r * d \in Nat /\ S = r * d + e
  BY <1>1, QuotientIs
<1> HIDE DEF r, j, m, e, d
<1>4. Column(S, x, j).size = IF j < e THEN d + 1 ELSE d
  BY DEF Column, Strided, r, e, d
<1>5. (q - j) % r = 0 /\ (q - j) \div r = m
  <2>1. q - j = r * m + 0 /\ q - j \in Nat /\ 0 \in 0 .. r - 1
    BY <1>1, <1>2
  <2> QED BY <1>1, <1>2, <2>1, Remainder
<1>6. d < m => r * d + r <= r * m
  <2>1. d < m => d * r + r <= m * r
    BY <1>1, <1>2, <1>3, Multiples
  <2>2. d * r = r * d /\ m * r = r * m
    BY <1>1, <1>2, <1>3
  <2> QED BY <2>1, <2>2
<1>7. m <= d /\ (m = d => j < e)
  <2>1. m <= d
    BY <1>1, <1>2, <1>3, <1>6
  <2>2. m = d => j < e
    BY <1>2, <1>3
  <2> QED BY <2>1, <2>2
<1>8. 1 <= d /\ d <= r * d
  <2>1. d = 0 => r * d = 0
    BY <1>1
  <2>2. 1 <= d
    BY <1>1, <1>3, <2>1
  <2>3. d <= d * r /\ d * r = r * d
    BY <1>1, <1>3, MultipleAtLeast
  <2> QED BY <2>2, <2>3
<1>9. /\ m < Column(S, x, j).size /\ Column(S, x, j).size \in 1 .. S
  BY <1>2, <1>3, <1>4, <1>7, <1>8
<1>10. j \in 0 .. x - 1 /\ j <= q /\ j < S
  BY <1>1, <1>2
<1> QED BY <1>5, <1>9, <1>10 DEF r, j

LEMMA StraightAccepts ==
  ASSUME NEW S \in Nat \ {0}, S <= NPes, NEW q \in Nat, NEW a,
         a.start \in 0 .. S - 1, a.size \in 1 .. S, a.stride \in 1 .. MaxRanks - 1,
         a.start + (a.size - 1) * a.stride < S
  PROVE  Acceptable(Straights(S, q), a)
<1> DEFINE t == Straights(S, q)
<1>1. t.start = 0 /\ t.stride = 1 /\ t.size = S
  BY DEF Straights, Team
<1>2. a.start \in Nat /\ a.size \in Nat \ {0} /\ a.stride \in Nat /\ NPes \in Nat
  <2>1. S \in Nat /\ NPes \in Nat
    BY TeamAssumption
  <2> QED BY <2>1, Intervals
<1> HIDE DEF t
<1>3. First(t, a) = a.start /\ Stride(t, a) = a.stride
  BY <1>1, <1>2 DEF First, Stride
<1> DEFINE v == (a.size - 1) * a.stride
<1>4. v \in Nat /\ a.stride * (a.size - 1) = v
  BY <1>2, Products
<1>5. Last(t, a) = a.start + v
  BY <1>3, <1>4 DEF Last
<1>6. a.start + v < S
  OBVIOUS
<1> HIDE DEF v
<1>7. First(t, a) < NPes /\ Last(t, a) < NPes
  BY <1>2, <1>3, <1>4, <1>5, <1>6
<1> QED BY <1>1, <1>7 DEF Acceptable, t

(* The one row and the one column of q. *)
LEMMA MineIsOne ==
  ASSUME NPes < MaxRanks, NEW S \in Nat \ {0}, S <= NPes, NEW x \in Nat \ {0},
         NEW q \in 0 .. S - 1
  PROVE  LET r == Smaller(x, S) IN
         /\ Mine(Straights(S, q), Rows(S, x)) = {Row(S, x, q \div r)}
         /\ Mine(Straights(S, q), Columns(S, x)) = {Column(S, x, q % r)}
<1> DEFINE r == Smaller(x, S)
           i == q \div r
           j == q % r
           a == Row(S, x, i)
           b == Column(S, x, j)
           t == Straights(S, q)
<1>1. r \in Nat \ {0} /\ r <= S /\ r \in 1 .. MaxRanks - 1 /\ q \in Nat /\ 1 \in 1 .. MaxRanks - 1
  BY TeamAssumption DEF Smaller, MaxRanks
<1>2. a \in Rows(S, x) /\ Acceptable(t, a) /\ Within(a, q)
  <2>1. i \in 0 .. (S + x - 1) \div x - 1 /\ i * r \in Nat /\ i * r <= q /\ q < i * r + a.size
    BY OwnRow
  <2>2. a \in Rows(S, x)
    BY <2>1, RowsAre
  <2>3. a.start = i * r /\ a.stride = 1 /\ a.size \in 0 .. r /\ i * r + a.size <= S
    BY <2>1, RowInside
  <2> HIDE DEF i, a, r
  <2>4. /\ a.start \in Nat /\ a.start <= q /\ q < a.start + a.size /\ a.size \in Nat
        /\ a.start + a.size <= S
    BY <1>1, <2>1, <2>3
  <2>5. a.start \in 0 .. S - 1 /\ a.size \in 1 .. S
    BY <1>1, <2>4
  <2>6. (q - a.start) % 1 = 0 /\ (q - a.start) \div 1 < a.size
    BY <1>1, <2>4
  <2>7. a.start + (a.size - 1) * a.stride < S
    BY <2>3, <2>4
  <2>8. Acceptable(t, a)
    BY <1>1, <2>3, <2>5, <2>7, StraightAccepts
  <2> QED BY <2>2, <2>3, <2>4, <2>6, <2>8 DEF Within
<1>3. b \in Columns(S, x) /\ Acceptable(t, b) /\ Within(b, q)
  <2>1. /\ j \in 0 .. x - 1 /\ j <= q /\ j < S
        /\ (q - j) % r = 0 /\ (q - j) \div r < b.size /\ b.size \in 1 .. S
    BY OwnColumn
  <2>2. b \in Columns(S, x)
    BY <2>1, RowsAre
  <2>3. b.start = j /\ b.stride = r /\ j + (b.size - 1) * r < S
    <3>1. b.size >= 1
      BY <2>1
    <3> QED BY <2>1, <3>1, ColumnInside
  <2> HIDE DEF j, b, r
  <2>4. b.start \in 0 .. S - 1 /\ b.start + (b.size - 1) * b.stride < S
    BY <2>1, <2>3
  <2>5. Acceptable(t, b)
    BY <1>1, <2>1, <2>3, <2>4, StraightAccepts
  <2> QED BY <2>1, <2>2, <2>3, <2>5 DEF Within
<1> HIDE DEF a, b, r, i, j
<1>4. a \in Mine(t, Rows(S, x)) /\ b \in Mine(t, Columns(S, x))
  BY <1>1, <1>2, <1>3, StraightChild DEF Mine
<1>5. \A c \in Mine(t, Rows(S, x)) : c = a
  BY <1>4, GridOnce
<1>6. \A c \in Mine(t, Columns(S, x)) : c = b
  BY <1>4, GridOnce
<1>7. Mine(t, Rows(S, x)) = {a} /\ Mine(t, Columns(S, x)) = {b}
  BY <1>4, <1>5, <1>6
<1> QED BY <1>7 DEF a, b, r, i, j

(* The row and the column of q have q in common and no other PE. *)
LEMMA RowColumnMeet ==
  ASSUME NPes < MaxRanks, NEW S \in Nat \ {0}, S <= NPes, NEW x \in Nat \ {0},
         NEW q \in 0 .. S - 1,
         NEW a \in Mine(Straights(S, q), Rows(S, x)),
         NEW b \in Mine(Straights(S, q), Columns(S, x))
  PROVE  Members(Child(Straights(S, q), a)) \cap Members(Child(Straights(S, q), b)) = {q}
<1> DEFINE r == Smaller(x, S)
           i == q \div r
           j == q % r
           t == Straights(S, q)
           ta == Child(t, a)
           tb == Child(t, b)
<1>1. r \in Nat \ {0} /\ q \in Nat
  BY DEF Smaller
<1>2. a = Row(S, x, i) /\ b = Column(S, x, j)
  BY MineIsOne
<1>3. /\ Acceptable(t, a) /\ Acceptable(t, b) /\ Within(a, q) /\ Within(b, q)
      /\ ta = Team(a.start, a.stride, a.size, (q - a.start) \div a.stride)
      /\ tb = Team(b.start, b.stride, b.size, (q - b.start) \div b.stride)
      /\ a.start \in Nat /\ a.stride \in Nat \ {0} /\ a.size \in Nat \ {0}
      /\ b.start \in Nat /\ b.stride \in Nat \ {0} /\ b.size \in Nat \ {0}
  BY <1>1, StraightChild DEF Mine
<1>4. i \in 0 .. (S + x - 1) \div x - 1 /\ i \in Nat /\ j \in 0 .. r - 1
  <2>1. i \in 0 .. (S + x - 1) \div x - 1
    BY OwnRow
  <2>2. j \in 0 .. r - 1
    BY <1>1, Division
  <2> QED BY <2>1, <2>2, RowInside
<1>5. a.start = i * r /\ a.stride = 1 /\ a.size \in 0 .. r
  BY <1>2, <1>4, RowInside
<1>6. b.start = j /\ b.stride = r
  BY <1>2 DEF Column, Strided
<1> HIDE DEF i, j, r, ta, tb
<1>7. ASSUME NEW w \in Members(ta), w \in Members(tb)
      PROVE  w = q
  <2>1. PICK u \in 0 .. a.size - 1 : w = i * r + u
    <3>1. PICK u \in 0 .. ta.size - 1 : w = Member(ta, u)
      BY <1>7 DEF Members
    <3>2. ta.start = i * r /\ ta.stride = 1 /\ ta.size = a.size
      BY <1>3, <1>5 DEF Team
    <3>3. u \in 0 .. a.size - 1 /\ w = i * r + u * 1
      BY <3>1, <3>2 DEF Member
    <3>4. u * 1 = u
      BY <3>3
    <3> QED BY <3>3, <3>4
  <2>2. PICK v \in 0 .. b.size - 1 : w = j + v * r
    <3>1. PICK v \in 0 .. tb.size - 1 : w = Member(tb, v)
      BY <1>7 DEF Members
    <3>2. tb.start = j /\ tb.stride = r /\ tb.size = b.size
      BY <1>3, <1>6 DEF Team
    <3> QED BY <3>1, <3>2 DEF Member
  <2>3. /\ u \in 0 .. r - 1 /\ v \in Nat /\ i * r \in Nat /\ v * r \in Nat
        /\ i * r = r * i /\ v * r = r * v
    <3>1. u \in 0 .. r - 1 /\ v \in Nat
      BY <1>1, <1>3, <1>5, <2>1, <2>2
    <3> QED BY <1>1, <1>4, <3>1, Products
  <2>4. w \in Nat /\ w = r * i + u /\ w = r * v + j
    BY <1>4, <2>1, <2>2, <2>3
  <2>5. w \div r = i
    BY <1>1, <1>4, <2>3, <2>4, Remainder
  <2>6. w % r = j
    BY <1>1, <1>4, <2>3, <2>4, Remainder
  <2>7. w = r * i + j
    BY <1>1, <2>4, <2>5, <2>6, Division
  <2>8. q = r * i + j
    BY <1>1, Division DEF i, j
  <2> QED BY <2>7, <2>8
<1>8. ASSUME NEW e, NEW k, Within(e, q), k = Child(t, e),
             k = Team(e.start, e.stride, e.size, (q - e.start) \div e.stride),
             e.start \in Nat, e.stride \in Nat \ {0}, e.size \in Nat \ {0}
      PROVE  q \in Members(k)
  <2> DEFINE f == e.start
             d == e.stride
             m == (q - f) \div d
  <2>1. f \in Nat /\ d \in Nat \ {0} /\ f <= q /\ (q - f) % d = 0 /\ m < e.size
    BY <1>8 DEF Within
  <2>2. k.start = f /\ k.stride = d /\ k.size = e.size
    BY <1>8 DEF Team
  <2> HIDE DEF f, d
  <2>3. m \in Nat /\ f + m * d = q
    BY <1>1, <2>1, AtMember
  <2> HIDE DEF m
  <2>4. Member(k, m) = q
    BY <2>2, <2>3 DEF Member
  <2>5. m \in 0 .. k.size - 1
    <3>1. m < k.size /\ k.size \in Nat
      BY <1>8, <2>1, <2>2
    <3> QED BY <2>3, <3>1
  <2> QED BY <2>4, <2>5 DEF Members
<1>9. q \in Members(ta) /\ q \in Members(tb)
  BY <1>3, <1>8 DEF ta, tb
<1> QED BY <1>7, <1>9 DEF ta, tb

LEMMA AgreementCovers ==
  ASSUME NPes < MaxRanks, Agreement
  PROVE  GridCovers
<1>1. Inductive /\ ProgramOK(program) /\ ProgramStraight(program) /\ AnswersOK
  BY DEF Agreement, Inductive
<1>2. ASSUME NEW p \in PEs, NEW r \in Held(p), Straight(r)
      PROVE  \E S \in Nat \ {0} : S <= NPes /\ p \in 0 .. S - 1 /\ Of(p, r) = Straights(S, p)
  <2>1. PICK n, k : r = <<n, k>> /\ Lives(program, answers[p], n, k)
    BY <1>1, <1>2, HeldIs
  <2>2. n \in 1 .. Len(program) /\ k \in Slots(program[n]) /\ StraightCall(program, n)
    <3>1. n \in 1 .. Len(answers[p]) /\ Len(answers[p]) \in 1 .. Len(program)
          /\ Len(program) \in Nat /\ k \in Slots(program[n])
      BY <1>1, <2>1 DEF Lives, AnswersOK, ProgramOK
    <3>2. r[1] = n
      BY <2>1
    <3>3. StraightCall(program, n)
      BY <1>2, <3>2 DEF Straight, StraightCall
    <3>4. n \in 1 .. Len(program)
      BY <3>1
    <3> QED BY <3>1, <3>3, <3>4
  <2>3. Shape(program, p, n, k, Of(p, r))
    <3>1. Of(p, r) = pe[p].pool[At(answers[p], n, k)]
      BY <2>1 DEF Of, Handle, At
    <3> QED BY <2>1, <3>1 DEF Agreement, ShapeOK
  <2>4. p < SizeOf(program, n) /\ Of(p, r) = Straights(SizeOf(program, n), p)
        /\ SizeOf(program, n) \in 1 .. NPes
    BY <1>1, <2>2, <2>3, StraightShape
  <2>5. NPes \in Nat /\ p \in 0 .. NPes - 1
    BY TeamAssumption DEF PEs
  <2> DEFINE S == SizeOf(program, n)
  <2>6. S \in 1 .. NPes /\ p < S
    BY <2>4
  <2> HIDE DEF S
  <2>7. S \in Nat \ {0} /\ S <= NPes /\ p \in 0 .. S - 1
    BY <2>5, <2>6
  <2> QED BY <2>4, <2>7 DEF S
<1>3. SUFFICES ASSUME NEW p \in PEs, NEW r \in Held(p), Straight(r), NEW t, t = Of(p, r),
                      NEW x \in 1 .. NPes + 1
               PROVE  /\ Cardinality(Mine(t, Rows(t.size, x))) = 1
                      /\ Cardinality(Mine(t, Columns(t.size, x))) = 1
                      /\ \A a \in Mine(t, Rows(t.size, x)), b \in Mine(t, Columns(t.size, x)) :
                           Members(Child(t, a)) \cap Members(Child(t, b)) = {p}
  BY DEF GridCovers
<1>4. PICK S \in Nat \ {0} : S <= NPes /\ p \in 0 .. S - 1 /\ t = Straights(S, p)
  BY <1>2, <1>3
<1>5. t.size = S
  BY <1>4 DEF Straights, Team
<1>6. x \in Nat \ {0}
  BY TeamAssumption
<1>7. ASSUME NEW A, NEW e, A = {e}
      PROVE  Cardinality(A) = 1
  BY <1>7, FS_Singleton
<1>8. /\ Mine(t, Rows(S, x)) = {Row(S, x, p \div Smaller(x, S))}
      /\ Mine(t, Columns(S, x)) = {Column(S, x, p % Smaller(x, S))}
  BY <1>4, <1>6, MineIsOne
<1>9. \A a \in Mine(t, Rows(S, x)), b \in Mine(t, Columns(S, x)) :
        Members(Child(t, a)) \cap Members(Child(t, b)) = {p}
  BY <1>4, <1>6, RowColumnMeet
<1> QED BY <1>5, <1>7, <1>8, <1>9

(* On fewer PEs than SHMEM_MAX_RANKS a 2-D split of a straight team leaves *)
(* no PE of it out and counts none twice: each has one row and one column, *)
(* whatever the width of the grid, also when it does not divide the team.  *)
(* With SHMEM_MAX_RANKS PEs in one row the code refuses the columns.       *)
THEOREM GridsCover == NPes < MaxRanks => (Spec => []GridCovers)
<1> SUFFICES ASSUME NPes < MaxRanks PROVE Spec => []GridCovers
  OBVIOUS
<1>1. Init => Agreement
  BY AgreementInit
<1>2. Agreement /\ [Next]_vars => Agreement'
  BY AgreementStep
<1>3. Agreement => GridCovers
  BY AgreementCovers
<1> QED BY <1>1, <1>2, <1>3, PTL DEF Spec

-----------------------------------------------------------------------------
(* The index of a team, in programs that split the world by grids only.    *)

GridsOnly(P) == \A n \in 1 .. Len(P) : P[n].op \in {"world", "grid", "destroy"}

(* Before call n, by the answers A, the index i is in use. *)
Used(P, A, n, i) ==
  \E m, k : /\ m \in 1 .. n - 1 /\ k \in Slots(P[m]) /\ At(A, m, k) = i
            /\ \A l \in 1 .. n - 1 : P[l] # Destroys(<<m, k>>)

(* i is then the first free index, those in E aside. *)
FirstBefore(P, A, n, E, i) ==
  /\ i \in Indices \ E /\ ~ Used(P, A, n, i)
  /\ \A j \in Indices \ E : Used(P, A, n, j) \/ i <= j

(* The answers to the splits follow from the answers before them. *)
FollowsAt(P, A, n) ==
  P[n].op = "grid" => /\ FirstBefore(P, A, n, {}, At(A, n, 1))
                      /\ FirstBefore(P, A, n, {At(A, n, 1)}, At(A, n, 2))

SameAt(P, A, B, n) == \A k \in Slots(P[n]) : At(A, n, k) = At(B, n, k)

SharedAnswers(P, B, Good) ==
  /\ \A q \in Good : \A n \in 1 .. Len(B[q]) : FollowsAt(P, B[q], n)
  /\ \A p, q \in Good : \A n \in (1 .. Len(B[p])) \cap (1 .. Len(B[q])) :
       SameAt(P, B[p], B[q], n)

Sharing ==
  Agreement /\ (GridsOnly(program) => SharedAnswers(program, answers, PEs \ missed))

LEMMA CreationsFirst ==
  ASSUME NEW s, Sound(s), NEW t, NEW x \in Creations(s, t), x.fault = "none"
  PROVE  /\ x.team \in Indices \ s.mask
         /\ \A j \in Indices \ s.mask : x.team <= j
<1>1. s.mask # Indices
  <2>1. SUFFICES ASSUME s.mask = Indices PROVE FALSE
    OBVIOUS
  <2>2. x = Failure(s, "full")
    BY <2>1 DEF Creations
  <2> QED BY <2>2 DEF Failure
<1>2. x.team = FirstFree(s)
  <2>1. \/ \E w : x = Answer(w, FirstFree(s))
        \/ \E w : x = Failure(w, "device")
    BY <1>1 DEF Creations
  <2> QED BY <2>1 DEF Answer, Failure
<1> QED BY <1>1, <1>2, LeastFree DEF Sound

LEMMA AxisFirst ==
  ASSUME NEW s, Sound(s), NEW parent, NEW A, NEW x \in Axis(s, parent, A),
         Mine(s.pool[parent], A) # {}, x.fault = "none"
  PROVE  /\ x.team \in Indices \ s.mask
         /\ \A j \in Indices \ s.mask : x.team <= j
<1>1. PICK a \in Mine(s.pool[parent], A) : x \in Creations(s, Child(s.pool[parent], a))
  BY DEF Axis
<1> QED BY <1>1, CreationsFirst

(* What is in use before its next call is what the PE's mask says. *)
LEMMA UsedIsMask ==
  ASSUME NEW P, NEW A \in Seq(AnswerSet), NEW n, n = Len(A) + 1, NEW M, IndexOK(P, A, M)
  PROVE  \A i \in Indices : i \in M <=> Used(P, A, n, i)
<1>1. n - 1 = Len(A)
  OBVIOUS
<1>2. \A i \in Indices : Used(P, A, n, i) <=> \E m, k : Lives(P, A, m, k) /\ At(A, m, k) = i
  BY <1>1, InvalidIsNone DEF Used, Lives
<1> QED BY <1>2 DEF IndexOK

LEMMA UsedSame ==
  ASSUME NEW P, NEW Q, NEW A, NEW B, NEW n,
         \A m \in 1 .. n - 1 : Q[m] = P[m] /\ SameAt(P, A, B, m), NEW i
  PROVE  Used(P, A, n, i) <=> Used(Q, B, n, i)
BY DEF Used, SameAt

LEMMA FollowsSame ==
  ASSUME NEW P, NEW Q, NEW A, NEW B, NEW n \in Nat \ {0}, FollowsAt(P, A, n),
         \A m \in 1 .. n : Q[m] = P[m] /\ SameAt(P, A, B, m)
  PROVE  FollowsAt(Q, B, n)
<1> SUFFICES ASSUME Q[n].op = "grid"
             PROVE  /\ FirstBefore(Q, B, n, {}, At(B, n, 1))
                    /\ FirstBefore(Q, B, n, {At(B, n, 1)}, At(B, n, 2))
  BY DEF FollowsAt
<1>1. Q[n] = P[n] /\ SameAt(P, A, B, n)
  OBVIOUS
<1>2. At(A, n, 1) = At(B, n, 1) /\ At(A, n, 2) = At(B, n, 2)
  <2>1. Slots(P[n]) = 1 .. 2
    BY <1>1 DEF Slots
  <2> QED BY <1>1, <2>1 DEF SameAt
<1>3. \A i : Used(P, A, n, i) <=> Used(Q, B, n, i)
  BY UsedSame
<1>4. /\ FirstBefore(P, A, n, {}, At(A, n, 1))
      /\ FirstBefore(P, A, n, {At(A, n, 1)}, At(A, n, 2))
  BY <1>1 DEF FollowsAt
<1> QED BY <1>2, <1>3, <1>4 DEF FirstBefore

(* Two PEs that agree up to call n agree on it. *)
LEMMA SameNext ==
  ASSUME NEW P, NEW A, NEW B, NEW n \in Nat \ {0}, P[n].op \in {"grid", "destroy"},
         \A m \in 1 .. n - 1 : SameAt(P, A, B, m), FollowsAt(P, A, n), FollowsAt(P, B, n)
  PROVE  SameAt(P, A, B, n)
<1>1. CASE P[n].op = "destroy"
  BY <1>1 DEF SameAt, Slots
<1>2. CASE P[n].op = "grid"
  <2>1. \A i : Used(P, A, n, i) <=> Used(P, B, n, i)
    BY UsedSame
  <2>2. \A i, j \in Indices : i <= j /\ j <= i => i = j
    BY TeamAssumption DEF Indices
  <2>3. At(A, n, 1) = At(B, n, 1)
    BY <1>2, <2>1, <2>2 DEF FollowsAt, FirstBefore
  <2>4. At(A, n, 2) = At(B, n, 2)
    BY <1>2, <2>1, <2>2, <2>3 DEF FollowsAt, FirstBefore
  <2>5. Slots(P[n]) = {1, 2}
    BY <1>2 DEF Slots
  <2> QED BY <2>3, <2>4, <2>5 DEF SameAt
<1> QED BY <1>1, <1>2

LEMMA SharingReturned ==
  ASSUME Sharing, NEW p \in PEs, NEW n, NEW c, Extends(p, n, c), ProgramOK(program'),
         GridsOnly(program'), NEW s, NEW ret, NEW teams,
         [ret |-> ret, teams |-> teams] \in AnswerSet, Returns(p, s, ret, teams),
         missed \subseteq missed',
         p \notin missed' =>
           FollowsAt(program', Append(answers[p], [ret |-> ret, teams |-> teams]), n)
  PROVE  SharedAnswers(program', answers', PEs \ missed')
<1> DEFINE a == [ret |-> ret, teams |-> teams]
           A == Append(answers[p], a)
           P == program'
           B == answers'
           Good == PEs \ missed'
<1>1. /\ Inductive /\ ProgramOK(program) /\ answers \in [PEs -> Seq(AnswerSet)]
      /\ \A q \in PEs : Len(answers[q]) \in 1 .. Len(program)
      /\ Len(program) \in Nat /\ Len(P) \in Nat
  <2>1. Inductive
    BY DEF Sharing, Agreement
  <2>2. ProgramOK(program) /\ AnswersOK
    BY <2>1 DEF Inductive
  <2>3. Len(program) \in Nat /\ Len(P) \in Nat
    BY <2>2 DEF ProgramOK
  <2> QED BY <2>1, <2>2, <2>3 DEF AnswersOK
<1>2. /\ n = Len(answers[p]) + 1 /\ n \in 1 .. Len(P) /\ Len(program) <= Len(P)
      /\ \A m \in 1 .. Len(program) : P[m] = program[m]
  BY DEF Extends
<1>3. \A m \in 1 .. Len(program) : m \in 1 .. Len(P)
  BY <1>1, <1>2
<1>4. GridsOnly(program)
  BY <1>2, <1>3 DEF GridsOnly
<1>5. SharedAnswers(program, answers, PEs \ missed) /\ Good \subseteq PEs \ missed
  BY <1>4 DEF Sharing
<1>6. B = [answers EXCEPT ![p] = A]
  BY DEF Returns
<1>7. a \in AnswerSet
  OBVIOUS
<1> HIDE DEF a, P
<1>8. /\ Len(A) = n /\ \A m, k : m \in 1 .. Len(answers[p]) => At(A, m, k) = At(answers[p], m, k)
  BY <1>1, <1>2, <1>7, Appended
<1> HIDE DEF A, B
<1>9. ASSUME NEW q \in PEs
      PROVE  /\ \A m \in 1 .. Len(B[q]) :
                  m \in 1 .. Len(answers[q]) \/ (q = p /\ m = n /\ B[q] = A)
             /\ \A m \in 1 .. Len(answers[q]) :
                  m \in Nat \ {0} /\ P[m] = program[m]
                  /\ \A k : At(B[q], m, k) = At(answers[q], m, k)
             /\ Len(answers[q]) \in Nat
  <2>1. \A m \in 1 .. Len(answers[q]) : m \in Nat \ {0} /\ P[m] = program[m]
    BY <1>1, <1>2 DEF P
  <2>2. CASE q = p
    <3>1. B[q] = A
      BY <1>1, <1>6, <2>2
    <3>2. \A m \in 1 .. n : m \in 1 .. Len(answers[p]) \/ m = n
      BY <1>1, <1>2
    <3> QED BY <1>1, <1>8, <2>1, <2>2, <3>1, <3>2
  <2>3. CASE q # p
    <3>1. B[q] = answers[q]
      BY <1>1, <1>6, <2>3
    <3> QED BY <1>1, <2>1, <3>1
  <2> QED BY <2>2, <2>3
<1>10. ASSUME NEW q \in Good, NEW m \in 1 .. Len(B[q])
       PROVE  FollowsAt(P, B[q], m)
  <2>1. CASE m \in 1 .. Len(answers[q])
    <3>1. FollowsAt(program, answers[q], m) /\ m \in Nat \ {0}
      BY <1>5, <1>9, <2>1 DEF SharedAnswers
    <3>2. \A l \in 1 .. m : l \in 1 .. Len(answers[q])
      BY <1>9, <2>1
    <3>3. \A l \in 1 .. m : P[l] = program[l] /\ SameAt(program, answers[q], B[q], l)
      BY <1>9, <3>2 DEF SameAt
    <3> QED BY <3>1, <3>3, FollowsSame
  <2>2. CASE q = p /\ m = n /\ B[q] = A
    BY <2>2 DEF A, P, a
  <2> QED BY <1>9, <2>1, <2>2
<1>11. ASSUME NEW q \in Good, NEW w \in Good, NEW m,
              m \in 1 .. Len(answers[q]), m \in 1 .. Len(answers[w])
       PROVE  SameAt(P, B[q], B[w], m)
  <2>1. SameAt(program, answers[q], answers[w], m)
    BY <1>5, <1>11 DEF SharedAnswers
  <2> QED BY <1>9, <1>11, <2>1 DEF SameAt
<1>12. ASSUME NEW q \in Good, NEW w \in Good, NEW m \in (1 .. Len(B[q])) \cap (1 .. Len(B[w]))
       PROVE  SameAt(P, B[q], B[w], m)
  <2>1. CASE m = n
    <3>1. n # 1 /\ n \in Nat \ {0} /\ n - 1 = Len(answers[p])
      BY <1>1, <1>2
    <3>2. P[n].op \in {"grid", "destroy"}
      BY <1>2, <3>1 DEF GridsOnly, ProgramOK, P
    <3>3. \A v \in Good : n \in 1 .. Len(B[v]) =>
            \A l \in 1 .. n - 1 : l \in 1 .. Len(answers[v])
      <4> SUFFICES ASSUME NEW v \in Good, n \in 1 .. Len(B[v]), NEW l \in 1 .. n - 1
                   PROVE  l \in 1 .. Len(answers[v])
        OBVIOUS
      <4>1. n \in 1 .. Len(answers[v]) \/ v = p
        BY <1>9
      <4>2. Len(answers[v]) \in Nat
        BY <1>9
      <4> QED BY <3>1, <4>1, <4>2
    <3>4. \A l \in 1 .. n - 1 : SameAt(P, B[q], B[w], l)
      BY <1>11, <2>1, <3>3
    <3>5. FollowsAt(P, B[q], n) /\ FollowsAt(P, B[w], n)
      BY <1>10, <2>1
    <3> QED BY <2>1, <3>1, <3>2, <3>4, <3>5, SameNext
  <2>2. CASE m # n
    BY <1>9, <1>11, <2>2
  <2> QED BY <2>1, <2>2
<1> QED BY <1>10, <1>12 DEF SharedAnswers, B, P

LEMMA Split2dShares ==
  ASSUME NPes < MaxRanks, Sharing, NEW p \in PEs, NEW n, NEW c, Extends(p, n, c),
         ProgramOK(program'), ProgramStraight(program'), GridsOnly(program'), Split2d(p, c)
  PROVE  SharedAnswers(program', answers', PEs \ missed')
<1> DEFINE P == program'
           A == answers[p]
           i == Handle(p, c.parent)
           S == Parents(P, n)
           t == Straights(S, p)
<1>1. c.op = "grid" /\ Agreement /\ Inductive
  BY DEF Split2d, Sharing, Agreement
<1>2. /\ A \in Seq(AnswerSet) /\ n = Len(A) + 1 /\ P[n] = c /\ n \in 1 .. Len(P)
      /\ Sound(pe[p]) /\ IndexOK(P, A, pe[p].mask) /\ n \in Nat \ {0}
  BY <1>1, Before DEF Extends
<1>3. /\ i \in pe[p].mask => pe[p].pool[i] = t
      /\ p \notin missed /\ p < S => i \in pe[p].mask
  <2>1. c.op \in {"strided", "grid"}
    BY <1>1
  <2> HIDE DEF i
  <2> QED BY <1>1, <2>1, ParentHeld DEF i
<1>4. S = NPes /\ c.x \in 1 .. NPes + 1
  <2> DEFINE m == c.parent[1]
  <2>1. m \in 1 .. n - 1 /\ StraightCall(P, m) /\ c.x \in 1 .. NPes + 1
    BY <1>1, <1>2 DEF ProgramStraight
  <2>2. S = SizeOf(P, m)
    BY <1>2 DEF Parents
  <2> HIDE DEF m
  <2>3. m \in 1 .. Len(P)
    BY <1>2, <2>1
  <2>4. P[m].op = "world"
    BY <2>1, <2>3 DEF StraightCall, GridsOnly
  <2> QED BY <2>1, <2>2, <2>4 DEF SizeOf
<1>5. NPes \in Nat \ {0} /\ p \in 0 .. NPes - 1 /\ c.x \in Nat \ {0}
  <2>1. NPes \in Nat \ {0}
    BY TeamAssumption
  <2> DEFINE x == c.x
  <2>2. x \in 1 .. NPes + 1
    BY <1>4
  <2> HIDE DEF x
  <2>3. x \in Nat \ {0}
    BY <2>1, <2>2
  <2> QED BY <2>1, <2>3 DEF PEs, x
<1>6. Mine(t, Rows(NPes, c.x)) # {} /\ Mine(t, Columns(NPes, c.x)) # {}
  <2>1. t = Straights(NPes, p) /\ NPes <= NPes
    BY <1>4, <1>5
  <2> HIDE DEF t
  <2>2. /\ Mine(t, Rows(NPes, c.x)) = {Row(NPes, c.x, p \div Smaller(c.x, NPes))}
        /\ Mine(t, Columns(NPes, c.x)) = {Column(NPes, c.x, p % Smaller(c.x, NPes))}
    BY <1>5, <2>1, MineIsOne
  <2> QED BY <2>2
<1> HIDE DEF P, A, i, S, t
<1>7. ASSUME NEW ret \in 0 .. 1, NEW s, NEW v \in Indices \cup {Invalid}, NEW w \in Indices \cup {Invalid},
             Returns(p, s, ret, <<v, w>>), missed \subseteq missed',
             p \notin missed' =>
               /\ v \in Indices \ pe[p].mask /\ \A j \in Indices \ pe[p].mask : v <= j
               /\ w \in Indices \ (pe[p].mask \cup {v})
               /\ \A j \in Indices \ (pe[p].mask \cup {v}) : w <= j
      PROVE  SharedAnswers(program', answers', PEs \ missed')
  <2> DEFINE a == [ret |-> ret, teams |-> <<v, w>>]
             C == Append(A, a)
  <2>1. a \in AnswerSet /\ a.teams[1] = v /\ a.teams[2] = w
    BY DEF AnswerSet
  <2> HIDE DEF a
  <2>2. /\ At(C, n, 1) = v /\ At(C, n, 2) = w
        /\ \A m, k : m \in 1 .. Len(A) => At(C, m, k) = At(A, m, k)
    BY <1>2, <2>1, Appended
  <2> HIDE DEF C
  <2>3. \A j \in Indices : j \in pe[p].mask <=> Used(P, C, n, j)
    <3>1. \A j \in Indices : j \in pe[p].mask <=> Used(P, A, n, j)
      BY <1>2, UsedIsMask
    <3>2. \A m \in 1 .. n - 1 : m \in 1 .. Len(A)
      BY <1>2
    <3>3. \A m \in 1 .. n - 1 : SameAt(P, A, C, m)
      BY <2>2, <3>2 DEF SameAt
    <3>4. \A j : Used(P, A, n, j) <=> Used(P, C, n, j)
      BY <3>3, UsedSame
    <3> QED BY <3>1, <3>4
  <2>4. p \notin missed' => FollowsAt(P, C, n)
    BY <1>7, <2>2, <2>3 DEF FollowsAt, FirstBefore
  <2> QED BY <1>7, <2>1, <2>4, SharingReturned DEF a, C, A, P
<1>8. CASE i \notin pe[p].mask
  <2>1. Returns(p, pe[p], 1, <<Invalid, Invalid>>) /\ Faults(p, {"none"})
    BY <1>8 DEF Split2d, i
  <2>2. missed \subseteq missed' /\ (p \notin missed' => p \notin missed)
    BY <2>1, FaultsTell
  <2>3. p \in missed'
    BY <1>3, <1>4, <1>5, <1>8, <2>2
  <2> QED BY <1>7, <2>1, <2>2, <2>3
<1>9. CASE i \in pe[p].mask
  <2>1. pe[p].pool[i] = t /\ pe[p].pool[i].size = NPes
    BY <1>3, <1>4, <1>9 DEF t, Straights, Team
  <2>2. PICK x \in Axis(pe[p], i, Rows(NPes, c.x)) : \E y \in Axis(x.state, i, Columns(NPes, c.x)) :
          Returns(p, y.state, 0, <<x.team, y.team>>) /\ Faults(p, {x.fault, y.fault})
    BY <1>9, <2>1 DEF Split2d, i
  <2>3. PICK y \in Axis(x.state, i, Columns(NPes, c.x)) :
          Returns(p, y.state, 0, <<x.team, y.team>>) /\ Faults(p, {x.fault, y.fault})
    BY <2>2
  <2>4. Grows(pe[p], x, Children(pe[p], i, Rows(NPes, c.x)))
    BY <1>2, <1>9, AxisGrows
  <2>5. Sound(x.state) /\ i \in x.state.mask /\ x.state.pool[i] = t
    BY <1>9, <2>1, <2>4 DEF Grows
  <2>6. Grows(x.state, y, Children(x.state, i, Columns(NPes, c.x)))
    BY <2>5, AxisGrows
  <2>7. /\ x.team \in Indices \cup {Invalid} /\ y.team \in Indices \cup {Invalid}
        /\ x.state.mask = pe[p].mask \cup (IF x.team = Invalid THEN {} ELSE {x.team})
    BY <2>4, <2>6 DEF Grows
  <2>8. missed \subseteq missed'
        /\ (p \notin missed' => x.fault = "none" /\ y.fault = "none")
    BY <2>3, FaultsTell
  <2>9. ASSUME p \notin missed'
        PROVE  /\ x.team \in Indices \ pe[p].mask /\ \A j \in Indices \ pe[p].mask : x.team <= j
               /\ y.team \in Indices \ (pe[p].mask \cup {x.team})
               /\ \A j \in Indices \ (pe[p].mask \cup {x.team}) : y.team <= j
    <3>1. x.team \in Indices \ pe[p].mask /\ \A j \in Indices \ pe[p].mask : x.team <= j
      BY <1>2, <1>6, <2>1, <2>8, <2>9, AxisFirst
    <3>2. x.state.mask = pe[p].mask \cup {x.team}
      BY <2>7, <3>1, InvalidIsNone
    <3>3. y.team \in Indices \ x.state.mask /\ \A j \in Indices \ x.state.mask : y.team <= j
      BY <1>6, <2>5, <2>8, <2>9, AxisFirst
    <3> QED BY <3>1, <3>2, <3>3
  <2>10. 0 \in 0 .. 1
    OBVIOUS
  <2> QED BY <1>7, <2>3, <2>7, <2>8, <2>9, <2>10
<1> QED BY <1>8, <1>9

LEMMA DestroyShares ==
  ASSUME Sharing, NEW p \in PEs, NEW n, NEW c, Extends(p, n, c), ProgramOK(program'),
         GridsOnly(program'), Destroy(p, c)
  PROVE  SharedAnswers(program', answers', PEs \ missed')
<1> DEFINE a == [ret |-> 0, teams |-> <<>>]
<1>1. c.op = "destroy" /\ missed' = missed /\ program'[n] = c
  BY DEF Destroy, Extends
<1>2. \E s : Returns(p, s, 0, <<>>)
  BY DEF Destroy
<1>3. a \in AnswerSet
  BY DEF AnswerSet
<1>4. FollowsAt(program', Append(answers[p], a), n)
  BY <1>1 DEF FollowsAt
<1> QED BY <1>1, <1>2, <1>3, <1>4, SharingReturned

LEMMA SharingStep ==
  ASSUME NPes < MaxRanks, Sharing, [Next]_vars
  PROVE  Sharing'
<1>1. Agreement /\ Inductive /\ Agreement'
  BY AgreementStep DEF Sharing, Agreement
<1>2. ASSUME NEW p \in PEs, Makes(p, StraightCalls), GridsOnly(program')
      PROVE  SharedAnswers(program', answers', PEs \ missed')
  <2>1. PICK n \in 1 .. MaxCalls + 1 :
          /\ Turn(p, n)
          /\ \E c \in IF n <= Len(program) THEN {program[n]} ELSE StraightCalls :
               /\ IsCall(n, c)
               /\ SplitStrided(p, c) \/ Split2d(p, c) \/ Destroy(p, c)
    BY <1>2 DEF Makes
  <2>2. PICK c \in IF n <= Len(program) THEN {program[n]} ELSE StraightCalls :
          IsCall(n, c) /\ (SplitStrided(p, c) \/ Split2d(p, c) \/ Destroy(p, c))
    BY <2>1
  <2>3. StraightCalls \subseteq Calls
    BY DEF StraightCalls
  <2>4. Extends(p, n, c) /\ ProgramOK(program')
    BY <1>1, <2>1, <2>2, <2>3, CallExtends
  <2>5. ProgramStraight(program')
    BY <1>1 DEF Agreement
  <2>6. c.op # "strided"
    BY <1>2, <2>4 DEF Extends, GridsOnly
  <2>7. CASE Split2d(p, c)
    BY <1>2, <2>4, <2>5, <2>7, Split2dShares
  <2>8. CASE Destroy(p, c)
    BY <1>2, <2>4, <2>8, DestroyShares
  <2> QED BY <2>2, <2>6, <2>7, <2>8 DEF SplitStrided
<1>3. CASE Finished \/ UNCHANGED vars
  <2>1. UNCHANGED vars
    BY <1>3 DEF Finished
  <2> QED BY <1>1, <2>1 DEF vars, Sharing
<1> QED BY <1>1, <1>2, <1>3 DEF Next, Sharing

LEMMA SharingInit ==
  ASSUME Init
  PROVE  Sharing
<1>1. Agreement
  BY AgreementInit
<1>2. \A q \in PEs : answers[q] = <<[ret |-> 0, teams |-> <<World>>]>>
  BY DEF Init
<1>3. program = <<[op |-> "world"]>>
  BY DEF Init
<1>4. \A q \in PEs : Len(answers[q]) = 1
  BY <1>2
<1>5. program[1].op = "world"
  BY <1>3
<1>6. \A q \in PEs : \A n \in 1 .. Len(answers[q]) : FollowsAt(program, answers[q], n)
  <2> SUFFICES ASSUME NEW q \in PEs, NEW n \in 1 .. Len(answers[q])
               PROVE  FollowsAt(program, answers[q], n)
    OBVIOUS
  <2>1. n = 1
    <3>1. Len(answers[q]) = 1
      BY <1>4
    <3> DEFINE e == Len(answers[q])
    <3>2. n \in 1 .. e /\ e = 1
      BY <3>1
    <3> HIDE DEF e
    <3> QED BY <3>2
  <2>2. program[n].op # "grid"
    BY <1>5, <2>1
  <2> QED BY <2>2 DEF FollowsAt
<1>7. \A p, q \in PEs : \A n : SameAt(program, answers[p], answers[q], n)
  BY <1>2 DEF SameAt
<1> QED BY <1>1, <1>6, <1>7 DEF Sharing, SharedAnswers

LEMMA SharingImplies ==
  ASSUME Sharing
  PROVE  GridsShareIndex
<1> SUFFICES ASSUME GridsOnly(program), NEW p \in PEs \ missed, NEW q \in PEs \ missed,
                    NEW r \in Held(p), r \in Held(q)
             PROVE  Handle(p, r) = Handle(q, r)
  BY DEF GridsShareIndex, GridsOnly
<1>1. ProgramOK(program) /\ AnswersOK /\ SharedAnswers(program, answers, PEs \ missed)
  BY DEF Sharing, Agreement, Inductive
<1>2. PICK n, k : r = <<n, k>> /\ Lives(program, answers[p], n, k)
  BY <1>1, HeldIs
<1>3. PICK m, l : r = <<m, l>> /\ Lives(program, answers[q], m, l)
  BY <1>1, HeldIs
<1>4. m = n /\ l = k
  BY <1>2, <1>3
<1>5. n \in (1 .. Len(answers[p])) \cap (1 .. Len(answers[q])) /\ k \in Slots(program[n])
  BY <1>2, <1>3, <1>4 DEF Lives
<1>6. At(answers[p], n, k) = At(answers[q], n, k)
  BY <1>1, <1>5 DEF SharedAnswers, SameAt
<1> QED BY <1>2, <1>6 DEF Handle, At

(* An application that divides the world by 2-D splits only finds each     *)
(* team at the same index on all its members, although no PE tells another *)
(* its index: every PE finds its indices free or in use as the others do.  *)
THEOREM GridsAtSameIndex == NPes < MaxRanks => (Spec => []GridsShareIndex)
<1> SUFFICES ASSUME NPes < MaxRanks PROVE Spec => []GridsShareIndex
  OBVIOUS
<1>1. Init => Sharing
  BY SharingInit
<1>2. Sharing /\ [Next]_vars => Sharing'
  BY SharingStep
<1>3. Sharing => GridsShareIndex
  BY SharingImplies
<1> QED BY <1>1, <1>2, <1>3, PTL DEF Spec
=============================================================================
