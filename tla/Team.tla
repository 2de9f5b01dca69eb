-------------------------------- MODULE Team --------------------------------
(***************************************************************************)
(* The teams of shmem_team.cpp.  Each PE keeps a pool of team structures,  *)
(* a mask of the indices in use, and for each index a pointer to a copy of *)
(* the structure in device memory; the device sees the pointers as of the  *)
(* last update_device_state.                                               *)
(*                                                                         *)
(* Creating and destroying teams is collective: the PEs make the same      *)
(* calls in the same order, each with its own handle of the same team.     *)
(* But nothing is exchanged in a call: each PE computes by itself whether  *)
(* it is a member and which index the team gets.  As the PEs share nothing *)
(* the order in which they make a call cannot matter, and is the order of  *)
(* their ranks here.                                                       *)
(*                                                                         *)
(* A pointer is represented by the structure it leads to, and a null       *)
(* pointer by NoTeam.  A team's own copy of its index is left out.         *)
(***************************************************************************)
EXTENDS Integers, Sequences, FiniteSets

CONSTANTS
  NPes,         \* the PEs of the job
  MaxTeams,     \* SHMEM_MAX_TEAMS, 32 in the code
  MaxCalls,     \* collective calls the application makes (bounds the model)
  Fallible      \* the PEs on which the device runtime may fail

ASSUME TeamAssumption ==
  /\ NPes \in 1 .. 1024
  /\ MaxTeams \in Nat \ {0}
  /\ MaxCalls \in Nat

PEs == 0 .. NPes - 1

ASSUME FallibleAssumption == Fallible \subseteq PEs

Indices == 0 .. MaxTeams - 1
World == 0      \* SHMEM_TEAM_WORLD
Invalid == -1   \* SHMEM_TEAM_INVALID
MaxRanks == 1024

Team(start, stride, size, mype) ==
  [start |-> start, stride |-> stride, size |-> size, mype |-> mype]

NoTeam == Team(-1, -1, -1, -1)

VARIABLES
  pe,           \* pe[p]: the mask, the pool and the two tables of pointers
  program,      \* the collective calls so far, in the application's order
  answers,      \* answers[p][n]: what call n returned to p
  missed        \* history: the PEs that could not create a team of theirs

vars == <<pe, program, answers, missed>>

WorldOf(p) == Team(0, 1, NPes, p)

(* Once shmem_init_attr is through.  The world team is call 1. *)
Init ==
  LET only(p) == [i \in Indices |-> IF i = World THEN WorldOf(p) ELSE NoTeam] IN
  /\ pe = [p \in PEs |-> [mask |-> {World}, pool |-> only(p),
                          team_pools |-> only(p), device |-> only(p)]]
  /\ program = <<[op |-> "world"]>>
  /\ answers = [p \in PEs |-> <<[ret |-> 0, teams |-> <<World>>]>>]
  /\ missed = {}

-----------------------------------------------------------------------------
(* What a call does to the state s of one PE.                              *)

(* shmem_team_destroy of a valid team; told says whether the device could  *)
(* be told.                                                                *)
Destroyed(s, i, told) ==
  LET pools == [s.team_pools EXCEPT ![i] = NoTeam] IN
  [s EXCEPT !.mask = @ \ {i}, !.team_pools = pools,
            !.device = IF told THEN pools ELSE @]

Answer(s, team) == [state |-> s, ret |-> 0, team |-> team, fault |-> "none"]
Failure(s, fault) == [state |-> s, ret |-> 1, team |-> Invalid, fault |-> fault]

(* first_free_idx_fetch, when there is one. *)
FirstFree(s) ==
  CHOOSE i \in Indices \ s.mask : \A j \in Indices \ s.mask : i <= j

(* Mutant: a full mask is not noticed. *)
CreationsUnchecked(s, t) ==
  LET i == IF s.mask = Indices THEN Invalid ELSE FirstFree(s)
      made == [s EXCEPT !.mask = @ \cup {i}] IN
  {Answer(made, i)}

(* Mutant: the device is updated before the team's own entry. *)
CreationsEarly(s, t) ==
  LET i == FirstFree(s)
      made == [s EXCEPT !.mask = @ \cup {i}, !.pool[i] = t,
                        !.device = s.team_pools, !.team_pools[i] = t] IN
  IF s.mask = Indices THEN {Failure(s, "full")} ELSE {Answer(made, i)}

(* Mutant: the index of a team that could not be created is kept. *)
CreationsKept(s, t) ==
  LET i == FirstFree(s)
      kept == [s EXCEPT !.mask = @ \cup {i}, !.pool[i] = t]
      made == [kept EXCEPT !.team_pools[i] = t] IN
  IF s.mask = Indices THEN {Failure(s, "full")}
  ELSE {Answer([made EXCEPT !.device = made.team_pools], i), Failure(kept, "device")}

(* A member takes the first free index and makes the team on the host and  *)
(* on the device; what fails there is undone with shmem_team_destroy.      *)
Creations(s, t) ==
  LET i == FirstFree(s)
      kept == [s EXCEPT !.mask = @ \cup {i}, !.pool[i] = t]
      made == [kept EXCEPT !.team_pools[i] = t] IN
  IF s.mask = Indices THEN {Failure(s, "full")}
  ELSE {Answer([made EXCEPT !.device = made.team_pools], i)}
       \cup {Failure(Destroyed(made, i, told), "device") : told \in BOOLEAN}

Strided(start, stride, size) == [start |-> start, stride |-> stride, size |-> size]

(* The child of t, in global ranks; what mype is for a member is below. *)
First(t, a) == t.start + a.start * t.stride
Stride(t, a) == t.stride * a.stride
Last(t, a) == First(t, a) + Stride(t, a) * (a.size - 1)

Acceptable(t, a) ==
  /\ a.start \in 0 .. t.size - 1
  /\ a.size \in 1 .. t.size
  /\ a.stride \in 1 .. MaxRanks - 1
  /\ First(t, a) < NPes
  /\ Last(t, a) < NPes

(* Mutant: a PE beyond the last member joins as well. *)
JoinsOpenEnded(t, a) ==
  t.mype >= First(t, a) /\ (t.mype - First(t, a)) % Stride(t, a) = 0

(* The code takes src_team->mype for the global rank of the PE. *)
Joins(t, a) ==
  /\ t.mype >= First(t, a)
  /\ (t.mype - First(t, a)) % Stride(t, a) = 0
  /\ (t.mype - First(t, a)) \div Stride(t, a) < a.size

Child(t, a) ==
  Team(First(t, a), Stride(t, a), a.size, (t.mype - First(t, a)) \div Stride(t, a))

(* shmem_team_split_strided *)
Splits(s, parent, a) ==
  IF parent \notin s.mask \/ ~ Acceptable(s.pool[parent], a)
  THEN {Failure(s, "none")}
  ELSE IF Joins(s.pool[parent], a) THEN Creations(s, Child(s.pool[parent], a))
  ELSE {Answer(s, Invalid)}

Smaller(m, n) == IF m <= n THEN m ELSE n

(* Mutant: the last row is as long as the others. *)
RowsFull(size, x) ==
  LET r == Smaller(x, size) IN
  {Strided(i * r, 1, r) : i \in 0 .. (size + x - 1) \div x - 1}

(* Mutant: the PEs that fill no row get none. *)
RowsWhole(size, x) ==
  LET r == Smaller(x, size) IN
  {Strided(i * r, 1, r) : i \in 0 .. size \div x - 1}

(* The teams of shmem_team_split_2d along the x axis, for a team of so     *)
(* many PEs: rows of x_range, the last one of what remains.                *)
Rows(size, x) ==
  LET r == Smaller(x, size)
      rows == (size + x - 1) \div x IN
  {Strided(i * r, 1, IF i = rows - 1 /\ size % r # 0 THEN size % r ELSE r) :
     i \in 0 .. rows - 1}

(* Those along the y axis: columns of the PEs x_range apart.  The code     *)
(* asks for as many columns as x_range was before it was clipped.          *)
Columns(size, x) ==
  LET r == Smaller(x, size) IN
  {Strided(i, r, IF i < size % r THEN size \div r + 1 ELSE size \div r) :
     i \in 0 .. x - 1}

(* The splits of the list A in which the PE becomes a member.  There is at *)
(* most one (GridCovers), so that the loops over A create at most one team *)
(* on this PE.                                                             *)
Mine(t, A) == {a \in A : Acceptable(t, a) /\ Joins(t, a)}

Axis(s, parent, A) ==
  IF Mine(s.pool[parent], A) = {} THEN {Answer(s, Invalid)}
  ELSE UNION {Creations(s, Child(s.pool[parent], a)) : a \in Mine(s.pool[parent], A)}

-----------------------------------------------------------------------------
(* The collective calls.  A team is named by the call that made it and by  *)
(* its place in that call's answer.                                        *)

Made(n) ==
  IF program[n].op = "grid" THEN 1 .. 2
  ELSE IF program[n].op = "destroy" THEN {} ELSE {1}

Teams == UNION {{<<n, k>> : k \in Made(n)} : n \in 1 .. Len(program)}

Destroys(r) == [op |-> "destroy", team |-> r]

InUse == {r \in Teams : \A n \in 1 .. Len(program) : program[n] # Destroys(r)}

(* The calls the application may add to the program.  It does not destroy  *)
(* the world team, nor a team it has destroyed before.                     *)
Calls ==
  [op : {"strided"}, parent : InUse,
   args : [start : 0 .. NPes - 1, stride : 1 .. NPes - 1, size : 1 .. NPes]]
  \cup [op : {"grid"}, parent : InUse, x : 1 .. NPes + 1]
  \cup {Destroys(r) : r \in InUse \ {<<1, 1>>}}

(* The PEs the application has asked for in team r, a world or strided.    *)
Size(r) == IF program[r[1]].op = "world" THEN NPes ELSE program[r[1]].args.size

(* The application asks for PEs of the parent: it has to, as the code      *)
(* checks that they are PEs of the world only.                             *)
InParent(c) ==
  \/ c.op # "strided"
  \/ c.parent = <<1, 1>>
  \/ c.args.start + (c.args.size - 1) * c.args.stride < Size(c.parent)

Handle(p, r) == answers[p][r[1]].teams[r[2]]

(* p is the next to make its next call, which is number n. *)
Turn(p, n) ==
  /\ n = Len(answers[p]) + 1
  /\ \A q \in PEs : Len(answers[q]) >= IF q < p THEN n ELSE n - 1

(* Call number n is c: the first PE to make it adds it to the program. *)
IsCall(n, c) ==
  program' = IF n <= Len(program) THEN program ELSE Append(program, c)

(* The call returns to p, which is left in the state s. *)
Returns(p, s, ret, teams) ==
  /\ pe' = [pe EXCEPT ![p] = s]
  /\ answers' = [answers EXCEPT ![p] = Append(@, [ret |-> ret, teams |-> teams])]

Faults(p, faults) ==
  /\ "device" \in faults => p \in Fallible
  /\ missed' = IF faults = {"none"} THEN missed ELSE missed \cup {p}

SplitStrided(p, c) ==
  /\ c.op = "strided"
  /\ \E r \in Splits(pe[p], Handle(p, c.parent), c.args) :
       /\ Returns(p, r.state, r.ret, <<r.team>>)
       /\ Faults(p, {r.fault})

(* The errors of the splits are logged, and the call returns 0. *)
Split2d(p, c) ==
  /\ c.op = "grid"
  /\ LET parent == Handle(p, c.parent)
         size == pe[p].pool[parent].size IN
     IF parent \notin pe[p].mask
     THEN /\ Returns(p, pe[p], 1, <<Invalid, Invalid>>)
          /\ Faults(p, {"none"})
     ELSE \E x \in Axis(pe[p], parent, Rows(size, c.x)) :
          \E y \in Axis(x.state, parent, Columns(size, c.x)) :
            /\ Returns(p, y.state, 0, <<x.team, y.team>>)
            /\ Faults(p, {x.fault, y.fault})

Destroy(p, c) ==
  /\ c.op = "destroy"
  /\ LET i == Handle(p, c.team) IN
     IF i \in pe[p].mask
     THEN \E told \in BOOLEAN :
            /\ told \/ p \in Fallible
            /\ Returns(p, Destroyed(pe[p], i, told), 0, <<>>)
     ELSE Returns(p, pe[p], 0, <<>>)
  /\ UNCHANGED missed

(* The call p makes next: the program's, or a new one from the set New. *)
Makes(p, New) ==
  \E n \in 1 .. MaxCalls + 1 :
    /\ Turn(p, n)
    /\ \E c \in IF n <= Len(program) THEN {program[n]} ELSE New :
         /\ IsCall(n, c)
         /\ SplitStrided(p, c) \/ Split2d(p, c) \/ Destroy(p, c)

(* The application has made its calls on every PE. *)
Finished ==
  /\ \A p \in PEs : Len(answers[p]) = MaxCalls + 1
  /\ UNCHANGED vars

(* The world, and teams of its first PEs: those in which a PE's number is  *)
(* its global rank.                                                        *)
Straight(r) ==
  \/ program[r[1]].op = "world"
  \/ /\ program[r[1]].op = "strided"
     /\ program[r[1]].parent = <<1, 1>>
     /\ program[r[1]].args.start = 0
     /\ program[r[1]].args.stride = 1

StraightCalls ==
  {c \in Calls : c.op = "destroy" \/ (Straight(c.parent) /\ InParent(c))}

Next == (\E p \in PEs : Makes(p, StraightCalls)) \/ Finished

(* The application splits straight teams only. *)
Spec == Init /\ [][Next]_vars

(* It splits any strided team. *)
NestedCalls ==
  {c \in Calls : c.op = "strided" /\ program[c.parent[1]].op # "grid" /\ InParent(c)}

SpecNested == Init /\ [][(\E p \in PEs : Makes(p, NestedCalls)) \/ Finished]_vars

-----------------------------------------------------------------------------

TeamSet == [start : Int, stride : Int, size : Int, mype : Int]
States == [mask : SUBSET Indices, pool : [Indices -> TeamSet],
           team_pools : [Indices -> TeamSet], device : [Indices -> TeamSet]]

(* The index of a team in use on p, when p is in it and has made the call. *)
Holds(p, r) == r[1] <= Len(answers[p]) /\ Handle(p, r) # Invalid

(* The teams p can still use: it has not destroyed them. *)
Held(p) ==
  {r \in Teams : Holds(p, r) /\ \A n \in 1 .. Len(answers[p]) : program[n] # Destroys(r)}

TypeOK ==
  /\ pe \in [PEs -> States]
  /\ \A p \in PEs : Len(answers[p]) \in 1 .. Len(program)
  /\ \A p \in PEs : \A r \in Teams :
       Holds(p, r) => Handle(p, r) \in Indices
  /\ missed \subseteq PEs

(* The indices in use are those of the teams the application still has: no *)
(* two teams share one, and a creation that fails half-way, or a team that *)
(* is destroyed, leaves none behind.                                       *)
IndicesInUse ==
  \A p \in PEs :
    /\ pe[p].mask = {Handle(p, r) : r \in Held(p)}
    /\ \A r, s \in Held(p) : Handle(p, r) = Handle(p, s) => r = s

(* The device knows every team the application can name in a kernel, and   *)
(* knows it as the host does, even if some update of the device failed.    *)
DeviceKnows ==
  \A p \in PEs : \A r \in Held(p) :
    pe[p].device[Handle(p, r)] = pe[p].pool[Handle(p, r)]

(* The application's teams, the pool and the device's table go together:   *)
(* both of these.                                                          *)
TeamsInStep == IndicesInUse /\ DeviceKnows

(* The structure p has for team r. *)
Of(p, r) == pe[p].pool[Handle(p, r)]
Member(t, j) == t.start + j * t.stride

(* The members of a team agree on it: each has its own number in it, and   *)
(* every other member it counts, unless it could not create some team, has *)
(* the same team with that number once it has made the same calls.         *)
MembersAgree ==
  \A p \in PEs : \A r \in Held(p) :
    LET t == Of(p, r) IN
    /\ t.mype \in 0 .. t.size - 1 /\ Member(t, t.mype) = p
    /\ \A j \in 0 .. t.size - 1 :
         LET q == Member(t, j) IN
         /\ q \in PEs
         /\ q \notin missed /\ Len(answers[q]) = Len(answers[p]) =>
              r \in Held(q) /\ Of(q, r) = [t EXCEPT !.mype = j]

(* As long as the application divides the world only by 2-D splits, which  *)
(* leave nobody out, the members of a team also agree on its index, hence  *)
(* on the words of the sync pool their barriers use.                       *)
GridsShareIndex ==
  (\A n \in 1 .. Len(program) : program[n].op \in {"world", "grid", "destroy"}) =>
    \A p, q \in PEs \ missed : \A r \in Held(p) \cap Held(q) :
      Handle(p, r) = Handle(q, r)

Members(t) == {Member(t, j) : j \in 0 .. t.size - 1}

(* A 2-D split of a team just made, whatever the grid's width, gives each  *)
(* of its PEs exactly one row and one column, which have that PE in common *)
(* and no other.                                                           *)
GridCovers ==
  \A p \in PEs : \A r \in Held(p) : r[1] = Len(answers[p]) /\ Straight(r) =>
    LET t == Of(p, r) IN
    \A x \in 1 .. NPes + 1 :
      /\ Cardinality(Mine(t, Rows(t.size, x))) = 1
      /\ Cardinality(Mine(t, Columns(t.size, x))) = 1
      /\ \A a \in Mine(t, Rows(t.size, x)), b \in Mine(t, Columns(t.size, x)) :
           Members(Child(t, a)) \cap Members(Child(t, b)) = {p}

(* Mutant: a PE between two members is translated to the one before it. *)
TranslateNear(src, n, dest) ==
  LET g == Member(src, n)
      m == (g - dest.start) \div dest.stride IN
  IF n > src.size \/ g < dest.start \/ m >= dest.size THEN -1 ELSE m

(* shmem_team_translate_pe, for valid teams. *)
Translate(src, n, dest) ==
  LET g == Member(src, n)
      m == (g - dest.start) \div dest.stride IN
  IF \/ n > src.size
     \/ g < dest.start
     \/ (g - dest.start) % dest.stride # 0
     \/ m >= dest.size
  THEN -1 ELSE m

(* Translating a PE's number to another team and back gives the number,    *)
(* and the number it translates to is that of the same PE.                 *)
RoundTrip ==
  \A p \in PEs : \A r, s \in Held(p) : \A n \in 0 .. Of(p, r).size - 1 :
    LET m == Translate(Of(p, r), n, Of(p, s)) IN
    m # -1 => /\ Member(Of(p, s), m) = Member(Of(p, r), n)
              /\ Translate(Of(p, s), m, Of(p, r)) = n
=============================================================================
