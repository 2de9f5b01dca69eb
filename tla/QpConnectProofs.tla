---------------------------- MODULE QpConnectProofs ----------------------------
(***************************************************************************)
(* What DeviceQpManager::Startup promises: types for every number of       *)
(* ranks, and, for two ranks, that a rank which is told that its           *)
(* connections are ready has them.  For three the code does not keep this  *)
(* promise (run qp_three).                                                 *)
(***************************************************************************)
EXTENDS QpConnect, TLAPS

-----------------------------------------------------------------------------
(* Types.                                                                  *)

Local == <<has, pc, created, waited>>

LocalTyped ==
  /\ has \in [Ranks -> SUBSET Parts] /\ pc \in [Ranks -> Places]
  /\ created \in [Ranks -> BOOLEAN] /\ waited \in [Ranks -> 0 .. SocketWait + QpWait]

SharedTyped ==
  /\ listening \in [Ranks -> {"no", "closed", "open", "other"}]
  /\ channel \subseteq Pairs /\ dialled \subseteq Pairs /\ fd \subseteq channel
  /\ qp \in [Types -> SUBSET Pairs] /\ up \in [Types -> SUBSET Pairs]
  /\ table \subseteq Ranks /\ broke \in BOOLEAN

LEMMA Typed == TypeOK <=> LocalTyped /\ SharedTyped
BY DEF TypeOK, LocalTyped, SharedTyped

LEMMA WaitsAdd ==
  ASSUME NEW n \in Nat, n < SocketWait \/ n < QpWait
  PROVE  n + 1 \in 0 .. SocketWait + QpWait
BY QpAssumption

LEMMA GotoTyped ==
  ASSUME LocalTyped, NEW r \in Ranks, NEW p \in Places, Goto(r, p)
  PROVE  LocalTyped'
<1>1. SocketWait + QpWait \in Nat
  BY QpAssumption
<1> QED BY <1>1 DEF LocalTyped, Goto

LEMMA PeersTyped ==
  ASSUME NEW r \in Ranks
  PROVE  Larger(r) \subseteq Ranks /\ Smaller(r) \subseteq Ranks /\ Peers(r) \subseteq Ranks
BY DEF Larger, Smaller, Peers

LEMMA JoinedTyped ==
  ASSUME NEW r \in Ranks, NEW S \in SUBSET Ranks, NEW t
  PROVE  Joined(r, t, S) \subseteq Pairs
BY DEF Joined, Pairs

LEMMA JoinTyped ==
  ASSUME SharedTyped, NEW r \in Ranks, NEW S \in SUBSET Ranks, NEW t \in Types
  PROVE  [up EXCEPT ![t] = @ \cup Joined(r, t, S)] \in [Types -> SUBSET Pairs]
<1>1. Joined(r, t, S) \subseteq Pairs
  BY JoinedTyped
<1> QED BY <1>1 DEF SharedTyped

LEMMA CloseTyped ==
  ASSUME SharedTyped, NEW r \in Ranks, NEW S \in SUBSET Ranks,
         NEW U \in [Types -> SUBSET Pairs], Close(r, S, U)
  PROVE  /\ channel' \subseteq Pairs /\ dialled' \subseteq Pairs /\ fd' \subseteq channel'
         /\ qp' \in [Types -> SUBSET Pairs] /\ up' \in [Types -> SUBSET Pairs]
BY DEF SharedTyped, Close, Without

(* An operator of the opening phases changes the rank's own state only. *)
LEMMA PassTyped ==
  ASSUME TypeOK, NEW r \in Ranks, NEW p \in Places, broke' \in BOOLEAN,
         Passes(r, p) \/ \E x \in Parts : Gets(r, x, p)
  PROVE  TypeOK'
<1>1. /\ has' \in [Ranks -> SUBSET Parts] /\ pc' \in [Ranks -> Places]
      /\ UNCHANGED Network
  BY DEF TypeOK, Passes, Gets, Network
<1> QED BY <1>1 DEF TypeOK, Network

LEMMA OpensTyped ==
  ASSUME TypeOK, NEW r \in Ranks, Opens(r) \/ OpenDeviceFails(r)
  PROVE  TypeOK'
<1>1. broke' \in BOOLEAN
  BY DEF TypeOK, Opens, OpenDeviceFails, Fault, LoadLibrary, RaRdevGetHandle, OpenTsd, RaInit,
    RetireDeviceIp, RaRdevInit, OpenDevice, RegisterMemoryRegion, Prepare, Wild, Killed
<1>2. \E p \in Places : Passes(r, p) \/ \E x \in Parts : Gets(r, x, p)
  <2>1. CASE LoadLibrary(r)
    BY <2>1 DEF LoadLibrary, Places, Opening, Parts
  <2>2. CASE RaRdevGetHandle(r)
    BY <2>2 DEF RaRdevGetHandle, Places, Opening, Parts
  <2>3. CASE OpenTsd(r) \/ RaInit(r)
    BY <2>3 DEF OpenTsd, RaInit, Places, Opening
  <2>4. CASE RetireDeviceIp(r)
    BY <2>4 DEF RetireDeviceIp, Places, Opening, Parts
  <2>5. CASE RaRdevInit(r) \/ OpenDevice(r)
    BY <2>5 DEF RaRdevInit, OpenDevice, Places, Opening, Parts
  <2>6. CASE RegisterMemoryRegion(r)
    BY <2>6 DEF RegisterMemoryRegion, Places, Parts
  <2>7. CASE Prepare(r)
    BY <2>7 DEF Prepare, Wild, Places
  <2>8. CASE Killed(r)
    BY <2>8 DEF Killed, Places
  <2>9. CASE OpenDeviceFails(r)
    BY <2>9 DEF OpenDeviceFails, Places, Opening
  <2> QED BY <2>1, <2>2, <2>3, <2>4, <2>5, <2>6, <2>7, <2>8, <2>9 DEF Opens
<1> QED BY <1>1, <1>2, PassTyped

(* Startup returns an error. *)
LEMMA FailTyped ==
  ASSUME TypeOK, NEW r \in Ranks, broke' \in BOOLEAN,
         FailServer(r) \/ FailClient(r) \/ (pc[r] \in QpPhases /\ FailQps(r))
  PROVE  TypeOK'
<1>1. LocalTyped /\ SharedTyped
  BY Typed
<1>2. ASSUME NEW p \in Places, Goto(r, p),
             UNCHANGED <<listening, channel, dialled, fd, qp, up, table>>
      PROVE  TypeOK'
  <2>1. LocalTyped'
    BY <1>1, <1>2, GotoTyped
  <2> QED BY <1>1, <1>2, <2>1, Typed DEF TypeOK, SharedTyped, LocalTyped
<1>3. CASE FailServer(r)
  BY <1>2, <1>3 DEF FailServer, Places
<1>4. CASE FailClient(r)
  <2>1. LocalTyped'
    BY <1>1, <1>4, GotoTyped DEF FailClient, Places
  <2>2. SharedTyped'
    <3>1. Smaller(r) \subseteq Ranks /\ up \in [Types -> SUBSET Pairs]
      BY <1>1, PeersTyped DEF SharedTyped
    <3>2. Close(r, Smaller(r), up) /\ UNCHANGED <<listening, table>>
      BY <1>4 DEF FailClient
    <3>3. /\ channel' \subseteq Pairs /\ dialled' \subseteq Pairs /\ fd' \subseteq channel'
          /\ qp' \in [Types -> SUBSET Pairs] /\ up' \in [Types -> SUBSET Pairs]
      BY <1>1, <3>1, <3>2, CloseTyped
    <3> QED BY <1>1, <3>2, <3>3 DEF SharedTyped
  <2> QED BY <2>1, <2>2 DEF TypeOK, LocalTyped, SharedTyped
<1>5. CASE pc[r] \in ServerPhases /\ FailQps(r)
  <2>1. After[pc[r]] \in Places
    BY <1>5 DEF ServerPhases, After, Places, QpPhases
  <2> QED BY <1>2, <1>5, <2>1 DEF FailQps
<1> QED BY <1>3, <1>4, <1>5 DEF FailQps

LEMMA ListenTyped ==
  ASSUME TypeOK, NEW r \in Ranks, Listen(r) \/ Allow(r) \/ Dial(r)
  PROVE  TypeOK'
<1>1. LocalTyped /\ SharedTyped
  BY Typed
<1>2. CASE (Listen(r) \/ Dial(r)) /\ Fault(r) /\ (FailServer(r) \/ FailClient(r))
  BY <1>2, FailTyped DEF Fault
<1>3. CASE \/ Allow(r)
           \/ /\ Listen(r) \/ Dial(r)
              /\ ~ (Fault(r) /\ (FailServer(r) \/ FailClient(r)))
  <2>1. PICK p \in {"dial", "allow", "accept", "failed", "started", "meet"} : Goto(r, p)
    BY <1>3 DEF Listen, Allow, Dial
  <2>2. LocalTyped'
    BY <1>1, <2>1, GotoTyped DEF Places
  <2>3. {r} \X Larger(r) \subseteq Pairs /\ {r} \X Smaller(r) \subseteq Pairs
    BY PeersTyped DEF Pairs
  <2>4. SharedTyped'
    BY <1>1, <1>3, <2>3 DEF SharedTyped, Listen, Allow, Dial, Fault
  <2> QED BY <2>2, <2>4 DEF TypeOK, LocalTyped, SharedTyped
<1> QED BY <1>2, <1>3

LEMMA SocketsTyped ==
  ASSUME TypeOK, NEW r \in Ranks, GetSockets(r) \/ LoseSockets(r)
  PROVE  TypeOK'
<1>1. LocalTyped /\ SharedTyped
  BY Typed
<1>2. CASE LoseSockets(r)
  BY <1>2, FailTyped DEF LoseSockets, Fault
<1>3. CASE GetSockets(r)
  <2>1. PICK S \in (SUBSET Available(r)) \ {{}} :
          /\ fd' = fd \cup ({r} \X S)
          /\ \/ \E p \in {"serverAi", "clientAi"} : Goto(r, p)
             \/ UNCHANGED Local
    BY <1>3 DEF GetSockets, Local
  <2>2. LocalTyped'
    BY <1>1, <2>1, GotoTyped DEF Places, QpPhases, ServerPhases, ClientPhases,
      LocalTyped, Local
  <2>3. {r} \X S \subseteq channel
    BY <2>1 DEF Available
  <2>4. SharedTyped'
    BY <1>1, <1>3, <2>1, <2>3 DEF SharedTyped, GetSockets
  <2> QED BY <2>2, <2>4 DEF TypeOK, LocalTyped, SharedTyped
<1> QED BY <1>2, <1>3

LEMMA TypeTyped ==
  ASSUME NEW r, pc[r] \in QpPhases
  PROVE  Type(pc[r]) \in Types /\ After[pc[r]] \in Places
BY DEF Type, Types, After, Places, QpPhases, ServerPhases, ClientPhases

LEMMA QpsTyped ==
  ASSUME TypeOK, NEW r \in Ranks,
         CreateQps(r) \/ CreateSome(r) \/ QpsReady(r) \/ QpsLost(r)
  PROVE  TypeOK'
<1>1. LocalTyped /\ SharedTyped
  BY Typed
<1> DEFINE t == Type(pc[r])
<1>2. t \in Types /\ After[pc[r]] \in Places /\ Peers(r) \subseteq Ranks
  BY TypeTyped, PeersTyped DEF CreateQps, CreateSome, QpsReady, QpsLost
<1>3. ASSUME NEW S \in SUBSET Peers(r)
      PROVE  /\ [qp EXCEPT ![t] = @ \cup ({r} \X S)] \in [Types -> SUBSET Pairs]
             /\ [up EXCEPT ![t] = @ \cup Joined(r, t, S)] \in [Types -> SUBSET Pairs]
  <2>1. S \in SUBSET Ranks
    BY <1>2
  <2>2. {r} \X S \subseteq Pairs
    BY <2>1 DEF Pairs
  <2> HIDE DEF t
  <2>3. [up EXCEPT ![t] = @ \cup Joined(r, t, S)] \in [Types -> SUBSET Pairs]
    BY <1>1, <1>2, <2>1, JoinTyped
  <2> QED BY <1>1, <2>2, <2>3 DEF SharedTyped
<1>4. CASE CreateQps(r)
  <2>1. LocalTyped'
    <3>1. 0 \in 0 .. SocketWait + QpWait
      BY QpAssumption
    <3> QED BY <1>1, <1>4, <3>1 DEF LocalTyped, CreateQps
  <2>2. /\ qp' = [qp EXCEPT ![t] = @ \cup ({r} \X Peers(r))]
        /\ up' = [up EXCEPT ![t] = @ \cup Joined(r, t, Peers(r))]
        /\ UNCHANGED <<listening, channel, dialled, fd, table, broke>>
    BY <1>4 DEF CreateQps
  <2> HIDE DEF t
  <2>3. qp' \in [Types -> SUBSET Pairs] /\ up' \in [Types -> SUBSET Pairs]
    BY <1>3, <2>2
  <2>4. SharedTyped'
    BY <1>1, <2>2, <2>3 DEF SharedTyped
  <2> QED BY <2>1, <2>4 DEF TypeOK, LocalTyped, SharedTyped
<1>5. CASE CreateSome(r)
  <2>1. PICK S \in SUBSET Peers(r) :
          LET U == [up EXCEPT ![t] = @ \cup Joined(r, t, S)] IN
          \/ /\ Goto(r, After[pc[r]])
             /\ qp' = [qp EXCEPT ![t] = @ \cup ({r} \X S)] /\ up' = U
             /\ UNCHANGED <<channel, dialled, fd>>
          \/ Goto(r, "failed") /\ Close(r, Smaller(r), U)
    BY <1>5 DEF CreateSome
  <2> DEFINE U == [up EXCEPT ![t] = @ \cup Joined(r, t, S)]
  <2>2. U \in [Types -> SUBSET Pairs]
    BY <1>3
  <2>3. LocalTyped'
    BY <1>1, <1>2, <2>1, GotoTyped DEF Places
  <2> HIDE DEF U
  <2>4. /\ channel' \subseteq Pairs /\ dialled' \subseteq Pairs /\ fd' \subseteq channel'
        /\ qp' \in [Types -> SUBSET Pairs] /\ up' \in [Types -> SUBSET Pairs]
    <3>1. CASE Close(r, Smaller(r), U)
      BY <1>1, <2>2, <3>1, CloseTyped, PeersTyped
    <3>2. CASE /\ qp' = [qp EXCEPT ![t] = @ \cup ({r} \X S)] /\ up' = U
               /\ UNCHANGED <<channel, dialled, fd>>
      <4>1. qp' \in [Types -> SUBSET Pairs]
        BY <1>3, <3>2
      <4> QED BY <1>1, <2>2, <3>2, <4>1 DEF SharedTyped
    <3> QED BY <2>1, <3>1, <3>2 DEF U
  <2>5. SharedTyped'
    BY <1>1, <1>5, <2>4 DEF SharedTyped, CreateSome, Fault
  <2> QED BY <2>3, <2>5 DEF TypeOK, LocalTyped, SharedTyped
<1>6. CASE QpsReady(r) /\ ~ (t = "aiCore" /\ ~ Complete(r))
  <2>1. LocalTyped'
    BY <1>1, <1>2, <1>6, GotoTyped DEF QpsReady
  <2>2. SharedTyped'
    BY <1>1, <1>6 DEF SharedTyped, QpsReady
  <2> QED BY <2>1, <2>2 DEF TypeOK, LocalTyped, SharedTyped
<1>7. CASE QpsLost(r) \/ (QpsReady(r) /\ t = "aiCore" /\ ~ Complete(r))
  <2>1. pc[r] \in QpPhases /\ FailQps(r) /\ broke' \in BOOLEAN
    BY <1>1, <1>7 DEF QpsLost, QpsReady, Fault, SharedTyped
  <2> QED BY <2>1, FailTyped
<1> QED BY <1>4, <1>5, <1>6, <1>7

LEMMA TimeTyped ==
  ASSUME TypeOK, Tick \/ \E r \in Ranks : TimeOut(r)
  PROVE  TypeOK'
<1>1. LocalTyped /\ SharedTyped
  BY Typed
<1>2. CASE \E r \in Ranks : TimeOut(r)
  BY <1>1, <1>2, FailTyped DEF TimeOut, SharedTyped
<1>3. CASE Tick
  <2>1. waited' \in [Ranks -> 0 .. SocketWait + QpWait]
    <3>1. ASSUME NEW r \in Ranks
          PROVE  /\ waited[r] \in 0 .. SocketWait + QpWait
                 /\ Blocked(r) => waited[r] + 1 \in 0 .. SocketWait + QpWait
      <4>1. waited[r] \in 0 .. SocketWait + QpWait /\ waited[r] \in Nat
        BY <1>1, QpAssumption DEF LocalTyped
      <4> QED BY <4>1, WaitsAdd DEF Blocked, Limit
    <3>2. waited' = [r \in Ranks |-> IF Blocked(r) THEN waited[r] + 1 ELSE waited[r]]
      BY <1>3 DEF Tick
    <3> QED BY <3>1, <3>2
  <2> QED BY <1>1, <1>3, <2>1 DEF TypeOK, LocalTyped, SharedTyped, Tick
<1> QED BY <1>2, <1>3

LEMMA ShutdownTyped ==
  ASSUME TypeOK, NEW r \in Ranks, Shutdown(r)
  PROVE  TypeOK'
<1>1. LocalTyped /\ SharedTyped
  BY Typed
<1>2. /\ channel' \subseteq Pairs /\ dialled' \subseteq Pairs /\ fd' \subseteq channel'
      /\ qp' \in [Types -> SUBSET Pairs] /\ up' \in [Types -> SUBSET Pairs]
  <2>1. Close(r, Ranks, up) /\ up \in [Types -> SUBSET Pairs]
    BY <1>1 DEF Shutdown, SharedTyped
  <2> QED BY <1>1, <2>1, CloseTyped
<1>3. listening' \in [Ranks -> {"no", "closed", "open", "other"}]
  BY <1>1 DEF Shutdown, ServerSocketGone, SharedTyped
<1>4. LocalTyped' /\ table' \subseteq Ranks /\ broke' \in BOOLEAN
  BY <1>1 DEF Shutdown, LocalTyped, SharedTyped, Places
<1> QED BY <1>2, <1>3, <1>4 DEF TypeOK, LocalTyped

LEMMA InitTyped == Init => TypeOK
<1> SUFFICES ASSUME Init PROVE TypeOK
  OBVIOUS
<1>1. 0 \in 0 .. SocketWait + QpWait
  BY QpAssumption
<1>2. LocalTyped
  BY <1>1 DEF Init, LocalTyped, Places, Opening
<1>3. SharedTyped
  BY DEF Init, SharedTyped
<1> QED BY <1>2, <1>3, Typed

LEMMA StepTyped == TypeOK /\ [Next]_vars => TypeOK'
<1> SUFFICES ASSUME TypeOK, [Next]_vars PROVE TypeOK'
  OBVIOUS
<1>1. CASE UNCHANGED vars
  BY <1>1 DEF TypeOK, vars
<1>2. CASE Tick
  BY <1>2, TimeTyped
<1>3. ASSUME NEW r \in Ranks, Step(r) \/ Break(r) \/ Shutdown(r)
      PROVE  TypeOK'
  BY <1>3, OpensTyped, ListenTyped, SocketsTyped, QpsTyped, TimeTyped, ShutdownTyped, Zenon
     DEF Step, Break
<1> QED BY <1>1, <1>2, <1>3 DEF Next, Finished

(* Whatever the number of ranks, the sockets of a rank are sockets of      *)
(* channels it has, and no wait lasts longer than its limit.               *)
THEOREM TypeCorrect == Spec => []TypeOK
<1> QED BY InitTyped, StepTyped, PTL DEF Spec

-----------------------------------------------------------------------------
(* Two ranks, 0 the server and 1 the client.                               *)

(* Rank r has got to one of these places only while nothing has failed.    *)
Joining(r) ==
  IF r = 0 THEN {"accept", "serverAi", "serverStars", "dial", "started"}
  ELSE {"meet", "clientAi", "clientStars", "started"}

Beyond(r) ==
  {"prepare", "listen"} \cup Joining(r) \cup (IF r = 0 THEN {"allow"} ELSE {"dial"})

(* It has all it gets from a phase of queue pairs of type t. *)
Past(r, t) ==
  IF r = 0 THEN IF t = "aiCore" THEN {"serverStars", "dial", "started"} ELSE {"dial", "started"}
  ELSE IF t = "aiCore" THEN {"clientStars", "started"} ELSE {"started"}

(* Its end of the queue pair of type t exists. *)
Ready(r, t) ==
  \/ pc[r] \in Past(r, t)
  \/ pc[r] \in QpPhases /\ Type(pc[r]) = t /\ created[r]

Held(r) ==
  /\ pc[r] = "open" => "library" \in has[r]
  /\ pc[r] \in {"manager", "region"} \cup Beyond(r) => "rdev" \in has[r]
  /\ pc[r] \in {"region"} \cup Beyond(r) => "manager" \in has[r]
  /\ pc[r] \in Beyond(r) => "region" \in has[r]

(* The state of rank r, whose peer is o. *)
Along(r, o) ==
  /\ pc[r] \in Opening \cup Beyond(r)
  /\ waited[r] = 0
  /\ created[r] => pc[r] \in QpPhases
  /\ Held(r)
  /\ pc[r] \in Joining(r) => /\ <<r, o>> \in channel
                             /\ r = 0 => listening[0] = "open"
                             /\ r = 1 => <<1, 0>> \in dialled
  /\ r = 0 /\ pc[0] = "allow" => listening[0] = "closed"
  /\ pc[r] \notin Joining(r) \/ pc[r] \in {"accept", "meet"} => <<r, o>> \notin fd
  /\ \A t \in Types : /\ <<r, o>> \in qp[t] <=> Ready(r, t)
                      /\ pc[r] \in Past(r, t) => <<r, o>> \in up[t]
                      /\ <<r, o>> \in up[t] <=> <<r, o>> \in qp[t] /\ <<o, r>> \in qp[t]
  /\ pc[r] \in Past(r, "aiCore") => r \in table

Underway == Along(0, 1) /\ Along(1, 0)

(* When a rank shuts down both have started. *)
Over == \A r \in {0, 1} :
  pc[r] \in {"started", "closed"} /\ (pc[r] = "started" => Connected(r))

PairInv == TypeOK /\ (broke \/ Underway \/ Over)

LEMMA TwoRanks ==
  ASSUME N = 2
  PROVE  /\ Ranks = {0, 1}
         /\ Larger(0) = {1} /\ Smaller(0) = {} /\ Larger(1) = {} /\ Smaller(1) = {0}
<1>1. Ranks = {0, 1}
  BY DEF Ranks
<1> QED BY <1>1 DEF Larger, Smaller

(* No step takes the second of two ranks to a place of the first only. *)
LEMMA PlaceOf ==
  ASSUME N = 2, NEW r \in {0, 1}, NEW o, Along(r, o)
  PROVE  /\ pc[r] \in {"accept", "allow"} \cup ServerPhases => r = 0
         /\ pc[r] \in {"meet"} \cup ClientPhases => r = 1
         /\ pc[r] \in QpPhases \cup {"accept", "meet"} => Peers(r) = {1 - r}
         /\ pc[r] \notin {"failed", "closed", "crashed"}
<1>1. CASE r = 0
  BY <1>1, TwoRanks DEF Along, Opening, Beyond, Joining, ServerPhases, ClientPhases, QpPhases, Peers
<1>2. CASE r = 1
  BY <1>2, TwoRanks DEF Along, Opening, Beyond, Joining, ServerPhases, ClientPhases, QpPhases, Peers
<1> QED BY <1>1, <1>2

(* As long as nothing has failed and both ranks are on their way no wait   *)
(* lasts a minute: whenever one rank waits the other can go on.            *)
LEMMA NobodyWaits ==
  ASSUME N = 2, TypeOK, Underway
  PROVE  ~ Tick
<1> SUFFICES ASSUME NEW r \in {0, 1}, NEW o \in {0, 1}, o = 1 - r, Blocked(r),
                    Ended(o) \/ Blocked(o)
             PROVE  FALSE
  BY TwoRanks DEF Tick
<1>1. Along(r, o) /\ Along(o, r)
  BY DEF Underway
<1>2. pc[o] \in {"started"} \/ (InWait(o) /\ Blocked(o))
  BY <1>1, PlaceOf DEF Ended, Blocked
<1>3. CASE pc[r] \in {"accept", "meet"}
  <2>1. o \in Available(r) => FALSE
    BY <1>3 DEF Blocked
  <2>2. pc[o] \in Joining(o)
    <3>1. CASE r = 0
      BY <1>1, <1>2, <3>1, PlaceOf DEF InWait, Joining, QpPhases, ServerPhases, ClientPhases
    <3>2. CASE r = 1
      BY <1>1, <1>2, <3>2, PlaceOf DEF InWait, Joining, QpPhases, ServerPhases, ClientPhases
    <3> QED BY <3>1, <3>2
  <2>3. Peers(r) = {o} /\ pc[r] \in Joining(r)
    BY <1>1, <1>3, PlaceOf DEF Joining
  <2>4. <<r, o>> \in channel \ fd /\ (Linked(r, o) \/ Linked(o, r))
    BY <1>1, <1>3, <2>2, <2>3 DEF Along, Linked
  <2> QED BY <2>1, <2>3, <2>4 DEF Available
<1>4. CASE pc[r] \in QpPhases /\ created[r]
  <2> DEFINE t == Type(pc[r])
  <2>1. t \in Types /\ Peers(r) = {o} /\ <<r, o>> \notin up[t] /\ <<r, o>> \in qp[t]
    BY <1>1, <1>4, TypeTyped, PlaceOf DEF Blocked, AllUp, Along, Ready
  <2>2. <<o, r>> \notin qp[t] /\ ~ Ready(o, t)
    BY <1>1, <2>1 DEF Along
  <2>3. pc[o] \notin {"accept", "meet"}
    <3>1. SUFFICES ASSUME pc[o] \in {"accept", "meet"} PROVE FALSE
      OBVIOUS
    <3>2. Available(o) = {} /\ Peers(o) = {r}
      BY <1>1, <1>2, <3>1, PlaceOf DEF Blocked
    <3>3. pc[r] \in Joining(r) /\ pc[o] \in Joining(o)
      BY <1>1, <1>4, <3>1, PlaceOf DEF Joining, QpPhases, ServerPhases, ClientPhases
    <3>4. <<o, r>> \in channel \ fd /\ (Linked(r, o) \/ Linked(o, r))
      BY <1>1, <3>1, <3>3 DEF Along, Linked
    <3> QED BY <3>2, <3>4 DEF Available
  <2>4. pc[o] # "started"
    BY <2>1, <2>2 DEF Ready, Past, Types
  <2>5. pc[o] \in QpPhases /\ created[o] /\ Blocked(o)
    BY <1>2, <2>3, <2>4 DEF InWait
  <2>6. Type(pc[o]) # t
    BY <2>2, <2>5 DEF Ready
  <2>7. CASE t = "aiCore"
    <3>1. pc[o] \in Past(o, "aiCore")
      BY <1>1, <2>5, <2>6, <2>7, PlaceOf DEF Type, Past, QpPhases, ServerPhases, ClientPhases
    <3> QED BY <2>2, <2>7, <3>1 DEF Ready
  <2>8. CASE t = "stars"
    <3>1. pc[r] \in Past(r, "aiCore") /\ Type(pc[o]) = "aiCore" /\ Peers(o) = {r}
      BY <1>1, <1>4, <2>5, <2>6, <2>8, PlaceOf
      DEF Type, Past, QpPhases, ServerPhases, ClientPhases
    <3>2. <<r, o>> \in up["aiCore"] /\ "aiCore" \in Types
      BY <1>1, <3>1 DEF Along, Types
    <3>3. <<o, r>> \in up["aiCore"]
      BY <1>1, <3>2 DEF Along
    <3> QED BY <2>5, <3>1, <3>3 DEF Blocked, AllUp, QpPhases, ServerPhases, ClientPhases
  <2> QED BY <2>1, <2>7, <2>8 DEF Types
<1> QED BY <1>3, <1>4 DEF Blocked, InWait

(* What a step of rank r does not change for its peer. *)
LEMMA PeerKeeps ==
  ASSUME NEW r \in {0, 1}, NEW o \in {0, 1}, o = 1 - r, Along(o, r),
         has'[o] = has[o], pc'[o] = pc[o], created'[o] = created[o], waited'[o] = waited[o],
         o = 0 => listening'[0] = listening[0],
         <<o, r>> \in channel => <<o, r>> \in channel',
         o = 1 /\ <<1, 0>> \in dialled => <<1, 0>> \in dialled',
         <<o, r>> \notin fd => <<o, r>> \notin fd',
         \A t \in Types : /\ <<o, r>> \in qp'[t] <=> <<o, r>> \in qp[t]
                          /\ <<o, r>> \in up[t] => <<o, r>> \in up'[t]
                          /\ <<o, r>> \in up'[t] <=> <<o, r>> \in qp'[t] /\ <<r, o>> \in qp'[t],
         o \in table => o \in table'
  PROVE  Along(o, r)'
<1>1. \A t \in Types : Ready(o, t)' <=> Ready(o, t)
  BY DEF Ready
<1>2. Held(o)'
  BY DEF Along, Held
<1>3. /\ pc'[o] \in Opening \cup Beyond(o) /\ waited'[o] = 0
      /\ created'[o] => pc'[o] \in QpPhases
  BY DEF Along
<1>4. /\ pc'[o] \in Joining(o) => /\ <<o, r>> \in channel'
                                  /\ o = 0 => listening'[0] = "open"
                                  /\ o = 1 => <<1, 0>> \in dialled'
      /\ o = 0 /\ pc'[0] = "allow" => listening'[0] = "closed"
      /\ pc'[o] \notin Joining(o) \/ pc'[o] \in {"accept", "meet"} => <<o, r>> \notin fd'
  BY DEF Along
<1>5. \A t \in Types : /\ <<o, r>> \in qp'[t] <=> Ready(o, t)'
                       /\ pc'[o] \in Past(o, t) => <<o, r>> \in up'[t]
                       /\ <<o, r>> \in up'[t] <=> <<o, r>> \in qp'[t] /\ <<r, o>> \in qp'[t]
  BY <1>1 DEF Along
<1>6. pc'[o] \in Past(o, "aiCore") => o \in table'
  BY DEF Along
<1> QED BY <1>2, <1>3, <1>4, <1>5, <1>6 DEF Along

(* A rank goes from one place without queue pairs to another. *)
LEMMA PlacesKeep ==
  ASSUME N = 2, TypeOK, Underway, NEW r \in {0, 1}, NEW p \in Opening \cup Beyond(r),
         pc' = [pc EXCEPT ![r] = p], UNCHANGED <<created, waited, qp, up, table>>,
         p \notin QpPhases, pc[r] \notin QpPhases,
         \A o \in {0, 1} \ {r} : has'[o] = has[o] /\ (o = 0 => listening'[0] = listening[0]),
         Held(r)', channel \subseteq channel', dialled \subseteq dialled', UNCHANGED fd,
         p \in Joining(r) => <<r, 1 - r>> \in channel',
         r = 0 /\ p \in Joining(0) => listening'[0] = "open",
         r = 1 /\ p \in Joining(1) => <<1, 0>> \in dialled',
         r = 0 /\ p = "allow" => listening'[0] = "closed",
         p \in {"accept", "meet"} \/ p \notin Joining(r) => pc[r] \notin Joining(r),
         \A t \in Types : p \in Past(r, t) <=> pc[r] \in Past(r, t)
  PROVE  Underway'
<1> DEFINE o == 1 - r
<1>1. o \in {0, 1} /\ o # r /\ Along(r, o) /\ Along(o, r)
  BY DEF Underway
<1>2. Along(o, r)'
  <2>1. /\ pc'[o] = pc[o] /\ has'[o] = has[o] /\ (o = 0 => listening'[0] = listening[0])
    BY <1>1, TwoRanks DEF TypeOK
  <2>2. \A t \in Types : <<o, r>> \in up[t] <=> <<o, r>> \in qp[t] /\ <<r, o>> \in qp[t]
    BY <1>1 DEF Along
  <2> HIDE DEF o
  <2> QED BY <1>1, <2>1, <2>2, PeerKeeps DEF o
<1>3. Along(r, o)'
  <2>1. pc'[r] = p
    BY TwoRanks DEF TypeOK
  <2>2. \A t \in Types : Ready(r, t)' <=> Ready(r, t)
    BY <2>1 DEF Ready
  <2>3. waited'[r] = 0 /\ ~ created'[r]
    BY <1>1 DEF Along
  <2>4. /\ p \notin Joining(r) \/ p \in {"accept", "meet"} => <<r, o>> \notin fd'
    BY <1>1 DEF Along
  <2>5. \A t \in Types : /\ <<r, o>> \in qp'[t] <=> Ready(r, t)'
                         /\ p \in Past(r, t) => <<r, o>> \in up'[t]
                         /\ <<r, o>> \in up'[t] <=> <<r, o>> \in qp'[t] /\ <<o, r>> \in qp'[t]
    BY <1>1, <2>2 DEF Along
  <2>6. p \in Past(r, "aiCore") => r \in table'
    BY <1>1 DEF Along, Types
  <2> QED BY <2>1, <2>3, <2>4, <2>5, <2>6 DEF Along
<1> QED BY <1>1, <1>2, <1>3 DEF Underway

LEMMA OpensKeep ==
  ASSUME N = 2, TypeOK, Underway, NEW r \in {0, 1}, Opens(r) \/ OpenDeviceFails(r), ~ broke'
  PROVE  Underway'
<1>1. Along(r, 1 - r) /\ Held(r) /\ pc[r] \in Opening \cup Beyond(r)
  BY DEF Underway, Along
<1>2. \A q \in Ranks : pc[q] # "crashed"
  BY TwoRanks, PlaceOf DEF Underway
<1>3. pc[r] \in Opening \cup {"prepare"} /\ UNCHANGED Network
  BY <1>2 DEF Opens, OpenDeviceFails, LoadLibrary, RaRdevGetHandle, OpenTsd, RaInit, RetireDeviceIp,
    RaRdevInit, OpenDevice, RegisterMemoryRegion, Prepare, Wild, Killed, Gets, Passes, Opening
<1>4. PICK p \in Opening \cup {"prepare", "listen"} :
        /\ pc' = [pc EXCEPT ![r] = p]
        /\ \A q \in {0, 1} \ {r} : has'[q] = has[q]
        /\ Held(r)'
  <2>1. CASE LoadLibrary(r)
    BY <2>1, TwoRanks DEF LoadLibrary, Gets, Passes, Fault, Held, TypeOK, Opening, Beyond, Joining
  <2>2. CASE RaRdevGetHandle(r)
    BY <1>1, <2>2, TwoRanks
    DEF RaRdevGetHandle, Gets, Passes, Fault, Held, TypeOK, Opening, Beyond, Joining
  <2>3. CASE OpenTsd(r) \/ RaInit(r)
    BY <2>3, TwoRanks DEF OpenTsd, RaInit, Passes, Fault, Held, TypeOK, Opening, Beyond, Joining
  <2>4. CASE RetireDeviceIp(r) \/ RaRdevInit(r)
    BY <2>4, TwoRanks
    DEF RetireDeviceIp, RaRdevInit, Gets, Held, TypeOK, Opening, Beyond, Joining
  <2>5. CASE OpenDevice(r)
    BY <1>1, <2>5, TwoRanks DEF OpenDevice, Gets, Held, TypeOK, Opening, Beyond, Joining
  <2>6. CASE RegisterMemoryRegion(r)
    BY <1>1, <2>6, TwoRanks
    DEF RegisterMemoryRegion, Gets, Passes, Fault, Held, TypeOK, Opening, Beyond, Joining
  <2>7. CASE Prepare(r)
    BY <1>1, <2>7, TwoRanks DEF Prepare, Passes, Fault, Held, TypeOK, Opening, Beyond, Joining
  <2>8. CASE Killed(r)
    BY <1>2, <2>8 DEF Killed
  <2>9. CASE OpenDeviceFails(r)
    BY <2>9 DEF OpenDeviceFails, Fault
  <2> QED BY <2>1, <2>2, <2>3, <2>4, <2>5, <2>6, <2>7, <2>8, <2>9 DEF Opens
<1>5. /\ p \in Opening \cup Beyond(r) /\ p \notin QpPhases /\ pc[r] \notin QpPhases
      /\ p \notin Joining(r) \cup {"allow"} /\ pc[r] \notin Joining(r)
      /\ \A t \in Types : p \notin Past(r, t) /\ pc[r] \notin Past(r, t)
  BY <1>3 DEF Opening, Beyond, Joining, QpPhases, ServerPhases, ClientPhases, Past
<1> QED BY <1>3, <1>4, <1>5, PlacesKeep DEF Network

LEMMA SocketPlacesKeep ==
  ASSUME N = 2, TypeOK, Underway, NEW r \in {0, 1}, Listen(r) \/ Allow(r) \/ Dial(r), ~ broke'
  PROVE  Underway'
<1>1. Along(r, 1 - r) /\ Held(r) /\ waited[r] = 0 /\ pc[r] \in Opening \cup Beyond(r)
  BY DEF Underway, Along
<1>2. pc[r] \in {"listen", "allow", "dial"}
  BY DEF Listen, Allow, Dial
<1>3. ~ created[r]
  BY <1>1, <1>2 DEF Along, QpPhases, ServerPhases, ClientPhases
<1>4. pc[r] \in Beyond(r) /\ pc[r] \notin QpPhases
  BY <1>1, <1>2 DEF Opening, QpPhases, ServerPhases, ClientPhases
<1>5. ASSUME NEW p \in Beyond(r), Goto(r, p), p \notin QpPhases,
             UNCHANGED <<fd, qp, up, table>>, r = 1 => UNCHANGED listening,
             channel \subseteq channel', dialled \subseteq dialled',
             p \in Joining(r) => <<r, 1 - r>> \in channel',
             r = 0 /\ p \in Joining(0) => listening'[0] = "open",
             r = 1 /\ p \in Joining(1) => <<1, 0>> \in dialled',
             r = 0 /\ p = "allow" => listening'[0] = "closed",
             p \in {"accept", "meet"} \/ p \notin Joining(r) => pc[r] \notin Joining(r),
             \A t \in Types : p \in Past(r, t) <=> pc[r] \in Past(r, t)
      PROVE  Underway'
  <2>1. pc' = [pc EXCEPT ![r] = p] /\ UNCHANGED <<has, created, waited>>
    BY <1>1, <1>3, <1>5, TwoRanks DEF Goto, TypeOK
  <2>2. Held(r)'
    <3>1. pc'[r] = p /\ has'[r] = has[r] /\ p # "open"
      BY <1>5, <2>1, TwoRanks DEF TypeOK, Beyond, Joining
    <3> QED BY <1>1, <1>4, <3>1 DEF Held
  <2>3. \A o \in {0, 1} \ {r} : has'[o] = has[o] /\ (o = 0 => listening'[0] = listening[0])
    BY <1>5, <2>1
  <2> QED BY <1>4, <1>5, <2>1, <2>2, <2>3, PlacesKeep
<1>6. CASE Listen(r)
  <2>1. CASE r = 0
    <3>1. /\ Goto(r, "allow") /\ listening' = [listening EXCEPT ![0] = "closed"]
          /\ UNCHANGED <<channel, dialled, fd, qp, up, table>> /\ pc[r] = "listen"
      BY <1>6, <2>1 DEF Listen, Fault
    <3> QED BY <1>5, <2>1, <3>1, TwoRanks
        DEF Beyond, Joining, Past, TypeOK, QpPhases, ServerPhases, ClientPhases
  <2>2. CASE r = 1
    <3>1. /\ Goto(r, "dial") /\ pc[r] = "listen"
          /\ UNCHANGED <<listening, channel, dialled, fd, qp, up, table>>
      BY <1>6, <2>2 DEF Listen, Fault
    <3> QED BY <1>5, <2>2, <3>1, TwoRanks
        DEF Beyond, Joining, Past, TypeOK, QpPhases, ServerPhases, ClientPhases
  <2> QED BY <2>1, <2>2
<1>7. CASE Allow(r)
  <2>1. r = 0 /\ pc[0] = "allow" /\ listening[0] = "closed"
    BY <1>1, <1>7, PlaceOf DEF Allow, Along
  <2>2. /\ Goto(r, "accept") /\ listening' = [listening EXCEPT ![0] = "open"]
        /\ channel' = channel \cup {<<0, 1>>}
        /\ UNCHANGED <<dialled, fd, qp, up, table>>
    BY <1>7, <2>1, TwoRanks DEF Allow, Fault, TypeOK
  <2> QED BY <1>5, <2>1, <2>2, TwoRanks
      DEF Beyond, Joining, Past, TypeOK, QpPhases, ServerPhases, ClientPhases
<1>8. CASE Dial(r)
  <2>1. CASE r = 0
    <3>1. /\ Goto(r, "started") /\ pc[r] = "dial"
          /\ UNCHANGED <<listening, channel, dialled, fd, qp, up, table>>
      BY <1>8, <2>1 DEF Dial, Fault
    <3>2. listening[0] = "open" /\ <<0, 1>> \in channel
      BY <1>1, <2>1, <3>1 DEF Along, Joining
    <3> QED BY <1>5, <2>1, <3>1, <3>2, TwoRanks
        DEF Beyond, Joining, Past, TypeOK, QpPhases, ServerPhases, ClientPhases
  <2>2. CASE r = 1
    <3>1. /\ Goto(r, "meet") /\ pc[r] = "dial"
          /\ channel' = channel \cup {<<1, 0>>} /\ dialled' = dialled \cup {<<1, 0>>}
          /\ UNCHANGED <<listening, fd, qp, up, table>>
      BY <1>8, <2>2, TwoRanks DEF Dial, Fault
    <3> QED BY <1>5, <2>2, <3>1, TwoRanks
        DEF Beyond, Joining, Past, TypeOK, QpPhases, ServerPhases, ClientPhases
  <2> QED BY <2>1, <2>2
<1> QED BY <1>6, <1>7, <1>8

LEMMA GetSocketsKeeps ==
  ASSUME N = 2, TypeOK, Underway, NEW r \in {0, 1}, GetSockets(r)
  PROVE  Underway'
<1> DEFINE o == 1 - r
           p == IF r = 0 THEN "serverAi" ELSE "clientAi"
<1>1. o \in {0, 1} /\ Along(r, o) /\ Along(o, r)
  BY DEF Underway
<1>2. pc[r] = (IF r = 0 THEN "accept" ELSE "meet") /\ Peers(r) = {o}
  BY <1>1, PlaceOf DEF GetSockets
<1>3. fd' = fd \cup {<<r, o>>}
  <2>1. PICK S \in (SUBSET Available(r)) \ {{}} : fd' = fd \cup ({r} \X S)
    BY DEF GetSockets
  <2>2. S = {o}
    <3>1. Available(r) \subseteq {o}
      BY <1>2 DEF Available
    <3> HIDE DEF o
    <3>2. S # {} /\ \A x \in S : x \in Available(r)
      BY <2>1
    <3>3. \A x \in S : x = o
      BY <3>1, <3>2
    <3> QED BY <3>2, <3>3
  <2>3. {r} \X {o} = {<<r, o>>}
    OBVIOUS
  <2> HIDE DEF o
  <2> QED BY <2>1, <2>2, <2>3
<1>4. Goto(r, p) /\ UNCHANGED <<listening, channel, dialled, qp, up, table>>
  BY <1>2, <1>3 DEF GetSockets
<1>5. pc' = [pc EXCEPT ![r] = p] /\ UNCHANGED <<has, created, waited>>
  BY <1>1, <1>2, <1>4, TwoRanks
  DEF Goto, TypeOK, Along, QpPhases, ServerPhases, ClientPhases
<1>6. pc'[r] = p /\ pc'[o] = pc[o] /\ ~ created[r]
  BY <1>1, <1>2, <1>5, TwoRanks DEF TypeOK, Along, QpPhases, ServerPhases, ClientPhases
<1>7. Along(o, r)'
  <2>1. \A t \in Types : <<o, r>> \in up[t] <=> <<o, r>> \in qp[t] /\ <<r, o>> \in qp[t]
    BY <1>1 DEF Along
  <2>2. <<o, r>> # <<r, o>> /\ o = 1 - r
    BY <1>1
  <2> HIDE DEF o
  <2> QED BY <1>1, <1>3, <1>4, <1>5, <1>6, <2>1, <2>2, PeerKeeps
<1>8. Along(r, o)'
  <2>1. p \in Joining(r) /\ p \in QpPhases /\ pc[r] \in Joining(r) /\ p # "open"
        /\ \A t \in Types : p \notin Past(r, t) /\ pc[r] \notin Past(r, t)
    BY <1>2 DEF Joining, Past, QpPhases, ServerPhases, ClientPhases
  <2>2. \A t \in Types : Ready(r, t)' <=> Ready(r, t)
    BY <1>2, <1>5, <1>6, <2>1 DEF Ready, QpPhases, ServerPhases, ClientPhases
  <2>3. Held(r)'
    BY <1>1, <1>5, <1>6, <2>1 DEF Along, Held, Beyond
  <2>4. p \in Beyond(r) /\ p \notin {"allow", "accept", "meet"}
    BY <2>1 DEF Beyond
  <2> HIDE DEF p, o
  <2> QED BY <1>1, <1>4, <1>5, <1>6, <2>1, <2>2, <2>3, <2>4 DEF Along, Types
<1> QED BY <1>1, <1>7, <1>8 DEF Underway

LEMMA CreateQpsKeeps ==
  ASSUME N = 2, TypeOK, Underway, NEW r \in {0, 1}, CreateQps(r)
  PROVE  Underway'
<1> DEFINE o == 1 - r
           t == Type(pc[r])
<1>1. o \in {0, 1} /\ o = 1 - r /\ Along(r, o) /\ Along(o, r) /\ <<r, o>> # <<o, r>>
  BY DEF Underway
<1>2. pc[r] \in QpPhases /\ ~ created[r] /\ Peers(r) = {o} /\ t \in Types
  BY <1>1, TypeTyped, PlaceOf DEF CreateQps
<1>3. /\ created' = [created EXCEPT ![r] = TRUE] /\ waited' = waited
      /\ UNCHANGED <<has, pc, listening, channel, dialled, fd, table>>
  BY <1>1, TwoRanks DEF CreateQps, Along, TypeOK
<1>4. qp' = [qp EXCEPT ![t] = @ \cup {<<r, o>>}]
  <2>1. {r} \X Peers(r) = {<<r, o>>}
    BY <1>2
  <2>2. qp' = [qp EXCEPT ![t] = @ \cup ({r} \X Peers(r))]
    BY DEF CreateQps
  <2> QED BY <2>1, <2>2
<1>5. up' = [up EXCEPT ![t] = @ \cup IF <<o, r>> \in qp[t] THEN {<<r, o>>, <<o, r>>} ELSE {}]
  <2>1. Joined(r, t, {o}) = IF <<o, r>> \in qp[t] THEN {<<r, o>>, <<o, r>>} ELSE {}
    BY DEF Joined
  <2>2. up' = [up EXCEPT ![t] = @ \cup Joined(r, t, Peers(r))]
    BY DEF CreateQps
  <2> QED BY <1>2, <2>1, <2>2
<1>6. created'[r] /\ created'[o] = created[o]
  BY <1>1, <1>3, TwoRanks DEF TypeOK
<1>7. qp \in [Types -> SUBSET Pairs] /\ up \in [Types -> SUBSET Pairs]
  BY DEF TypeOK
<1> HIDE DEF o, t
<1>8. \A u \in Types :
        /\ <<r, o>> \in qp'[u] <=> <<r, o>> \in qp[u] \/ u = t
        /\ <<o, r>> \in qp'[u] <=> <<o, r>> \in qp[u]
        /\ up[u] \subseteq up'[u]
        /\ <<r, o>> \in up'[u] <=> <<r, o>> \in qp'[u] /\ <<o, r>> \in qp'[u]
        /\ <<o, r>> \in up'[u] <=> <<r, o>> \in qp'[u] /\ <<o, r>> \in qp'[u]
  <2>1. \A u \in Types : /\ <<r, o>> \in up[u] <=> <<r, o>> \in qp[u] /\ <<o, r>> \in qp[u]
                         /\ <<o, r>> \in up[u] <=> <<r, o>> \in qp[u] /\ <<o, r>> \in qp[u]
    BY <1>1 DEF Along
  <2> TAKE u \in Types
  <2>2. CASE u = t
    <3>1. qp'[u] = qp[u] \cup {<<r, o>>}
          /\ up'[u] = up[u] \cup (IF <<o, r>> \in qp[u] THEN {<<r, o>>, <<o, r>>} ELSE {})
      BY <1>4, <1>5, <1>7, <2>2
    <3> QED BY <1>1, <2>1, <2>2, <3>1
  <2>3. CASE u # t
    <3>1. qp'[u] = qp[u] /\ up'[u] = up[u]
      BY <1>4, <1>5, <1>7, <2>3
    <3> QED BY <2>1, <2>3, <3>1
  <2> QED BY <2>2, <2>3
<1>9. Along(o, r)'
  BY <1>1, <1>3, <1>6, <1>8, PeerKeeps
<1>10. Along(r, o)'
  <2>1. \A u \in Types : Ready(r, u)' <=> Ready(r, u) \/ u = t
    BY <1>2, <1>3, <1>6 DEF Ready, t
  <2>2. Held(r)'
    BY <1>1, <1>3 DEF Along, Held
  <2>3. \A u \in Types : /\ <<r, o>> \in qp'[u] <=> Ready(r, u)'
                         /\ pc'[r] \in Past(r, u) => <<r, o>> \in up'[u]
    BY <1>1, <1>3, <1>8, <2>1 DEF Along
  <2> QED BY <1>1, <1>2, <1>3, <1>6, <1>8, <2>2, <2>3 DEF Along
<1>11. o = 1 - r
  BY DEF o
<1> QED BY <1>9, <1>10, <1>11 DEF Underway

LEMMA QpsReadyKeeps ==
  ASSUME N = 2, TypeOK, Underway, NEW r \in {0, 1}, QpsReady(r)
  PROVE  Underway'
<1> DEFINE o == 1 - r
           t == Type(pc[r])
           p == After[pc[r]]
<1>1. o \in {0, 1} /\ o = 1 - r /\ Along(r, o) /\ Along(o, r) /\ <<r, o>> # <<o, r>>
  BY DEF Underway
<1>2. /\ pc[r] \in QpPhases /\ created[r] /\ Peers(r) = {o} /\ t \in Types
      /\ pc[r] \in Joining(r)
  BY <1>1, TypeTyped, PlaceOf DEF QpsReady, Joining, QpPhases, ServerPhases, ClientPhases
<1>3. <<r, o>> \in up[t]
  BY <1>2 DEF QpsReady, AllUp
<1>4. Complete(r)
  <2>1. Ranks \ {r} = {o} /\ <<r, o>> \in channel
    BY <1>1, <1>2, TwoRanks DEF Along
  <2> QED BY <2>1 DEF Complete
<1>5. /\ Goto(r, p) /\ UNCHANGED <<listening, channel, dialled, fd, qp, up>>
      /\ table \subseteq table' /\ (t = "aiCore" => r \in table')
  BY <1>4 DEF QpsReady
<1>6. /\ pc' = [pc EXCEPT ![r] = p] /\ created' = [created EXCEPT ![r] = FALSE]
      /\ waited' = waited /\ has' = has
  BY <1>1, <1>5, TwoRanks DEF Goto, TypeOK, Along
<1>7. pc'[r] = p /\ pc'[o] = pc[o] /\ ~ created'[r] /\ created'[o] = created[o]
  BY <1>1, <1>6, TwoRanks DEF TypeOK
<1>8. Along(o, r)'
  <2>1. \A u \in Types : <<o, r>> \in up[u] <=> <<o, r>> \in qp[u] /\ <<r, o>> \in qp[u]
    BY <1>1 DEF Along
  <2> HIDE DEF o, p, t
  <2> QED BY <1>1, <1>5, <1>6, <1>7, <2>1, PeerKeeps
<1>9. Along(r, o)'
  <2>1. /\ p \in Joining(r) /\ p \in Beyond(r) /\ p \notin {"open", "allow", "accept", "meet"}
        /\ \A u \in Types : p \in Past(r, u) <=> Ready(r, u)
        /\ \A u \in Types : p \in Past(r, u) => pc[r] \in Past(r, u) \/ u = t
    BY <1>1, <1>2, PlaceOf DEF After, Joining, Beyond, Past, Ready, Type, Types, QpPhases,
      ServerPhases, ClientPhases
  <2> HIDE DEF o, p
  <2>2. \A u \in Types : Ready(r, u)' <=> Ready(r, u)
    BY <1>7, <2>1 DEF Ready
  <2>3. Held(r)'
    <3>1. pc[r] \in Beyond(r)
      BY <1>2 DEF Beyond
    <3> QED BY <1>1, <1>6, <1>7, <2>1, <3>1 DEF Along, Held
  <2> HIDE DEF t
  <2>4. \A u \in Types : /\ <<r, o>> \in qp'[u] <=> Ready(r, u)'
                         /\ pc'[r] \in Past(r, u) => <<r, o>> \in up'[u]
                         /\ <<r, o>> \in up'[u] <=> <<r, o>> \in qp'[u] /\ <<o, r>> \in qp'[u]
    BY <1>1, <1>3, <1>5, <1>7, <2>1, <2>2 DEF Along
  <2>5. pc'[r] \in Past(r, "aiCore") => r \in table'
    BY <1>1, <1>5, <1>7, <2>1 DEF Along, Types
  <2> QED BY <1>1, <1>2, <1>5, <1>6, <1>7, <2>1, <2>3, <2>4, <2>5 DEF Along
<1> QED BY <1>1, <1>8, <1>9 DEF Underway

(* What cannot happen: a wait that lasts its minutes, and an error. *)
LEMMA NothingFails ==
  ASSUME N = 2, TypeOK, Underway, NEW r \in {0, 1}
  PROVE  ~ TimeOut(r) /\ (Break(r) => broke')
<1>1. waited[r] = 0 /\ SocketWait # 0 /\ QpWait # 0
  BY QpAssumption DEF Underway, Along
<1> QED BY <1>1
    DEF TimeOut, Limit, Break, OpenDeviceFails, LoseSockets, CreateSome, QpsLost, Fault

(* Where both have started, a rank that does not shut down keeps what it has. *)
LEMMA ShutdownKeeps ==
  ASSUME N = 2, TypeOK, Underway \/ Over, NEW r \in {0, 1}, Shutdown(r)
  PROVE  Over'
<1> DEFINE o == 1 - r
<1>1. o \in {0, 1} /\ r # o
  OBVIOUS
<1>2. \A s \in {0, 1} : pc[s] \in {"started", "closed"} /\ (pc[s] = "started" => Connected(s))
  <2>1. CASE Over
    BY <2>1 DEF Over
  <2>2. CASE Underway
    <3> SUFFICES ASSUME NEW s \in {0, 1}
                 PROVE  pc[s] = "started" /\ Connected(s)
      OBVIOUS
    <3>1. Along(s, 1 - s)
      BY <2>2 DEF Underway
    <3>2. pc[s] = "started"
      BY <3>1, TwoRanks, PlaceOf DEF Shutdown, Ended
    <3>3. /\ "region" \in has[s] /\ s \in table
          /\ \A t \in Types : <<s, 1 - s>> \in up[t]
      BY <3>1, <3>2 DEF Along, Held, Beyond, Joining, Past, Types
    <3>4. Ranks \ {s} = {1 - s}
      BY TwoRanks
    <3> QED BY <3>2, <3>3, <3>4 DEF Connected
  <2> QED BY <2>1, <2>2
<1>3. pc'[r] = "closed" /\ pc'[o] = pc[o] /\ has'[o] = has[o] /\ table' = table
  BY <1>1, TwoRanks DEF Shutdown, TypeOK
<1>4. \A t \in Types, x \in Ranks : <<o, x>> \in up[t] => <<o, x>> \in up'[t]
  BY <1>1 DEF Shutdown, Close, Without
<1>5. Connected(o) => Connected(o)'
  <2> HIDE DEF o
  <2> QED BY <1>3, <1>4 DEF Connected
<1> HIDE DEF o
<1>6. \A s \in {0, 1} : s = r \/ s = o
  BY DEF o
<1> QED BY <1>1, <1>2, <1>3, <1>5, <1>6 DEF Over

LEMMA InitPair == N = 2 /\ Init => PairInv
<1> SUFFICES ASSUME N = 2, Init PROVE Underway
  BY InitTyped DEF PairInv
<1>1. ASSUME NEW r \in {0, 1}, NEW o \in {0, 1}
      PROVE  Along(r, o)
  <2>1. /\ pc[r] = "load" /\ waited[r] = 0 /\ ~ created[r] /\ fd = {}
        /\ \A t \in Types : qp[t] = {} /\ up[t] = {}
    BY TwoRanks DEF Init
  <2>2. \A t \in Types : ~ Ready(r, t) /\ "load" \notin Past(r, t)
    BY <2>1 DEF Ready, Past, QpPhases, ServerPhases, ClientPhases
  <2>3. "load" \in Opening /\ "load" \notin Joining(r) /\ "load" \notin Beyond(r)
    BY DEF Opening, Joining, Beyond
  <2> QED BY <2>1, <2>2, <2>3 DEF Along, Held, Types
<1> QED BY <1>1 DEF Underway

LEMMA BrokeStays == broke /\ [Next]_vars => broke'
<1> SUFFICES ASSUME broke, [Next]_vars PROVE broke'
  OBVIOUS
<1>1. CASE \E r \in Ranks : Opens(r) \/ OpenDeviceFails(r)
  BY <1>1 DEF Opens, OpenDeviceFails, LoadLibrary, RaRdevGetHandle, OpenTsd, RaInit,
    RetireDeviceIp, RaRdevInit, OpenDevice, RegisterMemoryRegion, Prepare, Wild, Killed, Fault
<1>2. CASE \E r \in Ranks : Listen(r) \/ Allow(r) \/ Dial(r) \/ GetSockets(r) \/ LoseSockets(r)
  BY <1>2 DEF Listen, Allow, Dial, GetSockets, LoseSockets, Fault
<1>3. CASE \E r \in Ranks : CreateQps(r) \/ CreateSome(r) \/ QpsReady(r) \/ QpsLost(r)
  BY <1>3 DEF CreateQps, CreateSome, QpsReady, QpsLost, Fault
<1>4. CASE Tick \/ UNCHANGED vars \/ \E r \in Ranks : TimeOut(r) \/ Shutdown(r)
  BY <1>4 DEF Tick, vars, TimeOut, Shutdown
<1> QED BY <1>1, <1>2, <1>3, <1>4 DEF Next, Step, Break, Finished

LEMMA StepPair == N = 2 /\ PairInv /\ [Next]_vars => PairInv'
<1> SUFFICES ASSUME N = 2, TypeOK, Underway \/ Over, [Next]_vars, ~ broke, ~ broke'
             PROVE  Underway' \/ Over'
  BY StepTyped, BrokeStays DEF PairInv
<1>1. CASE UNCHANGED vars
  BY <1>1 DEF vars, Underway, Over, Along, Held, Ready, Connected
<1>2. CASE Underway /\ Next /\ ~ UNCHANGED vars
  <2>1. ~ Tick /\ ~ Finished
    BY <1>2, NobodyWaits DEF Finished
  <2>2. PICK r \in {0, 1} : Step(r) \/ Break(r) \/ Shutdown(r)
    BY <1>2, <2>1, TwoRanks DEF Next
  <2>3. ~ TimeOut(r) /\ ~ Break(r)
    BY <1>2, NothingFails
  <2> QED BY <1>2, <2>2, <2>3, OpensKeep, SocketPlacesKeep, GetSocketsKeeps, CreateQpsKeeps,
          QpsReadyKeeps, ShutdownKeeps DEF Step
<1>3. CASE Over /\ Next /\ ~ UNCHANGED vars
  <2>1. \A r \in {0, 1} : pc[r] \in {"started", "closed"}
    BY <1>3 DEF Over
  <2>2. ~ Tick
    BY <2>1, TwoRanks DEF Tick, Blocked, InWait, QpPhases, ServerPhases, ClientPhases
  <2>3. \A r \in {0, 1} : ~ Step(r) /\ ~ Break(r)
    BY <2>1, TwoRanks
    DEF Step, Break, Opens, LoadLibrary, RaRdevGetHandle, OpenTsd, RaInit, RetireDeviceIp,
      RaRdevInit, OpenDevice, RegisterMemoryRegion, Prepare, Killed, Listen, Allow, GetSockets,
      CreateQps, QpsReady, Dial, TimeOut, InWait, OpenDeviceFails, LoseSockets, CreateSome,
      QpsLost, QpPhases, ServerPhases, ClientPhases
  <2>4. PICK r \in {0, 1} : Shutdown(r)
    BY <1>3, <2>2, <2>3, TwoRanks DEF Next, Finished
  <2> QED BY <1>3, <2>4, ShutdownKeeps
<1> QED BY <1>1, <1>2, <1>3

(* Between two ranks, if no call of HCCP fails, a rank that Startup tells  *)
(* its connections are ready has them, the table of its cores and its      *)
(* registered heap, whatever the limits of the waits are.                  *)
THEOREM PairConnects == ASSUME N = 2 PROVE Spec => []ReadyMeansConnected
<1>1. Init => PairInv
  BY InitPair
<1>2. PairInv /\ [Next]_vars => PairInv'
  BY StepPair
<1>3. PairInv => ReadyMeansConnected
  <2> SUFFICES ASSUME PairInv, ~ broke, NEW r \in {0, 1}, pc[r] = "started"
               PROVE  Connected(r)
    BY TwoRanks DEF ReadyMeansConnected
  <2>1. CASE Over
    BY <2>1 DEF Over
  <2>2. CASE Underway
    <3>1. Along(r, 1 - r)
      BY <2>2 DEF Underway
    <3>2. /\ "region" \in has[r] /\ r \in table
          /\ \A t \in Types : <<r, 1 - r>> \in up[t]
      BY <3>1 DEF Along, Held, Beyond, Joining, Past, Types
    <3>3. Ranks \ {r} = {1 - r}
      BY TwoRanks
    <3> QED BY <3>2, <3>3 DEF Connected
  <2> QED BY <2>1, <2>2 DEF PairInv
<1> QED BY <1>1, <1>2, <1>3, PTL DEF Spec
=============================================================================
