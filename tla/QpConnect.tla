------------------------------ MODULE QpConnect ------------------------------
(***************************************************************************)
(* How the ranks of a job set up their RDMA connections.  First each opens *)
(* its device and registers its heap (rdma_manager.h, which                *)
(* shmemi_rdma_init calls, dropping the results).  After a barrier         *)
(* shmemi_rdma_connect_peers calls Prepare, and so the server phase and    *)
(* the client phase of DeviceQpManager::Startup (device_qp_manager.cpp).   *)
(* Finally the manager is deleted.                                         *)
(*                                                                         *)
(* A rank first serves all larger ranks and then connects to all smaller   *)
(* ones.  In each phase it waits for the sockets, then creates a queue     *)
(* pair for the cores and waits for it to be connected, then one for the   *)
(* host.  Every wait has a timeout.                                        *)
(*                                                                         *)
(* The HCCP library is external: a socket exists once the server listens,  *)
(* the client is on its white list and has connected; a queue pair is      *)
(* connected once both ranks have created their end.  If a rank crashes    *)
(* MPI stops the others.                                                   *)
(***************************************************************************)
EXTENDS Naturals

CONSTANTS
  N,            \* rankCount_
  SocketWait,   \* minutes that WaitConnectionsReady waits
  QpWait,       \* minutes that CreateQpWaitingReady waits
  Faulty        \* ranks on which calls of HCCP may fail

ASSUME QpAssumption ==
  N \in Nat \ {0, 1} /\ {SocketWait, QpWait} \subseteq Nat \ {0}
  /\ Faulty \subseteq 0 .. N - 1

VARIABLES
  has,          \* what the rdma_manager of each rank has got hold of
  pc,           \* where each rank is
  created,      \* in a queue pair phase: the queue pairs have been created
  waited,       \* minutes spent in the present wait
  listening,    \* the server sockets: "no", on the port the clients know,
                \*   "closed" or "open" to them, or on an "other" one
  channel,      \* serverConnections_ and clientConnections_
  dialled,      \* the connections the clients have asked for
  fd,           \* the sockets that a rank has got
  qp,           \* the ends of queue pairs of each type that exist,
  up,           \*   and those whose status is "connected"
  table,        \* the ranks whose qpInfo_ has been written
  broke         \* history: a call of HCCP has failed

vars == <<has, pc, created, waited, listening, channel, dialled, fd, qp, up, table, broke>>

Ranks == 0 .. N - 1
Larger(r) == {s \in Ranks : s > r}
Smaller(r) == {s \in Ranks : s < r}
Types == {"aiCore", "stars"}

(* The library, the address, a handle of the device, the queue pair        *)
(* manager and a memory region for the heap.                               *)
Parts == {"library", "ip", "rdev", "manager", "region"}

Opening == {"load", "open", "tsd", "ra", "ip", "rdev", "manager", "region"}
ServerPhases == {"serverAi", "serverStars"}
ClientPhases == {"clientAi", "clientStars"}
QpPhases == ServerPhases \cup ClientPhases

(* Mutant: the client makes its queue pairs in the other order. *)
TypeCrossed(phase) ==
  IF phase \in {"serverAi", "clientStars"} THEN "aiCore" ELSE "stars"

(* The type of the queue pairs of a phase. *)
Type(phase) == IF phase \in {"serverAi", "clientAi"} THEN "aiCore" ELSE "stars"

Peers(r) == IF pc[r] \in ServerPhases \cup {"allow", "accept"} THEN Larger(r) ELSE Smaller(r)

(* What follows a phase of queue pairs. *)
After == [serverAi |-> "serverStars", serverStars |-> "dial",
          clientAi |-> "clientStars", clientStars |-> "started"]

Init ==
  /\ has = [r \in Ranks |-> {}]
  /\ pc = [r \in Ranks |-> "load"]
  /\ created = [r \in Ranks |-> FALSE]
  /\ waited = [r \in Ranks |-> 0]
  /\ listening = [r \in Ranks |-> "no"]
  /\ channel = {} /\ dialled = {} /\ fd = {}
  /\ qp = [t \in Types |-> {}] /\ up = [t \in Types |-> {}]
  /\ table = {} /\ broke = FALSE

-----------------------------------------------------------------------------

(* A rank goes on with p; the next wait begins anew. *)
Goto(r, p) ==
  /\ pc' = [pc EXCEPT ![r] = p]
  /\ created' = [created EXCEPT ![r] = FALSE]
  /\ waited' = [waited EXCEPT ![r] = 0]
  /\ UNCHANGED has

(* A relation without the pairs of r with ranks of S. *)
Without(R, r, S) == {p \in R : ~ (p[1] = r /\ p[2] \in S)}

(* Mutant: the sockets are not forgotten. *)
CloseKept(r, S, U) ==
  /\ channel' = Without(channel, r, S)
  /\ dialled' = Without(dialled, r, S)
  /\ fd' = fd
  /\ qp' = [t \in Types |-> Without(qp[t], r, S)]
  /\ up' = [t \in Types |-> Without(U[t], r, S)]

(* CloseConnections: the queue pairs and sockets of r with ranks of S.     *)
(* The status U of the other ranks' ends does not change.                  *)
Close(r, S, U) ==
  /\ channel' = Without(channel, r, S)
  /\ dialled' = Without(dialled, r, S)
  /\ fd' = Without(fd, r, S)
  /\ qp' = [t \in Types |-> Without(qp[t], r, S)]
  /\ up' = [t \in Types |-> Without(U[t], r, S)]

(* A call of HCCP fails. *)
Fault(r) == r \in Faulty /\ broke' = TRUE

-----------------------------------------------------------------------------
(* Opening the device and registering the heap.                            *)

Network == <<created, waited, listening, channel, dialled, fd, qp, up, table>>

(* Rank r gets part x and goes on with p. *)
Gets(r, x, p) ==
  /\ has' = [has EXCEPT ![r] = @ \cup {x}] /\ pc' = [pc EXCEPT ![r] = p]
  /\ UNCHANGED Network

(* It goes on as it is, ... *)
Passes(r, p) == pc' = [pc EXCEPT ![r] = p] /\ UNCHANGED <<has, Network>>

(* ... or calls a function through a pointer that was never set: either it *)
(* dies of that or it does not.                                            *)
Wild(r, p) == broke' = broke /\ (Passes(r, p) \/ Passes(r, "crashed"))

(* The result of LoadLibrary is dropped. *)
LoadLibrary(r) ==
  /\ pc[r] = "load"
  /\ \/ Gets(r, "library", "open") /\ broke' = broke
     \/ Passes(r, "open") /\ Fault(r)

(* PrepareOpenDevice: without the library RaRdevGetHandle is a null        *)
(* pointer.  A handle of a device that is open already is taken over.      *)
RaRdevGetHandle(r) ==
  /\ pc[r] = "open" /\ broke' = broke
  /\ IF "library" \notin has[r] THEN Passes(r, "crashed")
     ELSE Gets(r, "rdev", "ip") \/ Passes(r, "tsd")

OpenTsd(r) == pc[r] = "tsd" /\ Passes(r, "ra") /\ broke' = broke
RaInit(r) == pc[r] = "ra" /\ Passes(r, "ip") /\ broke' = broke

RetireDeviceIp(r) ==
  /\ pc[r] = "ip" /\ broke' = broke
  /\ Gets(r, "ip", IF "rdev" \in has[r] THEN "manager" ELSE "rdev")

RaRdevInit(r) == pc[r] = "rdev" /\ Gets(r, "rdev", "manager") /\ broke' = broke

(* PrepareOpenDevice fails, and OpenDevice, whose result is dropped. *)
OpenDeviceFails(r) ==
  pc[r] \in {"tsd", "ra", "ip", "rdev"} /\ Passes(r, "region") /\ Fault(r)

OpenDevice(r) == pc[r] = "manager" /\ Gets(r, "manager", "region") /\ broke' = broke

(* The regions are handed to a queue pair manager that may not be there.   *)
(* Without a handle, or if it is refused, nothing is registered, and the   *)
(* result is dropped.                                                      *)
RegisterMemoryRegion(r) ==
  /\ pc[r] = "region"
  /\ \/ /\ {"rdev", "manager"} \subseteq has[r]
        /\ Gets(r, "region", "prepare") /\ broke' = broke
     \/ /\ "rdev" \in has[r] /\ "manager" \notin has[r]
        /\ broke' = broke
        /\ \E p \in {"prepare", "crashed"} : Gets(r, "region", p)
     \/ "rdev" \notin has[r] /\ Passes(r, "prepare") /\ broke' = broke
     \/ Passes(r, "prepare") /\ Fault(r)

(* The allgathers and the barrier before Prepare are over. *)
Met == \A s \in Ranks : pc[s] \notin Opening \cup {"crashed"}

(* Prepare: the ranks' addresses and regions go to the queue pair manager, *)
(* which starts by reserving memory for the cores' table.                  *)
Prepare(r) ==
  /\ pc[r] = "prepare" /\ Met
  /\ IF "manager" \in has[r]
     THEN \/ Passes(r, "listen") /\ broke' = broke
          \/ Passes(r, "failed") /\ Fault(r)
     ELSE Wild(r, "failed")

(* The process manager of MPI. *)
Killed(r) ==
  /\ pc[r] \notin {"closed", "crashed"} /\ \E s \in Ranks : pc[s] = "crashed"
  /\ Passes(r, "crashed") /\ broke' = broke

(* Startup returns an error.  The client side closes what it has opened,   *)
(* the server side does not.                                               *)
FailServer(r) ==
  /\ Goto(r, "failed")
  /\ UNCHANGED <<listening, channel, dialled, fd, qp, up, table>>

FailClient(r) ==
  /\ Goto(r, "failed")
  /\ Close(r, Smaller(r), up)
  /\ UNCHANGED <<listening, table>>

-----------------------------------------------------------------------------
(* The server's sockets.                                                   *)

(* The last rank serves nobody.  If the port is in use the server takes    *)
(* another one, which no client learns.                                    *)
Listen(r) ==
  /\ pc[r] = "listen"
  /\ \/ /\ r = N - 1
        /\ Goto(r, "dial")
        /\ UNCHANGED <<listening, channel, dialled, fd, qp, up, table, broke>>
     \/ /\ r # N - 1
        /\ \/ listening' = [listening EXCEPT ![r] = "closed"] /\ broke' = broke
           \/ listening' = [listening EXCEPT ![r] = "other"] /\ Fault(r)
        /\ Goto(r, "allow")
        /\ UNCHANGED <<channel, dialled, fd, qp, up, table>>
     \/ Fault(r) /\ FailServer(r)

(* GenerateWhiteList: the channels are made before the call of HCCP. *)
Allow(r) ==
  /\ pc[r] = "allow"
  /\ channel' = channel \cup ({r} \X Larger(r))
  /\ \/ /\ listening' = [listening EXCEPT ![r] = IF @ = "closed" THEN "open" ELSE @]
        /\ Goto(r, "accept") /\ broke' = broke
     \/ listening' = listening /\ Goto(r, "failed") /\ Fault(r)
  /\ UNCHANGED <<dialled, fd, qp, up, table>>

-----------------------------------------------------------------------------
(* Waiting for sockets, on either side.                                    *)

Linked(client, server) ==
  <<client, server>> \in dialled /\ listening[server] = "open"

Available(r) ==
  {s \in Peers(r) : <<r, s>> \in channel \ fd /\ (Linked(r, s) \/ Linked(s, r))}

(* RaGetSockets returns some of the sockets that are there.  The timer     *)
(* runs on until there is one for each peer.                               *)
GetSockets(r) ==
  /\ pc[r] \in {"accept", "meet"} /\ Available(r) # {}
  /\ \E S \in (SUBSET Available(r)) \ {{}} :
       /\ fd' = fd \cup ({r} \X S)
       /\ IF {r} \X Peers(r) \subseteq fd'
          THEN Goto(r, IF pc[r] = "accept" THEN "serverAi" ELSE "clientAi")
          ELSE UNCHANGED <<has, pc, created, waited>>
  /\ UNCHANGED <<listening, channel, dialled, qp, up, table, broke>>

(* RaGetSockets fails. *)
LoseSockets(r) ==
  /\ Fault(r)
  /\ \/ pc[r] = "accept" /\ FailServer(r)
     \/ pc[r] = "meet" /\ FailClient(r)

-----------------------------------------------------------------------------
(* The queue pairs, on either side.                                        *)

(* The ends that become connected when r creates its own of type t towards *)
(* the ranks of S: those whose other end exists.                           *)
Joined(r, t, S) ==
  LET T == {s \in S : <<s, r>> \in qp[t]} IN ({r} \X T) \cup (T \X {r})

(* On the server side errors are recorded and then overwritten, and the    *)
(* next phase begins as after success.                                     *)
FailQps(r) ==
  IF pc[r] \in ServerPhases
  THEN Goto(r, After[pc[r]]) /\ UNCHANGED <<listening, channel, dialled, fd, qp, up, table>>
  ELSE FailClient(r)

CreateQps(r) ==
  /\ pc[r] \in QpPhases /\ ~ created[r]
  /\ LET t == Type(pc[r]) IN
       /\ qp' = [qp EXCEPT ![t] = @ \cup ({r} \X Peers(r))]
       /\ up' = [up EXCEPT ![t] = @ \cup Joined(r, t, Peers(r))]
  /\ created' = [created EXCEPT ![r] = TRUE]
  /\ waited' = [waited EXCEPT ![r] = 0]
  /\ UNCHANGED <<has, pc, listening, channel, dialled, fd, table, broke>>

(* One of the calls fails after they have succeeded for the peers of S. *)
CreateSome(r) ==
  /\ pc[r] \in QpPhases /\ ~ created[r] /\ Fault(r)
  /\ \E S \in (SUBSET Peers(r)) \ {Peers(r)} :
       LET t == Type(pc[r])
           U == [up EXCEPT ![t] = @ \cup Joined(r, t, S)]
       IN IF pc[r] \in ServerPhases
          THEN /\ Goto(r, After[pc[r]])
               /\ qp' = [qp EXCEPT ![t] = @ \cup ({r} \X S)] /\ up' = U
               /\ UNCHANGED <<channel, dialled, fd>>
          ELSE Goto(r, "failed") /\ Close(r, Smaller(r), U)
  /\ UNCHANGED <<listening, table>>

(* Mutant: the status asked for is that of the other type. *)
AllUpAiCore(r) == {r} \X Peers(r) \subseteq up["aiCore"]

(* The queue pairs of the phase are connected. *)
AllUp(r) == {r} \X Peers(r) \subseteq up[Type(pc[r])]

(* FillQpInfo needs a channel to every rank: a rank that is server and     *)
(* client has them all in the client phase only.                           *)
Complete(r) == {r} \X (Ranks \ {r}) \subseteq channel

QpsReady(r) ==
  /\ pc[r] \in QpPhases /\ created[r] /\ AllUp(r)
  /\ IF Type(pc[r]) = "aiCore" /\ ~ Complete(r)
     THEN FailQps(r)
     ELSE /\ Goto(r, After[pc[r]])
          /\ table' = IF Type(pc[r]) = "aiCore" THEN table \cup {r} ELSE table
          /\ UNCHANGED <<listening, channel, dialled, fd, qp, up>>
  /\ broke' = broke

(* The status cannot be read or the table cannot be copied. *)
QpsLost(r) ==
  /\ pc[r] \in QpPhases /\ created[r] /\ Fault(r)
  /\ FailQps(r)

-----------------------------------------------------------------------------
(* The client connects to the smaller ranks.  Rank 0 has none.             *)

Dial(r) ==
  /\ pc[r] = "dial"
  /\ IF r = 0
     THEN Goto(r, "started")
          /\ UNCHANGED <<listening, channel, dialled, fd, qp, up, table, broke>>
     ELSE \/ /\ channel' = channel \cup ({r} \X Smaller(r))
             /\ dialled' = dialled \cup ({r} \X Smaller(r))
             /\ Goto(r, "meet")
             /\ UNCHANGED <<listening, fd, qp, up, table, broke>>
          \/ Fault(r) /\ FailClient(r)

-----------------------------------------------------------------------------
(* Time.  The steps of the ranks take no time against a minute.            *)

InWait(r) == pc[r] \in {"accept", "meet"} \/ (pc[r] \in QpPhases /\ created[r])

Limit(r) == IF pc[r] \in {"accept", "meet"} THEN SocketWait ELSE QpWait

(* Mutant: there is no limit to the wait for queue pairs. *)
TimeOutSockets(r) ==
  /\ InWait(r) /\ waited[r] = Limit(r)
  /\ \/ pc[r] = "accept" /\ FailServer(r)
     \/ pc[r] = "meet" /\ FailClient(r)
  /\ broke' = broke

(* A wait that has reached its limit may just have seen what it waits for. *)
TimeOut(r) ==
  /\ InWait(r) /\ waited[r] = Limit(r)
  /\ \/ pc[r] = "accept" /\ FailServer(r)
     \/ pc[r] = "meet" /\ FailClient(r)
     \/ pc[r] \in QpPhases /\ FailQps(r)
  /\ broke' = broke

Ended(r) == pc[r] \in {"started", "failed", "closed", "crashed"}

(* What the rank waits for is not there, and its time is not up. *)
Blocked(r) ==
  /\ InWait(r) /\ waited[r] < Limit(r)
  /\ pc[r] \in {"accept", "meet"} => Available(r) = {}
  /\ pc[r] \in QpPhases => ~ AllUp(r)

Tick ==
  /\ \A r \in Ranks : Ended(r) \/ Blocked(r)
  /\ \E r \in Ranks : Blocked(r)
  /\ waited' = [r \in Ranks |-> IF Blocked(r) THEN waited[r] + 1 ELSE waited[r]]
  /\ UNCHANGED <<has, pc, created, listening, channel, dialled, fd, qp, up, table, broke>>

-----------------------------------------------------------------------------

(* DestroyServerSocket *)
ServerSocketGone(r) == [listening EXCEPT ![r] = "no"]

(* The manager is deleted: CloseServices, and ClearAllRegisterMRs.  Nobody *)
(* closes the device or the library.  The job is over, which no rank       *)
(* decides before the barriers of the initialisation that follow Startup.  *)
Shutdown(r) ==
  /\ pc[r] \in {"started", "failed"} /\ \A s \in Ranks : Ended(s)
  /\ pc' = [pc EXCEPT ![r] = "closed"]
  /\ has' = [has EXCEPT ![r] = @ \ {"manager", "region"}]
  /\ listening' = ServerSocketGone(r)
  /\ Close(r, Ranks, up)
  /\ UNCHANGED <<created, waited, table, broke>>

Opens(r) ==
  \/ LoadLibrary(r) \/ RaRdevGetHandle(r) \/ OpenTsd(r) \/ RaInit(r)
  \/ RetireDeviceIp(r) \/ RaRdevInit(r) \/ OpenDevice(r)
  \/ RegisterMemoryRegion(r) \/ Prepare(r) \/ Killed(r)

Step(r) ==
  \/ Opens(r) \/ Listen(r) \/ Allow(r) \/ GetSockets(r) \/ CreateQps(r) \/ QpsReady(r)
  \/ Dial(r) \/ TimeOut(r)

Break(r) == OpenDeviceFails(r) \/ LoseSockets(r) \/ CreateSome(r) \/ QpsLost(r)

Finished == (\A r \in Ranks : pc[r] \in {"closed", "crashed"}) /\ UNCHANGED vars

Next == Tick \/ Finished \/ \E r \in Ranks : Step(r) \/ Break(r) \/ Shutdown(r)

(* Every rank runs, and time passes; no rank counts on a failure. *)
Fairness == WF_vars(Tick) /\ \A r \in Ranks : WF_vars(Step(r))

Spec == Init /\ [][Next]_vars /\ Fairness

-----------------------------------------------------------------------------

Pairs == Ranks \X Ranks
Places == Opening \cup QpPhases \cup {"prepare", "listen", "allow", "accept", "dial", "meet",
                                    "started", "failed", "closed", "crashed"}

TypeOK ==
  /\ has \in [Ranks -> SUBSET Parts]
  /\ pc \in [Ranks -> Places]
  /\ created \in [Ranks -> BOOLEAN]
  /\ waited \in [Ranks -> 0 .. SocketWait + QpWait]
  /\ listening \in [Ranks -> {"no", "closed", "open", "other"}]
  /\ channel \subseteq Pairs /\ dialled \subseteq Pairs /\ fd \subseteq channel
  /\ qp \in [Types -> SUBSET Pairs] /\ up \in [Types -> SUBSET Pairs]
  /\ table \subseteq Ranks /\ broke \in BOOLEAN

(* Both queue pairs of r with every other rank are connected, the cores of *)
(* r have been told, and the heap that r lends to the others is registered. *)
Connected(r) ==
  /\ r \in table /\ "region" \in has[r]
  /\ \A t \in Types : {r} \X (Ranks \ {r}) \subseteq up[t]

(* When WaitingConnectionReady says that "client & server connections" are *)
(* ready, they are, unless a call of HCCP has failed.                      *)
ReadyMeansConnected ==
  broke \/ \A r \in Ranks : pc[r] = "started" => Connected(r)

(* Whatever fails, shmemi_rdma_connect_peers returns on every rank, unless *)
(* one has crashed.                                                        *)
StartupReturns ==
  <>(\/ \A r \in Ranks : pc[r] \in {"started", "failed", "closed"}
     \/ \E r \in Ranks : pc[r] = "crashed")

(* A call of the library that fails becomes an error code, as              *)
(* include/host/shmem_host_init.h:70 says of shmem_init_attr: nobody dies  *)
(* of it.                                                                  *)
NobodyCrashes == \A r \in Ranks : pc[r] # "crashed"

(* If nothing fails every rank gets its connections. *)
EveryoneConnects == <>(broke \/ \A r \in Ranks : Connected(r))
=============================================================================
