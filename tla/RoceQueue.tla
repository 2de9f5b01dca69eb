------------------------------ MODULE RoceQueue ------------------------------
(***************************************************************************)
(* The send queue and the completion queue that a device uses towards one  *)
(* peer, as shmemi_rdma_post_send and shmemi_roce_poll_cq in               *)
(* shmem_device_low_level_roce.h drive them.                               *)
(*                                                                         *)
(* A core posts a request by writing an entry of the send ring, ringing    *)
(* the doorbell and storing the new head.  The NIC executes the entries in *)
(* order and answers each with an entry of the completion ring, whose      *)
(* owner bit changes with every pass of the ring.  A core polls these      *)
(* entries when it finds the send ring full and in shmemi_roce_quiet, and  *)
(* then stores the new tails.  Nothing keeps two cores from using the      *)
(* queue pair at once.                                                     *)
(*                                                                         *)
(* The words of a queue are written through and read after an              *)
(* invalidation: they are shared registers here.  The NIC is external.     *)
(***************************************************************************)
EXTENDS Integers

CONSTANTS
  Cores,        \* the cores that use the queue pair
  Depth,        \* entries of the send ring
  CqDepth,      \* entries of the completion ring
  OwnerPeriod,  \* 2^13: heads between two changes of the owner bit
  Margin,       \* 10: the entries left free when the ring counts as full
  Batch,        \* SHMEM_NUM_CQE_PER_POLL_CQ
  Wrap,         \* 2^32: heads and tails are of type uint32_t
  DbWrap,       \* 65536: what the doorbell tells the NIC of the head
  MaxRequests,  \* requests the application posts (bounds the model)
  Faulty        \* whether the NIC may fail to execute a request

(* MAX_SEND_WR = SEND_CQ_DEPTH = 8192 *)
ASSUME QueueAssumption ==
  /\ {Depth, CqDepth, OwnerPeriod, Margin, Batch, Wrap, DbWrap} \subseteq Nat \ {0}
  /\ Margin + Batch <= Depth
  /\ OwnerPeriod = Depth /\ CqDepth = Depth
  /\ Wrap % (2 * Depth) = 0
  /\ DbWrap % (2 * Depth) = 0 /\ Wrap % DbWrap = 0
  /\ MaxRequests \in Nat
  /\ Faulty \in BOOLEAN

VARIABLES
  pc,           \* what each core is about to do
  loc,          \* its locals, and what it polls for
  sq,           \* the send ring
  cq,           \* the completion ring
  head,         \* the words head and tail of the send queue, and the tail
  tail,         \*   of the completion queue
  cqTail,
  nic,          \* the NIC: the head it was told, the requests it has
                \*   executed, and whether it has failed
  posted,       \* history: the number of requests written to the ring
  mine,         \* history: which of them each core has posted
  delivered     \* history: the requests the NIC has executed well

vars == <<pc, loc, sq, cq, head, tail, cqTail, nic, posted, mine, delivered>>

Plus(x, n) == (x + n) % Wrap

(* Which pass of a ring of n entries, even or odd, the index i is in. *)
EvenPass(i, n) == (i \div n) % 2 = 0

Init ==
  /\ pc = [c \in Cores |-> "idle"]
  /\ loc = [c \in Cores |-> [head |-> 0, cur |-> 0, idx |-> 0, call |-> "none"]]
  /\ sq = [i \in 0 .. Depth - 1 |-> [req |-> 0, owner |-> FALSE]]
  /\ cq = [i \in 0 .. CqDepth - 1 |-> [owner |-> FALSE, ok |-> TRUE]]
  /\ head = 0 /\ tail = 0 /\ cqTail = 0
  /\ nic = [pi |-> 0, done |-> 0, broken |-> FALSE]
  /\ posted = 0
  /\ mine = [c \in Cores |-> {}]
  /\ delivered = {}

-----------------------------------------------------------------------------
(* Posting a request.                                                      *)

(* Mutant: head and tail are compared without going round the ring. *)
FullUnrolled(h) == Plus(h, Margin) = tail

Full(h) == Plus(h, Margin) % Depth = tail % Depth

(* Mutant: the index to wait for does not wrap. *)
PollTargetUnwrapped == tail + Batch

PollTarget == Plus(tail, Batch)

Free(c) == pc[c] \in {"idle", "quiet"}

(* The core reads the head and the tail, and polls if the ring is full. *)
PostBegin(c) ==
  /\ Free(c) /\ posted < MaxRequests
  /\ IF Full(head)
     THEN /\ pc' = [pc EXCEPT ![c] = "poll"]
          /\ loc' = [loc EXCEPT ![c] = [head |-> head, cur |-> cqTail,
                                         idx |-> PollTarget, call |-> "post"]]
     ELSE /\ pc' = [pc EXCEPT ![c] = "write"]
          /\ loc' = [loc EXCEPT ![c] = [@ EXCEPT !.head = head, !.call = "post"]]
  /\ UNCHANGED <<sq, cq, head, tail, cqTail, nic, posted, mine, delivered>>

WriteEntry(c) ==
  /\ pc[c] = "write"
  /\ sq' = [sq EXCEPT ![loc[c].head % Depth] =
              [req |-> posted + 1, owner |-> EvenPass(loc[c].head, OwnerPeriod)]]
  /\ posted' = posted + 1
  /\ mine' = [mine EXCEPT ![c] = @ \cup {posted + 1}]
  /\ pc' = [pc EXCEPT ![c] = "ring"]
  /\ UNCHANGED <<loc, cq, head, tail, cqTail, nic, delivered>>

RingDoorbell(c) ==
  /\ pc[c] = "ring"
  /\ nic' = [nic EXCEPT !.pi = Plus(loc[c].head, 1) % DbWrap]
  /\ pc' = [pc EXCEPT ![c] = "head"]
  /\ UNCHANGED <<loc, sq, cq, head, tail, cqTail, posted, mine, delivered>>

(* Mutant: the head does not wrap. *)
StoreHeadUnwrapped(c) ==
  /\ pc[c] = "head"
  /\ head' = loc[c].head + 1
  /\ pc' = [pc EXCEPT ![c] = "idle"]
  /\ UNCHANGED <<loc, sq, cq, tail, cqTail, nic, posted, mine, delivered>>

StoreHead(c) ==
  /\ pc[c] = "head"
  /\ head' = Plus(loc[c].head, 1)
  /\ pc' = [pc EXCEPT ![c] = "idle"]
  /\ UNCHANGED <<loc, sq, cq, tail, cqTail, nic, posted, mine, delivered>>

-----------------------------------------------------------------------------
(* Polling, for a post that found the ring full or for shmemi_roce_quiet.  *)

(* Mutant: the head is the one the core read for its last post. *)
QuietBeginStale(c) ==
  /\ Free(c)
  /\ pc' = [pc EXCEPT ![c] = "poll"]
  /\ loc' = [loc EXCEPT ![c] = [@ EXCEPT !.cur = cqTail, !.idx = loc[c].head, !.call = "quiet"]]
  /\ UNCHANGED <<sq, cq, head, tail, cqTail, nic, posted, mine, delivered>>

QuietBegin(c) ==
  /\ Free(c)
  /\ pc' = [pc EXCEPT ![c] = "poll"]
  /\ loc' = [loc EXCEPT ![c] = [head |-> head, cur |-> cqTail,
                                 idx |-> head, call |-> "quiet"]]
  /\ UNCHANGED <<sq, cq, head, tail, cqTail, nic, posted, mine, delivered>>

(* Where a core goes from a poll. *)
AfterPoll(c) == IF loc[c].call = "post" THEN "write" ELSE "quiet"

(* Mutant: the owner bit is read as a flag. *)
ReadyOnce(i) == cq[i % CqDepth].owner

(* The completion of index i has been written in this pass of the ring. *)
Ready(i) == cq[i % CqDepth].owner = EvenPass(i, CqDepth)

PollEntry(c) ==
  /\ pc[c] = "poll" /\ loc[c].cur # loc[c].idx
  /\ Ready(loc[c].cur)
  /\ loc' = [loc EXCEPT ![c].cur = Plus(@, 1)]
  /\ pc' = IF cq[loc[c].cur % CqDepth].ok THEN pc
           ELSE [pc EXCEPT ![c] = AfterPoll(c)]
  /\ UNCHANGED <<sq, cq, head, tail, cqTail, nic, posted, mine, delivered>>

(* Both tails become what was polled; the completion queue's doorbell is   *)
(* rung, which the NIC of this model does not heed.                        *)
PollEnd(c) ==
  /\ pc[c] = "poll" /\ loc[c].cur = loc[c].idx
  /\ tail' = loc[c].cur /\ cqTail' = loc[c].cur
  /\ pc' = [pc EXCEPT ![c] = AfterPoll(c)]
  /\ UNCHANGED <<loc, sq, cq, head, nic, posted, mine, delivered>>

-----------------------------------------------------------------------------

(* The NIC takes the next entry and answers it.  Once a request has        *)
(* failed all later ones do.                                               *)
Execute ==
  /\ nic.done % DbWrap # nic.pi
  /\ \E ok \in BOOLEAN :
       /\ ok => ~ nic.broken
       /\ ~ ok => nic.broken \/ Faulty
       /\ delivered' = IF ok THEN delivered \cup {sq[nic.done % Depth].req}
                       ELSE delivered
       /\ cq' = [cq EXCEPT ![nic.done % CqDepth] =
                   [owner |-> EvenPass(nic.done, CqDepth), ok |-> ok]]
       /\ nic' = [nic EXCEPT !.done = @ + 1, !.broken = ~ ok]
  /\ UNCHANGED <<pc, loc, sq, head, tail, cqTail, posted, mine>>

Step(c) ==
  WriteEntry(c) \/ RingDoorbell(c) \/ StoreHead(c) \/ PollEntry(c) \/ PollEnd(c)

Next == Execute \/ \E c \in Cores : PostBegin(c) \/ QuietBegin(c) \/ Step(c)

(* A core goes on with its call, and the NIC with the requests it has. *)
Fairness == WF_vars(Execute) /\ \A c \in Cores : WF_vars(Step(c))

Spec == Init /\ [][Next]_vars /\ Fairness

-----------------------------------------------------------------------------

Words == 0 .. Wrap - 1

TypeOK ==
  /\ pc \in [Cores -> {"idle", "quiet", "poll", "write", "ring", "head"}]
  /\ loc \in [Cores -> [head : Words, cur : Words, idx : Words,
                        call : {"none", "post", "quiet"}]]
  /\ sq \in [0 .. Depth - 1 -> [req : Nat, owner : BOOLEAN]]
  /\ cq \in [0 .. CqDepth - 1 -> [owner : BOOLEAN, ok : BOOLEAN]]
  /\ {head, tail, cqTail} \subseteq Words
  /\ nic \in [pi : 0 .. DbWrap - 1, done : Nat, broken : BOOLEAN]
  /\ posted \in Nat
  /\ mine \in [Cores -> SUBSET Nat]
  /\ delivered \subseteq Nat

(* Until the NIC fails, every request written to the ring and not yet      *)
(* executed is still there, marked with the pass of the ring it is for.    *)
EntriesIntact ==
  nic.broken \/ \A n \in nic.done .. posted - 1 :
    sq[n % Depth] = [req |-> n + 1, owner |-> EvenPass(n, Depth)]

(* Until the NIC fails, no core takes a completion that has not been       *)
(* written yet or has been written over: what was polled last is behind    *)
(* the NIC by no more than the entries of the ring.                        *)
CompletionsKept ==
  nic.broken \/ \A c \in Cores :
    pc[c] = "poll" => (nic.done - loc[c].cur) % Wrap <= CqDepth

(* When shmemi_roce_quiet has returned to a core, the requests the core    *)
(* has posted before have been executed, unless one has failed.            *)
QuietCompletes ==
  \A c \in Cores : pc[c] = "quiet" /\ ~ nic.broken => mine[c] \subseteq delivered

(* Until the NIC fails no core polls for ever: a ring that is full has     *)
(* enough requests under way for the completions that are waited for.      *)
PollsReturn ==
  \A c \in Cores :
    pc[c] = "poll" ~> pc[c] # "poll" \/ nic.broken
=============================================================================
