--------------------------- MODULE CompletionRing ---------------------------
(***************************************************************************)
(* A completion queue: the DPU writes CQEs to its copy of the ring and has *)
(* each copied to the host's by a DMA request (rxe_recv.cpp with           *)
(* datapath.cpp, dma_send_cq_to_host and dma_recv_cq_to_host), the host    *)
(* polls its copy (lib/smartns_dv.cpp, smartns_poll_cq).  As for work      *)
(* requests, only an owner bit tells a new CQE from an old one.            *)
(*                                                                         *)
(* Nothing tells the DPU how far the host has polled: the doorbell the     *)
(* host writes is read by nobody.  The ring works for a host that never    *)
(* has more than MaxInFlight <= N completions outstanding.                 *)
(*                                                                         *)
(* The memory of a ring comes from an allocator that does not clear it.    *)
(* Previous is the number of CQEs an earlier ring had received in the same *)
(* memory; 0 stands for memory never used.                                 *)
(***************************************************************************)
EXTENDS Integers, Sequences

CONSTANTS
    N,            \* wqe_cnt
    W,            \* 2^32: smartns_cq.head is 32 bits wide
    MaxInFlight,  \* completions the host lets be outstanding
    Previous,     \* the numbers of CQEs an earlier ring may have received
    MaxEntries,   \* bound: num_entries of one poll
    MaxCqes       \* bound: CQEs written in all

ASSUME CompletionRingAssumption ==
    /\ N \in Nat \ {0}
    /\ W \in Nat \ {0}
    /\ W % N = 0
    /\ MaxInFlight \in Nat
    /\ MaxInFlight <= N
    /\ Previous \subseteq Nat
    /\ MaxEntries \in Nat
    /\ MaxCqes \in Nat

VARIABLES
    dpuHead,   \* dpu_cq.head
    dpuOwn,    \* dpu_cq.own_flag
    bfBuf,     \* bf_cq_buf, the DPU's copy
    issued,    \* CQEs written, each with its DMA request
    arrived,   \* CQEs the DMA engine has copied so far
    hostBuf,   \* host_cq_buf
    head,      \* smartns_cq.head
    own,       \* smartns_cq.own_flag
    consumer,  \* host_cq_doorbell.consumer_index
    call,      \* whether a smartns_poll_cq holds the lock of the CQ
    npolled,   \* local of that call
    polled     \* history: the CQEs polled, in order

dpuVars  == <<dpuHead, dpuOwn, bfBuf, issued>>
hostVars == <<head, own, consumer, call, npolled, polled>>
vars == <<dpuVars, arrived, hostBuf, hostVars>>

Bit == {0, 1}
Slot == 0 .. N - 1

\* A CQE: op_own and the number of its completion.
Cqe == [own : Bit, id : Int]

\* The number of a CQE left by an earlier ring.
Stale == -1

\* The owner bit of completion p.
OwnAt(p) == 1 - ((p \div N) % 2)

\* The last of the first k completions in slot i, less than 0 if there is none.
LastInSlot(k, i) == k - 1 - ((k - 1 - i) % N)

\* Memory an earlier ring of the same size has received k CQEs in.
UsedMemory(k) ==
    [i \in Slot |-> [own |-> IF i < k THEN OwnAt(LastInSlot(k, i)) ELSE 0,
                     id |-> Stale]]

\* A ring just created on both sides.
Init ==
    /\ dpuHead = 0
    /\ dpuOwn = 1
    /\ \E k \in Previous : bfBuf = UsedMemory(k) /\ hostBuf = UsedMemory(k)
    /\ issued = 0
    /\ arrived = 0
    /\ head = 0
    /\ own = 1
    /\ consumer = 0
    /\ call = "idle"
    /\ npolled = 0
    /\ polled = <<>>

-----------------------------------------------------------------------------
(* The DPU *)

\* Mutant: the owner flag is not flipped at the end of the ring.
OwnKept(o, i) == o

\* own_flag after slot i: flipped after the last one.
OwnAfter(o, i) == IF i + 1 = N THEN 1 - o ELSE o

\* Mutant: the index is not wrapped at the end of the ring.
NextSlotUnwrapped(i) == i + 1

\* The slot after slot i.
NextSlot(i) == IF i + 1 = N THEN 0 ELSE i + 1

\* The host has less than MaxInFlight completions outstanding.
RoomForCqe == issued - Len(polled) < MaxInFlight

\* get_next_cqe, the CQE's fields, post_send_recv_cqe and step_cq.
WriteCqe ==
    /\ RoomForCqe
    /\ issued < MaxCqes
    /\ bfBuf' = [bfBuf EXCEPT ![dpuHead] = [own |-> dpuOwn, id |-> issued]]
    /\ issued' = issued + 1
    /\ dpuOwn' = OwnAfter(dpuOwn, dpuHead)
    /\ dpuHead' = NextSlot(dpuHead)
    /\ UNCHANGED <<arrived, hostBuf, hostVars>>

\* The NIC's DMA engine.  Not part of the source: it executes the requests of
\* the queue for CQEs in order, each CQE (one cache line) at once, and reads
\* the DPU's copy when it executes them.
DmaCopy ==
    /\ arrived < issued
    /\ hostBuf' = [hostBuf EXCEPT ![arrived % N] = bfBuf[arrived % N]]
    /\ arrived' = arrived + 1
    /\ UNCHANGED <<dpuVars, hostVars>>

-----------------------------------------------------------------------------
(* smartns_poll_cq, under the lock of the CQ *)

BeginPoll ==
    /\ call = "idle"
    /\ call' = "polling"
    /\ npolled' = 0
    /\ UNCHANGED <<dpuVars, arrived, hostBuf, head, own, consumer, polled>>

\* Mutant: the host does not look at the owner bit.
HasCqeAlways == TRUE

\* The CQE at head is a new one.
HasCqe == hostBuf[head % N].own = own

\* Mutant: the owner flag is flipped one CQE early.
FlipEarly(h) == (h + 1) % N = 0

\* head is at the start of the ring again.
Flip(h) == h % N = 0

\* One turn of the loop.
PollCqe ==
    /\ call = "polling"
    /\ npolled < MaxEntries
    /\ HasCqe
    /\ Len(polled) < MaxCqes
    /\ polled' = Append(polled, hostBuf[head % N].id)
    /\ npolled' = npolled + 1
    /\ head' = (head + 1) % W
    /\ own' = IF Flip(head') THEN 1 - own ELSE own
    /\ UNCHANGED <<dpuVars, arrived, hostBuf, consumer, call>>

\* num_entries CQEs are polled or there is no new one: the doorbell is written
\* and the lock released.  A call may have asked for fewer than MaxEntries.
EndPoll ==
    /\ call = "polling"
    /\ npolled > 0 \/ ~HasCqe
    /\ consumer' = head
    /\ call' = "idle"
    /\ npolled' = 0
    /\ UNCHANGED <<dpuVars, arrived, hostBuf, head, own, polled>>

Poll == BeginPoll \/ PollCqe \/ EndPoll

Next == WriteCqe \/ DmaCopy \/ Poll

\* The DMA engine works off its queue and the application polls again and again
\* (the loops of test/test_context.cpp): whatever step of a poll is possible is
\* taken.
Fairness == WF_vars(DmaCopy) /\ WF_vars(Poll)

Spec == Init /\ [][Next]_vars /\ Fairness

-----------------------------------------------------------------------------
(* Properties *)

\* Every variable keeps its type.
TypeOK ==
    /\ dpuHead \in Slot
    /\ dpuOwn \in Bit
    /\ bfBuf \in [Slot -> Cqe]
    /\ issued \in Nat
    /\ arrived \in Nat
    /\ hostBuf \in [Slot -> Cqe]
    /\ head \in 0 .. W - 1
    /\ own \in Bit
    /\ consumer \in 0 .. W - 1
    /\ call \in {"idle", "polling"}
    /\ npolled \in Nat
    /\ polled \in Seq(Int)

\* The host polls every completion once and in the order written, and never a
\* CQE of an earlier turn or an earlier ring.
CqeFifo == \A i \in 1 .. Len(polled) : polled[i] = i - 1

\* The owner bit tells exactly whether a CQE not polled yet has arrived.
CqeBitExact == HasCqe <=> Len(polled) < arrived

\* Every CQE the DPU writes is polled.
EveryCqePolled ==
    \A i \in 1 .. MaxCqes : issued >= i ~> Len(polled) >= i

\* No CQE of an earlier ring is taken for one of this ring.
NoStaleCqe == \A i \in 1 .. Len(polled) : polled[i] # Stale

(* The inductive invariant *)

\* The CQE of completion p.
CqeAt(p) == [own |-> OwnAt(p), id |-> p]

\* The host follows the DMA engine, which follows the DPU, all within a ring.
CqeCursorOrder ==
    /\ Len(polled) <= arrived
    /\ arrived <= issued
    /\ issued - Len(polled) <= MaxInFlight

\* Indexes and owner flags are determined by the free-running cursors.
CqeCursorValues ==
    /\ dpuHead = issued % N
    /\ dpuOwn = OwnAt(issued)
    /\ head = Len(polled) % W
    /\ own = OwnAt(Len(polled))
    /\ call = "idle" => consumer = head

\* Each copy holds the last N CQEs written or copied to it; before the end of
\* the first turn the host's holds zeroes behind them.
CqeSlots ==
    /\ \A p \in 0 .. issued - 1 : issued - N <= p => bfBuf[p % N] = CqeAt(p)
    /\ \A p \in 0 .. arrived - 1 : arrived - N <= p => hostBuf[p % N] = CqeAt(p)
    /\ \A i \in Slot : arrived <= i => hostBuf[i].own = 0

\* Cursors, flags and both copies of the ring agree at every step.
CqInv ==
    /\ TypeOK
    /\ CqeCursorOrder
    /\ CqeCursorValues
    /\ CqeSlots
    /\ CqeFifo

-----------------------------------------------------------------------------
\* The completion ring is a bounded FIFO queue.
Queue ==
    INSTANCE WorkQueue WITH
        Capacity <- MaxInFlight,
        MaxPosts <- MaxCqes,
        posted <- issued,
        queue <- [i \in 1 .. issued - Len(polled) |-> Len(polled) + i - 1],
        got <- polled

QueueSpec == Queue!Spec
=============================================================================
