------------------------------ MODULE WqeRing ------------------------------
(***************************************************************************)
(* A ring of work-queue entries shared by the host library and the DPU.    *)
(* The host writes WQEs to its copy of the ring (lib/smartns_dv.cpp,       *)
(* smartns_post_send and smartns_post_recv) and has them copied to the     *)
(* DPU's memory by DMA requests of dma_batch_size WQEs (lib/smartns_dv.h,  *)
(* smartns_dma_wq).  The DPU learns of a new WQE from its owner bit alone: *)
(* the bit the host writes flips on every turn around the ring.            *)
(*                                                                         *)
(* WqeRing is the send ring for Batch = 1 (dpu_datapath_send_wq) and the   *)
(* receive ring of a queue pair for Batch = 4 (dpu_recv_wq).  A WQE is     *)
(* abstracted to its owner bit and cur_pos, the number of its request.     *)
(* Counters that run freely in the code (head, tail, start_index) do so    *)
(* here, up to MaxPosts.                                                   *)
(***************************************************************************)
EXTENDS Integers, Sequences

CONSTANTS
    N,            \* wqe_cnt
    Batch,        \* dma_wq.dma_batch_size
    SignalBatch,  \* dma_wq.signal_batch_size
    MaxDma,       \* dma_wq.max_num
    MaxList,      \* bound: work requests in the list of one call
    MaxPosts      \* bound: work requests posted in all

ASSUME WqeRingAssumption ==
    /\ N \in Nat \ {0}
    /\ Batch \in Nat \ {0}
    /\ N % Batch = 0
    /\ SignalBatch \in Nat
    /\ MaxDma \in Nat
    /\ MaxList \in Nat
    /\ MaxPosts \in Nat

VARIABLES
    call,        \* the host's call: idle, posting, or how the process ended
    todo,        \* work requests of the list still to post
    nreq, ind,   \* locals of the call
    head, tail,  \* smartns_send_wq.head, .tail
    own,         \* smartns_send_wq.own_flag
    hostBuf,     \* host_send_wq_buf
    dma,         \* the dma_wq: start_index, dma_index, last_signal_index, finish_index
    signals,     \* wr_ids of the signalled DMA requests not polled yet
    visible,     \* WQEs the DMA engine has copied so far
    bfBuf,       \* bf_datapath_send_wq_buf, the DPU's copy
    dpuHead,     \* dpu_datapath_send_wq.head
    dpuOwn,      \* dpu_datapath_send_wq.own_flag
    received     \* history: cur_pos of the WQEs the DPU took

callVars == <<call, todo, nreq, ind>>
hostVars == <<head, own, hostBuf>>
dmaVars  == <<dma, signals>>
dpuVars  == <<dpuHead, dpuOwn, received>>
vars == <<callVars, hostVars, tail, dmaVars, visible, bfBuf, dpuVars>>

Bit == {0, 1}
Slot == 0 .. N - 1
Wqe == [own : Bit, pos : Nat]

\* Both copies of the ring are zeroed when the device is opened, own_flag
\* starts at 1 on both sides.
Init ==
    /\ call = "idle"
    /\ todo = 0
    /\ nreq = 0
    /\ ind = 0
    /\ head = 0
    /\ tail = 0
    /\ own = 1
    /\ hostBuf = [i \in Slot |-> [own |-> 0, pos |-> 0]]
    /\ dma = [start |-> 0, index |-> 0, lastSignal |-> 0, finish |-> 0]
    /\ signals = {}
    /\ visible = 0
    /\ bfBuf = [i \in Slot |-> [own |-> 0, pos |-> 0]]
    /\ dpuHead = 0
    /\ dpuOwn = 1
    /\ received = <<>>

-----------------------------------------------------------------------------
(* smartns_dma_wq *)

\* Mutant: the batch is issued one WQE late.
FlushesLate(d) == d.start > d.index /\ d.start - d.index > Batch

\* flush_dma_req issues a request only for a full batch.
Flushes(d) == d.start > d.index /\ d.start - d.index >= Batch

\* The flushed request asks for a completion.
Signals(d) == d.start - d.lastSignal >= SignalBatch

FlushDmaReq(d) ==
    IF Flushes(d)
      THEN [d EXCEPT !.index = d.start,
                     !.lastSignal = IF Signals(d) THEN d.start ELSE @]
      ELSE d

\* step_dma_req, once its assertion holds.
StepDmaReq(d) == FlushDmaReq([d EXCEPT !.start = @ + 1])

\* The assertion of step_dma_req.
DmaFull(d) == d.start + 1 - d.finish > MaxDma

-----------------------------------------------------------------------------
(* smartns_post_send, smartns_post_recv: the host, under the ring's lock *)

\* The host process has not ended in exit(1) or a failed assertion.
Alive == call \in {"idle", "posting"}

\* The call takes the lock and computes ind.
BeginPost(n) ==
    /\ call = "idle"
    /\ head + n <= MaxPosts
    /\ call' = "posting"
    /\ todo' = n
    /\ nreq' = 0
    /\ ind' = head % N
    /\ UNCHANGED <<hostVars, tail, dmaVars, visible, bfBuf, dpuVars>>

\* Mutant: the ring is taken for full one entry too late.
RingFullLate == head - tail + nreq > N

\* The ring is full.
RingFull == head - tail + nreq >= N

\* "post send wq full": exit(1).
PostFull ==
    /\ call = "posting"
    /\ todo > 0
    /\ RingFull
    /\ call' = "exit"
    /\ UNCHANGED <<todo, nreq, ind, hostVars, tail, dmaVars, visible, bfBuf,
                   dpuVars>>

\* The assertion of step_dma_req fails.  What the call has written by then to
\* memory of its own is not read again and left out.
PostDmaFull ==
    /\ call = "posting"
    /\ todo > 0
    /\ ~RingFull
    /\ DmaFull(dma)
    /\ call' = "assert"
    /\ UNCHANGED <<todo, nreq, ind, hostVars, tail, dmaVars, visible, bfBuf,
                   dpuVars>>

\* Mutant: the owner flag is not flipped at the end of the ring.
OwnKept(o, i) == o

\* own_flag after slot i is written: flipped after the last one.
OwnAfter(o, i) == IF i + 1 = N THEN 1 - o ELSE o

\* Mutant: the index is not wrapped at the end of the ring.
NextSlotUnwrapped(i) == i + 1

\* The slot after slot i.
NextSlot(i) == IF i + 1 = N THEN 0 ELSE i + 1

\* One turn of the loop: a WQE is written and stepped through the DMA queue;
\* after the last slot the DMA queue is flushed again, ind and own_flag turn.
PostWr ==
    /\ call = "posting"
    /\ todo > 0
    /\ ~RingFull
    /\ ~DmaFull(dma)
    /\ hostBuf' = [hostBuf EXCEPT ![ind] = [own |-> own, pos |-> head + nreq]]
    /\ dma' = IF ind + 1 = N THEN FlushDmaReq(StepDmaReq(dma)) ELSE StepDmaReq(dma)
    /\ signals' = IF dma'.lastSignal # dma.lastSignal
                    THEN signals \cup {dma'.lastSignal} ELSE signals
    /\ own' = OwnAfter(own, ind)
    /\ ind' = NextSlot(ind)
    /\ nreq' = nreq + 1
    /\ todo' = todo - 1
    /\ UNCHANGED <<call, head, tail, visible, bfBuf, dpuVars>>

\* The end of the call: head is published, the DMA queue flushed and its
\* completion queue polled, the lock released.
EndPost ==
    /\ call = "posting"
    /\ todo = 0
    /\ head' = head + nreq
    /\ nreq' = 0
    /\ \E polled \in {dma.finish} \cup {s \in signals : s <= visible} :
         LET flushed == IF nreq > 0 THEN FlushDmaReq(dma) ELSE dma
         IN  /\ dma' = [flushed EXCEPT !.finish = polled]
             /\ signals' = {s \in signals : s > polled}
                             \cup (IF flushed.lastSignal # dma.lastSignal
                                     THEN {flushed.lastSignal} ELSE {})
    /\ call' = "idle"
    /\ UNCHANGED <<todo, ind, own, hostBuf, tail, visible, bfBuf, dpuVars>>

\* smartns_poll_cq, in another thread and not under the ring's lock: the CQE
\* of request k - 1 moves tail to k.
PollCq(k) ==
    /\ Alive
    /\ tail < k
    /\ k <= Len(received)
    /\ tail' = k
    /\ UNCHANGED <<callVars, hostVars, dmaVars, visible, bfBuf, dpuVars>>

-----------------------------------------------------------------------------
(* The NIC's DMA engine.  Not part of the source: it executes the requests of
   one queue in order, a WQE (one cache line) at a time. *)

DmaCopy ==
    /\ visible < dma.index
    /\ bfBuf' = [bfBuf EXCEPT ![visible % N] = hostBuf[visible % N]]
    /\ visible' = visible + 1
    /\ UNCHANGED <<callVars, hostVars, tail, dmaVars, dpuVars>>

-----------------------------------------------------------------------------
(* dpu_datapath_send_wq, dpu_recv_wq: the DPU *)

\* Mutant: the DPU does not look at the owner bit.
HasWqeAlways == TRUE

\* get_next_wqe: the WQE at head is the host's new one.
HasWqe == bfBuf[dpuHead].own = dpuOwn

\* get_next_wqe and step_wq.
TakeWqe ==
    /\ HasWqe
    /\ Len(received) < MaxPosts
    /\ received' = Append(received, bfBuf[dpuHead].pos)
    /\ dpuOwn' = OwnAfter(dpuOwn, dpuHead)
    /\ dpuHead' = NextSlot(dpuHead)
    /\ UNCHANGED <<callVars, hostVars, tail, dmaVars, visible, bfBuf>>

-----------------------------------------------------------------------------
Post == PostFull \/ PostDmaFull \/ PostWr \/ EndPost

Next ==
    \/ \E n \in 1 .. MaxList : BeginPost(n)
    \/ Post
    \/ \E k \in 1 .. MaxPosts : PollCq(k)
    \/ DmaCopy
    \/ TakeWqe

\* A call runs to its end, the DMA engine works off the queue of a live process
\* and the datapath thread polls the ring forever (server_datapath).
Fairness == WF_vars(Post) /\ WF_vars(Alive /\ DmaCopy) /\ WF_vars(TakeWqe)

Spec == Init /\ [][Next]_vars /\ Fairness

-----------------------------------------------------------------------------
(* Properties *)

\* WQEs written to the ring so far.
Written == head + nreq

\* Every variable keeps its type.
TypeOK ==
    /\ call \in {"idle", "posting", "exit", "assert"}
    /\ todo \in Nat
    /\ nreq \in Nat
    /\ ind \in Slot
    /\ head \in Nat
    /\ tail \in Nat
    /\ own \in Bit
    /\ hostBuf \in [Slot -> Wqe]
    /\ dma \in [start : Nat, index : Nat, lastSignal : Nat, finish : Nat]
    /\ signals \in SUBSET Nat
    /\ visible \in Nat
    /\ bfBuf \in [Slot -> Wqe]
    /\ dpuHead \in Slot
    /\ dpuOwn \in Bit
    /\ received \in Seq(Nat)

\* The DPU takes every request once and in the order posted (cur_pos of the
\* WQEs it finds by their owner bits).
Fifo == \A i \in 1 .. Len(received) : received[i] = i - 1

\* The owner bit tells exactly whether a WQE not taken yet has arrived: no WQE
\* of an earlier turn around the ring is taken for a new one, none is missed.
OwnerBitExact == HasWqe <=> Len(received) < visible

\* The host never writes over a WQE that is still to be copied or taken.
NoOverrun == Written - Len(received) <= N

\* A DMA request stays inside the ring: none runs over its end.
DmaInsideRing ==
    [][dma'.index # dma.index =>
         (dma.index % N) + (dma'.index - dma.index) <= N]_vars

\* With a batch of one every posted request reaches the DPU, unless the process
\* ends first.
EveryWqeTaken ==
    \A i \in 1 .. MaxPosts : Written >= i ~> (Len(received) >= i \/ ~Alive)

(* The inductive invariant: what the four cursors say of the slots. *)

\* The owner bit of the WQE of request p.
OwnAt(p) == 1 - ((p \div N) % 2)

\* The WQE of request p.
WqeAt(p) == [own |-> OwnAt(p), pos |-> p]

\* The DPU follows the DMA engine, which follows the host; tail comes last.
CursorOrder ==
    /\ tail <= Len(received)
    /\ Len(received) <= visible
    /\ visible <= dma.index
    /\ dma.index <= Written
    /\ Written - tail <= N

\* A call's locals, start_index, the wrapped indexes and the owner flags are
\* determined by the free-running cursors.
CursorValues ==
    /\ call = "idle" => nreq = 0
    /\ call = "posting" => ind = Written % N /\ Written + todo <= MaxPosts
    /\ dma.start = Written
    /\ own = OwnAt(Written)
    /\ dpuHead = Len(received) % N
    /\ dpuOwn = OwnAt(Len(received))

\* DMA requests were issued in full batches only.
DmaAligned == dma.index % Batch = 0 /\ dma.start - dma.index < Batch

\* The host's copy holds the last N requests written.
HostSlots ==
    \A p \in 0 .. Written - 1 : Written - N <= p => hostBuf[p % N] = WqeAt(p)

\* The DPU's copy holds the last N requests copied, and zeroes before the end
\* of the first turn.
DpuSlots ==
    /\ \A p \in 0 .. visible - 1 : visible - N <= p => bfBuf[p % N] = WqeAt(p)
    /\ \A i \in Slot : visible <= i => bfBuf[i].own = 0

\* Cursors, flags and both copies of the ring agree at every step.
RingInv ==
    /\ TypeOK
    /\ CursorOrder
    /\ CursorValues
    /\ DmaAligned
    /\ HostSlots
    /\ DpuSlots
    /\ Fifo

-----------------------------------------------------------------------------
\* The ring with its two copies, its DMA queue and its owner bits is a bounded
\* FIFO queue.
Queue ==
    INSTANCE WorkQueue WITH
        Capacity <- N,
        posted <- Written,
        queue <- [i \in 1 .. Written - Len(received) |-> Len(received) + i - 1],
        got <- received

QueueSpec == Queue!Spec
=============================================================================
