-------------------------- MODULE SendCompletions --------------------------
(***************************************************************************)
(* How completions free the slots of a send ring.  Several queue pairs may *)
(* post to one send ring (smartns_create_qp picks it by sq_sig_all); each  *)
(* slot keeps the wr_id of its request.  A queue pair's requests complete  *)
(* in order, those of different queue pairs in any order.  Only requests   *)
(* posted with IBV_SEND_SIGNALED have a CQE, with the request's position   *)
(* cur_pos; smartns_poll_cq looks up the wr_id by it and moves tail behind *)
(* it (lib/smartns_dv.cpp).  A CQ is the FIFO queue that CompletionRing    *)
(* implements, the way from the ring to the DPU the one WqeRing implements.*)
(***************************************************************************)
EXTENDS Integers, Sequences

CONSTANTS
    QPs, CQs,
    SendCq,     \* the send CQ of each queue pair
    N,          \* wqe_cnt of the send ring
    W,          \* 2^32: head, tail and cur_pos are 32 bits wide
    MaxPosts    \* bound: requests posted in all

ASSUME SendCompletionsAssumption ==
    /\ SendCq \in [QPs -> CQs]
    /\ N \in Nat \ {0}
    /\ W \in Nat
    /\ W % N = 0
    /\ 2 * N <= W
    /\ MaxPosts \in Nat

VARIABLES
    process,   \* the host process: running, or where it called exit(1)
    head,      \* smartns_send_wq.head
    tail,      \* smartns_send_wq.tail
    wrid,      \* smartns_send_wq.wrid
    posted,    \* requests posted so far; a request's number is its wr_id
    pending,   \* the requests of each queue pair the DPU has not completed
    cq,        \* the CQEs of each CQ not polled yet
    polling,   \* CQs whose poll has read a wr_id and not moved tail yet
    wc,        \* the last work completion: its wr_id and the request meant
    reported   \* history: number of the last request reported per queue pair

vars == <<process, head, tail, wrid, posted, pending, cq, polling, wc, reported>>

None == -1
Slot == 0 .. N - 1
Counter == 0 .. W - 1

\* A request as the DPU keeps it; number is a history field.
Request == [cur_pos : Counter, signal : BOOLEAN, number : Nat]

\* A CQE of the send side.
Cqe == [qpn : QPs, wqe_counter : Counter, number : Nat]

Init ==
    /\ process = "running"
    /\ head = 0
    /\ tail = 0
    /\ wrid = [i \in Slot |-> None]
    /\ posted = 0
    /\ pending = [q \in QPs |-> <<>>]
    /\ cq = [c \in CQs |-> <<>>]
    /\ polling = [c \in CQs |-> FALSE]
    /\ wc = [wr_id |-> None, number |-> None]
    /\ reported = [q \in QPs |-> None]

-----------------------------------------------------------------------------
(* smartns_post_send, a list of one request *)

\* Mutant: the ring is taken for full one entry too late.
RingFullLate == (head - tail) % W > N

\* head - tail in 32 bits reaches the size of the ring.
RingFull == (head - tail) % W >= N

\* "post send wq full": exit(1).
PostFull ==
    /\ process = "running"
    /\ posted < MaxPosts
    /\ RingFull
    /\ process' = "full"
    /\ UNCHANGED <<head, tail, wrid, posted, pending, cq, polling, wc, reported>>

PostSend(q, signal) ==
    /\ process = "running"
    /\ posted < MaxPosts
    /\ ~RingFull
    /\ wrid' = [wrid EXCEPT ![head % N] = posted]
    /\ pending' = [pending EXCEPT ![q] =
         Append(@, [cur_pos |-> head, signal |-> signal, number |-> posted])]
    /\ head' = (head + 1) % W
    /\ posted' = posted + 1
    /\ UNCHANGED <<process, tail, cq, polling, wc, reported>>

-----------------------------------------------------------------------------
(* complete_send_wqe, on the DPU *)

\* Mutant: every request has a CQE with the position of the one after it.
CqePosNext(r) == (r.cur_pos + 1) % W

\* wqe_counter of a request's CQE.
CqePos(r) == r.cur_pos

Complete(q) ==
    /\ pending[q] # <<>>
    /\ LET r == Head(pending[q])
       IN  cq' = IF r.signal
                   THEN [cq EXCEPT ![SendCq[q]] =
                          Append(@, [qpn |-> q, wqe_counter |-> CqePos(r),
                                     number |-> r.number])]
                   ELSE cq
    /\ pending' = [pending EXCEPT ![q] = Tail(@)]
    /\ UNCHANGED <<process, head, tail, wrid, posted, polling, wc, reported>>

-----------------------------------------------------------------------------
(* smartns_poll_cq, a CQE of kind MLX5_CQE_REQ *)

\* Mutant: the test for counters that have wrapped around is left out.
WrappedNever(counter) == FALSE

\* tail is behind the counter because the counter has wrapped around.
Wrapped(counter) == counter < N /\ tail >= W - 1 - N

\* Mutant: tail is wider than 32 bits.
TailUnwrapped(counter) == counter + 1

\* tail after a request's completion.
TailAfter(counter) == (counter + 1) % W

\* The CQE's position is not behind tail.
Legal(counter) == tail <= counter \/ Wrapped(counter)

\* A turn of the loop takes the next CQE and reads its wr_id.  Not under the
\* lock of the send ring: a request may be posted before tail is moved.
LookUp(c) ==
    /\ process = "running"
    /\ ~polling[c]
    /\ cq[c] # <<>>
    /\ LET cqe == Head(cq[c])
       IN  /\ wc' = [wr_id |-> wrid[cqe.wqe_counter % N], number |-> cqe.number]
           /\ reported' = [reported EXCEPT ![cqe.qpn] = cqe.number]
    /\ polling' = [polling EXCEPT ![c] = TRUE]
    /\ UNCHANGED <<head, tail, wrid, posted, pending, cq, process>>

\* The turn ends: tail is moved and the CQE stepped over, or exit(1).
MoveTail(c) ==
    /\ process = "running"
    /\ polling[c]
    /\ LET counter == Head(cq[c]).wqe_counter
       IN  IF Legal(counter)
             THEN /\ tail' = TailAfter(counter)
                  /\ cq' = [cq EXCEPT ![c] = Tail(@)]
                  /\ UNCHANGED process
             ELSE /\ process' = "illegal tail"
                  /\ UNCHANGED <<tail, cq>>
    /\ polling' = [polling EXCEPT ![c] = FALSE]
    /\ UNCHANGED <<head, wrid, posted, pending, wc, reported>>

PollCqe(c) == LookUp(c) \/ MoveTail(c)

-----------------------------------------------------------------------------
Next ==
    \/ PostFull
    \/ \E q \in QPs, signal \in BOOLEAN : PostSend(q, signal)
    \/ \E q \in QPs : Complete(q)
    \/ \E c \in CQs : PollCqe(c)

Spec == Init /\ [][Next]_vars

-----------------------------------------------------------------------------
(* Properties *)

\* Every variable keeps its type.
TypeOK ==
    /\ process \in {"running", "full", "illegal tail"}
    /\ head \in Counter
    /\ tail \in Counter
    /\ wrid \in [Slot -> Nat \cup {None}]
    /\ posted \in Nat
    /\ pending \in [QPs -> Seq(Request)]
    /\ cq \in [CQs -> Seq(Cqe)]
    /\ polling \in [CQs -> BOOLEAN]
    /\ wc \in [wr_id : Nat \cup {None}, number : Nat \cup {None}]
    /\ reported \in [QPs -> Nat \cup {None}]

\* A work completion has the wr_id of the request that completed.
WrIdExact == wc.wr_id = wc.number

\* The slot of a request is not used again before it is reported: neither that
\* of one the DPU still has nor that of one whose CQE waits.
SlotsKept ==
    /\ \A q \in QPs : \A i \in 1 .. Len(pending[q]) :
         wrid[pending[q][i].cur_pos % N] = pending[q][i].number
    /\ \A c \in CQs : \A i \in 1 .. Len(cq[c]) :
         wrid[cq[c][i].wqe_counter % N] = cq[c][i].number

\* Between polls tail is behind the last request reported: a slot is free
\* exactly when its request, or a later one, has been reported.  A poll that
\* ends the process with "illegal tail" has reported a request and leaves tail
\* where it was.
TailExact == \A q \in QPs : ~polling[SendCq[q]] => tail = (reported[q] + 1) % W

\* The process never finds an illegal tail.
NoIllegalTail == process # "illegal tail"
=============================================================================
