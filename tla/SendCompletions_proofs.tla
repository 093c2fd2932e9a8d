----------------------- MODULE SendCompletions_proofs -----------------------
(***************************************************************************)
(* A send ring used by one queue pair is correct for every size and width   *)
(* of its counters: slots are kept until their requests are reported, work  *)
(* completions carry the right wr_id, and smartns_poll_cq never finds an    *)
(* illegal tail.                                                            *)
(***************************************************************************)
EXTENDS SendCompletions, RingArith

\* One queue pair on the send ring: what separates it from a shared ring.
OneQp == \A p, q \in QPs : p = q

\* The first request of a queue pair that the DPU has not completed.
Uncompleted(q) == posted - Len(pending[q])

\* The DPU holds the last requests posted, in order.
PendingOrder ==
    \A q \in QPs :
      /\ Len(pending[q]) <= posted
      /\ reported[q] < Uncompleted(q)
      /\ \A i \in 1 .. Len(pending[q]) :
           /\ pending[q][i].number = Uncompleted(q) + i - 1
           /\ pending[q][i].cur_pos = pending[q][i].number % W

\* CQEs are in the order of their requests, all of them completed.
CqOrder ==
    \A c \in CQs :
      /\ \A i \in 1 .. Len(cq[c]) :
           /\ SendCq[cq[c][i].qpn] = c
           /\ \A q \in QPs : cq[c][i].qpn = q => cq[c][i].number < Uncompleted(q)
           /\ cq[c][i].wqe_counter = cq[c][i].number % W
      /\ \A i, j \in 1 .. Len(cq[c]) : i < j => cq[c][i].number < cq[c][j].number

\* A poll in the middle of a turn has reported the first CQE, otherwise none is
\* reported.
PollOrder ==
    \A c \in CQs :
      /\ polling[c] => /\ cq[c] # <<>>
                       /\ reported[Head(cq[c]).qpn] = Head(cq[c]).number
      /\ ~polling[c] => \A i \in 1 .. Len(cq[c]) :
                          reported[cq[c][i].qpn] < cq[c][i].number

\* t is the count tail stands for.
TailIs(t) ==
    /\ tail = t % W
    /\ t <= posted
    /\ posted - t <= N
    /\ \A q \in QPs : t <= Uncompleted(q)
    /\ \A c \in CQs : \A i \in 1 .. Len(cq[c]) : t <= cq[c][i].number
    /\ \A q \in QPs : ~polling[SendCq[q]] => t = reported[q] + 1

\* The last N requests posted have their wr_id in their slots.
WrIds == \A n \in Nat : n < posted /\ posted <= n + N => wrid[n % N] = n

SendInv ==
    /\ TypeOK
    /\ head = posted % W
    /\ PendingOrder
    /\ CqOrder
    /\ PollOrder
    /\ \E t \in Nat : TailIs(t)
    /\ WrIds
    /\ WrIdExact
    /\ NoIllegalTail

-----------------------------------------------------------------------------
(* Constants and types *)

LEMMA Constants ==
    /\ N \in Nat /\ N > 0
    /\ W \in Nat /\ W > 0 /\ W % N = 0 /\ N < W /\ 2 * N <= W
    /\ \A q \in QPs : SendCq[q] \in CQs
BY SendCompletionsAssumption

\* The elements of the queues.
LEMMA Elements ==
    ASSUME TypeOK
    PROVE  /\ posted \in Nat
           /\ \A q \in QPs :
                /\ pending[q] \in Seq(Request) /\ Len(pending[q]) \in Nat
                /\ reported[q] \in Int /\ reported[q] >= -1
                /\ Uncompleted(q) \in Int
                /\ \A i \in 1 .. Len(pending[q]) : pending[q][i] \in Request
           /\ \A c \in CQs :
                /\ cq[c] \in Seq(Cqe) /\ Len(cq[c]) \in Nat
                /\ \A i \in 1 .. Len(cq[c]) : /\ cq[c][i] \in Cqe
                                              /\ cq[c][i].qpn \in QPs
                                              /\ cq[c][i].number \in Nat
                                              /\ cq[c][i].wqe_counter \in Counter
<1>0. /\ pending \in [QPs -> Seq(Request)] /\ cq \in [CQs -> Seq(Cqe)]
      /\ reported \in [QPs -> Nat \cup {None}]
  BY DEF TypeOK
<1>1. \A q \in QPs : /\ pending[q] \in Seq(Request) /\ Len(pending[q]) \in Nat
                     /\ \A i \in 1 .. Len(pending[q]) : pending[q][i] \in Request
  BY <1>0
<1>2. \A q \in QPs : reported[q] \in Int /\ reported[q] >= -1
  BY <1>0 DEF None
<1>3. \A c \in CQs : /\ cq[c] \in Seq(Cqe) /\ Len(cq[c]) \in Nat
                     /\ \A i \in 1 .. Len(cq[c]) : cq[c][i] \in Cqe
  BY <1>0
<1>4. \A e \in Cqe : e.qpn \in QPs /\ e.number \in Nat /\ e.wqe_counter \in Counter
  BY DEF Cqe
<1>5. posted \in Nat
  BY DEF TypeOK
<1> QED
  BY <1>1, <1>2, <1>3, <1>4, <1>5 DEF Uncompleted

\* The first element of a queue that is not empty.
LEMMA First ==
    ASSUME NEW S, NEW s \in Seq(S), s # <<>>
    PROVE  /\ Len(s) >= 1 /\ 1 \in 1 .. Len(s)
           /\ Head(s) = s[1]
           /\ Tail(s) \in Seq(S)
           /\ Len(Tail(s)) = Len(s) - 1
           /\ \A i \in 1 .. Len(Tail(s)) : Tail(s)[i] = s[i + 1] /\ i + 1 \in 1 .. Len(s)
<1>1. Len(s) \in Nat /\ Len(s) >= 1
  BY EmptySeq
<1>2. /\ Tail(s) \in Seq(S)
      /\ Len(Tail(s)) = Len(s) - 1
      /\ \A i \in 1 .. Len(Tail(s)) : Tail(s)[i] = s[i + 1]
  BY HeadTailProperties
<1>3. Head(s) = s[1]
  OBVIOUS
<1>4. \A i \in 1 .. Len(Tail(s)) : i + 1 \in 1 .. Len(s)
  BY <1>1, <1>2
<1> QED
  BY <1>1, <1>2, <1>3, <1>4

\* The slot of a counter is that of the request it stands for.
LEMMA SlotOfRequest ==
    ASSUME NEW n \in Nat
    PROVE  (n % W) % N = n % N /\ n % W \in Counter /\ n % N \in Slot
<1>1. (n % W) % N = n % N
  BY Constants, SlotOfWrapped
<1>2. n % W \in 0 .. W - 1 /\ n % N \in 0 .. N - 1
  BY Constants, SlotAndTurn
<1> QED
  BY <1>1, <1>2 DEF Counter, Slot

-----------------------------------------------------------------------------
(* The invariant is inductive *)

LEMMA SendInit == Init => SendInv
<1> SUFFICES ASSUME Init
             PROVE  SendInv
  OBVIOUS
<1>1. 0 % W = 0 /\ 0 \in Counter
  BY Constants, SlotFirstTurn DEF Counter
<1>2. /\ \A q \in QPs : pending[q] = <<>> /\ Len(pending[q]) = 0 /\ reported[q] = -1
      /\ \A c \in CQs : cq[c] = <<>> /\ Len(cq[c]) = 0 /\ ~polling[c]
  BY EmptySeq DEF Init, None
<1>3. TypeOK
  <2>1. /\ pending \in [QPs -> Seq(Request)] /\ cq \in [CQs -> Seq(Cqe)]
    BY EmptySeq DEF Init
  <2>2. /\ head \in Counter /\ tail \in Counter /\ posted \in Nat
        /\ process \in {"running", "full", "illegal tail"}
    BY <1>1 DEF Init
  <2>3. /\ wrid \in [Slot -> Nat \cup {None}]
        /\ polling \in [CQs -> BOOLEAN]
        /\ wc \in [wr_id : Nat \cup {None}, number : Nat \cup {None}]
        /\ reported \in [QPs -> Nat \cup {None}]
    BY DEF Init
  <2> QED
    BY <2>1, <2>2, <2>3 DEF TypeOK
<1>4. PendingOrder
  <2>1. posted = 0
    BY DEF Init
  <2>2. \A q \in QPs : Len(pending[q]) = 0 /\ reported[q] = -1
    BY <1>2
  <2>3. ASSUME NEW q \in QPs
        PROVE  /\ Uncompleted(q) = 0 /\ Len(pending[q]) <= posted
               /\ reported[q] < Uncompleted(q)
               /\ \A i \in 1 .. Len(pending[q]) : FALSE
    <3>1. Len(pending[q]) = 0 /\ reported[q] = -1
      BY <2>2
    <3>2. Uncompleted(q) = posted - 0
      BY <3>1 DEF Uncompleted
    <3>3. Uncompleted(q) = 0
      BY <2>1, <3>2
    <3> QED
      BY <2>1, <3>1, <3>3
  <2> QED
    BY <2>3 DEF PendingOrder
<1>5. CqOrder /\ PollOrder
  BY <1>2 DEF CqOrder, PollOrder
<1>6. TailIs(0)
  BY <1>1, <1>2, Constants DEF Init, TailIs, Uncompleted
<1>7. WrIds /\ WrIdExact /\ NoIllegalTail
  BY DEF Init, WrIds, WrIdExact, NoIllegalTail
<1> QED
  BY <1>1, <1>3, <1>4, <1>5, <1>6, <1>7 DEF Init, SendInv

\* Subtracting 32-bit counters tells exactly whether a slot is free.
LEMMA FreeSlot ==
    ASSUME SendInv, ~RingFull, NEW t \in Nat, TailIs(t)
    PROVE  posted - t < N
<1>1. /\ N \in Nat /\ W \in Nat /\ W > 0 /\ N < W
      /\ posted \in Nat /\ t <= posted /\ posted - t <= N
      /\ head = posted % W /\ tail = t % W
  BY Constants DEF SendInv, TypeOK, TailIs
<1>2. posted - t < W
  BY <1>1
<1>3. ((posted % W) - (t % W)) % W = posted - t
  BY <1>1, <1>2, WrappedDifference
<1>4. posted - t \in Int /\ ~(posted - t >= N)
  BY <1>1, <1>3 DEF RingFull
<1> QED
  BY <1>1, <1>4

LEMMA PostSendStep ==
    ASSUME OneQp, SendInv,
           NEW q \in QPs, NEW signal \in BOOLEAN, PostSend(q, signal)
    PROVE  SendInv'
<1> DEFINE r == [cur_pos |-> head, signal |-> signal, number |-> posted]
<1>a. /\ TypeOK
      /\ PendingOrder /\ CqOrder /\ PollOrder
      /\ WrIds /\ WrIdExact /\ NoIllegalTail
  BY DEF SendInv
<1>h. head = posted % W
  BY DEF SendInv
<1>0. PICK t \in Nat : TailIs(t)
  BY DEF SendInv
<1>1. posted \in Nat
  BY <1>a, Elements
<1>p. posted' = posted + 1 /\ posted + 1 \in Nat
  BY <1>1 DEF PostSend
<1>n. N \in Nat /\ N > 0 /\ W \in Nat /\ W > 0
  BY Constants
<1>t. t <= posted /\ posted - t < N
  BY <1>0, FreeSlot DEF PostSend, TailIs
<1>s. head % N = posted % N /\ head % N \in Slot
  BY <1>1, <1>h, SlotOfRequest
<1>2. /\ process' = process /\ tail' = tail /\ cq' = cq /\ polling' = polling
      /\ wc' = wc /\ reported' = reported
      /\ process # "illegal tail"
  BY DEF PostSend
<1>3. head' = posted' % W /\ head' \in Counter
  <2>1. head' = (head + 1) % W
    BY DEF PostSend
  <2>2. (head + 1) % W = (posted + 1) % W
    BY <1>1, <1>h, <1>n, WrappedStep
  <2>3. (posted + 1) % W \in Counter
    BY <1>1, SlotOfRequest
  <2> QED
    BY <1>p, <2>1, <2>2, <2>3
<1>4. r \in Request
  BY <1>1, <1>h, SlotOfRequest DEF Request
<1>5. /\ pending' \in [QPs -> Seq(Request)]
      /\ pending'[q] = Append(pending[q], r)
      /\ Len(pending'[q]) = Len(pending[q]) + 1
      /\ \A i \in 1 .. Len(pending[q]) : pending'[q][i] = pending[q][i]
      /\ pending'[q][Len(pending[q]) + 1] = r
      /\ \A p \in QPs : p # q => pending'[p] = pending[p]
  <2> HIDE DEF r
  <2>1. pending[q] \in Seq(Request)
    BY <1>a, Elements
  <2>2. /\ Append(pending[q], r) \in Seq(Request)
        /\ Len(Append(pending[q], r)) = Len(pending[q]) + 1
        /\ \A i \in 1 .. Len(pending[q]) : Append(pending[q], r)[i] = pending[q][i]
        /\ Append(pending[q], r)[Len(pending[q]) + 1] = r
    BY <1>4, <2>1, AppendProperties
  <2>3. pending' = [pending EXCEPT ![q] = Append(@, r)]
    BY DEF PostSend, r
  <2>4. /\ pending'[q] = Append(pending[q], r)
        /\ \A p \in QPs : p # q => pending'[p] = pending[p]
    BY <1>a, <2>3 DEF TypeOK
  <2>5. pending' \in [QPs -> Seq(Request)]
    BY <1>a, <2>2, <2>3 DEF TypeOK
  <2> QED
    BY <2>2, <2>4, <2>5
<1> HIDE DEF r
<1>6. wrid' = [wrid EXCEPT ![head % N] = posted]
  BY DEF PostSend
<1>7. TypeOK'
  <2>1. wrid' \in [Slot -> Nat \cup {None}]
    BY <1>a, <1>1, <1>s, <1>6 DEF TypeOK
  <2>2. posted' \in Nat
    BY <1>1, <1>p, <1>2
  <2> QED
    BY <1>a, <1>2, <1>3, <1>5, <2>1, <2>2 DEF TypeOK
<1>8. \A p \in QPs : posted' - Len(pending'[p]) = posted - Len(pending[p])
  <2>2. Len(pending[q]) \in Nat
    BY <1>a, Elements
  <2>3. (posted + 1) - (Len(pending[q]) + 1) = posted - Len(pending[q])
    BY <1>1, <2>2
  <2>4. posted' - Len(pending'[q]) = posted - Len(pending[q])
    BY <1>p, <1>5, <2>3
  <2> QED
    BY <2>4 DEF OneQp
<1>9. PendingOrder'
  <2>1. ASSUME NEW i \in 1 .. Len(pending'[q])
        PROVE  /\ pending'[q][i].number = Uncompleted(q) + i - 1
               /\ pending'[q][i].cur_pos = pending'[q][i].number % W
    <3>1. CASE i \in 1 .. Len(pending[q])
      <4>1. /\ pending[q][i].number = Uncompleted(q) + i - 1
            /\ pending[q][i].cur_pos = pending[q][i].number % W
        BY <1>a, <3>1 DEF PendingOrder
      <4>2. pending'[q][i] = pending[q][i]
        BY <1>5, <3>1
      <4> QED
        BY <4>1, <4>2
    <3>2. CASE i = Len(pending[q]) + 1
      <4>1. pending'[q][i].number = posted /\ pending'[q][i].cur_pos = head
        BY <1>5, <3>2 DEF r
      <4>2. posted = Uncompleted(q) + i - 1
        BY <1>a, <1>1, <3>2, Elements DEF Uncompleted
      <4> QED
        BY <1>h, <4>1, <4>2
    <3>3. Len(pending[q]) \in Nat
      BY <1>a, Elements
    <3> QED
      BY <1>5, <3>1, <3>2, <3>3
  <2>2. Len(pending'[q]) <= posted'
    <3>1. Len(pending[q]) \in Nat /\ Len(pending[q]) <= posted
      BY <1>a, Elements DEF PendingOrder
    <3> QED
      BY <1>1, <1>p, <1>5, <3>1
  <2>3. reported'[q] < Uncompleted(q)'
    BY <1>a, <1>2, <1>8 DEF PendingOrder, Uncompleted
  <2> QED
    BY <1>8, <2>1, <2>2, <2>3, OneQp DEF PendingOrder, Uncompleted, OneQp
<1>10. CqOrder' /\ PollOrder'
  BY <1>a, <1>2, <1>8, ZenonT(60) DEF CqOrder, PollOrder, Uncompleted
<1>11. TailIs(t)'
  <2>1. /\ t <= posted'
        /\ \A p \in QPs : t <= Uncompleted(p)
        /\ \A c \in CQs : \A i \in 1 .. Len(cq[c]) : t <= cq[c][i].number
        /\ \A p \in QPs : ~polling[SendCq[p]] => t = reported[p] + 1
    <3>1. t <= posted'
      BY <1>1, <1>p, <1>t
    <3> QED
      BY <1>0, <3>1 DEF TailIs
  <2>2. posted' - t <= N
    BY <1>1, <1>n, <1>p, <1>t
  <2>3. \A p \in QPs : t <= Uncompleted(p)'
    BY <1>8, <2>1 DEF Uncompleted
  <2>4. tail' = t % W
    BY <1>0, <1>2 DEF TailIs
  <2>5. \A c \in CQs : \A i \in 1 .. Len(cq'[c]) : t <= cq'[c][i].number
    BY <1>2, <2>1
  <2>6. \A p \in QPs : ~polling'[SendCq[p]] => t = reported'[p] + 1
    BY <1>2, <2>1
  <2> QED
    BY <2>1, <2>2, <2>3, <2>4, <2>5, <2>6 DEF TailIs
<1>12. WrIds'
  <2> SUFFICES ASSUME NEW n \in Nat, n < posted', posted' <= n + N
               PROVE  wrid'[n % N] = n
    BY <1>a DEF WrIds
  <2>1. wrid \in [Slot -> Nat \cup {None}] /\ n % N \in Slot
    BY <1>a, SlotOfRequest DEF TypeOK
  <2>2. CASE n = posted
    BY <1>s, <1>6, <2>1, <2>2
  <2>3. CASE n # posted
    <3>1. n < posted /\ posted < n + N
      BY <1>1, <1>n, <1>p, <2>3
    <3>2. n % N # posted % N
      BY <1>1, <1>n, <3>1, SlotDistinct
    <3>3. wrid[n % N] = n
      <4>1. posted <= n + N
        BY <1>1, <1>n, <3>1
      <4> QED
        BY <1>a, <3>1, <4>1 DEF WrIds
    <3> QED
      BY <1>s, <1>6, <2>1, <3>2, <3>3
  <2> QED
    BY <2>2, <2>3
<1>13. WrIdExact' /\ NoIllegalTail'
  BY <1>a, <1>2 DEF WrIdExact, NoIllegalTail
<1> QED
  <2>1. (\E u \in Nat : TailIs(u))'
    BY <1>11
  <2> QED
    BY <2>1, <1>3, <1>7, <1>9, <1>10, <1>12, <1>13 DEF SendInv

LEMMA CompleteStep ==
    ASSUME OneQp, SendInv, NEW q \in QPs, Complete(q)
    PROVE  SendInv'
<1> DEFINE r == Head(pending[q])
           c == SendCq[q]
           e == [qpn |-> q, wqe_counter |-> r.cur_pos, number |-> r.number]
<1>a. /\ TypeOK
      /\ PendingOrder /\ CqOrder /\ PollOrder
      /\ WrIds /\ WrIdExact /\ NoIllegalTail
  BY DEF SendInv
<1>h. head = posted % W
  BY DEF SendInv
<1>0. PICK t \in Nat : TailIs(t)
  BY DEF SendInv
<1>1. posted \in Nat /\ Len(pending[q]) \in Nat /\ c \in CQs
  BY <1>a, Elements, Constants
<1>2. /\ process' = process /\ head' = head /\ tail' = tail /\ wrid' = wrid
      /\ posted' = posted /\ polling' = polling /\ wc' = wc /\ reported' = reported
  BY DEF Complete
<1>3. pending' = [pending EXCEPT ![q] = Tail(pending[q])]
  BY DEF Complete
<1>4. /\ Len(pending[q]) >= 1 /\ r = pending[q][1] /\ r \in Request
      /\ Tail(pending[q]) \in Seq(Request)
      /\ Len(Tail(pending[q])) = Len(pending[q]) - 1
      /\ \A i \in 1 .. Len(Tail(pending[q])) :
            /\ Tail(pending[q])[i] = pending[q][i + 1]
            /\ i + 1 \in 1 .. Len(pending[q])
  <2>1. pending[q] \in Seq(Request) /\ pending[q] # <<>>
    BY <1>a, Elements DEF Complete
  <2>2. pending[q][1] \in Request
    BY <1>a, <2>1, Elements, First
  <2> QED
    BY <2>1, <2>2, First
<1>5. /\ pending' \in [QPs -> Seq(Request)]
      /\ pending'[q] = Tail(pending[q])
      /\ Len(pending'[q]) = Len(pending[q]) - 1
  BY <1>a, <1>3, <1>4 DEF TypeOK
<1>6. \A p \in QPs : p = q
  BY DEF OneQp
<1>7. posted' - Len(pending'[q]) = (posted - Len(pending[q])) + 1
  <2>1. posted' = posted
    BY <1>2
  <2>2. Len(pending'[q]) = Len(pending[q]) - 1
    BY <1>5
  <2>3. posted \in Nat /\ Len(pending[q]) \in Nat
    BY <1>1
  <2> QED
    BY <2>1, <2>2, <2>3
<1>q. /\ posted - Len(pending[q]) \in Int
      /\ posted' - Len(pending'[q]) \in Int
      /\ posted - Len(pending[q]) < posted' - Len(pending'[q])
  <2>1. posted \in Nat /\ Len(pending[q]) \in Nat
    BY <1>1
  <2>2. posted - Len(pending[q]) \in Int
    BY <2>1
  <2> QED
    BY <1>7, <2>2
<1>8. r.number = posted - Len(pending[q]) /\ r.cur_pos = r.number % W
  <2>1. /\ pending[q][1].number = Uncompleted(q) + 1 - 1
        /\ pending[q][1].cur_pos = pending[q][1].number % W
    <3>1. 1 \in 1 .. Len(pending[q])
      BY <1>1, <1>4
    <3> QED
      BY <1>a, <3>1 DEF PendingOrder
  <2>2. Uncompleted(q) + 1 - 1 = posted - Len(pending[q])
    BY <1>1 DEF Uncompleted
  <2> QED
    BY <1>4, <2>1, <2>2
<1>9. /\ e \in Cqe
      /\ cq' = IF r.signal THEN [cq EXCEPT ![c] = Append(cq[c], e)] ELSE cq
  BY <1>4 DEF Complete, CqePos, Cqe, Request
<1>10. PendingOrder'
  <2>1. ASSUME NEW i \in 1 .. Len(pending'[q])
        PROVE  /\ pending'[q][i].number = (posted' - Len(pending'[q])) + i - 1
               /\ pending'[q][i].cur_pos = pending'[q][i].number % W
    <3>1. pending'[q][i] = pending[q][i + 1] /\ i + 1 \in 1 .. Len(pending[q])
      BY <1>4, <1>5
    <3>2. /\ pending[q][i + 1].number = Uncompleted(q) + (i + 1) - 1
          /\ pending[q][i + 1].cur_pos = pending[q][i + 1].number % W
      BY <1>a, <3>1 DEF PendingOrder
    <3>3. Uncompleted(q) + (i + 1) - 1 = (posted' - Len(pending'[q])) + i - 1
      <4>1. i \in Int
        OBVIOUS
      <4> QED
        BY <1>7, <1>q, <4>1 DEF Uncompleted
    <3> QED
      BY <3>1, <3>2, <3>3
  <2>2. Len(pending'[q]) <= posted'
    <3>1. Len(pending[q]) <= posted
      BY <1>a DEF PendingOrder
    <3> QED
      BY <1>1, <1>2, <1>5, <3>1
  <2>3. reported'[q] < posted' - Len(pending'[q])
    <3>1. reported[q] < posted - Len(pending[q]) /\ reported[q] \in Int
      BY <1>a, Elements DEF PendingOrder, Uncompleted
    <3> QED
      <4>1. reported'[q] = reported[q]
        BY <1>2
      <4> QED
        BY <1>q, <3>1, <4>1
  <2> QED
    BY <1>6, <2>1, <2>2, <2>3 DEF PendingOrder, Uncompleted
<1>e. /\ e.qpn = q /\ SendCq[q] = c /\ e.number = posted - Len(pending[q])
      /\ e.wqe_counter = e.number % W
  BY <1>8
<1> HIDE DEF e, r, c
<1>11. /\ cq' \in [CQs -> Seq(Cqe)]
       /\ \A d \in CQs : d # c => cq'[d] = cq[d]
       /\ \/ cq'[c] = cq[c]
          \/ /\ Len(cq'[c]) = Len(cq[c]) + 1
             /\ \A i \in 1 .. Len(cq[c]) : cq'[c][i] = cq[c][i]
             /\ cq'[c][Len(cq[c]) + 1] = e
  <2>1. cq \in [CQs -> Seq(Cqe)] /\ cq[c] \in Seq(Cqe)
    BY <1>a, <1>1, Elements DEF TypeOK
  <2>2. /\ Append(cq[c], e) \in Seq(Cqe)
        /\ Len(Append(cq[c], e)) = Len(cq[c]) + 1
        /\ \A i \in 1 .. Len(cq[c]) : Append(cq[c], e)[i] = cq[c][i]
        /\ Append(cq[c], e)[Len(cq[c]) + 1] = e
    BY <1>9, <2>1, AppendProperties
  <2>3. CASE r.signal
    <3>1. cq' = [cq EXCEPT ![c] = Append(cq[c], e)]
      BY <1>9, <2>3
    <3>2. cq'[c] = Append(cq[c], e) /\ \A d \in CQs : d # c => cq'[d] = cq[d]
      BY <1>1, <2>1, <3>1
    <3>3. cq' \in [CQs -> Seq(Cqe)]
      BY <2>1, <2>2, <3>1
    <3> QED
      BY <2>2, <3>2, <3>3
  <2>4. CASE ~r.signal
    BY <1>9, <2>1, <2>4
  <2> QED
    BY <2>3, <2>4
<1>12. TypeOK'
  <2>1. cq' \in [CQs -> Seq(Cqe)]
    BY <1>11
  <2>2. pending' \in [QPs -> Seq(Request)]
    BY <1>5
  <2> QED
    BY <1>a, <1>2, <2>1, <2>2 DEF TypeOK
<1>13. \A i \in 1 .. Len(cq'[c]) : \/ i \in 1 .. Len(cq[c]) /\ cq'[c][i] = cq[c][i]
                                   \/ i = Len(cq[c]) + 1 /\ cq'[c][i] = e
  <2>1. Len(cq[c]) \in Nat
    BY <1>a, <1>1, Elements
  <2> QED
    BY <1>11, <2>1
<1>14. \A i \in 1 .. Len(cq[c]) : /\ cq[c][i].qpn = q
                                 /\ cq[c][i].number \in Nat
                                 /\ cq[c][i].number < e.number
  <2> SUFFICES ASSUME NEW i \in 1 .. Len(cq[c])
               PROVE  /\ cq[c][i].qpn = q
                      /\ cq[c][i].number \in Nat
                      /\ cq[c][i].number < e.number
    OBVIOUS
  <2>1. cq[c][i].qpn = q /\ cq[c][i].number \in Nat
    BY <1>a, <1>1, <1>6, Elements
  <2>2. cq[c][i].number < posted - Len(pending[q])
    BY <1>a, <1>1, <2>1 DEF CqOrder, Uncompleted
  <2> QED
    BY <1>e, <2>1, <2>2
<1>15. CqOrder'
  <2>1. ASSUME NEW d \in CQs, NEW i \in 1 .. Len(cq'[d])
        PROVE  /\ SendCq[cq'[d][i].qpn] = d
               /\ \A p \in QPs : cq'[d][i].qpn = p =>
                    cq'[d][i].number < posted' - Len(pending'[p])
               /\ cq'[d][i].wqe_counter = cq'[d][i].number % W
    <3>1. CASE d = c /\ cq'[d][i] = e
      <4>1. e.number < posted' - Len(pending'[q])
        BY <1>e, <1>q
      <4> QED
        BY <1>e, <1>6, <3>1, <4>1
    <3>2. CASE i \in 1 .. Len(cq[d]) /\ cq'[d][i] = cq[d][i]
      <4>1. /\ SendCq[cq[d][i].qpn] = d
            /\ cq[d][i].wqe_counter = cq[d][i].number % W
        BY <1>a, <3>2 DEF CqOrder
      <4>2. cq[d][i].qpn = q /\ cq[d][i].number \in Nat
        BY <1>a, <1>6, <3>2, Elements
      <4>3. cq[d][i].number < posted - Len(pending[q])
        BY <1>a, <3>2, <4>2 DEF CqOrder, Uncompleted
      <4>4. cq[d][i].number < posted' - Len(pending'[q])
        BY <1>q, <4>2, <4>3
      <4> QED
        BY <1>6, <3>2, <4>1, <4>4
    <3> QED
      BY <1>11, <1>13, <3>1, <3>2
  <2>2. ASSUME NEW d \in CQs, NEW i \in 1 .. Len(cq'[d]), NEW j \in 1 .. Len(cq'[d]),
               i < j
        PROVE  cq'[d][i].number < cq'[d][j].number
    <3>1. CASE d # c
      <4>1. cq'[d] = cq[d]
        BY <1>11, <3>1
      <4> QED
        BY <1>a, <2>2, <4>1 DEF CqOrder
    <3>2. CASE d = c
      <4>1. i \in 1 .. Len(cq[c]) /\ cq'[c][i] = cq[c][i]
        <5>1. Len(cq[c]) \in Nat
          BY <1>a, <1>1, Elements
        <5>2. j <= Len(cq[c]) + 1
          BY <1>13, <3>2, <5>1
        <5> QED
          BY <1>13, <2>2, <3>2, <5>1, <5>2
      <4>2. CASE j \in 1 .. Len(cq[c]) /\ cq'[c][j] = cq[c][j]
        <5>1. cq[c][i].number < cq[c][j].number
          BY <1>a, <1>1, <2>2, <4>1, <4>2 DEF CqOrder
        <5> QED
          BY <3>2, <4>1, <4>2, <5>1
      <4>3. CASE cq'[c][j] = e
        BY <1>14, <3>2, <4>1, <4>3
      <4> QED
        BY <1>13, <3>2, <4>2, <4>3
    <3> QED
      BY <3>1, <3>2
  <2> QED
    BY <2>1, <2>2 DEF CqOrder, Uncompleted
<1>16. PollOrder'
  <2> SUFFICES ASSUME NEW d \in CQs
               PROVE  /\ polling[d] => /\ cq'[d] # <<>>
                                       /\ reported[Head(cq'[d]).qpn] = Head(cq'[d]).number
                      /\ ~polling[d] => \A i \in 1 .. Len(cq'[d]) :
                                          reported[cq'[d][i].qpn] < cq'[d][i].number
    BY <1>2 DEF PollOrder
  <2>1. CASE cq'[d] = cq[d]
    BY <1>a, <2>1 DEF PollOrder
  <2>2. CASE d = c /\ cq'[d] # cq[d]
    <3>1. /\ Len(cq'[c]) = Len(cq[c]) + 1 /\ Len(cq[c]) \in Nat
          /\ cq[c] \in Seq(Cqe) /\ cq'[c] \in Seq(Cqe)
      BY <1>a, <1>1, <1>11, <2>2, Elements
    <3>2. ASSUME polling[c]
          PROVE  cq'[c] # <<>> /\ Head(cq'[c]) = Head(cq[c])
      <4>1. cq[c] # <<>>
        BY <1>a, <1>1, <3>2 DEF PollOrder
      <4>2. 1 \in 1 .. Len(cq[c]) /\ Head(cq[c]) = cq[c][1]
        BY <3>1, <4>1, First
      <4>3. cq'[c] # <<>> /\ Head(cq'[c]) = cq'[c][1]
        <5>1. cq'[c] # <<>>
          BY <3>1, EmptySeq
        <5> QED
          BY <3>1, <5>1, First
      <4>4. cq'[c][1] = cq[c][1]
        BY <1>11, <2>2, <4>2
      <4> QED
        BY <4>2, <4>3, <4>4
    <3>3. reported[q] < e.number
      BY <1>a, <1>e DEF PendingOrder, Uncompleted
    <3>4. ASSUME ~polling[c], NEW i \in 1 .. Len(cq'[c])
          PROVE  reported[cq'[c][i].qpn] < cq'[c][i].number
      <4>1. CASE i \in 1 .. Len(cq[c]) /\ cq'[c][i] = cq[c][i]
        <5>1. reported[cq[c][i].qpn] < cq[c][i].number
          BY <1>a, <1>1, <3>4, <4>1 DEF PollOrder
        <5> QED
          BY <4>1, <5>1
      <4>2. CASE cq'[c][i] = e
        BY <1>e, <3>3, <4>2
      <4> QED
        BY <1>13, <4>1, <4>2
    <3>5. polling[c] => reported[Head(cq[c]).qpn] = Head(cq[c]).number
      BY <1>a, <1>1 DEF PollOrder
    <3> QED
      BY <2>2, <3>2, <3>4, <3>5
  <2> QED
    BY <1>11, <2>1, <2>2
<1>17. TailIs(t)'
  <2>1. /\ t <= posted
        /\ posted - t <= N
        /\ \A d \in CQs : \A i \in 1 .. Len(cq[d]) : t <= cq[d][i].number
        /\ \A p \in QPs : ~polling[SendCq[p]] => t = reported[p] + 1
    BY <1>0 DEF TailIs
  <2>2. tail = t % W
    BY <1>0 DEF TailIs
  <2>6. t <= Uncompleted(q)
    BY <1>0 DEF TailIs
  <2>3. t <= posted' - Len(pending'[q])
    <3>1. Uncompleted(q) \in Int
      BY <1>1 DEF Uncompleted
    <3>2. posted' - Len(pending'[q]) = Uncompleted(q) + 1
      BY <1>7 DEF Uncompleted
    <3> QED
      BY <2>6, <3>1, <3>2
  <2>4. t <= e.number
    BY <1>e, <2>6 DEF Uncompleted
  <2>5. \A d \in CQs : \A i \in 1 .. Len(cq'[d]) : t <= cq'[d][i].number
    BY <1>11, <1>13, <2>1, <2>4
  <2> QED
    BY <1>2, <1>6, <2>1, <2>2, <2>3, <2>5 DEF TailIs, Uncompleted
<1>18. WrIds' /\ WrIdExact' /\ NoIllegalTail'
  BY <1>a, <1>2 DEF WrIds, WrIdExact, NoIllegalTail
<1> QED
  <2>1. (\E u \in Nat : TailIs(u))'
    BY <1>17
  <2>2. head' = posted' % W
    BY <1>h, <1>2
  <2> QED
    BY <2>1, <2>2, <1>10, <1>12, <1>15, <1>16, <1>18 DEF SendInv

\* The first CQE of a CQ is of the oldest request whose CQE waits, and with one
\* queue pair the other CQs are empty.
LEMMA FirstCqe ==
    ASSUME OneQp, SendInv, NEW c \in CQs, cq[c] # <<>>
    PROVE  /\ Head(cq[c]).qpn \in QPs
           /\ SendCq[Head(cq[c]).qpn] = c
           /\ Head(cq[c]).number \in Nat
           /\ Head(cq[c]).number < posted
           /\ Head(cq[c]).number < Uncompleted(Head(cq[c]).qpn)
           /\ Head(cq[c]).wqe_counter = Head(cq[c]).number % W
           /\ \A i \in 1 .. Len(Tail(cq[c])) :
                 /\ Tail(cq[c])[i].number > Head(cq[c]).number
                 /\ Tail(cq[c])[i] = cq[c][i + 1]
                 /\ i + 1 \in 1 .. Len(cq[c])
           /\ Tail(cq[c]) \in Seq(Cqe)
           /\ \A d \in CQs : d # c => cq[d] = <<>>
<1>a. TypeOK /\ PendingOrder /\ CqOrder
  BY DEF SendInv
<1>1. \A d \in CQs : cq[d] # <<>> => /\ 1 \in 1 .. Len(cq[d]) /\ Head(cq[d]) = cq[d][1]
                                   /\ Tail(cq[d]) \in Seq(Cqe)
                                   /\ \A i \in 1 .. Len(Tail(cq[d])) :
                                        /\ Tail(cq[d])[i] = cq[d][i + 1]
                                        /\ i + 1 \in 1 .. Len(cq[d])
  <2> TAKE d \in CQs
  <2> HAVE cq[d] # <<>>
  <2>1. cq[d] \in Seq(Cqe)
    BY <1>a, Elements
  <2> QED
    BY <2>1, First
<1>2. \A d \in CQs : cq[d] # <<>> => cq[d][1].qpn \in QPs /\ SendCq[cq[d][1].qpn] = d
  BY <1>a, <1>1, Elements DEF CqOrder
<1>3. \A d \in CQs : d # c => cq[d] = <<>>
  BY <1>2 DEF OneQp
<1>4. /\ cq[c][1].number \in Nat
      /\ cq[c][1].number < Uncompleted(cq[c][1].qpn)
      /\ cq[c][1].wqe_counter = cq[c][1].number % W
  BY <1>a, <1>1, <1>2, Elements DEF CqOrder
<1>5. cq[c][1].number < posted
  <2> DEFINE q == cq[c][1].qpn
  <2>1. /\ posted \in Nat /\ Len(pending[q]) \in Nat
    BY <1>a, <1>2, Elements
  <2>2. cq[c][1].number < posted - Len(pending[q])
    BY <1>4 DEF Uncompleted
  <2> QED
    BY <1>4, <2>1, <2>2
<1>6. ASSUME NEW i \in 1 .. Len(Tail(cq[c]))
      PROVE  Tail(cq[c])[i].number > cq[c][1].number
  <2>1. Tail(cq[c])[i] = cq[c][i + 1] /\ i + 1 \in 1 .. Len(cq[c]) /\ 1 \in 1 .. Len(cq[c])
    BY <1>1
  <2>2. 1 < i + 1
    OBVIOUS
  <2>3. cq[c][1].number < cq[c][i + 1].number
    BY <1>a, <2>1, <2>2 DEF CqOrder
  <2>4. cq[c][i + 1].number \in Nat
    BY <1>a, <2>1, Elements
  <2> QED
    BY <1>4, <2>1, <2>3, <2>4
<1> QED
  BY <1>1, <1>2, <1>3, <1>4, <1>5, <1>6

LEMMA LookUpStep ==
    ASSUME OneQp, SendInv, NEW c \in CQs, LookUp(c)
    PROVE  SendInv'
<1> DEFINE e == Head(cq[c])
<1>a. /\ TypeOK
      /\ PendingOrder /\ CqOrder /\ PollOrder
      /\ WrIds /\ WrIdExact /\ NoIllegalTail
  BY DEF SendInv
<1>h. head = posted % W
  BY DEF SendInv
<1>0. PICK t \in Nat : TailIs(t)
  BY DEF SendInv
<1>1. cq[c] # <<>> /\ ~polling[c]
  BY DEF LookUp
<1>2. /\ process' = process /\ head' = head /\ tail' = tail /\ wrid' = wrid
      /\ posted' = posted /\ pending' = pending /\ cq' = cq
  BY DEF LookUp
<1>3. /\ e.qpn \in QPs /\ SendCq[e.qpn] = c /\ e.number \in Nat
      /\ e.number < posted /\ e.number < Uncompleted(e.qpn)
      /\ \A i \in 1 .. Len(Tail(cq[c])) : Tail(cq[c])[i].number > e.number
  BY <1>1, FirstCqe
<1>4. \A d \in CQs : d # c => cq[d] = <<>>
  BY <1>1, FirstCqe
<1>5. e.wqe_counter % N = e.number % N /\ e.number % N \in Slot
  BY <1>1, <1>3, FirstCqe, SlotOfRequest
<1>6. wrid[e.number % N] = e.number
  <2>1. t <= e.number /\ posted - t <= N
    <3>1. 1 \in 1 .. Len(cq[c]) /\ e = cq[c][1]
      BY <1>a, <1>1, Elements, First
    <3> QED
      BY <1>0, <3>1 DEF TailIs
  <2>2. posted \in Nat /\ N \in Nat
    BY <1>a, Elements, Constants
  <2>3. posted <= e.number + N
    BY <1>3, <2>1, <2>2
  <2> QED
    BY <1>a, <1>3, <2>3 DEF WrIds
<1>7. wc' = [wr_id |-> e.number, number |-> e.number]
  BY <1>5, <1>6 DEF LookUp
<1>8. /\ reported' = [reported EXCEPT ![e.qpn] = e.number]
      /\ polling' = [polling EXCEPT ![c] = TRUE]
  BY DEF LookUp
<1> HIDE DEF e
<1>9. /\ reported'[e.qpn] = e.number
      /\ reported' \in [QPs -> Nat \cup {None}]
      /\ polling'[c] = TRUE
      /\ polling' \in [CQs -> BOOLEAN]
      /\ \A d \in CQs : d # c => polling'[d] = polling[d]
  BY <1>a, <1>3, <1>8 DEF TypeOK
<1>10. TypeOK'
  <2>1. wc' \in [wr_id : Nat \cup {None}, number : Nat \cup {None}]
    BY <1>3, <1>7
  <2> QED
    BY <1>a, <1>2, <1>9, <2>1 DEF TypeOK
<1>11. \A p \in QPs : p = e.qpn
  BY <1>3 DEF OneQp
<1>12. PendingOrder'
  BY <1>a, <1>2, <1>3, <1>9, <1>11 DEF PendingOrder, Uncompleted
<1>13. CqOrder'
  BY <1>a, <1>2 DEF CqOrder, Uncompleted
<1>14. PollOrder'
  <2> SUFFICES ASSUME NEW d \in CQs
               PROVE  /\ polling'[d] => /\ cq[d] # <<>>
                                        /\ reported'[Head(cq[d]).qpn] = Head(cq[d]).number
                      /\ ~polling'[d] => \A i \in 1 .. Len(cq[d]) :
                                           reported'[cq[d][i].qpn] < cq[d][i].number
    BY <1>2 DEF PollOrder
  <2>1. CASE d = c
    BY <1>1, <1>9, <2>1 DEF e
  <2>2. CASE d # c
    <3>1. cq[d] = <<>> /\ polling'[d] = polling[d]
      BY <1>4, <1>9, <2>2
    <3>2. ~polling[d]
      BY <1>a, <3>1 DEF PollOrder
    <3>3. \A i \in 1 .. Len(cq[d]) : FALSE
      BY <3>1, EmptySeq
    <3> QED
      BY <3>1, <3>2, <3>3
  <2> QED
    BY <2>1, <2>2
<1>15. TailIs(t)'
  <2>1. \A p \in QPs : polling'[SendCq[p]]
    BY <1>3, <1>9, <1>11
  <2> QED
    BY <1>0, <1>2, <2>1 DEF TailIs, Uncompleted
<1>16. WrIds' /\ WrIdExact' /\ NoIllegalTail'
  BY <1>a, <1>2, <1>7 DEF WrIds, WrIdExact, NoIllegalTail
<1> QED
  <2>1. (\E u \in Nat : TailIs(u))'
    BY <1>15
  <2>2. head' = posted' % W
    BY <1>h, <1>2
  <2> QED
    BY <2>1, <2>2, <1>10, <1>12, <1>13, <1>14, <1>16 DEF SendInv

\* The test for an illegal tail passes for every counter at most a ring ahead
\* of tail, wrapped around or not.
LEMMA LegalAhead ==
    ASSUME NEW t \in Nat, NEW n \in Nat, t <= n, n - t < N, tail = t % W
    PROVE  Legal(n % W)
<1>1. N \in Nat /\ N > 0 /\ W \in Nat /\ W > 0 /\ N < W
  BY Constants
<1>2. n - t < W
  BY <1>1
<1>3. \/ n % W = (t % W) + (n - t)
      \/ n % W = (t % W) + (n - t) - W
  BY <1>1, <1>2, WrappedOrder
<1>4. t % W \in 0 .. W - 1 /\ n % W \in 0 .. W - 1
  BY <1>1, SlotAndTurn
<1> DEFINE x == n % W
           y == t % W
           d == n - t
<1>5. /\ x \in 0 .. W - 1 /\ y \in 0 .. W - 1 /\ d \in Nat /\ d < N
      /\ x = y + d \/ x = y + d - W
      /\ tail = y
  BY <1>3, <1>4
<1> HIDE DEF x, y, d
<1>6. CASE x = y + d
  <2>1. tail <= x
    BY <1>1, <1>5, <1>6
  <2> QED
    BY <2>1 DEF Legal, x
<1>7. CASE x = y + d - W
  <2>1. x < N /\ tail >= W - 1 - N
    BY <1>1, <1>5, <1>7
  <2> QED
    BY <2>1 DEF Legal, Wrapped, x
<1> QED
  BY <1>5, <1>6, <1>7

LEMMA MoveTailStep ==
    ASSUME OneQp, SendInv, NEW c \in CQs, MoveTail(c)
    PROVE  SendInv'
<1> DEFINE e == Head(cq[c])
           n == e.number
<1>a. /\ TypeOK
      /\ PendingOrder /\ CqOrder /\ PollOrder
      /\ WrIds /\ WrIdExact /\ NoIllegalTail
  BY DEF SendInv
<1>h. head = posted % W
  BY DEF SendInv
<1>0. PICK t \in Nat : TailIs(t)
  BY DEF SendInv
<1>1. polling[c] /\ cq[c] # <<>> /\ reported[e.qpn] = n
  BY <1>a DEF MoveTail, PollOrder
<1>2. /\ e.qpn \in QPs /\ SendCq[e.qpn] = c /\ n \in Nat
      /\ n < posted /\ n < Uncompleted(e.qpn)
      /\ \A d \in CQs : d # c => cq[d] = <<>>
      /\ \A i \in 1 .. Len(Tail(cq[c])) :
            /\ Tail(cq[c])[i].number > n
            /\ Tail(cq[c])[i] = cq[c][i + 1]
            /\ i + 1 \in 1 .. Len(cq[c])
      /\ Tail(cq[c]) \in Seq(Cqe)
  BY <1>1, FirstCqe
<1>3. e.wqe_counter = n % W
  BY <1>1, FirstCqe
<1>4. /\ posted \in Nat /\ N \in Nat /\ W \in Nat /\ W > 0
      /\ t <= n /\ posted - t <= N
  <2>1. 1 \in 1 .. Len(cq[c]) /\ e = cq[c][1]
    BY <1>a, <1>1, Elements, First
  <2>2. t <= n /\ posted - t <= N
    BY <1>0, <2>1 DEF TailIs
  <2> QED
    BY <1>a, <2>2, Elements, Constants
<1>5. tail = t % W
  BY <1>0 DEF TailIs
<1>6. Legal(n % W)
  <2>1. n - t < N
    BY <1>2, <1>4
  <2> QED
    BY <1>2, <1>4, <1>5, <2>1, LegalAhead
<1>7. /\ tail' = ((n % W) + 1) % W
      /\ cq' = [cq EXCEPT ![c] = Tail(cq[c])]
      /\ process' = process /\ process = "running"
      /\ polling' = [polling EXCEPT ![c] = FALSE]
  BY <1>3, <1>6 DEF MoveTail, TailAfter
<1>8. /\ head' = head /\ wrid' = wrid /\ posted' = posted /\ pending' = pending
      /\ wc' = wc /\ reported' = reported
  BY DEF MoveTail
<1> HIDE DEF e, n
<1>9. tail' = (n + 1) % W /\ tail' \in Counter /\ n + 1 \in Nat
  <2>1. ((n % W) + 1) % W = (n + 1) % W
    BY <1>2, <1>4, WrappedStep
  <2>2. n + 1 \in Nat
    BY <1>2
  <2> QED
    BY <1>7, <2>1, <2>2, SlotOfRequest
<1>10. /\ cq' \in [CQs -> Seq(Cqe)]
       /\ cq'[c] = Tail(cq[c])
       /\ \A d \in CQs : d # c => cq'[d] = <<>>
       /\ polling' \in [CQs -> BOOLEAN]
       /\ ~polling'[c]
       /\ \A d \in CQs : d # c => polling'[d] = polling[d]
  BY <1>a, <1>2, <1>7 DEF TypeOK
<1>11. \A p \in QPs : p = e.qpn
  BY <1>2 DEF OneQp
<1>12. TypeOK'
  <2>1. tail' \in Counter
    BY <1>9
  <2>2. process' = process
    BY <1>7
  <2> QED
    BY <1>a, <1>8, <1>10, <2>1, <2>2 DEF TypeOK
<1>13. PendingOrder'
  BY <1>a, <1>8 DEF PendingOrder, Uncompleted
<1>14. \A d \in CQs : d # c => \A i \in 1 .. Len(cq'[d]) : FALSE
  BY <1>10, EmptySeq
<1>15. \A i \in 1 .. Len(cq'[c]) : /\ cq'[c][i] = cq[c][i + 1]
                                  /\ i + 1 \in 1 .. Len(cq[c])
                                  /\ cq'[c][i].number > n
                                  /\ cq'[c][i].number \in Nat
                                  /\ cq'[c][i].qpn = e.qpn
  <2>1. \A i \in 1 .. Len(cq'[c]) : /\ cq'[c][i] = cq[c][i + 1]
                                   /\ i + 1 \in 1 .. Len(cq[c])
                                   /\ cq'[c][i].number > n
    BY <1>2, <1>10
  <2>2. \A j \in 1 .. Len(cq[c]) : cq[c][j].number \in Nat /\ cq[c][j].qpn = e.qpn
    BY <1>a, <1>11, Elements
  <2> QED
    BY <2>1, <2>2
<1>16. CqOrder'
  <2>1. ASSUME NEW d \in CQs, NEW i \in 1 .. Len(cq'[d])
        PROVE  /\ SendCq[cq'[d][i].qpn] = d
               /\ \A p \in QPs : cq'[d][i].qpn = p => cq'[d][i].number < Uncompleted(p)
               /\ cq'[d][i].wqe_counter = cq'[d][i].number % W
    <3>1. d = c
      BY <1>14
    <3>2. cq'[c][i] = cq[c][i + 1] /\ i + 1 \in 1 .. Len(cq[c])
      BY <1>15, <3>1
    <3> QED
      BY <1>a, <3>1, <3>2 DEF CqOrder
  <2>2. ASSUME NEW d \in CQs, NEW i \in 1 .. Len(cq'[d]), NEW j \in 1 .. Len(cq'[d]),
               i < j
        PROVE  cq'[d][i].number < cq'[d][j].number
    <3>1. d = c
      BY <1>14
    <3>2. /\ cq'[c][i] = cq[c][i + 1] /\ i + 1 \in 1 .. Len(cq[c])
          /\ cq'[c][j] = cq[c][j + 1] /\ j + 1 \in 1 .. Len(cq[c])
      BY <1>15, <3>1
    <3>3. i + 1 < j + 1
      BY <2>2
    <3>4. cq[c][i + 1].number < cq[c][j + 1].number
      BY <1>a, <3>2, <3>3 DEF CqOrder
    <3> QED
      BY <3>1, <3>2, <3>4
  <2> QED
    BY <1>8, <2>1, <2>2 DEF CqOrder, Uncompleted
<1>17. PollOrder'
  <2> SUFFICES ASSUME NEW d \in CQs
               PROVE  /\ polling'[d] => /\ cq'[d] # <<>>
                                        /\ reported[Head(cq'[d]).qpn] = Head(cq'[d]).number
                      /\ ~polling'[d] => \A i \in 1 .. Len(cq'[d]) :
                                           reported[cq'[d][i].qpn] < cq'[d][i].number
    BY <1>8 DEF PollOrder
  <2>1. CASE d = c
    <3>1. \A i \in 1 .. Len(cq'[c]) : reported[cq'[c][i].qpn] < cq'[c][i].number
      <4> TAKE i \in 1 .. Len(cq'[c])
      <4>1. reported[cq'[c][i].qpn] = n
        BY <1>1, <1>15 DEF e, n
      <4>2. n < cq'[c][i].number
        BY <1>2, <1>15
      <4> QED
        BY <4>1, <4>2
    <3> QED
      BY <1>10, <2>1, <3>1
  <2>2. CASE d # c
    <3>1. cq[d] = <<>> /\ polling'[d] = polling[d]
      BY <1>2, <1>10, <2>2
    <3>2. ~polling[d]
      BY <1>a, <3>1 DEF PollOrder
    <3> QED
      BY <1>14, <2>2, <3>1, <3>2
  <2> QED
    BY <2>1, <2>2
<1>m. PICK m \in Nat : m = n + 1
  BY <1>9
<1>18. TailIs(m)'
  <2>1. n + 1 <= posted /\ posted - (n + 1) <= N
    BY <1>2, <1>4
  <2>2. \A p \in QPs : n + 1 <= Uncompleted(p)
    <3>1. Uncompleted(e.qpn) \in Int
      BY <1>a, <1>2, Elements
    <3>2. n + 1 <= Uncompleted(e.qpn)
      BY <1>2, <3>1
    <3> QED
      BY <1>11, <3>2
  <2>3. \A d \in CQs : \A i \in 1 .. Len(cq'[d]) : n + 1 <= cq'[d][i].number
    <3>1. \A i \in 1 .. Len(cq'[c]) : n + 1 <= cq'[c][i].number
      <4> TAKE i \in 1 .. Len(cq'[c])
      <4>1. cq'[c][i].number > n /\ cq'[c][i].number \in Nat
        BY <1>15
      <4> QED
        BY <1>2, <4>1
    <3> QED
      BY <1>14, <3>1
  <2>4. \A p \in QPs : n + 1 = reported[p] + 1
    BY <1>1, <1>11 DEF e, n
  <2>5. tail' = (n + 1) % W
    BY <1>9
  <2> QED
    BY <1>m, <1>8, <2>1, <2>2, <2>3, <2>4, <2>5 DEF TailIs, Uncompleted
<1>19. WrIds' /\ WrIdExact' /\ NoIllegalTail'
  BY <1>a, <1>7, <1>8 DEF WrIds, WrIdExact, NoIllegalTail
<1> QED
  <2>1. (\E u \in Nat : TailIs(u))'
    BY <1>18
  <2>2. head' = posted' % W
    BY <1>h, <1>8
  <2> QED
    BY <2>1, <2>2, <1>12, <1>13, <1>16, <1>17, <1>19 DEF SendInv

\* Only the process may change.
LEMMA IdleStep ==
    ASSUME SendInv,
           UNCHANGED <<head, tail, wrid, posted, pending, cq, polling, wc, reported>>,
           process' \in {process, "full"}
    PROVE  SendInv'
<1>a. /\ TypeOK
      /\ PendingOrder /\ CqOrder /\ PollOrder
      /\ WrIds /\ WrIdExact /\ NoIllegalTail
  BY DEF SendInv
<1>h. head = posted % W
  BY DEF SendInv
<1>0. PICK t \in Nat : TailIs(t)
  BY DEF SendInv
<1>1. /\ head' = head /\ tail' = tail /\ wrid' = wrid /\ posted' = posted
      /\ pending' = pending /\ cq' = cq /\ polling' = polling /\ wc' = wc
      /\ reported' = reported
      /\ process' = process \/ process' = "full"
  OBVIOUS
<1>2. TypeOK'
  BY <1>a, <1>1 DEF TypeOK
<1>3. PendingOrder' /\ CqOrder' /\ PollOrder'
  BY <1>a, <1>1 DEF PendingOrder, CqOrder, PollOrder, Uncompleted
<1>4. TailIs(t)'
  BY <1>0, <1>1 DEF TailIs, Uncompleted
<1>5. WrIds' /\ WrIdExact' /\ NoIllegalTail'
  BY <1>a, <1>1 DEF WrIds, WrIdExact, NoIllegalTail
<1> QED
  <2>1. (\E u \in Nat : TailIs(u))'
    BY <1>4
  <2>2. head' = posted' % W
    BY <1>h, <1>1
  <2> QED
    BY <2>1, <2>2, <1>2, <1>3, <1>5 DEF SendInv

-----------------------------------------------------------------------------
(* Theorems *)

\* SendInv is invariant: whatever the size of the ring, the width of the
\* counters and the mixture of signalled requests, tail stands for a count t of
\* requests reported, and the last N requests have their wr_id in their slots.
THEOREM SendInvariance ==
    ASSUME OneQp
    PROVE  Spec => []SendInv
<1>1. Init => SendInv
  BY SendInit
<1>2. SendInv /\ [Next]_vars => SendInv'
  <2> SUFFICES ASSUME SendInv, [Next]_vars
               PROVE  SendInv'
    OBVIOUS
  <2>1. CASE PostFull
    BY <2>1, IdleStep DEF PostFull
  <2>2. ASSUME NEW q \in QPs, NEW signal \in BOOLEAN, PostSend(q, signal)
        PROVE  SendInv'
    BY <2>2, PostSendStep
  <2>3. ASSUME NEW q \in QPs, Complete(q)
        PROVE  SendInv'
    BY <2>3, CompleteStep
  <2>4. ASSUME NEW c \in CQs, PollCqe(c)
        PROVE  SendInv'
    BY <2>4, LookUpStep, MoveTailStep DEF PollCqe
  <2>5. CASE UNCHANGED vars
    BY <2>5, IdleStep DEF vars
  <2> QED
    BY <2>1, <2>2, <2>3, <2>4, <2>5 DEF Next
<1> QED
  BY <1>1, <1>2, PTL DEF Spec

\* Every variable keeps its type, the 32-bit head and tail their width.
THEOREM SendTypeCorrect ==
    ASSUME OneQp
    PROVE  Spec => []TypeOK
<1>1. SendInv => TypeOK
  BY DEF SendInv
<1> QED
  BY <1>1, SendInvariance, PTL

\* A work completion has the wr_id of the request that completed.
THEOREM WrIdExactCorrect ==
    ASSUME OneQp
    PROVE  Spec => []WrIdExact
<1>1. SendInv => WrIdExact
  BY DEF SendInv
<1> QED
  BY <1>1, SendInvariance, PTL

\* smartns_poll_cq never ends the process with "illegal tail".
THEOREM NoIllegalTailCorrect ==
    ASSUME OneQp
    PROVE  Spec => []NoIllegalTail
<1>1. SendInv => NoIllegalTail
  BY DEF SendInv
<1> QED
  BY <1>1, SendInvariance, PTL

\* smartns_post_send does not use the slot of a request again before its
\* completion has been polled.
THEOREM SlotsKeptCorrect ==
    ASSUME OneQp
    PROVE  Spec => []SlotsKept
<1>1. SendInv => SlotsKept
  <2> SUFFICES ASSUME SendInv
               PROVE  SlotsKept
    OBVIOUS
  <2>a. TypeOK /\ PendingOrder /\ CqOrder /\ WrIds
    BY DEF SendInv
  <2>0. PICK t \in Nat : TailIs(t)
    BY DEF SendInv
  <2>1. posted \in Nat /\ N \in Nat
    BY <2>a, Elements, Constants
  <2>2. /\ posted - t <= N
        /\ \A q \in QPs : t <= Uncompleted(q)
        /\ \A c \in CQs : \A i \in 1 .. Len(cq[c]) : t <= cq[c][i].number
    BY <2>0 DEF TailIs
  <2>3. ASSUME NEW n \in Nat, t <= n, n < posted
        PROVE  wrid[(n % W) % N] = n
    <3>1. posted <= n + N
      BY <2>1, <2>2, <2>3
    <3>2. wrid[n % N] = n
      BY <2>a, <2>3, <3>1 DEF WrIds
    <3> QED
      BY <3>2, SlotOfRequest
  <2>4. ASSUME NEW q \in QPs, NEW i \in 1 .. Len(pending[q])
        PROVE  wrid[pending[q][i].cur_pos % N] = pending[q][i].number
    <3> DEFINE n == pending[q][i].number
    <3>1. n = Uncompleted(q) + i - 1 /\ pending[q][i].cur_pos = n % W
      BY <2>a DEF PendingOrder
    <3>2. /\ t <= Uncompleted(q) /\ Uncompleted(q) = posted - Len(pending[q])
          /\ Uncompleted(q) \in Int /\ Len(pending[q]) \in Nat
      BY <2>a, <2>2, Elements DEF Uncompleted
    <3>3. n \in Nat /\ t <= n /\ n < posted
      <4>1. n = Uncompleted(q) + i - 1
        BY <3>1
      <4>2. i \in Nat /\ 1 <= i /\ i <= Len(pending[q])
        BY <3>2
      <4> HIDE DEF n
      <4>3. n < posted
        <5>1. Uncompleted(q) + Len(pending[q]) = posted
          BY <2>1, <3>2
        <5>2. Uncompleted(q) + i - 1 < Uncompleted(q) + Len(pending[q])
          BY <3>2, <4>2
        <5> QED
          BY <4>1, <5>1, <5>2
      <4>4. n \in Nat /\ t <= n
        BY <3>2, <4>1, <4>2
      <4> QED
        BY <4>3, <4>4
    <3> QED
      BY <2>3, <3>1, <3>3
  <2>5. ASSUME NEW c \in CQs, NEW i \in 1 .. Len(cq[c])
        PROVE  wrid[cq[c][i].wqe_counter % N] = cq[c][i].number
    <3> DEFINE n == cq[c][i].number
               q == cq[c][i].qpn
    <3>1. q \in QPs /\ n \in Nat /\ cq[c][i].wqe_counter = n % W
      BY <2>a, Elements DEF CqOrder
    <3>2. n < posted - Len(pending[q]) /\ Len(pending[q]) \in Nat
      BY <2>a, <3>1, Elements DEF CqOrder, Uncompleted
    <3>3. t <= n /\ n < posted
      <4>1. t <= n
        BY <2>2
      <4> HIDE DEF n, q
      <4> QED
        BY <2>1, <3>1, <3>2, <4>1
    <3> QED
      BY <2>3, <3>1, <3>3
  <2> QED
    BY <2>4, <2>5 DEF SlotsKept
<1> QED
  BY <1>1, SendInvariance, PTL

\* Between polls tail stands exactly behind the last request reported, also
\* when the counters have wrapped around.
THEOREM TailExactCorrect ==
    ASSUME OneQp
    PROVE  Spec => []TailExact
<1>1. SendInv => TailExact
  BY DEF SendInv, TailIs, TailExact
<1> QED
  BY <1>1, SendInvariance, PTL
=============================================================================
