--------------------------- MODULE WqeRing_proofs ---------------------------
(***************************************************************************)
(* WqeRing is correct for every size of the ring, of its DMA batches and of *)
(* the calls: the invariant RingInv is inductive, and FIFO order, the owner *)
(* bits' meaning, the absence of overruns and the refinement of WorkQueue   *)
(* follow from it.                                                          *)
(***************************************************************************)
EXTENDS WqeRing, RingArith

DmaQueue == [start : Nat, index : Nat, lastSignal : Nat, finish : Nat]

-----------------------------------------------------------------------------
(* The DMA queue *)

\* A flush issues all that waits or nothing, and leaves less than a batch.
LEMMA FlushFacts ==
    ASSUME NEW d \in DmaQueue, d.index <= d.start
    PROVE  /\ FlushDmaReq(d) \in DmaQueue
           /\ FlushDmaReq(d).start = d.start
           /\ FlushDmaReq(d).finish = d.finish
           /\ FlushDmaReq(d).index \in {d.index, d.start}
           /\ d.start - FlushDmaReq(d).index < Batch
           /\ d.start - d.index < Batch => FlushDmaReq(d) = d
<1> USE WqeRingAssumption
<1>1. CASE Flushes(d)
  <2> DEFINE last == IF Signals(d) THEN d.start ELSE d.lastSignal
             f == [d EXCEPT !.index = d.start, !.lastSignal = last]
  <2>1. FlushDmaReq(d) = f
    BY <1>1 DEF FlushDmaReq
  <2>2. d.start \in Nat /\ d.index \in Nat /\ last \in Nat
    BY DEF DmaQueue
  <2>3. d.start - d.index >= Batch
    BY <1>1 DEF Flushes
  <2>4. f \in DmaQueue /\ f.start = d.start /\ f.finish = d.finish /\ f.index = d.start
    <3> HIDE DEF last
    <3> QED
      BY <2>2 DEF DmaQueue
  <2> HIDE DEF f
  <2> QED
    BY <2>1, <2>2, <2>3, <2>4
<1>2. CASE ~Flushes(d)
  BY <1>2 DEF FlushDmaReq, Flushes, DmaQueue
<1> QED
  BY <1>1, <1>2

\* A step adds one request and issues it with those waiting when they make up
\* a batch.
LEMMA StepFacts ==
    ASSUME NEW d \in DmaQueue, d.index <= d.start,
           d.start - d.index < Batch, d.index % Batch = 0
    PROVE  LET s == StepDmaReq(d)
           IN  /\ s \in DmaQueue
               /\ s.start = d.start + 1
               /\ s.finish = d.finish
               /\ s.index \in {d.index, d.index + Batch}
               /\ s.index <= s.start
               /\ s.start - s.index < Batch
               /\ s.index % Batch = 0
<1> DEFINE e == [d EXCEPT !.start = @ + 1]
<1>0. Batch \in Nat /\ Batch > 0
  BY WqeRingAssumption
<1>1. /\ e \in DmaQueue
      /\ e.start = d.start + 1
      /\ e.index = d.index
      /\ e.finish = d.finish
      /\ e.index <= e.start
  BY DEF DmaQueue
<1>2. /\ FlushDmaReq(e) \in DmaQueue
      /\ FlushDmaReq(e).start = e.start
      /\ FlushDmaReq(e).finish = e.finish
      /\ FlushDmaReq(e).index \in {e.index, e.start}
      /\ e.start - FlushDmaReq(e).index < Batch
  <2> HIDE DEF e
  <2> QED
    BY <1>1, FlushFacts
<1>3. d.index \in Nat /\ d.start \in Nat
  BY DEF DmaQueue
<1>4. FlushDmaReq(e).index = d.index \/ FlushDmaReq(e).index = d.index + Batch
  <2> HIDE DEF e
  <2>1. CASE FlushDmaReq(e) = e
    BY <1>1, <2>1
  <2>2. CASE FlushDmaReq(e) # e
    <3>1. Flushes(e)
      BY <2>2 DEF FlushDmaReq
    <3>2. e.start - e.index >= Batch
      BY <3>1 DEF Flushes
    <3>3. e.start = d.index + Batch
      BY <1>0, <1>1, <1>3, <3>2
    <3> QED
      BY <1>1, <1>2, <3>3
  <2> QED
    BY <2>1, <2>2
<1>5. (d.index + Batch) % Batch = 0
  <2>1. d.index + Batch \in Int /\ (d.index + Batch) - Batch = d.index
    BY <1>0, <1>3
  <2>2. ((d.index + Batch) - Batch) % Batch = (d.index + Batch) % Batch
    BY <1>0, <2>1, SlotTurnEarlier
  <2> QED
    BY <2>1, <2>2
<1>6. FlushDmaReq(e).index <= e.start
  <2> HIDE DEF e
  <2> QED
    BY <1>1, <1>2, <1>3
<1> HIDE DEF e
<1>7. StepDmaReq(d) = FlushDmaReq(e)
  BY DEF StepDmaReq, e
<1> QED
  BY <1>1, <1>2, <1>4, <1>5, <1>6, <1>7

-----------------------------------------------------------------------------
(* Owner bits and slots *)

\* The owner bit is a bit and flips from one turn to the next.
LEMMA OwnAtFacts ==
    ASSUME NEW p \in Nat
    PROVE  /\ OwnAt(p) \in Bit
           /\ OwnAt(p + 1) = OwnAfter(OwnAt(p), p % N)
           /\ (p + 1) % N = NextSlot(p % N)
           /\ p % N \in Slot
           /\ p < N => OwnAt(p) = 1 /\ p % N = p
           /\ p >= N => OwnAt(p - N) = 1 - OwnAt(p) /\ (p - N) % N = p % N
<1>1. N \in Nat /\ N > 0
  BY WqeRingAssumption
<1>2. \A k \in Int : OwnAt(k) = TurnBit(k, N)
  BY DEF OwnAt, TurnBit
<1>3. /\ OwnAt(p) = TurnBit(p, N)
      /\ OwnAt(p + 1) = TurnBit(p + 1, N)
      /\ OwnAt(p - N) = TurnBit(p - N, N)
  BY <1>1, <1>2
<1>4. /\ TurnBit(p, N) \in {0, 1}
      /\ TurnBit(p + 1, N) = OwnAfter(TurnBit(p, N), p % N)
      /\ (p + 1) % N = NextSlot(p % N)
      /\ p % N \in Slot
      /\ p < N => TurnBit(p, N) = 1 /\ p % N = p
      /\ p >= N => /\ TurnBit(p - N, N) = 1 - TurnBit(p, N)
                   /\ (p - N) % N = p % N
  BY <1>1, TurnBitFacts DEF Slot, OwnAfter, NextSlot
<1> QED
  BY <1>3, <1>4 DEF Bit

\* A WQE's fields.
LEMMA WqeAtType ==
    ASSUME NEW p \in Nat
    PROVE  WqeAt(p) \in Wqe
BY OwnAtFacts DEF WqeAt, Wqe

\* Between the cursors there is at most a ring of requests.
LEMMA CursorGaps ==
    ASSUME RingInv
    PROVE  /\ N \in Nat /\ N > 0
           /\ Written \in Nat /\ tail \in Nat /\ visible \in Nat
           /\ Len(received) \in Nat /\ dma.index \in Nat
           /\ Len(received) <= visible
           /\ visible <= Written
           /\ Written - Len(received) <= N
           /\ visible - Len(received) <= N
BY WqeRingAssumption DEF RingInv, TypeOK, CursorOrder, Written

-----------------------------------------------------------------------------
(* What the DPU reads *)

\* get_next_wqe finds a WQE exactly when one not taken has arrived, and then
\* it is the next one.
LEMMA OwnerBit ==
    ASSUME RingInv
    PROVE  /\ HasWqe <=> Len(received) < visible
           /\ HasWqe => bfBuf[dpuHead].pos = Len(received)
<1> DEFINE c == Len(received)
<1>0. /\ N \in Nat /\ N > 0
      /\ c \in Nat /\ visible \in Nat
      /\ c <= visible
      /\ visible - c <= N
  BY CursorGaps
<1>1. dpuHead = c % N /\ dpuOwn = OwnAt(c)
  BY DEF RingInv, CursorValues
<1>2. CASE c < visible
  <2>1. c \in 0 .. visible - 1 /\ visible - N <= c
    BY <1>0, <1>2
  <2>2. bfBuf[c % N] = WqeAt(c)
    BY <2>1 DEF RingInv, DpuSlots
  <2> QED
    BY <1>1, <1>2, <2>2 DEF HasWqe, WqeAt
<1>3. CASE c = visible
  <2>0. OwnAt(c) \in Bit
    BY <1>0, OwnAtFacts
  <2>1. CASE c >= N
    <3>1. c - N \in 0 .. visible - 1 /\ visible - N <= c - N
      BY <1>0, <1>3, <2>1
    <3>2. bfBuf[(c - N) % N] = WqeAt(c - N)
      BY <3>1 DEF RingInv, DpuSlots
    <3>3. OwnAt(c - N) = 1 - OwnAt(c) /\ (c - N) % N = c % N
      BY <1>0, <2>1, OwnAtFacts
    <3>4. bfBuf[dpuHead].own = 1 - dpuOwn
      BY <1>1, <3>2, <3>3 DEF WqeAt
    <3>5. ~HasWqe
      BY <1>1, <2>0, <3>4 DEF HasWqe, Bit
    <3> QED
      BY <1>0, <1>3, <3>5
  <2>2. CASE c < N
    <3>1. OwnAt(c) = 1 /\ c % N = c /\ c \in Slot
      BY <1>0, <2>2, OwnAtFacts DEF Slot
    <3>2. bfBuf[c].own = 0
      BY <1>0, <1>3, <3>1 DEF RingInv, DpuSlots
    <3>3. ~HasWqe
      BY <1>1, <3>1, <3>2 DEF HasWqe
    <3> QED
      BY <1>0, <1>3, <3>3
  <2> QED
    BY <1>0, <2>1, <2>2
<1> QED
  BY <1>0, <1>2, <1>3
-----------------------------------------------------------------------------
(* RingInv is inductive *)

\* The ring is empty and both flags are at their first turn.
LEMMA InitRingInv ==
    Init => RingInv
<1> SUFFICES ASSUME Init
             PROVE  RingInv
  OBVIOUS
<1>0. /\ N \in Nat /\ N > 0
      /\ Batch \in Nat /\ Batch > 0
      /\ MaxPosts \in Nat
  BY WqeRingAssumption
<1>1. TypeOK
  BY <1>0 DEF Init, TypeOK, Slot, Wqe, Bit
<1>2. Written = 0 /\ Len(received) = 0
  BY DEF Init, Written
<1>3. CursorOrder
  BY <1>0, <1>2 DEF Init, CursorOrder
<1>4. CursorValues
  <2>1. OwnAt(0) = 1 /\ 0 % N = 0
    BY <1>0, OwnAtFacts
  <2> QED
    BY <1>2, <2>1 DEF Init, CursorValues
<1>5. DmaAligned
  BY <1>0, SlotFirstTurn DEF Init, DmaAligned
<1>6. HostSlots /\ DpuSlots /\ Fifo
  BY <1>2 DEF Init, HostSlots, DpuSlots, Fifo, Slot
<1> QED
  BY <1>1, <1>3, <1>4, <1>5, <1>6 DEF RingInv

\* A step of the host's that writes no slot: the start of a call, its failures.
LEMMA CallKeepsRingInv ==
    ASSUME RingInv,
           (\E n \in 1 .. MaxList : BeginPost(n)) \/ PostFull \/ PostDmaFull
    PROVE  RingInv'
<1>0. head \in Nat /\ nreq \in Nat /\ N \in Nat /\ N > 0
  BY WqeRingAssumption DEF RingInv, TypeOK
<1>1. CASE \E n \in 1 .. MaxList : BeginPost(n)
  <2> PICK n \in 1 .. MaxList : BeginPost(n)
    BY <1>1
  <2>0. n \in Nat /\ head + n <= MaxPosts
    BY WqeRingAssumption DEF BeginPost
  <2>1. nreq = 0 /\ nreq' = 0 /\ head' = head /\ ind' = head % N /\ todo' = n
    BY DEF BeginPost, RingInv, CursorValues, hostVars
  <2>2. Written' = Written /\ Written = head
    BY <1>0, <2>1 DEF Written
  <2>3. head % N \in Slot
    BY <1>0, OwnAtFacts
  <2>4. TypeOK'
    BY <2>0, <2>1, <2>3
    DEF BeginPost, RingInv, TypeOK, hostVars, dmaVars, dpuVars
  <2>5. CursorOrder' /\ DmaAligned' /\ HostSlots' /\ DpuSlots' /\ Fifo'
    BY <2>2 DEF BeginPost, RingInv, CursorOrder, DmaAligned, HostSlots, DpuSlots,
       Fifo, hostVars, dmaVars, dpuVars, WqeAt, OwnAt
  <2>6. CursorValues'
    BY <1>0, <2>0, <2>1, <2>2
    DEF BeginPost, RingInv, CursorValues, hostVars, dmaVars, dpuVars, OwnAt
  <2> QED
    BY <2>4, <2>5, <2>6 DEF RingInv
<1>2. CASE PostFull \/ PostDmaFull
  <2>1. /\ call' \in {"exit", "assert"}
        /\ UNCHANGED <<todo, nreq, ind, hostVars, tail, dmaVars, visible, bfBuf,
                       dpuVars>>
    BY <1>2 DEF PostFull, PostDmaFull
  <2>2. Written' = Written
    BY <2>1 DEF Written, hostVars
  <2>3. TypeOK'
    BY <2>1 DEF RingInv, TypeOK, hostVars, dmaVars, dpuVars
  <2>4. CursorOrder' /\ DmaAligned' /\ HostSlots' /\ DpuSlots' /\ Fifo'
    BY <2>1, <2>2 DEF RingInv, CursorOrder, DmaAligned, HostSlots, DpuSlots,
       Fifo, hostVars, dmaVars, dpuVars, WqeAt, OwnAt
  <2>5. CursorValues'
    BY <2>1, <2>2 DEF RingInv, CursorValues, hostVars, dmaVars, dpuVars, OwnAt
  <2> QED
    BY <2>3, <2>4, <2>5 DEF RingInv
<1> QED
  BY <1>1, <1>2

\* Writing a WQE: the slot written held a request at least a ring ago.
LEMMA PostWrKeepsRingInv ==
    ASSUME RingInv, PostWr
    PROVE  RingInv'
<1>0. /\ N \in Nat /\ N > 0
      /\ Batch \in Nat /\ Batch > 0
      /\ Written \in Nat /\ tail \in Nat /\ visible \in Nat
      /\ head \in Nat /\ nreq \in Nat /\ todo \in Nat
  BY CursorGaps, WqeRingAssumption DEF RingInv, TypeOK
<1>1. /\ ind = Written % N
      /\ own = OwnAt(Written)
      /\ dma.start = Written
      /\ Written + todo <= MaxPosts
  BY DEF RingInv, CursorValues, PostWr
<1>2. Written' = Written + 1
  BY <1>0 DEF PostWr, Written
<1>3. Written - tail < N
  BY <1>0 DEF PostWr, RingFull, Written
<1>4. /\ dma \in DmaQueue
      /\ dma.index <= dma.start
      /\ dma.start - dma.index < Batch
      /\ dma.index % Batch = 0
      /\ visible <= dma.index
  BY <1>1 DEF RingInv, TypeOK, DmaQueue, CursorOrder, DmaAligned
<1>5. /\ dma' \in DmaQueue
      /\ dma'.start = Written + 1
      /\ dma'.index \in {dma.index, dma.index + Batch}
      /\ dma'.index <= dma'.start
      /\ dma'.start - dma'.index < Batch
      /\ dma'.index % Batch = 0
  <2> DEFINE s == StepDmaReq(dma)
  <2>1. /\ s \in DmaQueue
        /\ s.start = dma.start + 1
        /\ s.index \in {dma.index, dma.index + Batch}
        /\ s.index <= s.start
        /\ s.start - s.index < Batch
        /\ s.index % Batch = 0
    BY <1>4, StepFacts
  <2> HIDE DEF s
  <2>2. FlushDmaReq(s) = s
    BY <2>1, FlushFacts
  <2>3. dma' = s
    BY <2>2 DEF PostWr, s
  <2> QED
    BY <1>1, <2>1, <2>3
<1>6. dma.index \in Nat /\ dma'.index \in Nat /\ dma'.lastSignal \in Nat
  BY <1>4, <1>5 DEF DmaQueue
<1>7. /\ own' = OwnAt(Written + 1)
      /\ ind' = (Written + 1) % N
      /\ ind' \in Slot /\ own' \in Bit
  <2>1. own' = OwnAfter(own, ind) /\ ind' = NextSlot(ind)
    BY DEF PostWr
  <2>2. /\ OwnAt(Written + 1) = OwnAfter(OwnAt(Written), Written % N)
        /\ (Written + 1) % N = NextSlot(Written % N)
    BY <1>0, OwnAtFacts
  <2>3. Written + 1 \in Nat
    BY <1>0
  <2>4. OwnAt(Written + 1) \in Bit /\ (Written + 1) % N \in Slot
    BY <2>3, OwnAtFacts
  <2> QED
    BY <1>1, <2>1, <2>2, <2>4
<1>8. hostBuf' = [hostBuf EXCEPT ![Written % N] = WqeAt(Written)]
  BY <1>1 DEF PostWr, WqeAt, Written
<1>9. hostBuf \in [Slot -> Wqe]
  BY DEF RingInv, TypeOK
<1>10. WqeAt(Written) \in Wqe /\ Written % N \in Slot
  BY <1>0, WqeAtType, OwnAtFacts
<1>11. UNCHANGED <<call, head, tail, visible, bfBuf, dpuVars>>
  BY DEF PostWr
<1>12. todo' = todo - 1 /\ todo > 0 /\ nreq' = nreq + 1 /\ call = "posting"
  BY DEF PostWr
<1>13. TypeOK'
  <2>1. hostBuf' \in [Slot -> Wqe]
    BY <1>8, <1>9, <1>10
  <2>2. signals' \in SUBSET Nat
    BY <1>6 DEF PostWr, RingInv, TypeOK
  <2> QED
    BY <1>0, <1>5, <1>7, <1>11, <1>12, <2>1, <2>2, SMTT(30)
    DEF RingInv, TypeOK, DmaQueue, dpuVars
<1>14. CursorOrder'
  <2>1. visible <= dma'.index
    BY <1>0, <1>4, <1>5, <1>6
  <2>2. dma'.index <= Written + 1
    BY <1>5
  <2> QED
    BY <1>0, <1>2, <1>3, <1>11, <2>1, <2>2 DEF RingInv, CursorOrder, dpuVars
<1>15. CursorValues'
  <2>1. MaxPosts \in Nat
    BY WqeRingAssumption
  <2>2. Written' + todo' <= MaxPosts
    BY <1>0, <1>1, <1>2, <1>12, <2>1
  <2>3. own' = OwnAt(Written') /\ ind' = Written' % N /\ dma'.start = Written'
    BY <1>2, <1>5, <1>7
  <2> QED
    BY <1>11, <1>12, <2>2, <2>3 DEF RingInv, CursorValues, dpuVars, OwnAt
<1>16. DmaAligned'
  BY <1>5 DEF DmaAligned
<1>17. HostSlots'
  <2> SUFFICES ASSUME NEW p \in 0 .. Written, Written + 1 - N <= p
               PROVE  hostBuf'[p % N] = WqeAt(p)
    BY <1>0, <1>2 DEF HostSlots, WqeAt, OwnAt
  <2>1. CASE p = Written
    BY <1>8, <1>9, <1>10, <2>1
  <2>2. CASE p # Written
    <3>1. p \in 0 .. Written - 1 /\ p \in Nat /\ Written - N <= p
      BY <1>0, <2>2
    <3>2. hostBuf[p % N] = WqeAt(p)
      BY <3>1 DEF RingInv, HostSlots
    <3>3. p % N # Written % N
      BY <1>0, <3>1, SlotDistinct
    <3>4. p % N \in Slot
      BY <3>1, OwnAtFacts
    <3> QED
      BY <1>8, <1>9, <3>2, <3>3, <3>4
  <2> QED
    BY <2>1, <2>2
<1>18. DpuSlots' /\ Fifo'
  BY <1>11 DEF RingInv, DpuSlots, Fifo, WqeAt, OwnAt, dpuVars
<1> QED
  BY <1>13, <1>14, <1>15, <1>16, <1>17, <1>18 DEF RingInv

\* The end of a call moves what it posted from nreq to head.
LEMMA EndPostKeepsRingInv ==
    ASSUME RingInv, EndPost
    PROVE  RingInv'
<1>0. head \in Nat /\ nreq \in Nat /\ dma \in DmaQueue /\ visible \in Nat
  BY DEF RingInv, TypeOK, DmaQueue
<1>1. Written' = Written
  BY <1>0 DEF EndPost, Written
<1>2. PICK polled \in {dma.finish} \cup {s \in signals : s <= visible} :
         LET flushed == IF nreq > 0 THEN FlushDmaReq(dma) ELSE dma
         IN  /\ dma' = [flushed EXCEPT !.finish = polled]
             /\ signals' = {s \in signals : s > polled}
                             \cup (IF flushed.lastSignal # dma.lastSignal
                                     THEN {flushed.lastSignal} ELSE {})
  BY DEF EndPost
<1>3. dma.index <= dma.start /\ dma.start - dma.index < Batch
  BY DEF RingInv, CursorOrder, CursorValues, DmaAligned
<1>4. FlushDmaReq(dma) = dma
  BY <1>0, <1>3, FlushFacts
<1>5. polled \in Nat
  BY <1>0 DEF RingInv, TypeOK, DmaQueue
<1>6. /\ dma' \in DmaQueue
      /\ dma'.start = dma.start
      /\ dma'.index = dma.index
  BY <1>0, <1>2, <1>4, <1>5 DEF DmaQueue
<1>7. /\ call' = "idle" /\ nreq' = 0 /\ head' = head + nreq
      /\ UNCHANGED <<todo, ind, own, hostBuf, tail, visible, bfBuf, dpuVars>>
  BY DEF EndPost
<1>8. TypeOK'
  <2>1. signals' \in SUBSET Nat
    BY <1>2, <1>4 DEF RingInv, TypeOK
  <2> QED
    BY <1>0, <1>6, <1>7, <2>1 DEF RingInv, TypeOK, DmaQueue, dpuVars
<1>9. CursorOrder' /\ DmaAligned' /\ HostSlots' /\ DpuSlots' /\ Fifo'
  BY <1>1, <1>6, <1>7 DEF RingInv, CursorOrder, DmaAligned, HostSlots, DpuSlots,
     Fifo, dpuVars, WqeAt, OwnAt
<1>10. CursorValues'
  BY <1>1, <1>6, <1>7 DEF RingInv, CursorValues, dpuVars, OwnAt
<1> QED
  BY <1>8, <1>9, <1>10 DEF RingInv

\* poll_cq moves tail up to what the DPU has taken.
LEMMA PollCqKeepsRingInv ==
    ASSUME RingInv, NEW k \in 1 .. MaxPosts, PollCq(k)
    PROVE  RingInv'
<1>0. k \in Nat /\ tail < k /\ k <= Len(received) /\ tail' = k
  BY WqeRingAssumption DEF PollCq
<1>1. UNCHANGED <<call, todo, nreq, ind, head, own, hostBuf, dma, signals,
                  visible, bfBuf, dpuHead, dpuOwn, received>>
  BY DEF PollCq, callVars, hostVars, dmaVars, dpuVars
<1>2. Written' = Written
  BY <1>1 DEF Written
<1>3. TypeOK'
  BY <1>0, <1>1 DEF RingInv, TypeOK
<1>4. CursorOrder'
  <2>1. /\ N \in Nat /\ Written \in Nat /\ tail \in Nat
        /\ Len(received) \in Nat
    BY CursorGaps
  <2> QED
    BY <1>0, <1>1, <1>2, <2>1 DEF RingInv, CursorOrder
<1>5. CursorValues' /\ DmaAligned' /\ HostSlots' /\ DpuSlots' /\ Fifo'
  BY <1>1, <1>2 DEF RingInv, CursorValues, DmaAligned, HostSlots, DpuSlots,
     Fifo, WqeAt, OwnAt
<1> QED
  BY <1>3, <1>4, <1>5 DEF RingInv

\* The DMA engine copies a slot the host has not written over.
LEMMA DmaCopyKeepsRingInv ==
    ASSUME RingInv, DmaCopy
    PROVE  RingInv'
<1>0. /\ N \in Nat /\ N > 0
      /\ Written \in Nat /\ visible \in Nat /\ dma.index \in Nat
      /\ visible < dma.index /\ dma.index <= Written
      /\ visible' = visible + 1
      /\ Written - visible <= N
  BY CursorGaps DEF RingInv, CursorOrder, DmaCopy
<1>1. UNCHANGED <<call, todo, nreq, ind, head, own, hostBuf, tail, dma, signals,
                  dpuHead, dpuOwn, received>>
  BY DEF DmaCopy, callVars, hostVars, dmaVars, dpuVars
<1>2. Written' = Written
  BY <1>1 DEF Written
<1>3. hostBuf[visible % N] = WqeAt(visible)
  <2>1. visible \in 0 .. Written - 1 /\ Written - N <= visible
    BY <1>0
  <2> QED
    BY <2>1 DEF RingInv, HostSlots
<1>4. bfBuf' = [bfBuf EXCEPT ![visible % N] = WqeAt(visible)]
  BY <1>3 DEF DmaCopy
<1>5. /\ bfBuf \in [Slot -> Wqe]
      /\ WqeAt(visible) \in Wqe
      /\ visible % N \in Slot
  BY <1>0, WqeAtType, OwnAtFacts DEF RingInv, TypeOK
<1>6. TypeOK'
  <2>1. bfBuf' \in [Slot -> Wqe]
    BY <1>4, <1>5
  <2> QED
    BY <1>0, <1>1, <2>1 DEF RingInv, TypeOK
<1>7. CursorOrder'
  <2>1. Len(received) \in Nat /\ Len(received) <= visible
    BY CursorGaps
  <2> QED
    BY <1>0, <1>1, <1>2, <2>1 DEF RingInv, CursorOrder
<1>8. CursorValues' /\ DmaAligned' /\ HostSlots' /\ Fifo'
  BY <1>1, <1>2 DEF RingInv, CursorValues, DmaAligned, HostSlots, Fifo, WqeAt,
     OwnAt
<1>9. ASSUME NEW p \in 0 .. visible, visible + 1 - N <= p
      PROVE  bfBuf'[p % N] = WqeAt(p)
  <2>1. CASE p = visible
    BY <1>4, <1>5, <2>1
  <2>2. CASE p # visible
    <3>1. /\ p \in 0 .. visible - 1 /\ p \in Nat /\ visible - N <= p
          /\ p < visible /\ visible < p + N
      BY <1>0, <1>9, <2>2
    <3>2. bfBuf[p % N] = WqeAt(p)
      BY <3>1 DEF RingInv, DpuSlots
    <3>3. p % N # visible % N
      BY <1>0, <3>1, SlotDistinct
    <3>4. p % N \in Slot
      BY <3>1, OwnAtFacts
    <3> QED
      BY <1>4, <1>5, <3>2, <3>3, <3>4
  <2> QED
    BY <2>1, <2>2
<1>10. ASSUME NEW i \in Slot, visible + 1 <= i
       PROVE  bfBuf'[i].own = 0
  <2>1. i \in Nat /\ visible < N
    BY <1>0, <1>10 DEF Slot
  <2>2. visible % N = visible
    BY <1>0, <2>1, OwnAtFacts
  <2>3. bfBuf[i].own = 0
    BY <1>0, <1>10, <2>1 DEF RingInv, DpuSlots
  <2> QED
    BY <1>0, <1>4, <1>5, <1>10, <2>1, <2>2, <2>3
<1>11. DpuSlots'
  BY <1>0, <1>9, <1>10 DEF DpuSlots, WqeAt, OwnAt, Slot
<1> QED
  BY <1>6, <1>7, <1>8, <1>11 DEF RingInv

\* The DPU takes the next request, never one of an earlier turn.
LEMMA TakeWqeKeepsRingInv ==
    ASSUME RingInv, TakeWqe
    PROVE  RingInv'
<1> DEFINE c == Len(received)
<1>0. c \in Nat /\ c < visible /\ visible \in Nat /\ received \in Seq(Nat)
  BY CursorGaps, OwnerBit DEF TakeWqe, RingInv, TypeOK
<1>1. received' = Append(received, c)
  BY OwnerBit DEF TakeWqe
<1>2. /\ received' \in Seq(Nat)
      /\ Len(received') = c + 1
      /\ \A i \in 1 .. c : received'[i] = received[i]
      /\ received'[c + 1] = c
  BY <1>0, <1>1
<1>3. UNCHANGED <<call, todo, nreq, ind, head, own, hostBuf, tail, dma, signals,
                  visible, bfBuf>>
  BY DEF TakeWqe, callVars, hostVars, dmaVars
<1>4. Written' = Written
  BY <1>3 DEF Written
<1>5. /\ dpuHead' = (c + 1) % N /\ dpuHead' \in Slot
      /\ dpuOwn' = OwnAt(c + 1) /\ dpuOwn' \in Bit
  <2>1. dpuOwn' = OwnAfter(OwnAt(c), c % N) /\ dpuHead' = NextSlot(c % N)
    BY DEF TakeWqe, RingInv, CursorValues
  <2>2. /\ OwnAt(c + 1) = OwnAfter(OwnAt(c), c % N)
        /\ (c + 1) % N = NextSlot(c % N)
    BY <1>0, OwnAtFacts
  <2>3. c + 1 \in Nat
    BY <1>0
  <2>4. OwnAt(c + 1) \in Bit /\ (c + 1) % N \in Slot
    BY <2>3, OwnAtFacts
  <2> QED
    BY <2>1, <2>2, <2>4
<1>6. TypeOK'
  BY <1>2, <1>3, <1>5 DEF RingInv, TypeOK
<1>7. CursorOrder'
  <2>1. tail \in Nat /\ tail <= c
    BY CursorGaps DEF RingInv, CursorOrder
  <2> QED
    BY <1>0, <1>2, <1>3, <1>4, <2>1 DEF RingInv, CursorOrder
<1>8. CursorValues'
  BY <1>2, <1>3, <1>4, <1>5 DEF RingInv, CursorValues, OwnAt
<1>9. DmaAligned' /\ HostSlots' /\ DpuSlots'
  BY <1>3, <1>4 DEF RingInv, DmaAligned, HostSlots, DpuSlots, WqeAt, OwnAt
<1>10. Fifo'
  <2> SUFFICES ASSUME NEW i \in 1 .. c + 1
               PROVE  received'[i] = i - 1
    BY <1>2 DEF Fifo
  <2>1. CASE i = c + 1
    BY <1>0, <1>2, <2>1
  <2>2. CASE i # c + 1
    <3>1. i \in 1 .. c
      BY <1>0, <2>2
    <3> QED
      BY <1>2, <3>1 DEF RingInv, Fifo
  <2> QED
    BY <2>1, <2>2
<1> QED
  BY <1>6, <1>7, <1>8, <1>9, <1>10 DEF RingInv

\* Every step keeps RingInv.
LEMMA RingInvStep ==
    RingInv /\ [Next]_vars => RingInv'
<1> SUFFICES ASSUME RingInv, [Next]_vars
             PROVE  RingInv'
  OBVIOUS
<1>1. CASE \E n \in 1 .. MaxList : BeginPost(n)
  BY <1>1, CallKeepsRingInv
<1>2. CASE Post
  BY <1>2, CallKeepsRingInv, PostWrKeepsRingInv, EndPostKeepsRingInv DEF Post
<1>3. CASE \E k \in 1 .. MaxPosts : PollCq(k)
  BY <1>3, PollCqKeepsRingInv
<1>4. CASE DmaCopy
  BY <1>4, DmaCopyKeepsRingInv
<1>5. CASE TakeWqe
  BY <1>5, TakeWqeKeepsRingInv
<1>6. CASE UNCHANGED vars
  <2>1. UNCHANGED <<call, todo, nreq, ind, head, own, hostBuf, tail, dma, signals,
                    visible, bfBuf, dpuHead, dpuOwn, received>>
    BY <1>6 DEF vars, callVars, hostVars, dmaVars, dpuVars
  <2> QED
    BY <2>1 DEF RingInv, TypeOK, CursorOrder, CursorValues, DmaAligned,
       HostSlots, DpuSlots, Fifo, Written, WqeAt, OwnAt
<1> QED
  BY <1>1, <1>2, <1>3, <1>4, <1>5, <1>6 DEF Next

-----------------------------------------------------------------------------
(* Theorems *)

\* The cursors, the flags and both copies of the ring agree at every step.
THEOREM RingInvariance ==
    Spec => []RingInv
<1>1. Init => RingInv
  BY InitRingInv
<1>2. RingInv /\ [Next]_vars => RingInv'
  BY RingInvStep
<1> QED
  BY <1>1, <1>2, PTL DEF Spec

\* Every variable of the ring keeps its type (smartns_dma_wq and the send or
\* receive queue on both sides).
THEOREM TypeCorrect ==
    Spec => []TypeOK
<1>1. RingInv => TypeOK
  BY DEF RingInv
<1> QED
  BY <1>1, RingInvariance, PTL

\* The DPU takes the requests once each and in the order posted, for every ring
\* size and batch size (smartns_post_send, get_next_wqe).
THEOREM FifoCorrect ==
    Spec => []Fifo
<1>1. RingInv => Fifo
  BY DEF RingInv
<1> QED
  BY <1>1, RingInvariance, PTL

\* The owner bit alone tells whether a WQE not taken yet has arrived
\* (op_own, own_flag).
THEOREM OwnerBitCorrect ==
    Spec => []OwnerBitExact
<1>1. RingInv => OwnerBitExact
  BY OwnerBit DEF OwnerBitExact
<1> QED
  BY <1>1, RingInvariance, PTL

\* The test for a full ring keeps the host from writing over a WQE still to be
\* taken, although tail is moved by another thread ("post send wq full").
THEOREM NoOverrunCorrect ==
    Spec => []NoOverrun
<1>1. RingInv => NoOverrun
  BY CursorGaps DEF NoOverrun
<1> QED
  BY <1>1, RingInvariance, PTL

\* No DMA request runs over the end of the ring, although the batches are
\* counted without looking at the slot (flush_dma_req).
THEOREM DmaInsideRingCorrect ==
    Spec => DmaInsideRing
<1> DEFINE Inside == dma'.index # dma.index =>
                       (dma.index % N) + (dma'.index - dma.index) <= N
<1>0. /\ N \in Nat /\ N > 0
      /\ Batch \in Nat /\ Batch > 0
      /\ N % Batch = 0
  BY WqeRingAssumption
<1>1. RingInv /\ [Next]_vars => [Inside]_vars
  <2> SUFFICES ASSUME RingInv, Next
               PROVE  Inside
    OBVIOUS
  <2>1. /\ dma \in DmaQueue
        /\ dma.index \in Nat
        /\ dma.index <= dma.start
        /\ dma.start - dma.index < Batch
        /\ dma.index % Batch = 0
    BY DEF RingInv, TypeOK, DmaQueue, CursorOrder, CursorValues, DmaAligned
  <2>2. CASE PostWr
    <3> DEFINE s == StepDmaReq(dma)
    <3>1. /\ s \in DmaQueue
          /\ s.index \in {dma.index, dma.index + Batch}
          /\ s.index <= s.start
          /\ s.start - s.index < Batch
      BY <2>1, StepFacts
    <3> HIDE DEF s
    <3>2. FlushDmaReq(s) = s
      BY <3>1, FlushFacts
    <3>3. dma' = s
      BY <2>2, <3>2 DEF PostWr, s
    <3>4. (dma.index % N) + Batch <= N
      BY <1>0, <2>1, BlockInRing
    <3>5. dma'.index # dma.index => dma'.index - dma.index = Batch
      BY <1>0, <2>1, <3>1, <3>3
    <3> QED
      BY <3>4, <3>5
  <2>3. CASE EndPost
    <3>1. FlushDmaReq(dma) = dma
      BY <2>1, FlushFacts
    <3>2. dma'.index = dma.index
      BY <2>1, <2>3, <3>1 DEF EndPost, DmaQueue
    <3> QED
      BY <3>2
  <2>4. CASE ~PostWr /\ ~EndPost
    <3>1. UNCHANGED dma
      BY <2>4 DEF Next, Post, BeginPost, PostFull, PostDmaFull, PollCq, DmaCopy,
         TakeWqe, dmaVars
    <3> QED
      BY <3>1
  <2> QED
    BY <2>2, <2>3, <2>4
<1>2. RingInv /\ [Next]_vars => [dma'.index # dma.index =>
         (dma.index % N) + (dma'.index - dma.index) <= N]_vars
  BY <1>1
<1> QED
  BY <1>2, RingInvariance, PTL DEF Spec, DmaInsideRing

-----------------------------------------------------------------------------
(* Refinement *)

\* Writing a WQE is Put, taking one is Get, all else is a stutter.
LEMMA QueueStep ==
    RingInv /\ [Next]_vars => [Queue!Next]_(Queue!vars)
<1> SUFFICES ASSUME RingInv, [Next]_vars
             PROVE  [Queue!Next]_(Queue!vars)
  OBVIOUS
<1> DEFINE c == Len(received)
<1>0. /\ N \in Nat /\ Written \in Nat /\ c \in Nat /\ tail \in Nat
      /\ c <= Written /\ tail <= c
      /\ received \in Seq(Nat)
      /\ todo \in Nat /\ MaxPosts \in Nat
  BY CursorGaps, WqeRingAssumption DEF RingInv, TypeOK, CursorOrder
<1>1. CASE PostWr
  <2>1. Written' = Written + 1 /\ received' = received
    BY <1>0, <1>1 DEF PostWr, Written, dpuVars, RingInv, TypeOK
  <2>2. Written < MaxPosts
    BY <1>0, <1>1 DEF PostWr, RingInv, CursorValues
  <2>3. Written - c < N
    <3>1. Written - tail < N
      BY <1>0, <1>1 DEF PostWr, RingFull, Written, RingInv, TypeOK
    <3> QED
      BY <1>0, <3>1
  <2>4. /\ Len(Requests(c, Written)) < N
        /\ Requests(c, Written + 1) = Append(Requests(c, Written), Written)
    BY <1>0, <2>3, RequestsFacts
  <2> QED
    BY <2>1, <2>2, <2>4 DEF Queue!Next, Queue!Put, Requests
<1>2. CASE TakeWqe
  <2>1. Written' = Written /\ received' = Append(received, c) /\ c < Written
    BY <1>0, <1>2, CursorGaps, OwnerBit
    DEF TakeWqe, Written, callVars, hostVars
  <2>2. Len(received') = c + 1
    BY <1>0, <2>1
  <2>3. /\ Requests(c, Written) # <<>>
        /\ Head(Requests(c, Written)) = c
        /\ Requests(c + 1, Written) = Tail(Requests(c, Written))
    BY <1>0, <2>1, RequestsFacts
  <2> QED
    BY <2>1, <2>2, <2>3 DEF Queue!Next, Queue!Get, Requests
<1>3. CASE ~PostWr /\ ~TakeWqe
  <2>1. UNCHANGED received
    BY <1>3 DEF Next, Post, BeginPost, PostFull, PostDmaFull, EndPost, PollCq,
       DmaCopy, dpuVars, vars
  <2>2. Written' = Written
    <3>1. CASE \E n \in 1 .. MaxList : BeginPost(n)
      BY <3>1 DEF BeginPost, Written, hostVars, RingInv, CursorValues
    <3>2. CASE EndPost
      BY <3>2 DEF EndPost, Written, RingInv, TypeOK
    <3>3. CASE UNCHANGED <<head, nreq>>
      BY <3>3 DEF Written
    <3> QED
      BY <1>3, <3>1, <3>2, <3>3 DEF Next, Post, PostFull, PostDmaFull, PollCq,
         DmaCopy, vars, callVars, hostVars
  <2> QED
    BY <2>1, <2>2 DEF Queue!vars
<1> QED
  BY <1>1, <1>2, <1>3

\* The ring with its two copies, its DMA queue and its owner bits implements
\* the bounded FIFO queue WorkQueue.
THEOREM RingImplementsQueue ==
    Spec => QueueSpec
<1>1. Init => Queue!Init
  BY DEF Init, Queue!Init, Written
<1>2. RingInv /\ [Next]_vars => [Queue!Next]_(Queue!vars)
  BY QueueStep
<1> QED
  BY <1>1, <1>2, RingInvariance, PTL DEF Spec, QueueSpec, Queue!Spec
=============================================================================
