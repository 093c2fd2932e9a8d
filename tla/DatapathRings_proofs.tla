------------------------ MODULE DatapathRings_proofs ------------------------
(***************************************************************************)
(* The two rings a datapath thread writes to without looking whether the   *)
(* slot is free.  CompletionRing: a completion ring in fresh memory is     *)
(* correct for every size, every width of the host's counter the size      *)
(* divides and every host that keeps at most N completions outstanding,    *)
(* CqInv is inductive.  TxRing: for every depth of the header ring and of  *)
(* the send queue and every batch size headers stay until the NIC has read *)
(* them, and the cursor of completions counts what the completions stand   *)
(* for, TxInv is inductive.                                                *)
(***************************************************************************)
EXTENDS CompletionRing, TxRing, RingArith

-----------------------------------------------------------------------------
(* CompletionRing *)

\* Memory that no earlier ring has used.
Fresh == Previous = {0}

-----------------------------------------------------------------------------
(* Owner bits and slots *)

\* The constants as numbers.
LEMMA CqConstants ==
    /\ N \in Nat /\ N > 0
    /\ W \in Nat /\ W > 0 /\ W % N = 0
    /\ MaxInFlight \in Nat /\ MaxInFlight <= N
    /\ MaxCqes \in Nat
BY CompletionRingAssumption

\* The owner bit is a bit and flips from one turn to the next.
LEMMA CqeBitFacts ==
    ASSUME NEW p \in Nat
    PROVE  /\ OwnAt(p) \in Bit
           /\ OwnAt(p + 1) = OwnAfter(OwnAt(p), p % N)
           /\ (p + 1) % N = NextSlot(p % N)
           /\ p % N \in Slot
           /\ p < N => OwnAt(p) = 1 /\ p % N = p
           /\ p >= N => OwnAt(p - N) = 1 - OwnAt(p) /\ (p - N) % N = p % N
<1>1. N \in Nat /\ N > 0
  BY CqConstants
<1>2. \A k \in Int : OwnAt(k) = TurnBit(k, N)
  BY DEF OwnAt, TurnBit
<1>3. /\ OwnAt(p) = TurnBit(p, N)
      /\ OwnAt(p + 1) = TurnBit(p + 1, N)
      /\ OwnAt(p - N) = TurnBit(p - N, N)
  BY <1>1, <1>2
<1>4. /\ TurnBit(p, N) \in {0, 1}
      /\ TurnBit(p + 1, N) = OwnAfter(TurnBit(p, N), p % N)
      /\ (p + 1) % N = NextSlot(p % N)
      /\ p % N \in Slot
      /\ p < N => TurnBit(p, N) = 1 /\ p % N = p
      /\ p >= N => /\ TurnBit(p - N, N) = 1 - TurnBit(p, N)
                   /\ (p - N) % N = p % N
  BY <1>1, TurnBitFacts DEF Slot, OwnAfter, NextSlot
<1> QED
  BY <1>3, <1>4 DEF Bit

\* The host's head, W wide, is in the slot of its free-running cursor and
\* comes to the start of the ring when that does.
LEMMA HostHead ==
    ASSUME NEW c \in Nat
    PROVE  /\ c % W \in 0 .. W - 1
           /\ (c % W) % N = c % N
           /\ ((c % W) + 1) % W = (c + 1) % W
           /\ Flip((c + 1) % W) <=> (c % N) + 1 = N
<1>0. N \in Nat /\ N > 0 /\ W \in Nat /\ W > 0 /\ W % N = 0
  BY CqConstants
<1>1. c % W \in 0 .. W - 1
  BY <1>0, SlotAndTurn
<1>2. (c % W) % N = c % N
  BY <1>0, SlotOfWrapped
<1>3. ((c % W) + 1) % W = (c + 1) % W
  BY <1>0, WrappedStep
<1>4. ((c + 1) % W) % N = (c + 1) % N
  <2>1. c + 1 \in Nat
    OBVIOUS
  <2> QED
    BY <1>0, <2>1, SlotOfWrapped
<1>5. (c + 1) % N = 0 <=> (c % N) + 1 = N
  <2>1. (c + 1) % N = NextSlot(c % N) /\ c % N \in Slot
    BY CqeBitFacts
  <2> QED
    BY <1>0, <2>1 DEF NextSlot, Slot
<1> QED
  BY <1>1, <1>2, <1>3, <1>4, <1>5 DEF Flip

\* A CQE's fields.
LEMMA CqeAtType ==
    ASSUME NEW p \in Nat
    PROVE  CqeAt(p) \in Cqe
<1>1. OwnAt(p) \in Bit /\ p \in Int
  BY CqeBitFacts
<1> QED
  BY <1>1 DEF CqeAt, Cqe

\* Between the cursors there is at most a ring of CQEs.
LEMMA CqeGaps ==
    ASSUME CqInv
    PROVE  /\ issued \in Nat /\ arrived \in Nat /\ Len(polled) \in Nat
           /\ Len(polled) <= arrived
           /\ arrived <= issued
           /\ issued - Len(polled) <= N
           /\ arrived - Len(polled) <= N
BY CqConstants DEF CqInv, TypeOK, CqeCursorOrder

\* poll_cq finds a CQE exactly when one not polled has arrived, and then it is
\* the next one.
LEMMA CqeBit ==
    ASSUME CqInv
    PROVE  /\ HasCqe <=> Len(polled) < arrived
           /\ HasCqe => hostBuf[head % N].id = Len(polled)
<1> DEFINE c == Len(polled)
<1>0. /\ N \in Nat /\ N > 0
      /\ c \in Nat /\ arrived \in Nat
      /\ c <= arrived
      /\ arrived - c <= N
  BY CqeGaps, CqConstants
<1>1. head % N = c % N /\ own = OwnAt(c)
  BY <1>0, HostHead DEF CqInv, CqeCursorValues
<1>2. CASE c < arrived
  <2>1. c \in 0 .. arrived - 1 /\ arrived - N <= c
    BY <1>0, <1>2
  <2>2. hostBuf[c % N] = CqeAt(c)
    BY <2>1 DEF CqInv, CqeSlots
  <2> QED
    BY <1>1, <1>2, <2>2 DEF HasCqe, CqeAt
<1>3. CASE c = arrived
  <2>0. OwnAt(c) \in Bit
    BY <1>0, CqeBitFacts
  <2>1. CASE c >= N
    <3>1. c - N \in 0 .. arrived - 1 /\ arrived - N <= c - N
      BY <1>0, <1>3, <2>1
    <3>2. hostBuf[(c - N) % N] = CqeAt(c - N)
      BY <3>1 DEF CqInv, CqeSlots
    <3>3. OwnAt(c - N) = 1 - OwnAt(c) /\ (c - N) % N = c % N
      BY <1>0, <2>1, CqeBitFacts
    <3>4. hostBuf[head % N].own = 1 - own
      BY <1>1, <3>2, <3>3 DEF CqeAt
    <3>5. ~HasCqe
      BY <1>1, <2>0, <3>4 DEF HasCqe, Bit
    <3> QED
      BY <1>0, <1>3, <3>5
  <2>2. CASE c < N
    <3>1. OwnAt(c) = 1 /\ c % N = c /\ c \in Slot
      BY <1>0, <2>2, CqeBitFacts DEF Slot
    <3>2. hostBuf[c].own = 0
      BY <1>0, <1>3, <3>1 DEF CqInv, CqeSlots
    <3>3. ~HasCqe
      BY <1>1, <3>1, <3>2 DEF HasCqe
    <3> QED
      BY <1>0, <1>3, <3>3
  <2> QED
    BY <1>0, <2>1, <2>2
<1> QED
  BY <1>0, <1>2, <1>3

-----------------------------------------------------------------------------
(* CqInv is inductive *)

\* In fresh memory the ring is empty and both flags are at their first turn.
LEMMA InitCqInv ==
    ASSUME Fresh
    PROVE  Init => CqInv
<1> SUFFICES ASSUME Init
             PROVE  CqInv
  OBVIOUS
<1>0. /\ N \in Nat /\ N > 0 /\ W \in Nat /\ W > 0
      /\ MaxInFlight \in Nat
  BY CqConstants
<1>1. UsedMemory(0) = [i \in Slot |-> [own |-> 0, id |-> Stale]]
  BY <1>0 DEF UsedMemory, Slot
<1>2. bfBuf = UsedMemory(0) /\ hostBuf = UsedMemory(0)
  BY DEF Init, Fresh
<1>3. Len(polled) = 0 /\ issued = 0 /\ arrived = 0
  BY DEF Init
<1>4. TypeOK
  BY <1>0, <1>1, <1>2 DEF Init, TypeOK, Slot, Cqe, Bit, Stale
<1>5. CqeCursorOrder
  BY <1>0, <1>3 DEF CqeCursorOrder
<1>6. CqeCursorValues
  <2>1. OwnAt(0) = 1 /\ 0 % N = 0
    BY <1>0, CqeBitFacts
  <2>2. 0 % W = 0
    BY <1>0, SlotFirstTurn
  <2> QED
    BY <1>3, <2>1, <2>2 DEF Init, CqeCursorValues
<1>7. CqeSlots /\ CqeFifo
  BY <1>1, <1>2, <1>3 DEF Init, CqeSlots, CqeFifo
<1> QED
  BY <1>4, <1>5, <1>6, <1>7 DEF CqInv

\* The DPU writes a slot whose CQE the host polled, at least a ring ago.
LEMMA WriteCqeKeepsCqInv ==
    ASSUME CqInv, WriteCqe
    PROVE  CqInv'
<1>0. /\ N \in Nat /\ N > 0
      /\ MaxInFlight \in Nat /\ MaxInFlight <= N
      /\ issued \in Nat /\ arrived \in Nat /\ Len(polled) \in Nat
      /\ Len(polled) <= arrived /\ arrived <= issued
      /\ issued' = issued + 1
      /\ issued - Len(polled) < MaxInFlight
  BY CqeGaps, CqConstants DEF WriteCqe, RoomForCqe
<1>1. UNCHANGED <<arrived, hostBuf, head, own, consumer, call, npolled, polled>>
  BY DEF WriteCqe, hostVars
<1>2. bfBuf' = [bfBuf EXCEPT ![issued % N] = CqeAt(issued)]
  BY DEF WriteCqe, CqInv, CqeCursorValues, CqeAt
<1>3. /\ dpuHead' = (issued + 1) % N /\ dpuHead' \in Slot
      /\ dpuOwn' = OwnAt(issued + 1) /\ dpuOwn' \in Bit
  <2>1. dpuOwn' = OwnAfter(OwnAt(issued), issued % N) /\ dpuHead' = NextSlot(issued % N)
    BY DEF WriteCqe, CqInv, CqeCursorValues
  <2>2. /\ OwnAt(issued + 1) = OwnAfter(OwnAt(issued), issued % N)
        /\ (issued + 1) % N = NextSlot(issued % N)
    BY <1>0, CqeBitFacts
  <2>3. issued + 1 \in Nat
    BY <1>0
  <2>4. OwnAt(issued + 1) \in Bit /\ (issued + 1) % N \in Slot
    BY <2>3, CqeBitFacts
  <2> QED
    BY <2>1, <2>2, <2>4
<1>4. /\ bfBuf \in [Slot -> Cqe]
      /\ CqeAt(issued) \in Cqe
      /\ issued % N \in Slot
  BY <1>0, CqeAtType, CqeBitFacts DEF CqInv, TypeOK
<1>5. TypeOK'
  <2>1. bfBuf' \in [Slot -> Cqe]
    BY <1>2, <1>4
  <2> QED
    BY <1>0, <1>1, <1>3, <2>1 DEF CqInv, TypeOK
<1>6. CqeCursorOrder'
  BY <1>0, <1>1 DEF CqeCursorOrder
<1>7. CqeCursorValues'
  BY <1>0, <1>1, <1>3 DEF CqInv, CqeCursorValues, OwnAt
<1>8. ASSUME NEW p \in 0 .. issued, issued + 1 - N <= p
      PROVE  bfBuf'[p % N] = CqeAt(p)
  <2>1. CASE p = issued
    BY <1>2, <1>4, <2>1
  <2>2. CASE p # issued
    <3>1. /\ p \in 0 .. issued - 1 /\ p \in Nat /\ issued - N <= p
          /\ p < issued /\ issued < p + N
      BY <1>0, <1>8, <2>2
    <3>2. bfBuf[p % N] = CqeAt(p)
      BY <3>1 DEF CqInv, CqeSlots
    <3>3. p % N # issued % N
      BY <1>0, <3>1, SlotDistinct
    <3>4. p % N \in Slot
      BY <3>1, CqeBitFacts
    <3> QED
      BY <1>2, <1>4, <3>2, <3>3, <3>4
  <2> QED
    BY <2>1, <2>2
<1>9. CqeSlots'
  <2>1. \A p \in 0 .. issued' - 1 : issued' - N <= p => bfBuf'[p % N] = CqeAt(p)
    BY <1>0, <1>8
  <2>2. /\ \A p \in 0 .. arrived - 1 : arrived - N <= p => hostBuf[p % N] = CqeAt(p)
        /\ \A i \in Slot : arrived <= i => hostBuf[i].own = 0
    BY DEF CqInv, CqeSlots
  <2> QED
    BY <1>1, <2>1, <2>2 DEF CqeSlots, CqeAt, OwnAt
<1>10. CqeFifo'
  BY <1>1 DEF CqInv, CqeFifo
<1> QED
  BY <1>5, <1>6, <1>7, <1>9, <1>10 DEF CqInv

\* The DMA engine copies a CQE the DPU has not written over.
LEMMA DmaCopyKeepsCqInv ==
    ASSUME CqInv, DmaCopy
    PROVE  CqInv'
<1>0. /\ N \in Nat /\ N > 0
      /\ issued \in Nat /\ arrived \in Nat /\ Len(polled) \in Nat
      /\ Len(polled) <= arrived /\ arrived < issued
      /\ issued - Len(polled) <= N
      /\ arrived' = arrived + 1
  BY CqeGaps, CqConstants DEF DmaCopy
<1>1. UNCHANGED <<dpuHead, dpuOwn, bfBuf, issued, head, own, consumer, call,
                  npolled, polled>>
  BY DEF DmaCopy, dpuVars, hostVars
<1>2. hostBuf' = [hostBuf EXCEPT ![arrived % N] = CqeAt(arrived)]
  <2>1. arrived \in 0 .. issued - 1 /\ issued - N <= arrived
    BY <1>0
  <2>2. bfBuf[arrived % N] = CqeAt(arrived)
    BY <2>1 DEF CqInv, CqeSlots
  <2> QED
    BY <2>2 DEF DmaCopy
<1>3. /\ hostBuf \in [Slot -> Cqe]
      /\ CqeAt(arrived) \in Cqe
      /\ arrived % N \in Slot
  BY <1>0, CqeAtType, CqeBitFacts DEF CqInv, TypeOK
<1>4. TypeOK'
  <2>1. hostBuf' \in [Slot -> Cqe]
    BY <1>2, <1>3
  <2> QED
    BY <1>0, <1>1, <2>1 DEF CqInv, TypeOK
<1>5. CqeCursorOrder'
  BY <1>0, <1>1 DEF CqInv, CqeCursorOrder
<1>6. CqeCursorValues' /\ CqeFifo'
  BY <1>1 DEF CqInv, CqeCursorValues, CqeFifo, OwnAt
<1>7. ASSUME NEW p \in 0 .. arrived, arrived + 1 - N <= p
      PROVE  hostBuf'[p % N] = CqeAt(p)
  <2>1. CASE p = arrived
    BY <1>2, <1>3, <2>1
  <2>2. CASE p # arrived
    <3>1. /\ p \in 0 .. arrived - 1 /\ p \in Nat /\ arrived - N <= p
          /\ p < arrived /\ arrived < p + N
      BY <1>0, <1>7, <2>2
    <3>2. hostBuf[p % N] = CqeAt(p)
      BY <3>1 DEF CqInv, CqeSlots
    <3>3. p % N # arrived % N
      BY <1>0, <3>1, SlotDistinct
    <3>4. p % N \in Slot
      BY <3>1, CqeBitFacts
    <3> QED
      BY <1>2, <1>3, <3>2, <3>3, <3>4
  <2> QED
    BY <2>1, <2>2
<1>8. ASSUME NEW i \in Slot, arrived + 1 <= i
      PROVE  hostBuf'[i].own = 0
  <2>1. i \in Nat /\ arrived < N
    BY <1>0, <1>8 DEF Slot
  <2>2. arrived % N = arrived
    BY <1>0, <2>1, CqeBitFacts
  <2>3. hostBuf[i].own = 0
    BY <1>0, <1>8, <2>1 DEF CqInv, CqeSlots
  <2> QED
    BY <1>0, <1>2, <1>3, <1>8, <2>1, <2>2, <2>3
<1>9. CqeSlots'
  <2>1. \A p \in 0 .. issued' - 1 : issued' - N <= p => bfBuf'[p % N] = CqeAt(p)
    BY <1>1 DEF CqInv, CqeSlots
  <2>2. \A p \in 0 .. arrived' - 1 : arrived' - N <= p => hostBuf'[p % N] = CqeAt(p)
    <3>1. arrived' - 1 = arrived /\ arrived' - N = arrived + 1 - N
      BY <1>0
    <3> QED
      BY <1>7, <3>1
  <2>3. \A i \in Slot : arrived' <= i => hostBuf'[i].own = 0
    BY <1>0, <1>8
  <2> QED
    BY <2>1, <2>2, <2>3 DEF CqeSlots, CqeAt, OwnAt
<1> QED
  BY <1>4, <1>5, <1>6, <1>9 DEF CqInv

\* The host polls the next CQE, never one of an earlier turn.
LEMMA PollCqeKeepsCqInv ==
    ASSUME CqInv, PollCqe
    PROVE  CqInv'
<1> DEFINE c == Len(polled)
<1>0. /\ N \in Nat /\ N > 0 /\ MaxInFlight \in Nat
      /\ c \in Nat /\ arrived \in Nat /\ issued \in Nat
      /\ c < arrived /\ arrived <= issued
      /\ polled \in Seq(Int) /\ npolled \in Nat
  BY CqeGaps, CqConstants, CqeBit DEF PollCqe, CqInv, TypeOK
<1>1. polled' = Append(polled, c)
  BY CqeBit DEF PollCqe
<1>2. /\ polled' \in Seq(Int)
      /\ Len(polled') = c + 1
      /\ \A i \in 1 .. c : polled'[i] = polled[i]
      /\ polled'[c + 1] = c
  BY <1>0, <1>1
<1>3. UNCHANGED <<dpuHead, dpuOwn, bfBuf, issued, arrived, hostBuf, consumer, call>>
  BY DEF PollCqe, dpuVars
<1>4. head' = (c + 1) % W /\ head' \in 0 .. W - 1
  <2>1. head = c % W /\ head' = (head + 1) % W
    BY DEF CqInv, CqeCursorValues, PollCqe
  <2>2. ((c % W) + 1) % W = (c + 1) % W
    BY <1>0, HostHead
  <2>3. c + 1 \in Nat
    BY <1>0
  <2>4. (c + 1) % W \in 0 .. W - 1
    BY <2>3, HostHead
  <2> QED
    BY <2>1, <2>2, <2>4
<1>5. own' = OwnAt(c + 1) /\ own' \in Bit
  <2>1. own' = IF Flip((c + 1) % W) THEN 1 - OwnAt(c) ELSE OwnAt(c)
    BY <1>4 DEF CqInv, CqeCursorValues, PollCqe
  <2>2. Flip((c + 1) % W) <=> (c % N) + 1 = N
    BY <1>0, HostHead
  <2>3. OwnAt(c + 1) = OwnAfter(OwnAt(c), c % N)
    BY <1>0, CqeBitFacts
  <2>4. own' = OwnAt(c + 1)
    BY <2>1, <2>2, <2>3 DEF OwnAfter
  <2>5. c + 1 \in Nat
    BY <1>0
  <2>6. OwnAt(c + 1) \in Bit
    BY <2>5, CqeBitFacts
  <2> QED
    BY <2>4, <2>6
<1>6. TypeOK'
  <2>1. npolled' \in Nat
    BY <1>0 DEF PollCqe
  <2> QED
    BY <1>2, <1>3, <1>4, <1>5, <2>1 DEF CqInv, TypeOK
<1>7. CqeCursorOrder'
  BY <1>0, <1>2, <1>3 DEF CqInv, CqeCursorOrder
<1>8. CqeCursorValues'
  <2>1. call' = "polling"
    BY <1>3 DEF PollCqe
  <2> QED
    BY <1>2, <1>3, <1>4, <1>5, <2>1 DEF CqInv, CqeCursorValues, OwnAt
<1>9. CqeSlots'
  BY <1>3 DEF CqInv, CqeSlots, CqeAt, OwnAt
<1>10. CqeFifo'
  <2> SUFFICES ASSUME NEW i \in 1 .. c + 1
               PROVE  polled'[i] = i - 1
    BY <1>2 DEF CqeFifo
  <2>1. CASE i = c + 1
    BY <1>0, <1>2, <2>1
  <2>2. CASE i # c + 1
    <3>1. i \in 1 .. c
      BY <1>0, <2>2
    <3> QED
      BY <1>2, <3>1 DEF CqInv, CqeFifo
  <2> QED
    BY <2>1, <2>2
<1> QED
  BY <1>6, <1>7, <1>8, <1>9, <1>10 DEF CqInv

\* Beginning and ending a poll touch the call, its local and the doorbell only.
LEMMA CallKeepsCqInv ==
    ASSUME CqInv, BeginPoll \/ EndPoll
    PROVE  CqInv'
<1>1. UNCHANGED <<dpuHead, dpuOwn, bfBuf, issued, arrived, hostBuf, head, own,
                  polled>>
  BY DEF BeginPoll, EndPoll, dpuVars
<1>2. /\ call' \in {"idle", "polling"}
      /\ npolled' = 0
      /\ consumer' \in {consumer, head}
      /\ call' = "idle" => consumer' = head
  BY DEF BeginPoll, EndPoll
<1>3. TypeOK'
  BY <1>1, <1>2 DEF CqInv, TypeOK
<1>4. CqeCursorValues'
  BY <1>1, <1>2 DEF CqInv, CqeCursorValues, OwnAt
<1>5. CqeCursorOrder' /\ CqeSlots' /\ CqeFifo'
  BY <1>1 DEF CqInv, CqeCursorOrder, CqeSlots, CqeFifo, CqeAt, OwnAt
<1> QED
  BY <1>3, <1>4, <1>5 DEF CqInv

\* Every step keeps CqInv.
LEMMA CqInvStep ==
    CqInv /\ [Next]_vars => CqInv'
<1> SUFFICES ASSUME CqInv, [Next]_vars
             PROVE  CqInv'
  OBVIOUS
<1>1. CASE WriteCqe
  BY <1>1, WriteCqeKeepsCqInv
<1>2. CASE DmaCopy
  BY <1>2, DmaCopyKeepsCqInv
<1>3. CASE Poll
  BY <1>3, CallKeepsCqInv, PollCqeKeepsCqInv DEF Poll
<1>4. CASE UNCHANGED vars
  <2>1. UNCHANGED <<dpuHead, dpuOwn, bfBuf, issued, arrived, hostBuf, head, own,
                    consumer, call, npolled, polled>>
    BY <1>4 DEF vars, dpuVars, hostVars
  <2> QED
    BY <2>1 DEF CqInv, TypeOK, CqeCursorOrder, CqeCursorValues, CqeSlots,
       CqeFifo, CqeAt, OwnAt
<1> QED
  BY <1>1, <1>2, <1>3, <1>4 DEF Next

-----------------------------------------------------------------------------
(* Theorems *)

\* In fresh memory the cursors, the flags and both copies of the completion
\* ring agree at every step, the host's head wrapping around or not.
THEOREM CqInvariance ==
    ASSUME Fresh
    PROVE  Spec => []CqInv
<1>1. Init => CqInv
  BY InitCqInv
<1>2. CqInv /\ [Next]_vars => CqInv'
  BY CqInvStep
<1> QED
  BY <1>1, <1>2, PTL DEF Spec

\* Every variable of the completion ring keeps its type (dpu_cq, smartns_cq).
THEOREM CqTypeCorrect ==
    ASSUME Fresh
    PROVE  Spec => []TypeOK
<1>1. CqInv => TypeOK
  BY DEF CqInv
<1> QED
  BY <1>1, CqInvariance, PTL

\* The host polls every completion once and in the order written, and no CQE
\* of an earlier turn (smartns_poll_cq).
THEOREM CqeFifoCorrect ==
    ASSUME Fresh
    PROVE  Spec => []CqeFifo
<1>1. CqInv => CqeFifo
  BY DEF CqInv
<1> QED
  BY <1>1, CqInvariance, PTL

\* The owner bit alone tells whether a CQE not polled yet has arrived.
THEOREM CqeBitCorrect ==
    ASSUME Fresh
    PROVE  Spec => []CqeBitExact
<1>1. CqInv => CqeBitExact
  BY CqeBit DEF CqeBitExact
<1> QED
  BY <1>1, CqInvariance, PTL

-----------------------------------------------------------------------------
(* Refinement *)

\* Writing a CQE is Put, polling one is Get, all else is a stutter.
LEMMA CqQueueStep ==
    CqInv /\ [Next]_vars => [Queue!Next]_(Queue!vars)
<1> SUFFICES ASSUME CqInv, [Next]_vars
             PROVE  [Queue!Next]_(Queue!vars)
  OBVIOUS
<1> DEFINE c == Len(polled)
<1>0. /\ c \in Nat /\ issued \in Nat /\ c <= issued
      /\ polled \in Seq(Int)
      /\ MaxInFlight \in Nat /\ MaxCqes \in Nat
  BY CqeGaps, CqConstants DEF CqInv, TypeOK
<1>1. CASE WriteCqe
  <2>1. /\ issued' = issued + 1 /\ polled' = polled
        /\ issued < MaxCqes /\ issued - c < MaxInFlight
    BY <1>1 DEF WriteCqe, RoomForCqe, hostVars
  <2>2. /\ Len(Requests(c, issued)) < MaxInFlight
        /\ Requests(c, issued + 1) = Append(Requests(c, issued), issued)
    BY <1>0, <2>1, RequestsFacts
  <2> QED
    BY <2>1, <2>2 DEF Queue!Next, Queue!Put, Requests
<1>2. CASE PollCqe
  <2>1. issued' = issued /\ polled' = Append(polled, c) /\ c < issued
    BY <1>0, <1>2, CqeGaps, CqeBit DEF PollCqe, dpuVars
  <2>2. Len(polled') = c + 1
    BY <1>0, <2>1
  <2>3. /\ Requests(c, issued) # <<>>
        /\ Head(Requests(c, issued)) = c
        /\ Requests(c + 1, issued) = Tail(Requests(c, issued))
    BY <1>0, <2>1, RequestsFacts
  <2> QED
    BY <2>1, <2>2, <2>3 DEF Queue!Next, Queue!Get, Requests
<1>3. CASE ~WriteCqe /\ ~PollCqe
  <2>1. UNCHANGED <<issued, polled>>
    BY <1>3 DEF Next, Poll, BeginPoll, EndPoll, DmaCopy, dpuVars, hostVars, vars
  <2> QED
    BY <2>1 DEF Queue!vars
<1> QED
  BY <1>1, <1>2, <1>3

\* The completion ring implements the bounded FIFO queue WorkQueue.
THEOREM CqImplementsQueue ==
    ASSUME Fresh
    PROVE  Spec => QueueSpec
<1>1. Init => Queue!Init
  BY DEF Init, Queue!Init
<1>2. CqInv /\ [Next]_vars => [Queue!Next]_(Queue!vars)
  BY CqQueueStep
<1> QED
  BY <1>1, <1>2, CqInvariance, PTL DEF Spec, QueueSpec, Queue!Spec

-----------------------------------------------------------------------------
(* TxRing *)

\* The cursors: requests sent, posted, collected and written.
Cursors ==
    /\ freed <= Len(wire)
    /\ Posted - freed <= SqDepth
    /\ process = "running" => sendCur = Posted + Len(wr_list)
    /\ process = "running" => batch_index = sendCur % TxBatch

\* Where the loop is: nothing is collected when it polls.
LoopOrder ==
    /\ filled => at \in {"send", "recv"}
    /\ at = "poll" => wr_list = <<>>

\* Request p (from 0) is in slot p % TxDepth, and asks for a completion if the
\* requests up to it make up batches.
WrAt(p) == [slot |-> p % TxDepth, signaled |-> (p + 1) % TxBatch = 0]

Requested ==
    /\ \A i \in 1 .. Len(sq) : sq[i] = WrAt(Len(wire) + i - 1)
    /\ process = "running" =>
         \A i \in 1 .. Len(wr_list) : wr_list[i] = WrAt(Posted + i - 1)

\* The last TxDepth headers written are in their slots.
Headers ==
    process = "running" =>
      \A p \in Nat :
        p < Written /\ Written <= p + TxDepth => header[p % TxDepth] = p + 1

\* A completion stands for TxBatch requests, and every full batch that was sent
\* has one.
Completions ==
    /\ compCur = freed
    /\ \A i \in 1 .. Len(cq) : cq[i] = freed + i * TxBatch
    /\ freed + Len(cq) * TxBatch = TxBatch * (Len(wire) \div TxBatch)

TxInv ==
    /\ TxTypeOK
    /\ Cursors
    /\ LoopOrder
    /\ Requested
    /\ Headers
    /\ Completions
    /\ HeaderIntact

-----------------------------------------------------------------------------
(* Posting a list *)

\* What the types and assumptions say of the numbers.
LEMMA Numbers ==
    ASSUME TxTypeOK
    PROVE  /\ TxDepth \in Nat /\ TxDepth > 0
           /\ TxBatch \in Nat /\ TxBatch > 0
           /\ SqDepth \in Nat /\ SqDepth <= TxDepth
           /\ Len(wire) \in Nat /\ Len(sq) \in Nat /\ Len(wr_list) \in Nat
           /\ Len(cq) \in Nat /\ sendCur \in Nat /\ freed \in Nat
           /\ Posted = Len(wire) + Len(sq)
           /\ Written = IF filled THEN sendCur + 1 ELSE sendCur
BY TxRingAssumption DEF TxTypeOK, Posted, Written

\* Counting modulo the batch size.
LEMMA BatchStep ==
    ASSUME NEW b \in Nat, b > 0, NEW p \in Nat
    PROVE  /\ (p + 1) % b = 0 <=> p % b = b - 1
           /\ (p + 1) % b = ((p % b) + 1) % b
           /\ (p + 1) % b \in 0 .. b - 1
<1> DEFINE r == p % b
<1>1. r \in 0 .. b - 1
  BY SlotAndTurn
<1>2. /\ r + 1 # b => (p + 1) % b = r + 1
      /\ r + 1 = b => (p + 1) % b = 0
  BY SlotStep
<1> HIDE DEF r
<1>3. r + 1 # b => (r + 1) % b = r + 1
  BY <1>1, SlotFirstTurn
<1>4. r + 1 = b => (r + 1) % b = 0
  BY <1>1, SlotAndTurnUnique
<1>5. (p + 1) % b = 0 <=> r = b - 1
  BY <1>1, <1>2
<1>6. (p + 1) % b = (r + 1) % b
  BY <1>2, <1>3, <1>4
<1>7. (p + 1) % b \in 0 .. b - 1
  BY <1>1, <1>2
<1> QED
  BY <1>5, <1>6, <1>7 DEF r

\* ibv_post_send takes what fits, in order, and ends the process if that is not
\* all.
LEMMA PostFacts ==
    ASSUME TxTypeOK, Cursors, process = "running",
           \A i \in 1 .. Len(sq) : sq[i] = WrAt(Len(wire) + i - 1),
           NEW list \in Seq(Wr),
           \A i \in 1 .. Len(list) : list[i] = WrAt(Posted + i - 1),
           Post(list)
    PROVE  /\ process' \in {"running", "aborted"}
           /\ sq' \in Seq(Wr)
           /\ \A i \in 1 .. Len(sq') : sq'[i] = WrAt(Len(wire) + i - 1)
           /\ Len(wire) + Len(sq') - freed <= SqDepth
           /\ process' = "running" => Len(sq') = Len(sq) + Len(list)
<1> DEFINE room == SqDepth - (Posted - freed)
<1>1. /\ room \in Nat
      /\ Len(wire) \in Nat /\ Len(sq) \in Nat /\ freed \in Nat /\ Len(list) \in Nat
      /\ Posted = Len(wire) + Len(sq)
      /\ sq \in Seq(Wr)
  BY Numbers, SMTT(20) DEF Cursors, TxTypeOK
<1>2. ASSUME NEW part \in Seq(Wr), Len(part) <= room,
             \A i \in 1 .. Len(part) : part[i] = WrAt(Posted + i - 1),
             sq' = sq \o part
      PROVE  /\ sq' \in Seq(Wr)
             /\ \A i \in 1 .. Len(sq') : sq'[i] = WrAt(Len(wire) + i - 1)
             /\ Len(wire) + Len(sq') - freed <= SqDepth
             /\ Len(sq') = Len(sq) + Len(part)
  <2>1. sq' \in Seq(Wr) /\ Len(sq') = Len(sq) + Len(part)
    BY <1>1, <1>2, ConcatProperties
  <2>2. Len(part) \in Nat
    BY <1>2
  <2>3. ASSUME NEW i \in 1 .. Len(sq')
        PROVE  sq'[i] = WrAt(Len(wire) + i - 1)
    <3>1. CASE i <= Len(sq)
      BY <1>1, <1>2, <2>1, <3>1, ConcatProperties
    <3>2. CASE i > Len(sq)
      <4>1. i - Len(sq) \in 1 .. Len(part) /\ sq'[i] = part[i - Len(sq)]
        BY <1>1, <1>2, <2>1, <2>2, <3>2, ConcatProperties
      <4>2. Posted + (i - Len(sq)) - 1 = Len(wire) + i - 1
        BY <1>1
      <4> QED
        BY <1>2, <4>1, <4>2
    <3> QED
      BY <1>1, <3>1, <3>2
  <2>4. Len(wire) + Len(sq') - freed <= SqDepth
    BY <1>1, <1>2, <2>1, <2>2, TxRingAssumption
  <2> QED
    BY <2>1, <2>3, <2>4
<1>3. CASE Len(list) <= room
  <2>1. sq' = sq \o list /\ process' = process
    BY <1>3 DEF Post
  <2> HIDE DEF room
  <2> QED
    BY <1>2, <1>3, <2>1
<1>4. CASE ~(Len(list) <= room)
  <2>1. sq' = sq \o SubSeq(list, 1, room) /\ process' = "aborted"
    BY <1>4 DEF Post
  <2> HIDE DEF room
  <2>2. /\ SubSeq(list, 1, room) \in Seq(Wr)
        /\ Len(SubSeq(list, 1, room)) = room
        /\ \A i \in 1 .. room : SubSeq(list, 1, room)[i] = list[i]
    <3>1. list \in Seq(Wr) /\ 1 \in 1 .. Len(list) + 1 /\ room \in 0 .. Len(list)
      BY <1>1, <1>4
    <3> QED
      BY <1>1, <3>1, SubSeqProperties
  <2> DEFINE part == SubSeq(list, 1, room)
  <2>3. \A i \in 1 .. room : i \in 1 .. Len(list)
    BY <1>1, <1>4
  <2>4. /\ part \in Seq(Wr) /\ Len(part) <= room
        /\ \A i \in 1 .. Len(part) : part[i] = WrAt(Posted + i - 1)
    BY <1>1, <2>2, <2>3
  <2>5. sq' = sq \o part
    BY <2>1
  <2> HIDE DEF part
  <2> QED
    BY <1>2, <2>1, <2>4, <2>5
<1> QED
  BY <1>3, <1>4

-----------------------------------------------------------------------------
(* The invariant is inductive *)

LEMMA InitTxInv == TxInit => TxInv
<1> SUFFICES ASSUME TxInit
             PROVE  TxInv
  OBVIOUS
<1>1. TxTypeOK
  <2>1. wr_list \in Seq(Wr) /\ sq \in Seq(Wr) /\ cq \in Seq(Nat) /\ wire \in Seq(Nat)
    BY EmptySeq DEF TxInit
  <2>2. batch_index \in 0 .. TxBatch - 1 /\ header \in [TxSlot -> Nat]
    BY TxRingAssumption DEF TxInit
  <2> QED
    BY <2>1, <2>2 DEF TxInit, TxTypeOK
<1>2. 0 % TxBatch = 0 /\ 0 \div TxBatch = 0
  BY TxRingAssumption, SlotFirstTurn
<1>3. Posted = 0 /\ Written = 0 /\ Len(wire) = 0 /\ Len(cq) = 0
  BY DEF TxInit, Posted, Written
<1>4. Cursors
  BY <1>2, <1>3, TxRingAssumption DEF TxInit, Cursors
<1>5. LoopOrder
  BY DEF TxInit, LoopOrder
<1>6. Requested
  BY DEF TxInit, Requested
<1>7. Headers
  BY <1>3 DEF Headers
<1>8. Completions
  BY <1>2, <1>3, TxRingAssumption DEF TxInit, Completions
<1>9. HeaderIntact
  BY <1>3 DEF HeaderIntact
<1> QED
  BY <1>1, <1>4, <1>5, <1>6, <1>7, <1>8, <1>9 DEF TxInv

\* A header that is about to be overwritten makes the process doomed: only the
\* written count and the completions polled decide.
LEMMA StillDoomed ==
    ASSUME TxTypeOK, HeaderIntact, UNCHANGED <<wire, freed>>,
           Written' \in Nat, Written <= Written',
           process = "aborted" => process' = "aborted"
    PROVE  HeaderIntact'
<1>1. Written \in Nat /\ freed \in Nat /\ SqDepth \in Nat
  BY Numbers
<1>2. Doomed => Doomed'
  <2> SUFFICES ASSUME Doomed
               PROVE  Doomed'
    OBVIOUS
  <2>1. freed' = freed
    OBVIOUS
  <2>2. Written - freed > SqDepth
    BY DEF Doomed
  <2>3. Written' - freed > SqDepth
    <3> DEFINE w == Written
               v == Written'
    <3>1. w \in Nat /\ v \in Nat /\ w <= v /\ freed \in Nat /\ SqDepth \in Nat
      BY <1>1
    <3>2. w - freed > SqDepth
      BY <2>2
    <3> HIDE DEF w, v
    <3>3. v - freed > SqDepth
      BY <3>1, <3>2
    <3> QED
      BY <3>3 DEF v
  <2>4. Written' - freed' > SqDepth
    BY <2>1, <2>3
  <2> QED
    BY <2>4 DEF Doomed
<1>3. wire' = wire
  OBVIOUS
<1> QED
  BY <1>2, <1>3 DEF HeaderIntact

LEMMA FillStep ==
    ASSUME TxInv, Fill
    PROVE  TxInv'
<1> USE DEF TxInv
<1>0. /\ TxDepth \in Nat /\ TxDepth > 0 /\ sendCur \in Nat
      /\ HeaderSlot \in TxSlot
      /\ Written = sendCur /\ Written' = sendCur + 1
      /\ header' = [header EXCEPT ![HeaderSlot] = sendCur + 1]
  BY Numbers, SlotAndTurn DEF Fill, HeaderSlot, TxSlot, Written
<1>1. TxTypeOK'
  BY <1>0 DEF TxTypeOK, Fill, polling
<1>2. Cursors' /\ LoopOrder' /\ Requested' /\ Completions'
  BY DEF Fill, polling, Cursors, LoopOrder, Requested, Completions, Posted
<1>3. Headers'
  <2> SUFFICES ASSUME NEW p \in Nat, p < Written', Written' <= p + TxDepth
               PROVE  header'[p % TxDepth] = p + 1
    BY DEF Headers
  <2>1. CASE p = sendCur
    BY <1>0, <2>1 DEF TxTypeOK, HeaderSlot
  <2>2. CASE p # sendCur
    <3>1. p < sendCur /\ sendCur < p + TxDepth
      BY <1>0, <2>2
    <3>2. p % TxDepth # HeaderSlot
      BY <1>0, <3>1, SlotDistinct DEF HeaderSlot
    <3>3. header[p % TxDepth] = p + 1
      BY <1>0, <3>1 DEF Headers, Fill
    <3>4. p % TxDepth \in TxSlot
      BY <1>0, SlotAndTurn DEF TxSlot
    <3> QED
      BY <1>0, <3>2, <3>3, <3>4 DEF TxTypeOK
  <2> QED
    BY <2>1, <2>2
<1>4. HeaderIntact'
  BY <1>0, StillDoomed DEF Fill, polling
<1> QED
  BY <1>1, <1>2, <1>3, <1>4
\* A committed header becomes the next request, and a full list is posted.
LEMMA CommitStep ==
    ASSUME TxInv, Commit
    PROVE  TxInv'
<1> DEFINE wr == [slot |-> HeaderSlot, signaled |-> Signaled]
           list == Append(wr_list, wr)
<1> USE DEF TxInv
<1>0. /\ TxDepth \in Nat /\ TxDepth > 0
      /\ TxBatch \in Nat /\ TxBatch > 0
      /\ Len(wire) \in Nat /\ Len(sq) \in Nat /\ Len(wr_list) \in Nat
      /\ sendCur \in Nat /\ freed \in Nat
      /\ Posted = Len(wire) + Len(sq)
      /\ sendCur = Posted + Len(wr_list)
      /\ batch_index = sendCur % TxBatch
      /\ process = "running" /\ filled /\ filled' = FALSE
      /\ sendCur' = sendCur + 1
      /\ Written = sendCur + 1 /\ Written' = sendCur + 1
  BY Numbers DEF Commit, Cursors, Written
<1>1. wr = WrAt(sendCur) /\ wr \in Wr
  <2>1. Signaled = ((sendCur + 1) % TxBatch = 0)
    <3>1. (sendCur + 1) % TxBatch = 0 <=> sendCur % TxBatch = TxBatch - 1
      BY <1>0, BatchStep
    <3> QED
      BY <1>0, <3>1 DEF Signaled
  <2>2. HeaderSlot = sendCur % TxDepth /\ HeaderSlot \in TxSlot
    BY <1>0, SlotAndTurn DEF HeaderSlot, TxSlot
  <2>3. Signaled \in BOOLEAN
    BY DEF Signaled
  <2> QED
    BY <2>1, <2>2, <2>3 DEF WrAt, Wr
<1>2. batch_index' = sendCur' % TxBatch /\ batch_index' \in 0 .. TxBatch - 1
  <2>1. batch_index' = (batch_index + 1) % TxBatch
    BY DEF Commit, BatchAfter
  <2> QED
    BY <1>0, <2>1, BatchStep, SlotAndTurn
<1> HIDE DEF wr
<1>3. /\ list \in Seq(Wr)
      /\ Len(list) = Len(wr_list) + 1
      /\ \A i \in 1 .. Len(list) : list[i] = WrAt(Posted + i - 1)
  <2>1. wr_list \in Seq(Wr)
    BY DEF TxTypeOK
  <2>2. /\ list \in Seq(Wr)
        /\ Len(list) = Len(wr_list) + 1
        /\ \A i \in 1 .. Len(wr_list) : list[i] = wr_list[i]
        /\ list[Len(wr_list) + 1] = wr
    BY <1>1, <2>1, AppendProperties
  <2> HIDE DEF list
  <2>3. ASSUME NEW i \in 1 .. Len(list)
        PROVE  list[i] = WrAt(Posted + i - 1)
    <3>1. CASE i \in 1 .. Len(wr_list)
      BY <1>0, <2>2, <3>1 DEF Requested
    <3>2. CASE i = Len(wr_list) + 1
      <4>1. Posted + i - 1 = sendCur
        BY <1>0, <3>2
      <4> QED
        BY <1>1, <2>2, <3>2, <4>1
    <3> QED
      BY <1>0, <2>2, <3>1, <3>2, SMTT(20)
  <2> QED
    BY <2>2, <2>3
<1>4. /\ at' = at /\ header' = header /\ compCur' = compCur
      /\ freed' = freed /\ cq' = cq /\ wire' = wire
  BY DEF Commit, polling
<1>5. /\ process' \in {"running", "aborted"}
      /\ sq' \in Seq(Wr)
      /\ \A i \in 1 .. Len(sq') : sq'[i] = WrAt(Len(wire) + i - 1)
      /\ Len(wire) + Len(sq') - freed <= SqDepth
      /\ wr_list' \in Seq(Wr)
      /\ process' = "running" =>
           /\ sendCur + 1 = Len(wire) + Len(sq') + Len(wr_list')
           /\ \A i \in 1 .. Len(wr_list') :
                wr_list'[i] = WrAt(Len(wire) + Len(sq') + i - 1)
  <2> HIDE DEF list
  <2>1. CASE Len(list) = TxBatch
    <3>1. Post(list) /\ wr_list' = <<>>
      BY <2>1 DEF Commit, list, wr
    <3>2. /\ process' \in {"running", "aborted"}
          /\ sq' \in Seq(Wr)
          /\ \A i \in 1 .. Len(sq') : sq'[i] = WrAt(Len(wire) + i - 1)
          /\ Len(wire) + Len(sq') - freed <= SqDepth
          /\ process' = "running" => Len(sq') = Len(sq) + Len(list)
      BY <1>0, <1>3, <3>1, PostFacts DEF Requested
    <3>3. wr_list' \in Seq(Wr) /\ Len(wr_list') = 0
      BY <3>1, EmptySeq
    <3>4. \A i \in 1 .. Len(wr_list') :
            wr_list'[i] = WrAt(Len(wire) + Len(sq') + i - 1)
      BY <3>3
    <3>5. process' = "running" => sendCur + 1 = Len(wire) + Len(sq') + Len(wr_list')
      <4> SUFFICES ASSUME process' = "running"
                   PROVE  sendCur + 1 = Len(wire) + Len(sq') + Len(wr_list')
        OBVIOUS
      <4>1. Len(sq') = Len(sq) + Len(list)
        BY <3>2
      <4> QED
        BY <1>0, <1>3, <3>3, <4>1
    <3> QED
      BY <3>2, <3>3, <3>4, <3>5
  <2>2. CASE Len(list) # TxBatch
    <3>1. wr_list' = list /\ sq' = sq /\ process' = process
      BY <2>2 DEF Commit, list, wr
    <3>2. /\ process' = "running"
          /\ sq' \in Seq(Wr)
          /\ wr_list' \in Seq(Wr)
          /\ Len(wire) + Len(sq') - freed <= SqDepth
          /\ sendCur + 1 = Len(wire) + Len(sq') + Len(wr_list')
      <4>1. process' = "running"
        BY <1>0, <3>1
      <4>2. sq' \in Seq(Wr) /\ wr_list' \in Seq(Wr)
        BY <1>3, <3>1 DEF TxTypeOK
      <4>3. Posted - freed <= SqDepth
        BY DEF Cursors
      <4>4. Len(wire) + Len(sq') - freed <= SqDepth
        BY <1>0, <3>1, <4>3
      <4>5. sendCur + 1 = Len(wire) + Len(sq') + Len(wr_list')
        BY <1>0, <1>3, <3>1, SMTT(20)
      <4> QED
        BY <4>1, <4>2, <4>4, <4>5
    <3>3. \A i \in 1 .. Len(sq') : sq'[i] = WrAt(Len(wire) + i - 1)
      BY <3>1 DEF Requested
    <3>4. \A i \in 1 .. Len(wr_list') :
            wr_list'[i] = WrAt(Len(wire) + Len(sq') + i - 1)
      BY <1>0, <1>3, <3>1
    <3> QED
      BY <3>2, <3>3, <3>4
  <2> QED
    BY <2>1, <2>2
<1> HIDE DEF list
<1>6. Posted' = Len(wire) + Len(sq')
  BY <1>4 DEF Posted
<1>7. TxTypeOK'
  <2>1. sendCur' \in Nat
    BY <1>0
  <2>2. filled' \in BOOLEAN
    BY DEF Commit
  <2> QED
    BY <1>2, <1>4, <1>5, <2>1, <2>2 DEF TxTypeOK
<1>8. Cursors'
  BY <1>0, <1>2, <1>4, <1>5, <1>6 DEF Cursors
<1>9. LoopOrder'
  BY <1>0, <1>4 DEF LoopOrder
<1>10. Requested'
  BY <1>4, <1>5, <1>6 DEF Requested
<1>11. Headers'
  BY <1>0, <1>4 DEF Headers
<1>12. Completions'
  BY <1>4 DEF Completions
<1>13. HeaderIntact'
  BY <1>0, <1>4, StillDoomed
<1> QED
  BY <1>7, <1>8, <1>9, <1>10, <1>11, <1>12, <1>13

LEMMA FilledStep ==
    ASSUME TxInv, Filled
    PROVE  TxInv'
<1> USE DEF TxInv
<1>1. /\ UNCHANGED <<process, filled, sendCur, header, batch_index, wr_list>>
      /\ UNCHANGED <<compCur, freed, sq, cq, wire>>
      /\ ~filled /\ at' \in {"flush", "flushAcks"}
  BY DEF Filled, filling, polling, After
<1>2. TxTypeOK'
  BY <1>1 DEF TxTypeOK
<1>3. LoopOrder'
  BY <1>1 DEF LoopOrder
<1>4. Cursors' /\ Requested' /\ Headers' /\ Completions' /\ HeaderIntact'
  BY <1>1 DEF Cursors, Requested, Headers, Completions, HeaderIntact, Doomed,
     Posted, Written
<1> QED
  BY <1>2, <1>3, <1>4
\* A flush posts the rest of the list, so that nothing is collected after it.
LEMMA CommitFlushStep ==
    ASSUME TxInv, CommitFlush
    PROVE  TxInv'
<1> USE DEF TxInv
<1>0. /\ Len(wire) \in Nat /\ Len(sq) \in Nat /\ Len(wr_list) \in Nat
      /\ sendCur \in Nat /\ freed \in Nat
      /\ Posted = Len(wire) + Len(sq)
      /\ sendCur = Posted + Len(wr_list)
      /\ process = "running"
  BY Numbers DEF CommitFlush, Cursors
<1>1. /\ filled' = filled /\ sendCur' = sendCur /\ header' = header
      /\ batch_index' = batch_index /\ compCur' = compCur /\ freed' = freed
      /\ cq' = cq /\ wire' = wire
  BY DEF CommitFlush, polling
<1>2. ~filled /\ at' \in {"poll", "send"}
  BY DEF CommitFlush, After, LoopOrder
<1>3. wr_list' = <<>> /\ Len(wr_list') = 0 /\ wr_list' \in Seq(Wr)
  BY EmptySeq DEF CommitFlush, WorthPosting
<1>4. /\ process' \in {"running", "aborted"}
      /\ sq' \in Seq(Wr)
      /\ \A i \in 1 .. Len(sq') : sq'[i] = WrAt(Len(wire) + i - 1)
      /\ Len(wire) + Len(sq') - freed <= SqDepth
      /\ process' = "running" => Len(sq') = Len(sq) + Len(wr_list)
  <2>1. CASE WorthPosting
    <3>1. Post(wr_list)
      BY <2>1 DEF CommitFlush
    <3>2. /\ wr_list \in Seq(Wr)
          /\ \A i \in 1 .. Len(wr_list) : wr_list[i] = WrAt(Posted + i - 1)
          /\ \A i \in 1 .. Len(sq) : sq[i] = WrAt(Len(wire) + i - 1)
      BY <1>0 DEF TxTypeOK, Requested
    <3> QED
      BY <1>0, <3>1, <3>2, PostFacts
  <2>2. CASE ~WorthPosting
    <3>1. process' = process /\ sq' = sq /\ wr_list = <<>>
      BY <2>2 DEF CommitFlush, WorthPosting
    <3>2. Len(wr_list) = 0
      BY <3>1
    <3>3. \A i \in 1 .. Len(sq') : sq'[i] = WrAt(Len(wire) + i - 1)
      BY <3>1 DEF Requested
    <3>4. sq' \in Seq(Wr)
      BY <3>1 DEF TxTypeOK
    <3> QED
      BY <1>0, <3>1, <3>2, <3>3, <3>4 DEF Cursors
  <2> QED
    BY <2>1, <2>2
<1>5. Posted' = Len(wire) + Len(sq') /\ Written' = Written /\ Written \in Nat
  BY <1>0, <1>1 DEF Posted, Written
<1>6. process' = "running" => sendCur' = Posted' + Len(wr_list')
  <2> SUFFICES ASSUME process' = "running"
               PROVE  sendCur' = Posted' + Len(wr_list')
    OBVIOUS
  <2>1. Len(sq') = Len(sq) + Len(wr_list)
    BY <1>4
  <2> QED
    BY <1>0, <1>1, <1>3, <1>5, <2>1
<1>7. TxTypeOK'
  BY <1>1, <1>2, <1>3, <1>4 DEF TxTypeOK
<1>8. Cursors'
  BY <1>0, <1>1, <1>4, <1>5, <1>6 DEF Cursors
<1>9. LoopOrder'
  BY <1>1, <1>2, <1>3 DEF LoopOrder
<1>10. Requested'
  BY <1>1, <1>3, <1>4 DEF Requested
<1>11. Headers'
  BY <1>0, <1>1, <1>5 DEF Headers
<1>12. Completions'
  BY <1>1 DEF Completions
<1>13. HeaderIntact'
  BY <1>0, <1>1, <1>5, StillDoomed
<1> QED
  BY <1>7, <1>8, <1>9, <1>10, <1>11, <1>12, <1>13

\* When completions are polled all that is written is posted, and what is
\* posted fits into the send queue: nothing is doomed any more.
LEMMA PollTxCqStep ==
    ASSUME TxInv, PollTxCq
    PROVE  TxInv'
<1> DEFINE taken == IF Len(cq) < PollMax THEN Len(cq) ELSE PollMax
<1> USE DEF TxInv
<1>0. /\ TxBatch \in Nat /\ TxBatch > 0 /\ SqDepth \in Nat
      /\ Len(wire) \in Nat /\ Len(sq) \in Nat /\ Len(cq) \in Nat
      /\ sendCur \in Nat /\ freed \in Nat
      /\ cq \in Seq(Nat)
      /\ Posted = Len(wire) + Len(sq)
      /\ freed <= Len(wire) /\ Posted - freed <= SqDepth
      /\ process = "running"
  BY Numbers DEF PollTxCq, Cursors, TxTypeOK
<1>1. /\ UNCHANGED <<process, filled, sendCur, header, batch_index, wr_list>>
      /\ sq' = sq /\ wire' = wire
      /\ at' = "recv"
  BY DEF PollTxCq, filling, After
<1>2. taken \in Nat /\ taken <= Len(cq)
  BY <1>0, TxRingAssumption
<1>3. /\ compCur' = compCur + taken * TxBatch
      /\ freed' = IF taken = 0 THEN freed ELSE cq[taken]
      /\ cq' = SubSeq(cq, taken + 1, Len(cq))
  BY DEF PollTxCq
<1> HIDE DEF taken
<1>4. freed' = freed + taken * TxBatch
  <2>1. CASE taken = 0
    BY <1>0, <1>3, <2>1
  <2>2. CASE taken # 0
    BY <1>0, <1>2, <1>3, <2>2 DEF Completions
  <2> QED
    BY <2>1, <2>2
<1>5. /\ cq' \in Seq(Nat)
      /\ Len(cq') = Len(cq) - taken
      /\ \A i \in 1 .. Len(cq') : cq'[i] = cq[taken + i]
  <2>1. \A i \in taken + 1 .. Len(cq) : cq[i] \in Nat
    BY <1>0, <1>2
  <2>2. /\ cq' \in Seq(Nat)
        /\ Len(cq') = IF taken + 1 <= Len(cq) THEN Len(cq) - (taken + 1) + 1 ELSE 0
        /\ \A i \in 1 .. Len(cq) - (taken + 1) + 1 : cq'[i] = cq[(taken + 1) + i - 1]
    BY <1>0, <1>2, <1>3, <2>1, SubSeqProperties
  <2>3. Len(cq') = Len(cq) - taken
    BY <1>0, <1>2, <2>2
  <2>4. ASSUME NEW i \in 1 .. Len(cq')
        PROVE  cq'[i] = cq[taken + i]
    <3>1. /\ i \in 1 .. Len(cq) - (taken + 1) + 1
          /\ (taken + 1) + i - 1 = taken + i
      BY <1>0, <1>2, <2>3
    <3> QED
      BY <2>2, <3>1
  <2> QED
    BY <2>2, <2>3, <2>4
<1>6. Completions'
  <2>1. compCur' = freed'
    BY <1>3, <1>4 DEF Completions
  <2>2. ASSUME NEW i \in 1 .. Len(cq')
        PROVE  cq'[i] = freed' + i * TxBatch
    <3>1. taken + i \in 1 .. Len(cq)
      BY <1>0, <1>2, <1>5
    <3>2. cq[taken + i] = freed + (taken + i) * TxBatch
      BY <3>1 DEF Completions
    <3>3. (taken + i) * TxBatch = taken * TxBatch + i * TxBatch
      BY <1>0, <1>2
    <3> DEFINE a == taken * TxBatch
               b == i * TxBatch
    <3>4. a \in Int /\ b \in Int
      BY <1>0, <1>2
    <3>5. cq'[i] = freed + (a + b) /\ freed' = freed + a
      BY <1>4, <1>5, <3>2, <3>3
    <3> HIDE DEF a, b
    <3>6. cq'[i] = freed' + b
      BY <1>0, <3>4, <3>5
    <3> QED
      BY <3>6 DEF b
  <2>3. freed' + Len(cq') * TxBatch = TxBatch * (Len(wire') \div TxBatch)
    <3>1. (Len(cq) - taken) * TxBatch = Len(cq) * TxBatch - taken * TxBatch
      BY <1>0, <1>2
    <3>2. taken * TxBatch \in Int /\ Len(cq) * TxBatch \in Int
      BY <1>0, <1>2
    <3>3. freed' + Len(cq') * TxBatch = freed + Len(cq) * TxBatch
      BY <1>0, <1>4, <1>5, <3>1, <3>2
    <3> QED
      BY <1>1, <3>3 DEF Completions
  <2> QED
    BY <2>1, <2>2, <2>3 DEF Completions
<1>7. freed' \in Nat /\ freed <= freed' /\ freed' <= Len(wire)
  <2>1. taken * TxBatch \in Nat /\ Len(cq') * TxBatch \in Nat
    <3>1. \A a, b \in Nat : a * b \in Nat
      OBVIOUS
    <3>2. Len(cq') \in Nat
      BY <1>5
    <3> QED
      BY <1>0, <1>2, <3>1, <3>2
  <2>2. TxBatch * (Len(wire) \div TxBatch) <= Len(wire)
    BY <1>0, SlotAndTurn
  <2>3. freed' + Len(cq') * TxBatch <= Len(wire)
    BY <1>1, <1>6, <2>2 DEF Completions
  <2>4. freed' \in Nat /\ freed <= freed'
    BY <1>0, <1>4, <2>1
  <2> QED
    BY <1>0, <2>1, <2>3, <2>4
<1>8. TxTypeOK'
  <2>1. compCur' \in Nat
    BY <1>6, <1>7 DEF Completions
  <2> QED
    BY <1>1, <1>5, <1>7, <2>1 DEF TxTypeOK
<1>9. Cursors'
  BY <1>0, <1>1, <1>7 DEF Cursors, Posted
<1>10. LoopOrder'
  BY <1>1 DEF LoopOrder, PollTxCq
<1>11. Requested' /\ Headers'
  BY <1>1 DEF Requested, Headers, Posted, Written
<1>12. HeaderIntact'
  <2>1. at = "poll" /\ ~filled /\ Len(wr_list) = 0
    BY DEF PollTxCq, LoopOrder
  <2>2. Written - freed <= SqDepth
    BY <1>0, <2>1 DEF Written, Cursors
  <2>3. ~Doomed
    BY <1>0, <2>1, <2>2 DEF Doomed, Written
  <2> QED
    BY <1>0, <1>1, <2>3 DEF HeaderIntact
<1> QED
  BY <1>6, <1>8, <1>9, <1>10, <1>11, <1>12
\* The NIC reads the header of request Len(wire), which nothing has overwritten
\* unless the process is doomed.
LEMMA TransmitStep ==
    ASSUME TxInv, Transmit
    PROVE  TxInv'
<1> DEFINE n == Len(wire)
<1> USE DEF TxInv
<1>0. /\ TxDepth \in Nat /\ TxDepth > 0
      /\ TxBatch \in Nat /\ TxBatch > 0
      /\ SqDepth \in Nat /\ SqDepth <= TxDepth
      /\ n \in Nat /\ Len(sq) \in Nat /\ Len(cq) \in Nat
      /\ sendCur \in Nat /\ freed \in Nat
      /\ Posted = n + Len(sq)
      /\ freed <= n
      /\ sq \in Seq(Wr) /\ cq \in Seq(Nat) /\ wire \in Seq(Nat)
  BY Numbers DEF Cursors, TxTypeOK
<1>1. /\ process' = process /\ at' = at /\ filled' = filled /\ sendCur' = sendCur
      /\ header' = header /\ batch_index' = batch_index /\ wr_list' = wr_list
      /\ compCur' = compCur /\ freed' = freed
  BY DEF Transmit, filling, polling
<1>2. /\ wire' = Append(wire, header[Head(sq).slot])
      /\ cq' = IF Head(sq).signaled THEN Append(cq, n + 1) ELSE cq
      /\ sq' = Tail(sq)
      /\ sq # <<>>
  BY DEF Transmit
<1>3. /\ Len(sq) >= 1
      /\ Head(sq) = WrAt(n)
      /\ sq' \in Seq(Wr)
      /\ Len(sq') = Len(sq) - 1
      /\ \A i \in 1 .. Len(sq') : sq'[i] = sq[i + 1]
  <2>1. Len(sq) >= 1 /\ Head(sq) = sq[1] /\ 1 \in 1 .. Len(sq)
    BY <1>0, <1>2, EmptySeq, HeadTailProperties
  <2>2. sq[1] = WrAt(n + 1 - 1)
    BY <2>1 DEF Requested
  <2>3. n + 1 - 1 = n
    BY <1>0
  <2>4. Head(sq) = WrAt(n)
    BY <2>1, <2>2, <2>3
  <2>5. /\ sq' \in Seq(Wr)
        /\ Len(sq') = Len(sq) - 1
        /\ \A i \in 1 .. Len(sq') : sq'[i] = sq[i + 1]
    BY <1>0, <1>2, HeadTailProperties
  <2> QED
    BY <2>1, <2>4, <2>5
<1>4. /\ Head(sq).slot = n % TxDepth
      /\ Head(sq).signaled = ((n + 1) % TxBatch = 0)
      /\ n % TxDepth \in TxSlot
  BY <1>0, <1>3, SlotAndTurn DEF WrAt, TxSlot
<1>5. /\ wire' \in Seq(Nat)
      /\ Len(wire') = n + 1
      /\ \A k \in 1 .. n : wire'[k] = wire[k]
      /\ wire'[n + 1] = header[n % TxDepth]
  <2>1. header[n % TxDepth] \in Nat
    BY <1>4 DEF TxTypeOK
  <2> QED
    BY <1>0, <1>2, <1>4, <2>1, AppendProperties
<1>6. cq' \in Seq(Nat)
  <2>1. n + 1 \in Nat
    BY <1>0
  <2> QED
    BY <1>0, <1>2, <2>1, AppendProperties
<1>7. Posted' = Posted /\ Written' = Written
  BY <1>0, <1>1, <1>3, <1>5 DEF Posted, Written
<1>8. TxTypeOK'
  BY <1>1, <1>3, <1>5, <1>6 DEF TxTypeOK
<1>9. Cursors'
  BY <1>0, <1>1, <1>5, <1>7 DEF Cursors
<1>10. LoopOrder'
  BY <1>1 DEF LoopOrder
<1>11. Requested'
  <2>1. ASSUME NEW i \in 1 .. Len(sq')
        PROVE  sq'[i] = WrAt(Len(wire') + i - 1)
    <3>1. i + 1 \in 1 .. Len(sq) /\ n + (i + 1) - 1 = Len(wire') + i - 1
      BY <1>0, <1>3, <1>5
    <3>2. sq[i + 1] = WrAt(n + (i + 1) - 1)
      BY <3>1 DEF Requested
    <3> QED
      BY <1>3, <3>1, <3>2
  <2>2. process' = "running" =>
          \A i \in 1 .. Len(wr_list') : wr_list'[i] = WrAt(Posted' + i - 1)
    BY <1>1, <1>7 DEF Requested
  <2> QED
    BY <2>1, <2>2 DEF Requested
<1>12. Headers'
  BY <1>1, <1>7 DEF Headers
<1>13. Completions'
  <2> DEFINE t == n \div TxBatch
  <2>1. /\ t \in Int
        /\ (n + 1) % TxBatch = 0 => (n + 1) \div TxBatch = t + 1
        /\ (n + 1) % TxBatch # 0 => (n + 1) \div TxBatch = t
    <3>1. n \in Int /\ t \in Int /\ n % TxBatch \in 0 .. TxBatch - 1
      BY <1>0, SlotAndTurn
    <3>2. (n + 1) % TxBatch = 0 <=> n % TxBatch = TxBatch - 1
      BY <1>0, BatchStep
    <3>3. /\ (n % TxBatch) + 1 # TxBatch => (n + 1) \div TxBatch = t
          /\ (n % TxBatch) + 1 = TxBatch => (n + 1) \div TxBatch = t + 1
      BY <1>0, SlotStep
    <3> QED
      BY <1>0, <3>1, <3>2, <3>3
  <2>2. /\ freed + Len(cq) * TxBatch = TxBatch * t
        /\ \A i \in 1 .. Len(cq) : cq[i] = freed + i * TxBatch
        /\ compCur = freed
    BY DEF Completions
  <2>3. CASE (n + 1) % TxBatch # 0
    <3>1. cq' = cq /\ Len(wire') \div TxBatch = t
      BY <1>2, <1>4, <1>5, <2>1, <2>3
    <3> HIDE DEF t
    <3> QED
      BY <1>1, <2>2, <3>1 DEF Completions
  <2>4. CASE (n + 1) % TxBatch = 0
    <3>1. cq' = Append(cq, n + 1) /\ Len(wire') \div TxBatch = t + 1
      BY <1>2, <1>4, <1>5, <2>1, <2>4
    <3>2. n + 1 = TxBatch * (t + 1)
      <4>1. n + 1 \in Int
        BY <1>0
      <4>2. n + 1 = TxBatch * ((n + 1) \div TxBatch) + ((n + 1) % TxBatch)
        BY <1>0, <4>1, SlotAndTurn
      <4>3. TxBatch * (t + 1) \in Int
        BY <1>0, <2>1
      <4> QED
        BY <2>1, <2>4, <4>2, <4>3
    <3> HIDE DEF t
    <3>3. /\ Len(cq') = Len(cq) + 1
          /\ \A i \in 1 .. Len(cq) : cq'[i] = cq[i]
          /\ cq'[Len(cq) + 1] = n + 1
      <4>1. n + 1 \in Nat
        BY <1>0
      <4> QED
        BY <1>0, <3>1, <4>1, AppendProperties
    <3>4. freed + (Len(cq) + 1) * TxBatch = TxBatch * (t + 1)
      <4>1. (Len(cq) + 1) * TxBatch = Len(cq) * TxBatch + TxBatch
        BY <1>0
      <4>2. TxBatch * (t + 1) = TxBatch * t + TxBatch
        BY <1>0, <2>1
      <4>3. Len(cq) * TxBatch \in Int /\ TxBatch * t \in Int
        BY <1>0, <2>1
      <4> QED
        BY <1>0, <2>2, <4>1, <4>2, <4>3
    <3>5. ASSUME NEW i \in 1 .. Len(cq')
          PROVE  cq'[i] = freed + i * TxBatch
      <4>1. CASE i \in 1 .. Len(cq)
        BY <2>2, <3>3, <4>1
      <4>2. CASE i = Len(cq) + 1
        BY <3>2, <3>3, <3>4, <4>2
      <4> QED
        BY <1>0, <3>3, <4>1, <4>2
    <3> QED
      BY <1>1, <2>2, <3>1, <3>3, <3>4, <3>5 DEF Completions
  <2> QED
    BY <2>3, <2>4
<1>14. HeaderIntact'
  <2>1. CASE process = "aborted" \/ Doomed
    BY <1>1, <1>7, <2>1 DEF HeaderIntact, Doomed
  <2>2. CASE process # "aborted" /\ ~Doomed
    <3>1. process = "running"
      BY <2>2 DEF TxTypeOK
    <3>2. Written \in Nat /\ n < Written
      BY <1>0, <1>3, <3>1, Numbers DEF Cursors
    <3>3. Written <= n + TxDepth
      BY <1>0, <2>2, <3>2 DEF Doomed
    <3>4. header[n % TxDepth] = n + 1
      BY <1>0, <3>1, <3>2, <3>3 DEF Headers
    <3>5. \A k \in 1 .. n : wire[k] = k
      BY <2>2 DEF HeaderIntact
    <3>6. ASSUME NEW k \in 1 .. Len(wire')
          PROVE  wire'[k] = k
      <4>1. k \in 1 .. n \/ k = n + 1
        BY <1>0, <1>5
      <4>2. CASE k \in 1 .. n
        BY <1>5, <3>5, <4>2
      <4>3. CASE k = n + 1
        BY <1>5, <3>4, <4>3
      <4> QED
        BY <4>1, <4>2, <4>3
    <3> QED
      BY <3>6 DEF HeaderIntact
  <2> QED
    BY <2>1, <2>2
<1> QED
  BY <1>8, <1>9, <1>10, <1>11, <1>12, <1>13, <1>14

LEMMA TxInvStep ==
    TxInv /\ [TxNext]_txVars => TxInv'
<1> SUFFICES ASSUME TxInv, [TxNext]_txVars
             PROVE  TxInv'
  OBVIOUS
<1>1. CASE Fill
  BY <1>1, FillStep
<1>2. CASE Commit
  BY <1>2, CommitStep
<1>3. CASE Filled
  BY <1>3, FilledStep
<1>4. CASE CommitFlush
  BY <1>4, CommitFlushStep
<1>5. CASE PollTxCq
  BY <1>5, PollTxCqStep
<1>6. CASE Transmit
  BY <1>6, TransmitStep
<1>7. CASE UNCHANGED txVars
  BY <1>7 DEF txVars, filling, polling, TxInv, TxTypeOK, Cursors, LoopOrder, Requested,
     Headers, Completions, HeaderIntact, Doomed, Posted, Written
<1> QED
  BY <1>1, <1>2, <1>3, <1>4, <1>5, <1>6, <1>7 DEF TxNext

-----------------------------------------------------------------------------
(* The theorems *)

\* The inductive invariant of the send side of a raw packet queue.
THEOREM TxInvariance ==
    TxSpec => []TxInv
<1>1. TxInit => TxInv
  BY InitTxInv
<1>2. TxInv /\ [TxNext]_txVars => TxInv'
  BY TxInvStep
<1> QED
  BY <1>1, <1>2, PTL DEF TxSpec

\* Every variable of txpath_handler's send side keeps its type.
THEOREM TxTypeCorrect ==
    TxSpec => []TxTypeOK
<1>1. TxInv => TxTypeOK
  BY DEF TxInv
<1> QED
  BY <1>1, TxInvariance, PTL

\* Every packet leaves with its own header while the process lives, whatever
\* the depth of the ring, if the send queue is not deeper
\* (get_next_pktheader_addr, commit_flush).
THEOREM HeaderIntactCorrect ==
    TxSpec => []HeaderIntact
<1>1. TxInv => HeaderIntact
  BY DEF TxInv
<1> QED
  BY <1>1, TxInvariance, PTL

\* Each completion polled stands for exactly TX_BATCH requests (poll_tx_cq).
THEOREM CompCountsCorrect ==
    TxSpec => []CompCounts
<1>1. TxInv => CompCounts
  BY DEF TxInv, Completions, Cursors, CompCounts
<1> QED
  BY <1>1, TxInvariance, PTL
=============================================================================
