-------------------------- MODULE RecvScatter_proofs --------------------------
(***************************************************************************)
(* Received bytes go where they are meant to, for every size of the ring,  *)
(* of the scatter lists, of the packets and of the messages: the invariant *)
(* RecvInv is inductive.  It says which receive every slot of both rings   *)
(* holds, and that the cursors of the scatter loop stand behind the bytes  *)
(* of the list that have been placed.                                      *)
(***************************************************************************)
EXTENDS RecvScatter, RingArith

-----------------------------------------------------------------------------
(* Sums *)

\* The sums of the first n numbers of a list, as a function of n.
IsSums(f, list) ==
    f = [n \in 0 .. Len(list) |-> IF n = 0 THEN 0 ELSE f[n - 1] + list[n]]

\* The recursive definition has a solution.
LEMMA SumsExist ==
    ASSUME NEW list \in Seq(Nat)
    PROVE  \E f \in [0 .. Len(list) -> Nat] : IsSums(f, list)
<1> DEFINE Upto(f, m) == /\ f \in [0 .. m -> Nat]
                         /\ f[0] = 0
                         /\ \A n \in 1 .. m : f[n] = f[n - 1] + list[n]
           Bad == {m \in 0 .. Len(list) : \A f : ~Upto(f, m)}
<1>1. Bad = {}
  <2> SUFFICES ASSUME Bad # {}
               PROVE  FALSE
    OBVIOUS
  <2>1. Bad \subseteq Nat
    OBVIOUS
  <2> HIDE DEF Bad
  <2>2. PICK k \in Bad : \A b \in Bad : k <= b
    BY <2>1, LeastNumber
  <2>3. k \in 0 .. Len(list) /\ \A f : ~Upto(f, k)
    BY DEF Bad
  <2>4. CASE k = 0
    <3> DEFINE z == [n \in 0 .. 0 |-> 0]
    <3>1. Upto(z, 0)
      OBVIOUS
    <3> QED
      BY <2>3, <2>4, <3>1
  <2>5. CASE k # 0
    <3>1. k - 1 \in 0 .. Len(list) /\ k - 1 \notin Bad
      BY <2>2, <2>3, <2>5
    <3>2. PICK f : Upto(f, k - 1)
      BY <3>1 DEF Bad
    <3> DEFINE g == [n \in 0 .. k |-> IF n = k THEN f[k - 1] + list[k] ELSE f[n]]
    <3>3. f[k - 1] \in Nat /\ list[k] \in Nat
      BY <2>3, <2>5, <3>2
    <3>4. g \in [0 .. k -> Nat]
      BY <2>3, <2>5, <3>2, <3>3
    <3>5. ASSUME NEW n \in 1 .. k
          PROVE  g[n] = g[n - 1] + list[n]
      BY <2>3, <2>5, <3>2
    <3>6. g[0] = 0
      BY <2>3, <2>5, <3>2
    <3>7. Upto(g, k)
      BY <3>4, <3>5, <3>6
    <3> QED
      BY <2>3, <3>7
  <2> QED
    BY <2>4, <2>5
<1>2. PICK f : Upto(f, Len(list))
  <2>1. Len(list) \in 0 .. Len(list)
    OBVIOUS
  <2> HIDE DEF Upto
  <2> QED
    BY <1>1, <2>1
<1>3. IsSums(f, list)
  BY <1>2 DEF IsSums
<1> QED
  BY <1>2, <1>3

\* SumTo is a solution.
LEMMA SumToSolves ==
    ASSUME NEW list \in Seq(Nat)
    PROVE  /\ IsSums(SumTo(list), list)
           /\ SumTo(list)[0] = 0
           /\ \A n \in 1 .. Len(list) : SumTo(list)[n] = SumTo(list)[n - 1] + list[n]
<1>1. SumTo(list) = CHOOSE f : IsSums(f, list)
  BY DEF SumTo, IsSums
<1>2. IsSums(SumTo(list), list)
  BY <1>1, SumsExist
<1> DEFINE f == SumTo(list)
<1>3. f = [n \in 0 .. Len(list) |-> IF n = 0 THEN 0 ELSE f[n - 1] + list[n]]
  BY <1>2 DEF IsSums
<1> HIDE DEF f
<1>4. \A n \in 0 .. Len(list) : f[n] = IF n = 0 THEN 0 ELSE f[n - 1] + list[n]
  BY <1>3
<1>5. f[0] = 0 /\ \A n \in 1 .. Len(list) : f[n] = f[n - 1] + list[n]
  BY <1>4
<1> QED
  BY <1>2, <1>5 DEF f

\* Two solutions agree.
LEMMA SumsUnique ==
    ASSUME NEW a \in Seq(Nat), NEW b \in Seq(Nat), NEW m \in Nat,
           m <= Len(a), m <= Len(b), \A i \in 1 .. m : a[i] = b[i]
    PROVE  SumTo(a)[m] = SumTo(b)[m]
<1> DEFINE Bad == {n \in 0 .. m : SumTo(a)[n] # SumTo(b)[n]}
<1> SUFFICES ASSUME Bad # {}
             PROVE  FALSE
  OBVIOUS
<1>1. Bad \subseteq Nat
  OBVIOUS
<1> HIDE DEF Bad
<1>2. PICK k \in Bad : \A b2 \in Bad : k <= b2
  BY <1>1, LeastNumber
<1>3. k \in 0 .. m /\ SumTo(a)[k] # SumTo(b)[k]
  BY DEF Bad
<1>4. k # 0
  BY <1>3, SumToSolves
<1>5. k - 1 \in 0 .. m /\ k - 1 \notin Bad
  BY <1>2, <1>3, <1>4
<1>6. SumTo(a)[k - 1] = SumTo(b)[k - 1]
  BY <1>5 DEF Bad
<1>7. /\ SumTo(a)[k] = SumTo(a)[k - 1] + a[k]
      /\ SumTo(b)[k] = SumTo(b)[k - 1] + b[k]
      /\ a[k] = b[k]
  BY <1>3, <1>4, SumToSolves
<1> QED
  BY <1>3, <1>6, <1>7

\* The partial sums of a list are numbers.
LEMMA SumToType ==
    ASSUME NEW list \in Seq(Nat), NEW n \in 0 .. Len(list)
    PROVE  SumTo(list)[n] \in Nat
<1>1. PICK f \in [0 .. Len(list) -> Nat] : IsSums(f, list)
  BY SumsExist
<1> DEFINE Bad == {m \in 0 .. Len(list) : SumTo(list)[m] \notin Nat}
<1> SUFFICES ASSUME Bad # {}
             PROVE  FALSE
  OBVIOUS
<1>2. Bad \subseteq Nat
  OBVIOUS
<1> HIDE DEF Bad
<1>3. PICK k \in Bad : \A b \in Bad : k <= b
  BY <1>2, LeastNumber
<1>4. k \in 0 .. Len(list) /\ SumTo(list)[k] \notin Nat
  BY DEF Bad
<1>5. k # 0
  BY <1>4, SumToSolves
<1>6. k - 1 \in 0 .. Len(list) /\ k - 1 \notin Bad
  BY <1>3, <1>4, <1>5
<1>7. SumTo(list)[k - 1] \in Nat
  BY <1>6 DEF Bad
<1>8. SumTo(list)[k] = SumTo(list)[k - 1] + list[k] /\ list[k] \in Nat
  BY <1>4, <1>5, SumToSolves
<1> QED
  BY <1>4, <1>7, <1>8

\* An element more adds its number.
LEMMA SumAppended ==
    ASSUME NEW list \in Seq(Nat), NEW x \in Nat
    PROVE  Sum(list) \in Nat /\ Sum(Append(list, x)) = Sum(list) + x
<1> DEFINE longer == Append(list, x)
<1>1. /\ longer \in Seq(Nat) /\ Len(longer) = Len(list) + 1
      /\ \A i \in 1 .. Len(list) : longer[i] = list[i]
      /\ longer[Len(list) + 1] = x
  BY AppendProperties
<1>2. Len(list) \in Nat
  OBVIOUS
<1> HIDE DEF longer
<1>3. SumTo(longer)[Len(list)] = SumTo(list)[Len(list)]
  <2> DEFINE m == Len(list)
  <2>1. m \in Nat /\ m <= Len(longer) /\ m <= Len(list)
    BY <1>1, <1>2
  <2>2. \A i \in 1 .. m : longer[i] = list[i]
    BY <1>1
  <2> HIDE DEF m
  <2>3. SumTo(longer)[m] = SumTo(list)[m]
    BY <1>1, <2>1, <2>2, SumsUnique
  <2> QED
    BY <2>3 DEF m
<1>4. SumTo(longer)[Len(list) + 1] = SumTo(longer)[Len(list)] + x
  <2>1. Len(list) + 1 \in 1 .. Len(longer) /\ Len(list) + 1 - 1 = Len(list)
    BY <1>1, <1>2
  <2> QED
    BY <1>1, <2>1, SumToSolves
<1>5. Sum(list) \in Nat
  BY <1>2, SumToType DEF Sum
<1> QED
  BY <1>1, <1>3, <1>4, <1>5 DEF Sum, longer

-----------------------------------------------------------------------------
(* The inductive invariant *)

\* Receives whose list has been copied to the DPU.
Visible == Len(lists) - Len(copying)

\* The cursors of both sides, their flags and the slots being copied.
Cursors ==
    /\ head = Len(lists)
    /\ tail + Len(cq) = sendCnt
    /\ sendCnt <= Visible
    /\ head - tail <= N
    /\ ownFlag = TurnBit(head, N)
    /\ recv_wq.head = sendCnt % N
    /\ recv_wq.own_flag = TurnBit(sendCnt, N)
    /\ \A i \in 1 .. Len(copying) : copying[i] = (Visible + i - 1) % N

\* A slot holds the scatter list of receive p.
Holds(wqe, p, list) ==
    /\ wqe.op_own = TurnBit(p, N)
    /\ \A j \in 0 .. Len(list) - 1 : wqe.sge[j] = Buffer(p, j, list[j + 1])
    /\ Len(list) < HostMaxSge => wqe.sge[Len(list)] = Mark("end")

\* Behind what the application may use a slot is never written.
Unused(wqe) == \A j \in HostMaxSge .. MaxSge - 1 : wqe.sge[j] = Mark("zero")

\* The last N receives are in their slots, on both sides, and the slots not
\* used in the first turn have owner bit 0.
HostSlots ==
    /\ \A p \in 0 .. Len(lists) - 1 : Len(lists) - N <= p =>
         Holds(hostRing[p % N], p, lists[p + 1]) /\ wrid[p % N] = p
    /\ \A i \in Slot : Unused(hostRing[i])

DpuSlots ==
    /\ \A p \in 0 .. Visible - 1 : Visible - N <= p => Holds(dpuRing[p % N], p, lists[p + 1])
    /\ \A i \in Slot : Unused(dpuRing[i]) /\ (Visible <= i => dpuRing[i].op_own = 0)

\* Bytes of the message that DMA requests have been made for.
Placed == IF rest = None THEN message.arrived ELSE message.arrived - rest

\* The cursors stand behind the first bytes of a list.
CursorAt(wq, list, placed) ==
    /\ wq.now_sge_num <= MaxSge
    /\ wq.now_total_dma_byte = placed
    /\ wq.now_sge_num < Len(list) =>
         /\ wq.now_sge_offset <= list[wq.now_sge_num + 1]
         /\ placed = SumTo(list)[wq.now_sge_num] + wq.now_sge_offset
    /\ wq.now_sge_num >= Len(list) => wq.now_sge_offset = 0 /\ placed = Sum(list)
    /\ Len(list) < HostMaxSge => wq.now_sge_num <= Len(list)

CursorAtStart(wq) ==
    wq.now_sge_num = 0 /\ wq.now_sge_offset = 0 /\ wq.now_total_dma_byte = 0

\* A DMA request of the n-th SEND, whose list this is.
Fits(r, n, list) ==
    r.length > 0 =>
      /\ r.list = n
      /\ r.index < Len(list)
      /\ r.offset + r.length <= list[r.index + 1]
      /\ r.from = SumTo(list)[r.index] + r.offset

\* The bytes of all the DMA requests of the message.
ReqLengths(rs) == [i \in 1 .. Len(rs) |-> rs[i].length]

MessageInv ==
    /\ message.kind = "none" => message = NoMessage
    /\ message.kind # "none" => message.length > 0 /\ Sum(ReqLengths(reqs)) = Placed
    /\ message.arrived <= message.length
    /\ rest # None => message.kind = "SEND" /\ rest > 0 /\ rest <= message.arrived

SendInv ==
    IF message.kind = "SEND" /\ message.arrived > 0
      THEN /\ sendCnt < Visible
           /\ CursorAt(recv_wq, Meant, Placed)
           /\ \A i \in 1 .. Len(reqs) : Fits(reqs[i], sendCnt, Meant)
      ELSE CursorAtStart(recv_wq) /\ (message.kind = "SEND" => reqs = <<>>)

WriteInv ==
    message.kind = "WRITE" =>
      /\ recv_wq.offset = message.arrived
      /\ recv_wq.resid = message.length - message.arrived
      /\ \A i \in 1 .. Len(reqs) : reqs[i].offset = reqs[i].from

\* A CQE names its receive and has the length of its message.
CqeInv ==
    /\ \A i \in 1 .. Len(cq) :
         /\ cq[i].wqe_counter = (tail + i - 1) % N
         /\ cq[i].number = tail + i - 1
         /\ cq[i].byte_count = cq[i].length
    /\ RecvWcExact

EndsInv ==
    /\ dpu = "no receive" => Visible <= sendCnt
    /\ dpu = "too long" => sendCnt < Visible /\ message.length > Sum(Meant)

RecvInv ==
    TypeOK /\ Cursors /\ HostSlots /\ DpuSlots /\ MessageInv /\ SendInv /\ WriteInv
      /\ CqeInv /\ EndsInv

-----------------------------------------------------------------------------
(* What the parts of the invariant say *)

\* Between the cursors there is at most a ring of receives.
LEMMA Numbers ==
    ASSUME RecvInv
    PROVE  /\ N \in Nat /\ N > 0
           /\ HostMaxSge \in Nat /\ MaxSge \in Nat /\ HostMaxSge <= MaxSge
           /\ head \in Nat /\ tail \in Nat /\ sendCnt \in Nat
           /\ Len(lists) \in Nat /\ Len(copying) \in Nat /\ Len(cq) \in Nat
           /\ Visible \in Nat /\ Visible <= Len(lists)
           /\ head = Len(lists)
           /\ Len(lists) - N <= tail /\ tail <= sendCnt /\ sendCnt <= Visible
<1>1. /\ head \in Nat /\ tail \in Nat /\ sendCnt \in Nat
      /\ lists \in Seq(Lists) /\ copying \in Seq(Slot) /\ cq \in Seq(Cqe)
  BY DEF RecvInv, TypeOK
<1>2. Len(lists) \in Nat /\ Len(copying) \in Nat /\ Len(cq) \in Nat
  BY <1>1
<1>3. /\ head = Len(lists)
      /\ tail + Len(cq) = sendCnt
      /\ sendCnt <= Len(lists) - Len(copying)
      /\ head - tail <= N
  BY DEF RecvInv, Cursors, Visible
<1> QED
  BY <1>1, <1>2, <1>3, RecvScatterAssumption DEF Visible

\* A list that was posted.
LEMMA ListFacts ==
    ASSUME RecvInv, NEW n \in 1 .. Len(lists)
    PROVE  /\ lists[n] \in Lists
           /\ lists[n] \in Seq(Nat)
           /\ Len(lists[n]) \in Nat
           /\ Len(lists[n]) <= HostMaxSge
<1>1. lists \in Seq(Lists)
  BY DEF RecvInv, TypeOK
<1>2. lists[n] \in Lists
  BY <1>1
<1> QED
  BY <1>2, RecvScatterAssumption

\* The slot and the owner bit of receive p.
LEMMA SlotFacts ==
    ASSUME NEW p \in Nat
    PROVE  /\ TurnBit(p, N) \in {0, 1}
           /\ p % N \in Slot
           /\ TurnBit(p + 1, N) = IF (p % N) + 1 = N THEN 1 - TurnBit(p, N)
                                                    ELSE TurnBit(p, N)
           /\ (p + 1) % N = NextSlot(p % N)
           /\ p < N => TurnBit(p, N) = 1 /\ p % N = p
           /\ p >= N => /\ TurnBit(p - N, N) = 1 - TurnBit(p, N)
                        /\ (p - N) % N = p % N
<1>1. N \in Nat /\ N > 0
  BY RecvScatterAssumption
<1> QED
  BY <1>1, TurnBitFacts DEF Slot, NextSlot

\* get_next_wqe finds a WQE exactly when a list that no SEND has taken is
\* there, and it is the list of the next SEND.
LEMMA OwnerBit ==
    ASSUME RecvInv
    PROVE  /\ OwnerMatches <=> sendCnt < Visible
           /\ sendCnt < Visible =>
                /\ Holds(dpuRing[recv_wq.head], sendCnt, Meant)
                /\ Unused(dpuRing[recv_wq.head])
                /\ Meant \in Seq(Nat) /\ Len(Meant) \in Nat /\ Len(Meant) <= HostMaxSge
<1> DEFINE c == sendCnt
<1>0. /\ N \in Nat /\ N > 0
      /\ c \in Nat /\ Visible \in Nat
      /\ c <= Visible /\ Visible - N <= c
      /\ Visible <= Len(lists) /\ Len(lists) \in Nat
  BY Numbers
<1>1. recv_wq.head = c % N /\ recv_wq.own_flag = TurnBit(c, N)
  BY DEF RecvInv, Cursors
<1>2. TurnBit(c, N) \in {0, 1} /\ c % N \in Slot
  BY <1>0, SlotFacts
<1>3. \A p \in 0 .. Visible - 1 : Visible - N <= p =>
        Holds(dpuRing[p % N], p, lists[p + 1])
  BY DEF RecvInv, DpuSlots
<1>4. \A i \in Slot : Unused(dpuRing[i]) /\ (Visible <= i => dpuRing[i].op_own = 0)
  BY DEF RecvInv, DpuSlots
<1>5. CASE c < Visible
  <2>1. c \in 0 .. Visible - 1 /\ c + 1 \in 1 .. Len(lists)
    BY <1>0, <1>5
  <2>2. Holds(dpuRing[c % N], c, lists[c + 1])
    BY <1>0, <1>3, <2>1
  <2>3. dpuRing[c % N].op_own = TurnBit(c, N)
    BY <2>2 DEF Holds
  <2>4. Unused(dpuRing[c % N])
    BY <1>2, <1>4
  <2>5. Meant \in Seq(Nat) /\ Len(Meant) \in Nat /\ Len(Meant) <= HostMaxSge
    BY <2>1, ListFacts DEF Meant
  <2> QED
    BY <1>1, <1>5, <2>2, <2>3, <2>4, <2>5 DEF OwnerMatches, Meant
<1>6. CASE c = Visible
  <2>1. CASE c >= N
    <3>1. c - N \in 0 .. Visible - 1 /\ Visible - N <= c - N
      BY <1>0, <1>6, <2>1
    <3>2. Holds(dpuRing[(c - N) % N], c - N, lists[c - N + 1])
      BY <1>3, <3>1
    <3>3. TurnBit(c - N, N) = 1 - TurnBit(c, N) /\ (c - N) % N = c % N
      BY <1>0, <2>1, SlotFacts
    <3>4. dpuRing[c % N].op_own = 1 - TurnBit(c, N)
      BY <3>2, <3>3 DEF Holds
    <3>5. ~OwnerMatches
      BY <1>1, <1>2, <3>4 DEF OwnerMatches
    <3> QED
      BY <1>0, <1>6, <3>5
  <2>2. CASE c < N
    <3>1. TurnBit(c, N) = 1 /\ c % N = c
      BY <1>0, <2>2, SlotFacts
    <3>2. dpuRing[c % N].op_own = 0
      BY <1>0, <1>2, <1>4, <1>6, <3>1
    <3>3. ~OwnerMatches
      BY <1>1, <3>1, <3>2 DEF OwnerMatches
    <3> QED
      BY <1>0, <1>6, <3>3
  <2> QED
    BY <1>0, <2>1, <2>2
<1> QED
  BY <1>0, <1>5, <1>6

\* The bytes of no request, and of a request more.
LEMMA ReqBytes ==
    /\ Sum(ReqLengths(<<>>)) = 0
    /\ \A rs \in Seq(DmaReq), r \in DmaReq :
         /\ Sum(ReqLengths(rs)) \in Nat
         /\ Sum(ReqLengths(Append(rs, r))) = Sum(ReqLengths(rs)) + r.length
<1>1. ASSUME NEW rs \in Seq(DmaReq)
      PROVE  /\ ReqLengths(rs) \in Seq(Nat)
             /\ Len(ReqLengths(rs)) = Len(rs)
             /\ \A i \in 1 .. Len(rs) : ReqLengths(rs)[i] = rs[i].length
  <2>1. Len(rs) \in Nat /\ \A i \in 1 .. Len(rs) : rs[i] \in DmaReq
    OBVIOUS
  <2>2. \A i \in 1 .. Len(rs) : rs[i].length \in Nat
    BY <2>1 DEF DmaReq
  <2>3. ReqLengths(rs) \in [1 .. Len(rs) -> Nat]
    BY <2>2 DEF ReqLengths
  <2>4. ReqLengths(rs) \in Seq(Nat)
    BY <2>1, <2>3
  <2>5. DOMAIN ReqLengths(rs) = 1 .. Len(rs)
    BY <2>3
  <2>6. Len(ReqLengths(rs)) = Len(rs)
    BY <2>1, <2>4, <2>5
  <2> QED
    BY <2>4, <2>6 DEF ReqLengths
<1>2. Sum(ReqLengths(<<>>)) = 0
  <2>1. <<>> \in Seq(DmaReq) /\ Len(<<>>) = 0
    BY EmptySeq
  <2>2. ReqLengths(<<>>) \in Seq(Nat) /\ Len(ReqLengths(<<>>)) = 0
    BY <1>1, <2>1
  <2> QED
    BY <2>2, SumToSolves DEF Sum
<1>3. ASSUME NEW rs \in Seq(DmaReq), NEW r \in DmaReq
      PROVE  /\ Sum(ReqLengths(rs)) \in Nat
             /\ Sum(ReqLengths(Append(rs, r))) = Sum(ReqLengths(rs)) + r.length
  <2> DEFINE longer == Append(rs, r)
  <2>1. /\ longer \in Seq(DmaReq) /\ Len(longer) = Len(rs) + 1
        /\ \A i \in 1 .. Len(rs) : longer[i] = rs[i]
        /\ longer[Len(rs) + 1] = r
    BY AppendProperties
  <2>2. r.length \in Nat /\ Len(rs) \in Nat
    BY DEF DmaReq
  <2> DEFINE a == ReqLengths(rs)
             b == ReqLengths(longer)
  <2>3. /\ a \in Seq(Nat) /\ Len(a) = Len(rs)
        /\ \A i \in 1 .. Len(rs) : a[i] = rs[i].length
    BY <1>1
  <2>4. /\ b \in Seq(Nat) /\ Len(b) = Len(longer)
        /\ \A i \in 1 .. Len(longer) : b[i] = longer[i].length
    <3> HIDE DEF longer
    <3> QED
      BY <1>1, <2>1
  <2> HIDE DEF a, b, longer
  <2>5. /\ Append(a, r.length) \in Seq(Nat) /\ Len(Append(a, r.length)) = Len(a) + 1
        /\ \A i \in 1 .. Len(a) : Append(a, r.length)[i] = a[i]
        /\ Append(a, r.length)[Len(a) + 1] = r.length
    BY <2>2, <2>3, AppendProperties
  <2>6. ASSUME NEW i \in 1 .. Len(b)
        PROVE  b[i] = Append(a, r.length)[i]
    <3>1. CASE i \in 1 .. Len(rs)
      BY <2>1, <2>3, <2>4, <2>5, <3>1
    <3>2. CASE i = Len(rs) + 1
      BY <2>1, <2>3, <2>4, <2>5, <3>2
    <3>3. Len(b) = Len(rs) + 1
      BY <2>1, <2>4
    <3>4. i \in 1 .. Len(rs) \/ i = Len(rs) + 1
      BY <2>2, <3>3
    <3> QED
      BY <3>1, <3>2, <3>4
  <2>7. b = Append(a, r.length)
    BY <2>1, <2>3, <2>4, <2>5, <2>6, SeqEqual
  <2>8. Sum(a) \in Nat /\ Sum(Append(a, r.length)) = Sum(a) + r.length
    BY <2>2, <2>3, SumAppended
  <2> QED
    BY <2>7, <2>8 DEF a, b, longer
<1> QED
  BY <1>2, <1>3

-----------------------------------------------------------------------------
(* What a step leaves as it was *)

\* A packet moves neither ring, nor the completion queue.
LEMMA RingStays ==
    ASSUME RecvInv,
           UNCHANGED <<head, tail, ring, dpuRing, sendCnt, cq, wc>>,
           recv_wq'.head = recv_wq.head, recv_wq'.own_flag = recv_wq.own_flag
    PROVE  /\ Visible' = Visible
           /\ Meant' = Meant
           /\ Cursors' /\ HostSlots' /\ DpuSlots' /\ CqeInv'
<1>1. /\ head' = head /\ tail' = tail /\ sendCnt' = sendCnt /\ cq' = cq /\ wc' = wc
      /\ ownFlag' = ownFlag /\ wrid' = wrid /\ hostRing' = hostRing
      /\ copying' = copying /\ lists' = lists /\ dpuRing' = dpuRing
  BY DEF ring
<1>2. Visible' = Visible /\ Meant' = Meant
  BY <1>1 DEF Visible, Meant
<1>3. Cursors'
  BY <1>1, <1>2 DEF RecvInv, Cursors
<1>4. HostSlots'
  BY <1>1 DEF RecvInv, HostSlots
<1>5. DpuSlots'
  BY <1>1, <1>2 DEF RecvInv, DpuSlots
<1>6. CqeInv'
  BY <1>1 DEF RecvInv, CqeInv, RecvWcExact
<1> QED
  BY <1>2, <1>3, <1>4, <1>5, <1>6

\* A list more, or one more that is visible, is none of the SEND's business.
LEMMA TransferStays ==
    ASSUME RecvInv,
           UNCHANGED <<transfer, sendCnt, recv_wq, dpu>>,
           Visible' \in Nat, Visible <= Visible',
           sendCnt < Visible => Meant' = Meant
    PROVE  MessageInv' /\ SendInv' /\ WriteInv'
<1>1. /\ message' = message /\ rest' = rest /\ reqs' = reqs /\ messages' = messages
      /\ sendCnt' = sendCnt /\ recv_wq' = recv_wq /\ dpu' = dpu
  BY DEF transfer
<1>2. Placed' = Placed
  BY <1>1 DEF Placed
<1>3. MessageInv'
  BY <1>1, <1>2 DEF RecvInv, MessageInv
<1>4. WriteInv'
  BY <1>1 DEF RecvInv, WriteInv
<1>5. SendInv'
  <2>1. CASE message.kind = "SEND" /\ message.arrived > 0
    <3>1. /\ sendCnt < Visible
          /\ CursorAt(recv_wq, Meant, Placed)
          /\ \A i \in 1 .. Len(reqs) : Fits(reqs[i], sendCnt, Meant)
      BY <2>1 DEF RecvInv, SendInv
    <3>2. Meant' = Meant
      BY <3>1
    <3>3. sendCnt' < Visible'
      BY <1>1, <3>1, Numbers
    <3> QED
      BY <1>1, <1>2, <2>1, <3>1, <3>2, <3>3 DEF SendInv
  <2>2. CASE ~(message.kind = "SEND" /\ message.arrived > 0)
    BY <1>1, <2>2 DEF RecvInv, SendInv
  <2> QED
    BY <2>1, <2>2
<1> QED
  BY <1>3, <1>4, <1>5

-----------------------------------------------------------------------------
(* RecvInv is inductive *)

\* Nothing is posted and nothing has arrived.
LEMMA InitRecvInv ==
    Init => RecvInv
<1> SUFFICES ASSUME Init
             PROVE  RecvInv
  OBVIOUS
<1>0. N \in Nat /\ N > 0 /\ MaxSge \in Nat /\ HostMaxSge \in Nat
  BY RecvScatterAssumption
<1>1. 0 \in Slot /\ TurnBit(0, N) = 1 /\ 0 % N = 0
  BY <1>0, SlotFacts DEF Slot
<1>2. /\ EmptyRing \in [Slot -> Wqe]
      /\ \A i \in Slot : EmptyRing[i].op_own = 0 /\ Unused(EmptyRing[i])
  <2>1. Mark("zero") \in Sge
    BY DEF Mark, Sge
  <2>2. \A j \in HostMaxSge .. MaxSge - 1 : j \in SgeIndex
    BY <1>0 DEF SgeIndex
  <2> QED
    BY <2>1, <2>2 DEF EmptyRing, Wqe, Unused
<1>3. Len(lists) = 0 /\ Len(copying) = 0 /\ Len(cq) = 0 /\ Visible = 0
  BY EmptySeq DEF Init, Visible
<1>4. TypeOK
  <2>1. recv_wq \in RecvWq
    BY <1>1 DEF Init, RecvWq
  <2>2. /\ copying \in Seq(Slot) /\ lists \in Seq(Lists)
        /\ reqs \in Seq(DmaReq) /\ cq \in Seq(Cqe)
    BY EmptySeq DEF Init
  <2>3. /\ wrid \in [Slot -> Nat \cup {None}]
        /\ message \in [kind : {"none", "SEND", "WRITE"}, length : Nat, arrived : Nat]
        /\ wc \in [wr_id : Nat \cup {None}, byte_len : Nat, number : Nat \cup {None},
                   length : Nat]
    BY DEF Init, NoMessage, None
  <2>4. hostRing \in [Slot -> Wqe] /\ dpuRing \in [Slot -> Wqe]
    BY <1>2 DEF Init
  <2> QED
    BY <2>1, <2>2, <2>3, <2>4 DEF Init, TypeOK
<1>5. Cursors
  BY <1>0, <1>1, <1>3 DEF Init, Cursors
<1>6. HostSlots /\ DpuSlots
  BY <1>0, <1>2, <1>3 DEF Init, HostSlots, DpuSlots
<1>7. MessageInv /\ WriteInv
  BY DEF Init, MessageInv, WriteInv, NoMessage, None
<1>8. SendInv
  BY DEF Init, SendInv, NoMessage, CursorAtStart
<1>9. CqeInv /\ EndsInv
  BY <1>3 DEF Init, CqeInv, RecvWcExact, EndsInv
<1> QED
  BY <1>4, <1>5, <1>6, <1>7, <1>8, <1>9 DEF RecvInv

\* Nothing but the application's end changes.
LEMMA OnlyHostStep ==
    ASSUME RecvInv, host' \in {"running", "full"},
           UNCHANGED <<head, tail, ring, dpuRing, dpu, recv_wq, transfer, sendCnt, cq, wc>>
    PROVE  RecvInv'
<1>1. /\ Visible' = Visible /\ Meant' = Meant
      /\ Cursors' /\ HostSlots' /\ DpuSlots' /\ CqeInv'
  BY RingStays
<1>2. Visible \in Nat
  BY Numbers
<1>3. MessageInv' /\ SendInv' /\ WriteInv'
  BY <1>1, <1>2, TransferStays
<1>4. EndsInv'
  BY <1>1 DEF RecvInv, EndsInv, transfer
<1>5. TypeOK'
  BY DEF RecvInv, TypeOK, ring, transfer
<1> QED
  BY <1>1, <1>3, <1>4, <1>5 DEF RecvInv

\* The slot written is of the receive N earlier: no receive of the last N.
LEMMA PostRecvStep ==
    ASSUME RecvInv, NEW list \in Lists, PostRecv(list)
    PROVE  RecvInv'
<1> DEFINE n == Len(lists)
           ind == head % N
           w == Written(hostRing[ind], n, list)
<1>0. /\ N \in Nat /\ N > 0
      /\ HostMaxSge \in Nat /\ MaxSge \in Nat /\ HostMaxSge <= MaxSge
      /\ head \in Nat /\ tail \in Nat /\ sendCnt \in Nat /\ n \in Nat
      /\ Len(copying) \in Nat /\ Visible \in Nat /\ Visible <= n
      /\ head = n
      /\ n - N <= tail /\ tail <= sendCnt /\ sendCnt <= Visible
  BY Numbers
<1>1. /\ UNCHANGED <<host, tail, dpuRing, dpu, recv_wq, transfer, sendCnt, cq, wc>>
      /\ hostRing' = [hostRing EXCEPT ![ind] = w]
      /\ copying' = Append(copying, ind)
      /\ wrid' = [wrid EXCEPT ![ind] = n]
      /\ ownFlag' = OwnAfter(ind)
      /\ head' = head + 1
      /\ lists' = Append(lists, list)
      /\ head - tail < N
  BY <1>0 DEF PostRecv, RingFull
<1>2. /\ host \in {"running", "full"} /\ ownFlag \in {0, 1}
      /\ wrid \in [Slot -> Nat \cup {None}]
      /\ hostRing \in [Slot -> Wqe]
      /\ copying \in Seq(Slot) /\ lists \in Seq(Lists)
  BY DEF RecvInv, TypeOK
<1>3. /\ list \in Seq(Nat) /\ Len(list) \in Nat /\ Len(list) <= HostMaxSge
  BY RecvScatterAssumption
<1>4. /\ ind \in Slot
      /\ ownFlag = TurnBit(n, N)
      /\ TurnBit(n + 1, N) = OwnAfter(ind)
      /\ TurnBit(n + 1, N) \in {0, 1}
  <2>1. ownFlag = TurnBit(n, N)
    BY <1>0 DEF RecvInv, Cursors
  <2>2. /\ n % N \in Slot
        /\ TurnBit(n + 1, N) = IF (n % N) + 1 = N THEN 1 - TurnBit(n, N)
                                                  ELSE TurnBit(n, N)
    BY <1>0, SlotFacts
  <2>3. TurnBit(n + 1, N) \in {0, 1}
    <3>1. n + 1 \in Nat
      BY <1>0
    <3> QED
      BY <3>1, SlotFacts
  <2>4. ind = n % N
    BY <1>0
  <2> HIDE DEF ind, n
  <2> QED
    BY <2>1, <2>2, <2>3, <2>4 DEF OwnAfter
<1>5. /\ hostRing[ind] \in Wqe /\ Unused(hostRing[ind])
  BY <1>2, <1>4 DEF RecvInv, HostSlots
<1>6. w \in Wqe /\ Holds(w, n, list) /\ Unused(w)
  <2> DEFINE old == hostRing[ind]
  <2>1. old \in Wqe /\ Unused(old)
    BY <1>5
  <2> HIDE DEF old
  <2> DEFINE v == Written(old, n, list)
  <2>2. /\ v.op_own = ownFlag
        /\ v = [op_own |-> ownFlag, sge |-> v.sge]
        /\ DOMAIN v.sge = SgeIndex
        /\ v.sge = [j \in SgeIndex |-> v.sge[j]]
    BY DEF Written
  <2>3. \A j \in SgeIndex :
          v.sge[j] = IF j < Len(list) THEN Buffer(n, j, list[j + 1])
                     ELSE IF j = Len(list) /\ Ends(list) THEN Mark("end")
                     ELSE old.sge[j]
    BY DEF Written
  <2>4. \A j \in SgeIndex : v.sge[j] \in Sge
    <3> SUFFICES ASSUME NEW j \in SgeIndex
                 PROVE  v.sge[j] \in Sge
      OBVIOUS
    <3>0. j \in Nat
      BY DEF SgeIndex
    <3>1. CASE j < Len(list)
      <4>1. list[j + 1] \in Nat
        BY <1>3, <3>0, <3>1
      <4>2. Buffer(n, j, list[j + 1]) \in Sge
        BY <1>0, <3>0, <4>1 DEF Buffer, Sge
      <4> QED
        BY <2>3, <3>1, <4>2
    <3>2. CASE ~(j < Len(list)) /\ j = Len(list) /\ Ends(list)
      <4>1. Mark("end") \in Sge
        BY DEF Mark, Sge
      <4> QED
        BY <2>3, <3>2, <4>1
    <3>3. CASE ~(j < Len(list)) /\ ~(j = Len(list) /\ Ends(list))
      <4>1. old.sge[j] \in Sge
        BY <2>1 DEF Wqe
      <4>2. v.sge[j] = old.sge[j]
        BY <2>3, <3>3
      <4> QED
        BY <4>1, <4>2
    <3> QED
      BY <3>1, <3>2, <3>3
  <2>5. Holds(v, n, list)
    <3>1. \A j \in 0 .. Len(list) - 1 : v.sge[j] = Buffer(n, j, list[j + 1])
      <4> SUFFICES ASSUME NEW j \in 0 .. Len(list) - 1
                   PROVE  v.sge[j] = Buffer(n, j, list[j + 1])
        OBVIOUS
      <4>1. j \in SgeIndex /\ j < Len(list)
        BY <1>0, <1>3 DEF SgeIndex
      <4> QED
        BY <2>3, <4>1
    <3>2. Len(list) < HostMaxSge => v.sge[Len(list)] = Mark("end")
      BY <1>0, <1>3, <2>3 DEF SgeIndex, Ends
    <3> HIDE DEF v
    <3> QED
      BY <1>4, <2>2, <3>1, <3>2 DEF Holds
  <2>6. Unused(v)
    <3> SUFFICES ASSUME NEW j \in HostMaxSge .. MaxSge - 1
                 PROVE  v.sge[j] = Mark("zero")
      BY DEF Unused
    <3>1. j \in SgeIndex /\ ~(j < Len(list)) /\ ~(j = Len(list) /\ Ends(list))
      BY <1>0, <1>3 DEF SgeIndex, Ends
    <3>2. old.sge[j] = Mark("zero")
      BY <2>1 DEF Unused
    <3> QED
      BY <2>3, <3>1, <3>2
  <2> HIDE DEF v
  <2>7. v.sge \in [SgeIndex -> Sge]
    BY <2>2, <2>4
  <2>8. v \in Wqe
    BY <1>2, <2>2, <2>7 DEF Wqe
  <2> QED
    BY <2>5, <2>6, <2>8 DEF v, old
<1> HIDE DEF w
<1>7. /\ hostRing' \in [Slot -> Wqe] /\ hostRing'[ind] = w
      /\ \A i \in Slot : i # ind => hostRing'[i] = hostRing[i]
      /\ wrid' \in [Slot -> Nat \cup {None}] /\ wrid'[ind] = n
      /\ \A i \in Slot : i # ind => wrid'[i] = wrid[i]
  <2> HIDE DEF ind, n
  <2> QED
    BY <1>0, <1>1, <1>2, <1>4, <1>6
<1>8. /\ lists' \in Seq(Lists) /\ Len(lists') = n + 1
      /\ \A p \in 1 .. n : lists'[p] = lists[p]
      /\ lists'[n + 1] = list
  BY <1>1, <1>2, AppendProperties
<1>9. /\ copying' \in Seq(Slot) /\ Len(copying') = Len(copying) + 1
      /\ \A i \in 1 .. Len(copying) : copying'[i] = copying[i]
      /\ copying'[Len(copying) + 1] = ind
  BY <1>1, <1>2, <1>4, AppendProperties
<1>10. Visible' = Visible
  BY <1>0, <1>8, <1>9 DEF Visible
<1>11. sendCnt < Visible => Meant' = Meant
  BY <1>0, <1>1, <1>8 DEF Meant
<1>12. MessageInv' /\ SendInv' /\ WriteInv'
  BY <1>0, <1>1, <1>10, <1>11, TransferStays
<1>13. CqeInv'
  BY <1>1 DEF RecvInv, CqeInv, RecvWcExact
<1>14. EndsInv'
  BY <1>1, <1>10, <1>11 DEF RecvInv, EndsInv, transfer
<1>15. TypeOK'
  <2>1. /\ host' \in {"running", "full"} /\ head' \in Nat /\ tail' \in Nat
        /\ ownFlag' \in {0, 1}
    BY <1>0, <1>1, <1>2, <1>4
  <2>2. /\ wrid' \in [Slot -> Nat \cup {None}] /\ hostRing' \in [Slot -> Wqe]
        /\ copying' \in Seq(Slot) /\ lists' \in Seq(Lists)
    BY <1>7, <1>8, <1>9
  <2>3. /\ dpuRing' = dpuRing /\ dpu' = dpu /\ recv_wq' = recv_wq /\ sendCnt' = sendCnt
        /\ message' = message /\ rest' = rest /\ reqs' = reqs /\ messages' = messages
        /\ cq' = cq /\ wc' = wc
    BY <1>1 DEF transfer
  <2> QED
    BY <2>1, <2>2, <2>3 DEF RecvInv, TypeOK
<1>16. Cursors'
  <2>1. \A i \in 1 .. Len(copying') : copying'[i] = (Visible' + i - 1) % N
    <3> SUFFICES ASSUME NEW i \in 1 .. Len(copying')
                 PROVE  copying'[i] = (Visible + i - 1) % N
      BY <1>10
    <3>1. CASE i \in 1 .. Len(copying)
      BY <1>9, <3>1 DEF RecvInv, Cursors
    <3>2. CASE i = Len(copying) + 1
      <4>1. Visible + i - 1 = head
        BY <1>0, <3>2 DEF Visible
      <4> QED
        BY <1>9, <3>2, <4>1
    <3> QED
      BY <1>0, <1>9, <3>1, <3>2
  <2>2. /\ tail' + Len(cq') = sendCnt'
        /\ recv_wq'.head = sendCnt' % N
        /\ recv_wq'.own_flag = TurnBit(sendCnt', N)
    BY <1>1 DEF RecvInv, Cursors
  <2>3. head' = Len(lists') /\ sendCnt' <= Visible' /\ head' - tail' <= N
    BY <1>0, <1>1, <1>8, <1>10
  <2>4. ownFlag' = TurnBit(head', N)
    BY <1>0, <1>1, <1>4
  <2> QED
    BY <2>1, <2>2, <2>3, <2>4 DEF Cursors
<1>17. HostSlots'
  <2>1. ASSUME NEW p \in 0 .. Len(lists') - 1, Len(lists') - N <= p
        PROVE  Holds(hostRing'[p % N], p, lists'[p + 1]) /\ wrid'[p % N] = p
    <3>1. CASE p = n
      BY <1>0, <1>6, <1>7, <1>8, <3>1
    <3>2. CASE p # n
      <4>1. p \in Nat /\ p < n /\ n < p + N /\ n - N <= p /\ p \in 0 .. n - 1
            /\ p + 1 \in 1 .. n
        BY <1>0, <1>8, <2>1, <3>2
      <4>2. p % N # n % N /\ p % N \in Slot
        <5>1. p % N # n % N
          BY <1>0, <4>1, SlotDistinct
        <5> QED
          BY <4>1, <5>1, SlotFacts
      <4>3. Holds(hostRing[p % N], p, lists[p + 1]) /\ wrid[p % N] = p
        BY <4>1 DEF RecvInv, HostSlots
      <4>4. /\ hostRing'[p % N] = hostRing[p % N] /\ wrid'[p % N] = wrid[p % N]
            /\ lists'[p + 1] = lists[p + 1]
        BY <1>0, <1>7, <1>8, <4>1, <4>2
      <4> QED
        BY <4>3, <4>4
    <3> QED
      BY <3>1, <3>2
  <2>2. ASSUME NEW i \in Slot
        PROVE  Unused(hostRing'[i])
    <3>1. CASE i = ind
      BY <1>6, <1>7, <3>1
    <3>2. CASE i # ind
      BY <1>7, <3>2 DEF RecvInv, HostSlots
    <3> QED
      BY <3>1, <3>2
  <2> QED
    BY <2>1, <2>2 DEF HostSlots
<1>18. DpuSlots'
  <2>1. \A p \in 0 .. Visible - 1 : lists'[p + 1] = lists[p + 1]
    BY <1>0, <1>8
  <2> QED
    BY <1>1, <1>10, <2>1 DEF RecvInv, DpuSlots
<1> QED
  BY <1>12, <1>13, <1>14, <1>15, <1>16, <1>17, <1>18 DEF RecvInv

\* The slot copied is of the first receive that is not visible yet.
LEMMA DmaCopyStep ==
    ASSUME RecvInv, DmaCopy
    PROVE  RecvInv'
<1> DEFINE v == Visible
           ind == Head(copying)
<1>0. /\ N \in Nat /\ N > 0
      /\ head \in Nat /\ tail \in Nat /\ sendCnt \in Nat
      /\ Len(lists) \in Nat /\ Len(copying) \in Nat
      /\ v \in Nat /\ v <= Len(lists)
      /\ head = Len(lists)
      /\ Len(lists) - N <= tail /\ tail <= sendCnt /\ sendCnt <= v
  BY Numbers
<1>1. /\ dpu = "running" /\ copying # <<>>
      /\ dpuRing' = [dpuRing EXCEPT ![ind] = hostRing[ind]]
      /\ copying' = Tail(copying)
      /\ UNCHANGED <<host, head, tail, ownFlag, wrid, hostRing, lists, dpu, recv_wq,
                     transfer, sendCnt, cq, wc>>
  BY DEF DmaCopy
<1>2. /\ hostRing \in [Slot -> Wqe] /\ dpuRing \in [Slot -> Wqe]
      /\ copying \in Seq(Slot)
  BY DEF RecvInv, TypeOK
<1>3. /\ Len(copying) >= 1 /\ ind = copying[1]
      /\ copying' \in Seq(Slot) /\ Len(copying') = Len(copying) - 1
      /\ \A i \in 1 .. Len(copying') : copying'[i] = copying[i + 1]
  <2>1. Len(copying) >= 1 /\ ind = copying[1]
    BY <1>0, <1>1, <1>2, EmptySeq
  <2> QED
    BY <1>1, <1>2, <2>1, HeadTailProperties
<1>4. \A i \in 1 .. Len(copying) : copying[i] = (v + i - 1) % N
  BY DEF RecvInv, Cursors
<1>5. /\ ind = v % N /\ v % N \in Slot
      /\ v \in 0 .. Len(lists) - 1 /\ Len(lists) - N <= v
  <2>1. 1 \in 1 .. Len(copying) /\ v + 1 - 1 = v
    BY <1>0, <1>3
  <2>2. ind = v % N
    BY <1>3, <1>4, <2>1
  <2>3. v = Len(lists) - Len(copying)
    BY DEF Visible
  <2> HIDE DEF ind, v
  <2>4. v % N \in Slot
    BY <1>0, SlotFacts
  <2>5. v <= Len(lists) - 1 /\ Len(lists) - N <= v
    BY <1>0, <1>3, <2>3
  <2> QED
    BY <1>0, <2>2, <2>4, <2>5
<1>6. Visible' = v + 1 /\ lists' = lists
  BY <1>0, <1>1, <1>3 DEF Visible
<1> HIDE DEF v, ind
<1>7. /\ dpuRing' \in [Slot -> Wqe] /\ dpuRing'[ind] = hostRing[ind]
      /\ \A i \in Slot : i # ind => dpuRing'[i] = dpuRing[i]
  BY <1>1, <1>2, <1>5
<1>8. MessageInv' /\ SendInv' /\ WriteInv'
  <2>1. UNCHANGED <<transfer, sendCnt, recv_wq, dpu>>
    BY <1>1
  <2>2. Visible' \in Nat /\ Visible <= Visible'
    BY <1>0, <1>6 DEF v
  <2>3. Meant' = Meant
    BY <1>1 DEF Meant
  <2> QED
    BY <2>1, <2>2, <2>3, TransferStays
<1>9. CqeInv' /\ EndsInv'
  <2>1. CqeInv'
    BY <1>1 DEF RecvInv, CqeInv, RecvWcExact
  <2>2. dpu' = "running"
    BY <1>1
  <2> QED
    BY <2>1, <2>2 DEF EndsInv
<1>10. TypeOK'
  BY <1>1, <1>3, <1>7 DEF RecvInv, TypeOK, transfer
<1>11. Cursors'
  <2>1. \A i \in 1 .. Len(copying') : copying'[i] = (Visible' + i - 1) % N
    <3> SUFFICES ASSUME NEW i \in 1 .. Len(copying')
                 PROVE  copying'[i] = (Visible' + i - 1) % N
      OBVIOUS
    <3>1. i + 1 \in 1 .. Len(copying) /\ v + (i + 1) - 1 = Visible' + i - 1
      BY <1>0, <1>3, <1>6
    <3>2. copying[i + 1] = (v + (i + 1) - 1) % N
      BY <1>4, <3>1
    <3> QED
      BY <1>3, <3>1, <3>2
  <2>2. /\ head' = Len(lists') /\ tail' + Len(cq') = sendCnt' /\ head' - tail' <= N
        /\ ownFlag' = TurnBit(head', N)
        /\ recv_wq'.head = sendCnt' % N
        /\ recv_wq'.own_flag = TurnBit(sendCnt', N)
    BY <1>1 DEF RecvInv, Cursors
  <2>3. sendCnt' <= Visible'
    BY <1>0, <1>1, <1>6
  <2> QED
    BY <2>1, <2>2, <2>3 DEF Cursors
<1>12. HostSlots'
  BY <1>1 DEF RecvInv, HostSlots
<1>13. DpuSlots'
  <2>1. ASSUME NEW p \in 0 .. Visible' - 1, Visible' - N <= p
        PROVE  Holds(dpuRing'[p % N], p, lists'[p + 1])
    <3>1. CASE p = v
      <4>1. Holds(hostRing[p % N], p, lists[p + 1])
        BY <1>5, <3>1 DEF RecvInv, HostSlots
      <4> QED
        BY <1>5, <1>6, <1>7, <3>1, <4>1
    <3>2. CASE p # v
      <4>1. p \in Nat /\ p \in 0 .. v - 1 /\ v - N <= p /\ p < v /\ v < p + N
        BY <1>0, <1>6, <2>1, <3>2
      <4>2. p % N # v % N
        BY <1>0, <4>1, SlotDistinct
      <4>3. p % N \in Slot
        BY <4>1, SlotFacts
      <4>4. Holds(dpuRing[p % N], p, lists[p + 1])
        BY <4>1 DEF RecvInv, DpuSlots, v
      <4> QED
        BY <1>5, <1>6, <1>7, <4>2, <4>3, <4>4
    <3> QED
      BY <3>1, <3>2
  <2>2. ASSUME NEW i \in Slot
        PROVE  Unused(dpuRing'[i]) /\ (Visible' <= i => dpuRing'[i].op_own = 0)
    <3>0. i \in Nat /\ i < N
      BY <1>0 DEF Slot
    <3>1. CASE i = ind
      <4>1. Unused(hostRing[ind])
        BY <1>5 DEF RecvInv, HostSlots
      <4>2. ~(Visible' <= i)
        <5> SUFFICES ASSUME Visible' <= i
                     PROVE  FALSE
          OBVIOUS
        <5>1. v < N
          BY <1>0, <1>6, <3>0
        <5>2. v % N = v
          BY <1>0, <5>1, SlotFacts
        <5> QED
          BY <1>0, <1>5, <1>6, <3>0, <3>1, <5>2
      <4> QED
        BY <1>7, <3>1, <4>1, <4>2
    <3>2. CASE i # ind
      <4>1. Unused(dpuRing[i]) /\ (v <= i => dpuRing[i].op_own = 0)
        BY DEF RecvInv, DpuSlots, v
      <4> QED
        BY <1>0, <1>6, <1>7, <3>0, <3>2, <4>1
    <3> QED
      BY <3>1, <3>2
  <2> QED
    BY <2>1, <2>2 DEF DpuSlots
<1> QED
  BY <1>8, <1>9, <1>10, <1>11, <1>12, <1>13 DEF RecvInv

\* The cursors were left at the start of a list.
LEMMA BeginMessageStep ==
    ASSUME RecvInv, NEW kind \in {"SEND", "WRITE"}, NEW length \in Lengths,
           BeginMessage(kind, length)
    PROVE  RecvInv'
<1>1. /\ dpu = "running" /\ message = NoMessage
      /\ message' = [kind |-> kind, length |-> length, arrived |-> 0]
      /\ messages' = messages + 1
      /\ reqs' = <<>>
      /\ recv_wq' = IF kind = "WRITE"
                      THEN [recv_wq EXCEPT !.offset = 0, !.resid = length]
                      ELSE recv_wq
      /\ UNCHANGED <<host, head, tail, ring, dpuRing, dpu, rest, sendCnt, cq, wc>>
  BY DEF BeginMessage
<1>2. length \in Nat /\ length > 0
  BY RecvScatterAssumption
<1>3. recv_wq \in RecvWq /\ messages \in Nat
  BY DEF RecvInv, TypeOK
<1>4. rest = None
  BY <1>1 DEF RecvInv, MessageInv, NoMessage
<1>5. CursorAtStart(recv_wq)
  BY <1>1 DEF RecvInv, SendInv, NoMessage
<1>6. /\ recv_wq' \in RecvWq
      /\ recv_wq'.head = recv_wq.head /\ recv_wq'.own_flag = recv_wq.own_flag
      /\ CursorAtStart(recv_wq')
      /\ kind = "WRITE" => recv_wq'.offset = 0 /\ recv_wq'.resid = length
  <2>1. CASE kind = "WRITE"
    <3>1. recv_wq' = [recv_wq EXCEPT !.offset = 0, !.resid = length]
      BY <1>1, <2>1
    <3>2. recv_wq' \in RecvWq
      <4>1. length \in Int
        BY <1>2
      <4> QED
        BY <1>3, <3>1, <4>1 DEF RecvWq
    <3>4. recv_wq'.offset = 0 /\ recv_wq'.resid = length
      BY <1>3, <3>1 DEF RecvWq
    <3>3. /\ recv_wq'.head = recv_wq.head /\ recv_wq'.own_flag = recv_wq.own_flag
          /\ recv_wq'.now_sge_num = recv_wq.now_sge_num
          /\ recv_wq'.now_sge_offset = recv_wq.now_sge_offset
          /\ recv_wq'.now_total_dma_byte = recv_wq.now_total_dma_byte
      BY <1>3, <3>1 DEF RecvWq
    <3> QED
      BY <1>5, <3>2, <3>3, <3>4 DEF CursorAtStart
  <2>2. CASE kind # "WRITE"
    <3>1. recv_wq' = recv_wq
      BY <1>1, <2>2
    <3> QED
      BY <1>3, <1>5, <2>2, <3>1
  <2> QED
    BY <2>1, <2>2
<1>7. Cursors' /\ HostSlots' /\ DpuSlots' /\ CqeInv'
  BY <1>1, <1>6, RingStays
<1>8. TypeOK'
  <2>1. reqs' \in Seq(DmaReq)
    BY <1>1, EmptySeq
  <2>2. message' \in [kind : {"none", "SEND", "WRITE"}, length : Nat, arrived : Nat]
    BY <1>1, <1>2
  <2> QED
    BY <1>1, <1>3, <1>6, <2>1, <2>2 DEF RecvInv, TypeOK, ring
<1>9. /\ message'.kind = kind /\ message'.length = length /\ message'.arrived = 0
      /\ rest' = None
  BY <1>1, <1>4
<1>10. MessageInv'
  <2>1. Sum(ReqLengths(reqs')) = 0
    BY <1>1, ReqBytes
  <2>2. Placed' = 0
    BY <1>9 DEF Placed
  <2> QED
    BY <1>2, <1>9, <2>1, <2>2 DEF MessageInv
<1>11. SendInv'
  BY <1>1, <1>6, <1>9 DEF SendInv
<1>12. WriteInv'
  <2>1. Len(reqs') = 0
    BY <1>1
  <2> QED
    BY <1>2, <1>6, <1>9, <2>1 DEF WriteInv
<1>13. EndsInv'
  BY <1>1 DEF EndsInv
<1> QED
  BY <1>7, <1>8, <1>10, <1>11, <1>12, <1>13 DEF RecvInv

\* The size of a packet of which there are bytes left.
LEMMA PacketSizeFacts ==
    ASSUME RecvInv, message.arrived < message.length
    PROVE  /\ PacketSize \in Nat /\ PacketSize > 0
           /\ message.arrived \in Nat /\ message.length \in Nat
           /\ message.arrived + PacketSize <= message.length
<1>1. message.arrived \in Nat /\ message.length \in Nat
  BY DEF RecvInv, TypeOK
<1> QED
  BY <1>1, RecvScatterAssumption DEF PacketSize

\* With the first packet the SEND takes the list at the head; without one the
\* process ends.
LEMMA SendPacketStep ==
    ASSUME RecvInv, SendPacket
    PROVE  RecvInv'
<1>1. /\ dpu = "running" /\ message.kind = "SEND" /\ rest = None
      /\ message.arrived < message.length
      /\ UNCHANGED <<host, head, tail, ring, dpuRing, recv_wq, reqs, messages, sendCnt,
                     cq, wc>>
  BY DEF SendPacket
<1>2. /\ message \in [kind : {"none", "SEND", "WRITE"}, length : Nat, arrived : Nat]
      /\ PacketSize \in Nat /\ PacketSize > 0
      /\ message.arrived \in Nat /\ message.length \in Nat
      /\ message.arrived + PacketSize <= message.length
  BY <1>1, PacketSizeFacts DEF RecvInv, TypeOK
<1>3. /\ Visible' = Visible /\ Meant' = Meant
      /\ Cursors' /\ HostSlots' /\ DpuSlots' /\ CqeInv'
  BY <1>1, RingStays
<1>4. CASE ~OwnerMatches
  <2>1. dpu' = "no receive" /\ rest' = rest /\ message' = message
    BY <1>4 DEF SendPacket
  <2>2. Visible <= sendCnt
    BY <1>4, OwnerBit, Numbers
  <2>3. Placed' = Placed
    BY <2>1 DEF Placed
  <2>4. TypeOK'
    BY <1>1, <2>1 DEF RecvInv, TypeOK, ring
  <2>5. MessageInv' /\ WriteInv'
    BY <1>1, <2>1, <2>3 DEF RecvInv, MessageInv, WriteInv
  <2>6. SendInv'
    BY <1>1, <1>3, <2>1, <2>3 DEF RecvInv, SendInv
  <2>7. EndsInv'
    BY <1>1, <1>3, <2>1, <2>2 DEF EndsInv
  <2> QED
    BY <1>3, <2>4, <2>5, <2>6, <2>7 DEF RecvInv
<1>5. CASE OwnerMatches
  <2>1. /\ dpu' = dpu /\ rest' = PacketSize
        /\ message' = [message EXCEPT !.arrived = @ + PacketSize]
    BY <1>5 DEF SendPacket
  <2>2. /\ message' \in [kind : {"none", "SEND", "WRITE"}, length : Nat, arrived : Nat]
        /\ message'.kind = "SEND" /\ message'.length = message.length
        /\ message'.arrived = message.arrived + PacketSize
    BY <1>1, <1>2, <2>1
  <2>3. Placed = message.arrived /\ Placed' = message.arrived
    BY <1>1, <1>2, <2>1, <2>2 DEF Placed, None
  <2>4. sendCnt < Visible /\ Meant \in Seq(Nat) /\ Len(Meant) \in Nat
    BY <1>5, OwnerBit
  <2>5. TypeOK'
    BY <1>1, <1>2, <2>1, <2>2 DEF RecvInv, TypeOK, ring
  <2>6. MessageInv'
    <3>1. Sum(ReqLengths(reqs)) = Placed
      BY <1>1 DEF RecvInv, MessageInv
    <3> QED
      BY <1>1, <1>2, <2>1, <2>2, <2>3, <3>1 DEF MessageInv
  <2>7. WriteInv'
    BY <2>2 DEF WriteInv
  <2>8. CursorAt(recv_wq, Meant, message.arrived)
        /\ \A i \in 1 .. Len(reqs) : Fits(reqs[i], sendCnt, Meant)
    <3>1. CASE message.arrived > 0
      BY <1>1, <2>3, <3>1 DEF RecvInv, SendInv
    <3>2. CASE message.arrived = 0
      <4>1. CursorAtStart(recv_wq) /\ reqs = <<>>
        BY <1>1, <3>2 DEF RecvInv, SendInv
      <4>2. Len(reqs) = 0
        BY <4>1
      <4>3. SumTo(Meant)[0] = 0
        BY <2>4, SumToSolves
      <4> DEFINE list == Meant
      <4>4. /\ list \in Seq(Nat) /\ Len(list) \in Nat /\ SumTo(list)[0] = 0
            /\ 0 < Len(list) => list[1] \in Nat
        BY <2>4, <4>3
      <4>5. HostMaxSge \in Nat /\ MaxSge \in Nat
        BY Numbers
      <4> HIDE DEF list
      <4>6. CursorAt(recv_wq, list, 0)
        BY <4>1, <4>4, <4>5 DEF CursorAt, CursorAtStart, Sum
      <4> QED
        BY <3>2, <4>2, <4>6 DEF list
    <3> QED
      BY <1>2, <3>1, <3>2
  <2>9. SendInv'
    BY <1>1, <1>2, <1>3, <2>2, <2>3, <2>4, <2>8 DEF SendInv
  <2>10. EndsInv'
    BY <1>1, <2>1 DEF EndsInv
  <2> QED
    BY <1>3, <2>5, <2>6, <2>7, <2>9, <2>10 DEF RecvInv
<1> QED
  BY <1>4, <1>5

\* The element the cursor is at: an element of the list the SEND took, the mark
\* behind its last one, or behind what the application may use, empty.
LEMMA NowSgeFacts ==
    ASSUME RecvInv, message.kind = "SEND", rest # None
    PROVE  /\ sendCnt \in Nat /\ sendCnt < Visible
           /\ Meant \in Seq(Nat) /\ Len(Meant) \in Nat /\ Len(Meant) <= HostMaxSge
           /\ message.arrived \in Nat /\ message.length \in Nat /\ rest \in Nat
           /\ 0 < rest /\ rest <= message.arrived /\ message.arrived <= message.length
           /\ recv_wq \in RecvWq
           /\ CursorAt(recv_wq, Meant, message.arrived - rest)
           /\ \A i \in 1 .. Len(reqs) : Fits(reqs[i], sendCnt, Meant)
           /\ recv_wq.now_sge_num < Len(Meant) =>
                NowSge = Buffer(sendCnt, recv_wq.now_sge_num, Meant[recv_wq.now_sge_num + 1])
           /\ Len(Meant) <= recv_wq.now_sge_num /\ recv_wq.now_sge_num < MaxSge =>
                NowSge = IF Len(Meant) < HostMaxSge THEN Mark("end") ELSE Mark("zero")
<1>1. /\ message.arrived \in Nat /\ message.length \in Nat /\ rest \in Nat
      /\ recv_wq \in RecvWq
  BY DEF RecvInv, TypeOK
<1>2. 0 < rest /\ rest <= message.arrived /\ message.arrived <= message.length
  BY <1>1 DEF RecvInv, MessageInv
<1>3. message.arrived > 0 /\ Placed = message.arrived - rest
  BY <1>1, <1>2 DEF Placed
<1>4. /\ sendCnt < Visible
      /\ CursorAt(recv_wq, Meant, message.arrived - rest)
      /\ \A i \in 1 .. Len(reqs) : Fits(reqs[i], sendCnt, Meant)
  BY <1>3 DEF RecvInv, SendInv
<1>5. /\ sendCnt \in Nat
      /\ HostMaxSge \in Nat /\ MaxSge \in Nat /\ HostMaxSge <= MaxSge
  BY Numbers
<1>6. /\ Holds(dpuRing[recv_wq.head], sendCnt, Meant)
      /\ Unused(dpuRing[recv_wq.head])
      /\ Meant \in Seq(Nat) /\ Len(Meant) \in Nat /\ Len(Meant) <= HostMaxSge
  BY <1>4, OwnerBit
<1> DEFINE k == recv_wq.now_sge_num
           sge == dpuRing[recv_wq.head].sge
<1>7. k \in Nat /\ NowSge = sge[k]
  BY <1>1 DEF RecvWq, NowSge
<1>8. /\ \A j \in 0 .. Len(Meant) - 1 : sge[j] = Buffer(sendCnt, j, Meant[j + 1])
      /\ Len(Meant) < HostMaxSge => sge[Len(Meant)] = Mark("end")
      /\ \A j \in HostMaxSge .. MaxSge - 1 : sge[j] = Mark("zero")
  BY <1>6 DEF Holds, Unused
<1>9. Len(Meant) < HostMaxSge => k <= Len(Meant)
  BY <1>4 DEF CursorAt
<1> HIDE DEF k, sge
<1>10. CASE k < Len(Meant)
  <2>1. k \in 0 .. Len(Meant) - 1
    BY <1>6, <1>7, <1>10
  <2>2. NowSge = Buffer(sendCnt, k, Meant[k + 1])
    BY <1>7, <1>8, <2>1
  <2> QED
    BY <1>1, <1>2, <1>4, <1>5, <1>6, <1>7, <1>10, <2>2 DEF k
<1>11. CASE Len(Meant) <= k /\ Len(Meant) < HostMaxSge
  <2>1. k = Len(Meant)
    BY <1>6, <1>7, <1>9, <1>11
  <2>2. NowSge = Mark("end")
    BY <1>7, <1>8, <1>11, <2>1
  <2> QED
    BY <1>1, <1>2, <1>4, <1>5, <1>6, <1>7, <1>11, <2>2 DEF k
<1>12. CASE Len(Meant) <= k /\ ~(Len(Meant) < HostMaxSge)
  <2>1. k < MaxSge => NowSge = Mark("zero")
    BY <1>5, <1>6, <1>7, <1>8, <1>12
  <2> QED
    BY <1>1, <1>2, <1>4, <1>5, <1>6, <1>7, <1>12, <2>1 DEF k
<1> QED
  BY <1>6, <1>7, <1>10, <1>11, <1>12

\* Bytes left in the element, when the loop goes on.
LEMMA RemainFacts ==
    ASSUME RecvInv, message.kind = "SEND", rest # None,
           recv_wq.now_sge_num < MaxSge, NowSge.kind # "end"
    PROVE  /\ RemainSgeByte \in Nat
           /\ recv_wq.now_sge_num < Len(Meant) =>
                /\ NowSge = Buffer(sendCnt, recv_wq.now_sge_num,
                                   Meant[recv_wq.now_sge_num + 1])
                /\ NowSge.byte_count = Meant[recv_wq.now_sge_num + 1]
                /\ Meant[recv_wq.now_sge_num + 1] \in Nat
                /\ RemainSgeByte = Meant[recv_wq.now_sge_num + 1] - recv_wq.now_sge_offset
           /\ Len(Meant) <= recv_wq.now_sge_num =>
                /\ NowSge = Mark("zero")
                /\ RemainSgeByte = 0
                /\ recv_wq.now_sge_offset = 0
                /\ Len(Meant) = HostMaxSge
<1> DEFINE k == recv_wq.now_sge_num
           list == Meant
           offset == recv_wq.now_sge_offset
<1>1. /\ list \in Seq(Nat) /\ Len(list) \in Nat /\ Len(list) <= HostMaxSge
      /\ recv_wq \in RecvWq
      /\ CursorAt(recv_wq, list, message.arrived - rest)
      /\ k < Len(list) => NowSge = Buffer(sendCnt, k, list[k + 1])
      /\ Len(list) <= k => NowSge = IF Len(list) < HostMaxSge THEN Mark("end")
                                                              ELSE Mark("zero")
  BY NowSgeFacts
<1>2. k \in Nat /\ offset \in Nat /\ HostMaxSge \in Nat
  BY <1>1, Numbers DEF RecvWq
<1>3. RemainSgeByte = NowSge.byte_count - offset
  BY DEF RemainSgeByte
<1>4. /\ k < Len(list) => offset <= list[k + 1]
      /\ k >= Len(list) => offset = 0
  BY <1>1 DEF CursorAt
<1>5. NowSge.kind # "end"
  OBVIOUS
<1> HIDE DEF k, list, offset
<1>6. CASE k < Len(list)
  <2>1. list[k + 1] \in Nat
    BY <1>1, <1>2, <1>6
  <2>2. NowSge.byte_count = list[k + 1]
    BY <1>1, <1>6 DEF Buffer
  <2> QED
    BY <1>1, <1>2, <1>3, <1>4, <1>6, <2>1, <2>2 DEF k, list, offset
<1>7. CASE Len(list) <= k
  <2>1. Len(list) = HostMaxSge /\ NowSge = Mark("zero")
    BY <1>1, <1>2, <1>5, <1>7 DEF Mark
  <2>2. NowSge.byte_count = 0
    BY <2>1 DEF Mark
  <2> QED
    BY <1>1, <1>2, <1>3, <1>4, <1>7, <2>1, <2>2 DEF k, list, offset
<1> QED
  BY <1>1, <1>2, <1>6, <1>7

\* The request for n bytes goes where they are meant to go.
LEMMA RequestFits ==
    ASSUME RecvInv, message.kind = "SEND", rest # None,
           recv_wq.now_sge_num < MaxSge, NowSge.kind # "end",
           NEW n \in Nat, n <= RemainSgeByte, n <= rest, PostDmaReq(n)
    PROVE  /\ reqs' \in Seq(DmaReq)
           /\ \A i \in 1 .. Len(reqs') : Fits(reqs'[i], sendCnt, Meant)
           /\ Sum(ReqLengths(reqs)) \in Nat
           /\ Sum(ReqLengths(reqs')) = Sum(ReqLengths(reqs)) + n
<1> DEFINE k == recv_wq.now_sge_num
           list == Meant
           offset == recv_wq.now_sge_offset
           from == message.arrived - rest
           r == [list |-> NowSge.list, index |-> NowSge.index, offset |-> offset,
                 length |-> n, from |-> from]
<1>1. /\ list \in Seq(Nat) /\ Len(list) \in Nat
      /\ message.arrived \in Nat /\ rest \in Nat /\ rest <= message.arrived
      /\ recv_wq \in RecvWq /\ sendCnt \in Nat
      /\ CursorAt(recv_wq, list, from)
      /\ \A i \in 1 .. Len(reqs) : Fits(reqs[i], sendCnt, list)
  BY NowSgeFacts
<1>2. k \in Nat /\ offset \in Nat /\ from \in Nat
  BY <1>1 DEF RecvWq
<1>3. reqs \in Seq(DmaReq)
  BY DEF RecvInv, TypeOK
<1>4. reqs' = Append(reqs, r)
  BY DEF PostDmaReq
<1>5. r \in DmaReq /\ Fits(r, sendCnt, list)
  <2>1. CASE k < Len(list)
    <3>1. /\ NowSge = Buffer(sendCnt, k, list[k + 1])
          /\ list[k + 1] \in Nat /\ RemainSgeByte = list[k + 1] - offset
      BY <2>1, RemainFacts
    <3>2. from = SumTo(list)[k] + offset
      BY <1>1, <2>1 DEF CursorAt
    <3>3. NowSge.list = sendCnt /\ NowSge.index = k
      BY <3>1 DEF Buffer
    <3>4. offset + n <= list[k + 1]
      <4> HIDE DEF k, list, offset, r, from
      <4> QED
        BY <1>2, <3>1
    <3>5. r = [list |-> sendCnt, index |-> k, offset |-> offset, length |-> n, from |-> from]
      BY <3>3
    <3> HIDE DEF k, list, offset, r, from
    <3> QED
      BY <1>1, <1>2, <2>1, <3>2, <3>4, <3>5 DEF DmaReq, Fits
  <2>2. CASE Len(list) <= k
    <3>1. NowSge = Mark("zero") /\ RemainSgeByte = 0
      BY <2>2, RemainFacts
    <3>2. NowSge.list = 0 /\ NowSge.index = 0 /\ n = 0
      BY <3>1 DEF Mark
    <3>3. r = [list |-> 0, index |-> 0, offset |-> offset, length |-> 0, from |-> from]
      BY <3>2
    <3> HIDE DEF k, list, offset, r, from
    <3> QED
      BY <1>2, <3>3 DEF DmaReq, Fits
  <2> QED
    BY <1>1, <1>2, <2>1, <2>2
<1> HIDE DEF r
<1>6. /\ reqs' \in Seq(DmaReq) /\ Len(reqs') = Len(reqs) + 1
      /\ \A i \in 1 .. Len(reqs) : reqs'[i] = reqs[i]
      /\ reqs'[Len(reqs) + 1] = r
  BY <1>3, <1>4, <1>5, AppendProperties
<1>7. Len(reqs) \in Nat
  BY <1>3
<1>8. ASSUME NEW i \in 1 .. Len(reqs')
      PROVE  Fits(reqs'[i], sendCnt, Meant)
  <2>1. i \in 1 .. Len(reqs) \/ i = Len(reqs) + 1
    BY <1>6, <1>7
  <2>2. CASE i \in 1 .. Len(reqs)
    BY <1>1, <1>6, <2>2
  <2>3. CASE i = Len(reqs) + 1
    BY <1>5, <1>6, <2>3
  <2> QED
    BY <2>1, <2>2, <2>3
<1>9. r.length = n
  BY DEF r
<1>10. Sum(ReqLengths(reqs)) \in Nat
       /\ Sum(ReqLengths(reqs')) = Sum(ReqLengths(reqs)) + n
  BY <1>3, <1>4, <1>5, <1>9, ReqBytes
<1> QED
  BY <1>6, <1>8, <1>10

\* n bytes of the element it is at take the cursor along.
LEMMA CursorMoves ==
    ASSUME NEW wq \in RecvWq, NEW to \in RecvWq, NEW list \in Seq(Nat),
           NEW placed \in Nat, NEW n \in Nat,
           Len(list) <= HostMaxSge,
           CursorAt(wq, list, placed),
           wq.now_sge_num < Len(list),
           wq.now_sge_offset + n <= list[wq.now_sge_num + 1],
           to.now_total_dma_byte = wq.now_total_dma_byte + n,
           IF wq.now_sge_offset + n = list[wq.now_sge_num + 1]
             THEN to.now_sge_offset = 0 /\ to.now_sge_num = wq.now_sge_num + 1
             ELSE /\ to.now_sge_offset = wq.now_sge_offset + n
                  /\ to.now_sge_num = wq.now_sge_num
    PROVE  CursorAt(to, list, placed + n)
<1> DEFINE k == wq.now_sge_num
           offset == wq.now_sge_offset
           total == SumTo(list)
<1>0. /\ k \in Nat /\ offset \in Nat /\ Len(list) \in Nat
      /\ HostMaxSge \in Nat /\ MaxSge \in Nat /\ HostMaxSge <= MaxSge
  BY RecvScatterAssumption DEF RecvWq
<1>1. /\ k < Len(list)
      /\ wq.now_total_dma_byte = placed
      /\ offset <= list[k + 1]
      /\ placed = total[k] + offset
  BY DEF CursorAt
<1>2. /\ list[k + 1] \in Nat
      /\ total[k] \in Nat
      /\ total[k + 1] = total[k] + list[k + 1]
  <2>1. k \in 0 .. Len(list) /\ k + 1 \in 1 .. Len(list) /\ (k + 1) - 1 = k
    <3> HIDE DEF k
    <3> QED
      BY <1>0, <1>1, SMTT(30)
  <2> HIDE DEF k
  <2> QED
    BY <2>1, SumToType, SumToSolves
<1>3. to.now_total_dma_byte = placed + n
  BY <1>1
<1>4. CASE offset + n = list[k + 1]
  <2>1. to.now_sge_offset = 0 /\ to.now_sge_num = k + 1
    BY <1>4
  <2>2. placed + n = total[k + 1]
    <3> HIDE DEF k, offset, total
    <3> QED
      BY <1>0, <1>1, <1>2, <1>4, SMTT(20)
  <2>3. k + 1 < Len(list) => list[k + 2] \in Nat /\ k + 2 = k + 1 + 1
    <3> HIDE DEF k
    <3> QED
      BY <1>0, <1>1, SMTT(20)
  <2> HIDE DEF k, offset
  <2>4. k + 1 <= MaxSge /\ k + 1 <= Len(list)
    BY <1>0, <1>1
  <2>5. k + 1 >= Len(list) => k + 1 = Len(list)
    BY <1>0, <1>1
  <2> QED
    BY <1>0, <1>3, <2>1, <2>2, <2>3, <2>4, <2>5 DEF CursorAt, Sum
<1>5. CASE offset + n # list[k + 1]
  <2>1. to.now_sge_offset = offset + n /\ to.now_sge_num = k
    BY <1>5
  <2>2. placed + n = total[k] + (offset + n) /\ offset + n <= list[k + 1]
    <3>1. offset + n <= list[k + 1]
      OBVIOUS
    <3> HIDE DEF k, offset, total
    <3> QED
      BY <1>0, <1>1, <1>2, <3>1, SMTT(20)
  <2> HIDE DEF k, offset
  <2>3. k <= MaxSge /\ k <= Len(list)
    BY <1>0, <1>1
  <2> QED
    BY <1>0, <1>1, <1>3, <2>1, <2>2, <2>3 DEF CursorAt
<1> QED
  BY <1>4, <1>5

\* A turn of the loop that places n bytes and leaves the cursor behind them.
LEMMA ScatterKeeps ==
    ASSUME RecvInv, dpu = "running", message.kind = "SEND", rest # None,
           recv_wq.now_sge_num < MaxSge, NowSge.kind # "end",
           NEW n \in Nat, n <= RemainSgeByte, n <= rest, PostDmaReq(n),
           rest' = IF n = rest THEN None ELSE rest - n,
           recv_wq' \in RecvWq,
           recv_wq'.head = recv_wq.head, recv_wq'.own_flag = recv_wq.own_flag,
           CursorAt(recv_wq', Meant, message.arrived - rest + n),
           UNCHANGED <<host, head, tail, ring, dpuRing, dpu, message, messages, sendCnt, cq, wc>>
    PROVE  RecvInv'
<1>1. /\ Visible' = Visible /\ Meant' = Meant
      /\ Cursors' /\ HostSlots' /\ DpuSlots' /\ CqeInv'
  BY RingStays
<1>2. /\ sendCnt \in Nat /\ sendCnt < Visible
      /\ message.arrived \in Nat /\ message.length \in Nat /\ rest \in Nat
      /\ 0 < rest /\ rest <= message.arrived /\ message.arrived <= message.length
  BY NowSgeFacts
<1>3. /\ reqs' \in Seq(DmaReq)
      /\ \A i \in 1 .. Len(reqs') : Fits(reqs'[i], sendCnt, Meant)
      /\ Sum(ReqLengths(reqs)) \in Nat
      /\ Sum(ReqLengths(reqs')) = Sum(ReqLengths(reqs)) + n
  BY RequestFits
<1>4. message' = message /\ sendCnt' = sendCnt /\ dpu' = dpu
  OBVIOUS
<1>5. Placed = message.arrived - rest /\ Placed' = message.arrived - rest + n
  <2>1. Placed = message.arrived - rest
    BY DEF Placed
  <2>2. CASE n = rest
    <3>1. rest' = None
      BY <2>2
    <3> QED
      BY <1>2, <1>4, <2>1, <2>2, <3>1 DEF Placed
  <2>3. CASE n # rest
    <3>1. rest' = rest - n /\ rest' # None
      BY <1>2, <2>3 DEF None
    <3>2. Placed' = message.arrived - (rest - n)
      BY <1>4, <3>1 DEF Placed
    <3> QED
      BY <1>2, <2>1, <3>2
  <2> QED
    BY <2>2, <2>3
<1>6. /\ rest' \in Nat \cup {None}
      /\ rest' # None => rest' > 0 /\ rest' <= message.arrived
  BY <1>2 DEF None
<1>7. TypeOK'
  BY <1>3, <1>6 DEF RecvInv, TypeOK, ring
<1>8. MessageInv'
  <2>1. Sum(ReqLengths(reqs)) = Placed
    BY DEF RecvInv, MessageInv
  <2>2. Sum(ReqLengths(reqs')) = Placed'
    BY <1>2, <1>3, <1>5, <2>1
  <2>3. message'.length > 0
    BY <1>2, <1>4
  <2> QED
    BY <1>2, <1>4, <1>6, <2>2, <2>3 DEF MessageInv
<1>9. WriteInv'
  BY <1>4 DEF WriteInv
<1>10. SendInv'
  BY <1>1, <1>2, <1>3, <1>4, <1>5 DEF SendInv
<1>11. EndsInv'
  BY <1>4 DEF EndsInv
<1> QED
  BY <1>1, <1>7, <1>8, <1>9, <1>10, <1>11 DEF RecvInv

\* The rest of the packet fits into the element.
LEMMA ScatterLastStep ==
    ASSUME RecvInv, ScatterLast
    PROVE  RecvInv'
<1>1. /\ dpu = "running" /\ message.kind = "SEND" /\ rest # None
      /\ recv_wq.now_sge_num < MaxSge /\ NowSge.kind # "end"
      /\ RemainSgeByte >= rest
      /\ PostDmaReq(rest)
      /\ recv_wq' = [recv_wq EXCEPT
           !.now_total_dma_byte = @ + rest,
           !.now_sge_offset = IF AtEnd(rest) THEN 0 ELSE @ + rest,
           !.now_sge_num = IF AtEnd(rest) THEN @ + 1 ELSE @]
      /\ rest' = None
      /\ UNCHANGED <<host, head, tail, ring, dpuRing, dpu, message, messages, sendCnt, cq, wc>>
  BY DEF ScatterLast
<1>2. /\ Meant \in Seq(Nat) /\ Len(Meant) \in Nat /\ Len(Meant) <= HostMaxSge
      /\ message.arrived \in Nat /\ rest \in Nat /\ 0 < rest /\ rest <= message.arrived
      /\ recv_wq \in RecvWq
      /\ CursorAt(recv_wq, Meant, message.arrived - rest)
  BY <1>1, NowSgeFacts
<1>3. /\ RemainSgeByte \in Nat
      /\ recv_wq.now_sge_num < Len(Meant) =>
           /\ NowSge.byte_count = Meant[recv_wq.now_sge_num + 1]
           /\ Meant[recv_wq.now_sge_num + 1] \in Nat
           /\ RemainSgeByte = Meant[recv_wq.now_sge_num + 1] - recv_wq.now_sge_offset
      /\ Len(Meant) <= recv_wq.now_sge_num => RemainSgeByte = 0
  BY <1>1, RemainFacts
<1> DEFINE k == recv_wq.now_sge_num
           offset == recv_wq.now_sge_offset
           total == recv_wq.now_total_dma_byte
           end == AtEnd(rest)
<1>4. k \in Nat /\ offset \in Nat /\ total \in Nat
  BY <1>2 DEF RecvWq
<1>5. k < Len(Meant)
  <2> HIDE DEF k
  <2> QED
    BY <1>1, <1>2, <1>3, <1>4 DEF k
<1>6. /\ end <=> offset + rest = Meant[k + 1]
      /\ offset + rest <= Meant[k + 1]
  <2>1. offset + rest <= Meant[k + 1]
    BY <1>1, <1>2, <1>3, <1>4, <1>5
  <2>2. end <=> offset + rest = Meant[k + 1]
    BY <1>3, <1>5 DEF AtEnd
  <2> QED
    BY <2>1, <2>2
<1>7. /\ recv_wq' \in RecvWq
      /\ recv_wq'.head = recv_wq.head /\ recv_wq'.own_flag = recv_wq.own_flag
      /\ recv_wq'.now_total_dma_byte = total + rest
      /\ recv_wq'.now_sge_offset = IF end THEN 0 ELSE offset + rest
      /\ recv_wq'.now_sge_num = IF end THEN k + 1 ELSE k
  <2> DEFINE o == IF end THEN 0 ELSE offset + rest
             s == IF end THEN k + 1 ELSE k
             b == total + rest
  <2>1. o \in Nat /\ s \in Nat /\ b \in Nat
    BY <1>2, <1>4
  <2>2. recv_wq' = [recv_wq EXCEPT !.now_total_dma_byte = b, !.now_sge_offset = o,
                                   !.now_sge_num = s]
    BY <1>1
  <2> HIDE DEF o, s, b
  <2>3. recv_wq' \in RecvWq
    BY <1>2, <2>1, <2>2 DEF RecvWq
  <2>4. /\ recv_wq'.head = recv_wq.head /\ recv_wq'.own_flag = recv_wq.own_flag
        /\ recv_wq'.now_total_dma_byte = b /\ recv_wq'.now_sge_offset = o
        /\ recv_wq'.now_sge_num = s
    BY <1>2, <2>2 DEF RecvWq
  <2> QED
    BY <2>3, <2>4 DEF o, s, b
<1>8. CursorAt(recv_wq', Meant, message.arrived - rest + rest)
  <2> DEFINE list == Meant
             placed == message.arrived - rest
  <2>1. /\ list \in Seq(Nat) /\ placed \in Nat /\ Len(list) <= HostMaxSge
        /\ CursorAt(recv_wq, list, placed)
        /\ recv_wq.now_sge_num < Len(list)
        /\ recv_wq.now_sge_offset + rest <= list[recv_wq.now_sge_num + 1]
    BY <1>2, <1>5, <1>6
  <2>2. recv_wq'.now_total_dma_byte = recv_wq.now_total_dma_byte + rest
    BY <1>7
  <2>3. IF recv_wq.now_sge_offset + rest = list[recv_wq.now_sge_num + 1]
          THEN recv_wq'.now_sge_offset = 0 /\ recv_wq'.now_sge_num = recv_wq.now_sge_num + 1
          ELSE /\ recv_wq'.now_sge_offset = recv_wq.now_sge_offset + rest
               /\ recv_wq'.now_sge_num = recv_wq.now_sge_num
    BY <1>6, <1>7
  <2> HIDE DEF list, placed
  <2>4. CursorAt(recv_wq', list, placed + rest)
    BY <1>2, <1>7, <2>1, <2>2, <2>3, CursorMoves
  <2> QED
    BY <2>4 DEF list, placed
<1>9. rest' = IF rest = rest THEN None ELSE rest - rest
  BY <1>1
<1>10. rest <= RemainSgeByte /\ rest <= rest
  BY <1>1, <1>2, <1>3
<1> QED
  BY <1>1, <1>2, <1>7, <1>8, <1>9, <1>10, ScatterKeeps

\* The element is filled up, or is empty behind a list of the full length.
LEMMA ScatterMoreStep ==
    ASSUME RecvInv, ScatterMore
    PROVE  RecvInv'
<1> DEFINE n == RemainSgeByte
           k == recv_wq.now_sge_num
           offset == recv_wq.now_sge_offset
           total == recv_wq.now_total_dma_byte
<1>1. /\ dpu = "running" /\ message.kind = "SEND" /\ rest # None
      /\ k < MaxSge /\ NowSge.kind # "end"
      /\ n < rest
      /\ PostDmaReq(n)
      /\ recv_wq' = [recv_wq EXCEPT
           !.now_total_dma_byte = @ + n,
           !.now_sge_offset = 0,
           !.now_sge_num = @ + 1]
      /\ rest' = rest - n
      /\ UNCHANGED <<host, head, tail, ring, dpuRing, dpu, message, messages, sendCnt, cq, wc>>
  BY DEF ScatterMore
<1>2. /\ Meant \in Seq(Nat) /\ Len(Meant) \in Nat /\ Len(Meant) <= HostMaxSge
      /\ message.arrived \in Nat /\ rest \in Nat /\ 0 < rest /\ rest <= message.arrived
      /\ recv_wq \in RecvWq
      /\ CursorAt(recv_wq, Meant, message.arrived - rest)
  BY <1>1, NowSgeFacts
<1>3. /\ n \in Nat
      /\ k < Len(Meant) => Meant[k + 1] \in Nat /\ n = Meant[k + 1] - offset
      /\ Len(Meant) <= k => n = 0 /\ offset = 0 /\ Len(Meant) = HostMaxSge
  BY <1>1, RemainFacts
<1>4. k \in Nat /\ offset \in Nat /\ total \in Nat
  BY <1>2 DEF RecvWq
<1>5. /\ recv_wq' \in RecvWq
      /\ recv_wq'.head = recv_wq.head /\ recv_wq'.own_flag = recv_wq.own_flag
      /\ recv_wq'.now_total_dma_byte = total + n
      /\ recv_wq'.now_sge_offset = 0
      /\ recv_wq'.now_sge_num = k + 1
  <2> DEFINE s == k + 1
             b == total + n
  <2>1. s \in Nat /\ b \in Nat
    <3> HIDE DEF k, total, n
    <3> QED
      BY <1>3, <1>4
  <2>2. recv_wq' = [recv_wq EXCEPT !.now_total_dma_byte = b, !.now_sge_offset = 0,
                                   !.now_sge_num = s]
    BY <1>1
  <2> HIDE DEF s, b
  <2>3. recv_wq' \in RecvWq
    BY <1>2, <2>1, <2>2 DEF RecvWq
  <2>4. /\ recv_wq'.head = recv_wq.head /\ recv_wq'.own_flag = recv_wq.own_flag
        /\ recv_wq'.now_total_dma_byte = b /\ recv_wq'.now_sge_offset = 0
        /\ recv_wq'.now_sge_num = s
    BY <1>2, <2>2 DEF RecvWq
  <2> QED
    BY <2>3, <2>4 DEF s, b
<1>6. CursorAt(recv_wq', Meant, message.arrived - rest + n)
  <2> DEFINE list == Meant
             placed == message.arrived - rest
  <2>1. /\ list \in Seq(Nat) /\ placed \in Nat /\ Len(list) <= HostMaxSge
        /\ Len(list) \in Nat
        /\ CursorAt(recv_wq, list, placed)
    BY <1>2
  <2>2. CASE k < Len(list)
    <3>1. offset + n = list[k + 1]
      <4>1. list[k + 1] \in Nat /\ n = list[k + 1] - offset
        BY <1>3, <2>2
      <4> HIDE DEF n, k, offset, list
      <4> QED
        BY <1>4, <4>1
    <3>2. recv_wq.now_sge_offset + n <= list[recv_wq.now_sge_num + 1]
      <4>1. list[k + 1] \in Nat
        BY <1>3, <2>2
      <4> QED
        BY <3>1, <4>1
    <3>3. recv_wq'.now_total_dma_byte = recv_wq.now_total_dma_byte + n
      BY <1>5
    <3>4. IF recv_wq.now_sge_offset + n = list[recv_wq.now_sge_num + 1]
            THEN recv_wq'.now_sge_offset = 0 /\ recv_wq'.now_sge_num = recv_wq.now_sge_num + 1
            ELSE /\ recv_wq'.now_sge_offset = recv_wq.now_sge_offset + n
                 /\ recv_wq'.now_sge_num = recv_wq.now_sge_num
      BY <1>5, <3>1
    <3>5. recv_wq.now_sge_num < Len(list)
      BY <2>2
    <3> HIDE DEF list, placed, n
    <3> QED
      BY <1>2, <1>3, <1>5, <2>1, <3>2, <3>3, <3>4, <3>5, CursorMoves DEF list, placed
  <2>3. CASE Len(list) <= k
    <3>1. n = 0 /\ Len(list) = HostMaxSge
      BY <1>3, <2>3
    <3>2. total = placed /\ placed = Sum(list)
      BY <2>1, <2>3 DEF CursorAt
    <3>3. /\ recv_wq'.now_sge_num = k + 1 /\ recv_wq'.now_sge_offset = 0
          /\ recv_wq'.now_total_dma_byte = placed
      BY <1>4, <1>5, <3>1, <3>2
    <3>4. MaxSge \in Nat /\ k + 1 <= MaxSge /\ ~(k + 1 < Len(list))
      <4>1. MaxSge \in Nat
        BY Numbers
      <4>2. k < MaxSge
        BY <1>1
      <4>3. Len(list) \in Nat
        BY <2>1
      <4> HIDE DEF k, list
      <4> QED
        BY <1>4, <2>3, <4>1, <4>2, <4>3
    <3>5. placed + n = placed
      BY <2>1, <3>1
    <3> HIDE DEF k, list, placed, n, total
    <3>6. CursorAt(recv_wq', list, placed)
      BY <1>4, <2>1, <3>1, <3>2, <3>3, <3>4 DEF CursorAt
    <3> QED
      BY <3>5, <3>6 DEF list, placed
  <2> QED
    BY <1>4, <2>1, <2>2, <2>3
<1>7. rest' = IF n = rest THEN None ELSE rest - n
  <2> HIDE DEF n
  <2> QED
    BY <1>1, <1>2, <1>3
<1>8. n <= RemainSgeByte /\ n <= rest
  BY <1>1, <1>2, <1>3
<1>9. /\ dpu = "running" /\ message.kind = "SEND" /\ rest # None
      /\ recv_wq.now_sge_num < MaxSge /\ NowSge.kind # "end"
  BY <1>1
<1> HIDE DEF n
<1> QED
  BY <1>1, <1>3, <1>5, <1>6, <1>7, <1>8, <1>9, ScatterKeeps

\* Where the loop ends the process all the list has been filled.
LEMMA ScatterAbortStep ==
    ASSUME RecvInv, ScatterAbort
    PROVE  RecvInv'
<1>1. /\ message.kind = "SEND" /\ rest # None
      /\ recv_wq.now_sge_num < MaxSge => NowSge.kind = "end"
      /\ dpu' = "too long"
      /\ UNCHANGED <<host, head, tail, ring, dpuRing, recv_wq, transfer, sendCnt, cq, wc>>
  BY DEF ScatterAbort
<1>2. /\ Visible' = Visible /\ Meant' = Meant
      /\ Cursors' /\ HostSlots' /\ DpuSlots' /\ CqeInv'
  BY <1>1, RingStays
<1>3. message' = message /\ rest' = rest /\ reqs' = reqs /\ messages' = messages
  BY <1>1 DEF transfer
<1>4. Placed' = Placed
  BY <1>3 DEF Placed
<1>5. MessageInv' /\ WriteInv'
  BY <1>1, <1>3, <1>4 DEF RecvInv, MessageInv, WriteInv
<1>6. SendInv'
  BY <1>1, <1>2, <1>3, <1>4 DEF RecvInv, SendInv
<1>7. TypeOK'
  BY <1>1, <1>3 DEF RecvInv, TypeOK, ring
<1>8. sendCnt < Visible /\ message.length > Sum(Meant)
  <2> DEFINE k == recv_wq.now_sge_num
  <2>1. /\ sendCnt < Visible
        /\ Len(Meant) \in Nat /\ Len(Meant) <= HostMaxSge
        /\ message.arrived \in Nat /\ message.length \in Nat /\ rest \in Nat
        /\ 0 < rest /\ message.arrived <= message.length
        /\ recv_wq \in RecvWq
        /\ CursorAt(recv_wq, Meant, message.arrived - rest)
        /\ k < Len(Meant) => NowSge = Buffer(sendCnt, k, Meant[k + 1])
    BY <1>1, NowSgeFacts
  <2>2. HostMaxSge <= MaxSge /\ HostMaxSge \in Nat /\ MaxSge \in Nat /\ k \in Nat
    BY <2>1, Numbers DEF RecvWq
  <2>3. ~(k < Len(Meant))
    <3> SUFFICES ASSUME k < Len(Meant)
                 PROVE  FALSE
      OBVIOUS
    <3>1. NowSge.kind = "buffer"
      BY <2>1 DEF Buffer
    <3>2. k < MaxSge
      BY <2>1, <2>2
    <3> QED
      BY <1>1, <3>1, <3>2
  <2>4. message.arrived - rest = Sum(Meant)
    BY <2>1, <2>2, <2>3 DEF CursorAt
  <2> QED
    BY <2>1, <2>4
<1>9. EndsInv'
  BY <1>1, <1>2, <1>3, <1>8 DEF EndsInv
<1> QED
  BY <1>2, <1>5, <1>6, <1>7, <1>9 DEF RecvInv

\* A packet of a WRITE goes behind the packets before it.
LEMMA WritePacketStep ==
    ASSUME RecvInv, WritePacket
    PROVE  RecvInv'
<1> DEFINE size == PacketSize
           r == [list |-> None, index |-> 0, offset |-> recv_wq.offset,
                 length |-> size, from |-> message.arrived]
<1>1. /\ dpu = "running" /\ message.kind = "WRITE"
      /\ message.arrived < message.length
      /\ reqs' = Append(reqs, r)
      /\ recv_wq' = [recv_wq EXCEPT !.offset = @ + size, !.resid = @ - size]
      /\ message' = [message EXCEPT !.arrived = @ + size]
      /\ UNCHANGED <<host, head, tail, ring, dpuRing, dpu, rest, messages, sendCnt, cq, wc>>
  BY DEF WritePacket
<1>2. /\ message \in [kind : {"none", "SEND", "WRITE"}, length : Nat, arrived : Nat]
      /\ size \in Nat /\ size > 0
      /\ message.arrived \in Nat /\ message.length \in Nat
      /\ message.arrived + size <= message.length
      /\ reqs \in Seq(DmaReq) /\ Len(reqs) \in Nat
      /\ recv_wq \in RecvWq
  BY <1>1, PacketSizeFacts DEF RecvInv, TypeOK
<1>3. /\ recv_wq.offset \in Nat /\ recv_wq.resid \in Int
      /\ recv_wq.offset = message.arrived
      /\ recv_wq.resid = message.length - message.arrived
      /\ \A i \in 1 .. Len(reqs) : reqs[i].offset = reqs[i].from
  BY <1>1, <1>2 DEF RecvInv, WriteInv, RecvWq
<1>4. r \in DmaReq
  BY <1>2, <1>3 DEF DmaReq
<1>5. r.length = size /\ r.offset = r.from
  BY <1>3
<1> HIDE DEF size, r
<1>6. /\ recv_wq' \in RecvWq
      /\ recv_wq'.head = recv_wq.head /\ recv_wq'.own_flag = recv_wq.own_flag
      /\ CursorAtStart(recv_wq')
      /\ recv_wq'.offset = recv_wq.offset + size
      /\ recv_wq'.resid = recv_wq.resid - size
  <2> DEFINE o == recv_wq.offset + size
             d == recv_wq.resid - size
  <2>1. o \in Nat /\ d \in Int
    BY <1>2, <1>3
  <2>2. recv_wq' = [recv_wq EXCEPT !.offset = o, !.resid = d]
    BY <1>1
  <2>3. CursorAtStart(recv_wq)
    BY <1>1 DEF RecvInv, SendInv
  <2> HIDE DEF o, d
  <2>4. recv_wq' \in RecvWq
    BY <1>2, <2>1, <2>2 DEF RecvWq
  <2>5. /\ recv_wq'.head = recv_wq.head /\ recv_wq'.own_flag = recv_wq.own_flag
        /\ recv_wq'.now_sge_num = recv_wq.now_sge_num
        /\ recv_wq'.now_sge_offset = recv_wq.now_sge_offset
        /\ recv_wq'.now_total_dma_byte = recv_wq.now_total_dma_byte
        /\ recv_wq'.offset = o /\ recv_wq'.resid = d
    BY <1>2, <2>2 DEF RecvWq
  <2> QED
    BY <2>3, <2>4, <2>5 DEF o, d, CursorAtStart
<1>7. /\ message' \in [kind : {"none", "SEND", "WRITE"}, length : Nat, arrived : Nat]
      /\ message'.kind = "WRITE" /\ message'.length = message.length
      /\ message'.arrived = message.arrived + size
  BY <1>1, <1>2
<1>8. Cursors' /\ HostSlots' /\ DpuSlots' /\ CqeInv'
  BY <1>1, <1>6, RingStays
<1>9. /\ reqs' \in Seq(DmaReq) /\ Len(reqs') = Len(reqs) + 1
      /\ \A i \in 1 .. Len(reqs) : reqs'[i] = reqs[i]
      /\ reqs'[Len(reqs) + 1] = r
  BY <1>1, <1>2, <1>4, AppendProperties
<1>10. TypeOK'
  BY <1>1, <1>6, <1>7, <1>9 DEF RecvInv, TypeOK, ring
<1>11. MessageInv'
  <2>1. rest = None /\ rest' = None
    BY <1>1 DEF RecvInv, MessageInv
  <2>2. Placed = message.arrived /\ Placed' = message'.arrived
    BY <2>1 DEF Placed
  <2>3. Sum(ReqLengths(reqs)) = message.arrived
    BY <1>1, <2>2 DEF RecvInv, MessageInv
  <2>4. Sum(ReqLengths(reqs')) = message.arrived + size
    BY <1>1, <1>2, <1>4, <1>5, <2>3, ReqBytes
  <2> QED
    BY <1>2, <1>7, <2>1, <2>2, <2>4 DEF MessageInv
<1>12. SendInv'
  BY <1>6, <1>7 DEF SendInv
<1>13. WriteInv'
  <2>1. ASSUME NEW i \in 1 .. Len(reqs')
        PROVE  reqs'[i].offset = reqs'[i].from
    <3>1. i \in 1 .. Len(reqs) \/ i = Len(reqs) + 1
      BY <1>2, <1>9
    <3> QED
      BY <1>3, <1>5, <1>9, <3>1
  <2>2. /\ recv_wq'.offset = message'.arrived
        /\ recv_wq'.resid = message'.length - message'.arrived
    BY <1>2, <1>3, <1>6, <1>7
  <2> QED
    BY <2>1, <2>2 DEF WriteInv
<1>14. EndsInv'
  BY <1>1 DEF EndsInv
<1> QED
  BY <1>8, <1>10, <1>11, <1>12, <1>13, <1>14 DEF RecvInv

\* The CQE names the slot of the list that was filled; the next list is taken
\* from its start.
LEMMA EndSendStep ==
    ASSUME RecvInv, EndSend
    PROVE  RecvInv'
<1> DEFINE cqe == [wqe_counter |-> recv_wq.head,
                   byte_count |-> recv_wq.now_total_dma_byte,
                   number |-> sendCnt, length |-> message.length]
<1>0. /\ N \in Nat /\ N > 0
      /\ head \in Nat /\ tail \in Nat /\ sendCnt \in Nat /\ Len(cq) \in Nat
      /\ Visible \in Nat
      /\ tail + Len(cq) = sendCnt
      /\ recv_wq.head = sendCnt % N /\ recv_wq.own_flag = TurnBit(sendCnt, N)
  BY Numbers DEF RecvInv, Cursors
<1>1. /\ dpu = "running" /\ message.kind = "SEND" /\ rest = None
      /\ message.arrived = message.length
      /\ cq' = Append(cq, cqe)
      /\ recv_wq' = StepWq(recv_wq)
      /\ sendCnt' = sendCnt + 1
      /\ message' = NoMessage
      /\ UNCHANGED <<host, head, tail, ring, dpuRing, dpu, rest, reqs, messages, wc>>
  BY DEF EndSend
<1>2. /\ recv_wq \in RecvWq /\ cq \in Seq(Cqe) /\ message.length \in Nat
  BY DEF RecvInv, TypeOK
<1>3. /\ sendCnt < Visible
      /\ recv_wq.now_total_dma_byte = message.length
  <2>1. message.length > 0
    BY <1>1 DEF RecvInv, MessageInv
  <2>2. sendCnt < Visible /\ CursorAt(recv_wq, Meant, Placed)
    BY <1>1, <2>1 DEF RecvInv, SendInv
  <2>3. Placed = message.length
    BY <1>1 DEF Placed
  <2> QED
    BY <2>2, <2>3 DEF CursorAt
<1>4. /\ TurnBit(sendCnt + 1, N) = IF (sendCnt % N) + 1 = N
                                     THEN 1 - TurnBit(sendCnt, N) ELSE TurnBit(sendCnt, N)
      /\ TurnBit(sendCnt, N) \in {0, 1}
      /\ (sendCnt + 1) % N = NextSlot(sendCnt % N)
      /\ sendCnt % N \in Slot
  BY <1>0, SlotFacts
<1>5. NextSlot(recv_wq.head) \in Slot
  <2>1. sendCnt + 1 \in Nat
    BY <1>0
  <2>2. (sendCnt + 1) % N \in Slot
    BY <2>1, SlotFacts
  <2> QED
    BY <1>0, <1>4, <2>2
<1>6. /\ recv_wq' \in RecvWq
      /\ recv_wq'.head = (sendCnt + 1) % N
      /\ recv_wq'.own_flag = TurnBit(sendCnt + 1, N)
      /\ CursorAtStart(recv_wq')
  <2> DEFINE wq == CursorsReset(recv_wq)
             h == NextSlot(recv_wq.head)
             o == IF recv_wq.head + 1 = N THEN 1 - recv_wq.own_flag ELSE recv_wq.own_flag
  <2>1. /\ wq \in RecvWq
        /\ wq.head = recv_wq.head /\ wq.own_flag = recv_wq.own_flag
        /\ CursorAtStart(wq)
    BY <1>2 DEF CursorsReset, RecvWq, CursorAtStart
  <2> HIDE DEF wq
  <2>2. recv_wq' = [wq EXCEPT !.head = h, !.own_flag = o]
    BY <1>1, <2>1 DEF StepWq, wq
  <2>3. h = (sendCnt + 1) % N /\ o = TurnBit(sendCnt + 1, N)
    BY <1>0, <1>4
  <2>4. h \in Slot /\ o \in {0, 1}
    BY <1>0, <1>4, <1>5
  <2> HIDE DEF h, o
  <2>5. recv_wq' \in RecvWq
    BY <2>1, <2>2, <2>4 DEF RecvWq
  <2>6. /\ recv_wq'.head = h /\ recv_wq'.own_flag = o
        /\ recv_wq'.now_sge_num = wq.now_sge_num
        /\ recv_wq'.now_sge_offset = wq.now_sge_offset
        /\ recv_wq'.now_total_dma_byte = wq.now_total_dma_byte
    BY <2>1, <2>2 DEF RecvWq
  <2> QED
    BY <2>1, <2>3, <2>5, <2>6 DEF CursorAtStart
<1>7. cqe \in Cqe
  BY <1>0, <1>2, <1>3, <1>4 DEF Cqe
<1>8. /\ cqe.wqe_counter = sendCnt % N /\ cqe.number = sendCnt
      /\ cqe.byte_count = cqe.length
  BY <1>0, <1>3
<1> HIDE DEF cqe
<1>9. /\ cq' \in Seq(Cqe) /\ Len(cq') = Len(cq) + 1
      /\ \A i \in 1 .. Len(cq) : cq'[i] = cq[i]
      /\ cq'[Len(cq) + 1] = cqe
  BY <1>1, <1>2, <1>7, AppendProperties
<1>10. Visible' = Visible /\ lists' = lists /\ copying' = copying
  BY <1>1 DEF Visible, ring
<1>11. TypeOK'
  <2>1. sendCnt' \in Nat
    BY <1>0, <1>1
  <2>2. message' \in [kind : {"none", "SEND", "WRITE"}, length : Nat, arrived : Nat]
    BY <1>1 DEF NoMessage
  <2> QED
    BY <1>1, <1>6, <1>9, <2>1, <2>2 DEF RecvInv, TypeOK, ring
<1>12. Cursors'
  <2>1. /\ head' = head /\ tail' = tail /\ ownFlag' = ownFlag
    BY <1>1 DEF ring
  <2>2. tail' + Len(cq') = sendCnt' /\ sendCnt' <= Visible'
    BY <1>0, <1>1, <1>3, <1>9, <1>10
  <2>3. recv_wq'.head = sendCnt' % N /\ recv_wq'.own_flag = TurnBit(sendCnt', N)
    BY <1>1, <1>6
  <2> QED
    BY <1>10, <2>1, <2>2, <2>3 DEF RecvInv, Cursors
<1>13. HostSlots' /\ DpuSlots'
  BY <1>1, <1>10 DEF RecvInv, HostSlots, DpuSlots, ring
<1>14. MessageInv' /\ WriteInv'
  BY <1>1 DEF MessageInv, WriteInv, NoMessage
<1>15. SendInv'
  BY <1>1, <1>6 DEF SendInv, NoMessage
<1>16. CqeInv'
  <2>1. ASSUME NEW i \in 1 .. Len(cq')
        PROVE  /\ cq'[i].wqe_counter = (tail' + i - 1) % N
               /\ cq'[i].number = tail' + i - 1
               /\ cq'[i].byte_count = cq'[i].length
    <3>1. i \in 1 .. Len(cq) \/ i = Len(cq) + 1
      BY <1>0, <1>9
    <3>2. CASE i \in 1 .. Len(cq)
      BY <1>1, <1>9, <3>2 DEF RecvInv, CqeInv
    <3>3. CASE i = Len(cq) + 1
      <4>1. tail' + i - 1 = sendCnt
        BY <1>0, <1>1, <3>3
      <4> QED
        BY <1>8, <1>9, <3>3, <4>1
    <3> QED
      BY <3>1, <3>2, <3>3
  <2>2. RecvWcExact'
    BY <1>1 DEF RecvInv, CqeInv, RecvWcExact
  <2> QED
    BY <2>1, <2>2 DEF CqeInv
<1>17. EndsInv'
  BY <1>1 DEF EndsInv
<1> QED
  BY <1>11, <1>12, <1>13, <1>14, <1>15, <1>16, <1>17 DEF RecvInv

LEMMA EndWriteStep ==
    ASSUME RecvInv, EndWrite
    PROVE  RecvInv'
<1>1. /\ dpu = "running" /\ message.kind = "WRITE"
      /\ message' = NoMessage
      /\ UNCHANGED <<host, head, tail, ring, dpuRing, dpu, recv_wq, rest, reqs, messages,
                     sendCnt, cq, wc>>
  BY DEF EndWrite
<1>2. Cursors' /\ HostSlots' /\ DpuSlots' /\ CqeInv'
  BY <1>1, RingStays
<1>3. rest = None /\ CursorAtStart(recv_wq)
  BY <1>1 DEF RecvInv, MessageInv, SendInv
<1>4. TypeOK'
  <2>1. message' \in [kind : {"none", "SEND", "WRITE"}, length : Nat, arrived : Nat]
    BY <1>1 DEF NoMessage
  <2> QED
    BY <1>1, <2>1 DEF RecvInv, TypeOK, ring
<1>5. MessageInv' /\ SendInv' /\ WriteInv' /\ EndsInv'
  BY <1>1, <1>3 DEF MessageInv, SendInv, WriteInv, EndsInv, NoMessage
<1> QED
  BY <1>2, <1>4, <1>5 DEF RecvInv

\* The slot a CQE names still has the wr_id: it is of one of the last N
\* receives.
LEMMA PollCqStep ==
    ASSUME RecvInv, PollCq
    PROVE  RecvInv'
<1>0. /\ N \in Nat /\ N > 0
      /\ head \in Nat /\ tail \in Nat /\ sendCnt \in Nat /\ Len(cq) \in Nat
      /\ Len(lists) \in Nat /\ Visible \in Nat /\ Visible <= Len(lists)
      /\ head = Len(lists) /\ Len(lists) - N <= tail /\ sendCnt <= Visible
      /\ tail + Len(cq) = sendCnt
  BY Numbers DEF RecvInv, Cursors
<1>1. /\ cq # <<>>
      /\ wc' = [wr_id |-> wrid[Head(cq).wqe_counter % N], byte_len |-> Head(cq).byte_count,
                number |-> Head(cq).number, length |-> Head(cq).length]
      /\ tail' = tail + 1
      /\ cq' = Tail(cq)
      /\ UNCHANGED <<host, head, ring, dpuRing, dpu, recv_wq, transfer, sendCnt>>
  BY DEF PollCq
<1>2. cq \in Seq(Cqe)
  BY DEF RecvInv, TypeOK
<1>3. /\ Len(cq) >= 1 /\ Head(cq) = cq[1] /\ Head(cq) \in Cqe
      /\ cq' \in Seq(Cqe) /\ Len(cq') = Len(cq) - 1
      /\ \A i \in 1 .. Len(cq') : cq'[i] = cq[i + 1]
  <2>1. Len(cq) >= 1 /\ Head(cq) = cq[1]
    BY <1>0, <1>1, <1>2, EmptySeq
  <2>2. Head(cq) \in Cqe
    BY <1>0, <1>2, <2>1
  <2> QED
    BY <1>1, <1>2, <2>1, <2>2, HeadTailProperties
<1>4. \A i \in 1 .. Len(cq) :
        /\ cq[i].wqe_counter = (tail + i - 1) % N
        /\ cq[i].number = tail + i - 1
        /\ cq[i].byte_count = cq[i].length
  BY DEF RecvInv, CqeInv
<1>5. /\ Head(cq).wqe_counter = tail % N /\ Head(cq).number = tail
      /\ Head(cq).byte_count = Head(cq).length
      /\ Head(cq).byte_count \in Nat /\ Head(cq).length \in Nat
  <2>1. 1 \in 1 .. Len(cq) /\ tail + 1 - 1 = tail
    BY <1>0, <1>3
  <2> QED
    BY <1>3, <1>4, <2>1 DEF Cqe
<1>6. wrid[Head(cq).wqe_counter % N] = tail
  <2>1. tail \in 0 .. Len(lists) - 1 /\ Len(lists) - N <= tail
    BY <1>0, <1>3
  <2>2. wrid[tail % N] = tail
    BY <2>1 DEF RecvInv, HostSlots
  <2>3. (tail % N) % N = tail % N
    <3>1. tail % N \in 0 .. N - 1
      BY <1>0, SlotAndTurn
    <3> QED
      BY <1>0, <3>1, SlotFirstTurn
  <2> QED
    BY <1>5, <2>2, <2>3
<1>7. /\ wc' = [wr_id |-> tail, byte_len |-> Head(cq).length, number |-> tail,
                length |-> Head(cq).length]
  BY <1>1, <1>5, <1>6
<1>8. Visible' = Visible /\ Meant' = Meant
  BY <1>1 DEF Visible, Meant, ring
<1>9. MessageInv' /\ SendInv' /\ WriteInv'
  BY <1>0, <1>1, <1>8, TransferStays
<1>10. EndsInv'
  BY <1>1, <1>8 DEF RecvInv, EndsInv, transfer
<1>11. HostSlots' /\ DpuSlots'
  BY <1>1, <1>8 DEF RecvInv, HostSlots, DpuSlots, ring
<1>12. TypeOK'
  <2>1. tail' \in Nat
    BY <1>0, <1>1
  <2>2. wc' \in [wr_id : Nat \cup {None}, byte_len : Nat, number : Nat \cup {None},
                 length : Nat]
    BY <1>0, <1>5, <1>7
  <2> QED
    BY <1>1, <1>3, <2>1, <2>2 DEF RecvInv, TypeOK, ring, transfer
<1>13. Cursors'
  <2>1. /\ head' = head /\ ownFlag' = ownFlag /\ lists' = lists /\ copying' = copying
        /\ recv_wq' = recv_wq /\ sendCnt' = sendCnt
    BY <1>1 DEF ring
  <2>2. tail' + Len(cq') = sendCnt' /\ sendCnt' <= Visible' /\ head' - tail' <= N
    BY <1>0, <1>1, <1>3, <1>8, <2>1
  <2> QED
    BY <1>8, <2>1, <2>2 DEF RecvInv, Cursors
<1>14. CqeInv'
  <2>1. ASSUME NEW i \in 1 .. Len(cq')
        PROVE  /\ cq'[i].wqe_counter = (tail' + i - 1) % N
               /\ cq'[i].number = tail' + i - 1
               /\ cq'[i].byte_count = cq'[i].length
    <3>1. i + 1 \in 1 .. Len(cq) /\ tail + (i + 1) - 1 = tail' + i - 1
      BY <1>0, <1>1, <1>3
    <3>2. cq'[i] = cq[i + 1]
      BY <1>3
    <3> QED
      BY <1>4, <3>1, <3>2
  <2>2. RecvWcExact'
    BY <1>7 DEF RecvWcExact
  <2> QED
    BY <2>1, <2>2 DEF CqeInv
<1> QED
  BY <1>9, <1>10, <1>11, <1>12, <1>13, <1>14 DEF RecvInv

LEMMA RecvInvStep ==
    RecvInv /\ [Next]_vars => RecvInv'
<1> SUFFICES ASSUME RecvInv, [Next]_vars
             PROVE  RecvInv'
  OBVIOUS
<1>1. CASE PostFull
  <2>1. host' \in {"running", "full"}
    BY <1>1 DEF PostFull
  <2>2. UNCHANGED <<head, tail, ring, dpuRing, dpu, recv_wq, transfer, sendCnt, cq, wc>>
    BY <1>1 DEF PostFull
  <2> QED
    BY <2>1, <2>2, OnlyHostStep
<1>2. CASE \E list \in Lists : PostRecv(list)
  BY <1>2, PostRecvStep
<1>3. CASE DmaCopy
  BY <1>3, DmaCopyStep
<1>4. CASE \E kind \in {"SEND", "WRITE"}, length \in Lengths : BeginMessage(kind, length)
  BY <1>4, BeginMessageStep
<1>5. CASE SendPacket
  BY <1>5, SendPacketStep
<1>6. CASE ScatterLast
  BY <1>6, ScatterLastStep
<1>7. CASE ScatterMore
  BY <1>7, ScatterMoreStep
<1>8. CASE ScatterAbort
  BY <1>8, ScatterAbortStep
<1>9. CASE WritePacket
  BY <1>9, WritePacketStep
<1>10. CASE EndSend
  BY <1>10, EndSendStep
<1>11. CASE EndWrite
  BY <1>11, EndWriteStep
<1>12. CASE PollCq
  BY <1>12, PollCqStep
<1>13. CASE UNCHANGED vars
  <2>1. UNCHANGED <<head, tail, ring, dpuRing, dpu, recv_wq, transfer, sendCnt, cq, wc>>
    BY <1>13 DEF vars
  <2>2. host' \in {"running", "full"}
    BY <1>13 DEF vars, RecvInv, TypeOK
  <2> QED
    BY <2>1, <2>2, OnlyHostStep
<1> QED
  BY <1>1, <1>2, <1>3, <1>4, <1>5, <1>6, <1>7, <1>8, <1>9, <1>10, <1>11, <1>12, <1>13
     DEF Next

-----------------------------------------------------------------------------
(* The theorems *)

\* The inductive invariant of the receive side, for every ring, scatter list,
\* packet size and message length.
THEOREM RecvInvariance ==
    Spec => []RecvInv
<1>1. Init => RecvInv
  BY InitRecvInv
<1>2. RecvInv /\ [Next]_vars => RecvInv'
  BY RecvInvStep
<1> QED
  BY <1>1, <1>2, PTL DEF Spec

\* Every variable of smartns_post_recv, the receive WQ and the CQ keeps its
\* type: resid and now_sge_offset never leave their lists.
THEOREM RecvTypeCorrect ==
    Spec => []TypeOK
<1>1. RecvInv => TypeOK
  BY DEF RecvInv
<1> QED
  BY <1>1, RecvInvariance, PTL

\* Every byte received is placed once, at its place in its own scatter list or
\* region, however packets and elements cut the message
\* (dma_send_payload_to_host, dma_write_payload_to_host).
THEOREM PlacedCorrect ==
    Spec => []PlacedExactly
<1>1. ASSUME RecvInv
      PROVE  PlacedExactly
  <2>1. ASSUME message.kind = "SEND", NEW i \in 1 .. Len(reqs), reqs[i].length > 0
        PROVE  /\ reqs[i].list = sendCnt
               /\ reqs[i].offset + reqs[i].length <= Meant[reqs[i].index + 1]
               /\ reqs[i].from = SumTo(Meant)[reqs[i].index] + reqs[i].offset
    <3>1. message.arrived \in Nat
      BY <1>1 DEF RecvInv, TypeOK
    <3>2. CASE message.arrived > 0
      <4>1. Fits(reqs[i], sendCnt, Meant)
        BY <1>1, <2>1, <3>2 DEF RecvInv, SendInv
      <4> QED
        BY <2>1, <4>1 DEF Fits
    <3>3. CASE message.arrived = 0
      <4>1. Len(reqs) = 0
        BY <1>1, <2>1, <3>3 DEF RecvInv, SendInv
      <4> QED
        BY <4>1
    <3> QED
      BY <3>1, <3>2, <3>3
  <2>2. message.kind = "WRITE" =>
          /\ \A i \in 1 .. Len(reqs) : reqs[i].offset = reqs[i].from
          /\ recv_wq.resid = message.length - message.arrived
    BY <1>1 DEF RecvInv, WriteInv
  <2>3. message # NoMessage /\ rest = None =>
          Sum([i \in 1 .. Len(reqs) |-> reqs[i].length]) = message.arrived
    BY <1>1 DEF RecvInv, MessageInv, Placed, ReqLengths
  <2> QED
    BY <2>1, <2>2, <2>3 DEF PlacedExactly
<1> QED
  BY <1>1, RecvInvariance, PTL

\* A work completion has the wr_id of the receive that was filled, and the
\* length of the message (smartns_poll_cq).
THEOREM RecvWcCorrect ==
    Spec => []RecvWcExact
<1>1. RecvInv => RecvWcExact
  BY DEF RecvInv, CqeInv
<1> QED
  BY <1>1, RecvInvariance, PTL

\* The process only ends for want of a receive, or for a message longer than
\* the list it takes.
THEOREM EndsJustifiedCorrect ==
    Spec => []EndsJustified
<1>1. RecvInv => EndsJustified
  BY DEF RecvInv, EndsInv, EndsJustified, Visible
<1> QED
  BY <1>1, RecvInvariance, PTL
=============================================================================
