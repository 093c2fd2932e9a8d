-------------------------- MODULE RcTransport_proofs --------------------------
(***************************************************************************)
(* The reliable-connection transport of RcTransport delivers every         *)
(* fragment once and in order, and completes a work request only when it   *)
(* is delivered, for all workloads, windows, rings and numbers of faults,  *)
(* as long as no packet lives for half the circle of sequence numbers.     *)
(***************************************************************************)
EXTENDS RcTransport, RingArith, FiniteSetTheorems

(* Serial arithmetic: psn_compare tells the distance of two packet sequence
   numbers exactly as long as they are less than half the circle apart. *)

\* The circle has two halves.
LEMMA HalfCircle ==
    /\ PsnMod \in Nat /\ PsnMod > 1
    /\ PsnMod \div 2 \in Nat
    /\ PsnMod = 2 * (PsnMod \div 2)
<1>1. PsnMod \in Nat /\ PsnMod > 1 /\ PsnMod % 2 = 0
  BY PsnModAssumption
<1>2. PsnMod = 2 * (PsnMod \div 2) + (PsnMod % 2) /\ PsnMod \div 2 \in Int
  BY <1>1, SlotAndTurn
<1> QED
  BY <1>1, <1>2

\* A masked sum is a PSN ((psn + 1) & BTH_PSN_MASK).
LEMMA PsnAddType ==
    ASSUME NEW a \in Int, NEW n \in Int
    PROVE  PsnAdd(a, n) \in PSN
<1>1. a + n \in Int
  OBVIOUS
<1> QED
  BY <1>1, HalfCircle, SlotAndTurn DEF PsnAdd, PSN

\* Subtracting a PSN again leaves the distance modulo the circle.
LEMMA PsnDifference ==
    ASSUME NEW a \in Int, NEW k \in Int
    PROVE  (PsnAdd(a, k) - a) % PsnMod = k % PsnMod
<1> DEFINE q == (a + k) \div PsnMod
           r == (a + k) % PsnMod
           t == k \div PsnMod
           u == k % PsnMod
<1>0. PsnMod \in Nat /\ PsnMod > 0
  BY HalfCircle
<1>1. q \in Int /\ r \in 0 .. PsnMod - 1 /\ a + k = PsnMod * q + r
  BY <1>0, SlotAndTurn
<1>2. t \in Int /\ u \in 0 .. PsnMod - 1 /\ k = PsnMod * t + u
  BY <1>0, SlotAndTurn
<1>3. PsnAdd(a, k) = r
  BY DEF PsnAdd
<1> HIDE DEF q, r, t, u
<1>4. r - a = PsnMod * (t - q) + u
  BY <1>0, <1>1, <1>2
<1>5. t - q \in Int /\ r - a \in Int
  BY <1>1, <1>2
<1>6. (r - a) % PsnMod = u
  BY <1>0, <1>2, <1>4, <1>5, SlotAndTurnUnique
<1> QED
  BY <1>3, <1>6 DEF u

\* psn_compare of a PSN k after (or, k negative, before) another one gives k,
\* also across the wrap-around, for every k of less than half the circle.  This
\* is why the send window must stay below half the circle (SequenceOrder).
THEOREM PsnCompareExact ==
    ASSUME NEW a \in PSN, NEW k \in Int,
           -(PsnMod \div 2) <= k, k < PsnMod \div 2
    PROVE  PsnCompare(PsnAdd(a, k), a) = k
<1> DEFINE h == PsnMod \div 2
           d == (PsnAdd(a, k) - a) % PsnMod
<1>0. PsnMod \in Nat /\ PsnMod > 0 /\ h \in Nat /\ PsnMod = 2 * h
  BY HalfCircle
<1>1. d = k % PsnMod
  <2>1. a \in Int
    BY <1>0 DEF PSN
  <2> QED
    BY <2>1, PsnDifference
<1>2. PsnCompare(PsnAdd(a, k), a) = IF d < h THEN d ELSE d - PsnMod
  BY DEF PsnCompare
<1> HIDE DEF d
<1>3. CASE k >= 0
  <2>1. k \in 0 .. PsnMod - 1
    BY <1>0, <1>3
  <2>2. k % PsnMod = k
    BY <1>0, <2>1, SlotFirstTurn
  <2> QED
    BY <1>1, <1>2, <2>2
<1>4. CASE k < 0
  <2>1. k + PsnMod \in 0 .. PsnMod - 1 /\ k = PsnMod * (-1) + (k + PsnMod)
    BY <1>0, <1>4
  <2>2. k % PsnMod = k + PsnMod
    BY <1>0, <2>1, SlotAndTurnUnique
  <2>3. ~(k + PsnMod < h)
    BY <1>0
  <2> QED
    BY <1>0, <1>1, <1>2, <2>2, <2>3
<1> QED
  BY <1>3, <1>4

\* Remainders may be taken before or after a sum.
LEMMA SumOfRemainders ==
    ASSUME NEW x \in Int, NEW y \in Int, NEW k \in Int
    PROVE  ((x % PsnMod) - ((y % PsnMod) + k)) % PsnMod = (x - y - k) % PsnMod
<1> DEFINE qx == x \div PsnMod
           qy == y \div PsnMod
           rx == x % PsnMod
           ry == y % PsnMod
           q == (x - y - k) \div PsnMod
           r == (x - y - k) % PsnMod
<1>0. PsnMod \in Nat /\ PsnMod > 0
  BY HalfCircle
<1>1. qx \in Int /\ rx \in 0 .. PsnMod - 1 /\ x = PsnMod * qx + rx
  BY <1>0, SlotAndTurn
<1>2. qy \in Int /\ ry \in 0 .. PsnMod - 1 /\ y = PsnMod * qy + ry
  BY <1>0, SlotAndTurn
<1>3. q \in Int /\ r \in 0 .. PsnMod - 1 /\ x - y - k = PsnMod * q + r
  <2>1. x - y - k \in Int
    OBVIOUS
  <2> QED
    BY <1>0, <2>1, SlotAndTurn
<1> HIDE DEF qx, qy, rx, ry, q, r
<1>4. q - qx + qy \in Int /\ rx - (ry + k) = PsnMod * (q - qx + qy) + r
  <2>1. PsnMod * (q - qx + qy) = PsnMod * q - PsnMod * qx + PsnMod * qy
    BY <1>0, <1>1, <1>2, <1>3
  <2> QED
    BY <1>0, <1>1, <1>2, <1>3, <2>1
<1>5. rx - (ry + k) \in Int
  BY <1>1, <1>2
<1>6. (rx - (ry + k)) % PsnMod = r
  BY <1>0, <1>3, <1>4, <1>5, SlotAndTurnUnique
<1> QED
  BY <1>6 DEF rx, ry, r

\* psn_compare of two PSNs cut from numbers less than half the circle apart is
\* the difference of the numbers; the second may have a window added to it.
LEMMA PsnCompareNumbers ==
    ASSUME NEW x \in Nat, NEW y \in Nat, NEW k \in Nat,
           -(PsnMod \div 2) <= x - y - k, x - y - k < PsnMod \div 2
    PROVE  PsnCompare(x % PsnMod, (y % PsnMod) + k) = x - y - k
<1> DEFINE h == PsnMod \div 2
           z == x - y - k
           d == z % PsnMod
<1>0. PsnMod \in Nat /\ PsnMod > 0 /\ h \in Nat /\ PsnMod = 2 * h
  BY HalfCircle
<1>1. z \in Int /\ -h <= z /\ z < h
  OBVIOUS
<1>2. ((x % PsnMod) - ((y % PsnMod) + k)) % PsnMod = d
  BY SumOfRemainders
<1>3. PsnCompare(x % PsnMod, (y % PsnMod) + k) = IF d < h THEN d ELSE d - PsnMod
  BY <1>2 DEF PsnCompare
<1> HIDE DEF z
<1>4. CASE z >= 0
  <2>1. z \in 0 .. PsnMod - 1
    BY <1>0, <1>1, <1>4
  <2>2. d = z
    BY <1>0, <2>1, SlotFirstTurn
  <2> QED
    BY <1>1, <1>3, <2>2 DEF z
<1>5. CASE z < 0
  <2>1. z + PsnMod \in 0 .. PsnMod - 1 /\ z = PsnMod * (-1) + (z + PsnMod)
    BY <1>0, <1>1, <1>5
  <2>2. d = z + PsnMod
    BY <1>0, <1>1, <2>1, SlotAndTurnUnique
  <2>3. ~(z + PsnMod < h)
    BY <1>0, <1>1
  <2> QED
    BY <1>0, <1>1, <1>3, <2>2, <2>3 DEF z
<1> QED
  BY <1>1, <1>4, <1>5

\* The same without a window.
LEMMA PsnCompareTwo ==
    ASSUME NEW x \in Nat, NEW y \in Nat,
           -(PsnMod \div 2) <= x - y, x - y < PsnMod \div 2
    PROVE  PsnCompare(x % PsnMod, y % PsnMod) = x - y
<1>1. PsnCompare(x % PsnMod, (y % PsnMod) + 0) = x - y - 0
  BY PsnCompareNumbers
<1>2. y % PsnMod \in Int
  BY HalfCircle, SlotAndTurn
<1> QED
  BY <1>1, <1>2

\* Numbers less than a circle apart that psn_compare finds equal are equal.
LEMMA PsnCompareZero ==
    ASSUME NEW x \in Nat, NEW y \in Nat, x - y < PsnMod, y - x < PsnMod,
           PsnCompare(x % PsnMod, y % PsnMod) = 0
    PROVE  x = y
<1> DEFINE h == PsnMod \div 2
           d == ((x % PsnMod) - (y % PsnMod)) % PsnMod
<1>0. PsnMod \in Nat /\ PsnMod > 0 /\ h \in Nat /\ PsnMod = 2 * h
  BY HalfCircle
<1>1. x % PsnMod \in 0 .. PsnMod - 1 /\ y % PsnMod \in 0 .. PsnMod - 1
  BY <1>0, SlotAndTurn
<1>2. d \in 0 .. PsnMod - 1
  <2>1. (x % PsnMod) - (y % PsnMod) \in Int
    BY <1>1
  <2> QED
    BY <1>0, <2>1, SlotAndTurn
<1>3. (IF d < h THEN d ELSE d - PsnMod) = 0
  BY DEF PsnCompare
<1>4. d = 0
  <2> HIDE DEF d, h
  <2> QED
    BY <1>0, <1>2, <1>3
<1>5. (x - y - 0) % PsnMod = 0
  <2>1. ((x % PsnMod) - ((y % PsnMod) + 0)) % PsnMod = (x - y - 0) % PsnMod
    BY SumOfRemainders
  <2>2. (y % PsnMod) + 0 = y % PsnMod
    BY <1>1
  <2> QED
    BY <1>4, <2>1, <2>2
<1>6. PICK q \in Int : x - y = PsnMod * q
  <2> DEFINE z == x - y - 0
             t == z \div PsnMod
             u == z % PsnMod
  <2>1. z \in Int /\ z = x - y
    OBVIOUS
  <2>2. z = PsnMod * t + u /\ t \in Int
    BY <1>0, <2>1, SlotAndTurn
  <2>3. u = 0
    BY <1>5
  <2> HIDE DEF z, t, u
  <2>4. x - y = PsnMod * t
    BY <1>0, <2>1, <2>2, <2>3
  <2> QED
    BY <2>2, <2>4
<1>7. -PsnMod < PsnMod * q /\ PsnMod * q < PsnMod
  BY <1>0, <1>6
<1>8. q = 0
  BY <1>0, <1>7, SmallMultiple
<1> QED
  BY <1>0, <1>6, <1>8

\* The PSN a number of packets after, or one before, another one.
LEMMA PsnAddNumber ==
    ASSUME NEW x \in Nat, NEW k \in Int
    PROVE  PsnAdd(x % PsnMod, k) = (x + k) % PsnMod
<1> DEFINE q == x \div PsnMod
           r == x % PsnMod
           t == (x + k) \div PsnMod
           u == (x + k) % PsnMod
<1>0. PsnMod \in Nat /\ PsnMod > 0
  BY HalfCircle
<1>1. q \in Int /\ r \in 0 .. PsnMod - 1 /\ x = PsnMod * q + r
  BY <1>0, SlotAndTurn
<1>2. t \in Int /\ u \in 0 .. PsnMod - 1 /\ x + k = PsnMod * t + u
  BY <1>0, SlotAndTurn
<1> HIDE DEF q, r, t, u
<1>3. t - q \in Int /\ r + k \in Int /\ r + k = PsnMod * (t - q) + u
  <2>1. PsnMod * (t - q) = PsnMod * t - PsnMod * q
    BY <1>0, <1>1, <1>2
  <2> QED
    BY <1>0, <1>1, <1>2, <2>1
<1>4. (r + k) % PsnMod = u
  BY <1>0, <1>2, <1>3, SlotAndTurnUnique
<1> QED
  BY <1>4 DEF PsnAdd, r, u

-----------------------------------------------------------------------------
(* Types *)

\* Copying fills the slots of the ring in order, and the requester stays behind:
\* every WQE it looks at was copied from a work request.
Filled ==
    \A e \in Endpoint :
      /\ taken[e] <= Len(Workload[e])
      /\ taken[e] < WqeCnt => head[e] = taken[e] /\ wqeIndex[e] <= taken[e]
      /\ \A i \in 0 .. WqeCnt - 1 :
           i < taken[e] => ring[e][i].msg \in DOMAIN Workload[e]

\* The completer's loop keeps the acknowledgement it works on.
Held ==
    \A e \in Endpoint :
      pc[e] = "ack" => net[e] # <<>> /\ Head(net[e]).kind # "REQ"

TypeInv == TypeOK /\ Filled /\ Held

LEMMA ConstantFacts ==
    /\ WqeCnt \in Nat /\ WqeCnt > 0
    /\ MaxUnacked \in Nat /\ MaxPktPerAck \in Nat /\ MaxOutstanding \in Nat
    /\ RxDepth \in Nat /\ MaxFaults \in Nat
    /\ 2 * (MaxUnacked + 1) < PsnMod
    /\ PsnMod \in Nat /\ PsnMod > 1
    /\ \A e \in Endpoint : /\ Peer[e] \in Endpoint
                           /\ Peer[e] # e
                           /\ Peer[Peer[e]] = e
BY TransportAssumption, PsnModAssumption

LEMMA WorkloadFacts ==
    ASSUME NEW e \in Endpoint
    PROVE  /\ Workload[e] \in Seq(WorkRequest)
           /\ Len(Workload[e]) \in Nat
           /\ DOMAIN Workload[e] = 1 .. Len(Workload[e])
           /\ \A m \in DOMAIN Workload[e] :
                /\ Workload[e][m] \in WorkRequest
                /\ Workload[e][m].op \in {"SEND", "WRITE", "DRIVER1"}
                /\ Workload[e][m].len \in Nat
<1>1. Workload[e] \in Seq(WorkRequest)
  BY TransportAssumption
<1>2. Len(Workload[e]) \in Nat /\ DOMAIN Workload[e] = 1 .. Len(Workload[e])
  BY <1>1, LenProperties
<1>3. ASSUME NEW m \in DOMAIN Workload[e]
      PROVE  Workload[e][m] \in WorkRequest
  BY <1>1, <1>2, <1>3, ElementOfSeq
<1> QED
  BY <1>1, <1>2, <1>3 DEF WorkRequest

\* The next slot is in the ring.
LEMMA StepFacts ==
    ASSUME NEW i \in 0 .. WqeCnt - 1
    PROVE  /\ Step(i) \in 0 .. WqeCnt - 1
           /\ i + 1 < WqeCnt => Step(i) = i + 1
<1>1. WqeCnt \in Nat /\ WqeCnt > 0
  BY ConstantFacts
<1>2. Step(i) \in 0 .. WqeCnt - 1
  <2>1. i + 1 \in Int
    OBVIOUS
  <2> QED
    BY <1>1, <2>1, SlotAndTurn DEF Step
<1>3. ASSUME i + 1 < WqeCnt
      PROVE  Step(i) = i + 1
  <2>1. i + 1 \in 0 .. WqeCnt - 1
    BY <1>1, <1>3
  <2> QED
    BY <1>1, <2>1, SlotFirstTurn DEF Step
<1> QED
  BY <1>2, <1>3

\* Zero is a PSN and every masked sum is one.
LEMMA PsnFacts ==
    /\ 0 \in PSN
    /\ PSN \subseteq Nat
    /\ \A a \in Nat, n \in Int : PsnAdd(a, n) \in PSN
<1>1. PsnMod \in Nat /\ PsnMod > 1
  BY HalfCircle
<1>2. \A a \in Nat, n \in Int : PsnAdd(a, n) \in PSN
  BY PsnAddType
<1> QED
  BY <1>1, <1>2 DEF PSN

LEMMA EmptyWqeType == EmptyWqe \in Wqe
BY PsnFacts DEF EmptyWqe, Wqe, WqeState

\* What the requester finds at its cursor.
LEMMA CurWqeFacts ==
    ASSUME TypeInv, NEW e \in Endpoint, wqeIndex[e] # head[e]
    PROVE  /\ CurWqe(e) \in Wqe
           /\ CurWqe(e).msg \in DOMAIN Workload[e]
           /\ Wr(e, CurWqe(e)) = Workload[e][CurWqe(e).msg]
           /\ Wr(e, CurWqe(e)).op \in {"SEND", "WRITE", "DRIVER1"}
           /\ Wr(e, CurWqe(e)).len \in Nat
<1>1. /\ wqeIndex[e] \in 0 .. WqeCnt - 1 /\ head[e] \in 0 .. WqeCnt - 1
      /\ ring[e] \in [0 .. WqeCnt - 1 -> Wqe] /\ taken[e] \in Nat
  BY DEF TypeInv, TypeOK
<1>2. wqeIndex[e] < taken[e]
  <2>1. CASE taken[e] < WqeCnt
    BY <1>1, <2>1, ConstantFacts DEF TypeInv, Filled
  <2>2. CASE ~(taken[e] < WqeCnt)
    BY <1>1, <2>2, ConstantFacts
  <2> QED
    BY <2>1, <2>2
<1>3. CurWqe(e) \in Wqe /\ CurWqe(e).msg \in DOMAIN Workload[e]
  BY <1>1, <1>2 DEF CurWqe, TypeInv, Filled
<1> QED
  BY <1>3, WorkloadFacts DEF Wr

\* The packet at the head of a queue.
LEMMA HeadFacts ==
    ASSUME TypeOK, NEW e \in Endpoint, net[e] # <<>>
    PROVE  /\ Head(net[e]) \in Packet
           /\ Head(net[e]).psn \in PSN
           /\ Head(net[e]).kind \in {"REQ", "ACK", "NAK"}
           /\ Head(net[e]).number \in Int
           /\ Tail(net[e]) \in Seq(Packet)
           /\ Head(net[e]).kind = "REQ" =>
                /\ Head(net[e]) \in ReqPacket
                /\ Head(net[e]).opcode \in Opcode
                /\ Head(net[e]).frag \in Nat \X Nat
<1>1. net[e] \in Seq(Packet)
  BY DEF TypeOK
<1>2. Head(net[e]) \in Packet /\ Tail(net[e]) \in Seq(Packet)
  BY <1>1, HeadTailProperties
<1> QED
  BY <1>2 DEF Packet, ReqPacket, AckPacket

LEMMA ConsumeType ==
    ASSUME TypeOK, NEW e \in Endpoint, net[e] # <<>>, Consume(e)
    PROVE  net' \in [Endpoint -> Seq(Packet)]
BY HeadFacts DEF TypeOK, Consume

LEMMA SendAckType ==
    ASSUME TypeOK, NEW e \in Endpoint, net[e] # <<>>,
           NEW kind \in {"ACK", "NAK"}, NEW psn \in PSN, NEW number \in Int,
           SendAck(e, kind, psn, number)
    PROVE  net' \in [Endpoint -> Seq(Packet)]
<1> DEFINE a == [kind |-> kind, psn |-> psn, number |-> number]
<1>1. a \in Packet
  BY DEF Packet, AckPacket
<1>2. net[Peer[e]] \in Seq(Packet) /\ Peer[e] \in Endpoint /\ Peer[e] # e
  BY ConstantFacts DEF TypeOK
<1>3. Append(net[Peer[e]], a) \in Seq(Packet)
  BY <1>1, <1>2, AppendProperties
<1>4. Tail(net[e]) \in Seq(Packet)
  BY HeadFacts
<1>5. net' = [net EXCEPT ![e] = Tail(@), ![Peer[e]] = Append(@, a)]
  BY DEF SendAck
<1> HIDE DEF a
<1> QED
  BY <1>2, <1>3, <1>4, <1>5 DEF TypeOK

LEMMA InitType == Init => TypeInv
<1> SUFFICES ASSUME Init
             PROVE  TypeInv
  OBVIOUS
<1>1. TypeOK
  <2>1. 0 \in 0 .. WqeCnt - 1 /\ 0 \in 0 .. MaxPktPerAck /\ RxDepth \in 0 .. RxDepth
        /\ 0 \in 0 .. MaxFaults
    BY ConstantFacts
  <2>2. [op |-> "SEND", pos |-> "FIRST"] \in Opcode
    BY DEF Opcode
  <2>3. <<>> \in Seq(Packet) /\ <<>> \in Seq(Nat \X Nat) /\ <<>> \in Seq(Nat)
    BY EmptySeq
  <2> QED
    BY <2>1, <2>2, <2>3, EmptyWqeType, PsnFacts DEF Init, TypeOK
<1>2. Filled
  BY WorkloadFacts DEF Init, Filled
<1>3. Held
  BY DEF Init, Held
<1> QED
  BY <1>1, <1>2, <1>3 DEF TypeInv

\* What is left alone keeps its type.
LEMMA FilledKept ==
    ASSUME Filled, UNCHANGED <<taken, ring, head, wqeIndex>>
    PROVE  Filled'
BY DEF Filled

LEMMA TakeWqeType ==
    ASSUME TypeInv, NEW e \in Endpoint, TakeWqe(e)
    PROVE  TypeOK' /\ Filled'
<1> USE DEF TypeInv
<1>1. CopiedWqe(e) \in Wqe /\ CopiedWqe(e).msg = taken[e] + 1
  <2>1. taken[e] + 1 \in Nat
    BY DEF TypeOK
  <2> QED
    BY <2>1, EmptyWqeType DEF CopiedWqe, EmptyWqe, Wqe
<1>2. TypeOK'
  <2>1. ring' \in [Endpoint -> [0 .. WqeCnt - 1 -> Wqe]]
    BY <1>1 DEF TakeWqe, TypeOK
  <2>2. /\ head' \in [Endpoint -> 0 .. WqeCnt - 1]
        /\ taken' \in [Endpoint -> Nat]
    <3>1. Step(head[e]) \in 0 .. WqeCnt - 1 /\ taken[e] + 1 \in Nat
      <4>1. head[e] \in 0 .. WqeCnt - 1 /\ taken[e] \in Nat
        BY DEF TypeOK
      <4> QED
        BY <4>1, StepFacts
    <3> QED
      BY <3>1 DEF TakeWqe, TypeOK
  <2>3. active' \in [Endpoint -> BOOLEAN]
    <3>1. (active[e] \/ IsEmpty(e)) \in BOOLEAN
      BY DEF TypeOK, IsEmpty
    <3> QED
      BY <3>1 DEF TakeWqe, TypeOK
  <2> QED
    BY <2>1, <2>2, <2>3 DEF TakeWqe, TypeOK, reqVars, respVars
<1>3. Filled'
  <2> SUFFICES ASSUME NEW x \in Endpoint
               PROVE  /\ taken'[x] <= Len(Workload[x])
                      /\ taken'[x] < WqeCnt =>
                           head'[x] = taken'[x] /\ wqeIndex'[x] <= taken'[x]
                      /\ \A i \in 0 .. WqeCnt - 1 :
                           i < taken'[x] => ring'[x][i].msg \in DOMAIN Workload[x]
    BY DEF Filled
  <2>0. /\ taken[x] <= Len(Workload[x])
        /\ taken[x] < WqeCnt => head[x] = taken[x] /\ wqeIndex[x] <= taken[x]
        /\ \A i \in 0 .. WqeCnt - 1 :
             i < taken[x] => ring[x][i].msg \in DOMAIN Workload[x]
    BY DEF Filled
  <2>1. CASE x # e
    BY <2>0, <2>1 DEF TakeWqe, TypeOK
  <2>2. CASE x = e
    <3>1. /\ taken'[e] = taken[e] + 1 /\ head'[e] = Step(head[e])
          /\ wqeIndex'[e] = wqeIndex[e]
          /\ ring'[e] = [ring[e] EXCEPT ![head[e]] = CopiedWqe(e)]
          /\ taken[e] < Len(Workload[e])
          /\ taken[e] \in Nat /\ head[e] \in 0 .. WqeCnt - 1
          /\ wqeIndex[e] \in 0 .. WqeCnt - 1
          /\ ring[e] \in [0 .. WqeCnt - 1 -> Wqe]
      BY DEF TakeWqe, TypeOK
    <3>2. taken[e] + 1 \in DOMAIN Workload[e]
      BY <3>1, WorkloadFacts
    <3>3. ASSUME taken[e] + 1 < WqeCnt
          PROVE  head'[e] = taken'[e] /\ wqeIndex'[e] <= taken'[e]
      <4>1. head[e] = taken[e] /\ wqeIndex[e] <= taken[e]
        BY <2>0, <2>2, <3>1, <3>3, ConstantFacts
      <4>2. Step(head[e]) = head[e] + 1
        BY <3>1, <3>3, <4>1, StepFacts
      <4> QED
        BY <3>1, <4>1, <4>2
    <3>4. ASSUME NEW i \in 0 .. WqeCnt - 1, i < taken[e] + 1
          PROVE  ring'[e][i].msg \in DOMAIN Workload[e]
      <4>1. CASE i = head[e]
        BY <1>1, <3>1, <3>2, <4>1
      <4>2. CASE i # head[e]
        <5>1. i < taken[e]
          BY <2>0, <2>2, <3>1, <3>4, <4>2, ConstantFacts
        <5> QED
          BY <2>0, <2>2, <3>1, <4>2, <5>1
      <4> QED
        BY <4>1, <4>2
    <3>5. taken[e] + 1 <= Len(Workload[e])
      BY <3>1, WorkloadFacts
    <3> QED
      BY <2>2, <3>1, <3>3, <3>4, <3>5
  <2> QED
    BY <2>1, <2>2
<1> QED
  BY <1>2, <1>3

\* Stepping the requester's cursor keeps it behind the copies.
LEMMA CursorStepFilled ==
    ASSUME TypeInv, NEW e \in Endpoint, wqeIndex[e] # head[e],
           wqeIndex' = [wqeIndex EXCEPT ![e] = Step(@)],
           UNCHANGED <<taken, ring, head>>
    PROVE  Filled'
<1> SUFFICES ASSUME NEW x \in Endpoint, taken[x] < WqeCnt
             PROVE  wqeIndex'[x] <= taken[x]
  BY DEF TypeInv, Filled
<1>1. /\ head[x] = taken[x] /\ wqeIndex[x] <= taken[x]
      /\ wqeIndex[x] \in 0 .. WqeCnt - 1 /\ taken[x] \in Nat
  BY DEF TypeInv, Filled, TypeOK
<1>2. CASE x # e
  BY <1>1, <1>2 DEF TypeInv, TypeOK
<1>3. CASE x = e
  <2>1. wqeIndex[x] < taken[x]
    BY <1>1, <1>3
  <2>2. wqeIndex'[x] = Step(wqeIndex[x])
    BY <1>3 DEF TypeInv, TypeOK
  <2>3. Step(wqeIndex[x]) = wqeIndex[x] + 1
    BY <1>1, <2>1, StepFacts, ConstantFacts
  <2> QED
    BY <1>1, <2>1, <2>2, <2>3
<1> QED
  BY <1>2, <1>3

LEMMA SkipWqeType ==
    ASSUME TypeInv, NEW e \in Endpoint, SkipWqe(e)
    PROVE  TypeOK' /\ Filled'
<1>1. Filled'
  BY CursorStepFilled DEF SkipWqe, Busy
<1>2. wqeIndex' \in [Endpoint -> 0 .. WqeCnt - 1]
  BY StepFacts DEF SkipWqe, TypeInv, TypeOK
<1> QED
  BY <1>1, <1>2 DEF SkipWqe, TypeInv, TypeOK, reqVars, respVars

LEMMA CompleteDriver1Type ==
    ASSUME TypeInv, NEW e \in Endpoint, CompleteDriver1(e)
    PROVE  TypeOK' /\ Filled'
<1>1. Filled'
  BY CursorStepFilled DEF CompleteDriver1, Busy
<1>2. /\ wqeIndex' \in [Endpoint -> 0 .. WqeCnt - 1]
      /\ tail' \in [Endpoint -> 0 .. WqeCnt - 1]
  BY StepFacts DEF CompleteDriver1, TypeInv, TypeOK
<1>3. completed' \in [Endpoint -> Seq(Nat)]
  <2>1. CurWqe(e).msg \in Nat
    BY CurWqeFacts DEF CompleteDriver1, Busy, Wqe
  <2>2. completed[e] \in Seq(Nat)
    BY DEF TypeInv, TypeOK
  <2>3. Append(completed[e], CurWqe(e).msg) \in Seq(Nat)
    BY <2>1, <2>2, AppendProperties
  <2> QED
    BY <2>3 DEF CompleteDriver1, TypeInv, TypeOK
<1> QED
  BY <1>1, <1>2, <1>3 DEF CompleteDriver1, TypeInv, TypeOK, reqVars, respVars

\* What the requester makes of the WQE and of the packet.
LEMMA SendFacts ==
    ASSUME TypeInv, NEW e \in Endpoint, wqeIndex[e] # head[e],
           Wr(e, CurWqe(e)).op # "DRIVER1"
    PROVE  /\ NextOpcode(e, CurWqe(e)) \in Opcode
           /\ SentWqe(e, CurWqe(e), NextOpcode(e, CurWqe(e))) \in Wqe
           /\ SentWqe(e, CurWqe(e), NextOpcode(e, CurWqe(e))).msg
                = CurWqe(e).msg
           /\ <<CurWqe(e).msg, CurWqe(e).off + 1>> \in Nat \X Nat
<1> DEFINE w == CurWqe(e)
           o == NextOpcode(e, w)
<1>1. /\ w \in Wqe /\ Wr(e, w).op \in {"SEND", "WRITE"} /\ Wr(e, w).len \in Nat
  BY CurWqeFacts
<1>2. /\ w.msg \in Nat /\ w.off \in Nat /\ w.lastPsn \in PSN
  BY <1>1 DEF Wqe
<1> HIDE DEF w
<1>3. o \in Opcode
  BY <1>1 DEF NextOpcode, Opcode
<1>4. PsnAdd(sendPsn[e], NumPkt(Wr(e, w)) - 1) \in PSN
  <2>1. sendPsn[e] \in Nat
    BY PsnFacts DEF TypeInv, TypeOK
  <2>2. NumPkt(Wr(e, w)) - 1 \in Int
    BY <1>1 DEF NumPkt
  <2> QED
    BY <2>1, <2>2, PsnFacts
<1> HIDE DEF o
<1>5. SentWqe(e, w, o) \in Wqe /\ SentWqe(e, w, o).msg = w.msg
  <2> DEFINE st == IF IsEnd(o) THEN "pending" ELSE "processing"
             lp == IF IsStart(o) THEN PsnAdd(sendPsn[e], NumPkt(Wr(e, w)) - 1)
                   ELSE w.lastPsn
  <2>1. st \in WqeState
    BY DEF WqeState
  <2>2. lp \in PSN
    BY <1>2, <1>4
  <2>3. SentWqe(e, w, o) = [w EXCEPT !.off = @ + 1, !.state = st, !.lastPsn = lp]
    BY DEF SentWqe
  <2> HIDE DEF st, lp
  <2>4. w.off + 1 \in Nat
    BY <1>2
  <2> QED
    BY <1>1, <2>1, <2>2, <2>3, <2>4 DEF Wqe
<1> QED
  BY <1>2, <1>3, <1>5 DEF w, o

\* The packet the requester sends next.
SentPacket(e) ==
    LET w == CurWqe(e)
        o == NextOpcode(e, w)
    IN  [kind |-> "REQ", psn |-> sendPsn[e], ackReq |-> AckRequested(e, o),
         opcode |-> o, frag |-> <<w.msg, w.off + 1>>, number |-> Len(sent[e])]

LEMMA SentPacketType ==
    ASSUME TypeInv, NEW e \in Endpoint, SendPacket(e)
    PROVE  /\ SentPacket(e) \in Packet
           /\ net' = [net EXCEPT ![Peer[e]] = Append(@, SentPacket(e))]
<1> DEFINE w == CurWqe(e)
           o == NextOpcode(e, w)
           f == <<w.msg, w.off + 1>>
           ackReq == AckRequested(e, o)
<1>1. /\ wqeIndex[e] # head[e] /\ Wr(e, w).op # "DRIVER1"
      /\ net' = [net EXCEPT ![Peer[e]] = Append(@, SentPacket(e))]
  BY DEF SendPacket, Busy, SentPacket
<1>2. o \in Opcode /\ f \in Nat \X Nat
  BY <1>1, SendFacts
<1>3. ackReq \in BOOLEAN
  BY DEF AckRequested
<1>4. sendPsn[e] \in PSN /\ Len(sent[e]) \in Nat
  BY LenProperties DEF TypeInv, TypeOK
<1>5. SentPacket(e) = [kind |-> "REQ", psn |-> sendPsn[e], ackReq |-> ackReq,
                       opcode |-> o, frag |-> f, number |-> Len(sent[e])]
  BY DEF SentPacket
<1> HIDE DEF ackReq, o, f
<1> QED
  BY <1>1, <1>2, <1>3, <1>4, <1>5 DEF Packet, ReqPacket

LEMMA SendPacketType ==
    ASSUME TypeInv, NEW e \in Endpoint, SendPacket(e)
    PROVE  TypeOK' /\ Filled'
<1> DEFINE w == CurWqe(e)
           o == NextOpcode(e, w)
           f == <<w.msg, w.off + 1>>
           ackReq == AckRequested(e, o)
           v == SentWqe(e, w, o)
<1>1. /\ wqeIndex[e] # head[e] /\ Wr(e, w).op # "DRIVER1"
      /\ ring' = [ring EXCEPT ![e][wqeIndex[e]] = v]
      /\ noackPkts' = [noackPkts EXCEPT ![e] = IF ackReq THEN 0 ELSE @ + 1]
      /\ sent' = [sent EXCEPT ![e] = Append(@, f)]
      /\ sendPsn' = [sendPsn EXCEPT ![e] = PsnAdd(@, 1)]
      /\ sendOpcode' = [sendOpcode EXCEPT ![e] = o]
      /\ wqeIndex' = [wqeIndex EXCEPT ![e] = IF IsEnd(o) THEN Step(@) ELSE @]
  BY DEF SendPacket, Busy
<1>2. /\ o \in Opcode /\ v \in Wqe /\ v.msg = w.msg /\ f \in Nat \X Nat
      /\ w.msg \in DOMAIN Workload[e]
  BY <1>1, SendFacts, CurWqeFacts
<1> HIDE DEF v, f
<1>4. net' \in [Endpoint -> Seq(Packet)]
  <2>1. net[Peer[e]] \in Seq(Packet) /\ Peer[e] \in Endpoint
    BY ConstantFacts DEF TypeInv, TypeOK
  <2>2. Append(net[Peer[e]], SentPacket(e)) \in Seq(Packet)
    BY <2>1, SentPacketType, AppendProperties
  <2>3. net' = [net EXCEPT ![Peer[e]] = Append(@, SentPacket(e))]
    BY SentPacketType
  <2> QED
    BY <2>1, <2>2, <2>3 DEF TypeInv, TypeOK
<1>5. sent' \in [Endpoint -> Seq(Nat \X Nat)]
  <2>1. sent[e] \in Seq(Nat \X Nat)
    BY DEF TypeInv, TypeOK
  <2>2. Append(sent[e], f) \in Seq(Nat \X Nat)
    BY <1>2, <2>1, AppendProperties
  <2> QED
    BY <1>1, <2>2 DEF TypeInv, TypeOK
<1>6. noackPkts' \in [Endpoint -> 0 .. MaxPktPerAck]
  <2>1. noackPkts[e] \in 0 .. MaxPktPerAck
    BY DEF TypeInv, TypeOK
  <2>2. ~ackReq => noackPkts[e] + 1 \in 0 .. MaxPktPerAck
    BY <2>1, ConstantFacts DEF AckRequested
  <2>3. 0 \in 0 .. MaxPktPerAck
    BY ConstantFacts
  <2> QED
    BY <1>1, <2>2, <2>3 DEF TypeInv, TypeOK
<1> HIDE DEF o, w, ackReq
<1>7. ring' \in [Endpoint -> [0 .. WqeCnt - 1 -> Wqe]]
  BY <1>1, <1>2 DEF TypeInv, TypeOK
<1>8. wqeIndex' \in [Endpoint -> 0 .. WqeCnt - 1]
  BY <1>1, StepFacts DEF TypeInv, TypeOK
<1>9. /\ sendPsn' \in [Endpoint -> PSN] /\ sendOpcode' \in [Endpoint -> Opcode]
  <2>1. sendPsn[e] \in PSN /\ sendPsn[e] \in Nat
    BY PsnFacts DEF TypeInv, TypeOK
  <2>2. PsnAdd(sendPsn[e], 1) \in PSN
    BY <2>1, PsnFacts
  <2> QED
    BY <1>1, <1>2, <2>2 DEF TypeInv, TypeOK
<1>10. TypeOK'
  BY <1>4, <1>5, <1>6, <1>7, <1>8, <1>9 DEF SendPacket, TypeInv, TypeOK, respVars
<1>11. Filled'
  <2>1. ASSUME NEW x \in Endpoint, NEW i \in 0 .. WqeCnt - 1
        PROVE  ring'[x][i].msg \in DOMAIN Workload[x] \/ ring'[x][i] = ring[x][i]
    BY <1>1, <1>2 DEF TypeInv, TypeOK
  <2>2. taken' = taken /\ head' = head
    BY DEF SendPacket
  <2>3. ASSUME NEW x \in Endpoint, taken[x] < WqeCnt
        PROVE  wqeIndex'[x] <= taken[x]
    <3>1. /\ head[x] = taken[x] /\ wqeIndex[x] <= taken[x]
          /\ wqeIndex[x] \in 0 .. WqeCnt - 1 /\ taken[x] \in Nat
      BY <2>3 DEF TypeInv, Filled, TypeOK
    <3>2. CASE wqeIndex'[x] = wqeIndex[x]
      BY <3>1, <3>2
    <3>3. CASE x = e /\ wqeIndex'[x] = Step(wqeIndex[x])
      <4>1. wqeIndex[x] < taken[x]
        BY <1>1, <3>1, <3>3
      <4>2. Step(wqeIndex[x]) = wqeIndex[x] + 1
        BY <2>3, <3>1, <4>1, StepFacts, ConstantFacts
      <4> QED
        BY <3>1, <3>3, <4>1, <4>2
    <3> QED
      BY <1>1, <3>2, <3>3 DEF TypeInv, TypeOK
  <2> QED
    BY <2>1, <2>2, <2>3 DEF TypeInv, Filled
<1> QED
  BY <1>10, <1>11 DEF TypeInv

LEMMA RecvOutOfOrderType ==
    ASSUME TypeInv, NEW e \in Endpoint, RecvOutOfOrder(e)
    PROVE  TypeOK' /\ Filled'
<1>1. net' \in [Endpoint -> Seq(Packet)]
  <2>1. net[e] # <<>> /\ recvPsn[e] \in PSN /\ Len(executed[e]) \in Int
    BY LenProperties DEF RecvOutOfOrder, Polled, TypeInv, TypeOK
  <2>2. CASE sentNak[e]
    BY <2>1, <2>2, ConsumeType DEF RecvOutOfOrder, TypeInv
  <2>3. CASE ~sentNak[e]
    BY <2>1, <2>3, SendAckType DEF RecvOutOfOrder, TypeInv
  <2> QED
    BY <2>2, <2>3
<1>2. rxFree' \in [Endpoint -> 0 .. RxDepth]
  <2>1. rxFree[e] - 1 \in 0 .. RxDepth
    BY ConstantFacts, SMTT(20) DEF RecvOutOfOrder, Polled, TypeInv, TypeOK
  <2> QED
    BY <2>1 DEF RecvOutOfOrder, TypeInv, TypeOK
<1>3. sentNak' \in [Endpoint -> BOOLEAN]
  BY DEF RecvOutOfOrder, TypeInv, TypeOK
<1>4. Filled'
  BY FilledKept DEF RecvOutOfOrder, TypeInv, ringVars
<1> QED
  BY <1>1, <1>2, <1>3, <1>4
  DEF RecvOutOfOrder, TypeInv, TypeOK, ringVars, reqVars

LEMMA RecvDuplicateType ==
    ASSUME TypeInv, NEW e \in Endpoint, RecvDuplicate(e)
    PROVE  TypeOK' /\ Filled'
<1>1. net' \in [Endpoint -> Seq(Packet)]
  <2>1. /\ net[e] # <<>> /\ Len(executed[e]) - 1 \in Int
        /\ SendAck(e, "ACK", DuplicateAckPsn(e), Len(executed[e]) - 1)
    BY LenProperties DEF RecvDuplicate, Polled, TypeInv, TypeOK
  <2>2. DuplicateAckPsn(e) \in PSN
    <3>1. ackPsn[e] \in PSN /\ ackPsn[e] \in Nat
      BY PsnFacts DEF TypeInv, TypeOK
    <3> QED
      BY <3>1, PsnFacts DEF DuplicateAckPsn
  <2> QED
    BY <2>1, <2>2, SendAckType DEF TypeInv
<1>2. rxFree' \in [Endpoint -> 0 .. RxDepth]
  <2>1. rxFree[e] - 1 \in 0 .. RxDepth
    BY ConstantFacts, SMTT(20) DEF RecvDuplicate, Polled, TypeInv, TypeOK
  <2> QED
    BY <2>1 DEF RecvDuplicate, TypeInv, TypeOK
<1>3. Filled'
  BY FilledKept DEF RecvDuplicate, TypeInv, ringVars
<1> QED
  BY <1>1, <1>2, <1>3
  DEF RecvDuplicate, TypeInv, TypeOK, ringVars, reqVars, respVars

LEMMA RecvInOrderType ==
    ASSUME TypeInv, NEW e \in Endpoint, RecvInOrder(e)
    PROVE  TypeOK' /\ Filled'
<1> DEFINE p == Head(net[e])
<1>1. /\ net[e] # <<>> /\ p.kind = "REQ"
      /\ executed' = [executed EXCEPT ![e] = Append(@, p.frag)]
      /\ recvPsn' = [recvPsn EXCEPT ![e] = PsnAdd(p.psn, 1)]
      /\ ackPsn' = [ackPsn EXCEPT ![e] = PsnAdd(p.psn, 1)]
      /\ recvCqes' = [recvCqes EXCEPT ![e] = IF Completes(p.opcode) THEN @ + 1 ELSE @]
      /\ IF p.ackReq THEN SendAck(e, "ACK", p.psn, Len(executed[e]))
                     ELSE Consume(e)
      /\ sentNak' = [sentNak EXCEPT ![e] = FALSE]
  BY DEF RecvInOrder, Polled
<1>2. p.psn \in PSN /\ p.frag \in Nat \X Nat
  BY <1>1, HeadFacts DEF TypeInv
<1>3. PsnAdd(p.psn, 1) \in PSN
  <2>1. p.psn \in Nat
    BY <1>2, PsnFacts
  <2> HIDE DEF p
  <2> QED
    BY <2>1, PsnFacts
<1>4. net' \in [Endpoint -> Seq(Packet)]
  <2>1. Len(executed[e]) \in Int
    BY LenProperties DEF TypeInv, TypeOK
  <2>2. CASE p.ackReq
    BY <1>1, <1>2, <2>1, <2>2, SendAckType DEF TypeInv
  <2>3. CASE ~p.ackReq
    BY <1>1, <2>3, ConsumeType DEF TypeInv
  <2> QED
    BY <2>2, <2>3
<1>5. executed' \in [Endpoint -> Seq(Nat \X Nat)]
  <2>1. executed[e] \in Seq(Nat \X Nat)
    BY DEF TypeInv, TypeOK
  <2>2. Append(executed[e], p.frag) \in Seq(Nat \X Nat)
    BY <1>2, <2>1, AppendProperties
  <2> QED
    BY <1>1, <2>2 DEF TypeInv, TypeOK
<1> HIDE DEF p
<1>6. /\ recvPsn' \in [Endpoint -> PSN] /\ ackPsn' \in [Endpoint -> PSN]
      /\ recvCqes' \in [Endpoint -> Nat] /\ sentNak' \in [Endpoint -> BOOLEAN]
  BY <1>1, <1>3, SMTT(20) DEF TypeInv, TypeOK
<1>7. Filled'
  BY FilledKept DEF RecvInOrder, TypeInv, ringVars
<1> QED
  BY <1>4, <1>5, <1>6, <1>7 DEF RecvInOrder, TypeInv, TypeOK, ringVars, reqVars

\* The acknowledgement the completer looks at.
LEMMA AckingFacts ==
    ASSUME TypeInv, NEW e \in Endpoint, Acking(e)
    PROVE  /\ net[e] # <<>>
           /\ Head(net[e]).kind \in {"ACK", "NAK"}
           /\ Head(net[e]).psn \in PSN
           /\ Head(net[e]).psn \in Nat
           /\ pc[e] \in {"recv", "ack"}
<1>1. net[e] # <<>> /\ Head(net[e]).kind # "REQ" /\ pc[e] \in {"recv", "ack"}
  BY DEF Acking, Polled, TypeInv, Held
<1> QED
  BY <1>1, HeadFacts, PsnFacts DEF TypeInv

LEMMA RetireTailType ==
    ASSUME TypeOK, NEW e \in Endpoint, RetireTail(e)
    PROVE  /\ completed' \in [Endpoint -> Seq(Nat)]
           /\ tail' \in [Endpoint -> 0 .. WqeCnt - 1]
<1>1. completed[e] \in Seq(Nat) /\ ring[e][tail[e]].msg \in Nat
  BY DEF TypeOK, Wqe
<1>2. Append(completed[e], ring[e][tail[e]].msg) \in Seq(Nat)
  BY <1>1, AppendProperties
<1>3. Step(tail[e]) \in 0 .. WqeCnt - 1
  BY StepFacts DEF TypeOK
<1> QED
  BY <1>2, <1>3 DEF RetireTail, TypeOK

LEMMA CompleteSendWqeType ==
    ASSUME TypeOK, NEW e \in Endpoint, CompleteSendWqe(e)
    PROVE  /\ completed' \in [Endpoint -> Seq(Nat)]
           /\ tail' \in [Endpoint -> 0 .. WqeCnt - 1]
           /\ recvPsn' \in [Endpoint -> PSN]
<1>1. TailWqe(e) \in Wqe
  <2>1. ring[e] \in [0 .. WqeCnt - 1 -> Wqe] /\ tail[e] \in 0 .. WqeCnt - 1
    BY DEF TypeOK
  <2> QED
    BY <2>1 DEF TailWqe
<1>2. TailWqe(e).lastPsn \in PSN /\ TailWqe(e).lastPsn \in Nat
  BY <1>1, PsnFacts DEF Wqe
<1>3. CompletedRecvPsn(e, TailWqe(e)) \in PSN
  <2>1. PsnAdd(TailWqe(e).lastPsn, 1) \in PSN
    BY <1>2, PsnFacts
  <2> QED
    BY <2>1 DEF CompletedRecvPsn, TypeOK
<1> QED
  BY <1>3, RetireTailType DEF CompleteSendWqe, TypeOK

LEMMA AckPassedType ==
    ASSUME TypeInv, NEW e \in Endpoint, AckPassed(e)
    PROVE  TypeOK' /\ Filled'
<1>1. /\ completed' \in [Endpoint -> Seq(Nat)]
      /\ tail' \in [Endpoint -> 0 .. WqeCnt - 1]
      /\ recvPsn' \in [Endpoint -> PSN]
      /\ pc' \in [Endpoint -> {"loop", "send", "recv", "ack", "abort"}]
  <2>1. CASE TailWqe(e).state = "pending"
    BY <2>1, CompleteSendWqeType DEF AckPassed, TypeInv, TypeOK
  <2>2. CASE TailWqe(e).state # "pending"
    BY <2>2 DEF AckPassed, TypeInv, TypeOK
  <2> QED
    BY <2>1, <2>2
<1>2. Filled'
  BY FilledKept DEF AckPassed, TypeInv
<1> QED
  BY <1>1, <1>2 DEF AckPassed, TypeInv, TypeOK, reqVars

LEMMA AckNothingType ==
    ASSUME TypeInv, NEW e \in Endpoint, AckNothing(e)
    PROVE  TypeOK' /\ Filled'
<1>1. net' \in [Endpoint -> Seq(Packet)]
  BY AckingFacts, ConsumeType DEF AckNothing, TypeInv
<1>2. Filled'
  BY FilledKept DEF AckNothing, TypeInv, ringVars
<1> QED
  BY <1>1, <1>2 DEF AckNothing, TypeInv, TypeOK, ringVars, reqVars, respVars

LEMMA AckStaleType ==
    ASSUME TypeInv, NEW e \in Endpoint, AckStale(e)
    PROVE  TypeOK' /\ Filled'
<1>1. net' \in [Endpoint -> Seq(Packet)]
  BY AckingFacts, ConsumeType DEF AckStale, AckAt, TypeInv
<1>2. /\ completed' \in [Endpoint -> Seq(Nat)]
      /\ tail' \in [Endpoint -> 0 .. WqeCnt - 1]
      /\ recvPsn' \in [Endpoint -> PSN]
  <2>1. CASE CompleteSendWqe(e)
    BY <2>1, CompleteSendWqeType DEF TypeInv
  <2>2. CASE UNCHANGED <<recvPsn, tail, completed>>
    BY <2>2 DEF TypeInv, TypeOK
  <2> QED
    BY <2>1, <2>2 DEF AckStale
<1>3. Filled'
  BY FilledKept DEF AckStale, TypeInv
<1> QED
  BY <1>1, <1>2, <1>3 DEF AckStale, TypeInv, TypeOK, reqVars

LEMMA AckAdvanceType ==
    ASSUME TypeInv, NEW e \in Endpoint, AckAdvance(e)
    PROVE  TypeOK' /\ Filled'
<1>1. net' \in [Endpoint -> Seq(Packet)]
  BY AckingFacts, ConsumeType DEF AckAdvance, AckAt, TypeInv
<1>2. /\ completed' \in [Endpoint -> Seq(Nat)]
      /\ tail' \in [Endpoint -> 0 .. WqeCnt - 1]
      /\ recvPsn' \in [Endpoint -> PSN]
  <2>1. CASE CompleteSendWqe(e)
    BY <2>1, CompleteSendWqeType DEF TypeInv
  <2>2. CASE UNCHANGED <<recvPsn, tail, completed>>
    BY <2>2 DEF TypeInv, TypeOK
  <2> QED
    BY <2>1, <2>2 DEF AckAdvance
<1>3. compPsn' \in [Endpoint -> PSN]
  <2>1. Head(net[e]).psn \in Nat
    BY AckingFacts DEF AckAdvance, AckAt
  <2>2. AckedCompPsn(Head(net[e]).psn) \in PSN
    BY <2>1, PsnFacts DEF AckedCompPsn
  <2> QED
    BY <2>2 DEF AckAdvance, TypeInv, TypeOK
<1>4. Filled'
  BY FilledKept DEF AckAdvance, TypeInv
<1> QED
  BY <1>1, <1>2, <1>3, <1>4 DEF AckAdvance, TypeInv, TypeOK, reqVars

\* A sequence without one of its elements.
LEMMA RemoveAtFacts ==
    ASSUME NEW S, NEW s \in Seq(S), NEW i \in 1 .. Len(s)
    PROVE  /\ RemoveAt(s, i) \in Seq(S)
           /\ Len(RemoveAt(s, i)) = Len(s) - 1
           /\ \A j \in 1 .. Len(s) - 1 :
                RemoveAt(s, i)[j] = IF j < i THEN s[j] ELSE s[j + 1]
<1> DEFINE l == SubSeq(s, 1, i - 1)
           r == SubSeq(s, i + 1, Len(s))
<1>0. Len(s) \in Nat /\ \A j \in 1 .. Len(s) : s[j] \in S
  BY LenProperties, ElementOfSeq
<1>1. /\ l \in Seq(S) /\ Len(l) = i - 1
      /\ \A j \in 1 .. i - 1 : l[j] = s[j]
  <2>1. \A j \in 1 .. i - 1 : s[j] \in S
    BY <1>0
  <2> QED
    BY <1>0, <2>1, SubSeqProperties
<1>2. /\ r \in Seq(S) /\ Len(r) = Len(s) - i
      /\ \A j \in 1 .. Len(s) - i : r[j] = s[i + j]
  <2>1. \A j \in i + 1 .. Len(s) : s[j] \in S
    BY <1>0
  <2>2. /\ r \in Seq(S)
        /\ Len(r) = IF i + 1 <= Len(s) THEN Len(s) - (i + 1) + 1 ELSE 0
        /\ \A j \in 1 .. Len(s) - (i + 1) + 1 : r[j] = s[i + 1 + j - 1]
    BY <1>0, <2>1, SubSeqProperties
  <2>3. Len(r) = Len(s) - i
    BY <1>0, <2>2
  <2>4. ASSUME NEW j \in 1 .. Len(s) - i
        PROVE  r[j] = s[i + j]
    <3>1. j \in 1 .. Len(s) - (i + 1) + 1 /\ i + 1 + j - 1 = i + j
      BY <1>0
    <3> QED
      BY <2>2, <3>1
  <2> QED
    BY <2>2, <2>3, <2>4
<1>3. RemoveAt(s, i) = l \o r
  BY DEF RemoveAt
<1> HIDE DEF l, r
<1>4. /\ l \o r \in Seq(S)
      /\ Len(l \o r) = Len(l) + Len(r)
      /\ \A j \in 1 .. Len(l) + Len(r) :
           (l \o r)[j] = IF j <= Len(l) THEN l[j] ELSE r[j - Len(l)]
  BY <1>1, <1>2, ConcatProperties
<1>5. Len(l) + Len(r) = Len(s) - 1
  BY <1>0, <1>1, <1>2
<1>6. ASSUME NEW j \in 1 .. Len(s) - 1
      PROVE  (l \o r)[j] = IF j < i THEN s[j] ELSE s[j + 1]
  <2>1. (l \o r)[j] = IF j <= i - 1 THEN l[j] ELSE r[j - (i - 1)]
    BY <1>1, <1>4, <1>5
  <2>2. CASE j < i
    BY <1>0, <1>1, <2>1, <2>2
  <2>3. CASE ~(j < i)
    <3>1. j - (i - 1) \in 1 .. Len(s) - i /\ i + (j - (i - 1)) = j + 1
      BY <1>0, <2>3
    <3>2. r[j - (i - 1)] = s[j + 1]
      BY <1>2, <3>1
    <3> QED
      BY <2>1, <2>3, <3>2
  <2> QED
    BY <2>2, <2>3
<1> QED
  BY <1>3, <1>4, <1>5, <1>6

\* A fault leaves a queue of packets sent before, and the head of a queue whose
\* first packet is being handled.
LEMMA FaultFacts ==
    ASSUME TypeOK, NEW e \in Endpoint, Lose(e) \/ Duplicate(e) \/ Delay(e)
    PROVE  \E s \in Seq(Packet) :
             /\ net' = [net EXCEPT ![e] = s]
             /\ \A i \in 1 .. Len(s) : \E j \in 1 .. Len(net[e]) : s[i] = net[e][j]
             /\ pc[e] = "ack" => s # <<>> /\ s[1] = net[e][1]
<1> DEFINE q == net[e]
<1>0. q \in Seq(Packet) /\ Len(q) \in Nat
  BY LenProperties DEF TypeOK
<1>1. PICK i \in InFlight(e) :
        \/ net' = [net EXCEPT ![e] = RemoveAt(@, i)]
        \/ net' = [net EXCEPT ![e] = Append(@, @[i])]
        \/ net' = [net EXCEPT ![e] = Append(RemoveAt(@, i), @[i])]
  BY DEF Lose, Duplicate, Delay
<1>2. i \in 1 .. Len(q) /\ (pc[e] = "ack" => i >= 2)
  BY <1>0, <1>1 DEF InFlight
<1> DEFINE r == RemoveAt(q, i)
<1>3. /\ r \in Seq(Packet) /\ Len(r) = Len(q) - 1
      /\ \A j \in 1 .. Len(q) - 1 : r[j] = IF j < i THEN q[j] ELSE q[j + 1]
  BY <1>0, <1>2, RemoveAtFacts
<1>4. q[i] \in Packet
  BY <1>0, <1>2, ElementOfSeq
<1>5. /\ \/ net' = [net EXCEPT ![e] = r]
         \/ net' = [net EXCEPT ![e] = Append(q, q[i])]
         \/ net' = [net EXCEPT ![e] = Append(r, q[i])]
  BY <1>1
<1> HIDE DEF q, r
<1>6. ASSUME NEW j \in 1 .. Len(r)
      PROVE  \E k \in 1 .. Len(q) : r[j] = q[k]
  <2>1. j \in 1 .. Len(q) - 1 /\ j \in 1 .. Len(q) /\ j + 1 \in 1 .. Len(q)
    BY <1>0, <1>3
  <2> QED
    BY <1>3, <2>1
<1>7. pc[e] = "ack" => r # <<>> /\ r[1] = q[1]
  <2> SUFFICES ASSUME pc[e] = "ack"
               PROVE  r # <<>> /\ r[1] = q[1]
    OBVIOUS
  <2>1. 1 \in 1 .. Len(q) - 1 /\ 1 < i /\ Len(r) # 0
    BY <1>0, <1>2, <1>3
  <2> QED
    BY <1>3, <2>1
<1>8. ASSUME NEW t \in Seq(Packet), t = q \/ t = r
      PROVE  /\ Append(t, q[i]) \in Seq(Packet)
             /\ \A j \in 1 .. Len(Append(t, q[i])) :
                  \E k \in 1 .. Len(q) : Append(t, q[i])[j] = q[k]
             /\ pc[e] = "ack" => /\ Append(t, q[i]) # <<>>
                                 /\ Append(t, q[i])[1] = q[1]
  <2>1. /\ Append(t, q[i]) \in Seq(Packet) /\ Append(t, q[i]) # <<>>
        /\ Len(Append(t, q[i])) = Len(t) + 1
        /\ \A j \in 1 .. Len(t) : Append(t, q[i])[j] = t[j]
        /\ Append(t, q[i])[Len(t) + 1] = q[i]
    BY <1>4, AppendProperties
  <2>2. Len(t) \in Nat
    BY LenProperties
  <2>3. ASSUME NEW j \in 1 .. Len(Append(t, q[i]))
        PROVE  \E k \in 1 .. Len(q) : Append(t, q[i])[j] = q[k]
    <3>1. CASE j = Len(t) + 1
      BY <1>2, <2>1, <3>1
    <3>2. CASE j # Len(t) + 1
      <4>1. j \in 1 .. Len(t)
        BY <2>1, <2>2, <3>2
      <4>2. \E k \in 1 .. Len(q) : t[j] = q[k]
        BY <1>6, <1>8, <4>1
      <4> QED
        BY <2>1, <4>1, <4>2
    <3> QED
      BY <3>1, <3>2
  <2>4. ASSUME pc[e] = "ack"
        PROVE  Append(t, q[i])[1] = q[1]
    <3>1. 1 \in 1 .. Len(t) /\ t[1] = q[1]
      <4>1. CASE t = q
        BY <1>0, <1>2, <2>4, <4>1
      <4>2. CASE t = r
        BY <1>0, <1>2, <1>3, <1>7, <2>4, <4>2
      <4> QED
        BY <1>8, <4>1, <4>2
    <3> QED
      BY <2>1, <3>1
  <2> QED
    BY <2>1, <2>3, <2>4
<1>9. CASE net' = [net EXCEPT ![e] = r]
  BY <1>3, <1>6, <1>7, <1>9 DEF q
<1>10. CASE net' = [net EXCEPT ![e] = Append(q, q[i])]
  BY <1>0, <1>8, <1>10 DEF q
<1>11. CASE net' = [net EXCEPT ![e] = Append(r, q[i])]
  BY <1>3, <1>8, <1>11 DEF q
<1> QED
  BY <1>5, <1>9, <1>10, <1>11

LEMMA FaultType ==
    ASSUME TypeInv, NEW e \in Endpoint, Fault, Lose(e) \/ Duplicate(e) \/ Delay(e)
    PROVE  TypeOK' /\ Filled'
<1>1. net' \in [Endpoint -> Seq(Packet)]
  BY FaultFacts DEF TypeInv, TypeOK
<1>2. faults' \in 0 .. MaxFaults
  <2>1. faults \in 0 .. MaxFaults
    BY DEF TypeInv, TypeOK
  <2>2. faults < MaxFaults /\ faults' = faults + 1
    BY DEF Fault
  <2>3. MaxFaults \in Nat
    BY ConstantFacts
  <2> QED
    BY <2>1, <2>2, <2>3
<1>3. Filled'
  BY FilledKept DEF Fault, TypeInv, ringVars
<1> QED
  BY <1>1, <1>2, <1>3 DEF Fault, TypeInv, TypeOK, ringVars, reqVars, respVars

LEMMA DropNoBufferType ==
    ASSUME TypeInv, NEW e \in Endpoint, DropNoBuffer(e)
    PROVE  TypeOK' /\ Filled'
<1>1. net' \in [Endpoint -> Seq(Packet)]
  BY ConsumeType DEF DropNoBuffer, TypeInv
<1>2. Filled'
  BY FilledKept DEF DropNoBuffer, TypeInv, ringVars
<1> QED
  BY <1>1, <1>2 DEF DropNoBuffer, TypeInv, TypeOK, ringVars, reqVars, respVars

LEMMA TypeStep ==
    TypeInv /\ [Next]_vars => TypeOK' /\ Filled'
<1> SUFFICES ASSUME TypeInv, [Next]_vars
             PROVE  TypeOK' /\ Filled'
  OBVIOUS
<1>1. ASSUME NEW e \in Endpoint, LoopDone(e) \/ RecvDone(e)
      PROVE  TypeOK' /\ Filled'
  <2>1. Filled'
    BY <1>1, FilledKept DEF LoopDone, RecvDone, TypeInv, ringVars
  <2> QED
    BY <1>1, <2>1
    DEF LoopDone, RecvDone, TypeInv, TypeOK, ringVars, reqVars, respVars
<1>2. ASSUME NEW e \in Endpoint, LeaveSend(e)
      PROVE  TypeOK' /\ Filled'
  <2>1. Filled'
    BY <1>2, FilledKept DEF LeaveSend, TypeInv
  <2>2. active' \in [Endpoint -> BOOLEAN]
    <3>1. (active[e] /\ ~IsEmpty(e)) \in BOOLEAN
      BY DEF IsEmpty
    <3> QED
      BY <1>2, <3>1 DEF LeaveSend, TypeInv, TypeOK
  <2>3. pc' \in [Endpoint -> {"loop", "send", "recv", "ack", "abort"}]
    BY <1>2 DEF LeaveSend, TypeInv, TypeOK
  <2> QED
    BY <1>2, <2>1, <2>2, <2>3 DEF LeaveSend, TypeInv, TypeOK, reqVars, respVars
<1>3. ASSUME NEW e \in Endpoint, AckNak(e)
      PROVE  TypeOK' /\ Filled'
  <2>1. Filled'
    BY <1>3, FilledKept DEF AckNak, TypeInv, ringVars
  <2> QED
    BY <1>3, <2>1 DEF AckNak, TypeInv, TypeOK, ringVars, reqVars, respVars
<1>4. ASSUME NEW e \in Endpoint, HandleSend(e)
      PROVE  TypeOK' /\ Filled'
  BY <1>2, <1>4, SkipWqeType, CompleteDriver1Type, SendPacketType DEF HandleSend
<1>5. ASSUME NEW e \in Endpoint, HandleRecv(e)
      PROVE  TypeOK' /\ Filled'
  BY <1>3, <1>5, RecvOutOfOrderType, RecvDuplicateType, RecvInOrderType,
     AckPassedType, AckNothingType, AckStaleType, AckAdvanceType
  DEF HandleRecv
<1>6. ASSUME NEW e \in Endpoint, Network(e)
      PROVE  TypeOK' /\ Filled'
  BY <1>6, FaultType, DropNoBufferType DEF Network
<1>7. CASE UNCHANGED vars
  <2>1. Filled'
    BY <1>7, FilledKept DEF vars, TypeInv, ringVars
  <2> QED
    BY <1>7, <2>1 DEF vars, TypeInv, TypeOK, ringVars, reqVars, respVars
<1> QED
  BY <1>1, <1>4, <1>5, <1>6, <1>7, TakeWqeType DEF Next

\* What an append leaves of a queue.
LEMMA AppendKeepsHead ==
    ASSUME NEW S, NEW s \in Seq(S), NEW a \in S, s # <<>>
    PROVE  Append(s, a) # <<>> /\ Head(Append(s, a)) = Head(s)
<1>1. /\ Append(s, a) \in Seq(S) /\ Append(s, a) # <<>>
      /\ \A i \in 1 .. Len(s) : Append(s, a)[i] = s[i]
  BY AppendProperties
<1>2. 1 \in 1 .. Len(s) /\ Head(s) = s[1]
  OBVIOUS
<1>3. Head(Append(s, a)) = Append(s, a)[1]
  BY <1>1
<1> QED
  BY <1>1, <1>2, <1>3

\* Handling a packet takes it off the endpoint's queue; other queues may grow.
LEMMA QueueFacts ==
    ASSUME TypeInv, NEW e \in Endpoint, net[e] # <<>>,
           \/ Consume(e)
           \/ \E kind \in {"ACK", "NAK"}, psn \in PSN, number \in Int :
                SendAck(e, kind, psn, number)
    PROVE  /\ net'[e] = Tail(net[e])
           /\ \A x \in Endpoint \ {e} :
                net[x] # <<>> => net'[x] # <<>> /\ Head(net'[x]) = Head(net[x])
<1>0. net \in [Endpoint -> Seq(Packet)] /\ Peer[e] \in Endpoint /\ Peer[e] # e
  BY ConstantFacts DEF TypeInv, TypeOK
<1>1. CASE Consume(e)
  BY <1>0, <1>1 DEF Consume
<1>2. ASSUME NEW kind \in {"ACK", "NAK"}, NEW psn \in PSN, NEW number \in Int,
             SendAck(e, kind, psn, number)
      PROVE  /\ net'[e] = Tail(net[e])
             /\ \A x \in Endpoint \ {e} :
                  net[x] # <<>> => net'[x] # <<>> /\ Head(net'[x]) = Head(net[x])
  <2> DEFINE a == [kind |-> kind, psn |-> psn, number |-> number]
  <2>1. a \in Packet
    BY DEF Packet, AckPacket
  <2>2. net' = [net EXCEPT ![e] = Tail(@), ![Peer[e]] = Append(@, a)]
    BY <1>2 DEF SendAck
  <2> HIDE DEF a
  <2>3. ASSUME NEW x \in Endpoint \ {e}, net[x] # <<>>
        PROVE  net'[x] # <<>> /\ Head(net'[x]) = Head(net[x])
    <3>1. Append(net[x], a) # <<>> /\ Head(Append(net[x], a)) = Head(net[x])
      BY <1>0, <2>1, <2>3, AppendKeepsHead
    <3> QED
      BY <1>0, <2>2, <2>3, <3>1
  <2> QED
    BY <1>0, <2>2, <2>3
<1> QED
  BY <1>1, <1>2

\* The responder's steps take the packet off the queue and may answer it.
LEMMA RecvTakes ==
    ASSUME TypeInv, NEW e \in Endpoint,
           RecvOutOfOrder(e) \/ RecvDuplicate(e) \/ RecvInOrder(e)
    PROVE  /\ net[e] # <<>> /\ Head(net[e]).kind = "REQ" /\ pc[e] = "recv"
           /\ pc' = pc
           /\ \/ Consume(e)
              \/ \E kind \in {"ACK", "NAK"}, psn \in PSN, number \in Int :
                   SendAck(e, kind, psn, number)
<1>0. /\ net[e] # <<>> /\ Head(net[e]).kind = "REQ" /\ pc[e] = "recv" /\ pc' = pc
  BY DEF RecvOutOfOrder, RecvDuplicate, RecvInOrder, Polled
<1>1. /\ Head(net[e]).psn \in PSN /\ recvPsn[e] \in PSN
      /\ Len(executed[e]) \in Int /\ Len(executed[e]) - 1 \in Int
  <2>1. Head(net[e]).psn \in PSN
    BY <1>0, HeadFacts DEF TypeInv
  <2>2. recvPsn[e] \in PSN /\ executed[e] \in Seq(Nat \X Nat)
    BY DEF TypeInv, TypeOK
  <2>3. Len(executed[e]) \in Nat
    BY <2>2, LenProperties
  <2> QED
    BY <2>1, <2>2, <2>3
<1>2. DuplicateAckPsn(e) \in PSN
  <2>1. ackPsn[e] \in Nat
    BY PsnFacts DEF TypeInv, TypeOK
  <2> QED
    BY <2>1, PsnFacts DEF DuplicateAckPsn
<1>3. CASE RecvOutOfOrder(e)
  BY <1>0, <1>1, <1>3 DEF RecvOutOfOrder
<1>4. CASE RecvDuplicate(e)
  BY <1>0, <1>1, <1>2, <1>4 DEF RecvDuplicate
<1>5. CASE RecvInOrder(e)
  BY <1>0, <1>1, <1>5 DEF RecvInOrder
<1> QED
  BY <1>3, <1>4, <1>5

LEMMA HeldStep ==
    TypeInv /\ [Next]_vars => Held'
<1> SUFFICES ASSUME TypeInv, [Next]_vars
             PROVE  Held'
  OBVIOUS
<1>0. /\ pc \in [Endpoint -> {"loop", "send", "recv", "ack", "abort"}]
      /\ net \in [Endpoint -> Seq(Packet)]
  BY DEF TypeInv, TypeOK
<1>1. ASSUME net' = net,
             \A x \in Endpoint : pc'[x] = "ack" =>
               pc[x] = "ack" \/ (net[x] # <<>> /\ Head(net[x]).kind # "REQ")
      PROVE  Held'
  BY <1>1 DEF Held, TypeInv
<1>2. ASSUME NEW e \in Endpoint, net[e] # <<>>, pc'[e] # "ack",
             \A x \in Endpoint \ {e} : pc'[x] = pc[x],
             \/ Consume(e)
             \/ \E kind \in {"ACK", "NAK"}, psn \in PSN, number \in Int :
                  SendAck(e, kind, psn, number)
      PROVE  Held'
  <2>1. \A x \in Endpoint \ {e} :
          net[x] # <<>> => net'[x] # <<>> /\ Head(net'[x]) = Head(net[x])
    BY <1>2, QueueFacts
  <2> QED
    BY <1>2, <2>1 DEF Held, TypeInv
<1>3. ASSUME NEW e \in Endpoint,
             \/ TakeWqe(e) \/ LoopDone(e) \/ LeaveSend(e) \/ SkipWqe(e)
             \/ CompleteDriver1(e) \/ RecvDone(e) \/ AckNak(e)
      PROVE  Held'
  <2>1. net' = net
    BY <1>3 DEF TakeWqe, LoopDone, LeaveSend, SkipWqe, CompleteDriver1,
                RecvDone, AckNak
  <2>2. \A x \in Endpoint : pc'[x] = "ack" => pc[x] = "ack"
    BY <1>0, <1>3 DEF TakeWqe, LoopDone, LeaveSend, SkipWqe, CompleteDriver1,
                      RecvDone, AckNak
  <2> QED
    BY <1>1, <2>1, <2>2
<1>4. ASSUME NEW e \in Endpoint, SendPacket(e)
      PROVE  Held'
  <2>1. /\ pc' = pc /\ SentPacket(e) \in Packet /\ Peer[e] \in Endpoint
        /\ net' = [net EXCEPT ![Peer[e]] = Append(@, SentPacket(e))]
    BY <1>4, SentPacketType, ConstantFacts DEF SendPacket
  <2>2. ASSUME NEW x \in Endpoint, net[x] # <<>>
        PROVE  net'[x] # <<>> /\ Head(net'[x]) = Head(net[x])
    <3>1. /\ Append(net[x], SentPacket(e)) # <<>>
          /\ Head(Append(net[x], SentPacket(e))) = Head(net[x])
      BY <1>0, <2>1, <2>2, AppendKeepsHead
    <3> QED
      BY <1>0, <2>1, <2>2, <3>1
  <2> QED
    BY <2>1, <2>2 DEF Held, TypeInv
<1>5. ASSUME NEW e \in Endpoint,
             RecvOutOfOrder(e) \/ RecvDuplicate(e) \/ RecvInOrder(e)
      PROVE  Held'
  BY <1>2, <1>5, RecvTakes
<1>6. ASSUME NEW e \in Endpoint, AckPassed(e)
      PROVE  Held'
  <2>1. net[e] # <<>> /\ Head(net[e]).kind # "REQ"
    BY <1>6, AckingFacts DEF AckPassed
  <2>2. net' = net /\ \A x \in Endpoint : x # e => pc'[x] = pc[x]
    BY <1>0, <1>6 DEF AckPassed
  <2> QED
    BY <1>1, <2>1, <2>2
<1>7. ASSUME NEW e \in Endpoint, AckNothing(e) \/ AckStale(e) \/ AckAdvance(e)
      PROVE  Held'
  <2>1. Acking(e) /\ Consume(e) /\ pc' = [pc EXCEPT ![e] = "recv"]
    BY <1>7 DEF AckNothing, AckStale, AckAdvance, AckAt
  <2>2. net[e] # <<>>
    BY <2>1, AckingFacts
  <2>3. pc'[e] = "recv" /\ \A x \in Endpoint \ {e} : pc'[x] = pc[x]
    BY <1>0, <2>1
  <2> QED
    BY <1>2, <2>1, <2>2, <2>3
<1>8. ASSUME NEW e \in Endpoint, Fault, Lose(e) \/ Duplicate(e) \/ Delay(e)
      PROVE  Held'
  <2>1. PICK s \in Seq(Packet) :
          /\ net' = [net EXCEPT ![e] = s]
          /\ pc[e] = "ack" => s # <<>> /\ s[1] = net[e][1]
    BY <1>8, FaultFacts DEF TypeInv
  <2>2. pc' = pc
    BY <1>8 DEF Fault
  <2>3. ASSUME NEW x \in Endpoint, pc[x] = "ack"
        PROVE  net'[x] # <<>> /\ Head(net'[x]).kind # "REQ"
    <3>1. net[x] # <<>> /\ Head(net[x]).kind # "REQ"
      BY <2>3 DEF Held, TypeInv
    <3>2. CASE x = e
      <4>1. s # <<>> /\ Head(s) = Head(net[e])
        BY <1>0, <2>1, <2>3, <3>1, <3>2
      <4> QED
        BY <1>0, <2>1, <3>1, <3>2, <4>1
    <3>3. CASE x # e
      BY <1>0, <2>1, <3>1, <3>3
    <3> QED
      BY <3>2, <3>3
  <2> QED
    BY <2>2, <2>3 DEF Held
<1>9. ASSUME NEW e \in Endpoint, DropNoBuffer(e)
      PROVE  Held'
  <2>1. Consume(e) /\ net[e] # <<>> /\ pc[e] # "ack" /\ pc' = pc
    BY <1>9 DEF DropNoBuffer
  <2> QED
    BY <1>2, <2>1
<1>10. CASE UNCHANGED vars
  BY <1>10 DEF vars, Held, TypeInv
<1> QED
  BY <1>3, <1>4, <1>5, <1>6, <1>7, <1>8, <1>9, <1>10
  DEF Next, HandleSend, HandleRecv, Network

LEMMA TypeInvariance == Spec => []TypeInv
<1>1. TypeInv /\ [Next]_vars => TypeInv'
  BY TypeStep, HeldStep DEF TypeInv
<1> QED
  BY <1>1, InitType, PTL DEF Spec

\* Every variable keeps its type, for every workload and any network.
THEOREM TransportTypeCorrect == Spec => []TypeOK
<1>1. TypeInv => TypeOK
  BY DEF TypeInv
<1> QED
  BY <1>1, TypeInvariance, PTL

-----------------------------------------------------------------------------
(* The data path.  What the theorems assume of the constants is where the code
   stops being a transport: requests of both ends share the responder's PSN
   (complete_send_wqe), DRIVER1 completes ahead of the messages before it,
   empty messages are stepped over (rxe_handle_req), and the opcode a queue pair
   is created with, SEND_FIRST, denies the first packet of a long first SEND its
   start (handle_create_qp). *)

\* Only one end of a connection has packets to send.
OneWay == \A e \in Requester : Peer[e] \notin Requester

\* The messages of an endpoint are of one kind: the pipe test's DRIVER1
\* requests, messages with a payload, or empty messages.
OneKind ==
    \A e \in Endpoint :
      \/ \A m \in DOMAIN Workload[e] :
           Workload[e][m].op = "DRIVER1" /\ Workload[e][m].len > 0
      \/ \A m \in DOMAIN Workload[e] :
           Workload[e][m].op # "DRIVER1" /\ Workload[e][m].len > 0
      \/ \A m \in DOMAIN Workload[e] :
           Workload[e][m].op # "DRIVER1" /\ Workload[e][m].len = 0

\* A first SEND fits in a packet.
FirstSendFits ==
    \A e \in Endpoint :
      Workload[e] # <<>> /\ Workload[e][1].op = "SEND" => Workload[e][1].len <= 1

\* The application keeps fewer requests uncompleted than it asked for with
\* max_send_wr: nothing else keeps the DPU's ring (send_wq->wqe_cnt) from being
\* full.
RingHasRoom == MaxOutstanding < WqeCnt

Traffic == OneWay /\ OneKind /\ FirstSendFits /\ RingHasRoom

Half == PsnMod \div 2
MsgLen(e, m) == Workload[e][m].len
Slot(e, m) == ring[e][(m - 1) % WqeCnt]
Done(e) == Len(completed[e])

\* Packets sent of the message after the first q.
Off(e, q) == IF q < taken[e] THEN Slot(e, q + 1).off ELSE 0

\* The ring holds the messages taken and not retired; q messages are sent.
RingPart(e, q) ==
    /\ Done(e) <= q /\ q <= taken[e] /\ taken[e] <= Done(e) + MaxOutstanding
    /\ head[e] = taken[e] % WqeCnt
    /\ tail[e] = Done(e) % WqeCnt
    /\ wqeIndex[e] = q % WqeCnt
    /\ \A m \in Done(e) + 1 .. taken[e] : Slot(e, m).msg = m
    /\ \A i \in 1 .. Done(e) : completed[e][i] = i

\* An endpoint without packets to send: nothing leaves its ring but DRIVER1
\* requests, or nothing at all.
PassivePart(e, q) ==
    /\ pc[e] # "ack"
    /\ \A m \in Done(e) + 1 .. taken[e] :
         Slot(e, m).state = "posted" /\ Slot(e, m).off = 0
    /\ \/ q = Done(e) /\ \A m \in DOMAIN Workload[e] : Workload[e][m].op = "DRIVER1"
       \/ Done(e) = 0 /\ \A m \in DOMAIN Workload[e] : Workload[e][m].op # "DRIVER1"
    /\ sent[e] = <<>>
    /\ executed[Peer[e]] = <<>>

\* What was sent: q messages and the beginning of the next one.
SentPart(e, q) ==
    LET s == Len(sent[e])
        off == Off(e, q)
    IN  /\ sendPsn[e] = s % PsnMod
        /\ InPostedOrder(e, sent[e])
        /\ q = 0 => s = off
        /\ q > 0 => s > off /\ sent[e][s - off] = <<q, MsgLen(e, q)>>
        /\ off > 0 => /\ sent[e][s] = <<q + 1, off>>
                      /\ sendOpcode[e].op = Workload[e][q + 1].op
                      /\ ~IsEnd(sendOpcode[e])
        /\ off = 0 => \/ s = 0 /\ sendOpcode[e] = [op |-> "SEND", pos |-> "FIRST"]
                      \/ s > 0 /\ IsEnd(sendOpcode[e])

\* A message that is sent: its last packet is not acknowledged.
PendingPart(e, m, c) ==
    /\ Slot(e, m).state = "pending"
    /\ Slot(e, m).off = MsgLen(e, m)
    /\ \E j \in 1 .. Len(sent[e]) :
         /\ sent[e][j] = <<m, MsgLen(e, m)>>
         /\ Slot(e, m).lastPsn = (j - 1) % PsnMod
         /\ c <= j - 1

\* A message being sent, or not begun.
UnsentPart(e, m, q) ==
    /\ Slot(e, m).off < MsgLen(e, m)
    /\ Slot(e, m).off = 0 => Slot(e, m).state = "posted" /\ Slot(e, m).lastPsn = 0
    /\ Slot(e, m).off > 0 =>
         /\ m = q + 1
         /\ Slot(e, m).state = "processing"
         /\ Slot(e, m).lastPsn =
              (Len(sent[e]) + MsgLen(e, m) - Slot(e, m).off - 1) % PsnMod

WqePart(e, q, c) ==
    \A m \in Done(e) + 1 .. taken[e] :
      /\ m <= q => PendingPart(e, m, c)
      /\ m > q => UnsentPart(e, m, q)

\* c packets are acknowledged, none that was not executed, and the window is
\* kept; what is retired was executed to its end.
AckPart(e, c) ==
    /\ compPsn[e] = c % PsnMod
    /\ c <= Len(executed[Peer[e]])
    /\ Len(sent[e]) <= c + MaxUnacked + 1
    /\ \A m \in 1 .. Done(e) : \E j \in 1 .. Len(executed[Peer[e]]) :
         executed[Peer[e]][j] = <<m, MsgLen(e, m)>>

\* The peer executed what was sent, from the first packet on.
DeliveryPart(e) ==
    LET r == Len(executed[Peer[e]])
    IN  /\ r <= Len(sent[e])
        /\ recvPsn[Peer[e]] = r % PsnMod
        /\ ackPsn[Peer[e]] = r % PsnMod
        /\ \A j \in 1 .. r : executed[Peer[e]][j] = sent[e][j]

RequestFlow(e, q, c) ==
    /\ RingPart(e, q)
    /\ SentPart(e, q)
    /\ WqePart(e, q, c)
    /\ AckPart(e, c)
    /\ DeliveryPart(e)

FlowInv(e) ==
    IF e \in Requester THEN \E q, c \in Nat : RequestFlow(e, q, c)
    ELSE \E q \in Nat : RingPart(e, q) /\ PassivePart(e, q)

\* A packet on its way to e: a request carries the fragment sent under its
\* number, an acknowledgement the number of a packet executed, a NAK the number
\* of one that is expected or was executed since.
PacketOK(e, p) ==
    /\ p.psn = p.number % PsnMod
    /\ p.number >= 0
    /\ p.kind = "REQ" =>
         /\ Peer[e] \in Requester
         /\ p.number < Len(sent[Peer[e]])
         /\ p.frag = sent[Peer[e]][p.number + 1]
         /\ p.opcode.op = Workload[Peer[e]][p.frag[1]].op
         /\ IsEnd(p.opcode) <=> p.frag[2] = MsgLen(Peer[e], p.frag[1])
    /\ p.kind # "REQ" =>
         /\ e \in Requester
         /\ p.number <= Len(executed[Peer[e]])
         /\ p.kind = "ACK" => p.number < Len(executed[Peer[e]])

NetPart(e) == \A i \in 1 .. Len(net[e]) : PacketOK(e, net[e][i])

DataInv ==
    /\ RecvCqePerSend
    /\ \A e \in Endpoint : FlowInv(e) /\ NetPart(e)

TransportInv == TypeInv /\ DataInv

\* No packet lives for half the circle: a request is less than PsnMod behind the
\* expected one, an acknowledgement at most Half behind the last packet of the
\* message it is applied to.
Recent ==
    \A e \in Endpoint : \A i \in 1 .. Len(net[e]) :
      LET p == net[e][i]
      IN  IF p.kind = "REQ" THEN Len(executed[e]) - p.number < PsnMod
          ELSE \/ NothingToComplete(e)
               \/ Len(sent[e]) + Wr(e, TailWqe(e)).len - TailWqe(e).off - p.number
                    <= Half + 1

-----------------------------------------------------------------------------
(* Lemmas about the data path *)

LEMMA FragmentFacts ==
    ASSUME NEW e \in Endpoint
    PROVE  /\ \A m, f : <<m, f>> \in Fragment(e) <=>
                /\ m \in DOMAIN Workload[e]
                /\ Workload[e][m].op # "DRIVER1"
                /\ f \in 1 .. MsgLen(e, m)
           /\ \A g \in Fragment(e) :
                /\ g = <<g[1], g[2]>>
                /\ g[1] \in Nat /\ g[1] >= 1
                /\ g[2] \in Nat /\ g[2] >= 1
                /\ g[1] \in DOMAIN Workload[e]
                /\ Workload[e][g[1]].op # "DRIVER1"
                /\ g[2] <= MsgLen(e, g[1])
<1>1. \A g : g \in Fragment(e) <=>
        \E m \in DOMAIN Workload[e] :
          /\ Workload[e][m].op # "DRIVER1"
          /\ \E f \in 1 .. MsgLen(e, m) : g = <<m, f>>
  BY DEF Fragment, MsgLen
<1>2. \A m \in DOMAIN Workload[e] :
        m \in Nat /\ m >= 1 /\ MsgLen(e, m) \in Nat
  BY WorkloadFacts DEF MsgLen
<1>3. ASSUME NEW m, NEW f
      PROVE  <<m, f>> \in Fragment(e) <=> /\ m \in DOMAIN Workload[e]
                                          /\ Workload[e][m].op # "DRIVER1"
                                          /\ f \in 1 .. MsgLen(e, m)
  BY <1>1
<1>4. ASSUME NEW g \in Fragment(e)
      PROVE  /\ g = <<g[1], g[2]>>
             /\ g[1] \in Nat /\ g[1] >= 1
             /\ g[2] \in Nat /\ g[2] >= 1
             /\ g[1] \in DOMAIN Workload[e]
             /\ Workload[e][g[1]].op # "DRIVER1"
             /\ g[2] <= MsgLen(e, g[1])
  <2>1. PICK m \in DOMAIN Workload[e] :
          /\ Workload[e][m].op # "DRIVER1"
          /\ \E f \in 1 .. MsgLen(e, m) : g = <<m, f>>
    BY <1>1
  <2>2. PICK f \in 1 .. MsgLen(e, m) : g = <<m, f>>
    BY <2>1
  <2>3. g[1] = m /\ g[2] = f
    BY <2>2
  <2>4. m \in Nat /\ m >= 1 /\ f \in Nat /\ f >= 1 /\ f <= MsgLen(e, m)
    BY <1>2
  <2> QED
    BY <2>1, <2>2, <2>3, <2>4
<1> QED
  BY <1>3, <1>4

\* The kinds of workloads.
LEMMA TrafficFacts ==
    ASSUME Traffic, NEW e \in Endpoint
    PROVE  /\ e \in Requester =>
                /\ Peer[e] \notin Requester
                /\ \A m \in DOMAIN Workload[e] :
                     Workload[e][m].op \in {"SEND", "WRITE"} /\ MsgLen(e, m) > 0
           /\ e \notin Requester =>
                \/ \A m \in DOMAIN Workload[e] :
                     Workload[e][m].op = "DRIVER1" /\ MsgLen(e, m) > 0
                \/ \A m \in DOMAIN Workload[e] :
                     Workload[e][m].op # "DRIVER1" /\ MsgLen(e, m) = 0
           /\ \A m \in DOMAIN Workload[e] : MsgLen(e, m) \in Nat
<1>0. \A m \in DOMAIN Workload[e] :
        MsgLen(e, m) \in Nat /\ Workload[e][m].op \in {"SEND", "WRITE", "DRIVER1"}
  BY WorkloadFacts DEF MsgLen
<1>1. e \in Requester <=> \E g : g \in Fragment(e)
  BY DEF Requester
<1>2. \/ \A m \in DOMAIN Workload[e] :
           Workload[e][m].op = "DRIVER1" /\ MsgLen(e, m) > 0
      \/ \A m \in DOMAIN Workload[e] :
           Workload[e][m].op # "DRIVER1" /\ MsgLen(e, m) > 0
      \/ \A m \in DOMAIN Workload[e] :
           Workload[e][m].op # "DRIVER1" /\ MsgLen(e, m) = 0
  BY DEF Traffic, OneKind, MsgLen
<1>3. ASSUME e \in Requester
      PROVE  \A m \in DOMAIN Workload[e] :
               Workload[e][m].op \in {"SEND", "WRITE"} /\ MsgLen(e, m) > 0
  <2>1. PICK g \in Fragment(e) : TRUE
    BY <1>1, <1>3
  <2>2. /\ g[1] \in DOMAIN Workload[e] /\ Workload[e][g[1]].op # "DRIVER1"
        /\ g[2] \in Nat /\ g[2] >= 1 /\ g[2] <= MsgLen(e, g[1])
    BY FragmentFacts
  <2>3. MsgLen(e, g[1]) # 0
    BY <1>0, <2>2
  <2>4. \A m \in DOMAIN Workload[e] :
           Workload[e][m].op # "DRIVER1" /\ MsgLen(e, m) > 0
    BY <1>2, <2>2, <2>3
  <2> QED
    BY <1>0, <2>4
<1>4. ASSUME e \notin Requester, NEW m \in DOMAIN Workload[e],
             Workload[e][m].op # "DRIVER1"
      PROVE  MsgLen(e, m) = 0
  <2> SUFFICES ASSUME MsgLen(e, m) > 0
               PROVE  FALSE
    BY <1>0
  <2>1. 1 \in 1 .. MsgLen(e, m)
    BY <1>0
  <2>2. <<m, 1>> \in Fragment(e)
    BY <1>4, <2>1, FragmentFacts
  <2> QED
    BY <1>1, <1>4, <2>2
<1>5. e \in Requester => Peer[e] \notin Requester
  BY DEF Traffic, OneWay
<1>6. ASSUME e \notin Requester
      PROVE  \/ \A m \in DOMAIN Workload[e] :
                  Workload[e][m].op = "DRIVER1" /\ MsgLen(e, m) > 0
             \/ \A m \in DOMAIN Workload[e] :
                  Workload[e][m].op # "DRIVER1" /\ MsgLen(e, m) = 0
  BY <1>2, <1>4, <1>6
<1> QED
  BY <1>0, <1>3, <1>5, <1>6

\* Posting order is a strict order.
LEMMA BeforeFacts ==
    ASSUME NEW e \in Endpoint,
           NEW f \in Fragment(e), NEW g \in Fragment(e), NEW h \in Fragment(e)
    PROVE  /\ ~Before(f, f)
           /\ Before(f, g) /\ Before(g, h) => Before(f, h)
           /\ Before(f, g) => ~Before(g, f)
           /\ f = g \/ Before(f, g) \/ Before(g, f)
<1>1. /\ f[1] \in Nat /\ f[2] \in Nat /\ f = <<f[1], f[2]>>
      /\ g[1] \in Nat /\ g[2] \in Nat /\ g = <<g[1], g[2]>>
      /\ h[1] \in Nat /\ h[2] \in Nat
  BY FragmentFacts
<1>2. f = g <=> f[1] = g[1] /\ f[2] = g[2]
  BY <1>1
<1> QED
  BY <1>1, <1>2 DEF Before

\* Posting order survives the next fragment.
LEMMA PostedAppend ==
    ASSUME NEW e \in Endpoint, NEW s \in Seq(Nat \X Nat), InPostedOrder(e, s),
           NEW f \in Fragment(e),
           \A i \in 1 .. Len(s) : Before(s[i], f),
           \A g \in Fragment(e) : Before(g, f) => \E i \in 1 .. Len(s) : s[i] = g
    PROVE  InPostedOrder(e, Append(s, f))
<1> DEFINE t == Append(s, f)
<1>0. f \in Nat \X Nat
  BY FragmentFacts
<1>1. /\ Len(s) \in Nat /\ DOMAIN s = 1 .. Len(s)
      /\ DOMAIN t = 1 .. Len(s) + 1
      /\ \A i \in 1 .. Len(s) : t[i] = s[i]
      /\ t[Len(s) + 1] = f
  BY <1>0, LenProperties, AppendProperties
<1>2. /\ \A i \in 1 .. Len(s) : s[i] \in Fragment(e)
      /\ \A i, j \in 1 .. Len(s) : i < j => Before(s[i], s[j])
      /\ \A i \in 1 .. Len(s) : \A g \in Fragment(e) :
           Before(g, s[i]) => \E j \in 1 .. Len(s) : s[j] = g
  BY <1>1 DEF InPostedOrder
<1> HIDE DEF t
<1>3. \A i \in 1 .. Len(s) + 1 : i \in 1 .. Len(s) \/ i = Len(s) + 1
  BY <1>1
<1>4. \A i \in DOMAIN t : t[i] \in Fragment(e)
  BY <1>1, <1>2, <1>3
<1>5. ASSUME NEW i \in DOMAIN t, NEW j \in DOMAIN t, i < j
      PROVE  Before(t[i], t[j])
  <2>1. i \in 1 .. Len(s)
    BY <1>1, <1>5
  <2>2. CASE j = Len(s) + 1
    BY <1>1, <2>1, <2>2
  <2>3. CASE j \in 1 .. Len(s)
    BY <1>1, <1>2, <1>5, <2>1, <2>3
  <2> QED
    BY <1>1, <1>3, <2>2, <2>3
<1>6. ASSUME NEW i \in DOMAIN t, NEW g \in Fragment(e), Before(g, t[i])
      PROVE  \E j \in DOMAIN t : t[j] = g
  <2>1. \E j \in 1 .. Len(s) : s[j] = g
    <3>1. CASE i = Len(s) + 1
      BY <1>1, <1>6, <3>1
    <3>2. CASE i \in 1 .. Len(s)
      BY <1>1, <1>2, <1>6, <3>2
    <3> QED
      BY <1>1, <1>3, <3>1, <3>2
  <2>2. \A j \in 1 .. Len(s) : j \in DOMAIN t
    BY <1>1
  <2> QED
    BY <1>1, <2>1, <2>2
<1> QED
  BY <1>4, <1>5, <1>6 DEF InPostedOrder, t

\* ... and holds of every beginning.
LEMMA PostedPrefix ==
    ASSUME NEW e \in Endpoint, NEW s \in Seq(Nat \X Nat), InPostedOrder(e, s),
           NEW t \in Seq(Nat \X Nat), Len(t) <= Len(s),
           \A i \in 1 .. Len(t) : t[i] = s[i]
    PROVE  InPostedOrder(e, t)
<1>1. /\ Len(s) \in Nat /\ DOMAIN s = 1 .. Len(s)
      /\ Len(t) \in Nat /\ DOMAIN t = 1 .. Len(t)
      /\ \A i \in 1 .. Len(t) : i \in 1 .. Len(s)
  BY LenProperties
<1>2. /\ \A i \in 1 .. Len(s) : s[i] \in Fragment(e)
      /\ \A i, j \in 1 .. Len(s) : i < j => Before(s[i], s[j])
      /\ \A i \in 1 .. Len(s) : \A g \in Fragment(e) :
           Before(g, s[i]) => \E j \in 1 .. Len(s) : s[j] = g
  BY <1>1 DEF InPostedOrder
<1>3. ASSUME NEW i \in 1 .. Len(t), NEW g \in Fragment(e), Before(g, t[i])
      PROVE  \E j \in 1 .. Len(t) : t[j] = g
  <2>1. PICK j \in 1 .. Len(s) : s[j] = g
    BY <1>1, <1>2, <1>3
  <2>2. s[i] \in Fragment(e) /\ s[j] \in Fragment(e) /\ Before(s[j], s[i])
    BY <1>1, <1>2, <1>3, <2>1
  <2>3. ~(i < j) /\ i # j
    BY <1>1, <1>2, <2>2, BeforeFacts
  <2>4. j \in 1 .. Len(t)
    BY <1>1, <2>3
  <2> QED
    BY <2>1, <2>4
<1> QED
  BY <1>1, <1>2, <1>3 DEF InPostedOrder

\* A fragment is sent once, and what was posted later is sent later.
LEMMA PostedPlace ==
    ASSUME NEW e \in Endpoint, NEW s \in Seq(Nat \X Nat), InPostedOrder(e, s),
           NEW i \in 1 .. Len(s), NEW j \in 1 .. Len(s)
    PROVE  /\ s[i] \in Fragment(e)
           /\ Before(s[i], s[j]) => i < j
           /\ s[i] = s[j] => i = j
<1>1. /\ Len(s) \in Nat /\ DOMAIN s = 1 .. Len(s)
  BY LenProperties
<1>2. /\ \A k \in 1 .. Len(s) : s[k] \in Fragment(e)
      /\ \A k, l \in 1 .. Len(s) : k < l => Before(s[k], s[l])
  BY <1>1 DEF InPostedOrder
<1>3. /\ ~Before(s[i], s[i])
      /\ Before(s[i], s[j]) => ~Before(s[j], s[i])
  BY <1>2, BeforeFacts
<1>4. i < j \/ i = j \/ j < i
  OBVIOUS
<1> QED
  BY <1>2, <1>3, <1>4

-----------------------------------------------------------------------------
(* The send ring *)

\* Messages less than a ring apart are in different slots.
LEMMA SlotApart ==
    ASSUME NEW m \in Nat, NEW k \in Nat, m >= 1, k > m, k - m < WqeCnt
    PROVE  (m - 1) % WqeCnt # (k - 1) % WqeCnt
<1>1. /\ m - 1 \in Nat /\ k - 1 \in Nat
      /\ m - 1 < k - 1 /\ k - 1 < (m - 1) + WqeCnt
  BY ConstantFacts
<1> QED
  BY <1>1, ConstantFacts, SlotDistinct

LEMMA SlotInRing ==
    ASSUME NEW m \in Int
    PROVE  (m - 1) % WqeCnt \in 0 .. WqeCnt - 1
<1>1. m - 1 \in Int
  OBVIOUS
<1> QED
  BY <1>1, ConstantFacts, SlotAndTurn

\* Cursors that agree in the ring agree.
LEMMA SameSlot ==
    ASSUME NEW p \in Nat, NEW q \in Nat, p <= q, q - p < WqeCnt,
           p % WqeCnt = q % WqeCnt
    PROVE  p = q
<1> SUFFICES ASSUME p < q
             PROVE  FALSE
  OBVIOUS
<1>1. q < p + WqeCnt
  BY ConstantFacts
<1> QED
  BY <1>1, ConstantFacts, SlotDistinct

\* The numbers the parts of the invariant speak of.
LEMMA CountFacts ==
    ASSUME TypeInv, NEW e \in Endpoint
    PROVE  /\ Done(e) \in Nat /\ taken[e] \in Nat
           /\ Len(sent[e]) \in Nat /\ Len(executed[e]) \in Nat
           /\ Peer[e] \in Endpoint /\ Len(executed[Peer[e]]) \in Nat
           /\ Len(sent[Peer[e]]) \in Nat
           /\ sent[e] \in Seq(Nat \X Nat) /\ executed[Peer[e]] \in Seq(Nat \X Nat)
           /\ executed[e] \in Seq(Nat \X Nat)
           /\ completed[e] \in Seq(Nat)
           /\ taken[e] <= Len(Workload[e])
           /\ \A m \in 1 .. taken[e] : m \in DOMAIN Workload[e]
<1>1. /\ completed[e] \in Seq(Nat) /\ sent[e] \in Seq(Nat \X Nat)
      /\ executed[e] \in Seq(Nat \X Nat) /\ taken[e] \in Nat
      /\ taken[e] <= Len(Workload[e])
  BY DEF TypeInv, TypeOK, Filled
<1>2. Peer[e] \in Endpoint
  BY ConstantFacts
<1>3. executed[Peer[e]] \in Seq(Nat \X Nat) /\ sent[Peer[e]] \in Seq(Nat \X Nat)
  BY <1>2 DEF TypeInv, TypeOK
<1>4. /\ Len(completed[e]) \in Nat /\ Len(sent[e]) \in Nat /\ Len(executed[e]) \in Nat
      /\ Len(executed[Peer[e]]) \in Nat /\ Len(sent[Peer[e]]) \in Nat
  BY <1>1, <1>3, LenProperties
<1>5. \A m \in 1 .. taken[e] : m \in DOMAIN Workload[e]
  BY <1>1, WorkloadFacts
<1> QED
  BY <1>1, <1>2, <1>3, <1>4, <1>5 DEF Done

\* Where the cursors point.
LEMMA CursorFacts ==
    ASSUME TypeInv, Traffic, NEW e \in Endpoint, NEW q \in Nat, RingPart(e, q)
    PROVE  /\ IsEmpty(e) <=> Done(e) = taken[e]
           /\ wqeIndex[e] # head[e] => q < taken[e]
           /\ CurWqe(e) = Slot(e, q + 1)
           /\ TailWqe(e) = Slot(e, Done(e) + 1)
           /\ \A m \in Nat : Slot(e, m) \in Wqe
           /\ Done(e) < taken[e] => TailWqe(e).msg = Done(e) + 1
           /\ q < taken[e] => CurWqe(e).msg = q + 1
<1>1. /\ Done(e) \in Nat /\ taken[e] \in Nat
  BY CountFacts
<1>2. /\ Done(e) <= q /\ q <= taken[e] /\ taken[e] - Done(e) < WqeCnt
      /\ taken[e] - q < WqeCnt
  BY <1>1, ConstantFacts DEF RingPart, Traffic, RingHasRoom
<1>3. IsEmpty(e) <=> Done(e) = taken[e]
  <2>1. Done(e) <= taken[e]
    BY <1>1, <1>2
  <2>2. Done(e) % WqeCnt = taken[e] % WqeCnt => Done(e) = taken[e]
    BY <1>1, <1>2, <2>1, SameSlot
  <2> QED
    BY <2>2 DEF IsEmpty, RingPart
<1>4. wqeIndex[e] # head[e] => q < taken[e]
  BY <1>1, <1>2 DEF RingPart
<1>5. /\ CurWqe(e) = Slot(e, q + 1)
      /\ TailWqe(e) = Slot(e, Done(e) + 1)
  <2>1. (q + 1) - 1 = q /\ (Done(e) + 1) - 1 = Done(e)
    BY <1>1
  <2>2. wqeIndex[e] = q % WqeCnt /\ tail[e] = Done(e) % WqeCnt
    BY DEF RingPart
  <2>3. /\ Slot(e, q + 1) = ring[e][((q + 1) - 1) % WqeCnt]
        /\ Slot(e, Done(e) + 1) = ring[e][((Done(e) + 1) - 1) % WqeCnt]
    BY DEF Slot
  <2>4. /\ Slot(e, q + 1) = ring[e][q % WqeCnt]
        /\ Slot(e, Done(e) + 1) = ring[e][Done(e) % WqeCnt]
    BY <2>1, <2>3
  <2> QED
    BY <2>2, <2>4 DEF CurWqe, TailWqe
<1>6. ASSUME NEW m \in Nat
      PROVE  Slot(e, m) \in Wqe
  <2>1. (m - 1) % WqeCnt \in 0 .. WqeCnt - 1
    BY SlotInRing
  <2>2. ring[e] \in [0 .. WqeCnt - 1 -> Wqe]
    BY DEF TypeInv, TypeOK
  <2> QED
    BY <2>1, <2>2, Zenon DEF Slot
<1>7. \A m \in Done(e) + 1 .. taken[e] : Slot(e, m).msg = m
  BY DEF RingPart
<1>8. Done(e) < taken[e] => TailWqe(e).msg = Done(e) + 1
  BY <1>1, <1>5, <1>7
<1>9. q < taken[e] => CurWqe(e).msg = q + 1
  BY <1>1, <1>2, <1>5, <1>7
<1> QED
  BY <1>3, <1>4, <1>5, <1>6, <1>8, <1>9

-----------------------------------------------------------------------------
(* What a step leaves alone *)

LEMMA RingKept ==
    ASSUME NEW e \in Endpoint, NEW q \in Nat, RingPart(e, q),
           taken'[e] = taken[e], ring'[e] = ring[e], head'[e] = head[e],
           tail'[e] = tail[e], wqeIndex'[e] = wqeIndex[e],
           completed'[e] = completed[e]
    PROVE  RingPart(e, q)'
<1>1. Done(e)' = Done(e) /\ \A m : Slot(e, m)' = Slot(e, m)
  BY DEF Done, Slot
<1> QED
  BY <1>1 DEF RingPart

LEMMA SentKept ==
    ASSUME NEW e \in Endpoint, NEW q \in Nat, SentPart(e, q),
           Off(e, q)' = Off(e, q),
           sendPsn'[e] = sendPsn[e], sendOpcode'[e] = sendOpcode[e],
           sent'[e] = sent[e]
    PROVE  SentPart(e, q)'
<1> QED
  BY DEF SentPart, InPostedOrder

LEMMA WqeKept ==
    ASSUME NEW e \in Endpoint, NEW q \in Nat, NEW c \in Nat, WqePart(e, q, c),
           taken'[e] = taken[e], ring'[e] = ring[e],
           completed'[e] = completed[e], sent'[e] = sent[e]
    PROVE  WqePart(e, q, c)'
<1>1. Done(e)' = Done(e) /\ \A m : Slot(e, m)' = Slot(e, m)
  BY DEF Done, Slot
<1>2. ASSUME NEW m
      PROVE  /\ PendingPart(e, m, c)' <=> PendingPart(e, m, c)
             /\ UnsentPart(e, m, q)' <=> UnsentPart(e, m, q)
  BY <1>1 DEF PendingPart, UnsentPart
<1> QED
  BY <1>1, <1>2 DEF WqePart

LEMMA AckKept ==
    ASSUME NEW e \in Endpoint, NEW c \in Nat, AckPart(e, c),
           compPsn'[e] = compPsn[e], sent'[e] = sent[e],
           executed'[Peer[e]] = executed[Peer[e]], completed'[e] = completed[e]
    PROVE  AckPart(e, c)'
<1>1. Done(e)' = Done(e)
  BY DEF Done
<1> QED
  BY <1>1 DEF AckPart

LEMMA DeliveryKept ==
    ASSUME NEW e \in Endpoint, DeliveryPart(e),
           sent'[e] = sent[e], executed'[Peer[e]] = executed[Peer[e]],
           recvPsn'[Peer[e]] = recvPsn[Peer[e]], ackPsn'[Peer[e]] = ackPsn[Peer[e]]
    PROVE  DeliveryPart(e)'
BY DEF DeliveryPart

\* The requests of an endpoint are untouched.
LEMMA FlowKept ==
    ASSUME NEW e \in Endpoint, FlowInv(e),
           taken'[e] = taken[e], ring'[e] = ring[e], head'[e] = head[e],
           tail'[e] = tail[e], wqeIndex'[e] = wqeIndex[e],
           sendPsn'[e] = sendPsn[e], sendOpcode'[e] = sendOpcode[e],
           compPsn'[e] = compPsn[e],
           completed'[e] = completed[e], sent'[e] = sent[e],
           executed'[Peer[e]] = executed[Peer[e]],
           e \in Requester => /\ recvPsn'[Peer[e]] = recvPsn[Peer[e]]
                              /\ ackPsn'[Peer[e]] = ackPsn[Peer[e]],
           e \notin Requester => pc'[e] # "ack"
    PROVE  FlowInv(e)'
<1>0. /\ Done(e)' = Done(e) /\ \A m : Slot(e, m)' = Slot(e, m)
      /\ \A q : Off(e, q)' = Off(e, q)
  BY DEF Done, Slot, Off
<1>1. CASE e \in Requester
  <2>1. PICK q \in Nat, c \in Nat : RequestFlow(e, q, c)
    BY <1>1 DEF FlowInv
  <2>2. RingPart(e, q)' /\ SentPart(e, q)'
    BY <1>0, <2>1, RingKept, SentKept DEF RequestFlow
  <2>3. WqePart(e, q, c)' /\ AckPart(e, c)' /\ DeliveryPart(e)'
    BY <1>1, <2>1, WqeKept, AckKept, DeliveryKept DEF RequestFlow
  <2>4. RequestFlow(e, q, c)'
    BY <2>2, <2>3 DEF RequestFlow
  <2> QED
    BY <1>1, <2>4 DEF FlowInv
<1>2. CASE e \notin Requester
  <2>1. PICK q \in Nat : RingPart(e, q) /\ PassivePart(e, q)
    BY <1>2 DEF FlowInv
  <2>2. RingPart(e, q)'
    BY <2>1, RingKept
  <2>3. PassivePart(e, q)'
    BY <1>0, <1>2, <2>1 DEF PassivePart
  <2> QED
    BY <1>2, <2>2, <2>3 DEF FlowInv
<1> QED
  BY <1>1, <1>2

\* The histories only grow.
HistoryGrows ==
    \A x \in Endpoint :
      /\ Len(sent[x]) <= Len(sent'[x])
      /\ \A j \in 1 .. Len(sent[x]) : sent'[x][j] = sent[x][j]
      /\ Len(executed[x]) <= Len(executed'[x])

LEMMA HistoryKept ==
    ASSUME TypeInv, sent' = sent, executed' = executed
    PROVE  HistoryGrows
<1>1. \A x \in Endpoint : Len(sent[x]) \in Nat /\ Len(executed[x]) \in Nat
  BY CountFacts
<1> QED
  BY <1>1 DEF HistoryGrows

\* ... so that what a packet says stays true.
LEMMA PacketKept ==
    ASSUME TypeInv, TypeOK', HistoryGrows,
           NEW x \in Endpoint, NEW p \in Packet, PacketOK(x, p)
    PROVE  PacketOK(x, p)'
<1>0. Peer[x] \in Endpoint
  BY ConstantFacts
<1>1. /\ Len(sent[Peer[x]]) \in Nat /\ Len(executed[Peer[x]]) \in Nat
      /\ Len(sent[Peer[x]])' \in Nat /\ Len(executed[Peer[x]])' \in Nat
  <2>1. sent'[Peer[x]] \in Seq(Nat \X Nat) /\ executed'[Peer[x]] \in Seq(Nat \X Nat)
    BY <1>0 DEF TypeOK
  <2> QED
    BY <2>1, CountFacts, LenProperties
<1>2. /\ Len(sent[Peer[x]]) <= Len(sent[Peer[x]])'
      /\ \A j \in 1 .. Len(sent[Peer[x]]) : sent'[Peer[x]][j] = sent[Peer[x]][j]
      /\ Len(executed[Peer[x]]) <= Len(executed[Peer[x]])'
  BY <1>0 DEF HistoryGrows
<1>3. p.number \in Int
  BY DEF Packet, ReqPacket, AckPacket
<1>4. CASE p.kind = "REQ"
  <2>1. p.number + 1 \in 1 .. Len(sent[Peer[x]])
    BY <1>1, <1>3, <1>4 DEF PacketOK
  <2>2. p.number < Len(sent[Peer[x]])'
    BY <1>1, <1>2, <1>3, <1>4 DEF PacketOK
  <2> QED
    BY <1>2, <1>4, <2>1, <2>2 DEF PacketOK, MsgLen
<1>5. CASE p.kind # "REQ"
  <2>1. p.number <= Len(executed[Peer[x]])'
    BY <1>1, <1>2, <1>3, <1>5 DEF PacketOK
  <2>2. p.kind = "ACK" => p.number < Len(executed[Peer[x]])'
    BY <1>1, <1>2, <1>3, <1>5 DEF PacketOK
  <2> QED
    BY <1>5, <2>1, <2>2 DEF PacketOK
<1> QED
  BY <1>4, <1>5

\* Packets are old ones or say what is true now.
LEMMA NetStep ==
    ASSUME TypeInv, TypeOK', HistoryGrows,
           NEW x \in Endpoint, NetPart(x),
           \A i \in 1 .. Len(net'[x]) :
             \/ \E j \in 1 .. Len(net[x]) : net'[x][i] = net[x][j]
             \/ \E p \in Packet : net'[x][i] = p /\ PacketOK(x, p)'
    PROVE  NetPart(x)'
<1> SUFFICES ASSUME NEW i \in 1 .. Len(net'[x])
             PROVE  PacketOK(x, net[x][i])'
  BY DEF NetPart
<1>1. \E p \in Packet : net'[x][i] = p /\ PacketOK(x, p)'
  <2>1. CASE \E j \in 1 .. Len(net[x]) : net'[x][i] = net[x][j]
    <3>1. PICK j \in 1 .. Len(net[x]) : net'[x][i] = net[x][j]
      BY <2>1
    <3>2. net[x] \in Seq(Packet)
      BY DEF TypeInv, TypeOK
    <3>3. net[x][j] \in Packet
      BY <3>2, ElementOfSeq
    <3>4. PICK p \in Packet : p = net[x][j]
      BY <3>3
    <3>5. PacketOK(x, p)
      BY <3>4 DEF NetPart
    <3> QED
      BY <3>1, <3>4, <3>5, PacketKept
  <2> QED
    BY <2>1
<1>2. PICK p \in Packet : net'[x][i] = p /\ PacketOK(x, p)'
  BY <1>1
<1> QED
  BY <1>2 DEF PacketOK

\* Handling a packet takes it off its queue; it may be answered.
LEMMA HandledNet ==
    ASSUME TypeInv, NEW e \in Endpoint, net[e] # <<>>, NEW a \in Packet,
           \/ Consume(e)
           \/ net' = [net EXCEPT ![e] = Tail(@), ![Peer[e]] = Append(@, a)]
    PROVE  \A x \in Endpoint : \A i \in 1 .. Len(net'[x]) :
             \/ \E j \in 1 .. Len(net[x]) : net'[x][i] = net[x][j]
             \/ x = Peer[e] /\ net'[x][i] = a
<1>0. /\ net \in [Endpoint -> Seq(Packet)] /\ Peer[e] \in Endpoint /\ Peer[e] # e
  BY ConstantFacts DEF TypeInv, TypeOK
<1>1. /\ net[e] \in Seq(Packet) /\ Len(net[e]) \in Nat
      /\ Tail(net[e]) \in Seq(Packet) /\ Len(Tail(net[e])) = Len(net[e]) - 1
      /\ \A i \in 1 .. Len(Tail(net[e])) : Tail(net[e])[i] = net[e][i + 1]
  <2>1. net[e] \in Seq(Packet)
    BY <1>0
  <2> QED
    BY <2>1, LenProperties, HeadTailProperties
<1>2. ASSUME NEW i \in 1 .. Len(Tail(net[e]))
      PROVE  \E j \in 1 .. Len(net[e]) : Tail(net[e])[i] = net[e][j]
  <2>1. i + 1 \in 1 .. Len(net[e])
    BY <1>1
  <2> QED
    BY <1>1, <2>1
<1>3. ASSUME NEW i \in 1 .. Len(Append(net[Peer[e]], a))
      PROVE  \/ \E j \in 1 .. Len(net[Peer[e]]) :
                  Append(net[Peer[e]], a)[i] = net[Peer[e]][j]
             \/ Append(net[Peer[e]], a)[i] = a
  <2>1. net[Peer[e]] \in Seq(Packet)
    BY <1>0
  <2>2. /\ Len(net[Peer[e]]) \in Nat
        /\ Len(Append(net[Peer[e]], a)) = Len(net[Peer[e]]) + 1
        /\ \A j \in 1 .. Len(net[Peer[e]]) :
             Append(net[Peer[e]], a)[j] = net[Peer[e]][j]
        /\ Append(net[Peer[e]], a)[Len(net[Peer[e]]) + 1] = a
    BY <2>1, LenProperties, AppendProperties
  <2>3. i \in 1 .. Len(net[Peer[e]]) \/ i = Len(net[Peer[e]]) + 1
    BY <2>2
  <2> QED
    BY <2>2, <2>3
<1> SUFFICES ASSUME NEW x \in Endpoint, NEW i \in 1 .. Len(net'[x])
             PROVE  \/ \E j \in 1 .. Len(net[x]) : net'[x][i] = net[x][j]
                    \/ x = Peer[e] /\ net'[x][i] = a
  OBVIOUS
<1>4. CASE net'[x] = net[x]
  BY <1>4
<1>5. CASE x = e
  <2>1. net'[e] = Tail(net[e])
    BY <1>0 DEF Consume
  <2> QED
    BY <1>2, <1>5, <2>1
<1>6. CASE x # e /\ net'[x] # net[x]
  <2>1. x = Peer[e] /\ net'[x] = Append(net[Peer[e]], a)
    BY <1>0, <1>6 DEF Consume
  <2> QED
    BY <1>3, <2>1
<1> QED
  BY <1>4, <1>5, <1>6

-----------------------------------------------------------------------------
(* The initial state and the steps that move no message *)

LEMMA DataInit ==
    ASSUME Traffic, Init
    PROVE  DataInv
<1>0. TypeInv
  BY InitType
<1>1. RecvCqePerSend
  <2> SUFFICES ASSUME NEW e \in Endpoint
               PROVE  recvCqes[e] =
                        Cardinality({m \in DOMAIN Workload[Peer[e]] :
                           /\ Workload[Peer[e]][m].op = "SEND"
                           /\ <<m, Workload[Peer[e]][m].len>> \in ToSet(executed[e])})
    BY DEF RecvCqePerSend
  <2>1. recvCqes[e] = 0 /\ executed[e] = <<>>
    BY DEF Init
  <2>2. ToSet(executed[e]) = {}
    BY <2>1 DEF ToSet
  <2>3. Cardinality({}) = 0
    BY FS_EmptySet
  <2>4. {m \in DOMAIN Workload[Peer[e]] :
           /\ Workload[Peer[e]][m].op = "SEND"
           /\ <<m, Workload[Peer[e]][m].len>> \in ToSet(executed[e])} = {}
    BY <2>2
  <2> QED
    BY <2>1, <2>3, <2>4
<1> SUFFICES ASSUME NEW e \in Endpoint
             PROVE  FlowInv(e) /\ NetPart(e)
  BY <1>1 DEF DataInv
<1>2. NetPart(e)
  <2>1. net[e] = <<>>
    BY DEF Init
  <2> QED
    BY <2>1 DEF NetPart
<1>3. /\ Peer[e] \in Endpoint
      /\ 0 % PsnMod = 0 /\ 0 % WqeCnt = 0
  <2>1. 0 \in 0 .. PsnMod - 1 /\ 0 \in 0 .. WqeCnt - 1
    BY ConstantFacts
  <2>2. 0 % PsnMod = 0
    BY <2>1, ConstantFacts, SlotFirstTurn
  <2>3. 0 % WqeCnt = 0
    BY <2>1, ConstantFacts, SlotFirstTurn
  <2> QED
    BY <2>2, <2>3, ConstantFacts
<1>4. /\ taken[e] = 0 /\ completed[e] = <<>> /\ Done(e) = 0
      /\ head[e] = 0 /\ tail[e] = 0 /\ wqeIndex[e] = 0
      /\ sent[e] = <<>> /\ executed[Peer[e]] = <<>> /\ sendPsn[e] = 0
      /\ sendOpcode[e] = [op |-> "SEND", pos |-> "FIRST"]
      /\ compPsn[e] = 0 /\ recvPsn[Peer[e]] = 0 /\ ackPsn[Peer[e]] = 0
      /\ pc[e] = "loop"
  BY <1>3 DEF Init, Done
<1>5. RingPart(e, 0)
  <2>1. \A m : ~(m \in 0 + 1 .. 0) /\ ~(m \in 1 .. 0)
    OBVIOUS
  <2> QED
    BY <1>3, <1>4, <2>1, ConstantFacts DEF RingPart
<1>6. CASE e \in Requester
  <2>1. Off(e, 0) = 0
    BY <1>4 DEF Off
  <2>2. SentPart(e, 0)
    <3>1. InPostedOrder(e, sent[e])
      BY <1>4 DEF InPostedOrder
    <3>2. Len(sent[e]) = 0
      BY <1>4
    <3> QED
      BY <1>3, <1>4, <2>1, <3>1, <3>2 DEF SentPart
  <2>3. WqePart(e, 0, 0)
    BY <1>4 DEF WqePart
  <2>4. AckPart(e, 0)
    BY <1>3, <1>4, ConstantFacts DEF AckPart
  <2>5. DeliveryPart(e)
    BY <1>3, <1>4 DEF DeliveryPart
  <2>6. RequestFlow(e, 0, 0)
    BY <1>5, <2>2, <2>3, <2>4, <2>5 DEF RequestFlow
  <2> SUFFICES \E q, c \in Nat : RequestFlow(e, q, c)
    BY <1>2, <1>6 DEF FlowInv
  <2> WITNESS 0 \in Nat, 0 \in Nat
  <2> QED
    BY <2>6
<1>7. CASE e \notin Requester
  <2>1. \/ \A m \in DOMAIN Workload[e] : Workload[e][m].op = "DRIVER1"
        \/ \A m \in DOMAIN Workload[e] : Workload[e][m].op # "DRIVER1"
    BY <1>7, TrafficFacts
  <2>2. PassivePart(e, 0)
    BY <1>4, <2>1 DEF PassivePart
  <2> SUFFICES \E q \in Nat : RingPart(e, q) /\ PassivePart(e, q)
    BY <1>2, <1>7 DEF FlowInv
  <2> WITNESS 0 \in Nat
  <2> QED
    BY <1>5, <2>2
<1> QED
  BY <1>2, <1>6, <1>7

\* A step that only moves packets, the thread or the receive buffers.
LEMMA QuietStep ==
    ASSUME TransportInv, TypeOK',
           taken' = taken, ring' = ring, head' = head, tail' = tail,
           wqeIndex' = wqeIndex, sendPsn' = sendPsn, sendOpcode' = sendOpcode,
           compPsn' = compPsn, recvPsn' = recvPsn, ackPsn' = ackPsn,
           sent' = sent, executed' = executed, recvCqes' = recvCqes,
           completed' = completed,
           \A x \in Endpoint : x \notin Requester => pc'[x] # "ack",
           \A x \in Endpoint : \A i \in 1 .. Len(net'[x]) :
             \/ \E j \in 1 .. Len(net[x]) : net'[x][i] = net[x][j]
             \/ \E p \in Packet : net'[x][i] = p /\ PacketOK(x, p)'
    PROVE  DataInv'
<1>0. TypeInv /\ RecvCqePerSend /\ \A x \in Endpoint : FlowInv(x) /\ NetPart(x)
  BY DEF TransportInv, DataInv
<1>1. RecvCqePerSend'
  BY <1>0 DEF RecvCqePerSend
<1>2. HistoryGrows
  BY <1>0, HistoryKept
<1>3. ASSUME NEW x \in Endpoint
      PROVE  FlowInv(x)'
  BY <1>0, FlowKept
<1>4. ASSUME NEW x \in Endpoint
      PROVE  NetPart(x)'
  BY <1>0, <1>2, NetStep
<1> QED
  BY <1>1, <1>3, <1>4 DEF DataInv

\* Only a requester looks at acknowledgements, only its peer at requests.
LEMMA Roles ==
    ASSUME TransportInv, NEW e \in Endpoint
    PROVE  /\ e \notin Requester => pc[e] # "ack"
           /\ Acking(e) => e \in Requester /\ PacketOK(e, Head(net[e]))
           /\ net[e] # <<>> /\ Head(net[e]).kind = "REQ" =>
                Peer[e] \in Requester /\ PacketOK(e, Head(net[e]))
<1>0. TypeInv /\ FlowInv(e) /\ NetPart(e)
  BY DEF TransportInv, DataInv
<1>1. net[e] \in Seq(Packet)
  BY <1>0 DEF TypeInv, TypeOK
<1>2. net[e] # <<>> => PacketOK(e, Head(net[e]))
  <2> SUFFICES ASSUME net[e] # <<>>
               PROVE  PacketOK(e, Head(net[e]))
    OBVIOUS
  <2>1. 1 \in 1 .. Len(net[e]) /\ Head(net[e]) = net[e][1]
    BY <1>1
  <2> QED
    BY <1>0, <2>1 DEF NetPart
<1>3. e \notin Requester => pc[e] # "ack"
  BY <1>0 DEF FlowInv, PassivePart
<1>4. Acking(e) => net[e] # <<>> /\ Head(net[e]).kind # "REQ"
  <2>1. Acking(e) => net[e] # <<>> /\ Head(net[e]).kind \in {"ACK", "NAK"}
    BY <1>0, AckingFacts
  <2> QED
    BY <2>1
<1>5. ASSUME Acking(e)
      PROVE  e \in Requester /\ PacketOK(e, Head(net[e]))
  BY <1>2, <1>4, <1>5 DEF PacketOK
<1>6. ASSUME net[e] # <<>>, Head(net[e]).kind = "REQ"
      PROVE  Peer[e] \in Requester /\ PacketOK(e, Head(net[e]))
  BY <1>2, <1>6 DEF PacketOK
<1> QED
  BY <1>3, <1>5, <1>6

LEMMA ThreadData ==
    ASSUME TransportInv, TypeOK', NEW e \in Endpoint,
           LoopDone(e) \/ LeaveSend(e) \/ RecvDone(e) \/ AckNak(e)
    PROVE  DataInv'
<1>1. /\ taken' = taken /\ ring' = ring /\ head' = head /\ tail' = tail
      /\ wqeIndex' = wqeIndex /\ sendPsn' = sendPsn /\ sendOpcode' = sendOpcode
      /\ compPsn' = compPsn /\ recvPsn' = recvPsn /\ ackPsn' = ackPsn
      /\ sent' = sent /\ executed' = executed /\ recvCqes' = recvCqes
      /\ completed' = completed /\ net' = net
  BY DEF LoopDone, LeaveSend, RecvDone, AckNak, ringVars, reqVars, respVars
<1>2. ASSUME NEW x \in Endpoint, x \notin Requester
      PROVE  pc'[x] # "ack"
  <2>1. pc[x] # "ack"
    BY <1>2, Roles
  <2>2. pc \in [Endpoint -> {"loop", "send", "recv", "ack", "abort"}]
    BY DEF TransportInv, TypeInv, TypeOK
  <2> QED
    BY <2>1, <2>2 DEF LoopDone, LeaveSend, RecvDone, AckNak
<1> QED
  BY <1>1, <1>2, QuietStep

LEMMA NetworkData ==
    ASSUME TransportInv, TypeOK', NEW e \in Endpoint, Network(e)
    PROVE  DataInv'
<1>0. TypeInv /\ TypeOK /\ net \in [Endpoint -> Seq(Packet)]
  BY DEF TransportInv, TypeInv, TypeOK
<1>1. /\ taken' = taken /\ ring' = ring /\ head' = head /\ tail' = tail
      /\ wqeIndex' = wqeIndex /\ sendPsn' = sendPsn /\ sendOpcode' = sendOpcode
      /\ compPsn' = compPsn /\ recvPsn' = recvPsn /\ ackPsn' = ackPsn
      /\ sent' = sent /\ executed' = executed /\ recvCqes' = recvCqes
      /\ completed' = completed /\ pc' = pc
  BY DEF Network, Fault, DropNoBuffer, ringVars, reqVars, respVars
<1>2. ASSUME NEW x \in Endpoint, NEW i \in 1 .. Len(net'[x])
      PROVE  \E j \in 1 .. Len(net[x]) : net'[x][i] = net[x][j]
  <2>1. CASE Fault /\ (Lose(e) \/ Duplicate(e) \/ Delay(e))
    <3>1. PICK s \in Seq(Packet) :
            /\ net' = [net EXCEPT ![e] = s]
            /\ \A k \in 1 .. Len(s) : \E j \in 1 .. Len(net[e]) : s[k] = net[e][j]
      BY <1>0, <2>1, FaultFacts
    <3>2. CASE x = e
      BY <1>0, <3>1, <3>2
    <3>3. CASE x # e
      BY <1>0, <3>1, <3>3
    <3> QED
      BY <3>2, <3>3
  <2>2. CASE DropNoBuffer(e)
    <3>1. Consume(e) /\ net[e] # <<>>
      BY <2>2 DEF DropNoBuffer
    <3>2. net' = [net EXCEPT ![e] = Tail(@)]
      BY <3>1 DEF Consume
    <3>3. CASE x = e
      <4>1. net'[x] = Tail(net[e]) /\ net[e] \in Seq(Packet)
        BY <1>0, <3>2, <3>3
      <4>2. /\ Len(net[e]) \in Nat /\ Len(Tail(net[e])) = Len(net[e]) - 1
            /\ \A k \in 1 .. Len(Tail(net[e])) : Tail(net[e])[k] = net[e][k + 1]
        BY <3>1, <4>1, LenProperties, HeadTailProperties
      <4>3. i + 1 \in 1 .. Len(net[e])
        BY <4>1, <4>2
      <4> QED
        BY <3>3, <4>1, <4>2, <4>3
    <3>4. CASE x # e
      BY <1>0, <3>2, <3>4
    <3> QED
      BY <3>3, <3>4
  <2> QED
    BY <2>1, <2>2 DEF Network
<1>3. \A x \in Endpoint : x \notin Requester => pc'[x] # "ack"
  BY <1>1, Roles
<1> QED
  BY <1>1, <1>2, <1>3, QuietStep

-----------------------------------------------------------------------------
(* The loop that takes requests, and the requester *)

\* The tail the host knows of is not ahead of the DPU's.
LEMMA HostTailBehind ==
    ASSUME TypeInv, NEW e \in Endpoint, NEW q \in Nat, RingPart(e, q)
    PROVE  HostTail(e) \in Nat /\ HostTail(e) <= Done(e)
<1> DEFINE seen == {m \in ToSet(completed[e]) : Workload[e][m].signal}
<1>0. Done(e) \in Nat /\ completed[e] \in Seq(Nat)
  BY CountFacts
<1>1. ASSUME NEW m \in seen
      PROVE  m \in 1 .. Done(e)
  <2>1. PICK i \in DOMAIN completed[e] : m = completed[e][i]
    BY DEF ToSet
  <2>2. i \in 1 .. Done(e)
    BY <1>0, <2>1, LenProperties DEF Done
  <2> QED
    BY <2>1, <2>2 DEF RingPart
<1>2. HostTail(e) = IF seen = {} THEN 0
                    ELSE CHOOSE m \in seen : \A k \in seen : k <= m
  BY DEF HostTail
<1> HIDE DEF seen
<1>3. CASE seen = {}
  BY <1>0, <1>2, <1>3
<1>4. CASE seen # {}
  <2> DEFINE S == {Done(e) - m : m \in seen}
  <2>2. S \subseteq Nat /\ S # {}
    BY <1>0, <1>1, <1>4
  <2> HIDE DEF S
  <2>3. PICK a \in S : \A b \in S : a <= b
    BY <2>2, LeastNumber
  <2>4. \A b \in S : ~(b < a)
    BY <2>2, <2>3
  <2>5. PICK m \in seen : a = Done(e) - m
    BY DEF S
  <2>6. ASSUME NEW k \in seen
        PROVE  k <= m
    <3>1. Done(e) - k \in S
      BY DEF S
    <3>2. ~(Done(e) - k < Done(e) - m)
      BY <2>4, <2>5, <3>1
    <3>3. k \in 1 .. Done(e) /\ m \in 1 .. Done(e)
      BY <1>1
    <3> QED
      BY <1>0, <3>2, <3>3
  <2>7. HostTail(e) \in seen
    BY <1>2, <1>4, <2>6
  <2>8. HostTail(e) \in 1 .. Done(e)
    BY <1>1, <2>7
  <2> QED
    BY <1>0, <2>8
<1> QED
  BY <1>3, <1>4

LEMMA TakeWqeFlow ==
    ASSUME TransportInv, Traffic, NEW e \in Endpoint, TakeWqe(e)
    PROVE  FlowInv(e)'
<1>0. TypeInv /\ FlowInv(e)
  BY DEF TransportInv, DataInv
<1>1. /\ taken'[e] = taken[e] + 1 /\ head'[e] = Step(head[e])
      /\ ring'[e] = [ring[e] EXCEPT ![head[e]] = CopiedWqe(e)]
      /\ ring[e] \in [0 .. WqeCnt - 1 -> Wqe]
      /\ taken[e] < Len(Workload[e])
      /\ taken[e] - HostTail(e) < MaxOutstanding
      /\ tail' = tail /\ wqeIndex' = wqeIndex /\ completed' = completed
      /\ sendPsn' = sendPsn /\ sendOpcode' = sendOpcode /\ sent' = sent
      /\ compPsn' = compPsn /\ recvPsn' = recvPsn /\ ackPsn' = ackPsn
      /\ executed' = executed /\ pc' = pc
  BY <1>0 DEF TakeWqe, TypeInv, TypeOK, reqVars, respVars
<1>2. CopiedWqe(e) = [msg |-> taken[e] + 1, state |-> "posted", off |-> 0,
                      lastPsn |-> 0]
  BY DEF CopiedWqe, EmptyWqe
<1>3. Done(e) \in Nat /\ taken[e] \in Nat /\ Done(e)' = Done(e)
  BY <1>0, <1>1, CountFacts DEF Done
<1>k. PICK k \in Nat : k = taken[e] + 1
  <2>1. taken[e] + 1 \in Nat
    BY <1>3
  <2> QED
    BY <2>1
<1>4. ASSUME NEW q \in Nat, RingPart(e, q)
      PROVE  /\ RingPart(e, q)'
             /\ Slot(e, k)' = CopiedWqe(e)
             /\ \A m \in Done(e) + 1 .. taken[e] : Slot(e, m)' = Slot(e, m)
             /\ Off(e, q)' = Off(e, q)
             /\ q <= taken[e]
  <2>1. taken[e] + 1 <= Done(e) + MaxOutstanding
    BY <1>0, <1>1, <1>3, <1>4, HostTailBehind, ConstantFacts
  <2>2. head[e] = taken[e] % WqeCnt /\ head[e] = ((taken[e] + 1) - 1) % WqeCnt
    <3>1. (taken[e] + 1) - 1 = taken[e]
      BY <1>3
    <3> QED
      BY <1>4, <3>1 DEF RingPart
  <2>3. head[e] \in 0 .. WqeCnt - 1
    BY <1>0 DEF TypeInv, TypeOK
  <2>4. Slot(e, k)' = CopiedWqe(e)
    BY <1>1, <1>k, <2>2, <2>3 DEF Slot
  <2>5. ASSUME NEW m \in Done(e) + 1 .. taken[e]
        PROVE  Slot(e, m)' = Slot(e, m)
    <3>1. /\ m \in Nat /\ taken[e] + 1 \in Nat /\ m >= 1 /\ taken[e] + 1 > m
          /\ (taken[e] + 1) - m < WqeCnt
      BY <1>3, <2>1, ConstantFacts DEF Traffic, RingHasRoom
    <3>2. (m - 1) % WqeCnt # head[e]
      BY <2>2, <3>1, SlotApart
    <3>3. (m - 1) % WqeCnt \in 0 .. WqeCnt - 1
      BY <3>1, SlotInRing
    <3> QED
      BY <1>1, <3>2, <3>3 DEF Slot
  <2>6. /\ Done(e) <= q /\ q <= taken[e]
        /\ \A m \in Done(e) + 1 .. taken[e] : Slot(e, m).msg = m
    BY <1>4 DEF RingPart
  <2>7. head'[e] = (taken[e] + 1) % WqeCnt
    <3>1. head'[e] = ((taken[e] % WqeCnt) + 1) % WqeCnt
      BY <1>1, <2>2 DEF Step
    <3> QED
      BY <1>3, <3>1, ConstantFacts, WrappedStep
  <2>8. ASSUME NEW m \in Done(e) + 1 .. taken[e] + 1
        PROVE  Slot(e, m)'.msg = m
    <3>1. CASE m = taken[e] + 1
      <4>1. m = k
        BY <1>k, <3>1
      <4> QED
        BY <1>2, <2>4, <3>1, <4>1
    <3>2. CASE m # taken[e] + 1
      <4>1. m \in Done(e) + 1 .. taken[e]
        BY <1>3, <3>2
      <4> QED
        BY <2>5, <2>6, <4>1
    <3> QED
      BY <3>1, <3>2
  <2>9. RingPart(e, q)'
    <3>1. /\ tail[e] = Done(e) % WqeCnt /\ wqeIndex[e] = q % WqeCnt
          /\ \A i \in 1 .. Done(e) : completed[e][i] = i
      BY <1>4 DEF RingPart
    <3>2. q <= taken[e] + 1
      BY <1>3, <2>6
    <3> QED
      BY <1>1, <1>3, <2>1, <2>6, <2>7, <2>8, <3>1, <3>2 DEF RingPart
  <2>10. Off(e, q)' = Off(e, q)
    <3>1. CASE q < taken[e]
      <4>1. q + 1 \in Done(e) + 1 .. taken[e] /\ q < taken[e] + 1
        BY <1>3, <2>6, <3>1
      <4> QED
        BY <1>1, <2>5, <3>1, <4>1 DEF Off
    <3>2. CASE q = taken[e]
      <4>1. q < taken[e] + 1 /\ ~(q < taken[e])
        BY <1>3, <3>2
      <4>2. Slot(e, q + 1)'.off = 0
        <5>1. q + 1 = k
          BY <1>k, <3>2
        <5> QED
          BY <1>2, <2>4, <5>1
      <4> QED
        BY <1>1, <4>1, <4>2 DEF Off
    <3> QED
      BY <1>3, <2>6, <3>1, <3>2
  <2> QED
    BY <2>4, <2>5, <2>6, <2>9, <2>10
<1>5. \A m \in Done(e) + 1 .. taken[e] + 1 :
        m = taken[e] + 1 \/ m \in Done(e) + 1 .. taken[e]
  BY <1>3
<1>6. CASE e \in Requester
  <2>1. PICK q \in Nat, c \in Nat : RequestFlow(e, q, c)
    BY <1>0, <1>6 DEF FlowInv
  <2>2. RingPart(e, q)
    BY <2>1 DEF RequestFlow
  <2>3. SentPart(e, q)'
    BY <1>1, <1>4, <2>1, <2>2, SentKept DEF RequestFlow
  <2>4. AckPart(e, c)' /\ DeliveryPart(e)'
    BY <1>1, <2>1, AckKept, DeliveryKept DEF RequestFlow
  <2>5. ASSUME NEW m \in Done(e) + 1 .. taken[e] + 1
        PROVE  /\ m <= q => PendingPart(e, m, c)'
               /\ m > q => UnsentPart(e, m, q)'
    <3>1. CASE m = taken[e] + 1
      <4>1. ~(m <= q)
        BY <1>3, <1>4, <2>2, <3>1
      <4>2. Slot(e, m)' = CopiedWqe(e)
        <5>1. m = k
          BY <1>k, <3>1
        <5> QED
          BY <1>4, <2>2, <5>1
      <4>3. MsgLen(e, m) > 0
        <5>1. m \in DOMAIN Workload[e]
          BY <1>1, <1>3, <3>1, WorkloadFacts
        <5> QED
          BY <1>6, <5>1, TrafficFacts
      <4>4. UnsentPart(e, m, q)'
        BY <1>2, <4>2, <4>3 DEF UnsentPart, MsgLen
      <4> QED
        BY <4>1, <4>4
    <3>2. CASE m \in Done(e) + 1 .. taken[e]
      <4>1. Slot(e, m)' = Slot(e, m)
        BY <1>4, <2>2, <3>2
      <4>2. /\ m <= q => PendingPart(e, m, c)
            /\ m > q => UnsentPart(e, m, q)
        BY <2>1, <3>2 DEF RequestFlow, WqePart
      <4>3. PendingPart(e, m, c) => PendingPart(e, m, c)'
        BY <1>1, <4>1 DEF PendingPart, MsgLen
      <4>4. UnsentPart(e, m, q) => UnsentPart(e, m, q)'
        BY <1>1, <4>1 DEF UnsentPart, MsgLen
      <4> QED
        BY <4>2, <4>3, <4>4
    <3> QED
      BY <1>5, <3>1, <3>2
  <2>6. WqePart(e, q, c)'
    BY <1>1, <1>3, <2>5 DEF WqePart
  <2>7. RequestFlow(e, q, c)'
    BY <1>4, <2>2, <2>3, <2>4, <2>6 DEF RequestFlow
  <2> QED
    BY <1>6, <2>7 DEF FlowInv
<1>7. CASE e \notin Requester
  <2>1. PICK q \in Nat : RingPart(e, q) /\ PassivePart(e, q)
    BY <1>0, <1>7 DEF FlowInv
  <2>2. ASSUME NEW m \in Done(e) + 1 .. taken[e] + 1
        PROVE  Slot(e, m)'.state = "posted" /\ Slot(e, m)'.off = 0
    <3>1. CASE m = taken[e] + 1
      <4>1. m = k
        BY <1>k, <3>1
      <4> QED
        BY <1>2, <1>4, <2>1, <4>1
    <3>2. CASE m \in Done(e) + 1 .. taken[e]
      BY <1>4, <2>1, <3>2 DEF PassivePart
    <3> QED
      BY <1>5, <3>1, <3>2
  <2>3. PassivePart(e, q)'
    BY <1>1, <1>3, <2>1, <2>2 DEF PassivePart
  <2>4. RingPart(e, q)'
    BY <1>4, <2>1
  <2> QED
    BY <1>7, <2>3, <2>4 DEF FlowInv
<1> QED
  BY <1>6, <1>7

LEMMA SkipWqeFlow ==
    ASSUME TransportInv, Traffic, NEW e \in Endpoint, SkipWqe(e)
    PROVE  FlowInv(e)'
<1>0. TypeInv /\ FlowInv(e)
  BY DEF TransportInv, DataInv
<1>1. /\ wqeIndex'[e] = Step(wqeIndex[e])
      /\ wqeIndex[e] # head[e] /\ IsSent(e, CurWqe(e))
      /\ taken' = taken /\ ring' = ring /\ head' = head /\ tail' = tail
      /\ completed' = completed /\ sent' = sent /\ executed' = executed /\ pc' = pc
  BY <1>0 DEF SkipWqe, Busy, TypeInv, TypeOK, reqVars, respVars
<1>2. Done(e) \in Nat /\ taken[e] \in Nat /\ Done(e)' = Done(e)
  BY <1>0, <1>1, CountFacts DEF Done
<1>3. ASSUME NEW q \in Nat, RingPart(e, q)
      PROVE  /\ q + 1 \in Done(e) + 1 .. taken[e]
             /\ q + 1 \in DOMAIN Workload[e]
             /\ \/ Slot(e, q + 1).state = "pending"
                \/ Slot(e, q + 1).off = MsgLen(e, q + 1)
             /\ RingPart(e, q + 1)'
  <2>1. q < taken[e] /\ CurWqe(e) = Slot(e, q + 1) /\ CurWqe(e).msg = q + 1
    BY <1>0, <1>1, <1>3, CursorFacts
  <2>2. /\ Done(e) <= q /\ taken[e] <= Done(e) + MaxOutstanding
        /\ head[e] = taken[e] % WqeCnt /\ tail[e] = Done(e) % WqeCnt
        /\ wqeIndex[e] = q % WqeCnt
        /\ \A m \in Done(e) + 1 .. taken[e] : Slot(e, m).msg = m
        /\ \A i \in 1 .. Done(e) : completed[e][i] = i
    BY <1>3 DEF RingPart
  <2>3. q + 1 \in Done(e) + 1 .. taken[e] /\ q + 1 \in 1 .. taken[e]
        /\ Done(e) <= q + 1 /\ q + 1 <= taken[e]
    BY <1>2, <2>1, <2>2
  <2>4. q + 1 \in DOMAIN Workload[e]
    BY <1>0, <2>3, CountFacts
  <2>5. wqeIndex'[e] = (q + 1) % WqeCnt
    <3>1. wqeIndex'[e] = ((q % WqeCnt) + 1) % WqeCnt
      BY <1>1, <2>2 DEF Step
    <3> QED
      BY <3>1, ConstantFacts, WrappedStep
  <2>6. RingPart(e, q + 1)'
    <3>1. \A m : Slot(e, m)' = Slot(e, m)
      BY <1>1 DEF Slot
    <3> QED
      BY <1>1, <1>2, <2>2, <2>3, <2>5, <3>1 DEF RingPart
  <2>7. \/ Slot(e, q + 1).state = "pending"
        \/ Slot(e, q + 1).off = MsgLen(e, q + 1)
    BY <1>1, <2>1 DEF IsSent, Wr, MsgLen
  <2> QED
    BY <2>3, <2>4, <2>6, <2>7
<1>4. CASE e \in Requester
  <2>1. PICK q \in Nat, c \in Nat : RequestFlow(e, q, c)
    BY <1>0, <1>4 DEF FlowInv
  <2>2. RingPart(e, q)
    BY <2>1 DEF RequestFlow
  <2>3. q + 1 > q
    OBVIOUS
  <2>4. UnsentPart(e, q + 1, q)
    BY <1>3, <2>1, <2>2, <2>3 DEF RequestFlow, WqePart
  <2>5. /\ Slot(e, q + 1).off < MsgLen(e, q + 1)
        /\ Slot(e, q + 1).off \in Nat /\ MsgLen(e, q + 1) \in Nat
    <3>1. Slot(e, q + 1) \in Wqe
      BY <1>0, <2>2, CursorFacts
    <3> QED
      BY <1>3, <2>2, <2>4, <3>1, TrafficFacts DEF UnsentPart, Wqe
  <2>6. Slot(e, q + 1).state # "pending"
    BY <2>4, <2>5 DEF UnsentPart
  <2>7. FALSE
    BY <1>3, <2>2, <2>5, <2>6
  <2> QED
    BY <2>7
<1>5. CASE e \notin Requester
  <2>1. PICK q \in Nat : RingPart(e, q) /\ PassivePart(e, q)
    BY <1>0, <1>5 DEF FlowInv
  <2>2. MsgLen(e, q + 1) = 0
    BY <1>3, <2>1 DEF PassivePart
  <2>3. \A m \in DOMAIN Workload[e] : Workload[e][m].op # "DRIVER1"
    BY <1>3, <1>5, <2>1, <2>2, TrafficFacts
  <2>4. Workload[e][q + 1].op # "DRIVER1" /\ q + 1 \in DOMAIN Workload[e]
    BY <1>3, <2>1, <2>3
  <2>5. \A m : Slot(e, m)' = Slot(e, m)
    BY <1>1 DEF Slot
  <2>6. PassivePart(e, q + 1)'
    BY <1>1, <1>2, <2>1, <2>3, <2>4, <2>5 DEF PassivePart
  <2>7. RingPart(e, q + 1)' /\ q + 1 \in Nat
    BY <1>3, <2>1
  <2> QED
    BY <1>5, <2>6, <2>7 DEF FlowInv
<1> QED
  BY <1>4, <1>5

\* Only an endpoint without packets completes a DRIVER1 request.
LEMMA Driver1IsPassive ==
    ASSUME TransportInv, Traffic, NEW e \in Endpoint, CompleteDriver1(e)
    PROVE  e \notin Requester
<1> SUFFICES ASSUME e \in Requester
             PROVE  FALSE
  OBVIOUS
<1>1. TypeInv /\ FlowInv(e) /\ wqeIndex[e] # head[e] /\ Wr(e, CurWqe(e)).op = "DRIVER1"
  BY DEF TransportInv, DataInv, CompleteDriver1, Busy
<1>2. PICK q \in Nat, c \in Nat : RequestFlow(e, q, c)
  BY <1>1 DEF FlowInv
<1>3. q < taken[e]
  BY <1>1, <1>2, CursorFacts DEF RequestFlow
<1>4. CurWqe(e).msg = q + 1 /\ q + 1 \in 1 .. taken[e]
  <2>1. taken[e] \in Nat
    BY <1>1, CountFacts
  <2> QED
    BY <1>1, <1>2, <1>3, <2>1, CursorFacts DEF RequestFlow
<1>5. q + 1 \in DOMAIN Workload[e] /\ Workload[e][q + 1].op = "DRIVER1"
  BY <1>1, <1>4, CountFacts DEF Wr
<1> QED
  BY <1>5, TrafficFacts

LEMMA CompleteDriver1Flow ==
    ASSUME TransportInv, Traffic, NEW e \in Endpoint, CompleteDriver1(e)
    PROVE  FlowInv(e)'
<1>0. TypeInv /\ FlowInv(e)
  BY DEF TransportInv, DataInv
<1>1. /\ wqeIndex'[e] = Step(wqeIndex[e]) /\ tail'[e] = Step(tail[e])
      /\ wqeIndex[e] # head[e] /\ Wr(e, CurWqe(e)).op = "DRIVER1"
      /\ completed'[e] = Append(completed[e], CurWqe(e).msg)
      /\ taken' = taken /\ ring' = ring /\ head' = head
      /\ sent' = sent /\ executed' = executed /\ pc' = pc
  BY <1>0 DEF CompleteDriver1, Busy, TypeInv, TypeOK, reqVars, respVars
<1>2. /\ Done(e) \in Nat /\ taken[e] \in Nat /\ completed[e] \in Seq(Nat)
      /\ \A m : Slot(e, m)' = Slot(e, m)
  BY <1>0, <1>1, CountFacts DEF Slot
<1>3. ASSUME NEW q \in Nat, RingPart(e, q)
      PROVE  /\ q < taken[e] /\ Done(e) <= q
             /\ q + 1 \in DOMAIN Workload[e]
             /\ CurWqe(e).msg = q + 1
             /\ Workload[e][q + 1].op = "DRIVER1"
  <2>1. q < taken[e] /\ CurWqe(e).msg = q + 1
    BY <1>0, <1>1, <1>3, CursorFacts
  <2>2. q + 1 \in 1 .. taken[e] /\ Done(e) <= q
    BY <1>2, <1>3, <2>1 DEF RingPart
  <2> QED
    BY <1>0, <1>1, <2>1, <2>2, CountFacts DEF Wr
<1>4. e \notin Requester
  BY Driver1IsPassive
<1>5. PICK q \in Nat : RingPart(e, q) /\ PassivePart(e, q)
  BY <1>0, <1>4 DEF FlowInv
<1>6. q = Done(e) /\ \A m \in DOMAIN Workload[e] : Workload[e][m].op = "DRIVER1"
  BY <1>3, <1>5 DEF PassivePart
<1>7. Done(e)' = q + 1 /\ q + 1 \in Nat
      /\ completed'[e][q + 1] = q + 1
      /\ \A i \in 1 .. q : completed'[e][i] = completed[e][i]
  <2>1. CurWqe(e).msg = q + 1 /\ q + 1 \in Nat
    BY <1>3, <1>5
  <2> QED
    BY <1>1, <1>2, <1>6, <2>1, AppendProperties DEF Done
<1>8. /\ q < taken[e] /\ taken[e] <= q + MaxOutstanding
      /\ head[e] = taken[e] % WqeCnt /\ tail[e] = q % WqeCnt
      /\ wqeIndex[e] = q % WqeCnt
      /\ \A m \in q + 1 .. taken[e] : Slot(e, m).msg = m
      /\ \A i \in 1 .. q : completed[e][i] = i
  BY <1>3, <1>5, <1>6 DEF RingPart
<1>9. wqeIndex'[e] = (q + 1) % WqeCnt /\ tail'[e] = (q + 1) % WqeCnt
  <2>1. /\ wqeIndex'[e] = ((q % WqeCnt) + 1) % WqeCnt
        /\ tail'[e] = ((q % WqeCnt) + 1) % WqeCnt
    BY <1>1, <1>8 DEF Step
  <2> QED
    BY <2>1, ConstantFacts, WrappedStep
<1>10. /\ \A m \in (q + 1) + 1 .. taken[e] : m \in q + 1 .. taken[e]
       /\ \A i \in 1 .. q + 1 : i \in 1 .. q \/ i = q + 1
       /\ q + 1 <= taken[e] /\ taken[e] <= (q + 1) + MaxOutstanding
       /\ q + 1 <= q + 1
  BY <1>2, <1>8, ConstantFacts
<1>11. RingPart(e, q + 1)'
  <2>1. \A i \in 1 .. q + 1 : completed'[e][i] = i
    BY <1>7, <1>8, <1>10
  <2>2. \A m \in (q + 1) + 1 .. taken[e] : Slot(e, m)'.msg = m
    BY <1>2, <1>8, <1>10
  <2> QED
    BY <1>1, <1>7, <1>8, <1>9, <1>10, <2>1, <2>2 DEF RingPart
<1>12. PassivePart(e, q + 1)'
  <2>1. \A m \in (q + 1) + 1 .. taken[e] :
          Slot(e, m)'.state = "posted" /\ Slot(e, m)'.off = 0
    BY <1>2, <1>5, <1>6, <1>10 DEF PassivePart
  <2>2. pc[e] # "ack" /\ sent[e] = <<>> /\ executed[Peer[e]] = <<>>
    BY <1>5 DEF PassivePart
  <2> QED
    BY <1>1, <1>6, <1>7, <2>1, <2>2 DEF PassivePart
<1> QED
  BY <1>4, <1>7, <1>11, <1>12 DEF FlowInv

\* Taking, stepping over and retiring requests moves no packet.
LEMMA RequestData ==
    ASSUME TransportInv, Traffic, TypeOK', NEW e \in Endpoint,
           TakeWqe(e) \/ SkipWqe(e) \/ CompleteDriver1(e)
    PROVE  DataInv'
<1>0. TypeInv /\ TypeOK /\ RecvCqePerSend /\ \A x \in Endpoint : FlowInv(x) /\ NetPart(x)
  BY DEF TransportInv, DataInv, TypeInv
<1>1. /\ sent' = sent /\ executed' = executed /\ recvCqes' = recvCqes /\ net' = net
      /\ pc' = pc /\ sendPsn' = sendPsn /\ sendOpcode' = sendOpcode
      /\ compPsn' = compPsn /\ recvPsn' = recvPsn /\ ackPsn' = ackPsn
  BY DEF TakeWqe, SkipWqe, CompleteDriver1, reqVars, respVars
<1>2. ASSUME NEW x \in Endpoint, x # e
      PROVE  /\ taken'[x] = taken[x] /\ ring'[x] = ring[x] /\ head'[x] = head[x]
             /\ tail'[x] = tail[x] /\ wqeIndex'[x] = wqeIndex[x]
             /\ completed'[x] = completed[x]
  BY <1>0, <1>2, ZenonT(30) DEF TakeWqe, SkipWqe, CompleteDriver1, TypeOK
<1>3. ASSUME NEW x \in Endpoint
      PROVE  FlowInv(x)'
  <2>1. CASE x = e
    BY <2>1, TakeWqeFlow, SkipWqeFlow, CompleteDriver1Flow
  <2>2. CASE x # e
    BY <1>0, <1>1, <1>2, <2>2, Roles, FlowKept
  <2> QED
    BY <2>1, <2>2
<1>4. RecvCqePerSend'
  BY <1>0, <1>1 DEF RecvCqePerSend
<1>5. HistoryGrows
  BY <1>0, <1>1, HistoryKept
<1>6. ASSUME NEW x \in Endpoint
      PROVE  NetPart(x)'
  BY <1>0, <1>1, <1>5, NetStep
<1> QED
  BY <1>3, <1>4, <1>6 DEF DataInv

\* The message the requester is working on.
LEMMA NextFacts ==
    ASSUME TransportInv, Traffic, NEW e \in Endpoint, e \in Requester,
           NEW q \in Nat, NEW c \in Nat, RequestFlow(e, q, c), q < taken[e]
    PROVE  /\ CurWqe(e) \in Wqe /\ CurWqe(e) = Slot(e, q + 1)
           /\ CurWqe(e).msg = q + 1
           /\ Wr(e, CurWqe(e)) = Workload[e][q + 1]
           /\ q + 1 \in DOMAIN Workload[e]
           /\ Workload[e][q + 1].op \in {"SEND", "WRITE"}
           /\ MsgLen(e, q + 1) \in Nat /\ MsgLen(e, q + 1) > 0
           /\ Off(e, q) = CurWqe(e).off /\ CurWqe(e).off \in Nat
           /\ CurWqe(e).off < MsgLen(e, q + 1)
           /\ UnsentPart(e, q + 1, q)
           /\ q + 1 \in Done(e) + 1 .. taken[e]
<1>0. TypeInv /\ RingPart(e, q) /\ WqePart(e, q, c)
  BY DEF TransportInv, RequestFlow
<1>1. /\ CurWqe(e) = Slot(e, q + 1) /\ Slot(e, q + 1) \in Wqe /\ CurWqe(e).msg = q + 1
  BY <1>0, CursorFacts
<1>2. Done(e) \in Nat /\ taken[e] \in Nat
  BY <1>0, CountFacts
<1>3. /\ q + 1 \in Done(e) + 1 .. taken[e] /\ q + 1 \in 1 .. taken[e] /\ q + 1 > q
  BY <1>0, <1>2 DEF RingPart
<1>4. UnsentPart(e, q + 1, q)
  BY <1>0, <1>3 DEF WqePart
<1>5. q + 1 \in DOMAIN Workload[e]
  BY <1>0, <1>3, CountFacts
<1>6. /\ Workload[e][q + 1].op \in {"SEND", "WRITE"}
      /\ MsgLen(e, q + 1) \in Nat /\ MsgLen(e, q + 1) > 0
  BY <1>5, TrafficFacts
<1>7. Off(e, q) = CurWqe(e).off /\ CurWqe(e).off \in Nat
  BY <1>1 DEF Off, Wqe
<1>8. CurWqe(e).off < MsgLen(e, q + 1)
  BY <1>1, <1>4 DEF UnsentPart
<1> QED
  BY <1>1, <1>3, <1>4, <1>5, <1>6, <1>7, <1>8 DEF Wr

\* The fragment sent next is the next one posted.
LEMMA NextFragment ==
    ASSUME TransportInv, Traffic, NEW e \in Endpoint, e \in Requester,
           NEW q \in Nat, NEW c \in Nat, RequestFlow(e, q, c), q < taken[e],
           NEW f, f = <<q + 1, CurWqe(e).off + 1>>
    PROVE  /\ f \in Fragment(e)
           /\ InPostedOrder(e, Append(sent[e], f))
<1> DEFINE s == Len(sent[e])
           off == CurWqe(e).off
<1>0. /\ q + 1 \in DOMAIN Workload[e]
      /\ Workload[e][q + 1].op \in {"SEND", "WRITE"}
      /\ MsgLen(e, q + 1) \in Nat
      /\ Off(e, q) = off /\ off \in Nat /\ off < MsgLen(e, q + 1)
  BY NextFacts
<1>1. sent[e] \in Seq(Nat \X Nat) /\ s \in Nat
  BY CountFacts DEF TransportInv
<1>2. /\ InPostedOrder(e, sent[e])
      /\ q = 0 => s = off
      /\ q > 0 => s > off /\ sent[e][s - off] = <<q, MsgLen(e, q)>>
      /\ off > 0 => sent[e][s] = <<q + 1, off>>
  BY <1>0 DEF RequestFlow, SentPart
<1> HIDE DEF s, off
<1>3. f \in Fragment(e) /\ f[1] = q + 1 /\ f[2] = off + 1
  <2>1. off + 1 \in 1 .. MsgLen(e, q + 1)
    BY <1>0
  <2>2. <<q + 1, off + 1>> \in Fragment(e)
    BY <1>0, <2>1, FragmentFacts
  <2> QED
    BY <2>2 DEF off
<1>4. s = 0 => off = 0 /\ q = 0
  BY <1>0, <1>1, <1>2
\* The last fragment sent is the one before f.
<1>5. ASSUME s > 0
      PROVE  \E g \in Fragment(e) :
               /\ sent[e][s] = g /\ Before(g, f)
               /\ \A h \in Fragment(e) : Before(h, f) => h = g \/ Before(h, g)
  <2>1. s \in 1 .. Len(sent[e])
    BY <1>1, <1>5 DEF s
  <2>2. sent[e][s] \in Fragment(e)
    BY <1>1, <1>2, <2>1, PostedPlace
  <2>3. CASE off > 0
    <3>1. /\ sent[e][s] = <<q + 1, off>>
          /\ sent[e][s][1] = q + 1 /\ sent[e][s][2] = off
      BY <1>2, <2>3
    <3>2. Before(sent[e][s], f)
      BY <1>0, <1>3, <3>1 DEF Before
    <3>3. ASSUME NEW h \in Fragment(e), Before(h, f)
          PROVE  h = sent[e][s] \/ Before(h, sent[e][s])
      <4>1. h = <<h[1], h[2]>> /\ h[1] \in Nat /\ h[2] \in Nat
        BY FragmentFacts
      <4>2. h[1] < q + 1 \/ (h[1] = q + 1 /\ h[2] < off + 1)
        BY <1>3, <3>3 DEF Before
      <4>3. h[1] < q + 1 \/ (h[1] = q + 1 /\ h[2] < off) \/ (h[1] = q + 1 /\ h[2] = off)
        BY <1>0, <4>1, <4>2
      <4> QED
        BY <3>1, <4>1, <4>3 DEF Before
    <3> QED
      BY <2>2, <3>2, <3>3
  <2>4. CASE off = 0
    <3>1. q > 0 /\ sent[e][s] = <<q, MsgLen(e, q)>>
      <4>1. q > 0
        BY <1>2, <1>5, <2>4
      <4>2. s - off = s
        BY <1>1, <2>4
      <4> QED
        BY <1>2, <4>1, <4>2
    <3>2. sent[e][s][1] = q /\ sent[e][s][2] = MsgLen(e, q)
      BY <3>1
    <3>3. Before(sent[e][s], f)
      BY <1>3, <3>2 DEF Before
    <3>4. ASSUME NEW h \in Fragment(e), Before(h, f)
          PROVE  h = sent[e][s] \/ Before(h, sent[e][s])
      <4>1. /\ h = <<h[1], h[2]>> /\ h[1] \in Nat /\ h[2] \in Nat /\ h[2] >= 1
            /\ h[2] <= MsgLen(e, h[1]) /\ h[1] \in DOMAIN Workload[e]
        BY FragmentFacts
      <4>2. h[1] < q + 1 \/ (h[1] = q + 1 /\ h[2] < off + 1)
        BY <1>3, <3>4 DEF Before
      <4>3. h[1] < q + 1
        BY <2>4, <4>1, <4>2
      <4>4. h[1] < q \/ h[1] = q
        BY <4>1, <4>3
      <4>5. CASE h[1] = q
        <5>1. MsgLen(e, q) \in Nat /\ h[2] <= MsgLen(e, q)
          BY <4>1, <4>5, TrafficFacts
        <5>2. h[2] = MsgLen(e, q) \/ h[2] < MsgLen(e, q)
          BY <4>1, <5>1
        <5> QED
          BY <3>1, <3>2, <4>1, <4>5, <5>2 DEF Before
      <4> QED
        BY <3>2, <4>4, <4>5 DEF Before
    <3> QED
      BY <2>2, <3>3, <3>4
  <2> QED
    BY <1>0, <2>3, <2>4
<1>6. ASSUME NEW i \in 1 .. Len(sent[e])
      PROVE  Before(sent[e][i], f)
  <2>0. s > 0 /\ s \in 1 .. Len(sent[e])
    BY <1>1 DEF s
  <2>1. PICK g \in Fragment(e) : sent[e][s] = g /\ Before(g, f)
    BY <1>5, <2>0
  <2>2. sent[e][i] \in Fragment(e) /\ (i = s \/ i < s)
    <3>1. sent[e][i] \in Fragment(e)
      BY <1>1, <1>2, PostedPlace
    <3>2. i = s \/ i < s
      BY <1>1 DEF s
    <3> QED
      BY <3>1, <3>2
  <2>3. i < s => Before(sent[e][i], g)
    BY <1>1, <1>2, <2>0, <2>1, LenProperties DEF InPostedOrder
  <2> QED
    BY <1>3, <2>1, <2>2, <2>3, BeforeFacts
<1>7. ASSUME NEW h \in Fragment(e), Before(h, f)
      PROVE  \E i \in 1 .. Len(sent[e]) : sent[e][i] = h
  <2>1. s > 0
    <3> SUFFICES ASSUME s = 0
                 PROVE  FALSE
      BY <1>1
    <3>1. f[1] = 1 /\ f[2] = 1
      BY <1>3, <1>4
    <3>2. h[1] \in Nat /\ h[1] >= 1 /\ h[2] \in Nat /\ h[2] >= 1
      BY FragmentFacts
    <3> QED
      BY <1>7, <3>1, <3>2 DEF Before
  <2>2. PICK g \in Fragment(e) : sent[e][s] = g /\ (h = g \/ Before(h, g))
    BY <1>5, <1>7, <2>1
  <2>3. s \in 1 .. Len(sent[e]) /\ DOMAIN sent[e] = 1 .. Len(sent[e])
    BY <1>1, <2>1, LenProperties DEF s
  <2>4. CASE Before(h, g)
    BY <1>2, <2>2, <2>3, <2>4 DEF InPostedOrder
  <2> QED
    BY <2>2, <2>3, <2>4
<1> QED
  BY <1>1, <1>2, <1>3, <1>6, <1>7, PostedAppend

\* The opcode of the next packet, and the last PSN its WQE is left with.
LEMMA OpcodeFacts ==
    ASSUME TransportInv, Traffic, NEW e \in Endpoint, e \in Requester,
           NEW q \in Nat, NEW c \in Nat, RequestFlow(e, q, c), q < taken[e],
           NEW o, o = NextOpcode(e, CurWqe(e)), NEW v, v = SentWqe(e, CurWqe(e), o)
    PROVE  /\ o.op = Workload[e][q + 1].op
           /\ IsEnd(o) <=> CurWqe(e).off + 1 = MsgLen(e, q + 1)
           /\ v.msg = q + 1
           /\ v.off = CurWqe(e).off + 1
           /\ v.state = IF IsEnd(o) THEN "pending" ELSE "processing"
           /\ v.lastPsn = (Len(sent[e]) + MsgLen(e, q + 1) - CurWqe(e).off - 1) % PsnMod
<1> DEFINE w == CurWqe(e)
           s == Len(sent[e])
           len == MsgLen(e, q + 1)
           off == w.off
<1>0. /\ w \in Wqe /\ w.msg = q + 1 /\ w = Slot(e, q + 1)
      /\ Wr(e, w) = Workload[e][q + 1]
      /\ q + 1 \in DOMAIN Workload[e]
      /\ Workload[e][q + 1].op \in {"SEND", "WRITE"}
      /\ len \in Nat /\ len > 0
      /\ Off(e, q) = off /\ off \in Nat /\ off < len
      /\ UnsentPart(e, q + 1, q)
  BY NextFacts
<1>1. /\ Wr(e, w).len = len /\ Wr(e, w).op = Workload[e][q + 1].op
  BY <1>0 DEF MsgLen
<1>2. s \in Nat /\ sendPsn[e] = s % PsnMod
  BY CountFacts DEF TransportInv, RequestFlow, SentPart
<1>3. /\ off > 0 => /\ sendOpcode[e].op = Workload[e][q + 1].op
                    /\ ~IsEnd(sendOpcode[e])
      /\ off = 0 => \/ s = 0 /\ sendOpcode[e] = [op |-> "SEND", pos |-> "FIRST"]
                    \/ s > 0 /\ IsEnd(sendOpcode[e])
      /\ q > 0 => s > off
  BY <1>0 DEF RequestFlow, SentPart
<1>4. /\ off = 0 => w.lastPsn = 0
      /\ off > 0 => w.lastPsn = (s + len - off - 1) % PsnMod
  BY <1>0 DEF UnsentPart
<1>5. sendOpcode[e] \in Opcode
  BY DEF TransportInv, TypeInv, TypeOK
<1> DEFINE fits == len - off <= 1
           inside == /\ sendOpcode[e].op = Workload[e][q + 1].op
                     /\ sendOpcode[e].pos \in {"FIRST", "MIDDLE"}
<1>6. o = [op  |-> Workload[e][q + 1].op,
           pos |-> IF inside THEN IF fits THEN "LAST" ELSE "MIDDLE"
                             ELSE IF fits THEN "ONLY" ELSE "FIRST"]
  BY <1>1 DEF NextOpcode
<1>7. v = [w EXCEPT !.off = off + 1,
                    !.state = IF IsEnd(o) THEN "pending" ELSE "processing",
                    !.lastPsn = IF IsStart(o)
                                  THEN PsnAdd(sendPsn[e], NumPkt(Wr(e, w)) - 1)
                                  ELSE w.lastPsn]
  BY DEF SentWqe
<1> HIDE DEF w, s, off, len
<1>8. fits <=> off + 1 = len
  BY <1>0
<1>9. /\ IsEnd(o) <=> fits
      /\ IsStart(o) <=> ~inside
  BY <1>6 DEF IsEnd, IsStart
<1>10. off > 0 => inside
  BY <1>3, <1>5 DEF IsEnd, Opcode
\* Only the first packet of the queue pair may be denied its start.
<1>11. off = 0 /\ inside => s = 0 /\ len = 1
  <2> SUFFICES ASSUME off = 0, inside
               PROVE  s = 0 /\ len = 1
    OBVIOUS
  <2>1. s = 0 /\ sendOpcode[e] = [op |-> "SEND", pos |-> "FIRST"]
    BY <1>3 DEF IsEnd
  <2>2. Workload[e][q + 1].op = "SEND"
    BY <2>1
  <2>3. q = 0
    BY <1>3, <2>1
  <2>4. Workload[e] # <<>>
    BY <1>0
  <2>5. Workload[e][1].len <= 1
    BY <2>2, <2>3, <2>4 DEF Traffic, FirstSendFits
  <2>6. len <= 1
    BY <2>3, <2>5 DEF len, MsgLen
  <2> QED
    BY <1>0, <2>1, <2>6
<1> HIDE DEF fits, inside
<1>12. w = [msg |-> w.msg, state |-> w.state, off |-> w.off, lastPsn |-> w.lastPsn]
  BY <1>0 DEF Wqe
<1>13. /\ v.msg = w.msg /\ v.off = off + 1
       /\ v.state = IF IsEnd(o) THEN "pending" ELSE "processing"
       /\ v.lastPsn = IF IsStart(o)
                        THEN PsnAdd(sendPsn[e], NumPkt(Wr(e, w)) - 1)
                        ELSE w.lastPsn
  BY <1>0, <1>7 DEF Wqe
<1>14. v.lastPsn = (s + len - off - 1) % PsnMod
  <2>1. CASE IsStart(o)
    <3>1. off = 0
      BY <1>0, <1>9, <1>10, <2>1
    <3>2. NumPkt(Wr(e, w)) - 1 = len - 1 /\ len - 1 \in Int
      BY <1>0, <1>1 DEF NumPkt
    <3>3. PsnAdd(s % PsnMod, len - 1) = (s + (len - 1)) % PsnMod
      BY <1>2, <3>2, PsnAddNumber
    <3>4. s + (len - 1) = s + len - off - 1
      BY <1>0, <1>2, <3>1
    <3> QED
      BY <1>2, <1>13, <2>1, <3>2, <3>3, <3>4
  <2>2. CASE ~IsStart(o) /\ off > 0
    BY <1>4, <1>13, <2>2
  <2>3. CASE ~IsStart(o) /\ off = 0
    <3>1. s = 0 /\ len = 1
      BY <1>9, <1>11, <2>3
    <3>2. s + len - off - 1 = 0
      BY <2>3, <3>1
    <3>3. 0 % PsnMod = 0
      BY ConstantFacts, SlotFirstTurn
    <3> QED
      BY <1>4, <1>13, <2>3, <3>2, <3>3
  <2> QED
    BY <1>0, <2>1, <2>2, <2>3
<1> QED
  BY <1>0, <1>6, <1>8, <1>9, <1>13, <1>14 DEF w, s, off, len

\* The window is open: MaxUnacked + 1 packets are not yet in flight.
LEMMA WindowFacts ==
    ASSUME TransportInv, NEW e \in Endpoint,
           NEW q \in Nat, NEW c \in Nat, RequestFlow(e, q, c), WindowOpen(e)
    PROVE  Len(sent[e]) + 1 <= c + MaxUnacked + 1
<1> DEFINE s == Len(sent[e])
<1>0. s \in Nat /\ Len(executed[Peer[e]]) \in Nat
  BY CountFacts DEF TransportInv
<1>1. /\ sendPsn[e] = s % PsnMod /\ compPsn[e] = c % PsnMod
      /\ s <= c + MaxUnacked + 1 /\ c <= s
  BY <1>0 DEF RequestFlow, SentPart, AckPart, DeliveryPart
<1>2. PsnCompare(s % PsnMod, (c % PsnMod) + MaxUnacked) <= 0
  BY <1>1 DEF WindowOpen
<1> HIDE DEF s
<1>3. /\ -(PsnMod \div 2) <= s - c - MaxUnacked
      /\ s - c - MaxUnacked < PsnMod \div 2
  BY <1>0, <1>1, ConstantFacts, HalfCircle
<1>4. PsnCompare(s % PsnMod, (c % PsnMod) + MaxUnacked) = s - c - MaxUnacked
  <2>1. MaxUnacked \in Nat
    BY ConstantFacts
  <2> QED
    BY <1>0, <1>3, <2>1, PsnCompareNumbers
<1> QED
  BY <1>0, <1>2, <1>4, ConstantFacts DEF s

\* Only a requester sends: an empty message is stepped over.
LEMMA SenderIsRequester ==
    ASSUME TransportInv, Traffic, NEW e \in Endpoint, SendPacket(e)
    PROVE  e \in Requester
<1> SUFFICES ASSUME e \notin Requester
             PROVE  FALSE
  OBVIOUS
<1>0. TypeInv /\ FlowInv(e)
  BY DEF TransportInv, DataInv
<1>1. PICK q \in Nat : RingPart(e, q) /\ PassivePart(e, q)
  BY <1>0 DEF FlowInv
<1>2. /\ wqeIndex[e] # head[e] /\ ~IsSent(e, CurWqe(e))
      /\ Wr(e, CurWqe(e)).op # "DRIVER1"
  BY DEF SendPacket, Busy
<1>3. /\ q < taken[e] /\ CurWqe(e) = Slot(e, q + 1) /\ CurWqe(e).msg = q + 1
  BY <1>0, <1>1, <1>2, CursorFacts
<1>4. Done(e) \in Nat /\ taken[e] \in Nat
  BY <1>0, CountFacts
<1>5. q + 1 \in Done(e) + 1 .. taken[e] /\ q + 1 \in 1 .. taken[e]
  BY <1>1, <1>3, <1>4 DEF RingPart
<1>6. q + 1 \in DOMAIN Workload[e] /\ CurWqe(e).off = 0
  BY <1>0, <1>1, <1>3, <1>5, CountFacts DEF PassivePart
<1>7. Workload[e][q + 1].op # "DRIVER1" /\ MsgLen(e, q + 1) # 0
  BY <1>2, <1>3, <1>6 DEF IsSent, Wr, MsgLen
<1> QED
  BY <1>6, <1>7, TrafficFacts

LEMMA SendPacketFlow ==
    ASSUME TransportInv, Traffic, NEW e \in Endpoint, SendPacket(e)
    PROVE  FlowInv(e)'
<1>0. TypeInv /\ FlowInv(e) /\ e \in Requester
  BY SenderIsRequester DEF TransportInv, DataInv
<1>1. PICK q \in Nat, c \in Nat : RequestFlow(e, q, c)
  BY <1>0 DEF FlowInv
<1>2. PICK o : o = NextOpcode(e, CurWqe(e))
  OBVIOUS
<1>3. PICK v : v = SentWqe(e, CurWqe(e), o)
  OBVIOUS
<1>4. PICK f : f = <<q + 1, CurWqe(e).off + 1>>
  OBVIOUS
<1>5. wqeIndex[e] # head[e] /\ WindowOpen(e)
  BY DEF SendPacket, Busy
<1>6. q < taken[e] /\ RingPart(e, q) /\ CurWqe(e).msg = q + 1
  BY <1>0, <1>1, <1>5, CursorFacts DEF RequestFlow
<1>7. /\ ring' = [ring EXCEPT ![e][wqeIndex[e]] = v]
      /\ sent' = [sent EXCEPT ![e] = Append(@, f)]
      /\ sendPsn' = [sendPsn EXCEPT ![e] = PsnAdd(@, 1)]
      /\ sendOpcode' = [sendOpcode EXCEPT ![e] = o]
      /\ wqeIndex' = [wqeIndex EXCEPT ![e] = IF IsEnd(o) THEN Step(@) ELSE @]
      /\ taken' = taken /\ head' = head /\ tail' = tail
      /\ completed' = completed /\ compPsn' = compPsn
      /\ recvPsn' = recvPsn /\ ackPsn' = ackPsn /\ executed' = executed
  BY <1>2, <1>3, <1>4, <1>6 DEF SendPacket, respVars
<1>8. /\ ring'[e] = [ring[e] EXCEPT ![wqeIndex[e]] = v]
      /\ sent'[e] = Append(sent[e], f)
      /\ sendPsn'[e] = PsnAdd(sendPsn[e], 1)
      /\ sendOpcode'[e] = o
      /\ wqeIndex'[e] = IF IsEnd(o) THEN Step(wqeIndex[e]) ELSE wqeIndex[e]
      /\ ring[e] \in [0 .. WqeCnt - 1 -> Wqe]
      /\ wqeIndex[e] \in 0 .. WqeCnt - 1
  BY <1>0, <1>7 DEF TypeInv, TypeOK
<1> DEFINE s == Len(sent[e])
           len == MsgLen(e, q + 1)
           off == CurWqe(e).off
<1>9. /\ CurWqe(e) = Slot(e, q + 1)
      /\ q + 1 \in DOMAIN Workload[e]
      /\ len \in Nat /\ len > 0 /\ Off(e, q) = off /\ off \in Nat /\ off < len
      /\ q + 1 \in Done(e) + 1 .. taken[e]
  BY <1>0, <1>1, <1>6, NextFacts
<1>10. /\ o.op = Workload[e][q + 1].op
       /\ IsEnd(o) <=> off + 1 = len
       /\ v.msg = q + 1 /\ v.off = off + 1
       /\ v.state = IF IsEnd(o) THEN "pending" ELSE "processing"
       /\ v.lastPsn = (s + len - off - 1) % PsnMod
  BY <1>0, <1>1, <1>2, <1>3, <1>6, OpcodeFacts
<1>11. f \in Fragment(e) /\ InPostedOrder(e, Append(sent[e], f)) /\ f \in Nat \X Nat
  BY <1>0, <1>1, <1>4, <1>6, NextFragment, FragmentFacts
<1>12. /\ s \in Nat /\ sent[e] \in Seq(Nat \X Nat)
       /\ Done(e) \in Nat /\ taken[e] \in Nat /\ Done(e)' = Done(e)
       /\ Len(executed[Peer[e]]) \in Nat
  BY <1>0, <1>7, CountFacts DEF Done
<1>13. /\ Len(sent'[e]) = s + 1
       /\ sent'[e][s + 1] = f
       /\ \A j \in 1 .. s : sent'[e][j] = sent[e][j]
  BY <1>8, <1>11, <1>12, AppendProperties
<1>14. s + 1 <= c + MaxUnacked + 1
  BY <1>1, <1>5, WindowFacts
\* The ring.
<1>15. wqeIndex[e] = q % WqeCnt /\ wqeIndex[e] = ((q + 1) - 1) % WqeCnt
  <2>1. (q + 1) - 1 = q
    OBVIOUS
  <2> QED
    BY <1>6, <2>1 DEF RingPart
<1>16. Slot(e, q + 1)' = v
  BY <1>8, <1>15 DEF Slot
<1>17. ASSUME NEW m \in Done(e) + 1 .. taken[e], m # q + 1
       PROVE  Slot(e, m)' = Slot(e, m)
  <2>1. /\ taken[e] - Done(e) < WqeCnt /\ Done(e) <= q
    BY <1>6, <1>12, ConstantFacts DEF RingPart, Traffic, RingHasRoom
  <2>2. m \in Nat /\ m >= 1 /\ q + 1 \in Nat /\ q + 1 >= 1
    BY <1>12
  <2>3. (m - 1) % WqeCnt # ((q + 1) - 1) % WqeCnt
    <3>1. CASE m < q + 1
      <4>1. (q + 1) - m < WqeCnt
        BY <1>6, <1>12, <2>1, ConstantFacts
      <4> QED
        BY <2>2, <3>1, <4>1, SlotApart
    <3>2. CASE q + 1 < m
      <4>1. m - (q + 1) < WqeCnt
        BY <1>6, <1>12, <2>1, ConstantFacts
      <4> QED
        BY <2>2, <3>2, <4>1, SlotApart
    <3> QED
      BY <1>17, <2>2, <3>1, <3>2
  <2>4. (m - 1) % WqeCnt \in 0 .. WqeCnt - 1
    BY <2>2, SlotInRing
  <2> QED
    BY <1>8, <1>15, <2>3, <2>4 DEF Slot
<1>18. PICK r \in Nat : r = IF IsEnd(o) THEN q + 1 ELSE q
  OBVIOUS
<1>19. RingPart(e, r)'
  <2>1. /\ Done(e) <= q /\ taken[e] <= Done(e) + MaxOutstanding
        /\ head[e] = taken[e] % WqeCnt /\ tail[e] = Done(e) % WqeCnt
        /\ \A m \in Done(e) + 1 .. taken[e] : Slot(e, m).msg = m
        /\ \A i \in 1 .. Done(e) : completed[e][i] = i
    BY <1>6 DEF RingPart
  <2>2. wqeIndex'[e] = r % WqeCnt
    <3>1. CASE IsEnd(o)
      <4>1. wqeIndex'[e] = ((q % WqeCnt) + 1) % WqeCnt
        BY <1>8, <1>15, <3>1 DEF Step
      <4> QED
        BY <1>18, <3>1, <4>1, ConstantFacts, WrappedStep
    <3>2. CASE ~IsEnd(o)
      BY <1>8, <1>15, <1>18, <3>2
    <3> QED
      BY <3>1, <3>2
  <2>3. \A m \in Done(e) + 1 .. taken[e] : Slot(e, m)'.msg = m
    BY <1>10, <1>16, <1>17, <2>1
  <2>4. Done(e) <= r /\ r <= taken[e]
    BY <1>6, <1>12, <1>18, <2>1
  <2> QED
    BY <1>7, <1>12, <2>1, <2>2, <2>3, <2>4 DEF RingPart
<1> HIDE DEF s, len, off
\* What was sent.
<1>20. Off(e, r)' = IF IsEnd(o) THEN 0 ELSE off + 1
  <2>1. CASE ~IsEnd(o)
    BY <1>6, <1>7, <1>10, <1>16, <1>18, <2>1 DEF Off
  <2>2. CASE IsEnd(o) /\ q + 1 < taken[e]
    <3>1. /\ (q + 1) + 1 \in Done(e) + 1 .. taken[e] /\ (q + 1) + 1 # q + 1
          /\ (q + 1) + 1 > q /\ (q + 1) + 1 \in Nat
      BY <1>9, <1>12, <2>2
    <3>2. UnsentPart(e, (q + 1) + 1, q)
      BY <1>1, <3>1 DEF RequestFlow, WqePart
    <3>3. Slot(e, (q + 1) + 1) \in Wqe
      BY <1>0, <1>6, <3>1, CursorFacts
    <3>4. Slot(e, (q + 1) + 1).off = 0
      BY <3>1, <3>2, <3>3 DEF UnsentPart, Wqe
    <3>5. Slot(e, (q + 1) + 1)' = Slot(e, (q + 1) + 1)
      BY <1>17, <3>1
    <3> QED
      BY <1>7, <1>18, <2>2, <3>4, <3>5 DEF Off
  <2>3. CASE IsEnd(o) /\ ~(q + 1 < taken[e])
    BY <1>7, <1>18, <2>3 DEF Off
  <2> QED
    BY <2>1, <2>2, <2>3
<1>21. SentPart(e, r)'
  <2>1. sendPsn'[e] = (s + 1) % PsnMod
    <3>1. sendPsn[e] = s % PsnMod
      BY <1>1 DEF RequestFlow, SentPart, s
    <3>2. PsnAdd(s % PsnMod, 1) = (s + 1) % PsnMod
      BY <1>12, PsnAddNumber
    <3> QED
      BY <1>8, <3>1, <3>2
  <2>2. InPostedOrder(e, sent[e])'
    BY <1>8, <1>11 DEF InPostedOrder
  <2>3. /\ q = 0 => s = off
        /\ q > 0 => s > off /\ sent[e][s - off] = <<q, MsgLen(e, q)>>
    BY <1>1, <1>9 DEF RequestFlow, SentPart, s
  <2>4. CASE IsEnd(o)
    <3>1. r = q + 1 /\ Off(e, r)' = 0 /\ r > 0 /\ off + 1 = len
      BY <1>10, <1>18, <1>20, <2>4
    <3>2. sent'[e][(s + 1) - 0] = <<r, MsgLen(e, r)>>
      <4>1. (s + 1) - 0 = s + 1
        BY <1>12
      <4> QED
        BY <1>4, <1>13, <3>1, <4>1 DEF len, off
    <3>3. s + 1 > 0
      BY <1>12
    <3> QED
      BY <1>8, <1>13, <2>1, <2>2, <2>4, <3>1, <3>2, <3>3 DEF SentPart, MsgLen
  <2>5. CASE ~IsEnd(o)
    <3>1. r = q /\ Off(e, r)' = off + 1 /\ off + 1 > 0 /\ off + 1 # 0
      BY <1>9, <1>18, <1>20, <2>5
    <3>2. q = 0 => s + 1 = off + 1
      BY <2>3
    <3>3. ASSUME q > 0
          PROVE  s + 1 > off + 1 /\ sent'[e][(s + 1) - (off + 1)] = <<q, MsgLen(e, q)>>
      <4>1. s \in Nat /\ off \in Nat /\ s > off
        BY <1>9, <1>12, <2>3, <3>3
      <4>2. /\ (s + 1) - (off + 1) = s - off /\ s - off \in 1 .. s
            /\ s + 1 > off + 1
        BY <4>1
      <4>3. sent'[e][s - off] = <<q, MsgLen(e, q)>>
        BY <1>13, <2>3, <3>3, <4>2
      <4> QED
        BY <4>2, <4>3
    <3>4. sent'[e][s + 1] = <<q + 1, off + 1>>
      BY <1>4, <1>13 DEF off
    <3> QED
      BY <1>8, <1>10, <1>13, <2>1, <2>2, <2>5, <3>1, <3>2, <3>3, <3>4
      DEF SentPart, MsgLen
  <2> QED
    BY <2>4, <2>5
\* The requests.
<1>22. WqePart(e, r, c)'
  <2> SUFFICES ASSUME NEW m \in Done(e) + 1 .. taken[e]
               PROVE  /\ m <= r => PendingPart(e, m, c)'
                      /\ m > r => UnsentPart(e, m, r)'
    BY <1>7, <1>12 DEF WqePart
  <2>0. m \in Nat /\ (m <= q \/ m = q + 1 \/ m > q + 1)
    BY <1>12
  <2>1. /\ m <= q => PendingPart(e, m, c)
        /\ m > q => UnsentPart(e, m, q)
    BY <1>1 DEF RequestFlow, WqePart
  <2>2. CASE m <= q
    <3>1. m # q + 1 /\ m <= r /\ ~(m > r)
      BY <1>18, <2>0, <2>2
    <3>2. Slot(e, m)' = Slot(e, m)
      BY <1>17, <3>1
    <3>3. PICK j \in 1 .. s : /\ sent[e][j] = <<m, MsgLen(e, m)>>
                              /\ Slot(e, m).lastPsn = (j - 1) % PsnMod
                              /\ c <= j - 1
      BY <2>1, <2>2 DEF PendingPart, s
    <3>4. j \in 1 .. s + 1 /\ sent'[e][j] = <<m, MsgLen(e, m)>>
      <4>1. s \in Nat
        BY <1>12
      <4>2. j \in 1 .. s + 1
        BY <4>1
      <4> QED
        BY <1>13, <3>3, <4>2
    <3>5. Slot(e, m).state = "pending" /\ Slot(e, m).off = MsgLen(e, m)
      BY <2>1, <2>2 DEF PendingPart
    <3>6. PendingPart(e, m, c)'
      BY <1>13, <3>2, <3>3, <3>4, <3>5 DEF PendingPart, MsgLen
    <3> QED
      BY <3>1, <3>6
  <2>3. CASE m = q + 1 /\ IsEnd(o)
    <3>1. m <= r /\ ~(m > r) /\ off + 1 = len /\ Slot(e, m)' = v
      BY <1>10, <1>16, <1>18, <2>0, <2>3
    <3>2. c <= s
      BY <1>1, <1>12 DEF RequestFlow, AckPart, DeliveryPart, s
    <3>3. v.lastPsn = ((s + 1) - 1) % PsnMod /\ c <= (s + 1) - 1
      <4>1. s + len - off - 1 = (s + 1) - 1 /\ (s + 1) - 1 = s
        BY <1>9, <1>12, <3>1
      <4> QED
        BY <1>10, <3>2, <4>1
    <3>4. s + 1 \in 1 .. s + 1 /\ sent'[e][s + 1] = <<m, MsgLen(e, m)>>
      BY <1>4, <1>12, <1>13, <2>3, <3>1 DEF off, len
    <3>5. v.state = "pending" /\ v.off = MsgLen(e, m)
      BY <1>10, <2>3, <3>1 DEF len
    <3>6. PendingPart(e, m, c)'
      BY <1>13, <3>1, <3>3, <3>4, <3>5 DEF PendingPart, MsgLen
    <3> QED
      BY <3>1, <3>6
  <2>4. CASE m = q + 1 /\ ~IsEnd(o)
    <3>1. ~(m <= r) /\ r = q /\ Slot(e, m)' = v /\ off + 1 # len
      BY <1>10, <1>16, <1>18, <2>0, <2>4
    <3>2. off + 1 < len /\ off + 1 > 0 /\ off + 1 # 0
          /\ s + len - off - 1 = (s + 1) + len - (off + 1) - 1
      BY <1>9, <1>12, <3>1
    <3>3. /\ v.off = off + 1 /\ v.state = "processing"
          /\ v.lastPsn = ((s + 1) + len - (off + 1) - 1) % PsnMod
      BY <1>10, <2>4, <3>2
    <3>4. MsgLen(e, m) = len
      BY <2>4 DEF len
    <3>5. UnsentPart(e, m, r)'
      BY <1>13, <2>4, <3>1, <3>2, <3>3, <3>4 DEF UnsentPart, MsgLen
    <3> QED
      BY <3>1, <3>5
  <2>5. CASE m > q + 1
    <3>1. ~(m <= r) /\ m > q /\ m # q + 1
      BY <1>18, <2>0, <2>5
    <3>2. Slot(e, m)' = Slot(e, m) /\ UnsentPart(e, m, q)
      BY <1>17, <2>1, <3>1
    <3>3. Slot(e, m) \in Wqe
      BY <1>0, <1>6, <2>0, CursorFacts
    <3>4. Slot(e, m).off = 0 /\ ~(Slot(e, m).off > 0)
      BY <3>1, <3>2, <3>3 DEF UnsentPart, Wqe
    <3>5. UnsentPart(e, m, r)'
      BY <3>2, <3>4 DEF UnsentPart, MsgLen
    <3> QED
      BY <3>1, <3>5
  <2> QED
    BY <2>0, <2>2, <2>3, <2>4, <2>5
<1>23. AckPart(e, c)'
  <2>1. /\ compPsn[e] = c % PsnMod /\ c <= Len(executed[Peer[e]])
        /\ \A m \in 1 .. Done(e) : \E j \in 1 .. Len(executed[Peer[e]]) :
             executed[Peer[e]][j] = <<m, MsgLen(e, m)>>
    BY <1>1 DEF RequestFlow, AckPart
  <2> QED
    BY <1>7, <1>12, <1>13, <1>14, <2>1 DEF AckPart, MsgLen
<1>24. DeliveryPart(e)'
  <2>1. /\ Len(executed[Peer[e]]) <= s
        /\ recvPsn[Peer[e]] = Len(executed[Peer[e]]) % PsnMod
        /\ ackPsn[Peer[e]] = Len(executed[Peer[e]]) % PsnMod
        /\ \A j \in 1 .. Len(executed[Peer[e]]) : executed[Peer[e]][j] = sent[e][j]
    BY <1>1 DEF RequestFlow, DeliveryPart, s
  <2>2. Len(executed[Peer[e]]) <= s + 1
    BY <1>12, <2>1
  <2>3. \A j \in 1 .. Len(executed[Peer[e]]) : sent'[e][j] = sent[e][j]
    BY <1>12, <1>13, <2>1
  <2> QED
    BY <1>7, <1>13, <2>1, <2>2, <2>3 DEF DeliveryPart
<1> QED
  BY <1>0, <1>19, <1>21, <1>22, <1>23, <1>24 DEF FlowInv, RequestFlow

LEMMA SendPacketData ==
    ASSUME TransportInv, Traffic, TypeOK', NEW e \in Endpoint, SendPacket(e)
    PROVE  DataInv'
<1>0. /\ TypeInv /\ TypeOK /\ RecvCqePerSend /\ e \in Requester
      /\ \A x \in Endpoint : FlowInv(x) /\ NetPart(x)
  BY SenderIsRequester DEF TransportInv, DataInv, TypeInv
<1>1. PICK q \in Nat, c \in Nat : RequestFlow(e, q, c)
  BY <1>0 DEF FlowInv
<1>2. PICK p \in Packet : p = SentPacket(e)
  BY <1>0, SentPacketType
<1>3. /\ net' = [net EXCEPT ![Peer[e]] = Append(@, p)]
      /\ net \in [Endpoint -> Seq(Packet)]
      /\ Peer[e] \in Endpoint /\ Peer[e] # e /\ Peer[Peer[e]] = e
  BY <1>0, <1>2, SentPacketType, ConstantFacts DEF TypeOK
<1>4. PICK o : o = NextOpcode(e, CurWqe(e))
  OBVIOUS
<1>5. PICK f : f = <<CurWqe(e).msg, CurWqe(e).off + 1>>
  OBVIOUS
<1>6. wqeIndex[e] # head[e]
  BY DEF SendPacket, Busy
<1>7. q < taken[e] /\ CurWqe(e).msg = q + 1
  BY <1>0, <1>1, <1>6, CursorFacts DEF RequestFlow
<1>8. /\ p.kind = "REQ" /\ p.psn = sendPsn[e] /\ p.opcode = o /\ p.frag = f
      /\ p.number = Len(sent[e])
  BY <1>2, <1>4, <1>5 DEF SentPacket
<1>9. /\ sent' = [sent EXCEPT ![e] = Append(@, f)]
      /\ executed' = executed /\ recvCqes' = recvCqes /\ pc' = pc
      /\ recvPsn' = recvPsn /\ ackPsn' = ackPsn
      /\ taken' = taken /\ head' = head /\ tail' = tail
      /\ completed' = completed /\ compPsn' = compPsn
      /\ \A x \in Endpoint : x # e =>
           /\ ring'[x] = ring[x] /\ wqeIndex'[x] = wqeIndex[x]
           /\ sendPsn'[x] = sendPsn[x] /\ sendOpcode'[x] = sendOpcode[x]
  BY <1>0, <1>5 DEF SendPacket, TypeOK, respVars
<1>10. /\ f = <<q + 1, CurWqe(e).off + 1>>
       /\ f \in Nat \X Nat
       /\ f[1] = q + 1 /\ f[2] = CurWqe(e).off + 1
  <2>1. f = <<q + 1, CurWqe(e).off + 1>>
    BY <1>5, <1>7
  <2>2. f \in Fragment(e)
    BY <1>0, <1>1, <1>7, <2>1, NextFragment
  <2> QED
    BY <2>1, <2>2, FragmentFacts
<1>11. /\ sent[e] \in Seq(Nat \X Nat) /\ Len(sent[e]) \in Nat
       /\ Len(sent'[e]) = Len(sent[e]) + 1
       /\ sent'[e][Len(sent[e]) + 1] = f
       /\ \A j \in 1 .. Len(sent[e]) : sent'[e][j] = sent[e][j]
  <2>1. sent[e] \in Seq(Nat \X Nat) /\ sent'[e] = Append(sent[e], f)
    BY <1>0, <1>9 DEF TypeOK
  <2> QED
    BY <1>10, <2>1, LenProperties, AppendProperties
<1>12. HistoryGrows
  <2>1. ASSUME NEW x \in Endpoint
        PROVE  /\ Len(sent[x]) <= Len(sent'[x])
               /\ \A j \in 1 .. Len(sent[x]) : sent'[x][j] = sent[x][j]
    <3>1. CASE x = e
      BY <1>11, <3>1
    <3>2. CASE x # e
      <4>1. sent'[x] = sent[x] /\ Len(sent[x]) \in Nat
        BY <1>0, <1>9, <3>2, CountFacts DEF TypeOK
      <4> QED
        BY <4>1
    <3> QED
      BY <3>1, <3>2
  <2>2. \A x \in Endpoint : Len(executed[x]) \in Nat
    BY <1>0, CountFacts
  <2> QED
    BY <1>9, <2>1, <2>2 DEF HistoryGrows
<1>13. PacketOK(Peer[e], p)'
  <2>1. p.psn = p.number % PsnMod
    BY <1>1, <1>8 DEF RequestFlow, SentPart
  <2>2. /\ o.op = Workload[e][q + 1].op
        /\ IsEnd(o) <=> CurWqe(e).off + 1 = MsgLen(e, q + 1)
    BY <1>0, <1>1, <1>4, <1>7, OpcodeFacts
  <2>3. p.opcode.op = Workload[e][p.frag[1]].op
    BY <1>8, <1>10, <2>2
  <2>4. IsEnd(p.opcode) <=> p.frag[2] = MsgLen(e, p.frag[1])
    BY <1>8, <1>10, <2>2
  <2>5. p.number >= 0 /\ p.number < Len(sent'[e]) /\ p.frag = sent'[e][p.number + 1]
    BY <1>8, <1>11
  <2> QED
    BY <1>0, <1>3, <1>8, <2>1, <2>3, <2>4, <2>5 DEF PacketOK, MsgLen
<1>14. ASSUME NEW x \in Endpoint
       PROVE  NetPart(x)'
  <2> SUFFICES ASSUME NEW i \in 1 .. Len(net'[x])
               PROVE  \/ \E j \in 1 .. Len(net[x]) : net'[x][i] = net[x][j]
                      \/ \E y \in Packet : net'[x][i] = y /\ PacketOK(x, y)'
    BY <1>0, <1>12, NetStep
  <2>1. CASE x # Peer[e]
    BY <1>3, <2>1
  <2>2. CASE x = Peer[e]
    <3>1. net[x] \in Seq(Packet) /\ net'[x] = Append(net[x], p)
      BY <1>3, <2>2
    <3>2. /\ Len(net[x]) \in Nat /\ Len(net'[x]) = Len(net[x]) + 1
          /\ \A j \in 1 .. Len(net[x]) : net'[x][j] = net[x][j]
          /\ net'[x][Len(net[x]) + 1] = p
      BY <3>1, LenProperties, AppendProperties
    <3>3. i \in 1 .. Len(net[x]) \/ i = Len(net[x]) + 1
      BY <3>2
    <3>4. PacketOK(x, p)'
      BY <1>13, <2>2 DEF PacketOK
    <3> QED
      BY <3>2, <3>3, <3>4
  <2> QED
    BY <2>1, <2>2
<1>15. ASSUME NEW x \in Endpoint
       PROVE  FlowInv(x)'
  <2>1. CASE x = e
    BY <2>1, SendPacketFlow
  <2>2. CASE x # e
    <3>1. sent'[x] = sent[x]
      BY <1>0, <1>9, <2>2 DEF TypeOK
    <3>2. x \notin Requester => pc'[x] # "ack"
      BY <1>9, Roles
    <3> QED
      BY <1>0, <1>9, <2>2, <3>1, <3>2, FlowKept
  <2> QED
    BY <2>1, <2>2
<1>16. RecvCqePerSend'
  BY <1>0, <1>9 DEF RecvCqePerSend
<1> QED
  BY <1>14, <1>15, <1>16 DEF DataInv

-----------------------------------------------------------------------------
(* The responder *)

\* What the comparison of the request at the head of the queue tells, as long as
\* the request is recent.
LEMMA RequestFacts ==
    ASSUME TransportInv, Traffic, Recent, NEW e \in Endpoint,
           net[e] # <<>>, Head(net[e]).kind = "REQ",
           NEW p, p = Head(net[e])
    PROVE  /\ e \notin Requester /\ Peer[e] \in Requester
           /\ Peer[e] \in Endpoint /\ Peer[e] # e /\ Peer[Peer[e]] = e
           /\ p \in Packet /\ p.number \in Nat
           /\ p.psn = p.number % PsnMod
           /\ p.number < Len(sent[Peer[e]])
           /\ p.frag = sent[Peer[e]][p.number + 1]
           /\ p.opcode.op = Workload[Peer[e]][p.frag[1]].op
           /\ IsEnd(p.opcode) <=> p.frag[2] = MsgLen(Peer[e], p.frag[1])
           /\ recvPsn[e] = Len(executed[e]) % PsnMod
           /\ ackPsn[e] = Len(executed[e]) % PsnMod
           /\ Len(executed[e]) <= Len(sent[Peer[e]])
           /\ \A j \in 1 .. Len(executed[e]) : executed[e][j] = sent[Peer[e]][j]
           /\ PsnCompare(p.psn, recvPsn[e]) = 0 => p.number = Len(executed[e])
           /\ PsnCompare(p.psn, recvPsn[e]) < 0 => p.number < Len(executed[e])
<1> DEFINE P == Peer[e]
           r == Len(executed[e])
           n == p.number
<1>0. /\ P \in Endpoint /\ P # e /\ Peer[P] = e
      /\ TypeInv /\ FlowInv(P)
  BY ConstantFacts DEF TransportInv, DataInv
<1>1. P \in Requester /\ PacketOK(e, p)
  BY Roles
<1>2. e \notin Requester
  BY <1>0, <1>1, TrafficFacts
<1>3. p \in Packet
  BY <1>0, HeadFacts DEF TypeInv
<1>4. /\ p.psn = n % PsnMod /\ n \in Nat /\ n < Len(sent[P])
      /\ p.frag = sent[P][n + 1]
      /\ p.opcode.op = Workload[P][p.frag[1]].op
      /\ IsEnd(p.opcode) <=> p.frag[2] = MsgLen(P, p.frag[1])
  <2>1. n \in Int
    BY <1>3 DEF Packet, ReqPacket, AckPacket
  <2> QED
    BY <1>1, <2>1 DEF PacketOK
<1>5. PICK q \in Nat, c \in Nat : RequestFlow(P, q, c)
  BY <1>0, <1>1 DEF FlowInv
<1>6. /\ r <= Len(sent[P]) /\ recvPsn[e] = r % PsnMod /\ ackPsn[e] = r % PsnMod
      /\ \A j \in 1 .. r : executed[e][j] = sent[P][j]
      /\ c <= r /\ Len(sent[P]) <= c + MaxUnacked + 1
  BY <1>0, <1>5 DEF RequestFlow, DeliveryPart, AckPart
<1>7. r \in Nat /\ Len(sent[P]) \in Nat /\ PsnMod \in Nat
  BY <1>0, CountFacts, ConstantFacts
<1>8. r - n < PsnMod
  <2>1. 1 \in 1 .. Len(net[e]) /\ net[e][1] = p
    <3>1. net[e] \in Seq(Packet)
      BY <1>0 DEF TypeInv, TypeOK
    <3> QED
      BY <3>1
  <2> QED
    BY <2>1 DEF Recent
<1>9. n - r < PsnMod \div 2 /\ n - r < PsnMod
  <2> DEFINE h == PsnMod \div 2
             t == Len(sent[P])
  <2>1. MaxUnacked \in Nat /\ 2 * (MaxUnacked + 1) < PsnMod
    BY ConstantFacts
  <2>2. h \in Nat /\ PsnMod = 2 * h
    BY HalfCircle
  <2>3. n \in Nat /\ t \in Nat /\ n < t /\ c \in Nat /\ c <= r /\ r \in Nat
        /\ t <= c + MaxUnacked + 1
    BY <1>4, <1>6, <1>7
  <2> HIDE DEF h, t, n, r
  <2> QED
    BY <2>1, <2>2, <2>3 DEF h
<1>10. PsnCompare(p.psn, recvPsn[e]) = 0 => n = r
  BY <1>4, <1>6, <1>7, <1>8, <1>9, PsnCompareZero
<1>11. ASSUME PsnCompare(p.psn, recvPsn[e]) < 0
       PROVE  n < r
  <2> SUFFICES ASSUME n >= r
               PROVE  FALSE
    BY <1>4, <1>7
  <2>1. -(PsnMod \div 2) <= n - r
    BY <1>4, <1>7, HalfCircle
  <2>2. PsnCompare(n % PsnMod, r % PsnMod) = n - r
    BY <1>4, <1>7, <1>9, <2>1, PsnCompareTwo
  <2>3. ~(n - r < 0)
    BY <1>4, <1>7
  <2> QED
    BY <1>4, <1>6, <1>11, <2>2, <2>3
<1> QED
  BY <1>0, <1>1, <1>2, <1>3, <1>4, <1>6, <1>10, <1>11

LEMMA RecvOutOfOrderData ==
    ASSUME TransportInv, Traffic, Recent, TypeOK', NEW e \in Endpoint,
           RecvOutOfOrder(e)
    PROVE  DataInv'
<1>0. TypeInv
  BY DEF TransportInv
<1>1. /\ net[e] # <<>> /\ Head(net[e]).kind = "REQ"
      /\ taken' = taken /\ ring' = ring /\ head' = head /\ tail' = tail
      /\ wqeIndex' = wqeIndex /\ sendPsn' = sendPsn /\ sendOpcode' = sendOpcode
      /\ compPsn' = compPsn /\ recvPsn' = recvPsn /\ ackPsn' = ackPsn
      /\ sent' = sent /\ executed' = executed /\ recvCqes' = recvCqes
      /\ completed' = completed /\ pc' = pc
  BY DEF RecvOutOfOrder, Polled, ringVars, reqVars
<1>2. /\ Peer[e] \in Requester /\ Peer[e] \in Endpoint /\ Peer[Peer[e]] = e
      /\ recvPsn[e] = Len(executed[e]) % PsnMod
  BY <1>1, RequestFacts
<1>3. PICK a : a = [kind |-> "NAK", psn |-> recvPsn[e], number |-> Len(executed[e])]
  OBVIOUS
<1>4. Len(executed[e]) \in Nat /\ recvPsn[e] \in PSN
  BY <1>0, CountFacts DEF TypeInv, TypeOK
<1>5. a \in Packet /\ a.kind = "NAK" /\ a.psn = recvPsn[e] /\ a.number = Len(executed[e])
  BY <1>3, <1>4 DEF Packet, AckPacket
<1>6. \/ Consume(e)
      \/ net' = [net EXCEPT ![e] = Tail(@), ![Peer[e]] = Append(@, a)]
  BY <1>3 DEF RecvOutOfOrder, SendAck
<1>7. PacketOK(Peer[e], a)'
  BY <1>1, <1>2, <1>4, <1>5 DEF PacketOK
<1>8. ASSUME NEW x \in Endpoint, NEW i \in 1 .. Len(net'[x])
      PROVE  \/ \E j \in 1 .. Len(net[x]) : net'[x][i] = net[x][j]
             \/ \E y \in Packet : net'[x][i] = y /\ PacketOK(x, y)'
  <2>1. \/ \E j \in 1 .. Len(net[x]) : net'[x][i] = net[x][j]
        \/ x = Peer[e] /\ net'[x][i] = a
    BY <1>0, <1>1, <1>5, <1>6, HandledNet
  <2>2. x = Peer[e] => PacketOK(x, a)'
    BY <1>7 DEF PacketOK
  <2> QED
    BY <1>5, <2>1, <2>2
<1>9. \A x \in Endpoint : x \notin Requester => pc'[x] # "ack"
  BY <1>1, Roles
<1> QED
  BY <1>1, <1>8, <1>9, QuietStep

LEMMA RecvDuplicateData ==
    ASSUME TransportInv, Traffic, Recent, TypeOK', NEW e \in Endpoint,
           RecvDuplicate(e)
    PROVE  DataInv'
<1>0. TypeInv
  BY DEF TransportInv
<1>1. /\ net[e] # <<>> /\ Head(net[e]).kind = "REQ"
      /\ PsnCompare(Head(net[e]).psn, recvPsn[e]) < 0
      /\ taken' = taken /\ ring' = ring /\ head' = head /\ tail' = tail
      /\ wqeIndex' = wqeIndex /\ sendPsn' = sendPsn /\ sendOpcode' = sendOpcode
      /\ compPsn' = compPsn /\ recvPsn' = recvPsn /\ ackPsn' = ackPsn
      /\ sent' = sent /\ executed' = executed /\ recvCqes' = recvCqes
      /\ completed' = completed /\ pc' = pc
  BY DEF RecvDuplicate, Polled, ringVars, reqVars, respVars
<1>2. /\ Peer[e] \in Requester /\ Peer[e] \in Endpoint /\ Peer[Peer[e]] = e
      /\ ackPsn[e] = Len(executed[e]) % PsnMod
      /\ Head(net[e]).number \in Nat
      /\ Head(net[e]).number < Len(executed[e])
  BY <1>1, RequestFacts
<1>3. PICK r \in Nat : r = Len(executed[e])
  BY <1>0, CountFacts
<1>4. r >= 1 /\ r - 1 \in Nat /\ r - 1 < r
  BY <1>2, <1>3
<1>5. DuplicateAckPsn(e) = (r - 1) % PsnMod
  <2>1. PsnAdd(r % PsnMod, -1) = (r + (-1)) % PsnMod
    BY PsnAddNumber
  <2>2. r + (-1) = r - 1
    OBVIOUS
  <2> QED
    BY <1>2, <1>3, <2>1, <2>2 DEF DuplicateAckPsn
<1>6. PICK a : a = [kind |-> "ACK", psn |-> DuplicateAckPsn(e), number |-> r - 1]
  OBVIOUS
<1>7. a \in Packet /\ a.kind = "ACK" /\ a.psn = (r - 1) % PsnMod /\ a.number = r - 1
  <2>1. DuplicateAckPsn(e) \in PSN
    <3>1. ackPsn[e] \in Nat
      BY <1>0, PsnFacts DEF TypeInv, TypeOK
    <3> QED
      BY <3>1, PsnFacts DEF DuplicateAckPsn
  <2> QED
    BY <1>4, <1>5, <1>6, <2>1 DEF Packet, AckPacket
<1>8. net' = [net EXCEPT ![e] = Tail(@), ![Peer[e]] = Append(@, a)]
  BY <1>3, <1>6 DEF RecvDuplicate, SendAck
<1>9. PacketOK(Peer[e], a)'
  <2>1. a.number <= r /\ a.number < r /\ a.number >= 0
    BY <1>4, <1>7
  <2> QED
    BY <1>1, <1>2, <1>3, <1>7, <2>1 DEF PacketOK
<1>10. ASSUME NEW x \in Endpoint, NEW i \in 1 .. Len(net'[x])
       PROVE  \/ \E j \in 1 .. Len(net[x]) : net'[x][i] = net[x][j]
              \/ \E y \in Packet : net'[x][i] = y /\ PacketOK(x, y)'
  <2>1. \/ \E j \in 1 .. Len(net[x]) : net'[x][i] = net[x][j]
        \/ x = Peer[e] /\ net'[x][i] = a
    <3>1. net[e] # <<>> /\ a \in Packet
      BY <1>1, <1>7
    <3>2. \/ Consume(e)
          \/ net' = [net EXCEPT ![e] = Tail(@), ![Peer[e]] = Append(@, a)]
      BY <1>8
    <3>3. \A y \in Endpoint : \A k \in 1 .. Len(net'[y]) :
            \/ \E j \in 1 .. Len(net[y]) : net'[y][k] = net[y][j]
            \/ y = Peer[e] /\ net'[y][k] = a
      BY <1>0, <3>1, <3>2, HandledNet
    <3> QED
      BY <3>3
  <2>2. x = Peer[e] => PacketOK(x, a)'
    BY <1>9 DEF PacketOK
  <2> QED
    BY <1>7, <2>1, <2>2
<1>11. \A x \in Endpoint : x \notin Requester => pc'[x] # "ack"
  BY <1>1, Roles
<1> QED
  BY <1>1, <1>10, <1>11, QuietStep

\* Executing the end of a SEND is what adds a receive completion.
LEMMA ExecutedCqe ==
    ASSUME TransportInv, Traffic, Recent, NEW e \in Endpoint, RecvInOrder(e)
    PROVE  RecvCqePerSend'
<1> DEFINE p == Head(net[e])
           P == Peer[e]
           S(x, E) == {m \in DOMAIN Workload[Peer[x]] :
                         /\ Workload[Peer[x]][m].op = "SEND"
                         /\ <<m, Workload[Peer[x]][m].len>> \in ToSet(E)}
<1>0. /\ TypeInv /\ RecvCqePerSend
      /\ recvCqes \in [Endpoint -> Nat]
      /\ executed \in [Endpoint -> Seq(Nat \X Nat)]
  BY DEF TransportInv, DataInv, TypeInv, TypeOK
<1>1. /\ net[e] # <<>> /\ p.kind = "REQ"
      /\ PsnCompare(p.psn, recvPsn[e]) = 0
      /\ executed' = [executed EXCEPT ![e] = Append(@, p.frag)]
      /\ recvCqes' = [recvCqes EXCEPT ![e] = IF Completes(p.opcode) THEN @ + 1 ELSE @]
  BY DEF RecvInOrder, Polled, InOrder
<1>2. \A x \in Endpoint : recvCqes[x] = Cardinality(S(x, executed[x]))
  BY <1>0 DEF RecvCqePerSend
<1>3. /\ P \in Endpoint /\ P \in Requester
      /\ p.frag = sent[P][Len(executed[e]) + 1]
      /\ Len(executed[e]) + 1 \in 1 .. Len(sent[P])
      /\ Len(executed[e]) \in Nat
      /\ \A j \in 1 .. Len(executed[e]) : executed[e][j] = sent[P][j]
      /\ p.opcode.op = Workload[P][p.frag[1]].op
      /\ IsEnd(p.opcode) <=> p.frag[2] = MsgLen(P, p.frag[1])
  <2>1. Len(executed[e]) \in Nat /\ P \in Endpoint
    BY <1>0, CountFacts
  <2>2. Len(sent[P]) \in Nat
    BY <1>0, <2>1, CountFacts
  <2>3. /\ P \in Requester /\ p.number < Len(sent[P])
        /\ p.frag = sent[P][p.number + 1]
        /\ p.number = Len(executed[e])
        /\ \A j \in 1 .. Len(executed[e]) : executed[e][j] = sent[P][j]
        /\ p.opcode.op = Workload[P][p.frag[1]].op
        /\ IsEnd(p.opcode) <=> p.frag[2] = MsgLen(P, p.frag[1])
    BY <1>1, RequestFacts, SMTT(20)
  <2>4. Len(executed[e]) + 1 \in 1 .. Len(sent[P])
    <3> HIDE DEF p
    <3> QED
      BY <2>1, <2>2, <2>3
  <2> QED
    BY <2>1, <2>3, <2>4
<1>4. sent[P] \in Seq(Nat \X Nat) /\ InPostedOrder(P, sent[P])
  <2>1. PICK q \in Nat, c \in Nat : RequestFlow(P, q, c)
    BY <1>3 DEF TransportInv, DataInv, FlowInv
  <2> QED
    BY <1>0, <1>3, <2>1, CountFacts DEF RequestFlow, SentPart
<1> DEFINE f == p.frag
           E == executed[e]
<1>5. f \in Fragment(P)
  BY <1>3, <1>4, PostedPlace
<1>6. /\ f = <<f[1], f[2]>> /\ f[1] \in DOMAIN Workload[P] /\ f \in Nat \X Nat
  BY <1>3, <1>5, FragmentFacts, SMTT(60)
<1>7. ToSet(Append(E, f)) = ToSet(E) \cup {f} /\ f \notin ToSet(E)
  <2>1. E \in Seq(Nat \X Nat)
    BY <1>0
  <2>2. /\ DOMAIN E = 1 .. Len(E) /\ Len(E) \in Nat
        /\ DOMAIN Append(E, f) = 1 .. Len(E) + 1
        /\ \A j \in 1 .. Len(E) : Append(E, f)[j] = E[j]
        /\ Append(E, f)[Len(E) + 1] = f
    <3>1. /\ Append(E, f) \in Seq(Nat \X Nat) /\ Len(Append(E, f)) = Len(E) + 1
          /\ \A j \in 1 .. Len(E) : Append(E, f)[j] = E[j]
          /\ Append(E, f)[Len(E) + 1] = f
      BY <1>6, <2>1, AppendProperties
    <3> QED
      BY <2>1, <3>1, LenProperties
  <2> HIDE DEF E, f, p
  <2>3. \A j : j \in 1 .. Len(E) + 1 <=> j \in 1 .. Len(E) \/ j = Len(E) + 1
    BY <2>2
  <2>4. ToSet(Append(E, f)) = ToSet(E) \cup {f}
    BY <2>2, <2>3 DEF ToSet
  <2>5. ASSUME NEW j \in 1 .. Len(E), E[j] = f
        PROVE  FALSE
    <3>1. sent[P][j] = sent[P][Len(E) + 1] /\ j \in 1 .. Len(sent[P]) /\ j # Len(E) + 1
      <4>1. sent[P][j] = sent[P][Len(E) + 1]
        BY <1>3, <2>5 DEF E, f
      <4>2. Len(E) + 1 \in 1 .. Len(sent[P]) /\ Len(E) \in Nat
        BY <1>3 DEF E
      <4>3. Len(sent[P]) \in Nat
        BY <1>4, LenProperties
      <4> HIDE DEF P
      <4> QED
        BY <4>1, <4>2, <4>3
    <3>2. Len(E) + 1 \in 1 .. Len(sent[P]) /\ P \in Endpoint
      BY <1>3 DEF E
    <3> HIDE DEF P
    <3>3. j = Len(E) + 1
      BY <1>4, <3>1, <3>2, PostedPlace
    <3> QED
      BY <3>1, <3>3
  <2>6. f \notin ToSet(E)
    BY <2>2, <2>5 DEF ToSet
  <2> QED
    BY <2>4, <2>6
<1>8. Completes(p.opcode) <=>
        Workload[P][f[1]].op = "SEND" /\ f = <<f[1], Workload[P][f[1]].len>>
  BY <1>3, <1>6, SMTT(60) DEF Completes, MsgLen
<1>9. IsFiniteSet(S(e, E))
  <2>1. S(e, E) \subseteq 1 .. Len(Workload[P])
    BY <1>3, WorkloadFacts
  <2>2. IsFiniteSet(1 .. Len(Workload[P]))
    BY <1>3, WorkloadFacts, FS_Interval
  <2> QED
    BY <2>1, <2>2, FS_Subset
<1>10. CASE Completes(p.opcode)
  <2>1. S(e, Append(E, f)) = S(e, E) \cup {f[1]} /\ f[1] \notin S(e, E)
    <3> HIDE DEF E, f, p
    <3>1. \A m \in DOMAIN Workload[P] :
            <<m, Workload[P][m].len>> = f <=> m = f[1] /\ f = <<f[1], Workload[P][f[1]].len>>
      BY <1>6
    <3> QED
      BY <1>6, <1>7, <1>8, <1>10, <3>1
  <2>2. Cardinality(S(e, Append(E, f))) = Cardinality(S(e, E)) + 1
    <3> HIDE DEF S, E, f
    <3> QED
      BY <1>9, <2>1, FS_AddElement
  <2>3. recvCqes'[e] = recvCqes[e] + 1 /\ executed'[e] = Append(E, f)
    BY <1>0, <1>1, <1>10
  <2>4. recvCqes'[e] = Cardinality(S(e, executed'[e]))
    BY <1>2, <2>2, <2>3
  <2>5. \A x \in Endpoint : x # e => recvCqes'[x] = recvCqes[x] /\ executed'[x] = executed[x]
    BY <1>0, <1>1
  <2>6. \A x \in Endpoint : recvCqes'[x] = Cardinality(S(x, executed'[x]))
    BY <1>2, <2>4, <2>5
  <2> QED
    BY <2>6 DEF RecvCqePerSend
<1>11. CASE ~Completes(p.opcode)
  <2>1. S(e, Append(E, f)) = S(e, E)
    <3> HIDE DEF E, f, p
    <3>1. \A m \in DOMAIN Workload[P] :
            <<m, Workload[P][m].len>> = f => m = f[1] /\ f = <<f[1], Workload[P][f[1]].len>>
      BY <1>6
    <3> QED
      BY <1>6, <1>7, <1>8, <1>11, <3>1
  <2>3. recvCqes'[e] = recvCqes[e] /\ executed'[e] = Append(E, f)
    BY <1>0, <1>1, <1>11
  <2>4. recvCqes'[e] = Cardinality(S(e, executed'[e]))
    BY <1>2, <2>1, <2>3
  <2>5. \A x \in Endpoint : x # e => recvCqes'[x] = recvCqes[x] /\ executed'[x] = executed[x]
    BY <1>0, <1>1
  <2>6. \A x \in Endpoint : recvCqes'[x] = Cardinality(S(x, executed'[x]))
    BY <1>2, <2>4, <2>5
  <2> QED
    BY <2>6 DEF RecvCqePerSend
<1> QED
  BY <1>10, <1>11

\* The request expected next is executed: the flow of the peer goes on.
LEMMA RecvInOrderFlow ==
    ASSUME TransportInv, Traffic, Recent, TypeOK', NEW e \in Endpoint,
           RecvInOrder(e)
    PROVE  FlowInv(Peer[e])'
<1> DEFINE p == Head(net[e])
           P == Peer[e]
<1>0. TypeInv /\ TypeOK /\ P \in Endpoint /\ P # e /\ Peer[P] = e /\ FlowInv(P)
  BY ConstantFacts DEF TransportInv, DataInv, TypeInv
<1>1. /\ net[e] # <<>> /\ p.kind = "REQ"
      /\ PsnCompare(p.psn, recvPsn[e]) = 0
      /\ taken' = taken /\ ring' = ring /\ head' = head /\ tail' = tail
      /\ wqeIndex' = wqeIndex /\ sendPsn' = sendPsn /\ sendOpcode' = sendOpcode
      /\ compPsn' = compPsn /\ sent' = sent /\ completed' = completed /\ pc' = pc
      /\ executed'[e] = Append(executed[e], p.frag)
      /\ recvPsn'[e] = PsnAdd(p.psn, 1) /\ ackPsn'[e] = PsnAdd(p.psn, 1)
  BY <1>0 DEF RecvInOrder, Polled, InOrder, ringVars, reqVars, TypeOK
<1>2. PICK r \in Nat, s \in Nat : r = Len(executed[e]) /\ s = Len(sent[P])
  BY <1>0, CountFacts
<1>3. /\ P \in Requester /\ p \in Packet
      /\ p.psn = r % PsnMod /\ p.frag = sent[P][r + 1] /\ r < s
      /\ \A j \in 1 .. r : executed[e][j] = sent[P][j]
  <2>1. /\ P \in Requester /\ p \in Packet /\ p.number = Len(executed[e])
        /\ p.psn = p.number % PsnMod /\ p.frag = sent[P][p.number + 1]
        /\ p.number < Len(sent[P])
        /\ \A j \in 1 .. Len(executed[e]) : executed[e][j] = sent[P][j]
    BY <1>1, RequestFacts
  <2> HIDE DEF p, P
  <2> QED
    BY <1>2, <2>1
<1>4. PICK q \in Nat, c \in Nat : RequestFlow(P, q, c)
  BY <1>0, <1>3 DEF FlowInv
<1>5. /\ Len(executed'[e]) = r + 1
      /\ \A j \in 1 .. r : executed'[e][j] = executed[e][j]
      /\ executed'[e][r + 1] = sent[P][r + 1]
  <2>1. executed[e] \in Seq(Nat \X Nat)
    BY <1>0 DEF TypeOK
  <2>2. sent[P] \in Seq(Nat \X Nat) /\ r + 1 \in 1 .. Len(sent[P])
    <3>1. sent[P] \in Seq(Nat \X Nat)
      BY <1>0 DEF TypeOK
    <3> HIDE DEF p, P
    <3> QED
      BY <1>2, <1>3, <3>1
  <2>3. p.frag \in Nat \X Nat
    BY <1>3, <2>2, ElementOfSeq
  <2> HIDE DEF p, P
  <2> QED
    BY <1>1, <1>2, <1>3, <2>1, <2>3, AppendProperties
<1>6. recvPsn'[e] = (r + 1) % PsnMod /\ ackPsn'[e] = (r + 1) % PsnMod
  <2>1. PsnAdd(r % PsnMod, 1) = (r + 1) % PsnMod
    BY PsnAddNumber
  <2> QED
    BY <1>1, <1>3, <2>1
<1>7. RingPart(P, q)'
  <2>1. RingPart(P, q)
    BY <1>4 DEF RequestFlow
  <2> HIDE DEF P
  <2> QED
    BY <1>0, <1>1, <2>1, RingKept
<1>8. SentPart(P, q)'
  <2>1. SentPart(P, q) /\ Off(P, q)' = Off(P, q)
    BY <1>1, <1>4 DEF RequestFlow, Off, Slot
  <2> HIDE DEF P
  <2> QED
    BY <1>0, <1>1, <2>1, SentKept
<1>9. WqePart(P, q, c)'
  <2>1. WqePart(P, q, c)
    BY <1>4 DEF RequestFlow
  <2> HIDE DEF P
  <2> QED
    BY <1>0, <1>1, <2>1, WqeKept
<1>10. AckPart(P, c)'
  <2>1. /\ compPsn[P] = c % PsnMod /\ c <= r /\ s <= c + MaxUnacked + 1
        /\ \A m \in 1 .. Done(P) : \E j \in 1 .. r :
             executed[e][j] = <<m, MsgLen(P, m)>>
    BY <1>0, <1>2, <1>4 DEF RequestFlow, AckPart
  <2>2. c <= r + 1 /\ \A j \in 1 .. r : j \in 1 .. r + 1
    BY <1>2, <2>1
  <2>3. Done(P)' = Done(P)
    BY <1>1 DEF Done
  <2>4. ASSUME NEW m \in 1 .. Done(P)
        PROVE  \E j \in 1 .. r + 1 : executed'[e][j] = <<m, MsgLen(P, m)>>
    <3>1. PICK j \in 1 .. r : executed[e][j] = <<m, MsgLen(P, m)>>
      BY <2>1
    <3> QED
      BY <1>5, <2>2, <3>1
  <2> HIDE DEF P
  <2>5. /\ compPsn'[P] = c % PsnMod
        /\ c <= Len(executed'[Peer[P]])
        /\ Len(sent'[P]) <= c + MaxUnacked + 1
    BY <1>0, <1>1, <1>2, <1>5, <2>1, <2>2
  <2>6. \A m \in 1 .. Done(P)' : \E j \in 1 .. Len(executed'[Peer[P]]) :
          executed'[Peer[P]][j] = <<m, MsgLen(P, m)>>
    BY <1>0, <1>5, <2>3, <2>4
  <2> QED
    BY <2>5, <2>6 DEF AckPart, MsgLen
<1>11. DeliveryPart(P)'
  <2>1. r + 1 <= s /\ \A j \in 1 .. r + 1 : j \in 1 .. r \/ j = r + 1
    BY <1>2, <1>3
  <2>2. \A j \in 1 .. r + 1 : executed'[e][j] = sent[P][j]
    BY <1>3, <1>5, <2>1
  <2> HIDE DEF P
  <2> QED
    BY <1>0, <1>1, <1>2, <1>5, <1>6, <2>1, <2>2 DEF DeliveryPart
<1>12. RequestFlow(P, q, c)'
  BY <1>7, <1>8, <1>9, <1>10, <1>11 DEF RequestFlow
<1> QED
  BY <1>3, <1>12 DEF FlowInv

LEMMA RecvInOrderData ==
    ASSUME TransportInv, Traffic, Recent, TypeOK', NEW e \in Endpoint,
           RecvInOrder(e)
    PROVE  DataInv'
<1>0. /\ TypeInv /\ TypeOK /\ Peer[e] \in Endpoint /\ Peer[e] # e /\ Peer[Peer[e]] = e
      /\ \A x \in Endpoint : FlowInv(x) /\ NetPart(x)
  BY ConstantFacts DEF TransportInv, DataInv, TypeInv
<1>1. /\ net[e] # <<>> /\ Head(net[e]).kind = "REQ"
      /\ PsnCompare(Head(net[e]).psn, recvPsn[e]) = 0
      /\ taken' = taken /\ ring' = ring /\ head' = head /\ tail' = tail
      /\ wqeIndex' = wqeIndex /\ sendPsn' = sendPsn /\ sendOpcode' = sendOpcode
      /\ compPsn' = compPsn /\ sent' = sent /\ completed' = completed /\ pc' = pc
      /\ executed' = [executed EXCEPT ![e] = Append(@, Head(net[e]).frag)]
      /\ \A x \in Endpoint : x # e => /\ executed'[x] = executed[x]
                                      /\ recvPsn'[x] = recvPsn[x]
                                      /\ ackPsn'[x] = ackPsn[x]
  BY <1>0 DEF RecvInOrder, Polled, InOrder, ringVars, reqVars, TypeOK
<1>2. /\ e \notin Requester /\ Peer[e] \in Requester
      /\ Head(net[e]) \in Packet
      /\ Head(net[e]).psn = Head(net[e]).number % PsnMod
      /\ Head(net[e]).number = Len(executed[e])
      /\ Head(net[e]).frag = sent[Peer[e]][Head(net[e]).number + 1]
      /\ Head(net[e]).number < Len(sent[Peer[e]])
  BY <1>1, RequestFacts
<1>3. PICK r \in Nat : r = Len(executed[e])
  BY <1>0, CountFacts
<1>4. Len(executed'[e]) = r + 1
  <2>1. executed[e] \in Seq(Nat \X Nat)
    BY <1>0 DEF TypeOK
  <2>2. sent[Peer[e]] \in Seq(Nat \X Nat) /\ Len(sent[Peer[e]]) \in Nat
    BY <1>0, CountFacts DEF TypeOK
  <2>3. r + 1 \in 1 .. Len(sent[Peer[e]])
    BY <1>2, <1>3, <2>2
  <2>4. Head(net[e]).frag \in Nat \X Nat
    BY <1>2, <1>3, <2>2, <2>3, ElementOfSeq, SMTT(60)
  <2>5. executed'[e] = Append(executed[e], Head(net[e]).frag)
    BY <1>0, <1>1 DEF TypeOK
  <2> QED
    BY <1>3, <2>1, <2>4, <2>5, AppendProperties
<1>5. HistoryGrows
  <2>1. \A x \in Endpoint : Len(sent[x]) \in Nat /\ Len(executed[x]) \in Nat
    BY <1>0, CountFacts
  <2>2. r <= r + 1
    BY <1>3
  <2>3. \A x \in Endpoint : Len(executed[x]) <= Len(executed'[x])
    BY <1>1, <1>3, <1>4, <2>1, <2>2
  <2> QED
    BY <1>1, <2>1, <2>3 DEF HistoryGrows
<1>6. PICK a : a = [kind |-> "ACK", psn |-> Head(net[e]).psn, number |-> Len(executed[e])]
  OBVIOUS
<1>7. a \in Packet /\ a.kind = "ACK" /\ a.psn = r % PsnMod /\ a.number = r
  <2>1. Head(net[e]).psn \in PSN
    BY <1>2 DEF Packet, ReqPacket, AckPacket
  <2>2. Head(net[e]).psn = r % PsnMod
    BY <1>2, <1>3
  <2> QED
    BY <1>3, <1>6, <2>1, <2>2 DEF Packet, AckPacket
<1>8. \/ Consume(e)
      \/ net' = [net EXCEPT ![e] = Tail(@), ![Peer[e]] = Append(@, a)]
  BY <1>6 DEF RecvInOrder, SendAck
<1>9. PacketOK(Peer[e], a)'
  <2>1. r <= r + 1 /\ r < r + 1 /\ r >= 0
    BY <1>3
  <2> QED
    BY <1>0, <1>2, <1>4, <1>7, <2>1 DEF PacketOK
<1>10. ASSUME NEW x \in Endpoint
       PROVE  NetPart(x)'
  <2> SUFFICES ASSUME NEW i \in 1 .. Len(net'[x])
               PROVE  \/ \E j \in 1 .. Len(net[x]) : net'[x][i] = net[x][j]
                      \/ \E y \in Packet : net'[x][i] = y /\ PacketOK(x, y)'
    BY <1>0, <1>5, NetStep
  <2>1. \A y \in Endpoint : \A k \in 1 .. Len(net'[y]) :
          \/ \E j \in 1 .. Len(net[y]) : net'[y][k] = net[y][j]
          \/ y = Peer[e] /\ net'[y][k] = a
    BY <1>0, <1>1, <1>7, <1>8, HandledNet
  <2>2. x = Peer[e] => PacketOK(x, a)'
    BY <1>9 DEF PacketOK
  <2> QED
    BY <1>7, <2>1, <2>2
<1>11. ASSUME NEW x \in Endpoint
       PROVE  FlowInv(x)'
  <2>1. CASE x = Peer[e]
    BY <2>1, RecvInOrderFlow
  <2>2. CASE x # Peer[e]
    <3>1. Peer[x] # e
      BY <1>0, <2>2, ConstantFacts
    <3>2. Peer[x] \in Endpoint
      BY ConstantFacts
    <3>3. /\ executed'[Peer[x]] = executed[Peer[x]]
          /\ recvPsn'[Peer[x]] = recvPsn[Peer[x]]
          /\ ackPsn'[Peer[x]] = ackPsn[Peer[x]]
      BY <1>1, <3>1, <3>2
    <3>4. x \notin Requester => pc'[x] # "ack"
      BY <1>1, Roles
    <3> QED
      BY <1>0, <1>1, <3>3, <3>4, FlowKept
  <2> QED
    BY <2>1, <2>2
<1>12. RecvCqePerSend'
  BY ExecutedCqe
<1> QED
  BY <1>10, <1>11, <1>12 DEF DataInv

-----------------------------------------------------------------------------
(* The completer *)

\* L is the number of the last packet of the message at the tail.
TailEnd(e, q, c, L) ==
    /\ Done(e) + 1 \in Done(e) + 1 .. taken[e]
    /\ TailWqe(e) = Slot(e, Done(e) + 1)
    /\ TailWqe(e).msg = Done(e) + 1
    /\ Wr(e, TailWqe(e)) = Workload[e][Done(e) + 1]
    /\ TailWqe(e).lastPsn = L % PsnMod
    /\ c <= L
    /\ L < Len(sent[e]) + Wr(e, TailWqe(e)).len - TailWqe(e).off
    /\ TailWqe(e).state = "pending" =>
         /\ L < Len(sent[e])
         /\ sent[e][L + 1] = <<Done(e) + 1, MsgLen(e, Done(e) + 1)>>
         /\ Done(e) + 1 <= q
    /\ TailWqe(e).state # "pending" => L >= Len(sent[e]) /\ Done(e) = q

LEMMA TailFacts ==
    ASSUME TransportInv, Traffic, NEW e \in Endpoint, e \in Requester,
           NEW q \in Nat, NEW c \in Nat, RequestFlow(e, q, c),
           ~NothingToComplete(e)
    PROVE  \E L \in Nat : TailEnd(e, q, c, L)
<1>0. TypeInv /\ RingPart(e, q) /\ WqePart(e, q, c) /\ AckPart(e, c) /\ DeliveryPart(e)
  BY DEF TransportInv, RequestFlow
<1>1. PICK d \in Nat, s \in Nat, t \in Nat :
        d = Done(e) /\ s = Len(sent[e]) /\ t = taken[e]
  BY <1>0, CountFacts
<1>2. PICK r \in Nat : r = Len(executed[Peer[e]]) /\ c <= r /\ r <= s
  BY <1>0, <1>1, CountFacts DEF AckPart, DeliveryPart
<1>3. d < t /\ d <= q
  <2>1. d <= q /\ q <= t /\ d # t
    BY <1>0, <1>1, CursorFacts DEF NothingToComplete, RingPart
  <2> QED
    BY <1>1, <2>1
<1>4. d + 1 \in d + 1 .. t /\ d + 1 \in 1 .. t
  BY <1>1, <1>3
<1>5. PICK w : w = TailWqe(e) /\ w = Slot(e, d + 1) /\ w \in Wqe /\ w.msg = d + 1
  <2>1. d + 1 \in Nat
    BY <1>1
  <2> QED
    BY <1>0, <1>1, <1>3, <2>1, CursorFacts
<1>6. Wr(e, w) = Workload[e][d + 1] /\ d + 1 \in DOMAIN Workload[e]
  BY <1>0, <1>1, <1>4, <1>5, CountFacts DEF Wr
<1>7. PICK len \in Nat : len = MsgLen(e, d + 1) /\ len = Wr(e, w).len /\ len > 0
  BY <1>6, TrafficFacts DEF MsgLen
<1>8. w.off \in Nat /\ w.state # "posted"
  BY <1>5 DEF Wqe, NothingToComplete
<1>9. CASE d + 1 <= q
  <2>1. PendingPart(e, d + 1, c)
    BY <1>0, <1>1, <1>4, <1>9 DEF WqePart
  <2>2. PICK j \in 1 .. s : /\ sent[e][j] = <<d + 1, len>>
                            /\ w.lastPsn = (j - 1) % PsnMod
                            /\ c <= j - 1
                            /\ w.state = "pending" /\ w.off = len
    BY <1>1, <1>5, <1>7, <2>1 DEF PendingPart
  <2>3. PICK L \in Nat : L = j - 1
    BY <1>1
  <2>4. L < s /\ L + 1 = j /\ L < s + len - len
    BY <1>1, <1>7, <2>2, <2>3
  <2>5. TailEnd(e, q, c, L)
    BY <1>1, <1>4, <1>5, <1>6, <1>7, <1>9, <2>2, <2>3, <2>4 DEF TailEnd
  <2> QED
    BY <2>5
<1>10. CASE ~(d + 1 <= q)
  <2>1. d + 1 > q /\ d = q
    BY <1>3, <1>10
  <2>2. UnsentPart(e, d + 1, q)
    BY <1>0, <1>1, <1>4, <2>1 DEF WqePart
  <2>3. /\ w.off < len /\ w.off > 0 /\ w.state = "processing"
        /\ w.lastPsn = (s + len - w.off - 1) % PsnMod
    BY <1>1, <1>5, <1>7, <1>8, <2>2 DEF UnsentPart
  <2>4. PICK L \in Nat : L = s + len - w.off - 1
    <3>1. s + len - w.off - 1 \in Nat
      BY <1>1, <1>7, <1>8, <2>3
    <3> QED
      BY <3>1
  <2>5. L >= s /\ L < s + len - w.off /\ c <= L
    <3>1. PICK o \in Nat : o = w.off
      BY <1>8
    <3>2. o < len /\ L = s + len - o - 1
      BY <2>3, <2>4, <3>1
    <3>3. L >= s /\ L < s + len - o
      BY <3>2
    <3>4. c <= s
      BY <1>2
    <3> QED
      BY <3>1, <3>3, <3>4
  <2>6. TailEnd(e, q, c, L)
    BY <1>1, <1>4, <1>5, <1>6, <1>7, <2>1, <2>3, <2>4, <2>5 DEF TailEnd
  <2> QED
    BY <2>6
<1> QED
  BY <1>9, <1>10

\* What the comparisons of an acknowledgement tell, as long as it is recent.
LEMMA AckFacts ==
    ASSUME TransportInv, Traffic, Recent, NEW e \in Endpoint, Acking(e),
           NEW q \in Nat, NEW c \in Nat, RequestFlow(e, q, c),
           ~NothingToComplete(e), NEW L \in Nat, TailEnd(e, q, c, L),
           NEW p, p = Head(net[e])
    PROVE  /\ p.number \in Nat /\ p.number <= Len(executed[Peer[e]])
           /\ p.kind = "ACK" => p.number < Len(executed[Peer[e]])
           /\ PassedBy(e, TailWqe(e), p.psn) <=> p.number > L
           /\ Fresh(e, p.psn) <=> p.number >= c
           /\ p.psn = TailWqe(e).lastPsn <=> p.number = L
           /\ p.psn = p.number % PsnMod
<1>0. TypeInv /\ AckPart(e, c) /\ DeliveryPart(e)
  BY DEF TransportInv, RequestFlow
<1>1. PacketOK(e, p) /\ net[e] # <<>> /\ p.kind \in {"ACK", "NAK"}
  BY <1>0, Roles, AckingFacts
<1>2. p \in Packet /\ p.kind # "REQ"
  <2>1. net \in [Endpoint -> Seq(Packet)]
    BY <1>0 DEF TypeInv, TypeOK
  <2>2. p \in Packet
    BY <1>0, <1>1, <2>1, HeadFacts DEF TypeInv
  <2> QED
    BY <1>1, <2>2
<1>3. PICK r \in Nat, s \in Nat : r = Len(executed[Peer[e]]) /\ s = Len(sent[e])
  BY <1>0, CountFacts
<1>4. PICK k \in Nat : k = p.number
  <2>1. p.number \in Int
    BY <1>2 DEF Packet, ReqPacket, AckPacket
  <2> QED
    BY <1>1, <2>1 DEF PacketOK
<1>5. k <= r /\ (p.kind = "ACK" => k < r) /\ p.psn = k % PsnMod
  BY <1>1, <1>2, <1>3, <1>4 DEF PacketOK
<1>6. PICK len \in Nat, off \in Nat :
        len = Wr(e, TailWqe(e)).len /\ off = TailWqe(e).off
  <2>1. TailWqe(e) \in Wqe /\ Wr(e, TailWqe(e)).len \in Nat
    <3>1. RingPart(e, q)
      BY DEF RequestFlow
    <3>2. Done(e) + 1 \in Nat
      BY <1>0, CountFacts
    <3>3. TailWqe(e) \in Wqe
      BY <1>0, <3>1, <3>2, CursorFacts
    <3>4. Done(e) + 1 \in 1 .. taken[e]
      BY <1>0, CountFacts DEF TailEnd
    <3>5. Done(e) + 1 \in DOMAIN Workload[e]
      BY <1>0, <3>4, CountFacts
    <3>6. Wr(e, TailWqe(e)).len = MsgLen(e, Done(e) + 1)
      BY DEF TailEnd, MsgLen
    <3> QED
      BY <3>3, <3>5, <3>6, TrafficFacts
  <2>2. TailWqe(e).off \in Nat
    BY <2>1 DEF Wqe
  <2> QED
    BY <2>1, <2>2
<1> DEFINE D == s + len - off
<1>7. D - k <= (PsnMod \div 2) + 1
  <2>1. 1 \in 1 .. Len(net[e]) /\ net[e][1] = p
    <3>1. net[e] \in Seq(Packet)
      BY <1>0 DEF TypeInv, TypeOK
    <3> QED
      BY <1>1, <3>1
  <2>2. Len(sent[e]) + Wr(e, TailWqe(e)).len - TailWqe(e).off - p.number <= Half + 1
    BY <1>2, <2>1 DEF Recent
  <2> QED
    <3>1. s + len - off - k <= Half + 1
      BY <1>3, <1>4, <1>6, <2>2
    <3> QED
      BY <3>1 DEF Half
<1>d. D \in Int
  OBVIOUS
<1>8. /\ c <= L /\ L < D /\ c <= r /\ r <= s /\ s <= c + MaxUnacked + 1
      /\ TailWqe(e).lastPsn = L % PsnMod /\ compPsn[e] = c % PsnMod
  BY <1>0, <1>3, <1>6 DEF TailEnd, AckPart, DeliveryPart
<1> DEFINE h == PsnMod \div 2
<1>9. h \in Nat /\ PsnMod = 2 * h /\ MaxUnacked \in Nat /\ 2 * (MaxUnacked + 1) < PsnMod
  BY HalfCircle, ConstantFacts
<1>10. -h <= k - L /\ k - L < h /\ -h <= k - c /\ k - c < h
  <2> HIDE DEF h, D
  <2>1. D - k <= h + 1
    BY <1>7 DEF h
  <2> QED
    BY <1>4, <1>5, <1>d, <1>8, <1>9, <2>1
<1>11. PsnCompare(k % PsnMod, L % PsnMod) = k - L
  BY <1>10, PsnCompareTwo
<1>12. PsnCompare(k % PsnMod, c % PsnMod) = k - c
  BY <1>10, PsnCompareTwo
<1>13. PassedBy(e, TailWqe(e), p.psn) <=> k > L
  <2>1. k - L > 0 <=> k > L
    OBVIOUS
  <2> QED
    BY <1>5, <1>8, <1>11, <2>1 DEF PassedBy
<1>14. Fresh(e, p.psn) <=> k >= c
  <2>1. k - c >= 0 <=> k >= c
    OBVIOUS
  <2> QED
    BY <1>5, <1>8, <1>12, <2>1 DEF Fresh
<1>15. p.psn = TailWqe(e).lastPsn <=> k = L
  <2>1. -h <= L - L /\ L - L < h
    BY <1>9
  <2>2. PsnCompare(L % PsnMod, L % PsnMod) = L - L
    BY <2>1, PsnCompareTwo
  <2>3. k % PsnMod = L % PsnMod => k - L = L - L
    BY <1>11, <2>2
  <2>4. k % PsnMod = L % PsnMod <=> k = L
    BY <2>3
  <2> QED
    BY <1>5, <1>8, <2>4
<1> QED
  BY <1>3, <1>4, <1>5, <1>13, <1>14, <1>15

\* A step of the completer moves the acknowledged number and may retire the tail.
LEMMA CompleterFlow ==
    ASSUME TransportInv, Traffic, NEW e \in Endpoint, e \in Requester,
           NEW q \in Nat, NEW c \in Nat, RequestFlow(e, q, c),
           NEW L \in Nat, TailEnd(e, q, c, L), NEW k \in Nat,
           c <= k, k <= L + 1, k <= Len(executed[Peer[e]]),
           compPsn'[e] = k % PsnMod,
           taken' = taken, ring' = ring, head' = head, wqeIndex' = wqeIndex,
           sendPsn' = sendPsn, sendOpcode' = sendOpcode, sent' = sent,
           executed' = executed, recvPsn'[Peer[e]] = recvPsn[Peer[e]],
           ackPsn' = ackPsn,
           \/ /\ TailWqe(e).state = "pending"
              /\ L < Len(executed[Peer[e]])
              /\ tail'[e] = Step(tail[e])
              /\ completed'[e] = Append(completed[e], TailWqe(e).msg)
           \/ /\ tail'[e] = tail[e] /\ completed'[e] = completed[e]
              /\ TailWqe(e).state = "pending" => k <= L
    PROVE  FlowInv(e)'
<1>0. /\ TypeInv /\ RingPart(e, q) /\ SentPart(e, q) /\ WqePart(e, q, c)
      /\ AckPart(e, c) /\ DeliveryPart(e)
  BY DEF TransportInv, RequestFlow
<1>1. PICK d \in Nat, s \in Nat, t \in Nat, r \in Nat :
        /\ d = Done(e) /\ s = Len(sent[e]) /\ t = taken[e]
        /\ r = Len(executed[Peer[e]])
  BY <1>0, CountFacts
<1>2. /\ \A m : Slot(e, m)' = Slot(e, m) /\ Off(e, q)' = Off(e, q)
  BY DEF Slot, Off
<1>3. /\ d < t /\ TailWqe(e).msg = d + 1 /\ completed[e] \in Seq(Nat) /\ d + 1 \in Nat
      /\ c <= r /\ r <= s /\ s <= c + MaxUnacked + 1 /\ MaxUnacked \in Nat
      /\ d <= q /\ q <= t /\ t <= d + MaxOutstanding /\ MaxOutstanding \in Nat
  <2>1. d + 1 \in d + 1 .. t /\ TailWqe(e).msg = d + 1
    BY <1>1 DEF TailEnd
  <2>2. completed[e] \in Seq(Nat)
    BY <1>0, CountFacts
  <2>3. c <= r /\ s <= c + MaxUnacked + 1
    BY <1>0, <1>1 DEF AckPart
  <2>4. r <= s
    BY <1>0, <1>1 DEF DeliveryPart
  <2>5. d <= q /\ q <= t /\ t <= d + MaxOutstanding
    BY <1>0, <1>1 DEF RingPart
  <2>6. d < t /\ d + 1 \in Nat
    BY <2>1
  <2> QED
    BY <2>1, <2>2, <2>3, <2>4, <2>5, <2>6, ConstantFacts
<1>4. PICK g \in Nat :
        /\ g = Done(e)' /\ (g = d \/ g = d + 1)
        /\ g = d => /\ tail'[e] = tail[e] /\ completed'[e] = completed[e]
                    /\ TailWqe(e).state = "pending" => k <= L
        /\ g = d + 1 => /\ TailWqe(e).state = "pending" /\ L < r
                        /\ tail'[e] = Step(tail[e])
                        /\ completed'[e] = Append(completed[e], d + 1)
  <2>1. CASE completed'[e] = completed[e] /\ tail'[e] = tail[e]
             /\ (TailWqe(e).state = "pending" => k <= L)
    <3>1. Done(e)' = d /\ d # d + 1
      BY <1>1, <2>1 DEF Done
    <3> QED
      BY <1>1, <2>1, <3>1
  <2>2. CASE /\ TailWqe(e).state = "pending"
             /\ L < r
             /\ tail'[e] = Step(tail[e])
             /\ completed'[e] = Append(completed[e], TailWqe(e).msg)
    <3>1. Len(Append(completed[e], d + 1)) = Len(completed[e]) + 1
      BY <1>3, AppendProperties
    <3>2. Done(e)' = d + 1 /\ d # d + 1
      BY <1>1, <1>3, <2>2, <3>1 DEF Done
    <3> QED
      BY <1>1, <1>3, <2>2, <3>2
  <2> QED
    BY <1>1, <2>1, <2>2
<1>5. g = d + 1 => d + 1 <= q /\ L < s
                   /\ sent[e][L + 1] = <<d + 1, MsgLen(e, d + 1)>>
  BY <1>1, <1>4 DEF TailEnd
<1>6. \A i \in 1 .. g : completed'[e][i] = i
  <2>1. \A i \in 1 .. d : completed[e][i] = i
    BY <1>0, <1>1 DEF RingPart
  <2>2. CASE g = d
    BY <1>4, <2>1, <2>2
  <2>3. CASE g = d + 1
    <3>1. /\ \A i \in 1 .. d : Append(completed[e], d + 1)[i] = completed[e][i]
          /\ Append(completed[e], d + 1)[d + 1] = d + 1
      BY <1>1, <1>3, AppendProperties DEF Done
    <3>2. \A i \in 1 .. d + 1 : i \in 1 .. d \/ i = d + 1
      OBVIOUS
    <3> QED
      BY <1>4, <2>1, <2>3, <3>1, <3>2
  <2> QED
    BY <1>4, <2>2, <2>3
<1>7. RingPart(e, q)'
  <2>1. g <= q /\ q <= t /\ t <= g + MaxOutstanding
    BY <1>3, <1>4, <1>5
  <2>2. tail'[e] = g % WqeCnt
    <3>1. tail[e] = d % WqeCnt
      BY <1>0, <1>1 DEF RingPart
    <3>2. ((d % WqeCnt) + 1) % WqeCnt = (d + 1) % WqeCnt
      BY ConstantFacts, WrappedStep
    <3> QED
      BY <1>4, <3>1, <3>2 DEF Step
  <2>3. \A m \in g + 1 .. t : Slot(e, m)'.msg = m
    <3>1. \A m \in g + 1 .. t : m \in d + 1 .. t
      BY <1>1, <1>4
    <3> QED
      BY <1>0, <1>1, <1>2, <3>1 DEF RingPart
  <2>4. head'[e] = t % WqeCnt /\ wqeIndex'[e] = q % WqeCnt /\ taken'[e] = t
    BY <1>0, <1>1 DEF RingPart
  <2> QED
    BY <1>4, <1>6, <2>1, <2>2, <2>3, <2>4 DEF RingPart
<1>8. SentPart(e, q)'
  BY <1>0, <1>2, SentKept
<1>9. WqePart(e, q, k)'
  <2> SUFFICES ASSUME NEW m \in g + 1 .. t
               PROVE  /\ m <= q => PendingPart(e, m, k)'
                      /\ m > q => UnsentPart(e, m, q)'
    BY <1>1, <1>4 DEF WqePart
  <2>1. m \in d + 1 .. t /\ m \in Nat
    BY <1>1, <1>4
  <2>2. ASSUME m > q
        PROVE  UnsentPart(e, m, q)'
    <3>1. UnsentPart(e, m, q)
      BY <1>0, <1>1, <2>1, <2>2 DEF WqePart
    <3> QED
      BY <1>2, <3>1 DEF UnsentPart
  <2>3. ASSUME m <= q
        PROVE  PendingPart(e, m, k)'
    <3>1. PendingPart(e, m, c)
      BY <1>0, <1>1, <2>1, <2>3 DEF WqePart
    <3>2. PICK j \in 1 .. s : /\ sent[e][j] = <<m, MsgLen(e, m)>>
                              /\ Slot(e, m).lastPsn = (j - 1) % PsnMod
                              /\ c <= j - 1
      BY <1>1, <3>1 DEF PendingPart
    <3>3. sent[e] \in Seq(Nat \X Nat) /\ InPostedOrder(e, sent[e])
      BY <1>0, CountFacts DEF SentPart
    <3>4. /\ TailWqe(e) = Slot(e, d + 1) /\ d + 1 \in d + 1 .. t /\ d + 1 <= q
          /\ TailWqe(e).state = "pending"
      <4>1. d + 1 <= q /\ d + 1 \in d + 1 .. t
        BY <2>1, <2>3
      <4>2. PendingPart(e, d + 1, c)
        BY <1>0, <1>1, <4>1 DEF WqePart
      <4>3. TailWqe(e) = Slot(e, d + 1)
        BY <1>1 DEF TailEnd
      <4> QED
        BY <4>1, <4>2, <4>3 DEF PendingPart
    <3>5. L + 1 \in 1 .. s /\ sent[e][L + 1] = <<d + 1, MsgLen(e, d + 1)>>
      <4>1. L < s /\ sent[e][L + 1] = <<d + 1, MsgLen(e, d + 1)>>
        BY <1>1, <3>4 DEF TailEnd
      <4> QED
        BY <1>1, <4>1
    <3>6. k <= j - 1
      <4>1. CASE m = d + 1
        <5>1. j = L + 1
          BY <1>1, <3>2, <3>3, <3>5, <4>1, PostedPlace, ZenonT(30)
        <5>2. g = d
          BY <1>1, <1>4, <4>1
        <5>3. k <= L
          BY <1>4, <3>4, <5>2
        <5> QED
          BY <5>1, <5>3
      <4>2. CASE m # d + 1
        <5>1. d + 1 < m
          BY <1>1, <2>1, <4>2
        <5>2. Before(sent[e][L + 1], sent[e][j])
          BY <3>2, <3>5, <5>1 DEF Before
        <5>3. L + 1 < j
          BY <1>1, <3>2, <3>3, <3>5, <5>2, PostedPlace
        <5> QED
          BY <1>1, <3>2, <5>3
      <4> QED
        BY <4>1, <4>2
    <3> QED
      BY <1>1, <1>2, <3>1, <3>2, <3>6 DEF PendingPart, MsgLen
  <2> QED
    BY <2>2, <2>3
<1>10. AckPart(e, k)'
  <2>1. k <= r /\ s <= k + MaxUnacked + 1
    BY <1>1, <1>3, SMTT(30)
  <2>2. ASSUME NEW m \in 1 .. g
        PROVE  \E j \in 1 .. r : executed[Peer[e]][j] = <<m, MsgLen(e, m)>>
    <3>1. CASE m \in 1 .. d
      BY <1>0, <1>1, <3>1 DEF AckPart
    <3>2. CASE m \notin 1 .. d
      <4>1. m = d + 1 /\ g = d + 1
        BY <1>1, <1>4, <3>2
      <4>2. L + 1 \in 1 .. r
        BY <1>1, <1>4, <4>1
      <4>3. executed[Peer[e]][L + 1] = sent[e][L + 1]
        BY <1>0, <1>1, <4>2 DEF DeliveryPart
      <4> QED
        BY <1>5, <4>1, <4>2, <4>3
    <3> QED
      BY <3>1, <3>2
  <2> QED
    BY <1>1, <1>4, <2>1, <2>2 DEF AckPart, MsgLen
<1>11. DeliveryPart(e)'
  BY <1>0, DeliveryKept
<1>12. RequestFlow(e, q, k)'
  BY <1>7, <1>8, <1>9, <1>10, <1>11 DEF RequestFlow
<1> QED
  BY <1>12 DEF FlowInv

\* The completer of e touches nothing the other direction's invariant is about.
LEMMA CompleterData ==
    ASSUME TransportInv, Traffic, TypeOK', NEW e \in Endpoint, e \in Requester,
           FlowInv(e)', net[e] # <<>>, net' = net \/ Consume(e),
           taken' = taken, ring' = ring, head' = head, wqeIndex' = wqeIndex,
           sendPsn' = sendPsn, sendOpcode' = sendOpcode, sent' = sent,
           executed' = executed, recvCqes' = recvCqes, ackPsn' = ackPsn,
           \A x \in Endpoint : x # e =>
             /\ tail'[x] = tail[x] /\ completed'[x] = completed[x]
             /\ compPsn'[x] = compPsn[x] /\ recvPsn'[x] = recvPsn[x]
             /\ pc'[x] = pc[x]
    PROVE  DataInv'
<1>0. TypeInv /\ RecvCqePerSend /\ \A x \in Endpoint : FlowInv(x) /\ NetPart(x)
  BY DEF TransportInv, DataInv
<1>1. RecvCqePerSend'
  BY <1>0 DEF RecvCqePerSend
<1>2. HistoryGrows
  BY <1>0, HistoryKept
<1>3. ASSUME NEW x \in Endpoint
      PROVE  NetPart(x)'
  <2>1. PICK a : a = Head(net[e])
    OBVIOUS
  <2>2. TypeOK
    BY <1>0 DEF TypeInv
  <2>3. a \in Packet
    BY <2>1, <2>2, HeadFacts
  <2>4. CASE net' = net
    BY <1>0, <1>2, <2>4, NetStep
  <2>5. CASE Consume(e)
    <3>1. \/ Consume(e)
          \/ net' = [net EXCEPT ![e] = Tail(@), ![Peer[e]] = Append(@, a)]
      BY <2>5
    <3>2. net' = [net EXCEPT ![e] = Tail(@)] /\ net \in [Endpoint -> Seq(Packet)]
      BY <2>2, <2>5 DEF Consume, TypeOK
    <3>3. CASE x = e
      <4>1. net[e] \in Seq(Packet) /\ net'[x] = Tail(net[e])
        BY <3>2, <3>3
      <4>2. /\ Len(net[e]) \in Nat /\ Len(Tail(net[e])) = Len(net[e]) - 1
            /\ \A i \in 1 .. Len(Tail(net[e])) : Tail(net[e])[i] = net[e][i + 1]
        BY <4>1, LenProperties, HeadTailProperties
      <4>3. \A i \in 1 .. Len(net'[x]) :
              i + 1 \in 1 .. Len(net[x]) /\ net'[x][i] = net[x][i + 1]
        BY <3>3, <4>1, <4>2
      <4> QED
        BY <1>0, <1>2, <4>3, NetStep
    <3>4. CASE x # e
      <4>1. net'[x] = net[x]
        BY <3>2, <3>4
      <4> QED
        BY <1>0, <1>2, <4>1, NetStep
    <3> QED
      BY <3>3, <3>4
  <2> QED
    BY <2>4, <2>5
<1>4. ASSUME NEW x \in Endpoint
      PROVE  FlowInv(x)'
  <2>1. CASE x # e
    <3>1. x \in Requester => Peer[x] # e /\ Peer[x] \in Endpoint
      <4>1. Peer[x] = e => x = Peer[e]
        BY ConstantFacts
      <4>2. Peer[e] \notin Requester
        BY DEF Traffic, OneWay
      <4> QED
        BY <4>1, <4>2, ConstantFacts
    <3>2. x \in Requester => recvPsn'[Peer[x]] = recvPsn[Peer[x]]
      BY <3>1
    <3>3. x \notin Requester => pc'[x] # "ack"
      BY <2>1, Roles
    <3> QED
      BY <1>0, <2>1, <3>2, <3>3, FlowKept
  <2> QED
    BY <2>1
<1> QED
  BY <1>1, <1>3, <1>4 DEF DataInv

LEMMA AckPassedData ==
    ASSUME TransportInv, Traffic, Recent, TypeOK', NEW e \in Endpoint, AckPassed(e)
    PROVE  DataInv' /\ TailWqe(e).state = "pending"
<1>0. /\ TypeInv /\ TypeOK /\ FlowInv(e) /\ e \in Requester /\ net[e] # <<>>
      /\ Acking(e) /\ ~NothingToComplete(e) /\ Peer[e] \in Endpoint /\ Peer[e] # e
  <2>1. Acking(e) /\ ~NothingToComplete(e)
    BY DEF AckPassed
  <2>2. TypeInv /\ FlowInv(e)
    BY DEF TransportInv, DataInv
  <2>3. e \in Requester /\ net[e] # <<>>
    BY <2>1, <2>2, Roles, AckingFacts
  <2> QED
    BY <2>1, <2>2, <2>3, ConstantFacts DEF TypeInv
<1>1. PICK q \in Nat, c \in Nat : RequestFlow(e, q, c)
  BY <1>0 DEF FlowInv
<1>2. PICK L \in Nat : TailEnd(e, q, c, L)
  BY <1>0, <1>1, TailFacts
<1>3. PICK r \in Nat, s \in Nat : r = Len(executed[Peer[e]]) /\ s = Len(sent[e])
  BY <1>0, CountFacts
<1>4. PICK k \in Nat : k > L /\ k <= r
  BY <1>0, <1>1, <1>2, <1>3, AckFacts DEF AckPassed
<1>5. r <= s /\ c <= r /\ compPsn[e] = c % PsnMod /\ c <= L
  BY <1>1, <1>2, <1>3 DEF RequestFlow, DeliveryPart, AckPart, TailEnd
<1>6. TailWqe(e).state = "pending"
  <2>1. TailWqe(e).state # "pending" => L >= s
    BY <1>2, <1>3 DEF TailEnd
  <2> QED
    BY <1>3, <1>4, <1>5, <2>1
<1>7. /\ taken' = taken /\ ring' = ring /\ head' = head /\ wqeIndex' = wqeIndex
      /\ sendPsn' = sendPsn /\ sendOpcode' = sendOpcode /\ sent' = sent
      /\ executed' = executed /\ recvCqes' = recvCqes /\ ackPsn' = ackPsn
      /\ compPsn' = compPsn /\ net' = net
      /\ pc' = [pc EXCEPT ![e] = "ack"]
      /\ recvPsn' = [recvPsn EXCEPT ![e] = CompletedRecvPsn(e, TailWqe(e))]
      /\ completed' = [completed EXCEPT ![e] = Append(@, TailWqe(e).msg)]
      /\ tail' = [tail EXCEPT ![e] = Step(@)]
  BY <1>6 DEF AckPassed, CompleteSendWqe, RetireTail, TailWqe, reqVars
<1>8. \A x \in Endpoint : x # e =>
        /\ tail'[x] = tail[x] /\ completed'[x] = completed[x]
        /\ compPsn'[x] = compPsn[x] /\ recvPsn'[x] = recvPsn[x]
        /\ pc'[x] = pc[x]
  BY <1>0, <1>7 DEF TypeOK
<1>9. /\ tail'[e] = Step(tail[e])
      /\ completed'[e] = Append(completed[e], TailWqe(e).msg)
      /\ recvPsn'[Peer[e]] = recvPsn[Peer[e]]
  BY <1>0, <1>7 DEF TypeOK
<1>10. L < Len(executed[Peer[e]]) /\ c <= c /\ c <= L + 1 /\ c <= Len(executed[Peer[e]])
  BY <1>3, <1>4, <1>5
<1>11. FlowInv(e)'
  BY <1>0, <1>1, <1>2, <1>5, <1>6, <1>7, <1>9, <1>10, CompleterFlow
<1>12. DataInv'
  BY <1>0, <1>7, <1>8, <1>11, CompleterData
<1> QED
  BY <1>6, <1>12

\* An acknowledgement already accounted for changes nothing.
LEMMA AckStaleData ==
    ASSUME TransportInv, Traffic, Recent, TypeOK', NEW e \in Endpoint,
           AckNothing(e) \/ AckStale(e)
    PROVE  DataInv'
<1>0. TypeInv /\ TypeOK /\ FlowInv(e) /\ e \in Requester /\ net[e] # <<>> /\ Acking(e)
  <2>1. Acking(e)
    BY DEF AckNothing, AckStale, AckAt
  <2>2. TypeInv /\ FlowInv(e)
    BY DEF TransportInv, DataInv
  <2>3. e \in Requester /\ net[e] # <<>>
    BY <2>1, <2>2, Roles, AckingFacts
  <2> QED
    BY <2>1, <2>2, <2>3 DEF TypeInv
<1>1. AckStale(e) => UNCHANGED <<recvPsn, tail, completed>>
  <2> SUFFICES ASSUME AckStale(e), Head(net[e]).psn = TailWqe(e).lastPsn
               PROVE  FALSE
    BY DEF AckStale
  <2>1. ~NothingToComplete(e) /\ ~Fresh(e, Head(net[e]).psn)
    BY DEF AckStale, AckAt
  <2>2. PICK q \in Nat, c \in Nat : RequestFlow(e, q, c)
    BY <1>0 DEF FlowInv
  <2>3. PICK L \in Nat : TailEnd(e, q, c, L)
    BY <1>0, <2>1, <2>2, TailFacts
  <2>4. Head(net[e]).number = L /\ ~(Head(net[e]).number >= c)
    BY <1>0, <2>1, <2>2, <2>3, AckFacts
  <2>5. c <= L
    BY <2>3 DEF TailEnd
  <2> QED
    BY <2>4, <2>5
<1>2. /\ taken' = taken /\ ring' = ring /\ head' = head /\ wqeIndex' = wqeIndex
      /\ sendPsn' = sendPsn /\ sendOpcode' = sendOpcode /\ sent' = sent
      /\ executed' = executed /\ recvCqes' = recvCqes /\ ackPsn' = ackPsn
      /\ compPsn' = compPsn /\ Consume(e) /\ pc' = [pc EXCEPT ![e] = "recv"]
      /\ recvPsn' = recvPsn /\ tail' = tail /\ completed' = completed
  BY <1>1 DEF AckNothing, AckStale, reqVars, respVars, ringVars
<1>3. \A x \in Endpoint : x # e => pc'[x] = pc[x]
  BY <1>0, <1>2 DEF TypeOK
<1>4. FlowInv(e)'
  BY <1>0, <1>2, FlowKept
<1> QED
  BY <1>0, <1>2, <1>3, <1>4, CompleterData

LEMMA AckAdvanceData ==
    ASSUME TransportInv, Traffic, Recent, TypeOK', NEW e \in Endpoint, AckAdvance(e)
    PROVE  DataInv'
<1>0. /\ TypeInv /\ TypeOK /\ FlowInv(e) /\ e \in Requester /\ net[e] # <<>>
      /\ Acking(e) /\ ~NothingToComplete(e) /\ Peer[e] \in Endpoint /\ Peer[e] # e
  <2>1. Acking(e) /\ ~NothingToComplete(e)
    BY DEF AckAdvance, AckAt
  <2>2. TypeInv /\ FlowInv(e)
    BY DEF TransportInv, DataInv
  <2>3. e \in Requester /\ net[e] # <<>>
    BY <2>1, <2>2, Roles, AckingFacts
  <2> QED
    BY <2>1, <2>2, <2>3, ConstantFacts DEF TypeInv
<1>1. PICK q \in Nat, c \in Nat : RequestFlow(e, q, c)
  BY <1>0 DEF FlowInv
<1>2. PICK L \in Nat : TailEnd(e, q, c, L)
  BY <1>0, <1>1, TailFacts
<1>3. PICK r \in Nat : r = Len(executed[Peer[e]])
  BY <1>0, CountFacts
<1>4. PICK k \in Nat : /\ k <= L /\ k >= c /\ k < r
                       /\ Head(net[e]).psn = k % PsnMod
                       /\ Head(net[e]).psn = TailWqe(e).lastPsn <=> k = L
  <2>1. /\ ~PassedBy(e, TailWqe(e), Head(net[e]).psn)
        /\ Fresh(e, Head(net[e]).psn) /\ Head(net[e]).kind = "ACK"
    BY DEF AckAdvance, AckAt
  <2>2. /\ Head(net[e]).number \in Nat
        /\ Head(net[e]).number < r
        /\ ~(Head(net[e]).number > L)
        /\ Head(net[e]).number >= c
        /\ Head(net[e]).psn = TailWqe(e).lastPsn <=> Head(net[e]).number = L
        /\ Head(net[e]).psn = Head(net[e]).number % PsnMod
    BY <1>0, <1>1, <1>2, <1>3, <2>1, AckFacts
  <2> QED
    BY <2>2
<1>5. PICK n \in Nat : n = k + 1
  OBVIOUS
<1>6. c <= n /\ n <= L + 1 /\ n <= Len(executed[Peer[e]])
  BY <1>3, <1>4, <1>5
<1>7. /\ taken' = taken /\ ring' = ring /\ head' = head /\ wqeIndex' = wqeIndex
      /\ sendPsn' = sendPsn /\ sendOpcode' = sendOpcode /\ sent' = sent
      /\ executed' = executed /\ recvCqes' = recvCqes /\ ackPsn' = ackPsn
      /\ compPsn' = [compPsn EXCEPT ![e] = PsnAdd(Head(net[e]).psn, 1)]
      /\ Consume(e) /\ pc' = [pc EXCEPT ![e] = "recv"]
  BY DEF AckAdvance, AckedCompPsn, reqVars
<1>8. compPsn'[e] = n % PsnMod
  <2>1. PsnAdd(k % PsnMod, 1) = (k + 1) % PsnMod
    BY PsnAddNumber
  <2>2. compPsn'[e] = PsnAdd(Head(net[e]).psn, 1)
    BY <1>0, <1>7 DEF TypeOK
  <2> QED
    BY <1>4, <1>5, <2>1, <2>2
<1>9. CASE TailWqe(e).state = "pending" /\ TailWqe(e).lastPsn = Head(net[e]).psn
  <2>1. /\ recvPsn' = [recvPsn EXCEPT ![e] = CompletedRecvPsn(e, TailWqe(e))]
        /\ completed' = [completed EXCEPT ![e] = Append(@, TailWqe(e).msg)]
        /\ tail' = [tail EXCEPT ![e] = Step(@)]
    BY <1>9 DEF AckAdvance, CompleteSendWqe, RetireTail, TailWqe
  <2>2. \A x \in Endpoint : x # e =>
          /\ tail'[x] = tail[x] /\ completed'[x] = completed[x]
          /\ compPsn'[x] = compPsn[x] /\ recvPsn'[x] = recvPsn[x]
          /\ pc'[x] = pc[x]
    BY <1>0, <1>7, <2>1 DEF TypeOK
  <2>3. /\ tail'[e] = Step(tail[e])
        /\ completed'[e] = Append(completed[e], TailWqe(e).msg)
        /\ recvPsn'[Peer[e]] = recvPsn[Peer[e]]
    BY <1>0, <2>1 DEF TypeOK
  <2>4. L < Len(executed[Peer[e]])
    BY <1>3, <1>4, <1>9
  <2>5. FlowInv(e)'
    BY <1>0, <1>1, <1>2, <1>6, <1>7, <1>8, <1>9, <2>3, <2>4, CompleterFlow
  <2> QED
    BY <1>0, <1>7, <2>2, <2>5, CompleterData
<1>10. CASE ~(TailWqe(e).state = "pending" /\ TailWqe(e).lastPsn = Head(net[e]).psn)
  <2>1. recvPsn' = recvPsn /\ completed' = completed /\ tail' = tail
    BY <1>10 DEF AckAdvance
  <2>2. \A x \in Endpoint : x # e =>
          /\ tail'[x] = tail[x] /\ completed'[x] = completed[x]
          /\ compPsn'[x] = compPsn[x] /\ recvPsn'[x] = recvPsn[x]
          /\ pc'[x] = pc[x]
    BY <1>0, <1>7, <2>1 DEF TypeOK
  <2>3. TailWqe(e).state = "pending" => n <= L
    BY <1>4, <1>5, <1>10
  <2>4. tail'[e] = tail[e] /\ completed'[e] = completed[e] /\ recvPsn'[Peer[e]] = recvPsn[Peer[e]]
    BY <2>1
  <2>5. FlowInv(e)'
    BY <1>0, <1>1, <1>2, <1>6, <1>7, <1>8, <2>3, <2>4, CompleterFlow
  <2> QED
    BY <1>0, <1>7, <2>2, <2>5, CompleterData
<1> QED
  BY <1>9, <1>10

-----------------------------------------------------------------------------
(* The invariant *)

LEMMA TransportStep ==
    ASSUME Traffic, TransportInv, Recent, TypeInv', [Next]_vars
    PROVE  TransportInv'
<1>0. TypeOK'
  BY DEF TypeInv
<1>1. ASSUME NEW e \in Endpoint,
             \/ TakeWqe(e) \/ LoopDone(e) \/ HandleSend(e)
             \/ HandleRecv(e) \/ RecvDone(e) \/ Network(e)
      PROVE  DataInv'
  <2>1. CASE TakeWqe(e) \/ SkipWqe(e) \/ CompleteDriver1(e)
    BY <1>0, <2>1, RequestData
  <2>2. CASE LoopDone(e) \/ LeaveSend(e) \/ RecvDone(e) \/ AckNak(e)
    BY <1>0, <2>2, ThreadData
  <2>3. CASE SendPacket(e)
    BY <1>0, <2>3, SendPacketData
  <2>4. CASE RecvOutOfOrder(e)
    BY <1>0, <2>4, RecvOutOfOrderData
  <2>5. CASE RecvDuplicate(e)
    BY <1>0, <2>5, RecvDuplicateData
  <2>6. CASE RecvInOrder(e)
    BY <1>0, <2>6, RecvInOrderData
  <2>7. CASE AckPassed(e)
    BY <1>0, <2>7, AckPassedData
  <2>8. CASE AckNothing(e) \/ AckStale(e)
    BY <1>0, <2>8, AckStaleData
  <2>9. CASE AckAdvance(e)
    BY <1>0, <2>9, AckAdvanceData
  <2>10. CASE Network(e)
    BY <1>0, <2>10, NetworkData
  <2> QED
    BY <1>1, <2>1, <2>2, <2>3, <2>4, <2>5, <2>6, <2>7, <2>8, <2>9, <2>10
       DEF HandleSend, HandleRecv
<1>2. CASE UNCHANGED vars
  <2>1. /\ taken' = taken /\ ring' = ring /\ head' = head /\ tail' = tail
        /\ wqeIndex' = wqeIndex /\ sendPsn' = sendPsn /\ sendOpcode' = sendOpcode
        /\ compPsn' = compPsn /\ recvPsn' = recvPsn /\ ackPsn' = ackPsn
        /\ sent' = sent /\ executed' = executed /\ recvCqes' = recvCqes
        /\ completed' = completed /\ pc' = pc /\ net' = net
    BY <1>2 DEF vars, ringVars, reqVars, respVars
  <2>2. \A x \in Endpoint : x \notin Requester => pc'[x] # "ack"
    BY <2>1, Roles
  <2>3. DataInv'
    BY <1>0, <2>1, <2>2, QuietStep
  <2> QED
    BY <2>3 DEF TransportInv
<1> QED
  BY <1>1, <1>2 DEF Next, TransportInv

\* The invariant of the data path, while no packet lives too long.
LEMMA TransportInvariance ==
    ASSUME Traffic
    PROVE  Spec /\ []Recent => []TransportInv
<1>1. Init => TransportInv
  BY InitType, DataInit DEF TransportInv
<1>2. TransportInv /\ Recent /\ TypeInv' /\ [Next]_vars => TransportInv'
  BY TransportStep
<1> QED
  BY <1>1, <1>2, TypeInvariance, PTL DEF Spec

-----------------------------------------------------------------------------
(* What the transport promises *)

LEMMA InvariantDelivers ==
    ASSUME TransportInv, NEW e \in Endpoint
    PROVE  InPostedOrder(Peer[e], executed[e])
<1>0. /\ TypeInv /\ Peer[e] \in Endpoint /\ Peer[Peer[e]] = e /\ FlowInv(Peer[e])
  BY ConstantFacts DEF TransportInv, DataInv
<1> DEFINE P == Peer[e]
<1>1. CASE P \in Requester
  <2>1. PICK q \in Nat, c \in Nat : RequestFlow(P, q, c)
    BY <1>0, <1>1 DEF FlowInv
  <2>2. /\ Len(executed[e]) <= Len(sent[P])
        /\ \A j \in 1 .. Len(executed[e]) : executed[e][j] = sent[P][j]
        /\ InPostedOrder(P, sent[P])
    BY <1>0, <2>1 DEF RequestFlow, DeliveryPart, SentPart
  <2>3. executed[e] \in Seq(Nat \X Nat) /\ sent[P] \in Seq(Nat \X Nat)
    BY <1>0, CountFacts
  <2> QED
    BY <1>0, <2>2, <2>3, PostedPrefix
<1>2. CASE P \notin Requester
  <2>1. executed[e] = <<>>
    BY <1>0, <1>2 DEF FlowInv, PassivePart
  <2> QED
    BY <2>1 DEF InPostedOrder
<1> QED
  BY <1>1, <1>2

\* Packets lost, repeated and delayed as the network likes, the responder writes
\* to the host's memory what the peer's host posted, each fragment once and in
\* order (rxe_handle_recv).
THEOREM DeliveredInOrder ==
    ASSUME Traffic
    PROVE  Spec /\ []Recent => []InOrderDelivery
<1>1. TransportInv => InOrderDelivery
  BY InvariantDelivers DEF InOrderDelivery
<1> QED
  BY <1>1, TransportInvariance, PTL

LEMMA InvariantCompletes ==
    ASSUME TransportInv, NEW e \in Endpoint, NEW m \in ToSet(completed[e]),
           Workload[e][m].op # "DRIVER1", NEW f \in 1 .. Workload[e][m].len
    PROVE  <<m, f>> \in ToSet(executed[Peer[e]])
<1>0. TypeInv /\ FlowInv(e) /\ Peer[e] \in Endpoint /\ Peer[Peer[e]] = e
  BY ConstantFacts DEF TransportInv, DataInv
<1>1. /\ Done(e) \in Nat /\ taken[e] \in Nat /\ completed[e] \in Seq(Nat)
      /\ executed[Peer[e]] \in Seq(Nat \X Nat)
      /\ Len(executed[Peer[e]]) \in Nat
  BY <1>0, CountFacts
<1>2. PICK i \in 1 .. Done(e) : completed[e][i] = m
  <2>1. DOMAIN completed[e] = 1 .. Len(completed[e])
    BY <1>1, LenProperties
  <2>2. m \in {completed[e][j] : j \in DOMAIN completed[e]}
    BY DEF ToSet
  <2> QED
    BY <2>1, <2>2 DEF Done
<1>3. ASSUME NEW q \in Nat, RingPart(e, q)
      PROVE  m = i /\ m \in DOMAIN Workload[e] /\ m \in 1 .. Done(e)
  <2>1. m = i /\ i \in 1 .. taken[e]
    BY <1>1, <1>2, <1>3, SMTT(20) DEF RingPart
  <2> QED
    BY <1>0, <2>1, CountFacts
<1>4. CASE e \in Requester
  <2>1. PICK q \in Nat, c \in Nat : RequestFlow(e, q, c)
    BY <1>0, <1>4 DEF FlowInv
  <2>2. m \in DOMAIN Workload[e] /\ m \in 1 .. Done(e)
    BY <1>3, <2>1 DEF RequestFlow
  <2>3. PICK j \in 1 .. Len(executed[Peer[e]]) :
          executed[Peer[e]][j] = <<m, MsgLen(e, m)>>
    BY <2>1, <2>2 DEF RequestFlow, AckPart
  <2>4. InPostedOrder(e, executed[Peer[e]])
    BY <1>0, InvariantDelivers
  <2>5. MsgLen(e, m) \in Nat
    <3>1. Workload[e][m] \in WorkRequest
      BY <2>2, WorkloadFacts
    <3> QED
      BY <3>1 DEF WorkRequest, MsgLen
  <2>6. /\ DOMAIN executed[Peer[e]] = 1 .. Len(executed[Peer[e]])
        /\ <<m, f>> \in Fragment(e)
    BY <1>1, <2>2, LenProperties DEF Fragment
  <2>7. CASE f = MsgLen(e, m)
    BY <2>3, <2>6, <2>7 DEF ToSet
  <2>8. CASE f # MsgLen(e, m)
    <3>1. f < MsgLen(e, m)
      BY <2>5, <2>8 DEF MsgLen
    <3>2. Before(<<m, f>>, executed[Peer[e]][j])
      BY <2>3, <3>1 DEF Before
    <3>3. \E l \in DOMAIN executed[Peer[e]] : executed[Peer[e]][l] = <<m, f>>
      BY <2>4, <2>6, <3>2 DEF InPostedOrder
    <3> QED
      BY <3>3 DEF ToSet
  <2> QED
    BY <2>7, <2>8
<1>5. CASE e \notin Requester
  <2>1. PICK q \in Nat : RingPart(e, q) /\ PassivePart(e, q)
    BY <1>0, <1>5 DEF FlowInv
  <2>2. m \in DOMAIN Workload[e] /\ m \in 1 .. Done(e)
    BY <1>3, <2>1
  <2>3. Done(e) # 0
    BY <2>2
  <2> QED
    BY <2>1, <2>2, <2>3 DEF PassivePart
<1> QED
  BY <1>4, <1>5

\* A work request is retired only when all of it is in the memory of the peer's
\* host (rxe_handle_recv's completion loop, complete_send_wqe).
THEOREM CompletedIsDelivered ==
    ASSUME Traffic
    PROVE  Spec /\ []Recent => []CompletionSound
<1>1. TransportInv => CompletionSound
  BY InvariantCompletes DEF CompletionSound
<1> QED
  BY <1>1, TransportInvariance, PTL

\* Work requests are retired once each, in the order posted (step_tail).
THEOREM CompletedInOrder ==
    ASSUME Traffic
    PROVE  Spec /\ []Recent => []CompletionOrder
<1>1. TransportInv => CompletionOrder
  <2> SUFFICES ASSUME TransportInv, NEW e \in Endpoint, NEW i \in DOMAIN completed[e]
               PROVE  completed[e][i] = i
    BY DEF CompletionOrder
  <2>0. TypeInv /\ FlowInv(e)
    BY DEF TransportInv, DataInv
  <2>1. i \in 1 .. Done(e)
    BY <2>0, CountFacts, LenProperties DEF Done
  <2>2. \E q \in Nat : RingPart(e, q)
    BY <2>0 DEF FlowInv, RequestFlow
  <2> QED
    BY <2>1, <2>2 DEF RingPart
<1> QED
  BY <1>1, TransportInvariance, PTL

\* The acknowledged, the expected and the next PSN keep their order around the
\* circle and stay within the window (psn_compare, RXE_MAX_UNACKED_PSNS).
THEOREM SequenceOrderKept ==
    ASSUME Traffic
    PROVE  Spec /\ []Recent => []SequenceOrder
<1>1. TransportInv => SequenceOrder
  <2> SUFFICES ASSUME TransportInv, NEW e \in Requester
               PROVE  PsnGap(compPsn[e], recvPsn[Peer[e]])
                        + PsnGap(recvPsn[Peer[e]], sendPsn[e]) <= MaxUnacked + 1
    BY DEF SequenceOrder
  <2>0. TypeInv /\ FlowInv(e) /\ e \in Endpoint
    BY DEF TransportInv, DataInv, Requester
  <2>1. PICK q \in Nat, c \in Nat : RequestFlow(e, q, c)
    BY <2>0 DEF FlowInv
  <2>2. PICK r \in Nat, s \in Nat : r = Len(executed[Peer[e]]) /\ s = Len(sent[e])
    BY <2>0, CountFacts
  <2>3. /\ c <= r /\ r <= s /\ s <= c + MaxUnacked + 1
        /\ compPsn[e] = c % PsnMod /\ recvPsn[Peer[e]] = r % PsnMod
        /\ sendPsn[e] = s % PsnMod
    BY <2>1, <2>2 DEF RequestFlow, AckPart, DeliveryPart, SentPart
  <2>4. /\ MaxUnacked \in Nat /\ PsnMod \in Nat /\ PsnMod > 0
        /\ r - c < PsnMod /\ s - r < PsnMod
    BY <2>3, ConstantFacts
  <2>5. ((r % PsnMod) - (c % PsnMod)) % PsnMod = r - c
    BY <2>3, <2>4, WrappedDifference, ZenonT(30)
  <2>6. ((s % PsnMod) - (r % PsnMod)) % PsnMod = s - r
    BY <2>3, <2>4, WrappedDifference, ZenonT(30)
  <2>7. (r - c) + (s - r) <= MaxUnacked + 1
    BY <2>3, <2>4
  <2> QED
    BY <2>3, <2>5, <2>6, <2>7 DEF PsnGap
<1> QED
  BY <1>1, TransportInvariance, PTL

\* The host gets one receive completion for each SEND executed to its end, none
\* for a WRITE (RXE_COMP_MASK).
THEOREM OneRecvCqePerSend ==
    ASSUME Traffic
    PROVE  Spec /\ []Recent => []RecvCqePerSend
<1>1. TransportInv => RecvCqePerSend
  BY DEF TransportInv, DataInv
<1> QED
  BY <1>1, TransportInvariance, PTL

\* A request the responder takes for a duplicate was executed before: dropping
\* it loses nothing (the psn_compare of rxe_handle_recv).
THEOREM DuplicatesKnown ==
    ASSUME Traffic
    PROVE  Spec /\ []Recent => DuplicateIsKnown
<1>1. ASSUME TransportInv, Recent, NEW e \in Endpoint, RecvDuplicate(e)
      PROVE  Head(net[e]).frag \in ToSet(executed[e])
  <2>1. /\ net[e] # <<>> /\ Head(net[e]).kind = "REQ"
        /\ PsnCompare(Head(net[e]).psn, recvPsn[e]) < 0
    BY <1>1 DEF RecvDuplicate, Polled
  <2>2. PICK n \in Nat : n = Head(net[e]).number
    BY <1>1, <2>1, RequestFacts
  <2>3. /\ n < Len(executed[e])
        /\ Head(net[e]).frag = sent[Peer[e]][n + 1]
        /\ \A j \in 1 .. Len(executed[e]) : executed[e][j] = sent[Peer[e]][j]
    BY <1>1, <2>1, <2>2, RequestFacts
  <2>4. executed[e] \in Seq(Nat \X Nat) /\ Len(executed[e]) \in Nat
    BY <1>1, CountFacts DEF TransportInv
  <2>5. n + 1 \in 1 .. Len(executed[e])
    BY <2>3, <2>4
  <2>6. Head(net[e]).frag = executed[e][n + 1] /\ n + 1 \in DOMAIN executed[e]
    BY <2>3, <2>4, <2>5, LenProperties
  <2> QED
    BY <2>6 DEF ToSet
<1>2. TransportInv /\ Recent =>
        [\A e \in Endpoint :
           RecvDuplicate(e) => Head(net[e]).frag \in ToSet(executed[e])]_vars
  BY <1>1
<1> QED
  BY <1>2, TransportInvariance, PTL DEF DuplicateIsKnown

-----------------------------------------------------------------------------
(* Without faults.  No packet lives long then, so that nothing has to be assumed
   of the packets; the datapath thread never meets an assertion and posts every
   receive buffer again. *)

\* The network loses, repeats and delays nothing; a message is at most half the
\* circle long (2^23 packets, more than its 32-bit length allows at an MTU of
\* 512 bytes or more).
Lossless ==
    /\ MaxFaults = 0
    /\ RxDepth > 0
    /\ \A e \in Endpoint : \A m \in DOMAIN Workload[e] : MsgLen(e, m) <= Half + 1

\* Packets of e that e knows to be executed.
Acked(e) == Len(executed[Peer[e]]) - PsnGap(compPsn[e], recvPsn[Peer[e]])

\* The requests on their way to e are those sent and not executed.
SteadyRequests(e) ==
    Peer[e] \in Requester =>
      /\ Len(net[e]) = Len(sent[Peer[e]]) - Len(executed[e])
      /\ \A i \in 1 .. Len(net[e]) : net[e][i].number = Len(executed[e]) + i - 1

\* The acknowledgements on their way to e arrive in the order of their packets,
\* are all new, and beyond the messages that are retired.
SteadyAcks(e) ==
    e \in Requester =>
      /\ \A i \in 1 .. Len(net[e]) :
           net[e][i].kind # "NAK" /\ net[e][i].number >= Acked(e)
      /\ \A i, j \in 1 .. Len(net[e]) :
           i < j => net[e][i].number < net[e][j].number
      /\ \A i \in 1 .. Len(net[e]) : \A j \in 1 .. Len(sent[e]) :
           sent[e][j][1] <= Done(e) => j <= net[e][i].number

Steady(e) ==
    /\ rxFree[e] = RxDepth
    /\ pc[e] # "abort"
    /\ SteadyRequests(e)
    /\ SteadyAcks(e)

SteadyInv == \A e \in Endpoint : Steady(e)

\* The distance of two numbers of packets, read off their PSNs.
LEMMA PsnGapIs ==
    ASSUME NEW c \in Nat, NEW r \in Nat, c <= r, r - c < PsnMod
    PROVE  PsnGap(c % PsnMod, r % PsnMod) = r - c
<1>1. PsnMod \in Nat /\ PsnMod > 0
  BY ConstantFacts
<1>2. ((r % PsnMod) - (c % PsnMod)) % PsnMod = r - c
  BY <1>1, WrappedDifference
<1> QED
  BY <1>2 DEF PsnGap

LEMMA AckedIs ==
    ASSUME TypeInv, NEW e \in Endpoint, NEW c \in Nat, AckPart(e, c), DeliveryPart(e)
    PROVE  Acked(e) = c
<1>1. PICK r \in Nat, s \in Nat : r = Len(executed[Peer[e]]) /\ s = Len(sent[e])
  BY CountFacts
<1>2. /\ c <= r /\ r <= s /\ s <= c + MaxUnacked + 1
      /\ compPsn[e] = c % PsnMod /\ recvPsn[Peer[e]] = r % PsnMod
  BY <1>1 DEF AckPart, DeliveryPart
<1>3. r - c < PsnMod /\ PsnMod \in Nat /\ PsnMod > 0
  BY <1>2, ConstantFacts
<1>4. ((r % PsnMod) - (c % PsnMod)) % PsnMod = r - c
  BY <1>2, <1>3, WrappedDifference
<1>5. Acked(e) = r - (r - c)
  BY <1>1, <1>2, <1>4 DEF Acked, PsnGap
<1> QED
  BY <1>5

\* The last packet of a message is sent after the others, and after those of the
\* messages before it.
LEMMA LastPacket ==
    ASSUME TypeInv, NEW e \in Endpoint, InPostedOrder(e, sent[e]), NEW m \in Nat,
           NEW j \in 1 .. Len(sent[e]), NEW l \in 1 .. Len(sent[e]),
           sent[e][l] = <<m, MsgLen(e, m)>>, sent[e][j][1] <= m
    PROVE  j <= l
<1>1. sent[e] \in Seq(Nat \X Nat)
  BY CountFacts
<1>2. /\ sent[e][j] \in Fragment(e) /\ sent[e][l] \in Fragment(e)
      /\ Before(sent[e][j], sent[e][l]) => j < l
      /\ sent[e][j] = sent[e][l] => j = l
  <2>1. PICK t \in Seq(Nat \X Nat) : t = sent[e]
    BY <1>1
  <2>2. InPostedOrder(e, t) /\ j \in 1 .. Len(t) /\ l \in 1 .. Len(t)
    BY <2>1
  <2>3. /\ t[j] \in Fragment(e) /\ t[l] \in Fragment(e)
        /\ Before(t[j], t[l]) => j < l
        /\ t[j] = t[l] => j = l
    BY <2>2, PostedPlace
  <2> QED
    BY <2>1, <2>3
<1>3. PICK f \in Fragment(e) : f = sent[e][j]
  BY <1>2
<1>4. /\ f = <<f[1], f[2]>> /\ f[1] \in Nat /\ f[2] \in Nat
      /\ f[2] <= MsgLen(e, f[1]) /\ f[1] <= m
  BY <1>3, FragmentFacts
<1>5. MsgLen(e, m) \in Nat
  <2>1. sent[e][l][2] \in Nat /\ sent[e][l][2] = MsgLen(e, m)
    BY <1>2, FragmentFacts
  <2> QED
    BY <2>1
<1>6. CASE f[1] < m
  <2>1. Before(sent[e][j], sent[e][l])
    BY <1>3, <1>6 DEF Before
  <2> QED
    BY <1>2, <2>1
<1>7. CASE f[1] = m
  <2>1. f[2] < MsgLen(e, m) \/ f[2] = MsgLen(e, m)
    BY <1>4, <1>5, <1>7
  <2>2. Before(sent[e][j], sent[e][l]) \/ sent[e][j] = sent[e][l]
    BY <1>3, <1>4, <1>7, <2>1 DEF Before
  <2> QED
    BY <1>2, <2>2
<1> QED
  BY <1>4, <1>6, <1>7

\* What the invariant says of the numbers of packets.
LEMMA NumberFacts ==
    ASSUME TransportInv, NEW e \in Endpoint, NEW i \in 1 .. Len(net[e])
    PROVE  /\ net[e][i] \in Packet /\ net[e][i].number \in Nat
           /\ PacketOK(e, net[e][i])
<1>1. TypeInv /\ NetPart(e) /\ net[e] \in Seq(Packet)
  BY DEF TransportInv, DataInv, TypeInv, TypeOK
<1>2. net[e][i] \in Packet
  BY <1>1, ElementOfSeq
<1>3. PacketOK(e, net[e][i])
  BY <1>1 DEF NetPart
<1>4. net[e][i].number \in Int
  BY <1>2 DEF Packet, ReqPacket, AckPacket
<1> QED
  BY <1>2, <1>3, <1>4 DEF PacketOK

\* In a steady state every packet is recent.
LEMMA SteadyRecent ==
    ASSUME TransportInv, Traffic, Lossless, SteadyInv
    PROVE  Recent
<1> SUFFICES ASSUME NEW e \in Endpoint, NEW i \in 1 .. Len(net[e])
             PROVE  IF net[e][i].kind = "REQ"
                      THEN Len(executed[e]) - net[e][i].number < PsnMod
                    ELSE \/ NothingToComplete(e)
                         \/ Len(sent[e]) + Wr(e, TailWqe(e)).len - TailWqe(e).off
                              - net[e][i].number <= Half + 1
  BY DEF Recent
<1>0. TypeInv /\ Steady(e) /\ Peer[e] \in Endpoint
  BY ConstantFacts DEF TransportInv, SteadyInv
<1>1. PICK n \in Nat : n = net[e][i].number
  BY NumberFacts
<1>2. PacketOK(e, net[e][i])
  BY NumberFacts
<1>3. CASE net[e][i].kind = "REQ"
  <2>1. n = Len(executed[e]) + i - 1
    BY <1>0, <1>1, <1>2, <1>3 DEF PacketOK, Steady, SteadyRequests
  <2>2. Len(executed[e]) \in Nat /\ i \in Nat /\ i >= 1 /\ PsnMod \in Nat /\ PsnMod > 1
    BY <1>0, CountFacts, ConstantFacts
  <2>3. Len(executed[e]) - n < PsnMod
    BY <2>1, <2>2
  <2> QED
    BY <1>1, <1>3, <2>3
<1>4. CASE net[e][i].kind # "REQ" /\ ~NothingToComplete(e)
  <2>1. e \in Requester /\ FlowInv(e)
    BY <1>2, <1>4 DEF PacketOK, TransportInv, DataInv
  <2>2. PICK q \in Nat, c \in Nat : RequestFlow(e, q, c)
    BY <2>1 DEF FlowInv
  <2>3. PICK L \in Nat : TailEnd(e, q, c, L)
    BY <1>4, <2>1, <2>2, TailFacts
  <2>4. PICK s \in Nat, d \in Nat : s = Len(sent[e]) /\ d = Done(e)
    BY <1>0, CountFacts
  <2>5. /\ n >= c
        /\ \A j \in 1 .. s : sent[e][j][1] <= d => j <= n
    <3>1. Acked(e) = c
      BY <1>0, <2>2, AckedIs DEF RequestFlow
    <3> QED
      BY <1>0, <1>1, <2>1, <2>4, <3>1 DEF Steady, SteadyAcks
  <2>6. PICK len \in Nat, off \in Nat :
          /\ len = Wr(e, TailWqe(e)).len /\ off = TailWqe(e).off
          /\ len = MsgLen(e, d + 1) /\ len <= Half + 1
    <3>1. d + 1 \in 1 .. taken[e] /\ Wr(e, TailWqe(e)) = Workload[e][d + 1]
      BY <1>0, <2>3, <2>4, CountFacts DEF TailEnd
    <3>2. d + 1 \in DOMAIN Workload[e]
      BY <1>0, <3>1, CountFacts
    <3>3. MsgLen(e, d + 1) \in Nat /\ MsgLen(e, d + 1) <= Half + 1
      BY <3>2, TrafficFacts DEF Lossless
    <3>4. TailWqe(e) \in Wqe
      <4>1. d + 1 \in Nat
        BY <2>4
      <4> QED
        BY <1>0, <2>2, <2>4, <4>1, CursorFacts DEF RequestFlow
    <3> QED
      BY <3>1, <3>3, <3>4 DEF MsgLen, Wqe
  <2>7. TailWqe(e) = Slot(e, d + 1) /\ d + 1 \in d + 1 .. taken[e] /\ d < taken[e]
    <3>1. TailWqe(e) = Slot(e, d + 1) /\ d + 1 \in d + 1 .. taken[e]
      BY <2>3, <2>4 DEF TailEnd
    <3>2. taken[e] \in Nat
      BY <1>0, CountFacts
    <3> QED
      BY <3>1, <3>2
  <2>8. CASE TailWqe(e).state = "pending"
    <3>1. d + 1 <= q
      BY <2>3, <2>4, <2>8 DEF TailEnd
    <3>2. PendingPart(e, d + 1, c)
      BY <2>2, <2>4, <2>7, <3>1 DEF RequestFlow, WqePart
    <3>3. off = len
      BY <2>6, <2>7, <3>2 DEF PendingPart
    <3>4. s <= c + MaxUnacked + 1
      BY <2>2, <2>4 DEF RequestFlow, AckPart
    <3>5. Half \in Nat /\ PsnMod = 2 * Half
      BY HalfCircle DEF Half
    <3>6. s + len - off - n <= Half + 1
      <4>1. MaxUnacked \in Nat /\ 2 * (MaxUnacked + 1) < PsnMod
        BY ConstantFacts
      <4> QED
        BY <2>5, <3>3, <3>4, <3>5, <4>1
    <3> QED
      BY <1>1, <1>4, <2>4, <2>6, <3>6
  <2>9. CASE TailWqe(e).state # "pending"
    <3>1. d = q
      BY <2>3, <2>4, <2>9 DEF TailEnd
    <3>2. off = Off(e, q)
      BY <2>6, <2>7, <3>1 DEF Off
    <3>3. /\ q = 0 => s = off
          /\ q > 0 => s > off /\ sent[e][s - off] = <<q, MsgLen(e, q)>>
      BY <2>2, <2>4, <3>2 DEF RequestFlow, SentPart
    <3>4. s - off <= n
      <4>1. CASE q = 0
        BY <3>3, <4>1
      <4>2. CASE q > 0
        <5>1. s - off \in 1 .. s /\ sent[e][s - off][1] <= d
          BY <3>1, <3>3, <4>2
        <5> QED
          BY <2>5, <5>1
      <4> QED
        BY <4>1, <4>2
    <3>5. Half \in Nat
      BY HalfCircle DEF Half
    <3>6. s + len - off - n <= Half + 1
      BY <2>6, <3>4, <3>5
    <3> QED
      BY <1>1, <1>4, <2>4, <2>6, <3>6
  <2> QED
    BY <2>8, <2>9
<1> QED
  BY <1>3, <1>4

LEMMA SteadyInit ==
    ASSUME Init
    PROVE  SteadyInv
<1> SUFFICES ASSUME NEW e \in Endpoint
             PROVE  Steady(e)
  BY DEF SteadyInv
<1>1. /\ net[e] = <<>> /\ rxFree[e] = RxDepth /\ pc[e] = "loop"
      /\ executed[e] = <<>> /\ sent[e] = <<>> /\ Peer[e] \in Endpoint
      /\ sent[Peer[e]] = <<>>
  BY ConstantFacts DEF Init
<1>2. SteadyRequests(e)
  BY <1>1 DEF SteadyRequests
<1>3. SteadyAcks(e)
  BY <1>1 DEF SteadyAcks
<1> QED
  BY <1>1, <1>2, <1>3 DEF Steady

\* The packets, histories and cursors of one direction are untouched.
LEMMA SteadyKept ==
    ASSUME NEW e \in Endpoint, Steady(e),
           rxFree'[e] = rxFree[e], pc'[e] # "abort", net'[e] = net[e],
           sent'[e] = sent[e], sent'[Peer[e]] = sent[Peer[e]],
           executed'[e] = executed[e], executed'[Peer[e]] = executed[Peer[e]],
           e \in Requester =>
             /\ completed'[e] = completed[e] /\ compPsn'[e] = compPsn[e]
             /\ recvPsn'[Peer[e]] = recvPsn[Peer[e]]
    PROVE  Steady(e)'
<1>1. SteadyRequests(e)'
  BY DEF Steady, SteadyRequests
<1>2. CASE e \in Requester
  <2>1. Acked(e)' = Acked(e) /\ Done(e)' = Done(e)
    BY <1>2 DEF Acked, PsnGap, Done
  <2>2. SteadyAcks(e)'
    BY <1>2, <2>1 DEF Steady, SteadyAcks
  <2> QED
    BY <1>1, <2>2 DEF Steady
<1>3. CASE e \notin Requester
  BY <1>1, <1>3 DEF Steady, SteadyAcks
<1> QED
  BY <1>2, <1>3

\* In a steady state there is no fault, no gap, no duplicate and no NAK, and every
\* acknowledgement is new.
LEMMA SteadyRefuses ==
    ASSUME TransportInv, Traffic, Lossless, SteadyInv, NEW e \in Endpoint
    PROVE  /\ ~Network(e) /\ ~RecvOutOfOrder(e) /\ ~RecvDuplicate(e)
           /\ ~AckNak(e) /\ ~AckStale(e)
<1>0. TypeInv /\ Steady(e) /\ Recent /\ FlowInv(e)
  BY SteadyRecent DEF TransportInv, DataInv, SteadyInv
<1>1. net[e] # <<>> => 1 \in 1 .. Len(net[e]) /\ Head(net[e]) = net[e][1]
  <2>1. net[e] \in Seq(Packet)
    BY <1>0 DEF TypeInv, TypeOK
  <2> QED
    BY <2>1
<1>2. ~Network(e)
  <2>1. faults \in 0 .. MaxFaults /\ MaxFaults = 0
    BY <1>0 DEF TypeInv, TypeOK, Lossless
  <2>2. rxFree[e] = RxDepth /\ RxDepth > 0 /\ RxDepth \in Nat
    BY <1>0, ConstantFacts DEF Steady, Lossless
  <2> QED
    BY <2>1, <2>2 DEF Network, Fault, DropNoBuffer
<1>3. ASSUME Polled(e, {"REQ"})
      PROVE  PsnCompare(Head(net[e]).psn, recvPsn[e]) = 0
  <2>1. net[e] # <<>> /\ Head(net[e]).kind = "REQ"
    BY <1>3 DEF Polled
  <2>2. /\ Peer[e] \in Requester /\ Head(net[e]).psn = Head(net[e]).number % PsnMod
        /\ recvPsn[e] = Len(executed[e]) % PsnMod
    BY <1>0, <2>1, RequestFacts
  <2>3. PICK r \in Nat : r = Len(executed[e])
    BY <1>0, CountFacts
  <2>4. Head(net[e]).number = r
    <3>1. Head(net[e]).number = r + 1 - 1
      BY <1>0, <1>1, <2>1, <2>2, <2>3 DEF Steady, SteadyRequests
    <3> QED
      BY <2>3, <3>1
  <2>5. PsnCompare(r % PsnMod, r % PsnMod) = r - r
    <3>1. -(PsnMod \div 2) <= r - r /\ r - r < PsnMod \div 2
      BY HalfCircle
    <3> QED
      BY <3>1, PsnCompareTwo
  <2> QED
    BY <2>2, <2>3, <2>4, <2>5
<1>4. ASSUME Acking(e)
      PROVE  /\ Head(net[e]).kind # "NAK"
             /\ ~NothingToComplete(e) => Fresh(e, Head(net[e]).psn)
  <2>1. e \in Requester /\ net[e] # <<>>
    BY <1>0, <1>4, Roles, AckingFacts
  <2>2. Head(net[e]).kind # "NAK" /\ Head(net[e]).number >= Acked(e)
    BY <1>0, <1>1, <2>1 DEF Steady, SteadyAcks
  <2>3. PICK q \in Nat, c \in Nat : RequestFlow(e, q, c)
    BY <1>0, <2>1 DEF FlowInv
  <2>4. Acked(e) = c
    BY <1>0, <2>3, AckedIs DEF RequestFlow
  <2>5. ASSUME ~NothingToComplete(e)
        PROVE  Fresh(e, Head(net[e]).psn)
    <3>1. PICK L \in Nat : TailEnd(e, q, c, L)
      BY <2>1, <2>3, <2>5, TailFacts
    <3> QED
      BY <1>0, <1>4, <2>2, <2>3, <2>4, <2>5, <3>1, AckFacts
  <2> QED
    BY <2>2, <2>5
<1> QED
  BY <1>2, <1>3, <1>4
     DEF RecvOutOfOrder, RecvDuplicate, AckNak, AckStale, AckAt

\* The requester puts a packet behind those on their way.
LEMMA SteadySend ==
    ASSUME TransportInv, Traffic, Lossless, SteadyInv, NEW e \in Endpoint,
           SendPacket(e)
    PROVE  SteadyInv'
<1>0. /\ TypeInv /\ TypeOK /\ e \in Requester /\ FlowInv(e)
      /\ Peer[e] \in Endpoint /\ Peer[e] # e /\ Peer[Peer[e]] = e
      /\ Peer[e] \notin Requester
  BY SenderIsRequester, ConstantFacts, TrafficFacts DEF TransportInv, DataInv, TypeInv
<1>1. PICK q \in Nat, c \in Nat : RequestFlow(e, q, c)
  BY <1>0 DEF FlowInv
<1>2. PICK p \in Packet : p = SentPacket(e)
  BY <1>0, SentPacketType
<1>3. PICK f : f = <<CurWqe(e).msg, CurWqe(e).off + 1>>
  OBVIOUS
<1>4. /\ net' = [net EXCEPT ![Peer[e]] = Append(@, p)]
      /\ sent' = [sent EXCEPT ![e] = Append(@, f)]
      /\ executed' = executed /\ pc' = pc /\ rxFree' = rxFree
      /\ recvPsn' = recvPsn /\ completed' = completed /\ compPsn' = compPsn
  BY <1>0, <1>2, <1>3, SentPacketType DEF SendPacket, respVars
<1>5. p.number = Len(sent[e])
  BY <1>2 DEF SentPacket
<1>6. f[1] = q + 1 /\ f \in Nat \X Nat
  <2>1. wqeIndex[e] # head[e] /\ Wr(e, CurWqe(e)).op # "DRIVER1"
    BY DEF SendPacket, Busy
  <2>2. CurWqe(e).msg = q + 1
    BY <1>0, <1>1, <2>1, CursorFacts DEF RequestFlow
  <2> QED
    BY <1>0, <1>3, <2>1, <2>2, SendFacts
<1>7. PICK s \in Nat, d \in Nat : s = Len(sent[e]) /\ d = Done(e) /\ d <= q
  BY <1>0, <1>1, CountFacts DEF RequestFlow, RingPart
<1>8. /\ Len(sent'[e]) = s + 1 /\ sent'[e][s + 1] = f
      /\ \A j \in 1 .. s : sent'[e][j] = sent[e][j]
      /\ \A j \in 1 .. s + 1 : j \in 1 .. s \/ j = s + 1
  <2>1. sent[e] \in Seq(Nat \X Nat) /\ sent'[e] = Append(sent[e], f)
    BY <1>0, <1>4 DEF TypeOK
  <2>2. /\ Len(sent'[e]) = s + 1 /\ sent'[e][s + 1] = f
        /\ \A j \in 1 .. s : sent'[e][j] = sent[e][j]
    BY <1>6, <1>7, <2>1, AppendProperties
  <2> QED
    BY <1>7, <2>2
<1>9. Steady(e)'
  <2>1. Steady(e) /\ net'[e] = net[e] /\ sent'[Peer[e]] = sent[Peer[e]]
    BY <1>0, <1>4 DEF SteadyInv, TypeOK
  <2>2. SteadyRequests(e)'
    BY <1>0 DEF SteadyRequests
  <2>3. Acked(e)' = Acked(e) /\ Done(e)' = d
    BY <1>4, <1>7 DEF Acked, PsnGap, Done
  <2>4. ASSUME NEW i \in 1 .. Len(net[e]), NEW j \in 1 .. s + 1, sent'[e][j][1] <= d
        PROVE  j <= net[e][i].number
    <3>1. j # s + 1
      BY <1>6, <1>7, <1>8, <2>4
    <3>2. j \in 1 .. s /\ sent[e][j][1] <= d
      BY <1>8, <2>4, <3>1
    <3> QED
      BY <1>0, <1>7, <2>1, <3>2 DEF Steady, SteadyAcks
  <2>5. SteadyAcks(e)'
    BY <1>0, <1>8, <2>1, <2>3, <2>4 DEF Steady, SteadyAcks
  <2> QED
    BY <1>4, <2>1, <2>2, <2>5 DEF Steady
<1>10. Steady(Peer[e])'
  <2>1. Steady(Peer[e])
    BY <1>0 DEF SteadyInv
  <2>2. PICK r \in Nat, n \in Nat :
          /\ r = Len(executed[Peer[e]]) /\ n = Len(net[Peer[e]]) /\ n = s - r
          /\ \A i \in 1 .. n : net[Peer[e]][i].number = r + i - 1
    <3>1. net[Peer[e]] \in Seq(Packet)
      BY <1>0 DEF TypeOK
    <3>2. Len(net[Peer[e]]) \in Nat /\ Len(executed[Peer[e]]) \in Nat
      BY <1>0, <3>1, CountFacts, LenProperties
    <3> QED
      BY <1>0, <1>7, <2>1, <3>2 DEF Steady, SteadyRequests
  <2>3. /\ Len(net'[Peer[e]]) = n + 1 /\ net'[Peer[e]][n + 1] = p
        /\ \A i \in 1 .. n : net'[Peer[e]][i] = net[Peer[e]][i]
    <3>1. PICK t \in Seq(Packet) : t = net[Peer[e]]
      BY <1>0 DEF TypeOK
    <3>2. net'[Peer[e]] = Append(t, p) /\ n = Len(t)
      BY <1>0, <1>4, <2>2, <3>1 DEF TypeOK
    <3>3. /\ Len(Append(t, p)) = Len(t) + 1 /\ Append(t, p)[Len(t) + 1] = p
          /\ \A i \in 1 .. Len(t) : Append(t, p)[i] = t[i]
      BY AppendProperties
    <3> QED
      BY <3>1, <3>2, <3>3
  <2>4. n + 1 = (s + 1) - r /\ s = r + (n + 1) - 1
    BY <1>7, <2>2
  <2>5. \A i \in 1 .. n + 1 : i \in 1 .. n \/ i = n + 1
    BY <2>2
  <2>6. \A i \in 1 .. n + 1 : net'[Peer[e]][i].number = r + i - 1
    BY <1>5, <1>7, <2>2, <2>3, <2>4, <2>5
  <2>7. SteadyRequests(Peer[e])'
    BY <1>0, <1>4, <1>8, <2>2, <2>3, <2>4, <2>6 DEF SteadyRequests
  <2>8. SteadyAcks(Peer[e])'
    BY <1>0 DEF SteadyAcks
  <2> QED
    BY <1>4, <2>1, <2>7, <2>8 DEF Steady
<1>11. ASSUME NEW x \in Endpoint, x # e, x # Peer[e]
       PROVE  Steady(x)'
  <2>1. Peer[x] # e /\ Peer[x] \in Endpoint /\ Steady(x)
    BY <1>11, ConstantFacts DEF SteadyInv
  <2>2. net'[x] = net[x] /\ sent'[x] = sent[x] /\ sent'[Peer[x]] = sent[Peer[x]]
    BY <1>0, <1>4, <1>11, <2>1 DEF TypeOK
  <2>3. pc'[x] # "abort"
    BY <1>4, <2>1 DEF Steady
  <2> QED
    BY <1>4, <2>1, <2>2, <2>3, SteadyKept
<1> QED
  BY <1>9, <1>10, <1>11 DEF SteadyInv

\* The responder takes the packet at the head and acknowledges it behind the
\* acknowledgements on their way.
LEMMA SteadyReceive ==
    ASSUME TransportInv, Traffic, Lossless, SteadyInv, NEW e \in Endpoint,
           RecvInOrder(e)
    PROVE  SteadyInv'
<1> DEFINE P == Peer[e]
           a == [kind |-> "ACK", psn |-> Head(net[e]).psn, number |-> Len(executed[e])]
<1>0. /\ TypeInv /\ TypeOK /\ Recent /\ P \in Endpoint /\ P # e /\ Peer[P] = e
      /\ net[e] # <<>> /\ Head(net[e]).kind = "REQ"
      /\ PsnCompare(Head(net[e]).psn, recvPsn[e]) = 0
  BY SteadyRecent, ConstantFacts DEF TransportInv, TypeInv, RecvInOrder, Polled, InOrder
<1>1. /\ e \notin Requester /\ P \in Requester /\ Head(net[e]) \in Packet
      /\ Head(net[e]).number = Len(executed[e])
      /\ Head(net[e]).frag = sent[P][Head(net[e]).number + 1]
      /\ Head(net[e]).number < Len(sent[P])
      /\ Head(net[e]).psn = Head(net[e]).number % PsnMod
  BY <1>0, RequestFacts
<1>2. PICK q \in Nat, c \in Nat : RequestFlow(P, q, c)
  BY <1>0, <1>1 DEF TransportInv, DataInv, FlowInv
<1>3. PICK r \in Nat, s \in Nat, d \in Nat :
        /\ r = Len(executed[e]) /\ s = Len(sent[P]) /\ d = Done(P)
  BY <1>0, CountFacts
<1>4. /\ executed' = [executed EXCEPT ![e] = Append(@, Head(net[e]).frag)]
      /\ recvPsn' = [recvPsn EXCEPT ![e] = PsnAdd(Head(net[e]).psn, 1)]
      /\ \/ net' = [net EXCEPT ![e] = Tail(@)]
         \/ net' = [net EXCEPT ![e] = Tail(@), ![P] = Append(@, a)]
      /\ pc' = pc /\ rxFree' = rxFree /\ sent' = sent /\ compPsn' = compPsn
      /\ completed' = completed
  BY DEF RecvInOrder, SendAck, Consume, ringVars, reqVars
<1>5. Len(executed'[e]) = r + 1
  <2>1. sent[P] \in Seq(Nat \X Nat) /\ executed[e] \in Seq(Nat \X Nat)
    BY <1>0, CountFacts
  <2>2. r + 1 \in 1 .. s
    BY <1>1, <1>3
  <2>3. Head(net[e]).frag \in Nat \X Nat
    BY <1>1, <1>3, <2>1, <2>2, ElementOfSeq, SMTT(60)
  <2>4. executed'[e] = Append(executed[e], Head(net[e]).frag)
    BY <1>0, <1>4 DEF TypeOK
  <2> HIDE DEF P
  <2> QED
    BY <1>3, <2>1, <2>3, <2>4, AppendProperties
<1>6. Steady(e)'
  <2>1. Steady(e)
    BY DEF SteadyInv
  <2>2. PICK t \in Seq(Packet) : t = net[e] /\ t # <<>>
    BY <1>0 DEF TypeOK
  <2>3. PICK n \in Nat : /\ n = Len(t) /\ n = s - r
                         /\ \A i \in 1 .. n : t[i].number = r + i - 1
    <3>1. Len(t) \in Nat
      BY <2>2, LenProperties
    <3> QED
      BY <1>1, <1>3, <2>1, <2>2, <3>1 DEF Steady, SteadyRequests
  <2>4. net'[e] = Tail(t)
    BY <1>0, <1>4, <2>2 DEF TypeOK
  <2>5. /\ Len(Tail(t)) = n - 1
        /\ \A i \in 1 .. n - 1 : Tail(t)[i] = t[i + 1]
    <3>1. /\ Len(Tail(t)) = Len(t) - 1
          /\ \A i \in 1 .. Len(Tail(t)) : Tail(t)[i] = t[i + 1]
      BY <2>2, HeadTailProperties
    <3> QED
      BY <2>3, <3>1
  <2>6. /\ n - 1 = s - (r + 1)
        /\ \A i \in 1 .. n - 1 : i + 1 \in 1 .. n /\ r + (i + 1) - 1 = (r + 1) + i - 1
    BY <2>3
  <2>7. \A i \in 1 .. n - 1 : net'[e][i].number = (r + 1) + i - 1
    BY <2>3, <2>4, <2>5, <2>6
  <2>8. SteadyRequests(e)'
    BY <1>3, <1>4, <1>5, <2>4, <2>5, <2>6, <2>7 DEF SteadyRequests
  <2>9. SteadyAcks(e)'
    BY <1>1 DEF SteadyAcks
  <2> QED
    BY <1>4, <2>1, <2>8, <2>9 DEF Steady
<1>7. Steady(P)'
  <2>1. Steady(P)
    BY <1>0 DEF SteadyInv
  <2>2. SteadyRequests(P)'
    BY <1>0, <1>1 DEF SteadyRequests
  <2>3. /\ compPsn[P] = c % PsnMod /\ c <= r /\ s <= c + MaxUnacked + 1 /\ r < s
        /\ \A m \in 1 .. d : \E j \in 1 .. r : executed[e][j] = <<m, MsgLen(P, m)>>
        /\ \A j \in 1 .. r : executed[e][j] = sent[P][j]
        /\ InPostedOrder(P, sent[P])
    <3>1. /\ AckPart(P, c) /\ DeliveryPart(P) /\ InPostedOrder(P, sent[P])
      BY <1>2 DEF RequestFlow, SentPart
    <3>2. r < s
      BY <1>1, <1>3
    <3> HIDE DEF P
    <3>3. /\ compPsn[P] = c % PsnMod /\ c <= r /\ s <= c + MaxUnacked + 1
          /\ \A m \in 1 .. d : \E j \in 1 .. r : executed[e][j] = <<m, MsgLen(P, m)>>
      BY <1>0, <1>3, <3>1 DEF AckPart
    <3>4. \A j \in 1 .. r : executed[e][j] = sent[P][j]
      BY <1>0, <1>3, <3>1 DEF DeliveryPart
    <3> QED
      BY <3>1, <3>2, <3>3, <3>4
  <2>4. Acked(P) = c
    BY <1>0, <1>2, AckedIs DEF RequestFlow
  <2>5. Acked(P)' = c
    <3>1. recvPsn'[e] = (r + 1) % PsnMod
      <4>1. PsnAdd(r % PsnMod, 1) = (r + 1) % PsnMod
        BY PsnAddNumber
      <4> QED
        BY <1>0, <1>1, <1>3, <1>4, <4>1 DEF TypeOK
    <3>2. PICK r1 \in Nat : r1 = r + 1
      OBVIOUS
    <3>3. c <= r1 /\ r1 - c < PsnMod /\ PsnMod \in Nat /\ PsnMod > 0
      BY <2>3, <3>2, ConstantFacts
    <3>4. PsnGap(c % PsnMod, r1 % PsnMod) = r1 - c
      BY <3>3, PsnGapIs
    <3>5. Acked(P)' = r1 - (r1 - c)
      <4>1. /\ Len(executed'[e]) = r1 /\ compPsn'[P] = c % PsnMod
            /\ recvPsn'[e] = r1 % PsnMod
        BY <1>4, <1>5, <2>3, <3>1, <3>2
      <4> HIDE DEF P
      <4> QED
        BY <1>0, <3>4, <4>1 DEF Acked, PsnGap
    <3> QED
      BY <3>3, <3>5
  <2>6. PICK t \in Seq(Packet) : t = net[P]
    BY <1>0 DEF TypeOK
  <2>7. Len(t) \in Nat
    BY LenProperties
  <2>8. ASSUME NEW i \in 1 .. Len(t)
        PROVE  /\ t[i].kind # "NAK" /\ t[i].number \in Nat
               /\ t[i].number >= c /\ t[i].number < r
               /\ \A j \in 1 .. Len(t) : i < j => t[i].number < t[j].number
               /\ \A j \in 1 .. s : sent[P][j][1] <= d => j <= t[i].number
    <3>1. /\ t[i].kind # "NAK" /\ t[i].number >= c
          /\ \A j \in 1 .. Len(t) : i < j => t[i].number < t[j].number
          /\ \A j \in 1 .. s : sent[P][j][1] <= d => j <= t[i].number
      BY <1>1, <1>3, <2>1, <2>4, <2>6 DEF Steady, SteadyAcks
    <3>2. t[i] \in Packet /\ t[i].number \in Nat /\ PacketOK(P, t[i])
      BY <1>0, <2>6, NumberFacts
    <3>3. t[i].kind = "ACK"
      <4>1. t[i].kind \in {"REQ", "ACK", "NAK"}
        BY <3>2 DEF Packet, ReqPacket, AckPacket
      <4>2. t[i].kind # "REQ"
        BY <1>0, <1>1, <3>2 DEF PacketOK
      <4> QED
        BY <3>1, <4>1, <4>2
    <3>4. t[i].number < r
      BY <1>0, <1>3, <3>2, <3>3 DEF PacketOK
    <3> QED
      BY <3>1, <3>2, <3>4
  <2>9. \A j \in 1 .. s : sent[P][j][1] <= d => j <= r
    <3> SUFFICES ASSUME NEW j \in 1 .. s, sent[P][j][1] <= d
                 PROVE  j <= r
      OBVIOUS
    <3>1. sent[P] \in Seq(Nat \X Nat)
      BY <1>0, CountFacts
    <3>2. sent[P][j] \in Fragment(P)
      BY <1>0, <1>3, <2>3, <3>1, PostedPlace
    <3>3. PICK m \in Nat : m = sent[P][j][1] /\ m >= 1
      BY <1>0, <3>2, FragmentFacts
    <3>4. m \in 1 .. d
      BY <3>3
    <3>5. PICK l \in 1 .. r : executed[e][l] = <<m, MsgLen(P, m)>>
      BY <2>3, <3>4
    <3>6. sent[P][l] = <<m, MsgLen(P, m)>> /\ l \in 1 .. s
      BY <2>3, <3>5
    <3>7. j <= l
      <4>1. /\ j \in 1 .. Len(sent[P]) /\ l \in 1 .. Len(sent[P])
            /\ sent[P][j][1] <= m
        BY <1>3, <3>3, <3>6
      <4>2. TypeInv /\ P \in Endpoint /\ InPostedOrder(P, sent[P])
            /\ sent[P][l] = <<m, MsgLen(P, m)>>
        BY <1>0, <2>3, <3>6
      <4> HIDE DEF P
      <4> QED
        BY <4>1, <4>2, LastPacket
    <3> QED
      BY <3>5, <3>7
  <2>10. net'[P] = t \/ net'[P] = Append(t, a)
    BY <1>0, <1>4, <2>6 DEF TypeOK
  <2>11. sent'[P] = sent[P] /\ Done(P)' = d
    BY <1>3, <1>4 DEF Done
  <2>12. CASE net'[P] = t
    <3>1. SteadyAcks(P)'
      BY <1>3, <2>5, <2>8, <2>11, <2>12 DEF SteadyAcks
    <3> QED
      BY <1>4, <2>1, <2>2, <3>1 DEF Steady
  <2>13. CASE net'[P] = Append(t, a)
    <3> DEFINE u == Append(t, a)
    <3>1. a \in Packet /\ a.kind # "NAK" /\ a.number = r
      <4>1. Head(net[e]).psn \in PSN
        BY <1>1 DEF Packet, ReqPacket, AckPacket
      <4> QED
        BY <1>3, <4>1 DEF Packet, AckPacket
    <3>2. /\ Len(u) = Len(t) + 1 /\ u[Len(t) + 1] = a
          /\ \A i \in 1 .. Len(t) : u[i] = t[i]
      <4> HIDE DEF a
      <4> QED
        BY <3>1, AppendProperties
    <3> HIDE DEF u, a
    <3>3. \A i \in 1 .. Len(u) : i \in 1 .. Len(t) \/ i = Len(t) + 1
      BY <2>7, <3>2
    <3>4. \A i \in 1 .. Len(u) : u[i].kind # "NAK" /\ u[i].number >= c
      BY <2>3, <2>8, <3>1, <3>2, <3>3
    <3>5. ASSUME NEW i \in 1 .. Len(u), NEW j \in 1 .. Len(u), i < j
          PROVE  u[i].number < u[j].number
      <4>1. i \in 1 .. Len(t)
        BY <2>7, <3>2, <3>5
      <4>2. CASE j \in 1 .. Len(t)
        BY <2>8, <3>2, <3>5, <4>1, <4>2
      <4>3. CASE j = Len(t) + 1
        BY <2>8, <3>1, <3>2, <4>1, <4>3
      <4> QED
        BY <3>3, <4>2, <4>3
    <3>6. \A i \in 1 .. Len(u) : \A j \in 1 .. s :
            sent[P][j][1] <= d => j <= u[i].number
      BY <2>8, <2>9, <3>1, <3>2, <3>3
    <3>7. SteadyAcks(P)'
      BY <1>3, <2>5, <2>11, <2>13, <3>4, <3>5, <3>6 DEF SteadyAcks, u
    <3> QED
      BY <1>4, <2>1, <2>2, <3>7 DEF Steady
  <2> QED
    BY <2>10, <2>12, <2>13
<1>8. ASSUME NEW x \in Endpoint, x # e, x # P
      PROVE  Steady(x)'
  <2>1. Peer[x] # e /\ Peer[x] \in Endpoint /\ Steady(x)
    BY <1>0, <1>8, ConstantFacts DEF SteadyInv
  <2>2. /\ net'[x] = net[x] /\ executed'[x] = executed[x]
        /\ executed'[Peer[x]] = executed[Peer[x]]
        /\ recvPsn'[Peer[x]] = recvPsn[Peer[x]]
    BY <1>0, <1>4, <1>8, <2>1, ZenonT(30) DEF TypeOK
  <2>3. pc'[x] # "abort"
    BY <1>4, <2>1 DEF Steady
  <2> QED
    BY <1>4, <2>1, <2>2, <2>3, SteadyKept
<1> QED
  BY <1>6, <1>7, <1>8 DEF SteadyInv

\* A step of the completer of e.
LEMMA SteadyAckStep ==
    ASSUME TransportInv, Traffic, SteadyInv, NEW e \in Endpoint, e \in Requester,
           rxFree' = rxFree, sent' = sent, executed' = executed, pc'[e] # "abort",
           \A x \in Endpoint : x # e =>
             /\ net'[x] = net[x] /\ pc'[x] = pc[x] /\ completed'[x] = completed[x]
             /\ compPsn'[x] = compPsn[x] /\ recvPsn'[x] = recvPsn[x],
           NEW b \in Nat,
           \A i \in 1 .. Len(net'[e]) :
             i + b \in 1 .. Len(net[e]) /\ net'[e][i] = net[e][i + b],
           \A i \in 1 .. Len(net'[e]) : net'[e][i].number >= Acked(e)',
           \A i \in 1 .. Len(net'[e]) : \A j \in 1 .. Len(sent[e]) :
             sent[e][j][1] <= Done(e)' => j <= net'[e][i].number
    PROVE  SteadyInv'
<1>0. /\ \A x \in Endpoint : Steady(x)
      /\ Peer[e] \notin Requester /\ Peer[e] \in Endpoint /\ Peer[Peer[e]] = e
  BY TrafficFacts, ConstantFacts DEF SteadyInv
<1>1. Steady(e)'
  <2>1. SteadyRequests(e)'
    BY <1>0 DEF SteadyRequests
  <2>2. ASSUME NEW i \in 1 .. Len(net'[e]), NEW j \in 1 .. Len(net'[e]), i < j
        PROVE  net'[e][i].number < net'[e][j].number
    <3>1. i + b < j + b
      BY <2>2
    <3> QED
      BY <1>0, <3>1 DEF Steady, SteadyAcks
  <2>3. \A i \in 1 .. Len(net'[e]) : net'[e][i].kind # "NAK"
    BY <1>0 DEF Steady, SteadyAcks
  <2>4. SteadyAcks(e)'
    BY <2>2, <2>3 DEF SteadyAcks
  <2> QED
    BY <1>0, <2>1, <2>4 DEF Steady
<1>2. ASSUME NEW x \in Endpoint, x # e
      PROVE  Steady(x)'
  <2>1. x \in Requester => Peer[x] # e /\ Peer[x] \in Endpoint
    BY <1>0, ConstantFacts
  <2>2. pc'[x] # "abort"
    BY <1>0, <1>2 DEF Steady
  <2> QED
    BY <1>0, <1>2, <2>1, <2>2, SteadyKept
<1> QED
  BY <1>1, <1>2 DEF SteadyInv

\* The packet at the head of its queue is the one before all others.
LEMMA ConsumeFacts ==
    ASSUME TypeOK, NEW e \in Endpoint, net[e] # <<>>, Consume(e)
    PROVE  /\ \A i \in 1 .. Len(net'[e]) :
                i + 1 \in 1 .. Len(net[e]) /\ net'[e][i] = net[e][i + 1]
           /\ \A x \in Endpoint : x # e => net'[x] = net[x]
<1>1. net' = [net EXCEPT ![e] = Tail(@)] /\ net \in [Endpoint -> Seq(Packet)]
  BY DEF Consume, TypeOK
<1>2. PICK t \in Seq(Packet) : t = net[e] /\ t # <<>>
  BY <1>1
<1>3. net'[e] = Tail(t)
  BY <1>1, <1>2
<1>4. /\ Len(t) \in Nat /\ Len(Tail(t)) = Len(t) - 1
      /\ \A i \in 1 .. Len(Tail(t)) : Tail(t)[i] = t[i + 1]
  BY <1>2, LenProperties, HeadTailProperties
<1>5. \A i \in 1 .. Len(Tail(t)) : i + 1 \in 1 .. Len(t)
  BY <1>4
<1> QED
  BY <1>1, <1>2, <1>3, <1>4, <1>5

LEMMA SteadyPassed ==
    ASSUME TransportInv, Traffic, Lossless, SteadyInv, TypeOK', NEW e \in Endpoint,
           AckPassed(e)
    PROVE  SteadyInv'
<1>0. /\ TypeInv /\ TypeOK /\ Recent /\ FlowInv(e) /\ Steady(e)
      /\ e \in Requester /\ net[e] # <<>> /\ Acking(e) /\ ~NothingToComplete(e)
      /\ PassedBy(e, TailWqe(e), Head(net[e]).psn) /\ Peer[e] \in Endpoint
      /\ TailWqe(e).state = "pending" /\ Peer[e] # e
  <2>1. /\ Acking(e) /\ ~NothingToComplete(e)
        /\ PassedBy(e, TailWqe(e), Head(net[e]).psn)
    BY DEF AckPassed
  <2>2. TypeInv /\ TypeOK /\ FlowInv(e) /\ Steady(e) /\ Recent
    BY SteadyRecent DEF TransportInv, TypeInv, DataInv, SteadyInv
  <2>3. TailWqe(e).state = "pending"
    BY <2>2, AckPassedData
  <2> QED
    BY <2>1, <2>2, <2>3, Roles, AckingFacts, ConstantFacts
<1>1. PICK q \in Nat, c \in Nat : RequestFlow(e, q, c)
  BY <1>0 DEF FlowInv
<1>2. PICK L \in Nat : TailEnd(e, q, c, L)
  BY <1>0, <1>1, TailFacts
<1>3. PICK d \in Nat, s \in Nat : d = Done(e) /\ s = Len(sent[e])
  BY <1>0, CountFacts
<1>4. /\ rxFree' = rxFree /\ sent' = sent /\ executed' = executed /\ net' = net
      /\ compPsn' = compPsn
      /\ pc' = [pc EXCEPT ![e] = "ack"]
      /\ recvPsn' = [recvPsn EXCEPT ![e] = CompletedRecvPsn(e, TailWqe(e))]
      /\ completed' = [completed EXCEPT ![e] = Append(@, TailWqe(e).msg)]
  BY <1>0 DEF AckPassed, CompleteSendWqe, RetireTail, TailWqe, reqVars
<1>5. \A x \in Endpoint : x # e =>
        /\ net'[x] = net[x] /\ pc'[x] = pc[x] /\ completed'[x] = completed[x]
        /\ compPsn'[x] = compPsn[x] /\ recvPsn'[x] = recvPsn[x]
  BY <1>0, <1>4 DEF TypeOK
<1>6. Done(e)' = d + 1 /\ pc'[e] # "abort" /\ Acked(e)' = Acked(e)
  <2>1. completed[e] \in Seq(Nat) /\ TailWqe(e).msg = d + 1 /\ d + 1 \in Nat
    BY <1>0, <1>2, <1>3, CountFacts DEF TailEnd
  <2>2. Len(Append(completed[e], d + 1)) = Len(completed[e]) + 1
    BY <2>1, AppendProperties
  <2>3. completed'[e] = Append(completed[e], d + 1) /\ pc'[e] = "ack"
    BY <1>0, <1>4, <2>1 DEF TypeOK
  <2>4. recvPsn'[Peer[e]] = recvPsn[Peer[e]]
    BY <1>0, <1>5
  <2> QED
    BY <1>3, <1>4, <2>2, <2>3, <2>4 DEF Done, Acked, PsnGap
<1>7. L + 1 \in 1 .. s /\ sent[e][L + 1] = <<d + 1, MsgLen(e, d + 1)>>
  <2>1. L < s /\ sent[e][L + 1] = <<d + 1, MsgLen(e, d + 1)>>
    BY <1>0, <1>2, <1>3 DEF TailEnd
  <2> QED
    BY <1>3, <2>1
<1>8. /\ net[e][1].number > L /\ net[e][1].number \in Nat
      /\ 1 \in 1 .. Len(net[e]) /\ Len(net[e]) \in Nat
  <2>1. net[e] \in Seq(Packet)
    BY <1>0 DEF TypeOK
  <2>2. 1 \in 1 .. Len(net[e]) /\ Head(net[e]) = net[e][1] /\ Len(net[e]) \in Nat
    BY <1>0, <2>1
  <2>3. Head(net[e]).number > L /\ Head(net[e]).number \in Nat
    BY <1>0, <1>1, <1>2, AckFacts
  <2> QED
    BY <2>2, <2>3
<1>9. ASSUME NEW i \in 1 .. Len(net[e]), NEW j \in 1 .. s, sent[e][j][1] <= d + 1
      PROVE  j <= net[e][i].number
  <2>1. j <= L + 1
    <3>1. d + 1 \in Nat /\ InPostedOrder(e, sent[e])
      BY <1>1, <1>3 DEF RequestFlow, SentPart
    <3> QED
      BY <1>0, <1>3, <1>7, <1>9, <3>1, LastPacket
  <2>2. net[e][i].number > L /\ net[e][i].number \in Nat
    <3>1. net[e][i].number \in Nat
      BY NumberFacts
    <3>2. i = 1 \/ 1 < i
      OBVIOUS
    <3>3. 1 < i => net[e][1].number < net[e][i].number
      BY <1>0, <1>8 DEF Steady, SteadyAcks
    <3> QED
      BY <1>8, <3>1, <3>2, <3>3
  <2> QED
    BY <2>1, <2>2
<1>10. \A i \in 1 .. Len(net'[e]) : net'[e][i].number >= Acked(e)'
  BY <1>0, <1>4, <1>6 DEF Steady, SteadyAcks
<1>11. \A i \in 1 .. Len(net'[e]) : \A j \in 1 .. Len(sent[e]) :
         sent[e][j][1] <= Done(e)' => j <= net'[e][i].number
  BY <1>3, <1>4, <1>6, <1>9
<1>12. \A i \in 1 .. Len(net'[e]) :
         i + 0 \in 1 .. Len(net[e]) /\ net'[e][i] = net[e][i + 0]
  <2>1. \A i \in 1 .. Len(net[e]) : i + 0 = i
    OBVIOUS
  <2> QED
    BY <1>4, <2>1
<1> QED
  BY <1>0, <1>4, <1>5, <1>6, <1>10, <1>11, <1>12, SteadyAckStep, SMTT(30)

LEMMA SteadyNothing ==
    ASSUME TransportInv, Traffic, Lossless, SteadyInv, TypeOK', NEW e \in Endpoint,
           AckNothing(e)
    PROVE  SteadyInv'
<1>0. /\ TypeInv /\ TypeOK /\ Steady(e) /\ e \in Requester /\ net[e] # <<>>
  <2>1. Acking(e)
    BY DEF AckNothing
  <2>2. TypeInv /\ TypeOK /\ Steady(e)
    BY DEF TransportInv, TypeInv, SteadyInv
  <2> QED
    BY <2>1, <2>2, Roles, AckingFacts
<1>1. /\ rxFree' = rxFree /\ sent' = sent /\ executed' = executed /\ Consume(e)
      /\ compPsn' = compPsn /\ recvPsn' = recvPsn /\ completed' = completed
      /\ pc' = [pc EXCEPT ![e] = "recv"]
  BY DEF AckNothing, reqVars, respVars, ringVars
<1>2. /\ \A i \in 1 .. Len(net'[e]) :
           i + 1 \in 1 .. Len(net[e]) /\ net'[e][i] = net[e][i + 1]
      /\ \A x \in Endpoint : x # e => net'[x] = net[x]
  BY <1>0, <1>1, ConsumeFacts
<1>3. \A x \in Endpoint : x # e =>
        /\ net'[x] = net[x] /\ pc'[x] = pc[x] /\ completed'[x] = completed[x]
        /\ compPsn'[x] = compPsn[x] /\ recvPsn'[x] = recvPsn[x]
  BY <1>0, <1>1, <1>2 DEF TypeOK
<1>4. pc'[e] # "abort" /\ Acked(e)' = Acked(e) /\ Done(e)' = Done(e)
  BY <1>0, <1>1 DEF TypeOK, Acked, PsnGap, Done
<1>5. \A i \in 1 .. Len(net'[e]) : net'[e][i].number >= Acked(e)'
  BY <1>0, <1>2, <1>4 DEF Steady, SteadyAcks
<1>6. \A i \in 1 .. Len(net'[e]) : \A j \in 1 .. Len(sent[e]) :
        sent[e][j][1] <= Done(e)' => j <= net'[e][i].number
  BY <1>0, <1>2, <1>4 DEF Steady, SteadyAcks
<1>7. 1 \in Nat
  OBVIOUS
<1> QED
  BY <1>0, <1>1, <1>2, <1>3, <1>4, <1>5, <1>6, <1>7, SteadyAckStep

LEMMA SteadyAdvance ==
    ASSUME TransportInv, Traffic, Lossless, SteadyInv, TypeOK', NEW e \in Endpoint,
           AckAdvance(e)
    PROVE  SteadyInv'
<1>0. /\ TypeInv /\ TypeOK /\ Recent /\ FlowInv(e) /\ Steady(e)
      /\ e \in Requester /\ net[e] # <<>> /\ Acking(e) /\ ~NothingToComplete(e)
      /\ ~PassedBy(e, TailWqe(e), Head(net[e]).psn)
      /\ Fresh(e, Head(net[e]).psn) /\ Head(net[e]).kind = "ACK"
      /\ Peer[e] \in Endpoint /\ Peer[e] # e
  <2>1. /\ Acking(e) /\ ~NothingToComplete(e) /\ Head(net[e]).kind = "ACK"
        /\ ~PassedBy(e, TailWqe(e), Head(net[e]).psn)
        /\ Fresh(e, Head(net[e]).psn)
    BY DEF AckAdvance, AckAt
  <2>2. TypeInv /\ TypeOK /\ FlowInv(e) /\ Steady(e) /\ Recent
    BY SteadyRecent DEF TransportInv, TypeInv, DataInv, SteadyInv
  <2> QED
    BY <2>1, <2>2, Roles, AckingFacts, ConstantFacts
<1>1. PICK q \in Nat, c \in Nat : RequestFlow(e, q, c)
  BY <1>0 DEF FlowInv
<1>2. PICK L \in Nat : TailEnd(e, q, c, L)
  BY <1>0, <1>1, TailFacts
<1>3. PICK d \in Nat, s \in Nat, r \in Nat :
        d = Done(e) /\ s = Len(sent[e]) /\ r = Len(executed[Peer[e]])
  BY <1>0, CountFacts
<1>4. PICK k \in Nat : /\ k = Head(net[e]).number /\ k >= c /\ k < r
                       /\ Head(net[e]).psn = k % PsnMod
                       /\ Head(net[e]).psn = TailWqe(e).lastPsn <=> k = L
  BY <1>0, <1>1, <1>2, <1>3, AckFacts
<1>5. /\ rxFree' = rxFree /\ sent' = sent /\ executed' = executed /\ Consume(e)
      /\ compPsn' = [compPsn EXCEPT ![e] = PsnAdd(Head(net[e]).psn, 1)]
      /\ pc' = [pc EXCEPT ![e] = "recv"]
      /\ \/ /\ TailWqe(e).state = "pending" /\ k = L
            /\ recvPsn' = [recvPsn EXCEPT ![e] = CompletedRecvPsn(e, TailWqe(e))]
            /\ completed' = [completed EXCEPT ![e] = Append(@, TailWqe(e).msg)]
         \/ recvPsn' = recvPsn /\ completed' = completed
  BY <1>4 DEF AckAdvance, CompleteSendWqe, RetireTail, TailWqe, reqVars, AckedCompPsn
<1>6. /\ \A i \in 1 .. Len(net'[e]) :
           i + 1 \in 1 .. Len(net[e]) /\ net'[e][i] = net[e][i + 1]
      /\ \A x \in Endpoint : x # e => net'[x] = net[x]
  BY <1>0, <1>5, ConsumeFacts
<1>7. \A x \in Endpoint : x # e =>
        /\ net'[x] = net[x] /\ pc'[x] = pc[x] /\ completed'[x] = completed[x]
        /\ compPsn'[x] = compPsn[x] /\ recvPsn'[x] = recvPsn[x]
  <2>1. /\ recvPsn' = [recvPsn EXCEPT ![e] = recvPsn'[e]]
        /\ completed' = [completed EXCEPT ![e] = completed'[e]]
    BY <1>0, <1>5 DEF TypeOK
  <2> QED
    BY <1>0, <1>5, <1>6, <2>1 DEF TypeOK
<1>8. Acked(e)' = k + 1
  <2>1. PICK n \in Nat : n = k + 1
    OBVIOUS
  <2>2. compPsn'[e] = n % PsnMod
    <3>1. PsnAdd(k % PsnMod, 1) = (k + 1) % PsnMod
      BY PsnAddNumber
    <3>2. compPsn'[e] = PsnAdd(Head(net[e]).psn, 1)
      BY <1>0, <1>5 DEF TypeOK
    <3> QED
      BY <1>4, <2>1, <3>1, <3>2
  <2>3. /\ r <= s /\ s <= c + MaxUnacked + 1 /\ recvPsn[Peer[e]] = r % PsnMod
    BY <1>1, <1>3 DEF RequestFlow, AckPart, DeliveryPart
  <2>4. recvPsn'[Peer[e]] = r % PsnMod
    BY <1>0, <1>7, <2>3
  <2>5. n <= r /\ r - n < PsnMod
    BY <1>4, <2>1, <2>3, ConstantFacts
  <2>6. PsnGap(n % PsnMod, r % PsnMod) = r - n
    BY <2>5, PsnGapIs
  <2>7. Acked(e)' = r - (r - n)
    BY <1>3, <1>5, <2>2, <2>4, <2>6 DEF Acked
  <2> QED
    BY <2>1, <2>7
<1>9. /\ pc'[e] # "abort"
      /\ \/ Done(e)' = d
         \/ Done(e)' = d + 1 /\ TailWqe(e).state = "pending" /\ k = L
  <2>1. pc'[e] = "recv"
    BY <1>0, <1>5 DEF TypeOK
  <2>2. CASE completed' = completed
    BY <1>3, <2>1, <2>2 DEF Done
  <2>3. CASE /\ TailWqe(e).state = "pending" /\ k = L
             /\ completed' = [completed EXCEPT ![e] = Append(@, TailWqe(e).msg)]
    <3>1. completed[e] \in Seq(Nat) /\ TailWqe(e).msg = d + 1 /\ d + 1 \in Nat
      BY <1>0, <1>2, <1>3, CountFacts DEF TailEnd
    <3>2. Len(Append(completed[e], d + 1)) = Len(completed[e]) + 1
      BY <3>1, AppendProperties
    <3>3. completed'[e] = Append(completed[e], d + 1)
      BY <1>0, <2>3, <3>1 DEF TypeOK
    <3> QED
      BY <1>3, <2>1, <2>3, <3>2, <3>3 DEF Done
  <2> QED
    BY <1>5, <2>2, <2>3
<1>10. ASSUME NEW i \in 1 .. Len(net'[e])
       PROVE  /\ net'[e][i].number \in Nat /\ net'[e][i].number > k
              /\ \A j \in 1 .. s : sent[e][j][1] <= d => j <= net'[e][i].number
  <2>1. i + 1 \in 1 .. Len(net[e]) /\ net'[e][i] = net[e][i + 1] /\ 1 < i + 1
    BY <1>6
  <2>2. net[e][i + 1].number \in Nat
    BY <2>1, NumberFacts
  <2>3. 1 \in 1 .. Len(net[e]) /\ net[e][1].number = k
    <3>1. net[e] \in Seq(Packet)
      BY <1>0 DEF TypeOK
    <3>2. 1 \in 1 .. Len(net[e]) /\ Head(net[e]) = net[e][1]
      BY <1>0, <3>1
    <3> QED
      BY <1>4, <3>2
  <2>4. net[e][1].number < net[e][i + 1].number
    BY <1>0, <2>1, <2>3 DEF Steady, SteadyAcks
  <2>5. \A j \in 1 .. s : sent[e][j][1] <= d => j <= net[e][i + 1].number
    BY <1>0, <1>3, <2>1 DEF Steady, SteadyAcks
  <2> QED
    BY <2>1, <2>2, <2>3, <2>4, <2>5
<1>11. \A i \in 1 .. Len(net'[e]) : net'[e][i].number >= Acked(e)'
  BY <1>8, <1>10
<1>12. ASSUME NEW i \in 1 .. Len(net'[e]), NEW j \in 1 .. Len(sent[e]),
              sent[e][j][1] <= Done(e)'
       PROVE  j <= net'[e][i].number
  <2>1. CASE Done(e)' = d
    BY <1>3, <1>10, <1>12, <2>1
  <2>2. CASE Done(e)' = d + 1 /\ TailWqe(e).state = "pending" /\ k = L
    <3>1. L < s /\ sent[e][L + 1] = <<d + 1, MsgLen(e, d + 1)>>
      BY <1>2, <1>3, <2>2 DEF TailEnd
    <3>2. L + 1 \in 1 .. Len(sent[e]) /\ d + 1 \in Nat
      BY <1>3, <3>1
    <3>3. InPostedOrder(e, sent[e])
      BY <1>1 DEF RequestFlow, SentPart
    <3>4. j <= L + 1
      BY <1>0, <1>12, <2>2, <3>1, <3>2, <3>3, LastPacket
    <3>5. net'[e][i].number > L /\ net'[e][i].number \in Nat
      BY <1>10, <2>2
    <3> QED
      BY <3>4, <3>5
  <2> QED
    BY <1>9, <2>1, <2>2
<1>13. 1 \in Nat
  OBVIOUS
<1> QED
  BY <1>0, <1>5, <1>6, <1>7, <1>9, <1>11, <1>12, <1>13, SteadyAckStep

LEMMA SteadyStep ==
    ASSUME Traffic, Lossless, TransportInv, SteadyInv, TypeInv', [Next]_vars
    PROVE  SteadyInv'
<1>0. TypeInv /\ TypeOK /\ TypeOK' /\ \A x \in Endpoint : Steady(x)
  BY DEF TransportInv, TypeInv, SteadyInv
<1>1. ASSUME net' = net, sent' = sent, executed' = executed, rxFree' = rxFree,
             compPsn' = compPsn, recvPsn' = recvPsn,
             \A x \in Requester : completed'[x] = completed[x],
             \A x \in Endpoint : pc'[x] # "abort"
      PROVE  SteadyInv'
  BY <1>0, <1>1, SteadyKept DEF SteadyInv
<1>2. ASSUME NEW e \in Endpoint,
             \/ TakeWqe(e) \/ LoopDone(e) \/ HandleSend(e)
             \/ HandleRecv(e) \/ RecvDone(e) \/ Network(e)
      PROVE  SteadyInv'
  <2>1. CASE TakeWqe(e) \/ LoopDone(e) \/ LeaveSend(e) \/ SkipWqe(e) \/ RecvDone(e)
    <3>1. /\ net' = net /\ sent' = sent /\ executed' = executed /\ rxFree' = rxFree
          /\ compPsn' = compPsn /\ recvPsn' = recvPsn /\ completed' = completed
      BY <2>1 DEF TakeWqe, LoopDone, LeaveSend, SkipWqe, RecvDone, ringVars,
                  reqVars, respVars
    <3>2. \A x \in Endpoint : pc'[x] # "abort"
      BY <1>0, <2>1 DEF TakeWqe, LoopDone, LeaveSend, SkipWqe, RecvDone, Steady, TypeOK
    <3> QED
      BY <1>1, <3>1, <3>2
  <2>2. CASE CompleteDriver1(e)
    <3>1. /\ net' = net /\ sent' = sent /\ executed' = executed /\ rxFree' = rxFree
          /\ compPsn' = compPsn /\ recvPsn' = recvPsn /\ pc' = pc
          /\ \A x \in Endpoint : x # e => completed'[x] = completed[x]
      BY <1>0, <2>2 DEF CompleteDriver1, reqVars, respVars, TypeOK
    <3>2. e \notin Requester
      BY <2>2, Driver1IsPassive
    <3>3. \A x \in Requester : x \in Endpoint /\ x # e
      BY <3>2 DEF Requester
    <3> QED
      BY <1>0, <1>1, <3>1, <3>3 DEF Steady
  <2>3. CASE SendPacket(e)
    BY <2>3, SteadySend
  <2>4. CASE RecvInOrder(e)
    BY <2>4, SteadyReceive
  <2>5. CASE AckPassed(e)
    BY <1>0, <2>5, SteadyPassed
  <2>6. CASE AckNothing(e)
    BY <1>0, <2>6, SteadyNothing
  <2>7. CASE AckAdvance(e)
    BY <1>0, <2>7, SteadyAdvance
  <2> QED
    BY <1>2, <2>1, <2>2, <2>3, <2>4, <2>5, <2>6, <2>7, SteadyRefuses
       DEF HandleSend, HandleRecv
<1>3. CASE UNCHANGED vars
  <2>1. /\ net' = net /\ sent' = sent /\ executed' = executed /\ rxFree' = rxFree
        /\ compPsn' = compPsn /\ recvPsn' = recvPsn /\ completed' = completed /\ pc' = pc
    BY <1>3 DEF vars, ringVars, reqVars, respVars
  <2> QED
    BY <1>0, <1>1, <2>1 DEF Steady
<1> QED
  BY <1>2, <1>3 DEF Next

\* The whole invariant of the transport without faults.
LEMMA SteadyInvariance ==
    ASSUME Traffic, Lossless
    PROVE  Spec => [](TransportInv /\ SteadyInv)
<1>1. Init => TransportInv /\ SteadyInv
  BY InitType, DataInit, SteadyInit DEF TransportInv
<1>2. TransportInv /\ SteadyInv /\ TypeInv' /\ [Next]_vars
        => TransportInv' /\ SteadyInv'
  BY SteadyRecent, TransportStep, SteadyStep
<1> QED
  BY <1>1, <1>2, TypeInvariance, PTL DEF Spec

\* Without faults no packet ever lives long enough to be mistaken for another.
THEOREM PacketsAreRecent ==
    ASSUME Traffic, Lossless
    PROVE  Spec => []Recent
<1>1. TransportInv /\ SteadyInv => Recent
  BY SteadyRecent
<1> QED
  BY <1>1, SteadyInvariance, PTL

\* Without faults no assertion of the completer fails (the assert(false) of a NAK
\* and of an acknowledgement past a message not sent, rxe_handle_recv).
THEOREM NeverAborts ==
    ASSUME Traffic, Lossless
    PROVE  Spec => []NoAbort
<1>1. SteadyInv => NoAbort
  BY DEF SteadyInv, Steady, NoAbort
<1> QED
  BY <1>1, SteadyInvariance, PTL

\* Without faults every receive buffer is posted again once its packet is handled.
THEOREM BuffersKept ==
    ASSUME Traffic, Lossless
    PROVE  Spec => []RxBuffersKept
<1>1. SteadyInv => RxBuffersKept
  BY DEF SteadyInv, Steady, RxBuffersKept
<1> QED
  BY <1>1, SteadyInvariance, PTL

\* Without faults the transport keeps its promises, whatever the traffic.
THEOREM LosslessTransport ==
    ASSUME Traffic, Lossless
    PROVE  Spec => /\ []InOrderDelivery
                   /\ []CompletionSound
                   /\ []CompletionOrder
                   /\ []SequenceOrder
                   /\ []RecvCqePerSend
BY PacketsAreRecent, DeliveredInOrder, CompletedIsDelivered, CompletedInOrder,
   SequenceOrderKept, OneRecvCqePerSend, PTL
=============================================================================
