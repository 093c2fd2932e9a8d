------------------------------ MODULE RingArith ------------------------------
(***************************************************************************)
(* Arithmetic of rings: how a free-running counter p walks over the slots  *)
(* p % N and the turns p \div N of a ring of N slots (step_wq and the      *)
(* wrap-around of smartns_post_send).                                      *)
(***************************************************************************)
EXTENDS Integers, Sequences, SequenceTheorems, WellFoundedInduction, TLAPS

\* A set of numbers that is not empty has a least one.
LEMMA LeastNumber ==
    ASSUME NEW S, S \subseteq Nat, S # {}
    PROVE  \E a \in S : \A b \in S : a <= b
<1> DEFINE R == {ss \in Nat \X Nat : ss[1] < ss[2]}
<1>1. IsWellFoundedOn(R, Nat)
  BY NatLessThanWellFounded DEF OpToRel
<1> HIDE DEF R
<1>2. PICK a \in S : \A b \in S : <<b, a>> \notin R
  BY <1>1, WFMin
<1>3. \A b \in S : ~(b < a)
  BY <1>2 DEF R
<1> QED
  BY <1>3

\* Only zero is a multiple of N between -N and N.
LEMMA SmallMultiple ==
    ASSUME NEW N \in Nat, N > 0, NEW k \in Int, -N < N * k, N * k < N
    PROVE  k = 0
<1>1. CASE k >= 1
  <2>1. N * k >= N * 1
    BY <1>1
  <2> QED
    BY <2>1
<1>2. CASE k <= -1
  <2>1. N * k <= N * (-1)
    BY <1>2
  <2> QED
    BY <2>1
<1> QED
  BY <1>1, <1>2

\* Slot and turn of a counter determine it.
LEMMA SlotAndTurn ==
    ASSUME NEW N \in Nat, N > 0, NEW p \in Int
    PROVE  /\ p % N \in 0 .. N - 1
           /\ p \div N \in Int
           /\ p = N * (p \div N) + (p % N)
OBVIOUS

\* There is one way to write a counter as turn and slot.
LEMMA SlotAndTurnUnique ==
    ASSUME NEW N \in Nat, N > 0, NEW p \in Int,
           NEW q \in Int, NEW r \in 0 .. N - 1, p = N * q + r
    PROVE  p % N = r /\ p \div N = q
<1>1. N * (q - p \div N) = (p % N) - r
  BY SlotAndTurn
<1>2. p \div N \in Int /\ q - p \div N \in Int
  BY SlotAndTurn
<1>3. q - p \div N = 0
  BY <1>1, <1>2, SlotAndTurn, SmallMultiple
<1> QED
  BY <1>3, SlotAndTurn

\* The next counter is in the next slot of the same turn, or in the first slot
\* of the next turn.
LEMMA SlotStep ==
    ASSUME NEW N \in Nat, N > 0, NEW p \in Nat
    PROVE  /\ (p % N) + 1 # N => /\ (p + 1) % N = (p % N) + 1
                                 /\ (p + 1) \div N = p \div N
           /\ (p % N) + 1 = N => /\ (p + 1) % N = 0
                                 /\ (p + 1) \div N = (p \div N) + 1
<1> DEFINE q == p \div N
           r == p % N
<1>1. /\ q \in Int
      /\ r \in 0 .. N - 1
      /\ p = N * q + r
  BY SlotAndTurn
<1>2. CASE r + 1 # N
  <2>1. r + 1 \in 0 .. N - 1 /\ p + 1 = N * q + (r + 1)
    BY <1>1, <1>2
  <2>2. (p + 1) % N = r + 1 /\ (p + 1) \div N = q
    <3> HIDE DEF q, r
    <3> QED
      BY <1>1, <2>1, SlotAndTurnUnique
  <2> QED
    BY <1>2, <2>2
<1>3. CASE r + 1 = N
  <2>1. q + 1 \in Int /\ 0 \in 0 .. N - 1 /\ p + 1 = N * (q + 1) + 0
    BY <1>1, <1>3
  <2>2. (p + 1) % N = 0 /\ (p + 1) \div N = q + 1
    <3> HIDE DEF q, r
    <3> QED
      BY <1>1, <2>1, SlotAndTurnUnique
  <2> QED
    BY <1>3, <2>2
<1> QED
  BY <1>2, <1>3

\* A turn earlier the counter was in the same slot.
LEMMA SlotTurnEarlier ==
    ASSUME NEW N \in Nat, N > 0, NEW p \in Int
    PROVE  (p - N) % N = p % N /\ (p - N) \div N = (p \div N) - 1
<1> DEFINE q == p \div N
           r == p % N
<1>1. /\ q - 1 \in Int
      /\ r \in 0 .. N - 1
      /\ p - N = N * (q - 1) + r
  BY SlotAndTurn
<1>2. (p - N) % N = r /\ (p - N) \div N = q - 1
  <2>1. p - N \in Int
    OBVIOUS
  <2> HIDE DEF q, r
  <2> QED
    BY <1>1, <2>1, SlotAndTurnUnique
<1> QED
  BY <1>2

\* Counters less than a turn apart are in different slots.
LEMMA SlotDistinct ==
    ASSUME NEW N \in Nat, N > 0, NEW p \in Nat, NEW q \in Nat,
           p < q, q < p + N
    PROVE  p % N # q % N
<1> SUFFICES ASSUME p % N = q % N
             PROVE  FALSE
  OBVIOUS
<1>1. /\ (q \div N) - (p \div N) \in Int
      /\ q - p = N * ((q \div N) - (p \div N))
  BY SlotAndTurn
<1>2. (q \div N) - (p \div N) = 0
  BY <1>1, SmallMultiple
<1> QED
  BY <1>1, <1>2

\* The first turn.
LEMMA SlotFirstTurn ==
    ASSUME NEW N \in Nat, N > 0, NEW p \in 0 .. N - 1
    PROVE  p % N = p /\ p \div N = 0
<1>1. p \in Int /\ 0 \in Int /\ p = N * 0 + p
  OBVIOUS
<1> QED
  BY <1>1, SlotAndTurnUnique

\* The parity of a turn is a bit, and the next turn has the other one.
LEMMA Parity ==
    ASSUME NEW k \in Int
    PROVE  k % 2 \in {0, 1} /\ (k + 1) % 2 = 1 - (k % 2)
OBVIOUS

\* A block of b slots that starts at a multiple of b does not run over the end
\* of a ring whose size is a multiple of b.
LEMMA BlockInRing ==
    ASSUME NEW N \in Nat, N > 0, NEW b \in Nat, b > 0, N % b = 0,
           NEW p \in Nat, p % b = 0
    PROVE  (p % N) + b <= N
<1> DEFINE m == N \div b
           j == p \div b
           q == p \div N
<1>1. m \in Int /\ N = b * m
  BY SlotAndTurn
<1>2. j \in Int /\ p = b * j
  BY SlotAndTurn
<1>3. q \in Int /\ p % N \in 0 .. N - 1 /\ p % N = p - N * q
  BY SlotAndTurn
<1>4. p % N = b * (j - m * q)
  <2> HIDE DEF m, j, q
  <2>1. N * q = b * (m * q)
    BY <1>1, <1>3
  <2> QED
    BY <1>1, <1>2, <1>3, <2>1
<1>5. j - m * q < m
  <2> HIDE DEF m, j, q
  <2> DEFINE d == j - m * q
  <2>1. d \in Int /\ b * d < b * m
    BY <1>1, <1>2, <1>3, <1>4
  <2>2. ASSUME d >= m
        PROVE  FALSE
    <3>1. b * d >= b * m
      BY <1>1, <2>1, <2>2
    <3> QED
      BY <1>1, <2>1, <3>1
  <2> QED
    BY <1>1, <2>1, <2>2
<1>6. b * (j - m * q + 1) <= b * m
  <2> HIDE DEF m, j, q
  <2> QED
    BY <1>1, <1>2, <1>3, <1>5
<1>7. b * (j - m * q + 1) = b * (j - m * q) + b
  <2> HIDE DEF m, j, q
  <2> QED
    BY <1>1, <1>2, <1>3
<1> QED
  BY <1>1, <1>3, <1>4, <1>6, <1>7

-----------------------------------------------------------------------------
(* The bit that flips with every turn *)

\* The parity of the turn counter p is in, 1 for the first turn.
TurnBit(p, n) == 1 - ((p \div n) % 2)

\* The bit and the slot of the next counter and of the one a turn earlier.
LEMMA TurnBitFacts ==
    ASSUME NEW N \in Nat, N > 0, NEW p \in Nat
    PROVE  /\ TurnBit(p, N) \in {0, 1}
           /\ TurnBit(p + 1, N) = IF (p % N) + 1 = N THEN 1 - TurnBit(p, N)
                                                    ELSE TurnBit(p, N)
           /\ (p + 1) % N = IF (p % N) + 1 = N THEN 0 ELSE (p % N) + 1
           /\ p % N \in 0 .. N - 1
           /\ p < N => TurnBit(p, N) = 1 /\ p % N = p
           /\ p >= N => /\ TurnBit(p - N, N) = 1 - TurnBit(p, N)
                        /\ (p - N) % N = p % N
<1>1. p % N \in 0 .. N - 1 /\ p \div N \in Int
  BY SlotAndTurn
<1>2. (p \div N) % 2 \in {0, 1}
  BY <1>1, Parity
<1>3. TurnBit(p, N) \in {0, 1}
  BY <1>2 DEF TurnBit
<1>4. (p + 1) % N = IF (p % N) + 1 = N THEN 0 ELSE (p % N) + 1
  BY SlotStep
<1>5. TurnBit(p + 1, N) = IF (p % N) + 1 = N THEN 1 - TurnBit(p, N)
                                             ELSE TurnBit(p, N)
  <2>1. CASE (p % N) + 1 = N
    <3>1. (p + 1) \div N = (p \div N) + 1
      BY <2>1, SlotStep
    <3>2. ((p \div N) + 1) % 2 = 1 - ((p \div N) % 2)
      BY <1>1, Parity
    <3> QED
      BY <1>2, <2>1, <3>1, <3>2 DEF TurnBit
  <2>2. CASE (p % N) + 1 # N
    <3>1. (p + 1) \div N = p \div N
      BY <2>2, SlotStep
    <3> QED
      BY <2>2, <3>1 DEF TurnBit
  <2> QED
    BY <2>1, <2>2
<1>6. ASSUME p < N
      PROVE  TurnBit(p, N) = 1 /\ p % N = p
  <2>1. p % N = p /\ p \div N = 0
    BY <1>6, SlotFirstTurn
  <2> QED
    BY <2>1 DEF TurnBit
<1>7. ASSUME p >= N
      PROVE  TurnBit(p - N, N) = 1 - TurnBit(p, N) /\ (p - N) % N = p % N
  <2>1. (p - N) % N = p % N /\ (p - N) \div N = (p \div N) - 1
    BY SlotTurnEarlier
  <2>2. (p \div N) - 1 \in Int /\ ((p \div N) - 1) + 1 = p \div N
    BY <1>1
  <2>3. (p \div N) % 2 = 1 - (((p \div N) - 1) % 2)
    BY <2>2, Parity
  <2>4. ((p \div N) - 1) % 2 \in {0, 1}
    BY <2>2, Parity
  <2> QED
    BY <2>1, <2>3, <2>4 DEF TurnBit
<1> QED
  BY <1>1, <1>3, <1>4, <1>5, <1>6, <1>7

-----------------------------------------------------------------------------
(* Counters of fixed width *)

\* A counter kept modulo a multiple of the ring's size is in the same slot.
LEMMA SlotOfWrapped ==
    ASSUME NEW N \in Nat, N > 0, NEW W \in Nat, W > 0, W % N = 0, NEW p \in Nat
    PROVE  (p % W) % N = p % N
<1> DEFINE m == W \div N
           q == p \div W
           r == p % W
           t == r \div N
           s == r % N
<1>1. m \in Int /\ W = N * m
  BY SlotAndTurn
<1>2. q \in Int /\ r \in 0 .. W - 1 /\ p = W * q + r
  BY SlotAndTurn
<1>3. t \in Int /\ s \in 0 .. N - 1 /\ r = N * t + s
  BY <1>2, SlotAndTurn
<1>4. p % N = s
  <2> HIDE DEF m, q, r, t, s
  <2>1. m * q + t \in Int
    BY <1>1, <1>2, <1>3
  <2>2. W * q = N * (m * q)
    BY <1>1, <1>2
  <2>3. N * (m * q + t) = N * (m * q) + N * t
    BY <1>1, <1>2, <1>3
  <2>4. p = N * (m * q + t) + s
    BY <1>2, <1>3, <2>2, <2>3
  <2> QED
    BY <1>3, <2>1, <2>4, SlotAndTurnUnique, SMTT(20)
<1> QED
  BY <1>4

\* Incrementing a counter kept modulo W.
LEMMA WrappedStep ==
    ASSUME NEW W \in Nat, W > 0, NEW p \in Nat
    PROVE  ((p % W) + 1) % W = (p + 1) % W
<1>1. p % W \in 0 .. W - 1
  BY SlotAndTurn
<1>2. CASE (p % W) + 1 = W
  <2>1. (p + 1) % W = 0
    BY <1>2, SlotStep
  <2>2. W % W = 0
    <3>1. W \in Int /\ 1 \in Int /\ 0 \in 0 .. W - 1 /\ W = W * 1 + 0
      OBVIOUS
    <3> QED
      BY <3>1, SlotAndTurnUnique
  <2> QED
    BY <1>2, <2>1, <2>2
<1>3. CASE (p % W) + 1 # W
  <2>1. (p + 1) % W = (p % W) + 1
    BY <1>3, SlotStep
  <2>2. (p % W) + 1 \in 0 .. W - 1
    BY <1>1, <1>3
  <2> QED
    BY <2>1, <2>2, SlotFirstTurn
<1> QED
  BY <1>2, <1>3

\* The difference of two counters kept modulo W is right as long as they are
\* less than W apart.
LEMMA WrappedDifference ==
    ASSUME NEW W \in Nat, W > 0, NEW p \in Nat, NEW t \in Nat, t <= p, p - t < W
    PROVE  ((p % W) - (t % W)) % W = p - t
<1> DEFINE k == (t \div W) - (p \div W)
<1>1. /\ p \div W \in Int /\ t \div W \in Int
      /\ p = W * (p \div W) + (p % W)
      /\ t = W * (t \div W) + (t % W)
      /\ p % W \in 0 .. W - 1 /\ t % W \in 0 .. W - 1
  BY SlotAndTurn
<1>2. k \in Int /\ W * k = W * (t \div W) - W * (p \div W)
  BY <1>1
<1>3. (p % W) - (t % W) = W * k + (p - t)
  BY <1>1, <1>2
<1>4. p - t \in 0 .. W - 1 /\ (p % W) - (t % W) \in Int
  BY <1>1
<1> HIDE DEF k
<1> QED
  BY <1>2, <1>3, <1>4, SlotAndTurnUnique

\* Of two counters less than W apart, kept modulo W, the later one is the
\* greater, or has wrapped around.
LEMMA WrappedOrder ==
    ASSUME NEW W \in Nat, W > 0, NEW p \in Nat, NEW t \in Nat, t <= p, p - t < W
    PROVE  \/ p % W = (t % W) + (p - t)
           \/ p % W = (t % W) + (p - t) - W
<1> DEFINE k == (p \div W) - (t \div W)
<1>1. /\ p \div W \in Int /\ t \div W \in Int
      /\ p = W * (p \div W) + (p % W)
      /\ t = W * (t \div W) + (t % W)
      /\ p % W \in 0 .. W - 1 /\ t % W \in 0 .. W - 1
  BY SlotAndTurn
<1>2. k \in Int /\ W * k = W * (p \div W) - W * (t \div W)
  BY <1>1
<1>3. W * k = (p - t) + (t % W) - (p % W)
  BY <1>1, <1>2
<1>4. p % W \in Int /\ t % W \in Int
  BY <1>1
<1>5. -W < W * k /\ W * k < W + W
  BY <1>1, <1>3
<1> HIDE DEF k
<1>6. k = 0 \/ k = 1
  <2>1. CASE W * k < W
    BY <1>2, <1>5, <2>1, SmallMultiple
  <2>2. CASE ~(W * k < W)
    <3>1. k - 1 \in Int /\ W * (k - 1) = W * k - W
      BY <1>2
    <3>2. -W < W * (k - 1) /\ W * (k - 1) < W
      BY <1>2, <1>5, <2>2, <3>1
    <3>3. k - 1 = 0
      BY <3>1, <3>2, SmallMultiple
    <3> QED
      BY <1>2, <3>3
  <2> QED
    BY <2>1, <2>2
<1>7. CASE k = 0
  <2>1. W * k = 0
    BY <1>7
  <2> QED
    BY <1>3, <1>4, <2>1
<1>8. CASE k = 1
  <2>1. W * k = W
    BY <1>8
  <2> QED
    BY <1>3, <1>4, <2>1
<1> QED
  BY <1>6, <1>7, <1>8

-----------------------------------------------------------------------------
(* What is between two cursors *)

\* The numbers c, ..., w - 1 in order: what is between two cursors of a ring, as
\* WorkQueue sees it.
Requests(c, w) == [i \in 1 .. w - c |-> c + i - 1]

\* Moving the upper cursor appends a number, moving the lower one removes the
\* first.
LEMMA RequestsFacts ==
    ASSUME NEW c \in Nat, NEW w \in Nat, c <= w
    PROVE  /\ Len(Requests(c, w)) = w - c
           /\ Requests(c, w + 1) = Append(Requests(c, w), w)
           /\ c < w => /\ Requests(c, w) # <<>>
                       /\ Head(Requests(c, w)) = c
                       /\ Requests(c + 1, w) = Tail(Requests(c, w))
<1>1. ASSUME NEW d \in Nat, NEW v \in Nat, d <= v
      PROVE  /\ Requests(d, v) \in Seq(Nat)
             /\ Len(Requests(d, v)) = v - d
             /\ \A i \in 1 .. v - d : Requests(d, v)[i] = d + i - 1
  <2>1. v - d \in Nat /\ \A i \in 1 .. v - d : d + i - 1 \in Nat
    BY <1>1
  <2>2. Requests(d, v) \in [1 .. v - d -> Nat]
    BY <2>1 DEF Requests
  <2>3. Requests(d, v) \in Seq(Nat)
    BY <2>1, <2>2
  <2>4. DOMAIN Requests(d, v) = 1 .. v - d
    BY <2>2
  <2>5. Len(Requests(d, v)) = v - d
    BY <2>1, <2>3, <2>4
  <2> QED
    BY <2>3, <2>5 DEF Requests
<1>2. Requests(c, w + 1) = Append(Requests(c, w), w)
  <2> DEFINE s == Requests(c, w)
             t == Requests(c, w + 1)
  <2>1. /\ s \in Seq(Nat) /\ Len(s) = w - c
        /\ \A i \in 1 .. w - c : s[i] = c + i - 1
    BY <1>1
  <2>2. /\ t \in Seq(Nat) /\ Len(t) = w - c + 1
        /\ \A i \in 1 .. w - c + 1 : t[i] = c + i - 1
    BY <1>1
  <2>3. /\ Append(s, w) \in Seq(Nat)
        /\ Len(Append(s, w)) = w - c + 1
        /\ \A i \in 1 .. w - c : Append(s, w)[i] = s[i]
        /\ Append(s, w)[w - c + 1] = w
    <3> HIDE DEF s
    <3> QED
      BY <2>1, AppendProperties
  <2>4. \A i \in 1 .. w - c + 1 : t[i] = Append(s, w)[i]
    <3> HIDE DEF s, t
    <3> QED
      BY <2>1, <2>2, <2>3
  <2> HIDE DEF s, t
  <2>5. t = Append(s, w)
    BY <2>2, <2>3, <2>4, SeqEqual
  <2> QED
    BY <2>5 DEF s, t
<1>3. ASSUME c < w
      PROVE  /\ Requests(c, w) # <<>>
             /\ Head(Requests(c, w)) = c
             /\ Requests(c + 1, w) = Tail(Requests(c, w))
  <2> DEFINE s == Requests(c, w)
             t == Requests(c + 1, w)
  <2>1. /\ s \in Seq(Nat) /\ Len(s) = w - c
        /\ \A i \in 1 .. w - c : s[i] = c + i - 1
    BY <1>1
  <2>2. /\ t \in Seq(Nat) /\ Len(t) = w - (c + 1)
        /\ \A i \in 1 .. w - (c + 1) : t[i] = (c + 1) + i - 1
    <3>1. c + 1 \in Nat /\ c + 1 <= w
      BY <1>3
    <3> QED
      BY <1>1, <3>1
  <2> HIDE DEF s, t
  <2>3. s # <<>> /\ Head(s) = c
    BY <1>3, <2>1
  <2>4. /\ Tail(s) \in Seq(Nat)
        /\ Len(Tail(s)) = Len(s) - 1
        /\ \A i \in 1 .. Len(Tail(s)) : Tail(s)[i] = s[i + 1]
    BY <2>1, <2>3, HeadTailProperties
  <2>5. Len(t) = Len(Tail(s)) /\ \A i \in 1 .. Len(t) : t[i] = Tail(s)[i]
    <3>1. Len(t) = Len(Tail(s))
      BY <2>1, <2>2, <2>4
    <3>2. ASSUME NEW i \in 1 .. Len(t)
          PROVE  t[i] = Tail(s)[i]
      <4>1. i + 1 \in 1 .. w - c /\ i \in 1 .. Len(Tail(s))
        BY <2>1, <2>2, <3>1
      <4> QED
        BY <2>1, <2>2, <2>4, <4>1
    <3> QED
      BY <3>1, <3>2
  <2>6. t = Tail(s)
    BY <2>2, <2>4, <2>5, SeqEqual
  <2> QED
    BY <2>3, <2>6 DEF s, t
<1> QED
  BY <1>1, <1>2, <1>3
=============================================================================
