------------------------- MODULE KernelIoctl_proofs -------------------------
(***************************************************************************)
(* The channel of KernelIoctl is safe for every number of threads, files    *)
(* and slots: at most one request is on the way, an ioctl that succeeds     *)
(* returns the answer to its own request, and after a failed one nothing is *)
(* posted.                                                                  *)
(***************************************************************************)
EXTENDS KernelIoctl, RingArith

\* The threads that use the queue pair.
Using(t) == pc[t] \in {"post", "wait"}

\* Nothing is on the way.
Quiet == sendq = <<>> /\ requests = <<>> /\ replies = <<>> /\ recvCq = <<>>

\* All that is on the way carries the number n.
OnTheWay(n) ==
    /\ \A i \in 1 .. Len(sendq) : sendBuf[sendq[i]].number = n
    /\ \A i \in 1 .. Len(requests) : requests[i].number = n
    /\ \A i \in 1 .. Len(replies) : replies[i].number = n
    /\ \A i \in 1 .. Len(recvCq) : recvBuf[recvCq[i].slot] = n

\* Who uses the queue pair holds the mutex, and nobody uses it after a failure,
\* which leaves the mutex locked.
MutexHeld ==
    /\ \A t \in Threads : Using(t) => holder = t
    /\ failed => holder # NoThread /\ \A t \in Threads : ~Using(t)

\* The channel is empty when the mutex is free and until its owner posts.
EmptyChannel ==
    /\ holder = NoThread => Quiet
    /\ \A t \in Threads : pc[t] = "post" => Quiet

\* What is on the way is the request of the call that waits.
OwnRequest ==
    \A t \in Threads :
      pc[t] = "wait" /\ result[t] = "none" => OnTheWay(call[t].number)

\* A call that waits has not returned 0 yet.
NotFinished == \A t \in Threads : pc[t] = "wait" => result[t] # "ok"

\* Only a close by an owner frees the queue pair.
FreedByOwner == qp = "freed" => \E f \in Files : file[f] = "released"

IoctlInv ==
    /\ TypeOK
    /\ MutexHeld
    /\ EmptyChannel
    /\ OwnRequest
    /\ NotFinished
    /\ OneOutstanding
    /\ ReplyMatches
    /\ FreedByOwner
    /\ UnharmedByChild

-----------------------------------------------------------------------------
(* Types *)

LEMMA InitType == Init => TypeOK
<1> SUFFICES ASSUME Init
             PROVE  TypeOK
  OBVIOUS
<1>1. Zeros \in Params
  BY KernelIoctlAssumption DEF Zeros, Params
<1>2. /\ sendBuf \in [TxSlot -> Params]
      /\ recvBuf \in [RxSlot -> Nat]
      /\ recvCur \in Nat
  BY <1>1, KernelIoctlAssumption DEF Init
<1>3. posted \in Seq(RxSlot)
  <2>1. \A i \in 1 .. RxDepth : i - 1 \in RxSlot
    BY KernelIoctlAssumption DEF RxSlot
  <2>2. posted = [i \in 1 .. RxDepth |-> i - 1] /\ RxDepth \in Nat
    BY KernelIoctlAssumption DEF Init
  <2> QED
    BY <2>1, <2>2, IsASeq
<1>4. /\ sendq \in Seq(TxSlot) /\ requests \in Seq(Params)
      /\ replies \in Seq(Params) /\ recvCq \in Seq(RecvWc)
  BY EmptySeq DEF Init
<1>5. /\ call \in [Threads -> Params] /\ user \in [Threads -> Nat]
      /\ result \in [Threads -> {"none", "ok", "EFAULT", "EACCES"}]
      /\ pc \in [Threads -> {"idle", "lock", "post", "wait"}]
  BY <1>1 DEF Init
<1>6. /\ file \in [Files -> {"closed", "open", "released", "stuck"}]
      /\ tgid \in [Files -> Processes \cup {NoProcess}]
  BY DEF Init
<1> QED
  BY <1>2, <1>3, <1>4, <1>5, <1>6 DEF Init, TypeOK

\* The next send slot and what is written there.
LEMMA SendFacts ==
    ASSUME TypeOK, NEW t \in Threads, NEW copied \in BOOLEAN
    PROVE  /\ SendSlot \in TxSlot
           /\ Copied(t, copied) \in Params
           /\ copied => Copied(t, copied).number = call[t].number
<1>1. SendSlot \in TxSlot
  BY KernelIoctlAssumption DEF TypeOK, SendSlot, TxSlot
<1>2. call[t] \in Params
  BY DEF TypeOK
<1> QED
  BY <1>1, <1>2 DEF Copied, Params

LEMMA TypeStep ==
    TypeOK /\ [Next]_vars => TypeOK'
<1> SUFFICES ASSUME TypeOK, [Next]_vars
             PROVE  TypeOK'
  OBVIOUS
<1> USE DEF TypeOK
<1>1. ASSUME NEW t \in Threads, Open(t)
      PROVE  TypeOK'
  BY <1>1, KernelIoctlAssumption
  DEF Open, callers, sending, receiving
<1>2. ASSUME NEW t \in Threads, OpenFails(t)
      PROVE  TypeOK'
  BY <1>2 DEF OpenFails, callers, sending, receiving
<1>3. ASSUME NEW f \in Files, NEW p \in Processes, Release(f, p)
      PROVE  TypeOK'
  <2>1. /\ kernel' \in {"running", "crashed"}
        /\ qp' \in {"connected", "freed"}
        /\ sendq' \in Seq(TxSlot)
        /\ posted' \in Seq(RxSlot)
        /\ recvCq' \in Seq(RecvWc)
    BY <1>3, EmptySeq DEF Release
  <2>2. /\ file' \in [Files -> {"closed", "open", "released", "stuck"}]
        /\ ioHeld' \in BOOLEAN
    BY <1>3 DEF Release
  <2> QED
    BY <1>3, <2>1, <2>2 DEF Release, callers, sending
<1>4. ASSUME NEW t \in Threads, NEW size \in Sizes, Enter(t, size)
      PROVE  TypeOK'
  <2>1. [number |-> calls + 1, size |-> size] \in Params
    BY DEF Params
  <2>2. /\ call' \in [Threads -> Params]
        /\ user' \in [Threads -> Nat]
        /\ calls' \in Nat
    BY <1>4, <2>1 DEF Enter
  <2>3. /\ pc' \in [Threads -> {"idle", "lock", "post", "wait"}]
        /\ result' \in [Threads -> {"none", "ok", "EFAULT", "EACCES"}]
    BY <1>4 DEF Enter
  <2> QED
    BY <1>4, <2>2, <2>3 DEF Enter, files, sending, receiving
<1>5. ASSUME NEW t \in Threads, Lock(t)
      PROVE  TypeOK'
  BY <1>5 DEF Lock, files, callers, sending, receiving
<1>6. ASSUME NEW t \in Threads, NEW copied \in BOOLEAN, PostSend(t, copied)
      PROVE  TypeOK'
  <2>1. /\ sendBuf' \in [TxSlot -> Params]
        /\ sendq' \in Seq(TxSlot)
        /\ sendCur' \in Nat
    BY <1>6, SendFacts, AppendProperties DEF PostSend
  <2>2. /\ pc' \in [Threads -> {"idle", "lock", "post", "wait"}]
        /\ result' \in [Threads -> {"none", "ok", "EFAULT", "EACCES"}]
    BY <1>6 DEF PostSend
  <2> QED
    BY <1>6, <2>1, <2>2 DEF PostSend, files, receiving
<1>7. ASSUME NEW t \in Threads, GiveUp(t)
      PROVE  /\ pc' \in [Threads -> {"idle", "lock", "post", "wait"}]
             /\ result' \in [Threads -> {"none", "ok", "EFAULT", "EACCES"}]
             /\ holder' \in Threads \cup {NoThread}
             /\ failed' \in BOOLEAN
  BY <1>7 DEF GiveUp, AfterError
<1>8. ASSUME NEW t \in Threads, NEW copied \in BOOLEAN, NEW onQueue \in BOOLEAN,
             PostFails(t, copied, onQueue)
      PROVE  TypeOK'
  <2>1. sendBuf' \in [TxSlot -> Params]
    BY <1>8, SendFacts DEF PostFails
  <2>2. sendq' \in Seq(TxSlot)
    BY <1>8, SendFacts, AppendProperties DEF PostFails
  <2>3. GiveUp(t)
    BY <1>8 DEF PostFails
  <2> QED
    BY <1>7, <1>8, <2>1, <2>2, <2>3 DEF PostFails, files, receiving
<1>9. ASSUME NEW t \in Threads, Timeout(t)
      PROVE  TypeOK'
  <2>1. GiveUp(t)
    BY <1>9 DEF Timeout
  <2> QED
    BY <1>7, <1>9, <2>1 DEF Timeout, files, sending, receiving
<1>10. ASSUME recvCq # <<>>
       PROVE  Head(recvCq).slot \in RxSlot /\ recvBuf[Head(recvCq).slot] \in Nat
  <2>1. Head(recvCq) \in RecvWc
    BY <1>10, HeadTailProperties
  <2> QED
    BY <2>1 DEF RecvWc
<1>11. ASSUME NEW t \in Threads, TakeReply(t)
       PROVE  TypeOK'
  <2>1. user' \in [Threads -> Nat]
    BY <1>10, <1>11 DEF TakeReply
  <2>2. /\ recvCur % RxDepth \in RxSlot
        /\ posted' \in Seq(RxSlot)
    <3>1. recvCur % RxDepth \in RxSlot
      BY KernelIoctlAssumption DEF RxSlot
    <3> QED
      BY <1>11, <3>1, AppendProperties DEF TakeReply
  <2>3. recvCq' \in Seq(RecvWc) /\ recvCur' \in Nat
    BY <1>11, EmptySeq DEF TakeReply, RecvCurAfter
  <2>4. /\ result' \in [Threads -> {"none", "ok", "EFAULT", "EACCES"}]
        /\ pc' \in [Threads -> {"idle", "lock", "post", "wait"}]
        /\ holder' \in Threads \cup {NoThread}
    BY <1>11 DEF TakeReply, AfterReply
  <2> QED
    BY <1>11, <2>1, <2>2, <2>3, <2>4 DEF TakeReply, files, sending
<1>12. ASSUME NEW t \in Threads, NEW copied \in BOOLEAN, TakeFails(t, copied)
       PROVE  TypeOK'
  <2>1. user' \in [Threads -> Nat]
    BY <1>10, <1>12 DEF TakeFails
  <2>2. recvCq' \in Seq(RecvWc)
    BY <1>12, EmptySeq DEF TakeFails
  <2>3. GiveUp(t)
    BY <1>12 DEF TakeFails
  <2> QED
    BY <1>7, <1>12, <2>1, <2>2, <2>3 DEF TakeFails, files, sending, receiving
<1>13. ASSUME NEW t \in Threads, UseFreed(t)
       PROVE  TypeOK'
  BY <1>13 DEF UseFreed, files, callers, sending, receiving
<1>14. ASSUME Transmit
       PROVE  TypeOK'
  <2>1. Head(sendq) \in TxSlot /\ sendq' \in Seq(TxSlot)
    BY <1>14, HeadTailProperties DEF Transmit
  <2>2. requests' \in Seq(Params)
    BY <1>14, <2>1, AppendProperties DEF Transmit
  <2> QED
    BY <1>14, <2>1, <2>2 DEF Transmit, files, callers, sending, receiving
<1>15. ASSUME DpuHandle
       PROVE  TypeOK'
  <2>1. Head(requests) \in Params /\ requests' \in Seq(Params)
    BY <1>15, HeadTailProperties DEF DpuHandle
  <2>2. replies' \in Seq(Params)
    BY <1>15, <2>1, AppendProperties DEF DpuHandle
  <2> QED
    BY <1>15, <2>1, <2>2 DEF DpuHandle, files, callers, sending, receiving
<1>16. ASSUME Arrive
       PROVE  TypeOK'
  <2>1. Head(replies) \in Params /\ replies' \in Seq(Params)
    BY <1>16, HeadTailProperties DEF Arrive
  <2>2. Head(posted) \in RxSlot /\ posted' \in Seq(RxSlot)
    BY <1>16, HeadTailProperties DEF Arrive
  <2>3. recvBuf' \in [RxSlot -> Nat]
    BY <1>16, <2>1, <2>2 DEF Arrive, Params
  <2>4. [slot |-> Head(posted), byte_len |-> Head(replies).size] \in RecvWc
    BY <2>1, <2>2 DEF Params, RecvWc
  <2>5. recvCq' \in Seq(RecvWc)
    BY <1>16, <2>4, AppendProperties DEF Arrive
  <2> QED
    BY <1>16, <2>1, <2>2, <2>3, <2>5 DEF Arrive, files, callers, sending
<1>17. CASE UNCHANGED vars
  BY <1>17 DEF vars, files, callers, sending, receiving
<1> QED
  BY <1>1, <1>2, <1>3, <1>4, <1>5, <1>6, <1>8, <1>9, <1>11, <1>12, <1>13, <1>14,
     <1>15, <1>16, <1>17 DEF Next, Ioctl
-----------------------------------------------------------------------------
(* The mutex *)

\* An action that fails leaves the mutex to a thread that has gone, and no
\* other thread uses the queue pair.
LEMMA GiveUpFacts ==
    ASSUME IoctlInv, NEW t \in Threads, Using(t), GiveUp(t)
    PROVE  /\ holder' = t /\ holder' # NoThread
           /\ \A u \in Threads : ~Using(u)'
           /\ \A u \in Threads : pc'[u] \notin {"post", "wait"}
           /\ \A u \in Threads : result'[u] = "ok" => u # t /\ result[u] = "ok"
<1>1. holder = t /\ \A u \in Threads : Using(u) => u = t
  BY DEF IoctlInv, MutexHeld
<1>2. holder' = t
  BY <1>1 DEF GiveUp, AfterError
<1>3. t # NoThread
  BY KernelIoctlAssumption
<1>4. \A u \in Threads : pc'[u] \notin {"post", "wait"}
  BY <1>1 DEF GiveUp, Using, IoctlInv, TypeOK
<1>5. \A u \in Threads : result'[u] = "ok" => u # t /\ result[u] = "ok"
  BY DEF GiveUp, IoctlInv, TypeOK
<1> QED
  BY <1>2, <1>3, <1>4, <1>5 DEF Using

\* The ways to fail.
LEMMA Failing ==
    ASSUME NEW t \in Threads,
           \/ \E copied, onQueue \in BOOLEAN : PostFails(t, copied, onQueue)
           \/ Timeout(t)
           \/ \E copied \in BOOLEAN : TakeFails(t, copied)
    PROVE  Using(t) /\ GiveUp(t) /\ UNCHANGED call
BY DEF PostFails, Timeout, TakeFails, Using

\* The actions that leave alone what the calls and the mutex are about.
LEMMA CallsUnchanged ==
    ASSUME \/ \E t \in Threads : Open(t) \/ OpenFails(t) \/ UseFreed(t)
           \/ \E f \in Files, p \in Processes : Release(f, p)
           \/ Transmit \/ DpuHandle \/ Arrive
           \/ UNCHANGED vars
    PROVE  /\ holder' = holder /\ pc' = pc /\ failed' = failed
           /\ call' = call /\ user' = user /\ result' = result
BY DEF Open, OpenFails, UseFreed, Release, Transmit, DpuHandle, Arrive, vars, callers

LEMMA MutexStep ==
    IoctlInv /\ [Next]_vars => MutexHeld' /\ NotFinished'
<1> SUFFICES ASSUME IoctlInv, [Next]_vars
             PROVE  MutexHeld' /\ NotFinished'
  OBVIOUS
<1>0. /\ TypeOK /\ MutexHeld /\ NotFinished
  BY DEF IoctlInv
<1> USE DEF MutexHeld, NotFinished
<1>1. ASSUME NEW t \in Threads, NEW size \in Sizes, Enter(t, size)
      PROVE  MutexHeld' /\ NotFinished'
  <2>1. /\ holder' = holder /\ failed' = failed
        /\ \A u \in Threads : pc'[u] \in {"post", "wait"} =>
             pc'[u] = pc[u] /\ result'[u] = result[u]
    BY <1>0, <1>1 DEF Enter, TypeOK
  <2>2. \A u \in Threads : Using(u)' => Using(u)
    BY <2>1 DEF Using
  <2> QED
    BY <1>0, <2>1, <2>2
<1>2. ASSUME NEW t \in Threads, Lock(t)
      PROVE  MutexHeld' /\ NotFinished'
  <2>1. /\ \A u \in Threads : ~Using(u)
        /\ ~failed
    BY <1>0, <1>2, KernelIoctlAssumption DEF Lock
  <2>2. /\ holder' = t /\ failed' = failed /\ result' = result
        /\ \A u \in Threads : pc'[u] = IF u = t THEN "post" ELSE pc[u]
    BY <1>0, <1>2 DEF Lock, TypeOK, callers
  <2>3. \A u \in Threads : Using(u)' => u = t
    BY <2>1, <2>2 DEF Using
  <2>4. \A u \in Threads : pc'[u] # "wait"
    BY <2>1, <2>2 DEF Using
  <2> QED
    BY <2>1, <2>2, <2>3, <2>4
<1>3. ASSUME NEW t \in Threads, NEW copied \in BOOLEAN, PostSend(t, copied)
      PROVE  MutexHeld' /\ NotFinished'
  <2>1. /\ Using(t)
        /\ holder' = holder /\ failed' = failed
        /\ \A u \in Threads : pc'[u] = IF u = t THEN "wait" ELSE pc[u]
        /\ result'[t] # "ok"
        /\ \A u \in Threads : u # t => result'[u] = result[u]
    BY <1>0, <1>3 DEF PostSend, TypeOK, Using
  <2>2. \A u \in Threads : Using(u)' => Using(u)
    BY <2>1 DEF Using
  <2> QED
    BY <1>0, <2>1, <2>2
<1>4. ASSUME NEW t \in Threads, Using(t), GiveUp(t)
      PROVE  MutexHeld' /\ NotFinished'
  BY <1>4, GiveUpFacts
<1>5. ASSUME NEW t \in Threads, TakeReply(t)
      PROVE  MutexHeld' /\ NotFinished'
  <2>1. /\ holder = t /\ ~failed /\ failed' = failed
        /\ \A u \in Threads : Using(u) => u = t
    BY <1>0, <1>5 DEF TakeReply, Using
  <2>2. \A u \in Threads : pc'[u] \notin {"post", "wait"}
    BY <1>0, <1>5, <2>1 DEF TakeReply, Using, TypeOK
  <2> QED
    BY <2>1, <2>2 DEF Using
<1>6. CASE /\ holder' = holder /\ pc' = pc /\ failed' = failed
           /\ result' = result
  BY <1>0, <1>6 DEF Using
<1> QED
  BY <1>1, <1>2, <1>3, <1>4, <1>5, <1>6, CallsUnchanged, Failing DEF Next, Ioctl

-----------------------------------------------------------------------------
(* The channel *)

\* At most one of the queues holds something, and that is one thing.
LEMMA OneOfFour ==
    ASSUME TypeOK, OneOutstanding
    PROVE  /\ sendq # <<>> => /\ Len(sendq) = 1 /\ requests = <<>>
                              /\ replies = <<>> /\ recvCq = <<>>
           /\ requests # <<>> => /\ Len(requests) = 1 /\ sendq = <<>>
                                 /\ replies = <<>> /\ recvCq = <<>>
           /\ replies # <<>> => /\ Len(replies) = 1 /\ sendq = <<>>
                                /\ requests = <<>> /\ recvCq = <<>>
           /\ recvCq # <<>> => /\ Len(recvCq) = 1 /\ sendq = <<>>
                               /\ requests = <<>> /\ replies = <<>>
<1>1. /\ Len(sendq) \in Nat /\ (sendq # <<>> => Len(sendq) >= 1)
      /\ Len(requests) \in Nat /\ (requests # <<>> => Len(requests) >= 1)
      /\ Len(replies) \in Nat /\ (replies # <<>> => Len(replies) >= 1)
      /\ Len(recvCq) \in Nat /\ (recvCq # <<>> => Len(recvCq) >= 1)
  BY EmptySeq DEF TypeOK
<1>2. Len(sendq) + Len(requests) + Len(replies) + Len(recvCq) <= 1
  BY DEF OneOutstanding
<1>3. sendq # <<>> => /\ Len(sendq) = 1 /\ requests = <<>>
                      /\ replies = <<>> /\ recvCq = <<>>
  BY <1>1, <1>2
<1>4. requests # <<>> => /\ Len(requests) = 1 /\ sendq = <<>>
                         /\ replies = <<>> /\ recvCq = <<>>
  BY <1>1, <1>2
<1>5. replies # <<>> => /\ Len(replies) = 1 /\ sendq = <<>>
                        /\ requests = <<>> /\ recvCq = <<>>
  BY <1>1, <1>2
<1>6. recvCq # <<>> => /\ Len(recvCq) = 1 /\ sendq = <<>>
                       /\ requests = <<>> /\ replies = <<>>
  BY <1>1, <1>2
<1> QED
  BY <1>3, <1>4, <1>5, <1>6

\* A queue of one element.
LEMMA OneElement ==
    ASSUME NEW S, NEW s \in Seq(S), Len(s) = 1
    PROVE  /\ Head(s) = s[1]
           /\ Tail(s) = <<>>
<1>1. s # <<>>
  BY EmptySeq
<1>2. Len(Tail(s)) = 0 /\ Tail(s) \in Seq(S)
  BY <1>1, HeadTailProperties
<1>3. ASSUME NEW u \in Seq(S), Len(u) = 0
      PROVE  u = <<>>
  BY <1>3, EmptySeq
<1>4. Head(s) = s[1]
  BY <1>1
<1> QED
  BY <1>2, <1>3, <1>4

LEMMA AppendToEmpty ==
    ASSUME NEW S, NEW e \in S
    PROVE  Len(Append(<<>>, e)) = 1 /\ Append(<<>>, e)[1] = e
<1>1. <<>> \in Seq(S) /\ Len(<<>>) = 0
  BY EmptySeq
<1> QED
  BY <1>1, AppendProperties

\* What the queues are about.
Channel == EmptyChannel /\ OneOutstanding /\ OwnRequest

LEMMA ChannelStep ==
    IoctlInv /\ [Next]_vars => Channel'
<1> SUFFICES ASSUME IoctlInv, [Next]_vars
             PROVE  Channel'
  OBVIOUS
<1>0. /\ TypeOK /\ MutexHeld /\ EmptyChannel /\ OneOutstanding /\ OwnRequest
      /\ \A n : Quiet => OnTheWay(n)
      /\ \A n : Quiet' => OnTheWay(n)'
      /\ Len(sendq) \in Nat /\ Len(requests) \in Nat
      /\ Len(replies) \in Nat /\ Len(recvCq) \in Nat
  BY EmptySeq DEF IoctlInv, TypeOK, Quiet, OnTheWay
<1>1. CASE /\ UNCHANGED <<sendq, requests, replies, recvCq, sendBuf, recvBuf>>
           /\ holder' = NoThread => holder = NoThread
           /\ \A t \in Threads :
                pc'[t] \in {"post", "wait"} =>
                  pc'[t] = pc[t] /\ call'[t] = call[t] /\ result'[t] = result[t]
  <2>1. Quiet' = Quiet /\ \A n : OnTheWay(n)' = OnTheWay(n)
    BY <1>1 DEF Quiet, OnTheWay
  <2>2. EmptyChannel'
    BY <1>0, <1>1, <2>1 DEF EmptyChannel
  <2>3. OwnRequest'
    BY <1>0, <1>1, <2>1 DEF OwnRequest
  <2> QED
    BY <1>0, <1>1, <2>2, <2>3 DEF Channel, OneOutstanding
<1>2. ASSUME NEW f \in Files, NEW p \in Processes, Release(f, p)
      PROVE  Channel'
  <2>1. /\ holder' = holder /\ pc' = pc /\ call' = call /\ result' = result
        /\ sendBuf' = sendBuf /\ recvBuf' = recvBuf
        /\ requests' = requests /\ replies' = replies
        /\ \/ sendq' = sendq /\ recvCq' = recvCq
           \/ sendq' = <<>> /\ recvCq' = <<>>
    BY <1>2 DEF Release, callers, sending
  <2>2. Quiet => Quiet'
    BY <2>1 DEF Quiet
  <2>3. \A n : OnTheWay(n) => OnTheWay(n)'
    BY <2>1, EmptySeq DEF OnTheWay
  <2>4. Len(sendq') + Len(requests') + Len(replies') + Len(recvCq') <= 1
    <3>1. CASE sendq' = sendq /\ recvCq' = recvCq
      BY <1>0, <2>1, <3>1 DEF OneOutstanding
    <3>2. CASE sendq' = <<>> /\ recvCq' = <<>>
      <4>1. Len(sendq') = 0 /\ Len(recvCq') = 0
        BY <3>2, EmptySeq
      <4> QED
        BY <1>0, <2>1, <4>1 DEF OneOutstanding
    <3> QED
      BY <2>1, <3>1, <3>2
  <2> QED
    BY <1>0, <2>1, <2>2, <2>3, <2>4 DEF Channel, EmptyChannel, OwnRequest, OneOutstanding
<1>3. ASSUME NEW t \in Threads, Lock(t)
      PROVE  Channel'
  <2>1. /\ holder' = t /\ t # NoThread /\ result' = result /\ call' = call
        /\ UNCHANGED <<sendq, requests, replies, recvCq, sendBuf, recvBuf>>
        /\ \A u \in Threads : pc'[u] = IF u = t THEN "post" ELSE pc[u]
    BY <1>0, <1>3, KernelIoctlAssumption DEF Lock, callers, sending, TypeOK
  <2>2. Quiet' /\ Quiet
    BY <1>0, <1>3, <2>1 DEF Lock, Quiet, EmptyChannel
  <2>3. OneOutstanding' /\ OwnRequest'
    BY <1>0, <2>1, <2>2 DEF OneOutstanding, OwnRequest
  <2> QED
    BY <2>1, <2>2, <2>3 DEF Channel, EmptyChannel
<1>4. ASSUME NEW t \in Threads, NEW copied \in BOOLEAN, PostSend(t, copied)
      PROVE  Channel'
  <2>1. /\ holder = t /\ t # NoThread /\ Quiet
        /\ \A u \in Threads : Using(u) => u = t
    BY <1>0, <1>4, KernelIoctlAssumption DEF PostSend, MutexHeld, EmptyChannel, Using
  <2>2. /\ holder' = holder /\ call' = call
        /\ requests' = <<>> /\ replies' = <<>> /\ recvCq' = <<>>
        /\ sendq' = Append(<<>>, SendSlot)
        /\ sendBuf'[SendSlot] = Copied(t, copied)
        /\ \A u \in Threads : pc'[u] = IF u = t THEN "wait" ELSE pc[u]
        /\ result'[t] = IF copied THEN "none" ELSE "EFAULT"
    BY <1>0, <1>4, <2>1, SendFacts DEF PostSend, Quiet, TypeOK
  <2>3. Len(sendq') = 1 /\ sendq'[1] = SendSlot
    BY <1>0, <2>2, SendFacts, AppendToEmpty
  <2>4. Len(requests') = 0 /\ Len(replies') = 0 /\ Len(recvCq') = 0
    BY <2>2, EmptySeq
  <2>5. OneOutstanding'
    BY <2>3, <2>4 DEF OneOutstanding
  <2>6. \A u \in Threads : pc'[u] # "post" /\ (pc'[u] = "wait" => u = t)
    BY <2>1, <2>2 DEF Using
  <2>7. copied => OnTheWay(call[t].number)'
    <3> SUFFICES ASSUME copied
                 PROVE  OnTheWay(call[t].number)'
      OBVIOUS
    <3>1. sendBuf'[sendq'[1]].number = call'[t].number
      BY <1>0, <2>2, <2>3, SendFacts, ZenonT(60)
    <3>2. \A i \in 1 .. Len(sendq') : sendBuf'[sendq'[i]].number = call'[t].number
      BY <2>3, <3>1
    <3> QED
      BY <2>4, <3>2 DEF OnTheWay
  <2>8. OwnRequest'
    BY <2>2, <2>6, <2>7 DEF OwnRequest
  <2> QED
    BY <2>1, <2>2, <2>5, <2>6, <2>8 DEF Channel, EmptyChannel
<1>5. ASSUME NEW t \in Threads, Using(t), GiveUp(t), OneOutstanding'
      PROVE  Channel'
  BY <1>5, GiveUpFacts DEF Channel, EmptyChannel, OwnRequest
<1>6. ASSUME NEW t \in Threads, NEW copied \in BOOLEAN, NEW onQueue \in BOOLEAN,
             PostFails(t, copied, onQueue)
      PROVE  Channel'
  <2>1. /\ requests' = requests /\ replies' = replies /\ recvCq' = recvCq
        /\ sendq' = IF onQueue THEN Append(sendq, SendSlot) ELSE sendq
        /\ Using(t) /\ GiveUp(t) /\ Quiet
    BY <1>0, <1>6 DEF PostFails, Using, EmptyChannel
  <2>2. Len(requests') = 0 /\ Len(replies') = 0 /\ Len(recvCq') = 0
    BY <2>1, EmptySeq DEF Quiet
  <2>3. Len(sendq') = 0 \/ Len(sendq') = 1
    BY <1>0, <2>1, EmptySeq, SendFacts, AppendToEmpty DEF Quiet
  <2> QED
    BY <1>5, <2>1, <2>2, <2>3 DEF OneOutstanding
<1>7. ASSUME NEW t \in Threads, Timeout(t)
      PROVE  Channel'
  <2>1. /\ UNCHANGED <<sendq, requests, replies, recvCq>>
        /\ Using(t) /\ GiveUp(t)
    BY <1>7 DEF Timeout, Using
  <2> QED
    BY <1>0, <1>5, <2>1 DEF OneOutstanding
<1>8. ASSUME recvCq # <<>>, recvCq' = <<>>,
             UNCHANGED <<sendq, requests, replies>>
      PROVE  Quiet' /\ OneOutstanding'
  <2>1. Quiet'
    BY <1>0, <1>8, OneOfFour DEF Quiet
  <2>2. Len(recvCq') = 0 /\ Len(sendq') = 0 /\ Len(requests') = 0 /\ Len(replies') = 0
    BY <2>1, EmptySeq DEF Quiet
  <2> QED
    BY <2>1, <2>2 DEF OneOutstanding
<1>9. ASSUME NEW t \in Threads, TakeReply(t)
      PROVE  Channel'
  <2>1. Quiet' /\ OneOutstanding'
    BY <1>8, <1>9 DEF TakeReply
  <2>2. \A n : OnTheWay(n)'
    BY <1>0, <2>1
  <2> QED
    BY <2>1, <2>2 DEF Channel, EmptyChannel, OwnRequest
<1>10. ASSUME NEW t \in Threads, NEW copied \in BOOLEAN, TakeFails(t, copied)
       PROVE  Channel'
  <2>1. OneOutstanding' /\ Using(t) /\ GiveUp(t)
    BY <1>8, <1>10 DEF TakeFails, Using
  <2> QED
    BY <1>5, <2>1
<1>11. ASSUME ~Quiet, holder' = holder, pc' = pc, result' = result, call' = call,
              OneOutstanding',
              \A n : OnTheWay(n) => OnTheWay(n)'
       PROVE  Channel'
  BY <1>0, <1>11 DEF Channel, EmptyChannel, OwnRequest
<1>12. ASSUME Transmit
       PROVE  Channel'
  <2>1. /\ Len(sendq) = 1 /\ requests = <<>> /\ replies = <<>> /\ recvCq = <<>>
        /\ sendq \in Seq(TxSlot) /\ ~Quiet
    BY <1>0, <1>12, OneOfFour DEF Transmit, TypeOK, Quiet
  <2>2. Head(sendq) = sendq[1] /\ sendq' = <<>>
    BY <1>12, <2>1, OneElement DEF Transmit
  <2>3. sendBuf[Head(sendq)] \in Params
    BY <1>0, <1>12, <2>1, HeadTailProperties DEF Transmit, TypeOK
  <2>4. Len(requests') = 1 /\ requests'[1] = sendBuf[sendq[1]]
    BY <1>12, <2>1, <2>2, <2>3, AppendToEmpty DEF Transmit
  <2>5. replies' = <<>> /\ recvCq' = <<>>
    BY <1>12, <2>1 DEF Transmit
  <2>6. Len(sendq') = 0 /\ Len(replies') = 0 /\ Len(recvCq') = 0
    BY <2>2, <2>5, EmptySeq
  <2>7. \A n : OnTheWay(n) => OnTheWay(n)'
    BY <2>1, <2>4, <2>6 DEF OnTheWay
  <2>8. OneOutstanding'
    BY <2>4, <2>6 DEF OneOutstanding
  <2> QED
    BY <1>11, <1>12, <2>1, <2>7, <2>8 DEF Transmit, callers
<1>13. ASSUME DpuHandle
       PROVE  Channel'
  <2>1. /\ Len(requests) = 1 /\ sendq = <<>> /\ replies = <<>> /\ recvCq = <<>>
        /\ requests \in Seq(Params) /\ ~Quiet
    BY <1>0, <1>13, OneOfFour DEF DpuHandle, TypeOK, Quiet
  <2>2. Head(requests) = requests[1] /\ requests' = <<>>
    BY <1>13, <2>1, OneElement DEF DpuHandle
  <2>3. Head(requests) \in Params
    BY <1>13, <2>1, HeadTailProperties DEF DpuHandle
  <2>4. Len(replies') = 1 /\ replies'[1] = requests[1]
    BY <1>13, <2>1, <2>2, <2>3, AppendToEmpty DEF DpuHandle
  <2>5. sendq' = <<>> /\ recvCq' = <<>>
    BY <1>13, <2>1 DEF DpuHandle
  <2>6. Len(sendq') = 0 /\ Len(requests') = 0 /\ Len(recvCq') = 0
    BY <2>2, <2>5, EmptySeq
  <2>7. \A n : OnTheWay(n) => OnTheWay(n)'
    BY <2>1, <2>4, <2>6 DEF OnTheWay
  <2>8. OneOutstanding'
    BY <2>4, <2>6 DEF OneOutstanding
  <2> QED
    BY <1>11, <1>13, <2>1, <2>7, <2>8 DEF DpuHandle, callers
<1>14. ASSUME Arrive
       PROVE  Channel'
  <2>1. /\ Len(replies) = 1 /\ sendq = <<>> /\ requests = <<>> /\ recvCq = <<>>
        /\ replies \in Seq(Params) /\ ~Quiet
    BY <1>0, <1>14, OneOfFour DEF Arrive, TypeOK, Quiet
  <2>2. Head(replies) = replies[1] /\ replies' = <<>>
    BY <1>14, <2>1, OneElement DEF Arrive
  <2>3. Head(posted) \in RxSlot /\ Head(replies) \in Params
    BY <1>0, <1>14, <2>1, HeadTailProperties DEF Arrive, TypeOK
  <2> DEFINE wc == [slot |-> Head(posted), byte_len |-> Head(replies).size]
  <2>4. wc \in RecvWc /\ recvCq' = Append(<<>>, wc)
    BY <1>14, <2>1, <2>3 DEF Arrive, RecvWc, Params
  <2>5. Len(recvCq') = 1 /\ recvCq'[1] = wc
    <3> HIDE DEF wc
    <3> QED
      BY <2>4, AppendToEmpty
  <2>6. recvBuf'[recvCq'[1].slot] = replies[1].number
    BY <1>0, <1>14, <2>2, <2>3, <2>5, SMTT(30) DEF Arrive, TypeOK
  <2>7. sendq' = <<>> /\ requests' = <<>>
    BY <1>14, <2>1 DEF Arrive
  <2>8. Len(sendq') = 0 /\ Len(requests') = 0 /\ Len(replies') = 0
    BY <2>2, <2>7, EmptySeq
  <2>9. \A n : OnTheWay(n) => OnTheWay(n)'
    BY <2>1, <2>5, <2>6, <2>8 DEF OnTheWay
  <2>10. OneOutstanding'
    BY <2>5, <2>8 DEF OneOutstanding
  <2> QED
    BY <1>11, <1>14, <2>1, <2>9, <2>10 DEF Arrive, callers
<1>15. ASSUME NEW t \in Threads, NEW size \in Sizes, Enter(t, size)
       PROVE  Channel'
  BY <1>0, <1>1, <1>15 DEF Enter, TypeOK, sending
<1>16. ASSUME NEW t \in Threads, Open(t) \/ OpenFails(t) \/ UseFreed(t)
       PROVE  Channel'
  BY <1>1, <1>16 DEF Open, OpenFails, UseFreed, callers, sending
<1>17. CASE UNCHANGED vars
  BY <1>1, <1>17 DEF vars, callers, sending
<1> QED
  BY <1>2, <1>3, <1>4, <1>6, <1>7, <1>9, <1>10, <1>12, <1>13, <1>14, <1>15, <1>16,
     <1>17 DEF Next, Ioctl
-----------------------------------------------------------------------------
(* Answers, and who frees the queue pair *)

LEMMA ReplyStep ==
    IoctlInv /\ [Next]_vars => ReplyMatches'
<1> SUFFICES ASSUME IoctlInv, [Next]_vars
             PROVE  ReplyMatches'
  OBVIOUS
<1>0. /\ TypeOK /\ MutexHeld /\ OwnRequest /\ NotFinished /\ OneOutstanding
      /\ ReplyMatches
  BY DEF IoctlInv
<1>1. ASSUME NEW t \in Threads, NEW size \in Sizes, Enter(t, size)
      PROVE  ReplyMatches'
  <2>1. /\ result'[t] # "ok"
        /\ \A u \in Threads : u # t => /\ result'[u] = result[u]
                                       /\ call'[u] = call[u] /\ user'[u] = user[u]
    BY <1>0, <1>1 DEF Enter, TypeOK
  <2> QED
    BY <1>0, <2>1 DEF ReplyMatches
<1>2. ASSUME NEW t \in Threads, Lock(t)
      PROVE  ReplyMatches'
  BY <1>0, <1>2 DEF Lock, callers, ReplyMatches
<1>3. ASSUME NEW t \in Threads, NEW copied \in BOOLEAN, PostSend(t, copied)
      PROVE  ReplyMatches'
  <2>1. /\ result'[t] # "ok"
        /\ \A u \in Threads : u # t => result'[u] = result[u]
        /\ call' = call /\ user' = user
    BY <1>0, <1>3 DEF PostSend, TypeOK
  <2> QED
    BY <1>0, <2>1 DEF ReplyMatches
<1>4. ASSUME NEW t \in Threads, Using(t), GiveUp(t), UNCHANGED call,
             \A u \in Threads : u # t => user'[u] = user[u]
      PROVE  ReplyMatches'
  BY <1>0, <1>4, GiveUpFacts DEF ReplyMatches
<1>5. ASSUME NEW t \in Threads,
             \/ \E copied, onQueue \in BOOLEAN : PostFails(t, copied, onQueue)
             \/ Timeout(t)
             \/ \E copied \in BOOLEAN : TakeFails(t, copied)
      PROVE  ReplyMatches'
  <2>1. \A u \in Threads : u # t => user'[u] = user[u]
    BY <1>0, <1>5 DEF PostFails, Timeout, TakeFails, TypeOK
  <2> QED
    BY <1>4, <1>5, <2>1, Failing
<1>6. ASSUME NEW t \in Threads, TakeReply(t)
      PROVE  ReplyMatches'
  <2>1. /\ pc[t] = "wait" /\ recvCq # <<>>
        /\ user'[t] = recvBuf[Head(recvCq).slot]
        /\ result'[t] = IF result[t] = "none" THEN "ok" ELSE result[t]
        /\ call' = call
        /\ \A u \in Threads : u # t => user'[u] = user[u] /\ result'[u] = result[u]
    BY <1>0, <1>6 DEF TakeReply, TypeOK
  <2>2. Head(recvCq) = recvCq[1] /\ 1 \in 1 .. Len(recvCq)
    BY <1>0, <2>1, OneOfFour, OneElement DEF TypeOK
  <2>3. result[t] = "none" => recvBuf[Head(recvCq).slot] = call[t].number
    BY <1>0, <2>1, <2>2 DEF OwnRequest, OnTheWay
  <2>4. result[t] # "ok"
    BY <1>0, <2>1 DEF NotFinished
  <2>5. result'[t] = "ok" => user'[t] = call'[t].number
    BY <2>1, <2>3, <2>4
  <2> QED
    BY <1>0, <2>1, <2>5 DEF ReplyMatches
<1>7. CASE user' = user /\ call' = call /\ result' = result
  BY <1>0, <1>7 DEF ReplyMatches
<1> QED
  BY <1>1, <1>2, <1>3, <1>5, <1>6, <1>7, CallsUnchanged DEF Next, Ioctl

\* A closed file is opened, an open one is released or stuck, and that is all:
\* what an owner has released stays so.
LEMMA OwnerStep ==
    IoctlInv /\ [Next]_vars => FreedByOwner' /\ UnharmedByChild'
<1> SUFFICES ASSUME IoctlInv, [Next]_vars
             PROVE  FreedByOwner' /\ UnharmedByChild'
  OBVIOUS
<1>0. TypeOK /\ FreedByOwner /\ UnharmedByChild
  BY DEF IoctlInv
<1>1. ASSUME NEW t \in Threads, Open(t)
      PROVE  FreedByOwner' /\ UnharmedByChild'
  <2>1. /\ qp' = qp /\ kernel' = kernel
        /\ \A f \in Files : file[f] = "released" => file'[f] = "released"
    BY <1>0, <1>1 DEF Open, TypeOK
  <2> QED
    BY <1>0, <2>1 DEF FreedByOwner, UnharmedByChild
<1>2. ASSUME NEW f \in Files, NEW p \in Processes, Release(f, p)
      PROVE  FreedByOwner' /\ UnharmedByChild'
  <2>1. /\ file[f] # "released"
        /\ \A g \in Files : file[g] = "released" => file'[g] = "released"
    BY <1>0, <1>2 DEF Release, LastClose, TypeOK
  <2>2. CASE MayFree(f, p)
    <3>1. file'[f] = "released"
      BY <1>0, <1>2, <2>2 DEF Release, MayFree, TypeOK
    <3> QED
      BY <3>1 DEF FreedByOwner, UnharmedByChild
  <2>3. CASE ~MayFree(f, p)
    <3>1. kernel' = kernel /\ qp' = qp
      BY <1>2, <2>3 DEF Release
    <3> QED
      BY <1>0, <2>1, <3>1 DEF FreedByOwner, UnharmedByChild
  <2> QED
    BY <2>2, <2>3
<1>3. ASSUME NEW t \in Threads, UseFreed(t)
      PROVE  FreedByOwner' /\ UnharmedByChild'
  BY <1>0, <1>3 DEF UseFreed, files, FreedByOwner, UnharmedByChild
<1>4. CASE UNCHANGED <<kernel, qp, file>>
  BY <1>0, <1>4 DEF FreedByOwner, UnharmedByChild
<1>5. ASSUME NEW t \in Threads,
             \/ OpenFails(t)
             \/ \E size \in Sizes : Enter(t, size)
             \/ Lock(t)
             \/ \E copied \in BOOLEAN : PostSend(t, copied)
             \/ \E copied, onQueue \in BOOLEAN : PostFails(t, copied, onQueue)
             \/ Timeout(t)
             \/ TakeReply(t)
             \/ \E copied \in BOOLEAN : TakeFails(t, copied)
      PROVE  UNCHANGED <<kernel, qp, file>>
  BY <1>5 DEF OpenFails, Enter, Lock, PostSend, PostFails, Timeout, TakeReply,
     TakeFails, files
<1>6. Transmit \/ DpuHandle \/ Arrive \/ UNCHANGED vars =>
        UNCHANGED <<kernel, qp, file>>
  BY DEF Transmit, DpuHandle, Arrive, vars, files
<1> QED
  BY <1>1, <1>2, <1>3, <1>4, <1>5, <1>6 DEF Next, Ioctl

-----------------------------------------------------------------------------
(* The theorems *)

LEMMA IoctlInit == Init => IoctlInv
<1> SUFFICES ASSUME Init
             PROVE  IoctlInv
  OBVIOUS
<1>1. TypeOK
  BY InitType
<1>2. MutexHeld /\ NotFinished /\ OwnRequest /\ ReplyMatches
  BY DEF Init, MutexHeld, NotFinished, OwnRequest, ReplyMatches, Using
<1>3. EmptyChannel
  BY DEF Init, EmptyChannel, Quiet
<1>4. OneOutstanding
  BY EmptySeq DEF Init, OneOutstanding
<1>5. FreedByOwner /\ UnharmedByChild
  BY DEF Init, FreedByOwner, UnharmedByChild
<1> QED
  BY <1>1, <1>2, <1>3, <1>4, <1>5 DEF IoctlInv

\* The inductive invariant of the kernel module's channel (smartns_ioctl).
THEOREM IoctlInvariance ==
    Spec => []IoctlInv
<1>1. Init => IoctlInv
  BY IoctlInit
<1>2. IoctlInv /\ [Next]_vars => IoctlInv'
  <2>1. IoctlInv => TypeOK
    BY DEF IoctlInv
  <2> QED
    BY <2>1, TypeStep, MutexStep, ChannelStep, ReplyStep, OwnerStep
    DEF IoctlInv, Channel
<1> QED
  BY <1>1, <1>2, PTL DEF Spec

\* Every variable of the kernel module keeps its type.
THEOREM IoctlTypeCorrect ==
    Spec => []TypeOK
<1>1. IoctlInv => TypeOK
  BY DEF IoctlInv
<1> QED
  BY <1>1, IoctlInvariance, PTL

\* A call that returns 0 brings the answer to its own request (smartns_ioctl).
THEOREM ReplyMatchesCorrect ==
    Spec => []ReplyMatches
<1>1. IoctlInv => ReplyMatches
  BY DEF IoctlInv
<1> QED
  BY <1>1, IoctlInvariance, PTL

\* All threads together have at most one request on the way, so that a poll
\* never finds two replies ("inlegal recv wc num").
THEOREM OneOutstandingCorrect ==
    Spec => []OneOutstanding
<1>1. IoctlInv => OneOutstanding
  BY DEF IoctlInv
<1> QED
  BY <1>1, IoctlInvariance, PTL

\* Only a close by an owner takes the queue pair from those who use it
\* (smartns_release).
THEOREM UnharmedByChildCorrect ==
    Spec => []UnharmedByChild
<1>1. IoctlInv => UnharmedByChild
  BY DEF IoctlInv
<1> QED
  BY <1>1, IoctlInvariance, PTL

\* After a return on error, which keeps qp_mutex, nothing is posted any more.
THEOREM FailStopCorrect ==
    Spec => FailStop
<1>1. IoctlInv /\ [Next]_vars =>
        [failed => sendCur' = sendCur /\ Len(sendq') <= Len(sendq)]_vars
  <2> SUFFICES ASSUME IoctlInv, Next, failed
               PROVE  sendCur' = sendCur /\ Len(sendq') <= Len(sendq)
    OBVIOUS
  <2>0. Len(sendq) \in Nat /\ \A t \in Threads : ~Using(t)
    BY DEF IoctlInv, TypeOK, MutexHeld
  <2>1. CASE Transmit
    <3>1. sendCur' = sendCur /\ sendq' = Tail(sendq) /\ sendq # <<>>
      BY <2>1 DEF Transmit, sending
    <3>2. Len(sendq') = Len(sendq) - 1
      BY <3>1, HeadTailProperties DEF IoctlInv, TypeOK
    <3> QED
      BY <2>0, <3>1, <3>2
  <2>2. CASE \E f \in Files, p \in Processes : Release(f, p)
    <3>1. sendCur' = sendCur /\ (sendq' = sendq \/ sendq' = <<>>)
      BY <2>2 DEF Release, sending
    <3>2. sendq' = <<>> => Len(sendq') = 0
      BY EmptySeq
    <3> QED
      BY <2>0, <3>1, <3>2
  <2>3. CASE UNCHANGED <<sendCur, sendq>>
    BY <2>0, <2>3
  <2>4. ASSUME NEW t \in Threads, Ioctl(t)
        PROVE  UNCHANGED <<sendCur, sendq>>
    BY <2>0, <2>4 DEF Ioctl, Enter, Lock, PostSend, PostFails, Timeout, TakeReply,
       TakeFails, UseFreed, Using, sending
  <2>5. ASSUME NEW t \in Threads, Open(t) \/ OpenFails(t)
        PROVE  UNCHANGED <<sendCur, sendq>>
    BY <2>5 DEF Open, OpenFails, sending
  <2>6. DpuHandle \/ Arrive => UNCHANGED <<sendCur, sendq>>
    BY DEF DpuHandle, Arrive, sending
  <2> QED
    BY <2>1, <2>2, <2>3, <2>4, <2>5, <2>6 DEF Next
<1> QED
  BY <1>1, IoctlInvariance, PTL DEF Spec, FailStop

-----------------------------------------------------------------------------
(* Receive slots *)

\* While nothing has failed the slots are used in turn: those whose replies
\* wait, then those posted, from the slot recvCur on and around the ring.
SlotOrder ==
    qp = "connected" /\ ~failed =>
      /\ Len(posted) + Len(recvCq) = RxDepth
      /\ \A i \in 1 .. Len(recvCq) : recvCq[i].slot = (recvCur + i - 1) % RxDepth
      /\ \A i \in 1 .. Len(posted) :
           posted[i] = (recvCur + Len(recvCq) + i - 1) % RxDepth

LEMMA SlotOrderInit == Init => SlotOrder
<1> SUFFICES ASSUME Init
             PROVE  SlotOrder
  OBVIOUS
<1>1. /\ posted = [i \in 1 .. RxDepth |-> i - 1]
      /\ recvCq = <<>> /\ recvCur = RxDepth
  BY DEF Init
<1>2. RxDepth \in Nat /\ RxDepth > 0
  BY KernelIoctlAssumption
<1>3. Len(recvCq) = 0 /\ Len(posted) = RxDepth
  BY <1>1, <1>2, EmptySeq
<1>4. ASSUME NEW i \in 1 .. RxDepth
      PROVE  posted[i] = (recvCur + Len(recvCq) + i - 1) % RxDepth
  <2>1. posted[i] = i - 1 /\ i - 1 \in 0 .. RxDepth - 1
    BY <1>1, <1>2
  <2>2. RxDepth + i - 1 \in Int /\ RxDepth + i - 1 = RxDepth * 1 + (i - 1)
    BY <1>2
  <2>3. (RxDepth + i - 1) % RxDepth = i - 1
    BY <1>2, <2>1, <2>2, SlotAndTurnUnique
  <2> QED
    BY <1>1, <1>2, <1>3, <2>1, <2>3
<1> QED
  BY <1>2, <1>3, <1>4 DEF SlotOrder

LEMMA SlotOrderStep ==
    TypeOK /\ SlotOrder /\ [Next]_vars => SlotOrder'
<1> SUFFICES ASSUME TypeOK, SlotOrder, [Next]_vars, (qp = "connected" /\ ~failed)'
             PROVE  /\ Len(posted') + Len(recvCq') = RxDepth
                    /\ \A i \in 1 .. Len(recvCq') :
                         recvCq'[i].slot = (recvCur' + i - 1) % RxDepth
                    /\ \A i \in 1 .. Len(posted') :
                         posted'[i] = (recvCur' + Len(recvCq') + i - 1) % RxDepth
  BY DEF SlotOrder
<1> DEFINE Kept == /\ Len(posted') + Len(recvCq') = RxDepth
                   /\ \A i \in 1 .. Len(recvCq') :
                        recvCq'[i].slot = (recvCur' + i - 1) % RxDepth
                   /\ \A i \in 1 .. Len(posted') :
                        posted'[i] = (recvCur' + Len(recvCq') + i - 1) % RxDepth
<1>1. /\ posted \in Seq(RxSlot) /\ recvCq \in Seq(RecvWc)
      /\ recvCur \in Nat /\ replies \in Seq(Params)
      /\ RxDepth \in Nat /\ RxDepth > 0
  BY KernelIoctlAssumption DEF TypeOK
<1>2. /\ Len(posted) \in Nat /\ Len(recvCq) \in Nat
  BY <1>1, LenProperties
<1>3. CASE UNCHANGED <<qp, failed, posted, recvCq, recvCur>>
  BY <1>3 DEF SlotOrder
<1>4. ASSUME NEW t \in Threads,
             \/ Open(t) \/ OpenFails(t)
             \/ \E size \in Sizes : Enter(t, size)
             \/ Lock(t)
             \/ \E copied \in BOOLEAN : PostSend(t, copied)
             \/ UseFreed(t)
      PROVE  UNCHANGED <<qp, failed, posted, recvCq, recvCur>>
  BY <1>4 DEF Open, OpenFails, Enter, Lock, PostSend, UseFreed, receiving
<1>5. Transmit \/ DpuHandle \/ UNCHANGED vars =>
        UNCHANGED <<qp, failed, posted, recvCq, recvCur>>
  BY DEF Transmit, DpuHandle, vars, receiving
<1>6. ASSUME NEW t \in Threads,
             \/ \E copied, onQueue \in BOOLEAN : PostFails(t, copied, onQueue)
             \/ Timeout(t)
             \/ \E copied \in BOOLEAN : TakeFails(t, copied)
      PROVE  FALSE
  BY <1>6 DEF PostFails, Timeout, TakeFails, GiveUp
<1>7. ASSUME NEW f \in Files, NEW p \in Processes, Release(f, p)
      PROVE  UNCHANGED <<qp, failed, posted, recvCq, recvCur>>
  BY <1>7 DEF Release
<1>8. ASSUME NEW t \in Threads, TakeReply(t)
      PROVE  Kept
  <2>1. /\ qp = "connected" /\ ~failed
        /\ Len(recvCq) = 1
        /\ recvCq' = <<>> /\ recvCur' = recvCur + 1
        /\ posted' = Append(posted, recvCur % RxDepth)
    BY <1>8 DEF TakeReply, Acceptable, RecvCurAfter
  <2>2. /\ Len(posted) + 1 = RxDepth
        /\ \A i \in 1 .. Len(posted) :
             posted[i] = (recvCur + 1 + i - 1) % RxDepth
    BY <2>1 DEF SlotOrder
  <2>3. recvCur % RxDepth \in RxSlot
    BY <1>1 DEF RxSlot
  <2>4. /\ Len(posted') = RxDepth
        /\ \A i \in 1 .. Len(posted) : posted'[i] = posted[i]
        /\ posted'[RxDepth] = recvCur % RxDepth
    BY <1>1, <2>1, <2>2, <2>3, AppendProperties
  <2>5. (recvCur + RxDepth) % RxDepth = recvCur % RxDepth
    <3>1. recvCur + RxDepth \in Int /\ (recvCur + RxDepth) - RxDepth = recvCur
      BY <1>1
    <3> QED
      BY <1>1, <3>1, SlotTurnEarlier
  <2>6. Len(recvCq') = 0
    BY <2>1, EmptySeq
  <2>7. ASSUME NEW i \in 1 .. RxDepth
        PROVE  posted'[i] = (recvCur + 1 + i - 1) % RxDepth
    <3>1. CASE i = RxDepth
      <4>1. recvCur + 1 + i - 1 = recvCur + RxDepth
        BY <1>1, <3>1
      <4> QED
        BY <2>4, <2>5, <3>1, <4>1
    <3>2. CASE i # RxDepth
      BY <1>1, <1>2, <2>2, <2>4, <3>2
    <3> QED
      BY <3>1, <3>2
  <2> QED
    BY <1>1, <2>1, <2>4, <2>6, <2>7
<1>9. CASE Arrive
  <2>1. /\ qp = "connected" /\ ~failed /\ posted # <<>> /\ replies # <<>>
        /\ recvCq' = Append(recvCq, [slot |-> Head(posted),
                                     byte_len |-> Head(replies).size])
        /\ posted' = Tail(posted) /\ recvCur' = recvCur
    BY <1>9 DEF Arrive
  <2>2. /\ Len(posted) + Len(recvCq) = RxDepth
        /\ \A i \in 1 .. Len(recvCq) : recvCq[i].slot = (recvCur + i - 1) % RxDepth
        /\ \A i \in 1 .. Len(posted) :
             posted[i] = (recvCur + Len(recvCq) + i - 1) % RxDepth
    BY <2>1 DEF SlotOrder
  <2>3. /\ Head(posted) = posted[1] /\ Head(posted) \in RxSlot
        /\ Len(posted) > 0
        /\ Len(posted') = Len(posted) - 1
        /\ \A i \in 1 .. Len(posted) - 1 : posted'[i] = posted[i + 1]
    BY <1>1, <2>1, HeadTailProperties, EmptySeq
  <2>4. Head(replies) \in Params
    BY <1>1, <2>1, HeadTailProperties
  <2>5. [slot |-> Head(posted), byte_len |-> Head(replies).size] \in RecvWc
    BY <2>3, <2>4 DEF RecvWc, Params
  <2>6. /\ Len(recvCq') = Len(recvCq) + 1
        /\ \A i \in 1 .. Len(recvCq) : recvCq'[i] = recvCq[i]
        /\ recvCq'[Len(recvCq) + 1].slot = posted[1]
    BY <1>1, <2>1, <2>3, <2>5, AppendProperties
  <2>7. posted[1] = (recvCur + Len(recvCq) + 1 - 1) % RxDepth
    BY <1>2, <2>2, <2>3
  <2>8. ASSUME NEW i \in 1 .. Len(recvCq')
        PROVE  recvCq'[i].slot = (recvCur' + i - 1) % RxDepth
    <3>1. CASE i = Len(recvCq) + 1
      <4>1. recvCur + Len(recvCq) + 1 - 1 = recvCur + i - 1
        BY <1>1, <1>2, <3>1
      <4> QED
        BY <2>1, <2>6, <2>7, <3>1, <4>1
    <3>2. CASE i # Len(recvCq) + 1
      BY <1>2, <2>1, <2>2, <2>6, <3>2
    <3> QED
      BY <3>1, <3>2
  <2>9. ASSUME NEW i \in 1 .. Len(posted')
        PROVE  posted'[i] = (recvCur' + Len(recvCq') + i - 1) % RxDepth
    <3>1. /\ i \in 1 .. Len(posted) - 1 /\ i + 1 \in 1 .. Len(posted)
          /\ recvCur + Len(recvCq) + (i + 1) - 1 = recvCur' + Len(recvCq') + i - 1
      BY <1>1, <1>2, <2>1, <2>3, <2>6
    <3>2. posted[i + 1] = (recvCur + Len(recvCq) + (i + 1) - 1) % RxDepth
      BY <2>2, <3>1
    <3> QED
      BY <2>3, <3>1, <3>2
  <2> QED
    BY <1>2, <2>2, <2>3, <2>6, <2>8, <2>9
<1> QED
  BY <1>3, <1>4, <1>5, <1>6, <1>7, <1>8, <1>9 DEF Next, Ioctl

LEMMA SlotOrderInvariance == Spec => []SlotOrder
<1>1. Init => SlotOrder
  BY SlotOrderInit
<1>2. TypeOK /\ SlotOrder /\ [Next]_vars => SlotOrder'
  BY SlotOrderStep
<1> QED
  BY <1>1, <1>2, IoctlTypeCorrect, PTL DEF Spec

\* While no call has failed every receive slot is posted or holds the reply
\* about to be taken, and none is posted twice (smartns_ioctl, the slot posted
\* again after a reply).
THEOREM RecvSlotsCorrect ==
    Spec => []RecvSlotsKept
<1>1. TypeOK /\ SlotOrder => RecvSlotsKept
  <2> SUFFICES ASSUME TypeOK, SlotOrder, qp = "connected", ~failed
               PROVE  /\ Len(posted) + Len(recvCq) = RxDepth
                      /\ {posted[i] : i \in 1 .. Len(posted)}
                           \cup {recvCq[i].slot : i \in 1 .. Len(recvCq)} = RxSlot
    BY DEF RecvSlotsKept
  <2> DEFINE held == {posted[i] : i \in 1 .. Len(posted)}
                       \cup {recvCq[i].slot : i \in 1 .. Len(recvCq)}
             q == Len(recvCq)
  <2>1. /\ posted \in Seq(RxSlot) /\ recvCq \in Seq(RecvWc)
        /\ recvCur \in Nat /\ RxDepth \in Nat /\ RxDepth > 0
        /\ Len(posted) \in Nat /\ q \in Nat
    BY KernelIoctlAssumption, LenProperties DEF TypeOK
  <2>2. /\ Len(posted) + q = RxDepth
        /\ \A i \in 1 .. q : recvCq[i].slot = (recvCur + i - 1) % RxDepth
        /\ \A i \in 1 .. Len(posted) : posted[i] = (recvCur + q + i - 1) % RxDepth
    BY DEF SlotOrder
  <2>3. ASSUME NEW s \in held
        PROVE  s \in RxSlot
    <3>1. CASE \E i \in 1 .. Len(posted) : s = posted[i]
      BY <2>1, <3>1, ElementOfSeq
    <3>2. CASE \E i \in 1 .. q : s = recvCq[i].slot
      <4>1. \A i \in 1 .. q : recvCq[i] \in RecvWc
        BY <2>1, ElementOfSeq
      <4> QED
        BY <3>2, <4>1 DEF RecvWc
    <3> QED
      BY <3>1, <3>2
  <2>4. ASSUME NEW s \in RxSlot
        PROVE  s \in held
    <3> DEFINE k == (s - recvCur) % RxDepth
    <3>1. /\ s \in 0 .. RxDepth - 1 /\ s - recvCur \in Int
      BY <2>1 DEF RxSlot
    <3>2. PICK m \in Int : s - recvCur = RxDepth * m + k
      BY <2>1, <3>1, SlotAndTurn
    <3>3. k \in 0 .. RxDepth - 1
      BY <2>1, <3>1, SlotAndTurn
    <3> HIDE DEF k
    <3>4. recvCur + k \in Int /\ -m \in Int /\ recvCur + k = RxDepth * (-m) + s
      <4>1. RxDepth * (-m) = -(RxDepth * m)
        BY <2>1
      <4>2. RxDepth * m \in Int
        BY <2>1
      <4> QED
        BY <2>1, <3>1, <3>2, <3>3, <4>1, <4>2
    <3>5. (recvCur + k) % RxDepth = s
      BY <2>1, <3>1, <3>4, SlotAndTurnUnique
    <3>6. CASE k < q
      <4>1. k + 1 \in 1 .. q /\ recvCur + (k + 1) - 1 = recvCur + k
        BY <2>1, <3>3, <3>6
      <4>2. recvCq[k + 1].slot = s
        BY <2>2, <3>5, <4>1
      <4> QED
        BY <4>1, <4>2
    <3>7. CASE k >= q
      <4>1. /\ k - q + 1 \in 1 .. Len(posted)
            /\ recvCur + q + (k - q + 1) - 1 = recvCur + k
        BY <2>1, <2>2, <3>3, <3>7
      <4>2. posted[k - q + 1] = s
        BY <2>2, <3>5, <4>1
      <4> QED
        BY <4>1, <4>2
    <3> QED
      BY <2>1, <3>3, <3>6, <3>7
  <2> QED
    BY <2>2, <2>3, <2>4
<1> QED
  BY <1>1, IoctlTypeCorrect, SlotOrderInvariance, PTL
=============================================================================
