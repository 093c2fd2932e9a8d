---------------------------- MODULE KernelIoctl ----------------------------
(***************************************************************************)
(* The kernel module: the channel through which every control operation of *)
(* the host reaches the DPU (kernel/smartns_kernel.c).  Threads share one  *)
(* queue pair; qp_mutex admits one ioctl at a time, which copies the user's*)
(* parameters into the next send slot, posts it, and polls for the reply   *)
(* for 2 * 10^9 cycles.  Returns on error leave the mutex locked.  Closing *)
(* a file frees the queue pair for everybody.                              *)
(***************************************************************************)
EXTENDS Integers, Sequences

CONSTANTS
    Threads, Files, Processes,
    FileOf,      \* the file a thread's descriptor refers to
    Tgid,        \* the process of a thread
    Sizes,       \* sizes of the parameter blocks, _IOC_SIZE(cmd)
    TxDepth,     \* SMARTNS_TX_DEPTH
    RxDepth,     \* SMARTNS_RX_DEPTH
    NoThread, NoProcess,
    MaxCalls     \* bound: ioctl calls in all

ASSUME KernelIoctlAssumption ==
    /\ FileOf \in [Threads -> Files]
    /\ Tgid \in [Threads -> Processes]
    /\ TxDepth \in Nat \ {0}
    /\ RxDepth \in Nat \ {0}
    /\ NoThread \notin Threads
    /\ NoProcess \notin Processes
    /\ Sizes # {}
    /\ MaxCalls \in Nat

VARIABLES
    kernel,    \* running, or crashed: a freed queue pair was used
    qp,        \* global_qp_handler: connected or freed
    file,      \* closed, open, released by its owner, or stuck (-EPERM)
    tgid,      \* smartns_info.tgid of each file
    ioHeld,    \* ioMutex is locked between calls
    holder,    \* owner of qp_mutex
    pc,        \* where each thread is
    call,      \* the request of each thread's last call
    user,      \* number of the answer in each thread's parameter block, 0: none
    result,    \* what the last call returned
    calls,     \* calls so far
    sendCur,   \* send_offset_handler.cur
    recvCur,   \* recv_offset_handler.cur
    sendBuf,   \* the send slots
    sendq,     \* slots posted and not sent yet
    requests,  \* requests on their way to the DPU or waiting there
    replies,   \* replies on their way back
    posted,    \* receive slots posted
    recvBuf,   \* the receive slots
    recvCq,    \* completions of receives
    failed     \* history: a call has returned with qp_mutex locked

files == <<file, tgid, ioHeld>>
sending == <<sendCur, sendBuf>>
receiving == <<recvCur, posted>>
callers == <<call, user, result, calls>>
vars == <<kernel, qp, files, holder, pc, callers, sending, sendq, requests,
          replies, receiving, recvBuf, recvCq, failed>>

TxSlot == 0 .. TxDepth - 1
RxSlot == 0 .. RxDepth - 1

\* A parameter block: number tells calls apart, 0 is a block of zeros.
Params == [number : Nat, size : Sizes]

Zeros == [number |-> 0, size |-> CHOOSE s \in Sizes : TRUE]

\* A completion of a receive: its slot (wr_id) and byte_len.
RecvWc == [slot : RxSlot, byte_len : Sizes]

Init ==
    /\ kernel = "running"
    /\ qp = "connected"
    /\ file = [f \in Files |-> "closed"]
    /\ tgid = [f \in Files |-> NoProcess]
    /\ ioHeld = FALSE
    /\ holder = NoThread
    /\ pc = [t \in Threads |-> "idle"]
    /\ call = [t \in Threads |-> Zeros]
    /\ user = [t \in Threads |-> 0]
    /\ result = [t \in Threads |-> "none"]
    /\ calls = 0
    /\ sendCur = 0
    /\ recvCur = RxDepth
    /\ sendBuf = [i \in TxSlot |-> Zeros]
    /\ sendq = <<>>
    /\ requests = <<>>
    /\ replies = <<>>
    /\ posted = [i \in 1 .. RxDepth |-> i - 1]
    /\ recvBuf = [i \in RxSlot |-> 0]
    /\ recvCq = <<>>
    /\ failed = FALSE

-----------------------------------------------------------------------------
(* Opening and closing the device *)

\* smartns_open
Open(t) ==
    LET f == FileOf[t]
    IN  /\ kernel = "running"
        /\ pc[t] = "idle"
        /\ file[f] = "closed"
        /\ ~ioHeld
        /\ file' = [file EXCEPT ![f] = "open"]
        /\ tgid' = [tgid EXCEPT ![f] = Tgid[t]]
        /\ UNCHANGED <<kernel, qp, ioHeld, holder, pc, callers, sending, sendq,
                       requests, replies, receiving, recvBuf, recvCq, failed>>

\* smartns_open without memory: -ENOMEM with ioMutex locked.
OpenFails(t) ==
    /\ kernel = "running"
    /\ pc[t] = "idle"
    /\ file[FileOf[t]] = "closed"
    /\ ~ioHeld
    /\ ioHeld' = TRUE
    /\ UNCHANGED <<kernel, qp, file, tgid, holder, pc, callers, sending, sendq,
                   requests, replies, receiving, recvBuf, recvCq, failed>>

\* The kernel calls release when the last descriptor is closed and no call
\* on the file is running.
LastClose(f, p) ==
    /\ kernel = "running"
    /\ file[f] = "open"
    /\ \E t \in Threads : FileOf[t] = f /\ Tgid[t] = p
    /\ \A t \in Threads : FileOf[t] = f => pc[t] = "idle"
    /\ ~ioHeld

\* Mutant: the owner is checked after the queue pair is freed.
MayFreeAlways(f, p) == TRUE

\* Only the process that opened the file may free what it uses.
MayFree(f, p) == tgid[f] = p

\* smartns_release: the queue pair goes, with all that is posted on it.
Release(f, p) ==
    /\ LastClose(f, p)
    /\ IF MayFree(f, p)
         THEN /\ kernel' = IF qp = "freed" THEN "crashed" ELSE kernel
              /\ qp' = "freed"
              /\ sendq' = <<>>
              /\ posted' = <<>>
              /\ recvCq' = <<>>
         ELSE UNCHANGED <<kernel, qp, sendq, posted, recvCq>>
    /\ file' = [file EXCEPT ![f] = IF tgid[f] = p THEN "released" ELSE "stuck"]
    /\ ioHeld' = (tgid[f] # p)
    /\ UNCHANGED <<tgid, holder, pc, callers, sending, requests, replies,
                   recvCur, recvBuf, failed>>

-----------------------------------------------------------------------------
(* smartns_ioctl *)

\* The checks before the lock.
Enter(t, size) ==
    /\ kernel = "running"
    /\ pc[t] = "idle"
    /\ file[FileOf[t]] = "open"
    /\ calls < MaxCalls
    /\ IF tgid[FileOf[t]] = Tgid[t]
         THEN /\ pc' = [pc EXCEPT ![t] = "lock"]
              /\ result' = [result EXCEPT ![t] = "none"]
         ELSE /\ result' = [result EXCEPT ![t] = "EACCES"]
              /\ UNCHANGED pc
    /\ calls' = calls + 1
    /\ call' = [call EXCEPT ![t] = [number |-> calls + 1, size |-> size]]
    /\ user' = [user EXCEPT ![t] = 0]
    /\ UNCHANGED <<kernel, qp, files, holder, sending, sendq, requests,
                   replies, receiving, recvBuf, recvCq, failed>>

Lock(t) ==
    /\ kernel = "running"
    /\ pc[t] = "lock"
    /\ holder = NoThread
    /\ holder' = t
    /\ pc' = [pc EXCEPT ![t] = "post"]
    /\ UNCHANGED <<kernel, qp, files, callers, sending, sendq, requests,
                   replies, receiving, recvBuf, recvCq, failed>>

\* What copy_from_user leaves in the send slot; a copy that fails leaves zeros.
Copied(t, copied) == [call[t] EXCEPT !.number = IF copied THEN @ ELSE 0]

\* Mutant: the offset of the send slot does not wrap.
SendSlotUnwrapped == sendCur

\* offset_handler_offset of the send slots.
SendSlot == sendCur % TxDepth

\* The request is written to the next send slot and posted.  A failed copy
\* sets ret and goes on.
PostSend(t, copied) ==
    /\ kernel = "running"
    /\ qp = "connected"
    /\ pc[t] = "post"
    /\ sendBuf' = [sendBuf EXCEPT ![SendSlot] = Copied(t, copied)]
    /\ sendq' = Append(sendq, SendSlot)
    /\ sendCur' = sendCur + 1
    /\ pc' = [pc EXCEPT ![t] = "wait"]
    /\ result' = [result EXCEPT ![t] = IF copied THEN "none" ELSE "EFAULT"]
    /\ UNCHANGED <<kernel, qp, files, holder, call, user, calls, requests,
                   replies, receiving, recvBuf, recvCq, failed>>

\* Mutant: the error returns unlock the mutex.
AfterErrorUnlocked == NoThread

\* The owner of the mutex after a return on error: the mutex stays locked.
AfterError == holder

GiveUp(t) ==
    /\ pc' = [pc EXCEPT ![t] = "idle"]
    /\ result' = [result EXCEPT ![t] = "EFAULT"]
    /\ holder' = AfterError
    /\ failed' = TRUE

\* ib_post_send fails, or a polled send completion has an error status.
PostFails(t, copied, onQueue) ==
    /\ kernel = "running"
    /\ qp = "connected"
    /\ pc[t] = "post"
    /\ sendBuf' = [sendBuf EXCEPT ![SendSlot] = Copied(t, copied)]
    /\ sendq' = IF onQueue THEN Append(sendq, SendSlot) ELSE sendq
    /\ GiveUp(t)
    /\ UNCHANGED <<kernel, qp, files, call, user, calls, sendCur, requests,
                   replies, receiving, recvBuf, recvCq>>

\* The time is over.  It is looked at before the completion queue is: also a
\* reply that has arrived may go untaken.
Timeout(t) ==
    /\ kernel = "running"
    /\ qp = "connected"
    /\ pc[t] = "wait"
    /\ GiveUp(t)
    /\ UNCHANGED <<kernel, qp, files, call, user, calls, sending, sendq,
                   requests, replies, receiving, recvBuf, recvCq>>

\* A poll that finds one reply, of the length of the request, copies it to
\* the user and posts a receive slot again.
Acceptable(t) == Len(recvCq) = 1 /\ Head(recvCq).byte_len = call[t].size

\* Mutant: the mutex is not unlocked.
AfterReplyLocked == holder

\* The owner of the mutex after a reply was taken.
AfterReply == NoThread

\* Mutant: the receive ring is not stepped.
RecvCurKept == recvCur

RecvCurAfter == recvCur + 1

TakeReply(t) ==
    /\ kernel = "running"
    /\ qp = "connected"
    /\ pc[t] = "wait"
    /\ recvCq # <<>>
    /\ Acceptable(t)
    /\ user' = [user EXCEPT ![t] = recvBuf[Head(recvCq).slot]]
    /\ result' = [result EXCEPT ![t] = IF @ = "none" THEN "ok" ELSE @]
    /\ pc' = [pc EXCEPT ![t] = "idle"]
    /\ holder' = AfterReply
    /\ recvCq' = <<>>
    /\ posted' = Append(posted, recvCur % RxDepth)
    /\ recvCur' = RecvCurAfter
    /\ UNCHANGED <<kernel, qp, files, call, calls, sending, sendq, requests,
                   replies, recvBuf, failed>>

\* A poll that finds anything else, an error status, or no way to copy or to
\* post: at most the user's copy of the reply is made.
TakeFails(t, copied) ==
    /\ kernel = "running"
    /\ qp = "connected"
    /\ pc[t] = "wait"
    /\ recvCq # <<>>
    /\ copied => Acceptable(t)
    /\ user' = IF copied THEN [user EXCEPT ![t] = recvBuf[Head(recvCq).slot]] ELSE user
    /\ recvCq' = <<>>
    /\ GiveUp(t)
    /\ UNCHANGED <<kernel, qp, files, call, calls, sending, sendq, requests,
                   replies, receiving, recvBuf>>

\* The call touches the memory of a queue pair that has been freed.
UseFreed(t) ==
    /\ kernel = "running"
    /\ qp = "freed"
    /\ pc[t] \in {"post", "wait"}
    /\ kernel' = "crashed"
    /\ UNCHANGED <<qp, files, holder, pc, callers, sending, sendq, requests,
                   replies, receiving, recvBuf, recvCq, failed>>

Ioctl(t) ==
    \/ \E size \in Sizes : Enter(t, size)
    \/ Lock(t)
    \/ \E copied \in BOOLEAN : PostSend(t, copied)
    \/ \E copied, onQueue \in BOOLEAN : PostFails(t, copied, onQueue)
    \/ Timeout(t)
    \/ TakeReply(t)
    \/ \E copied \in BOOLEAN : TakeFails(t, copied)
    \/ UseFreed(t)

-----------------------------------------------------------------------------
(* The NIC and the DPU *)

\* The NIC reads the slot when it sends.
Transmit ==
    /\ kernel = "running"
    /\ sendq # <<>>
    /\ requests' = Append(requests, sendBuf[Head(sendq)])
    /\ sendq' = Tail(sendq)
    /\ UNCHANGED <<kernel, qp, files, holder, pc, callers, sending, replies,
                   receiving, recvBuf, recvCq, failed>>

\* host_controlpath handles one request and sends it back with the results,
\* unless the handler ends the DPU process.
DpuHandle ==
    /\ kernel = "running"
    /\ requests # <<>>
    /\ replies' = Append(replies, Head(requests))
    /\ requests' = Tail(requests)
    /\ UNCHANGED <<kernel, qp, files, holder, pc, callers, sending, sendq,
                   receiving, recvBuf, recvCq, failed>>

\* A reply takes the first receive slot posted.
Arrive ==
    /\ kernel = "running"
    /\ replies # <<>>
    /\ posted # <<>>
    /\ recvBuf' = [recvBuf EXCEPT ![Head(posted)] = Head(replies).number]
    /\ recvCq' = Append(recvCq, [slot |-> Head(posted),
                                 byte_len |-> Head(replies).size])
    /\ posted' = Tail(posted)
    /\ replies' = Tail(replies)
    /\ UNCHANGED <<kernel, qp, files, holder, pc, callers, sending, sendq,
                   requests, recvCur, failed>>

-----------------------------------------------------------------------------
Next ==
    \/ \E t \in Threads : Open(t)
    \/ \E t \in Threads : OpenFails(t)
    \/ \E f \in Files, p \in Processes : Release(f, p)
    \/ \E t \in Threads : Ioctl(t)
    \/ Transmit
    \/ DpuHandle
    \/ Arrive

\* A thread in the kernel runs on, and the kernel's mutex is handed to the
\* threads that wait for it in turn.
Fairness ==
    \A t \in Threads :
        /\ SF_vars(Lock(t))
        /\ WF_vars(\E copied \in BOOLEAN : PostSend(t, copied))
        /\ WF_vars(Timeout(t))
        /\ WF_vars(UseFreed(t))

Spec == Init /\ [][Next]_vars /\ Fairness

-----------------------------------------------------------------------------
(* Properties *)

\* Every variable keeps its type.
TypeOK ==
    /\ kernel \in {"running", "crashed"}
    /\ qp \in {"connected", "freed"}
    /\ file \in [Files -> {"closed", "open", "released", "stuck"}]
    /\ tgid \in [Files -> Processes \cup {NoProcess}]
    /\ ioHeld \in BOOLEAN
    /\ holder \in Threads \cup {NoThread}
    /\ pc \in [Threads -> {"idle", "lock", "post", "wait"}]
    /\ call \in [Threads -> Params]
    /\ user \in [Threads -> Nat]
    /\ result \in [Threads -> {"none", "ok", "EFAULT", "EACCES"}]
    /\ calls \in Nat
    /\ sendCur \in Nat
    /\ recvCur \in Nat
    /\ sendBuf \in [TxSlot -> Params]
    /\ sendq \in Seq(TxSlot)
    /\ requests \in Seq(Params)
    /\ replies \in Seq(Params)
    /\ posted \in Seq(RxSlot)
    /\ recvBuf \in [RxSlot -> Nat]
    /\ recvCq \in Seq(RecvWc)
    /\ failed \in BOOLEAN

\* A call that returns 0 has brought the answer to its own request, though the
\* only thing compared is the length, and though a call may have given up
\* before its answer came.
ReplyMatches ==
    \A t \in Threads : result[t] = "ok" => user[t] = call[t].number

\* All threads together have at most one request on the way, so that a poll
\* never finds two replies ("inlegal recv wc num").
OneOutstanding == Len(sendq) + Len(requests) + Len(replies) + Len(recvCq) <= 1

\* While no call has failed every receive slot is posted or holds the reply
\* about to be taken, and none is posted twice.
RecvSlotsKept ==
    qp = "connected" /\ ~failed =>
      /\ Len(posted) + Len(recvCq) = RxDepth
      /\ {posted[i] : i \in 1 .. Len(posted)}
           \cup {recvCq[i].slot : i \in 1 .. Len(recvCq)} = RxSlot

\* After a return on error nothing is ever posted again: this, not the check
\* of the length, is what keeps a late reply from a later call.
FailStop == [][failed => sendCur' = sendCur /\ Len(sendq') <= Len(sendq)]_vars

\* A child that closes an inherited descriptor last does not take the queue
\* pair away: only a close by an owner does.
UnharmedByChild == kernel = "crashed" => \E f \in Files : file[f] = "released"

\* Every call returns, whether or not the DPU answers; only the wait for
\* qp_mutex may last for ever, and only after a call has failed.
EveryCallReturns ==
    \A t \in Threads :
      pc[t] # "idle" ~>
        \/ pc[t] = "idle"
        \/ pc[t] = "lock" /\ failed
        \/ kernel = "crashed"
=============================================================================
