---------------------------- MODULE RecvScatter ----------------------------
(***************************************************************************)
(* Where received bytes go.  smartns_post_recv writes scatter lists into a *)
(* ring (lib/smartns_dv.cpp); the DPU takes one list for each SEND, and    *)
(* dma_send_payload_to_host (dpu/datapath.cpp) cuts every packet into DMA  *)
(* requests, with three cursors kept from packet to packet.  The packets   *)
(* of a WRITE go to the address of its first packet.  The end of a SEND    *)
(* writes a CQE, whose wr_id smartns_poll_cq looks up.  Packets arrive in  *)
(* order, as RcTransport shows; a CQ is the queue CompletionRing gives, the*)
(* ring's way to the DPU the one WqeRing gives.                            *)
(***************************************************************************)
EXTENDS Integers, Sequences

CONSTANTS
    N,            \* wqe_cnt of the receive ring
    HostMaxSge,   \* max_recv_sge as the application asked for it
    MaxSge,       \* the same rounded up to a power of two
    Mtu,          \* payload of a packet
    Lists,        \* scatter lists the application posts, as lengths
    Lengths,      \* lengths of the peer's messages
    MaxPosts,     \* bound: receives posted
    MaxMessages   \* bound: messages received

ASSUME RecvScatterAssumption ==
    /\ N \in Nat \ {0}
    /\ HostMaxSge \in Nat \ {0}
    /\ MaxSge \in Nat
    /\ HostMaxSge <= MaxSge
    /\ Mtu \in Nat \ {0}
    /\ Lists \subseteq Seq(Nat)
    /\ \A list \in Lists : Len(list) <= HostMaxSge
    /\ Lengths \subseteq Nat \ {0}
    /\ MaxPosts \in Nat
    /\ MaxMessages \in Nat

VARIABLES
    host,      \* the application: running, or where it called exit(1)
    head,      \* smartns_recv_wq.head
    tail,      \* smartns_recv_wq.tail
    ownFlag,   \* smartns_recv_wq.own_flag
    wrid,      \* smartns_recv_wq.wrid
    hostRing,  \* the ring on the host
    copying,   \* slots written and not copied to the DPU yet
    dpuRing,   \* the ring on the DPU
    lists,     \* history: the lists posted, in order
    dpu,       \* the DPU process: running, or where it ended
    recv_wq,   \* dpu_recv_wq: head, own_flag and the cursors
    message,   \* the message being received: kind, length, bytes arrived
    rest,      \* now_size: bytes of the packet not placed yet
    reqs,      \* DMA requests of the message being received
    sendCnt,   \* history: SENDs received to the end
    messages,  \* messages begun
    cq,        \* CQEs not polled
    wc         \* the last work completion

ring == <<ownFlag, wrid, hostRing, copying, lists>>
transfer == <<message, rest, reqs, messages>>
vars == <<host, head, tail, ring, dpuRing, dpu, recv_wq, transfer, sendCnt, cq, wc>>

None == -1
Slot == 0 .. N - 1
SgeIndex == 0 .. MaxSge - 1

\* A scatter element: the element i of the n-th list, or the mark behind the
\* last element (lkey 100), or memory never written.
Sge == [kind : {"buffer", "end", "zero"}, list : Nat, index : Nat, byte_count : Nat]

Buffer(n, i, length) == [kind |-> "buffer", list |-> n, index |-> i, byte_count |-> length]
Mark(kind) == [kind |-> kind, list |-> 0, index |-> 0, byte_count |-> 0]

\* A WQE: the elements, and the owner bit of the first.
Wqe == [op_own : {0, 1}, sge : [SgeIndex -> Sge]]

\* A DMA request to part of a scatter element, or of a WRITE's region; from is
\* the message's byte it starts at (history).
DmaReq == [list : Nat \cup {None}, index : Nat, offset : Nat, length : Nat, from : Nat]

\* A CQE of kind MLX5_CQE_RESP_SEND; length is that of the message (history).
Cqe == [wqe_counter : Slot, byte_count : Nat, number : Nat, length : Nat]

RecvWq == [head : Slot, own_flag : {0, 1}, now_sge_num : Nat, now_sge_offset : Nat,
           now_total_dma_byte : Nat, offset : Nat, resid : Int]

NoMessage == [kind |-> "none", length |-> 0, arrived |-> 0]

EmptyRing == [i \in Slot |-> [op_own |-> 0, sge |-> [j \in SgeIndex |-> Mark("zero")]]]

Init ==
    /\ host = "running"
    /\ head = 0
    /\ tail = 0
    /\ ownFlag = 1
    /\ wrid = [i \in Slot |-> None]
    /\ hostRing = EmptyRing
    /\ copying = <<>>
    /\ dpuRing = EmptyRing
    /\ lists = <<>>
    /\ dpu = "running"
    /\ recv_wq = [head |-> 0, own_flag |-> 1, now_sge_num |-> 0, now_sge_offset |-> 0,
                  now_total_dma_byte |-> 0, offset |-> 0, resid |-> 0]
    /\ message = NoMessage
    /\ rest = None
    /\ reqs = <<>>
    /\ sendCnt = 0
    /\ messages = 0
    /\ cq = <<>>
    /\ wc = [wr_id |-> None, byte_len |-> 0, number |-> None, length |-> 0]

-----------------------------------------------------------------------------
(* smartns_post_recv, a list of one request *)

\* head - tail reaches the size of the ring.
RingFull == head - tail >= N

\* "post recv wq full": exit(1).
PostFull ==
    /\ host = "running"
    /\ Len(lists) < MaxPosts
    /\ RingFull
    /\ host' = "full"
    /\ UNCHANGED <<head, tail, ring, dpuRing, dpu, recv_wq, transfer, sendCnt, cq, wc>>

\* Mutant: the mark behind a short list is left out.
EndsNever(list) == FALSE

\* A list shorter than asked for is ended by a mark.
Ends(list) == Len(list) < HostMaxSge

\* What a slot holds after a list is written over what it held.
Written(old, n, list) ==
    [op_own |-> ownFlag,
     sge |-> [j \in SgeIndex |->
                IF j < Len(list) THEN Buffer(n, j, list[j + 1])
                ELSE IF j = Len(list) /\ Ends(list) THEN Mark("end")
                ELSE old.sge[j]]]

\* Mutant: the owner flag is never turned.
OwnNeverFlips(ind) == ownFlag

\* The owner flag after the slot ind: turned at the end of the ring.
OwnAfter(ind) == IF ind + 1 = N THEN 1 - ownFlag ELSE ownFlag

PostRecv(list) ==
    LET ind == head % N
    IN  /\ host = "running"
        /\ Len(lists) < MaxPosts
        /\ ~RingFull
        /\ hostRing' = [hostRing EXCEPT ![ind] = Written(@, Len(lists), list)]
        /\ copying' = Append(copying, ind)
        /\ wrid' = [wrid EXCEPT ![ind] = Len(lists)]
        /\ ownFlag' = OwnAfter(ind)
        /\ head' = head + 1
        /\ lists' = Append(lists, list)
        /\ UNCHANGED <<host, tail, dpuRing, dpu, recv_wq, transfer, sendCnt, cq, wc>>

\* The NIC copies a slot to the DPU, as long as its process has the memory.
DmaCopy ==
    /\ dpu = "running"
    /\ copying # <<>>
    /\ dpuRing' = [dpuRing EXCEPT ![Head(copying)] = hostRing[Head(copying)]]
    /\ copying' = Tail(copying)
    /\ UNCHANGED <<host, head, tail, ownFlag, wrid, hostRing, lists, dpu, recv_wq,
                   transfer, sendCnt, cq, wc>>

-----------------------------------------------------------------------------
(* rxe_handle_recv *)

PacketSize == IF message.length - message.arrived < Mtu
                THEN message.length - message.arrived ELSE Mtu

\* The first packet of a message of the peer is next.
BeginMessage(kind, length) ==
    /\ dpu = "running"
    /\ message = NoMessage
    /\ messages < MaxMessages
    /\ message' = [kind |-> kind, length |-> length, arrived |-> 0]
    /\ messages' = messages + 1
    /\ reqs' = <<>>
    /\ recv_wq' = IF kind = "WRITE"
                    THEN [recv_wq EXCEPT !.offset = 0, !.resid = length]  \* RETH
                    ELSE recv_wq
    /\ UNCHANGED <<host, head, tail, ring, dpuRing, dpu, rest, sendCnt, cq, wc>>

\* dpu_recv_wq.get_next_wqe
OwnerMatches == dpuRing[recv_wq.head].op_own = recv_wq.own_flag

\* A packet of a SEND: without a receive WQE the process ends.
SendPacket ==
    /\ dpu = "running"
    /\ message.kind = "SEND"
    /\ rest = None
    /\ message.arrived < message.length
    /\ IF OwnerMatches
         THEN /\ rest' = PacketSize
              /\ message' = [message EXCEPT !.arrived = @ + PacketSize]
              /\ UNCHANGED dpu
         ELSE /\ dpu' = "no receive"
              /\ UNCHANGED <<rest, message>>
    /\ UNCHANGED <<host, head, tail, ring, dpuRing, recv_wq, reqs, messages, sendCnt, cq, wc>>

\* The scatter element the cursor is at.
NowSge == dpuRing[recv_wq.head].sge[recv_wq.now_sge_num]
RemainSgeByte == NowSge.byte_count - recv_wq.now_sge_offset

PostDmaReq(length) ==
    reqs' = Append(reqs, [list |-> NowSge.list, index |-> NowSge.index,
                          offset |-> recv_wq.now_sge_offset, length |-> length,
                          from |-> message.arrived - rest])

\* The request fills its element up.
AtEnd(length) == recv_wq.now_sge_offset + length = NowSge.byte_count

\* A turn of the loop: the rest of the packet fits.
ScatterLast ==
    /\ dpu = "running"
    /\ message.kind = "SEND"
    /\ rest # None
    /\ recv_wq.now_sge_num < MaxSge
    /\ NowSge.kind # "end"
    /\ RemainSgeByte >= rest
    /\ PostDmaReq(rest)
    /\ recv_wq' = [recv_wq EXCEPT
         !.now_total_dma_byte = @ + rest,
         !.now_sge_offset = IF AtEnd(rest) THEN 0 ELSE @ + rest,
         !.now_sge_num = IF AtEnd(rest) THEN @ + 1 ELSE @]
    /\ rest' = None
    /\ UNCHANGED <<host, head, tail, ring, dpuRing, dpu, message, messages, sendCnt, cq, wc>>

\* A turn of the loop: the element is filled and the next one taken.
ScatterMore ==
    /\ dpu = "running"
    /\ message.kind = "SEND"
    /\ rest # None
    /\ recv_wq.now_sge_num < MaxSge
    /\ NowSge.kind # "end"
    /\ RemainSgeByte < rest
    /\ PostDmaReq(RemainSgeByte)
    /\ recv_wq' = [recv_wq EXCEPT
         !.now_total_dma_byte = @ + RemainSgeByte,
         !.now_sge_offset = 0,
         !.now_sge_num = @ + 1]
    /\ rest' = rest - RemainSgeByte
    /\ UNCHANGED <<host, head, tail, ring, dpuRing, dpu, message, messages, sendCnt, cq, wc>>

\* assert(lkey != 100), or assert(now_size == 0) behind the last element.
ScatterAbort ==
    /\ dpu = "running"
    /\ message.kind = "SEND"
    /\ rest # None
    /\ recv_wq.now_sge_num < MaxSge => NowSge.kind = "end"
    /\ dpu' = "too long"
    /\ UNCHANGED <<host, head, tail, ring, dpuRing, recv_wq, transfer, sendCnt, cq, wc>>

\* A packet of a WRITE: dma_write_payload_to_host.
WritePacket ==
    /\ dpu = "running"
    /\ message.kind = "WRITE"
    /\ message.arrived < message.length
    /\ reqs' = Append(reqs, [list |-> None, index |-> 0, offset |-> recv_wq.offset,
                             length |-> PacketSize, from |-> message.arrived])
    /\ recv_wq' = [recv_wq EXCEPT !.offset = @ + PacketSize, !.resid = @ - PacketSize]
    /\ message' = [message EXCEPT !.arrived = @ + PacketSize]
    /\ UNCHANGED <<host, head, tail, ring, dpuRing, dpu, rest, messages, sendCnt, cq, wc>>

\* Mutant: the cursors are not reset.
CursorsKept(wq) == wq

\* dpu_recv_wq.step_wq resets the cursors ...
CursorsReset(wq) ==
    [wq EXCEPT !.now_sge_num = 0, !.now_sge_offset = 0, !.now_total_dma_byte = 0]

\* Mutant: the head does not wrap.
NextSlotUnwrapped(i) == i + 1

NextSlot(i) == IF i + 1 = N THEN 0 ELSE i + 1

\* ... and goes to the next WQE.
StepWq(wq) ==
    [CursorsReset(wq) EXCEPT
        !.head = NextSlot(@),
        !.own_flag = IF wq.head + 1 = N THEN 1 - @ ELSE @]

\* The last packet of a SEND: the CQE is written and the WQE stepped over.
EndSend ==
    /\ dpu = "running"
    /\ message.kind = "SEND"
    /\ rest = None
    /\ message.arrived = message.length
    /\ cq' = Append(cq, [wqe_counter |-> recv_wq.head,
                         byte_count |-> recv_wq.now_total_dma_byte,
                         number |-> sendCnt, length |-> message.length])
    /\ recv_wq' = StepWq(recv_wq)
    /\ sendCnt' = sendCnt + 1
    /\ message' = NoMessage
    /\ UNCHANGED <<host, head, tail, ring, dpuRing, dpu, rest, reqs, messages, wc>>

\* The last packet of a WRITE completes nothing on this side.
EndWrite ==
    /\ dpu = "running"
    /\ message.kind = "WRITE"
    /\ message.arrived = message.length
    /\ message' = NoMessage
    /\ UNCHANGED <<host, head, tail, ring, dpuRing, dpu, recv_wq, rest, reqs, messages,
                   sendCnt, cq, wc>>

-----------------------------------------------------------------------------
(* smartns_poll_cq, a CQE of kind MLX5_CQE_RESP_SEND *)

PollCq ==
    /\ host = "running"
    /\ cq # <<>>
    /\ wc' = [wr_id |-> wrid[Head(cq).wqe_counter % N], byte_len |-> Head(cq).byte_count,
              number |-> Head(cq).number, length |-> Head(cq).length]
    /\ tail' = tail + 1
    /\ cq' = Tail(cq)
    /\ UNCHANGED <<host, head, ring, dpuRing, dpu, recv_wq, transfer, sendCnt>>

-----------------------------------------------------------------------------
Next ==
    \/ PostFull
    \/ \E list \in Lists : PostRecv(list)
    \/ DmaCopy
    \/ \E kind \in {"SEND", "WRITE"}, length \in Lengths : BeginMessage(kind, length)
    \/ SendPacket
    \/ ScatterLast
    \/ ScatterMore
    \/ ScatterAbort
    \/ WritePacket
    \/ EndSend
    \/ EndWrite
    \/ PollCq

Spec == Init /\ [][Next]_vars

-----------------------------------------------------------------------------
(* Properties *)

\* Every variable keeps its type.
TypeOK ==
    /\ host \in {"running", "full"}
    /\ head \in Nat
    /\ tail \in Nat
    /\ ownFlag \in {0, 1}
    /\ wrid \in [Slot -> Nat \cup {None}]
    /\ hostRing \in [Slot -> Wqe]
    /\ copying \in Seq(Slot)
    /\ dpuRing \in [Slot -> Wqe]
    /\ lists \in Seq(Lists)
    /\ dpu \in {"running", "no receive", "too long"}
    /\ recv_wq \in RecvWq
    /\ message \in [kind : {"none", "SEND", "WRITE"}, length : Nat, arrived : Nat]
    /\ rest \in Nat \cup {None}
    /\ reqs \in Seq(DmaReq)
    /\ sendCnt \in Nat
    /\ messages \in Nat
    /\ cq \in Seq(Cqe)
    /\ wc \in [wr_id : Nat \cup {None}, byte_len : Nat, number : Nat \cup {None}, length : Nat]

\* The sum of the first n numbers of a list, for each n, and of all of them.
SumTo(list) ==
    LET sum[n \in 0 .. Len(list)] == IF n = 0 THEN 0 ELSE sum[n - 1] + list[n]
    IN  sum
Sum(list) == SumTo(list)[Len(list)]

\* The list a SEND being received is meant for: the n-th SEND takes the n-th.
Meant == lists[sendCnt + 1]

\* Every byte of a SEND goes to the byte of its own scatter list that has the
\* same place in it, whatever the cuts between packets and between elements:
\* reading the list front to back gives the message.  Every byte of a WRITE
\* goes to its place in the region, and resid counts what is missing.
PlacedExactly ==
    /\ message.kind = "SEND" =>
         \A i \in 1 .. Len(reqs) : reqs[i].length > 0 =>
           /\ reqs[i].list = sendCnt
           /\ reqs[i].offset + reqs[i].length <= Meant[reqs[i].index + 1]
           /\ reqs[i].from = SumTo(Meant)[reqs[i].index] + reqs[i].offset
    /\ message.kind = "WRITE" =>
         /\ \A i \in 1 .. Len(reqs) : reqs[i].offset = reqs[i].from
         /\ recv_wq.resid = message.length - message.arrived
    /\ message # NoMessage /\ rest = None =>
         Sum([i \in 1 .. Len(reqs) |-> reqs[i].length]) = message.arrived

\* A work completion has the wr_id of the receive whose list was filled and
\* the length of the message.
RecvWcExact == wc.wr_id = wc.number /\ wc.byte_len = wc.length

\* The process only ends for a SEND that has no receive visible to the DPU, or
\* is longer than the list it takes.
EndsJustified ==
    /\ dpu = "no receive" => Len(lists) - Len(copying) <= sendCnt
    /\ dpu = "too long" => message.length > Sum(Meant)
=============================================================================
