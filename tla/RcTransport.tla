---------------------------- MODULE RcTransport ----------------------------
(***************************************************************************)
(* The reliable-connection transport the DPU runs for a connected pair of  *)
(* queue pairs: the requester (src/rxe/rxe_req.cpp), the responder and the *)
(* completer (src/rxe/rxe_recv.cpp), driven at each end by one datapath    *)
(* thread (src/dpu/main.cpp, server_datapath).                             *)
(*                                                                         *)
(* One action is one iteration of a loop of the code: one WQE taken from   *)
(* the host's ring, one turn of rxe_handle_req's loop, one packet of       *)
(* rxe_handle_recv, one turn of its completion loop.  pc says in which of  *)
(* the three handlers the thread is, so the order of the handlers is kept. *)
(* Lengths are counted in MTUs; a packet carries the identity of the       *)
(* fragment of the message it transports instead of its bytes, and, for    *)
(* the properties only, its sequence number before it is cut to a PSN.     *)
(***************************************************************************)
EXTENDS Psn, Sequences, SequencesExt, FiniteSets

CONSTANTS
    Endpoint,        \* the two queue pairs
    Peer,            \* qp->remote_qp_number
    Workload,        \* the work requests each host posts, in order
    WqeCnt,          \* dpu_send_wq.wqe_cnt
    MaxOutstanding,  \* work requests a host keeps uncompleted
    MaxUnacked,      \* RXE_MAX_UNACKED_PSNS
    MaxPktPerAck,    \* RXE_MAX_PKT_PER_ACK
    RxDepth,         \* receive buffers of the datapath thread
    MaxFaults        \* bound on lost, duplicated and delayed packets

WorkRequest ==
    [op : {"SEND", "WRITE", "DRIVER1"}, len : Nat, signal : BOOLEAN]

ASSUME TransportAssumption ==
    /\ Cardinality(Endpoint) = 2
    /\ Peer \in [Endpoint -> Endpoint]
    /\ \A e \in Endpoint : Peer[e] # e /\ Peer[Peer[e]] = e
    /\ Workload \in [Endpoint -> Seq(WorkRequest)]
    /\ WqeCnt \in Nat \ {0}
    /\ MaxOutstanding \in Nat
    /\ MaxPktPerAck \in Nat
    /\ MaxUnacked \in Nat
    /\ 2 * (MaxUnacked + 1) < PsnMod
    /\ RxDepth \in Nat
    /\ MaxFaults \in Nat

VARIABLES
    pc,          \* handler the datapath thread is in: loop, send, recv, ack, abort
    taken,       \* work requests copied from the host's ring so far
    ring,        \* dpu_send_wq.bf_send_wq_buf
    head, tail,  \* dpu_send_wq.head, .tail
    wqeIndex,    \* dpu_send_wq.wqe_index
    active,      \* the queue pair is in active_qp_list
    sendPsn,     \* dpu_send_wq.psn
    sendOpcode,  \* dpu_send_wq.opcode
    noackPkts,   \* dpu_send_wq.noack_pkts
    compPsn,     \* dpu_comp_info.psn
    recvPsn,     \* dpu_recv_wq.psn
    ackPsn,      \* dpu_recv_wq.ack_psn
    sentNak,     \* dpu_recv_wq.sent_psn_nak
    net,         \* packets on their way to an endpoint
    rxFree,      \* receive buffers posted to the NIC
    faults,      \* faults of the network so far
    sent,        \* history: fragments put on the wire
    executed,    \* history: fragments handed to the DMA to the host's memory
    recvCqes,    \* history: receive completions delivered to the host
    completed    \* history: messages retired at the tail of the send ring

ringVars == <<taken, ring, head, tail, wqeIndex, active>>
reqVars  == <<sendPsn, sendOpcode, noackPkts, sent>>
respVars == <<recvPsn, ackPsn, sentNak, executed, recvCqes>>
vars == <<pc, ringVars, reqVars, compPsn, respVars, net, rxFree, faults,
          completed>>

-----------------------------------------------------------------------------
(* Work requests and opcodes *)

WqeState == {"posted", "processing", "pending"}
Wqe == [msg : Nat, state : WqeState, off : Nat, lastPsn : PSN]

EmptyWqe == [msg |-> 0, state |-> "posted", off |-> 0, lastPsn |-> 0]

\* The work request a WQE was copied from.
Wr(e, w) == Workload[e][w.msg]

\* Packets of a message, (byte_count + mtu - 1) / mtu and at least one.
NumPkt(wr) == IF wr.len = 0 THEN 1 ELSE wr.len

Opcode == [op : {"SEND", "WRITE"}, pos : {"FIRST", "MIDDLE", "LAST", "ONLY"}]

IsStart(opcode) == opcode.pos \in {"FIRST", "ONLY"}   \* RXE_START_MASK
IsEnd(opcode)   == opcode.pos \in {"LAST", "ONLY"}    \* RXE_END_MASK

\* Mutant: the masks of SEND_LAST and SEND_ONLY copied to the WRITE opcodes.
CompletesAlsoWrite(opcode) == IsEnd(opcode)

\* RXE_COMP_MASK: only the end of a SEND consumes a receive WQE.
Completes(opcode) == opcode.op = "SEND" /\ IsEnd(opcode)

\* Mutant: the opcode of the previous packet is ignored, every packet that
\* fits in one MTU starts a message.
NextOpcodeForgetful(e, w) ==
    [op  |-> Wr(e, w).op,
     pos |-> IF Wr(e, w).len - w.off <= 1 THEN "ONLY" ELSE "FIRST"]

\* next_opcode: whether a packet starts or continues a message is read off
\* the opcode of the previous packet of the queue pair, not off the WQE.
NextOpcode(e, w) ==
    LET fits == Wr(e, w).len - w.off <= 1
        inside == /\ sendOpcode[e].op = Wr(e, w).op
                  /\ sendOpcode[e].pos \in {"FIRST", "MIDDLE"}
    IN  [op  |-> Wr(e, w).op,
         pos |-> IF inside THEN IF fits THEN "LAST" ELSE "MIDDLE"
                           ELSE IF fits THEN "ONLY" ELSE "FIRST"]

-----------------------------------------------------------------------------
(* Packets *)

ReqPacket == [kind : {"REQ"}, psn : PSN, ackReq : BOOLEAN, opcode : Opcode,
              frag : Nat \X Nat, number : Nat]
AckPacket == [kind : {"ACK", "NAK"}, psn : PSN, number : Int]
Packet == ReqPacket \cup AckPacket

\* send_ack: AETH_ACK_UNLIMITED ("ACK") or AETH_NAK_PSN_SEQ_ERROR ("NAK").
SendAck(e, kind, psn, number) ==
    net' = [net EXCEPT ![e] = Tail(@),
                       ![Peer[e]] = Append(@, [kind |-> kind, psn |-> psn,
                                               number |-> number])]

\* The handler is done with the packet at the head of its queue.
Consume(e) == net' = [net EXCEPT ![e] = Tail(@)]

-----------------------------------------------------------------------------
(* The initial state: both queue pairs created and connected.  handle_create_qp
   sets send_wq->opcode to 0, which is the code of SEND_FIRST. *)

Init ==
    /\ pc = [e \in Endpoint |-> "loop"]
    /\ taken = [e \in Endpoint |-> 0]
    /\ ring = [e \in Endpoint |-> [i \in 0 .. WqeCnt - 1 |-> EmptyWqe]]
    /\ head = [e \in Endpoint |-> 0]
    /\ tail = [e \in Endpoint |-> 0]
    /\ wqeIndex = [e \in Endpoint |-> 0]
    /\ active = [e \in Endpoint |-> FALSE]
    /\ sendPsn = [e \in Endpoint |-> 0]
    /\ sendOpcode = [e \in Endpoint |-> [op |-> "SEND", pos |-> "FIRST"]]
    /\ noackPkts = [e \in Endpoint |-> 0]
    /\ compPsn = [e \in Endpoint |-> 0]
    /\ recvPsn = [e \in Endpoint |-> 0]
    /\ ackPsn = [e \in Endpoint |-> 0]
    /\ sentNak = [e \in Endpoint |-> FALSE]
    /\ net = [e \in Endpoint |-> <<>>]
    /\ rxFree = [e \in Endpoint |-> RxDepth]
    /\ faults = 0
    /\ sent = [e \in Endpoint |-> <<>>]
    /\ executed = [e \in Endpoint |-> <<>>]
    /\ recvCqes = [e \in Endpoint |-> 0]
    /\ completed = [e \in Endpoint |-> <<>>]

-----------------------------------------------------------------------------
(* loop_datapath_send_wq: the WQEs the host's DMA made visible *)

Step(index) == (index + 1) % WqeCnt      \* step_head, step_tail, step_wqe_index

IsEmpty(e) == head[e] = tail[e]          \* dpu_send_wq::is_empty

\* The host knows of a completion from the CQE of a signalled request.
HostTail(e) ==
    LET seen == {m \in ToSet(completed[e]) : Workload[e][m].signal}
    IN  IF seen = {} THEN 0 ELSE CHOOSE m \in seen : \A k \in seen : k <= m

\* Mutant: the copy keeps the offset the slot's previous message ended with.
CopiedWqeStale(e) ==
    [EmptyWqe EXCEPT !.msg = taken[e] + 1, !.off = ring[e][head[e]].off]

\* The WQE as loop_datapath_send_wq leaves it in the send ring.
CopiedWqe(e) == [EmptyWqe EXCEPT !.msg = taken[e] + 1]

TakeWqe(e) ==
    /\ pc[e] = "loop"
    /\ taken[e] < Len(Workload[e])
    /\ taken[e] - HostTail(e) < MaxOutstanding
    /\ active' = [active EXCEPT ![e] = @ \/ IsEmpty(e)]
    /\ ring' = [ring EXCEPT ![e][head[e]] = CopiedWqe(e)]
    /\ head' = [head EXCEPT ![e] = Step(@)]
    /\ taken' = [taken EXCEPT ![e] = @ + 1]
    /\ UNCHANGED <<pc, tail, wqeIndex, reqVars, compPsn, respVars, net, rxFree,
                   faults, completed>>

LoopDone(e) ==
    /\ pc[e] = "loop"
    /\ pc' = [pc EXCEPT ![e] = "send"]
    /\ UNCHANGED <<ringVars, reqVars, compPsn, respVars, net, rxFree, faults,
                   completed>>

-----------------------------------------------------------------------------
(* handle_send, rxe_handle_req: the requester *)

CurWqe(e) == ring[e][wqeIndex[e]]

\* The requester steps over this WQE: all its packets are sent.
IsSent(e, w) == w.state = "pending" \/ w.off = Wr(e, w).len

\* Mutant: the window test is dropped.
WindowAlwaysOpen(e) == TRUE

\* The send window: PSNs up to RXE_MAX_UNACKED_PSNS beyond the oldest
\* unacknowledged one may be sent, MaxUnacked + 1 of them in all.
WindowOpen(e) == PsnCompare(sendPsn[e], compPsn[e] + MaxUnacked) <= 0

\* The requester has a WQE to work on.
Busy(e) == active[e] /\ ~IsEmpty(e) /\ wqeIndex[e] # head[e]

\* Nothing (more) to send now; an empty queue pair leaves the active list.
LeaveSend(e) ==
    /\ pc[e] = "send"
    /\ Busy(e) => ~IsSent(e, CurWqe(e)) /\ ~WindowOpen(e)
    /\ active' = [active EXCEPT ![e] = @ /\ ~IsEmpty(e)]
    /\ pc' = [pc EXCEPT ![e] = "recv"]
    /\ UNCHANGED <<taken, ring, head, tail, wqeIndex, reqVars, compPsn,
                   respVars, net, rxFree, faults, completed>>

SkipWqe(e) ==
    /\ pc[e] = "send"
    /\ Busy(e)
    /\ IsSent(e, CurWqe(e))
    /\ wqeIndex' = [wqeIndex EXCEPT ![e] = Step(@)]
    /\ UNCHANGED <<pc, taken, ring, head, tail, active, reqVars, compPsn,
                   respVars, net, rxFree, faults, completed>>

\* Mutant: the completion is written but the tail is not stepped.
RetireTailStuck(e) ==
    /\ completed' = [completed EXCEPT ![e] = Append(@, ring[e][tail[e]].msg)]
    /\ UNCHANGED tail

\* The WQE at the tail of the send ring is retired; its CQE, if it asked for
\* one, is on its way to the host.
RetireTail(e) ==
    /\ completed' = [completed EXCEPT ![e] = Append(@, ring[e][tail[e]].msg)]
    /\ tail' = [tail EXCEPT ![e] = Step(@)]

\* IBV_WR_DRIVER1 is completed at once, no packet is sent.
CompleteDriver1(e) ==
    /\ pc[e] = "send"
    /\ Busy(e)
    /\ ~IsSent(e, CurWqe(e))
    /\ WindowOpen(e)
    /\ Wr(e, CurWqe(e)).op = "DRIVER1"
    /\ wqeIndex' = [wqeIndex EXCEPT ![e] = Step(@)]
    /\ tail' = [tail EXCEPT ![e] = Step(@)]
    /\ completed' = [completed EXCEPT ![e] = Append(@, CurWqe(e).msg)]
    /\ UNCHANGED <<pc, taken, ring, head, active, reqVars, compPsn, respVars,
                   net, rxFree, faults>>

\* Mutant: no acknowledgement is asked for inside a message.
AckAtEndOnly(e, opcode) == IsEnd(opcode)

\* init_req_packet: the BTH_ACK_MASK bit of a packet.
AckRequested(e, opcode) ==
    IsEnd(opcode) \/ noackPkts[e] + 1 > MaxPktPerAck

\* The WQE after one more of its packets is sent; its PSN range is fixed by
\* the packet that starts the message.
SentWqe(e, w, opcode) ==
    [w EXCEPT !.off = @ + 1,
              !.state = IF IsEnd(opcode) THEN "pending" ELSE "processing",
              !.lastPsn = IF IsStart(opcode)
                            THEN PsnAdd(sendPsn[e], NumPkt(Wr(e, w)) - 1)
                            ELSE @]

SendPacket(e) ==
    /\ pc[e] = "send"
    /\ Busy(e)
    /\ ~IsSent(e, CurWqe(e))
    /\ WindowOpen(e)
    /\ Wr(e, CurWqe(e)).op # "DRIVER1"
    /\ LET w == CurWqe(e)
           opcode == NextOpcode(e, w)
           ackReq == AckRequested(e, opcode)
       IN  /\ ring' = [ring EXCEPT ![e][wqeIndex[e]] = SentWqe(e, w, opcode)]
           /\ noackPkts' = [noackPkts EXCEPT ![e] = IF ackReq THEN 0 ELSE @ + 1]
           /\ net' = [net EXCEPT ![Peer[e]] =
                        Append(@, [kind |-> "REQ", psn |-> sendPsn[e],
                                   ackReq |-> ackReq, opcode |-> opcode,
                                   frag |-> <<w.msg, w.off + 1>>,
                                   number |-> Len(sent[e])])]
           /\ sent' = [sent EXCEPT ![e] = Append(@, <<w.msg, w.off + 1>>)]
           /\ sendPsn' = [sendPsn EXCEPT ![e] = PsnAdd(@, 1)]
           /\ sendOpcode' = [sendOpcode EXCEPT ![e] = opcode]
           /\ wqeIndex' = [wqeIndex EXCEPT ![e] =
                             IF IsEnd(opcode) THEN Step(@) ELSE @]
    /\ UNCHANGED <<pc, taken, head, tail, active, compPsn, respVars, rxFree,
                   faults, completed>>

-----------------------------------------------------------------------------
(* rxe_handle_recv: the responder *)

\* A packet of the given kinds is the next one polled from the receive queue.
Polled(e, kinds) ==
    /\ pc[e] = "recv"
    /\ net[e] # <<>>
    /\ rxFree[e] > 0
    /\ Head(net[e]).kind \in kinds

\* A gap: the first one is answered with a NAK for the PSN expected, the
\* following ones are ignored.  The packet's receive buffer is not reposted.
RecvOutOfOrder(e) ==
    /\ Polled(e, {"REQ"})
    /\ PsnCompare(Head(net[e]).psn, recvPsn[e]) > 0
    /\ IF sentNak[e] THEN Consume(e)
         ELSE SendAck(e, "NAK", recvPsn[e], Len(executed[e]))
    /\ sentNak' = [sentNak EXCEPT ![e] = TRUE]
    /\ rxFree' = [rxFree EXCEPT ![e] = @ - 1]
    /\ UNCHANGED <<pc, ringVars, reqVars, compPsn, recvPsn, ackPsn, executed,
                   recvCqes, faults, completed>>

\* Mutant: a duplicate is acknowledged with the PSN expected next.
DuplicateAckAhead(e) == ackPsn[e]

\* The PSN a duplicate request is acknowledged with.
DuplicateAckPsn(e) == PsnAdd(ackPsn[e], -1)

\* A PSN behind the expected one is taken for a duplicate: acknowledged again,
\* not executed.  The packet's receive buffer is not reposted.
RecvDuplicate(e) ==
    /\ Polled(e, {"REQ"})
    /\ PsnCompare(Head(net[e]).psn, recvPsn[e]) < 0
    /\ SendAck(e, "ACK", DuplicateAckPsn(e), Len(executed[e]) - 1)
    /\ rxFree' = [rxFree EXCEPT ![e] = @ - 1]
    /\ UNCHANGED <<pc, ringVars, reqVars, compPsn, respVars, faults, completed>>

\* Mutant: a packet ahead of the expected one is executed like the expected one.
InOrderOrAhead(e, p) == PsnCompare(p.psn, recvPsn[e]) >= 0

\* The request is the one expected next.
InOrder(e, p) == PsnCompare(p.psn, recvPsn[e]) = 0

RecvInOrder(e) ==
    /\ Polled(e, {"REQ"})
    /\ LET p == Head(net[e])
       IN  /\ InOrder(e, p)
           /\ executed' = [executed EXCEPT ![e] = Append(@, p.frag)]
           /\ recvPsn' = [recvPsn EXCEPT ![e] = PsnAdd(p.psn, 1)]
           /\ ackPsn' = [ackPsn EXCEPT ![e] = PsnAdd(p.psn, 1)]
           /\ recvCqes' = [recvCqes EXCEPT ![e] =
                             IF Completes(p.opcode) THEN @ + 1 ELSE @]
           /\ IF p.ackReq THEN SendAck(e, "ACK", p.psn, Len(executed[e]))
                ELSE Consume(e)
    /\ sentNak' = [sentNak EXCEPT ![e] = FALSE]
    /\ UNCHANGED <<pc, ringVars, reqVars, compPsn, rxFree, faults, completed>>

-----------------------------------------------------------------------------
(* rxe_handle_recv: the completer.  Its while loop keeps the acknowledgement
   at the head of the queue until a turn breaks out of it. *)

Acking(e) ==
    \/ pc[e] = "ack"
    \/ Polled(e, {"ACK", "NAK"})

TailWqe(e) == ring[e][tail[e]]

\* complete_send_wqe on a pending WQE: the assignment meant for the completer's
\* PSN is made to the responder's (qp->recv_wq->psn).
CompletedRecvPsn(e, w) ==
    IF w.state = "pending" /\ PsnCompare(w.lastPsn, recvPsn[e]) >= 0
      THEN PsnAdd(w.lastPsn, 1) ELSE recvPsn[e]

CompleteSendWqe(e) ==
    /\ recvPsn' = [recvPsn EXCEPT ![e] = CompletedRecvPsn(e, TailWqe(e))]
    /\ RetireTail(e)

\* Nothing is outstanding at the tail.
NothingToComplete(e) == IsEmpty(e) \/ TailWqe(e).state = "posted"

\* The acknowledgement lies beyond the WQE's last packet.
PassedBy(e, w, psn) == PsnCompare(psn, w.lastPsn) > 0

\* The acknowledgement covers a WQE: it is completed and the loop goes on.  If
\* the WQE's packets are not all sent, the thread stops at assert(false).
AckPassed(e) ==
    /\ Acking(e)
    /\ ~NothingToComplete(e)
    /\ PassedBy(e, TailWqe(e), Head(net[e]).psn)
    /\ IF TailWqe(e).state = "pending"
         THEN CompleteSendWqe(e) /\ pc' = [pc EXCEPT ![e] = "ack"]
         ELSE /\ pc' = [pc EXCEPT ![e] = "abort"]
              /\ UNCHANGED <<recvPsn, tail, completed>>
    /\ UNCHANGED <<taken, ring, head, wqeIndex, active, reqVars, compPsn,
                   ackPsn, sentNak, executed, recvCqes, net, rxFree, faults>>

AckNothing(e) ==
    /\ Acking(e)
    /\ NothingToComplete(e)
    /\ Consume(e)
    /\ pc' = [pc EXCEPT ![e] = "recv"]
    /\ UNCHANGED <<ringVars, reqVars, compPsn, respVars, rxFree, faults,
                   completed>>

\* The WQE the acknowledgement ends in, or stops short of.
AckAt(e) ==
    /\ Acking(e)
    /\ ~NothingToComplete(e)
    /\ ~PassedBy(e, TailWqe(e), Head(net[e]).psn)

\* Mutant: an old acknowledgement is taken for a new one.
FreshAlways(e, psn) == TRUE

\* The acknowledgement tells more than was known.
Fresh(e, psn) == PsnCompare(psn, compPsn[e]) >= 0

\* An acknowledgement already accounted for.
AckStale(e) ==
    /\ AckAt(e)
    /\ ~Fresh(e, Head(net[e]).psn)
    /\ IF Head(net[e]).psn = TailWqe(e).lastPsn
         THEN CompleteSendWqe(e)
         ELSE UNCHANGED <<recvPsn, tail, completed>>
    /\ Consume(e)
    /\ pc' = [pc EXCEPT ![e] = "recv"]
    /\ UNCHANGED <<taken, ring, head, wqeIndex, active, reqVars, compPsn,
                   ackPsn, sentNak, executed, recvCqes, rxFree, faults>>

\* A NAK is not handled: assert(false), nothing is ever retransmitted.
AckNak(e) ==
    /\ AckAt(e)
    /\ Fresh(e, Head(net[e]).psn)
    /\ Head(net[e]).kind = "NAK"
    /\ pc' = [pc EXCEPT ![e] = "abort"]
    /\ UNCHANGED <<ringVars, reqVars, compPsn, respVars, net, rxFree, faults,
                   completed>>

\* Mutant: comp_info->psn is not masked to 24 bits.
AckedCompPsnUnmasked(psn) == psn + 1

\* comp_info->psn after an acknowledgement.
AckedCompPsn(psn) == PsnAdd(psn, 1)

AckAdvance(e) ==
    /\ AckAt(e)
    /\ Fresh(e, Head(net[e]).psn)
    /\ Head(net[e]).kind = "ACK"
    /\ IF /\ TailWqe(e).state = "pending"
          /\ TailWqe(e).lastPsn = Head(net[e]).psn
         THEN CompleteSendWqe(e)
         ELSE UNCHANGED <<recvPsn, tail, completed>>
    /\ compPsn' = [compPsn EXCEPT ![e] = AckedCompPsn(Head(net[e]).psn)]
    /\ Consume(e)
    /\ pc' = [pc EXCEPT ![e] = "recv"]
    /\ UNCHANGED <<taken, ring, head, wqeIndex, active, reqVars, ackPsn,
                   sentNak, executed, recvCqes, rxFree, faults>>

\* The batch polled is finished; the thread goes back to the host's rings.
RecvDone(e) ==
    /\ pc[e] = "recv"
    /\ pc' = [pc EXCEPT ![e] = "loop"]
    /\ UNCHANGED <<ringVars, reqVars, compPsn, respVars, net, rxFree, faults,
                   completed>>

-----------------------------------------------------------------------------
(* The network between the DPUs and the NIC's receive queue.  Not part of the
   source: what an Ethernet may do to the packets. *)

\* Packets not yet polled by the handler.
InFlight(e) == (IF pc[e] = "ack" THEN 2 ELSE 1) .. Len(net[e])

Fault ==
    /\ faults < MaxFaults
    /\ faults' = faults + 1
    /\ UNCHANGED <<pc, ringVars, reqVars, compPsn, respVars, rxFree, completed>>

Lose(e) ==
    \E i \in InFlight(e) : net' = [net EXCEPT ![e] = RemoveAt(@, i)]

Duplicate(e) ==
    \E i \in InFlight(e) : net' = [net EXCEPT ![e] = Append(@, @[i])]

Delay(e) ==
    \E i \in InFlight(e) :
        net' = [net EXCEPT ![e] = Append(RemoveAt(@, i), @[i])]

\* No receive buffer is posted: the NIC drops what arrives.
DropNoBuffer(e) ==
    /\ rxFree[e] = 0
    /\ pc[e] # "ack"
    /\ net[e] # <<>>
    /\ Consume(e)
    /\ UNCHANGED <<pc, ringVars, reqVars, compPsn, respVars, rxFree, faults,
                   completed>>

-----------------------------------------------------------------------------
HandleSend(e) ==
    LeaveSend(e) \/ SkipWqe(e) \/ CompleteDriver1(e) \/ SendPacket(e)

HandleRecv(e) ==
    \/ RecvOutOfOrder(e) \/ RecvDuplicate(e) \/ RecvInOrder(e)
    \/ AckPassed(e) \/ AckNothing(e)
    \/ AckStale(e) \/ AckNak(e) \/ AckAdvance(e)

Network(e) ==
    \/ Fault /\ (Lose(e) \/ Duplicate(e) \/ Delay(e))
    \/ DropNoBuffer(e)

Next ==
    \E e \in Endpoint :
        \/ TakeWqe(e) \/ LoopDone(e)
        \/ HandleSend(e)
        \/ HandleRecv(e) \/ RecvDone(e)
        \/ Network(e)

\* server_datapath spins over its three handlers, so each goes on as long as
\* it has something to do.  A packet in flight is there at some later poll,
\* although any single poll may miss it: strong fairness.  Whether the host
\* posts a further request is its own affair.
Fairness ==
    \A e \in Endpoint :
        /\ WF_vars(LoopDone(e))
        /\ WF_vars(HandleSend(e))
        /\ SF_vars(HandleRecv(e))
        /\ WF_vars(RecvDone(e))

Spec == Init /\ [][Next]_vars /\ Fairness

-----------------------------------------------------------------------------
(* Properties *)

\* Every variable keeps its type.
TypeOK ==
    /\ pc \in [Endpoint -> {"loop", "send", "recv", "ack", "abort"}]
    /\ taken \in [Endpoint -> Nat]
    /\ ring \in [Endpoint -> [0 .. WqeCnt - 1 -> Wqe]]
    /\ head \in [Endpoint -> 0 .. WqeCnt - 1]
    /\ tail \in [Endpoint -> 0 .. WqeCnt - 1]
    /\ wqeIndex \in [Endpoint -> 0 .. WqeCnt - 1]
    /\ active \in [Endpoint -> BOOLEAN]
    /\ sendPsn \in [Endpoint -> PSN]
    /\ sendOpcode \in [Endpoint -> Opcode]
    /\ noackPkts \in [Endpoint -> 0 .. MaxPktPerAck]
    /\ compPsn \in [Endpoint -> PSN]
    /\ recvPsn \in [Endpoint -> PSN]
    /\ ackPsn \in [Endpoint -> PSN]
    /\ sentNak \in [Endpoint -> BOOLEAN]
    /\ net \in [Endpoint -> Seq(Packet)]
    /\ rxFree \in [Endpoint -> 0 .. RxDepth]
    /\ faults \in 0 .. MaxFaults
    /\ sent \in [Endpoint -> Seq(Nat \X Nat)]
    /\ executed \in [Endpoint -> Seq(Nat \X Nat)]
    /\ recvCqes \in [Endpoint -> Nat]
    /\ completed \in [Endpoint -> Seq(Nat)]

\* The fragments an endpoint has to transport, <<message, position>>.
Fragment(e) ==
    UNION {{<<m, f>> : f \in 1 .. Workload[e][m].len} :
             m \in {k \in DOMAIN Workload[e] : Workload[e][k].op # "DRIVER1"}}

\* The order in which they were posted.
Before(f, g) == f[1] < g[1] \/ (f[1] = g[1] /\ f[2] < g[2])

\* A sequence of fragments of e as they were posted: none twice, none out of
\* order, none left out before one that is there.
InPostedOrder(e, frags) ==
    /\ \A i \in DOMAIN frags : frags[i] \in Fragment(e)
    /\ \A i, j \in DOMAIN frags : i < j => Before(frags[i], frags[j])
    /\ \A i \in DOMAIN frags : \A f \in Fragment(e) :
         Before(f, frags[i]) => \E j \in DOMAIN frags : frags[j] = f

\* The responder writes to its host's memory exactly the fragments the peer's
\* host posted, each once and in the order posted, whatever the network loses,
\* repeats or delays (rxe_handle_recv, the psn_compare of requests).
InOrderDelivery == \A e \in Endpoint : InPostedOrder(Peer[e], executed[e])

\* A SEND or WRITE is retired with success only when all of it is in the memory
\* of the peer's host (rxe_handle_recv's completion loop).
CompletionSound ==
    \A e \in Endpoint : \A m \in ToSet(completed[e]) :
        Workload[e][m].op # "DRIVER1" =>
            \A f \in 1 .. Workload[e][m].len :
                <<m, f>> \in ToSet(executed[Peer[e]])

\* Messages are retired once each and in the order posted: the tail of the send
\* ring always is the oldest message not retired (step_tail).
CompletionOrder ==
    \A e \in Endpoint : \A i \in DOMAIN completed[e] : completed[e][i] = i

PsnGap(a, b) == (b - a) % PsnMod

\* The endpoints that have packets to send.
Requester == {e \in Endpoint : Fragment(e) # {}}

\* In a direction that carries requests the acknowledged PSN, the peer's
\* expected PSN and the next PSN to send stay in this order around the circle,
\* at most MaxUnacked + 1 apart, so that the serial comparison of psn_compare
\* never meets an ambiguous pair.
SequenceOrder ==
    \A e \in Requester :
        LET acked == PsnGap(compPsn[e], recvPsn[Peer[e]])
            inFlight == PsnGap(recvPsn[Peer[e]], sendPsn[e])
        IN  acked + inFlight <= MaxUnacked + 1

\* One receive completion per SEND message executed to its end, none for a
\* WRITE (RXE_COMP_MASK of rxe_opcode.cpp).
RecvCqePerSend ==
    \A e \in Endpoint :
        recvCqes[e] =
            Cardinality({m \in DOMAIN Workload[Peer[e]] :
                           /\ Workload[Peer[e]][m].op = "SEND"
                           /\ <<m, Workload[Peer[e]][m].len>>
                                \in ToSet(executed[e])})

\* No assertion of the completer fails: without faults every acknowledgement
\* finds a WQE it can be applied to.
NoAbort == \A e \in Endpoint : pc[e] # "abort"

\* Every receive buffer is posted again once its packet is handled.
RxBuffersKept == \A e \in Endpoint : rxFree[e] = RxDepth

\* A request taken for a duplicate was executed before.
DuplicateIsKnown ==
    [][\A e \in Endpoint :
         RecvDuplicate(e) => Head(net[e]).frag \in ToSet(executed[e])]_vars

\* Without faults, whatever the datapath thread took from the host's ring is
\* eventually retired: window, acknowledgement interval and ring never wait on
\* each other.
EveryWqeCompletes ==
    \A e \in Endpoint : \A m \in DOMAIN Workload[e] :
        taken[e] >= m ~> m \in ToSet(completed[e])
=============================================================================
