------------------------------ MODULE TxRing ------------------------------
(***************************************************************************)
(* The send side of a datapath thread's raw packet queue (txpath_handler). *)
(* Headers are written straight into a ring of TX_DEPTH slots, collected   *)
(* into a list of work requests, and posted when the list is full or the   *)
(* loop flushes it.  One request in TX_BATCH asks for a completion.  No    *)
(* code compares the slot being written with the completions: only the     *)
(* depth of the send queue, and the order of flush and poll, keep a header *)
(* until the NIC has read it.                                              *)
(***************************************************************************)
EXTENDS Integers, Sequences

CONSTANTS
    TxDepth,     \* SMARTNS_TX_DEPTH: slots of the header ring
    TxBatch,     \* SMARTNS_TX_BATCH
    SqDepth,     \* entries the NIC's send queue has, asked for as tx_depth
    PollMax,     \* completions a poll takes, 16
    MaxPackets   \* bound: packets in all

ASSUME TxRingAssumption ==
    /\ TxDepth \in Nat \ {0}
    /\ TxBatch \in Nat \ {0}
    /\ SqDepth \in Nat
    /\ SqDepth <= TxDepth
    /\ PollMax \in Nat \ {0}
    /\ MaxPackets \in Nat

VARIABLES
    process,      \* the DPU process: running, or aborted by an assertion
    at,           \* where the loop of the thread is
    filled,       \* the header after the last committed one is written
    sendCur,      \* send_offset_handler.cur
    compCur,      \* send_comp_offset_handler.cur
    header,       \* the packet whose header each slot holds, 0: none
    batch_index,
    wr_list,      \* send_wr[0 .. wr_index - 1], not posted yet
    sq,           \* posted and not read by the NIC
    freed,        \* entries of the send queue given back by polls, ever
    cq,           \* completions not polled: the entries finished with each
    wire          \* history: the headers read by the NIC, packet by packet

filling == <<filled, sendCur, header, batch_index, wr_list>>
polling == <<compCur, freed>>
txVars == <<process, at, filling, polling, sq, cq, wire>>

TxSlot == 0 .. TxDepth - 1

\* A work request: the slot of its header, and IBV_SEND_SIGNALED.
Wr == [slot : TxSlot, signaled : BOOLEAN]

TxInit ==
    /\ process = "running"
    /\ at = "send"
    /\ filled = FALSE
    /\ sendCur = 0
    /\ compCur = 0
    /\ header = [i \in TxSlot |-> 0]
    /\ batch_index = 0
    /\ wr_list = <<>>
    /\ sq = <<>>
    /\ freed = 0
    /\ cq = <<>>
    /\ wire = <<>>

\* Work requests posted, ever.
Posted == Len(wire) + Len(sq)

\* Headers written, ever.
Written == IF filled THEN sendCur + 1 ELSE sendCur

-----------------------------------------------------------------------------
(* The thread *)

\* Mutant: completions are polled before the list is posted.
AfterPolledFirst == [send |-> "poll", poll |-> "flush", flush |-> "recv",
                     recv |-> "flushAcks", flushAcks |-> "send"]

\* The loop: handle_send fills packets, flushes and polls; handle_recv fills
\* ACKs and flushes.
After == [send |-> "flush", flush |-> "poll", poll |-> "recv",
          recv |-> "flushAcks", flushAcks |-> "send"]

\* offset_handler_offset of the next header.
HeaderSlot == sendCur % TxDepth

\* get_next_pktheader_addr, and what init_req_packet and send_ack write there.
Fill ==
    /\ process = "running"
    /\ at \in {"send", "recv"}
    /\ ~filled
    /\ sendCur < MaxPackets
    /\ header' = [header EXCEPT ![HeaderSlot] = sendCur + 1]
    /\ filled' = TRUE
    /\ UNCHANGED <<process, at, sendCur, batch_index, wr_list, polling, sq, cq, wire>>

\* ibv_post_send of a list: what does not fit is refused, and the assertion
\* ends the process.
Post(list) ==
    LET room == SqDepth - (Posted - freed)
    IN  IF Len(list) <= room
          THEN sq' = sq \o list /\ UNCHANGED process
          ELSE sq' = sq \o SubSeq(list, 1, room) /\ process' = "aborted"

\* Mutant: the batch index does not wrap.
BatchUnwrapped == batch_index + 1

BatchAfter == (batch_index + 1) % TxBatch

\* Mutant: one completion for each list rather than for each TX_BATCH.
SignaledLast == Len(wr_list) = TxBatch - 1

Signaled == batch_index = TxBatch - 1

\* commit_pkt_with_payload, commit_pkt_without_payload: a list that is full is
\* posted at once.
Commit ==
    LET list == Append(wr_list, [slot |-> HeaderSlot, signaled |-> Signaled])
    IN  /\ process = "running"
        /\ filled
        /\ filled' = FALSE
        /\ batch_index' = BatchAfter
        /\ sendCur' = sendCur + 1
        /\ IF Len(list) = TxBatch
             THEN Post(list) /\ wr_list' = <<>>
             ELSE wr_list' = list /\ UNCHANGED <<process, sq>>
        /\ UNCHANGED <<at, header, polling, cq, wire>>

\* handle_send or handle_recv has no more packets.
Filled ==
    /\ process = "running"
    /\ at \in {"send", "recv"}
    /\ ~filled
    /\ at' = After[at]
    /\ UNCHANGED <<process, filling, polling, sq, cq, wire>>

\* Mutant: only a full list is posted.
WorthPostingFull == Len(wr_list) = TxBatch

\* commit_flush of a list of no requests does nothing.
WorthPosting == wr_list # <<>>

CommitFlush ==
    /\ process = "running"
    /\ at \in {"flush", "flushAcks"}
    /\ IF WorthPosting
         THEN Post(wr_list) /\ wr_list' = <<>>
         ELSE UNCHANGED <<process, sq, wr_list>>
    /\ at' = After[at]
    /\ UNCHANGED <<filled, sendCur, header, batch_index, polling, cq, wire>>

\* poll_tx_cq: up to PollMax completions, each worth TX_BATCH slots.
PollTxCq ==
    LET taken == IF Len(cq) < PollMax THEN Len(cq) ELSE PollMax
    IN  /\ process = "running"
        /\ at = "poll"
        /\ compCur' = compCur + taken * TxBatch
        /\ freed' = IF taken = 0 THEN freed ELSE cq[taken]
        /\ cq' = SubSeq(cq, taken + 1, Len(cq))
        /\ at' = After[at]
        /\ UNCHANGED <<process, filling, sq, wire>>

-----------------------------------------------------------------------------
\* The NIC reads a header and sends the packet; a signaled request completes,
\* and the requests before it with it.
Transmit ==
    /\ sq # <<>>
    /\ wire' = Append(wire, header[Head(sq).slot])
    /\ cq' = IF Head(sq).signaled THEN Append(cq, Len(wire) + 1) ELSE cq
    /\ sq' = Tail(sq)
    /\ UNCHANGED <<process, at, filling, polling>>

-----------------------------------------------------------------------------
TxNext ==
    \/ Fill
    \/ Commit
    \/ Filled
    \/ CommitFlush
    \/ PollTxCq
    \/ Transmit

\* The thread's loop has a core of its own and waits for nothing; the NIC works
\* off its queue.
TxFairness ==
    /\ WF_txVars(Commit)
    /\ WF_txVars(Filled)
    /\ WF_txVars(CommitFlush)
    /\ WF_txVars(PollTxCq)
    /\ WF_txVars(Transmit)

TxSpec == TxInit /\ [][TxNext]_txVars /\ TxFairness

-----------------------------------------------------------------------------
(* Properties *)

\* Every variable keeps its type.
TxTypeOK ==
    /\ process \in {"running", "aborted"}
    /\ at \in {"send", "flush", "poll", "recv", "flushAcks"}
    /\ filled \in BOOLEAN
    /\ sendCur \in Nat
    /\ compCur \in Nat
    /\ header \in [TxSlot -> Nat]
    /\ batch_index \in 0 .. TxBatch - 1
    /\ wr_list \in Seq(Wr)
    /\ sq \in Seq(Wr)
    /\ freed \in Nat
    /\ cq \in Seq(Nat)
    /\ wire \in Seq(Nat)

\* More headers are written than the send queue can take before the next poll:
\* the assertion in commit_flush will end the process.
Doomed == Written - freed > SqDepth

\* Every packet leaves with its own header, never with that of the packet that
\* reuses its slot, though no code looks whether a slot is free: the only
\* exception is a process that an assertion has ended or will end before it
\* polls again.
HeaderIntact ==
    process = "aborted" \/ Doomed \/ \A k \in 1 .. Len(wire) : wire[k] = k

\* The cursor of completions counts exactly the requests that the completions
\* polled so far have finished, although a completion says nothing of how many
\* it stands for and batches end anywhere in a list.
CompCounts == compCur = freed /\ freed <= Len(wire)

\* Every packet committed is sent, unless the process is aborted: none waits
\* in a list for later packets to fill it.
EveryPacketSent ==
    \A n \in 1 .. MaxPackets :
        sendCur >= n ~> Len(wire) >= n \/ process = "aborted"
=============================================================================
