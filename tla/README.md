# SmartNS in TLA+

SmartNS runs a network stack on a SmartNIC. Applications on the host use a verbs-like library
(`lib/`); a DPU process (`src/dpu`, `src/rxe`) executes their work requests, speaks a subset of
RoCE over raw Ethernet packets and writes payloads and completions back to host memory by DMA; a
kernel module (`kernel/`) carries the control calls from the library to the DPU. This directory
holds TLA+ models of its protocols, the TLC configurations that check them, and TLAPS proofs.

Paths below are relative to the repository.

## 1. Inventory

| Component | State | Operations |
|---|---|---|
| RXE transport (`src/rxe/rxe_req.cpp`, `rxe_recv.cpp`) | per queue pair: send ring (`dpu_send_wq`: head, wqe_index, tail, psn, opcode, noack_pkts), `dpu_comp_info.psn`, `dpu_recv_wq` (psn, ack_psn, sent_psn_nak, scatter cursors) | `rxe_handle_req`, `rxe_handle_recv` (responder and completer), `send_ack`, `complete_send_wqe` |
| DPU datapath (`src/dpu/datapath.cpp`, `main.cpp`) | `active_qp_list`, list of shared send rings, map from QP number to QP, TX header ring, RX buffers, DMA queues | `loop_datapath_send_wq`, `handle_send`, `handle_recv`, in this order for ever; payload and CQE writes to the host |
| Work-queue rings (`lib/smartns_dv.cpp`, `smartns_dv.h`) | `smartns_send_wq`, `smartns_recv_wq` (head, tail, own_flag), two copies of the ring, `smartns_dma_wq` | `smartns_post_send`, `smartns_post_recv`, `step_dma_req`, `flush_dma_req`, `poll_dma_cq` |
| Completion queues | host: CQ buffer, head, own_flag, doorbell; DPU: `dpu_cq` | `smartns_poll_cq`; `dma_send_cq_to_host`, `dma_recv_cq_to_host` |
| DPU control path (`src/dpu/controlpath.cpp`) | contexts, PDs, CQs, QPs, MRs | one handler per command |
| Host library, control side | `smartns_context` and its lists, allocators | open/close device, create/destroy PD, CQ, QP, MR; modify QP |
| Kernel module | `qp_mutex`, `ioMutex`, global QP and socket | open, release, ioctl |
| Utilities | `custom_allocator`, `spinlock_mutex`, read-write lock, buddy allocator, offset handlers | alloc/free, lock/unlock, step |
| Drivers and setup (`src/devx`, `src/dma`, `src/raw_packet`, `src/rdma_cm`, `src/tcp_cm`) | verbs and devx objects | device commands |

**How they interact.** The host and the DPU share no lock and exchange no message on the datapath.
A work request travels: host copy of the ring → (DMA) → DPU copy, where the datapath thread finds it
by its owner bit → the queue pair's send ring → packets → the peer's datapath thread → (DMA) → the
peer's memory, and a CQE in the peer's CQ for a SEND; then an acknowledgement → the completer → a CQE
in the host's CQ, found by its owner bit again; `smartns_poll_cq` moves `tail`, which frees ring
slots. Control calls go library → ioctl → kernel QP → DPU control thread and change the maps the
datapath thread reads.

**What is hard.** Rings whose fullness is known to one side only and whose wrap-around has to agree
on three sides; owner bits as the only synchronisation; serial arithmetic on sequence numbers;
acknowledgements that complete several work requests or stop inside one; a transport that answers
loss without any retransmission; control calls racing the datapath thread; error returns that keep
mutexes. `PROJECT.json` lists the hazards with their lines.

**What makes each component correct.**

- *Transport*: each fragment is executed once and in order; a work request is completed only after
  the peer executed all of it, once and in order; a duplicate is really one; window, ring and
  acknowledgement interval do not deadlock; receive buffers and CQEs are accounted for.
- *WQE ring*: a bounded FIFO queue; the owner bit is exact; nothing is overwritten before it is
  taken; DMA requests stay inside the ring.
- *Completion queue*: every CQE is polled once and in order as long as the host keeps up; `tail`
  never moves back.
- *Control path*: no object is used after it is freed; ids refer to one object.
- *Kernel module*: an ioctl gets its own reply; no call blocks the others for ever.
- *Utilities*: mutual exclusion; blocks are disjoint and the arena is conserved.

## 2. Modules

| Module | What it is |
|---|---|
| `Psn` | PSN arithmetic modulo `PsnMod` (2^24 in the code): `PsnAdd`, `psn_compare` |
| `RcTransport`, `MCRcTransport` | the transport between two connected queue pairs with its datapath threads and the network; the workloads TLC runs it on |
| `WorkQueue` | abstract: a bounded FIFO queue of work requests or completions |
| `WqeRing`, `MCWqeRing` | the send ring (`Batch` = 1) and the receive ring (`Batch` = 4 in the code) with their DMA queue |
| `CompletionRing`, `MCCompletionRing` | the ring of one CQ between the DPU's writes and `smartns_poll_cq`; fresh and reused memory |
| `SendCompletions`, `MCSendCompletions` | `tail`, `wr_id` and slot reuse of a send ring used by one or more queue pairs |
| `RecvScatter`, `MCRecvScatter` | scatter lists, the DPU's cursors through them, receive CQEs and their `wr_id` |
| `TxRing` | the header ring, batching and completions of a datapath thread's raw packet queue |
| `Allocator` | `custom_allocator` as operators on the set of free bytes |
| `ControlPath`, `MCControlPath` | control calls of the host library, their handlers on the DPU, the datapath threads' use of the same objects |
| `KernelIoctl`, `MCKernelIoctl` | open, release and ioctl of the kernel module with the channel to the DPU |
| `RingArith` | lemmas on counters, slots, turns, the requests between two cursors of a ring, and least numbers |
| `WqeRing_proofs`, `SendCompletions_proofs`, `RcTransport_proofs`, `RecvScatter_proofs`, `KernelIoctl_proofs`, `ControlPath_proofs` | the proofs about the module of that name; those about `Psn` and `Allocator` are in the modules that use them |
| `DatapathRings_proofs` | the proofs about `CompletionRing` and `TxRing`, the two rings a datapath thread fills (the `Tx` in the names of `TxRing` keeps them apart from the other's) |

Composition follows the path of a request. `WqeRing` and `CompletionRing` implement the queue
`WorkQueue`; `SendCompletions` and `RecvScatter` take such queues in place of the rings and model
what the two ends do with the elements. `RecvScatter` takes packets in order and once, which
`RcTransport` shows. `ControlPath` extends `Allocator`, and takes an ioctl as `KernelIoctl` shows it
to be: the reply to one's own request, or an error after which nothing else gets through.

### RcTransport

One action is one iteration of a loop in the code. `pc` is the handler the datapath thread is in and
moves in the order of `server_datapath` (`src/dpu/main.cpp:10-19`): `loop` (`TakeWqe`, `LoopDone`),
`send` (`SendPacket`, `SkipWqe`, `CompleteDriver1`, `LeaveSend`), `recv` (one action per branch of
`rxe_handle_recv`), `ack` (the completer's `while` loop, which keeps the acknowledgement until a turn
breaks out), `abort` (an `assert(false)` was reached; the build keeps assertions).

- Lengths are in MTUs; a packet carries the identity of its fragment in place of its bytes. `ring`
  holds what the code keeps of a work request: state, offset, last PSN.
- `next_opcode` reads the previous packet's opcode, not the work request: kept (`NextOpcode`),
  including the initial value 0, which is `SEND_FIRST`.
- `complete_send_wqe` writes the *responder's* expected PSN: kept (`CompletedRecvPsn`).
- Out-of-order and duplicate packets keep their receive buffer: kept (`rxFree`).
- The network is external: it may lose, repeat and delay packets, `MaxFaults` times in all. When no
  receive buffer is posted the NIC drops what arrives.
- `sent`, `executed`, `recvCqes` and `completed` are history variables; the field `number` of a packet is
  its sequence number before it is cut to a PSN. Properties and proofs read them, no guard does. A fragment counts as executed when it is
  handed to the DMA handler; at this commit `post_dma_req_without_cq` has the copy itself commented out
  (`include/smartns.h`, for an experiment) and issues the cache invalidation only.
- `HostTail`, `MaxOutstanding`: the host keeps at most `MaxOutstanding` requests uncompleted and
  knows completions from signalled requests. The benchmarks keep it below the DPU ring's size. The
  DPU ring has no test for being full, and one that is exactly full looks empty, so the model claims
  nothing beyond this discipline.

### WqeRing

`BeginPost`, `PostWr`, `EndPost` are the parts of one call of `smartns_post_send` or
`smartns_post_recv`; `PostFull` and `PostDmaFull` its ways to end the process. `PollCq` is the tail
update of `smartns_poll_cq`, in another thread. `DmaCopy` is the NIC (external): it executes the
requests of one queue in order, a cache line at a time, and reads the host's slot when it copies, not
when it was asked to. `TakeWqe` is the DPU: it looks at the owner bit and nothing else.
The free-running counters of the code run up to `MaxPosts`; their own 32-bit wrap-around is not
modelled.

### CompletionRing and SendCompletions

`CompletionRing` is one CQ. `WriteCqe` is `get_next_cqe`, the CQE's fields, the DMA request and
`step_cq`; `DmaCopy` is the NIC as in `WqeRing`; `BeginPoll`, `PollCqe`, `EndPoll` are the parts of one
call of `smartns_poll_cq`, which holds the CQ's lock throughout. The host's `head` is kept modulo `W`
(2^32 in the code), the DPU's wraps at the ring size. The doorbell (`consumer`) is written and, as in
the code, read by nobody: that the host never leaves more than `MaxInFlight` completions outstanding
is an assumption about the application. `Previous` says how many CQEs an earlier ring left in the
memory, since the allocator hands freed blocks out as they are.

`SendCompletions` takes the two rings as the FIFO queues they implement and models what the host does
with completions: `PostSend` writes a slot's `wr_id`, `Complete` is `complete_send_wqe` (in order per
queue pair, in any order between queue pairs, a CQE for signalled requests only), `LookUp` and
`MoveTail` are the two halves of a turn of `smartns_poll_cq`, which runs without the send ring's lock,
so that posts may come between them. `head`, `tail` and `cur_pos` wrap modulo `W`.

### RecvScatter

`PostRecv` is one request of `smartns_post_recv`: elements, the end mark when the list is shorter
than asked for, `wrid`, owner flag. `DmaCopy` is the ring's way to the DPU. The DPU's part is one
message at a time: `BeginMessage`, `SendPacket` and `WritePacket` (the start of
`dma_send_payload_to_host` for a packet), `ScatterMore`, `ScatterLast` and `ScatterAbort` (one turn of
its loop over elements, by its three outcomes), `EndSend` and `EndWrite` (the CQE, `step_wq`). `PollCq`
is the receive branch of `smartns_poll_cq`. The bytes are their offsets: a DMA request says which bytes
of the message go where. The queue pair's `max_recv_sge` is what the application asked for on the
host and a power of two on the DPU, as in the code (`HostMaxSge`, `MaxSge`).

### TxRing

`at` is the place in the loop of `server_datapath`: `handle_send` fills packets (`send`), flushes
(`flush`) and polls (`poll`); `handle_recv` fills acknowledgements (`recv`) and flushes them
(`flushAcks`). `Fill` is `get_next_pktheader_addr` with the writes into the header, `Commit` the two
`commit_pkt_*` functions, `CommitFlush`, `PollTxCq` the functions of those names. `Transmit` is the NIC
(external): it reads headers in order, and a signalled request completes those before it.
The code asks the NIC for a send queue as deep as the header ring; `SqDepth <= TxDepth` is the
assumption that it gives no more. If a driver rounds the depth up, nothing protects the headers.

### KernelIoctl

Threads have a file and a process each; two processes may share a file (a child after `fork`).
`Enter`, `Lock`, `PostSend`, `TakeReply` are the steps of a call that succeeds; `PostFails`, `Timeout`,
`TakeFails` its returns on error, each of which leaves `qp_mutex` locked as the code does;
`UseFreed` is a step on a queue pair that a close has freed. `Transmit` and `Arrive` are the NIC,
`DpuHandle` the DPU's control thread: one request, one reply of the same length. Requests carry a
number that the code does not have; only properties read it. What a request means is in
`ControlPath`.

### ControlPath and Allocator

`Host` is one control thread of a careful application: it destroys what uses an object before the
object, and a queue pair only when all its requests have been polled. A call is a request
(`OpenDevice`, `CreateQp`, `Destroy` ...) followed by `...Returns` or `IoctlFails`; an ioctl that fails
may be carried out by the DPU all the same, before or after the application goes on. Memory comes
from `Allocator`: `free` and `live` are the arena's free bytes and its allocated blocks.
The DPU's handlers are one action each, except that opening and closing a device take the spin lock
of one thread's list after another (`LinkWq`/`OpenDone`, `UnlinkWq`/`CloseDone`). A datapath thread
holds its list's lock in `loop` (`LoopLock` to `LoopUnlock`) and no lock anywhere else:

- `HandleSend` reads the queue pairs of the active list.
- `Receives` is the look-up and `assert(qp)` of every packet (`rxe_recv.cpp:62-63`). The thread then keeps
  the queue pair in `hand` and uses it in further steps, between which handlers run.
- For a packet of a request these are `Respond` (memory region, receive ring, completion queue) and
  `SendAck`; for an acknowledgement, `CompleteWqe` (the CQE), `StepTail` (the send ring, after the CQE)
  and `AckDone`.

`dpu` says how the process ended: `"exited"` by an `exit(1)` or an assertion of a look-up; `"freed_..."`
when a step used what had been freed, a context, a queue pair through the active list (`freed_active`), as
the receiver (`freed_receiver`) or behind its own acknowledgement (`freed_sender`), a completion queue or
a memory region.

The peers are external: `StartPeer` and `StopPeer` are the application's agreement with them, `PeerSends` a
SEND or a WRITE. A peer stops when all its requests have been acknowledged. With `PeersStop` the
application destroys a queue pair, or a memory region of its context, only after the peers concerned
have stopped. No call of the library says that they have; the tests, too, agree with their peers
outside it, over a TCP connection. Packets carry no PSN here: the network neither loses nor
reorders, receives are posted, and a thread gets the packets of its own UDP port. Everything else about
packets is in `RcTransport`, `DRIVER1` included.

## 3. Runs

| Run | Question | Bounds |
|---|---|---|
| `rc_stream` | Without faults, does every SEND get one receive completion, and every request complete, without an assertion failing? | 12 packets in messages of 1, 3, 2, 5, 1; PSNs modulo 8, so they wrap; window of 3, less than the longest message; a ring of 3 slots, so it wraps; one unsignalled request |
| `rc_faulty` | What stays safe when two packets are lost, repeated or delayed? | 6 packets, PSNs modulo 8, one receive buffer; the other end posts an empty SEND |
| `send_ring`, `recv_ring` | Is the ring a bounded FIFO queue that no DMA request runs over, with batches of 1 and 2? With a batch of 1, does every request reach the DPU? | 4 slots, 10 requests (two and a half turns, so each owner bit occurs again), lists of up to 3, a DMA queue small enough to fill |
| `cq_ring` | Is a completion ring in fresh memory a bounded FIFO queue, and is every CQE polled? | 4 slots, 11 CQEs (almost three turns), host counter modulo 8, all 4 slots outstanding at times, polls of up to 2 |
| `send_tail` | Does one queue pair keep its slots until they are reported, is `tail` exact, and is no completion taken for an illegal one, which ends the process? | 4 slots, counters modulo 8, 11 requests, each signalled or not |
| `recv_scatter` | Does every byte get to its place, with the right `wr_id` and length? Does the process end only when it means to? | packets of 2, lists of one to three elements, lengths 1, 3 and 4 (shorter than, as long as and longer than lists; ends inside, at and behind elements), a ring of 2 with 4 receives (two turns), 3 elements asked for and 4 read |
| `tx_ring` | Does each packet leave with its own header? Are completions counted right? Is everything sent? | 14 packets (almost three turns of a ring of 5), batches of 3 that do not divide the ring, a queue that fills, one completion per poll so that they pile up |
| `kernel_ioctl` | Does a call get its own reply, whatever failed before? Does every call return? | 3 threads, 2 files, a process and its child, 3 calls, 2 send and 2 receive slots so that both wrap |
| `control_path` | What do handlers and threads use after it is freed, and do they look up what is not there? Do handles and memory stay right, also when ioctls fail, and does a close leave nothing behind? | 2 datapath threads, 1 context, one PD, MR and QP, two CQs (the second created after the first, or after it is destroyed), two requests outstanding, a peer that sends SENDs and WRITEs without end, an arena with padding that runs out |
| `rc_both_ways`, `qp_destroyed_active` | the findings of section 6; the second has the bounds of `control_path` | |

In `rc_faulty` all packets together are fewer than `PsnMod`, so a delayed packet cannot return half a
circle later: no packet lives that long at 2^24. `SequenceOrder` is stated for directions that carry
requests: the direction without requests is the one `complete_send_wqe` disturbs.

`CHECK_DEADLOCK FALSE` appears where the system does stop: in the runs of `WqeRing`,
`SendCompletions`, `RecvScatter` and `TxRing` at the bound on requests, in `exit(1)` or in an assertion; in
`KernelIoctl` and `ControlPath` when all calls are made, or the channel is down after an error. The
transport's threads spin and the application polls its CQ for ever: those runs check for deadlock.

The mutants in the modules (operators commented "Mutant") are plausible slips in the code; each
property is violated by one of them. Properties that no run lists (`Fifo`, `OwnerBitExact`,
`NoOverrun`, `CqeFifo`, `CqeBitExact`, `WrIdExact`, `NoIllegalTail`, `OneOutstanding`, `FailStop`) are
parts of an invariant or of a refinement that a run checks, or are proved (section 5).

## 4. Fairness

- `RcTransport`: weak fairness of `LoopDone`, `HandleSend` and `RecvDone`, because
  `server_datapath` is an endless loop over the handlers. Strong fairness of `HandleRecv`: a single
  poll may miss a packet in flight, but not every poll. Neither posting (the host's affair) nor
  the network's faults are fair.
- `WqeRing`: weak fairness of the steps of a call, of the DMA engine while the process lives, and of
  the DPU's poll. Nothing is assumed of the application.
- `TxRing`: weak fairness of the loop's steps and of the NIC: the thread has a core of its own and waits
  for nothing. New packets (`Fill`) are not fair.
- `KernelIoctl`: strong fairness of taking `qp_mutex`, which the kernel hands to its waiters in turn;
  weak fairness of a thread's steps inside the call. Neither the network nor the DPU is fair: the
  time limit is what makes the call return.
- `CompletionRing`: weak fairness of the DMA engine and of polling (the loops of the tests call
  `smartns_poll_cq` again and again). The DPU need not write anything.

`EveryWqeTaken` is claimed for `Batch` = 1 only. With larger batches an incomplete batch waits for
later posts, because `flush_dma_req` issues full batches only, also at the end of a call: up to three
posted receives stay invisible to the DPU.

## 5. Proofs

`WqeRing_proofs` proves, for every `N`, `Batch`, `SignalBatch`, `MaxDma`, `MaxList` and `MaxPosts`
allowed by `WqeRingAssumption` (the one assumption that matters is that the batch size divides the
ring size, as the powers of two of the code do):

- `RingInvariance`: `RingInv` always holds; from it `TypeCorrect`, `FifoCorrect`, `OwnerBitCorrect`,
  `NoOverrunCorrect`, `DmaInsideRingCorrect`;
- `RingImplementsQueue`: the ring implements `WorkQueue`.

*The argument.* `Fifo` is not inductive: that the DPU takes the right WQE depends on what the slots
hold. Four cursors describe everything: requests written, copied (`visible`), taken
(`Len(received)`) and known as completed (`tail`). `CursorOrder` keeps them in order and at most `N`
apart; `CursorValues` derives indexes and owner flags from them; `HostSlots` and `DpuSlots` say that
slot `p % N` of each copy holds request `p` for the last `N` values of `p`, and that a slot not
written in the first turn holds owner bit 0. The owner bit of request `p` is the parity of its turn
`p \div N` (`OwnAt`), so the slot at the DPU's head holds the flag's value if the request has
arrived, and the opposite parity, of the previous turn, if not (`OwnerBit`). A host write goes to
slot `Written % N`, which differs from the slots of all requests less than a turn older
(`SlotDistinct`). `DmaAligned` shows that each DMA request starts at a multiple of the batch, hence
ends inside the ring (`BlockInRing`).

`DatapathRings_proofs` proves about `CompletionRing`, for memory no earlier ring has used (`Previous = {0}`, without which
it is false, section 6) and every size, width and `MaxInFlight <= N`: `CqInvariance`, from it
`CqTypeCorrect`, `CqeFifoCorrect`, `CqeBitCorrect`, and the refinement `CqImplementsQueue`. The argument
is the one of `WqeRing` with three cursors: written (`issued`), copied (`arrived`), polled. What is new
is the host's 32-bit counter, which is in the slot of the cursor it stands for because the ring size
divides 2^32 (`SlotOfWrapped`, `HostHead`).

About `TxRing` it proves, for every depth, batch size and number of packets: `TxInvariance`, from it
`TxTypeCorrect`, `HeaderIntactCorrect`, `CompCountsCorrect`. Four counts describe the path: headers
written, requests posted, headers read (`wire`), entries given back (`freed`); `Cursors` relates them.
`Requested` says which slot each posted or collected request names, `Headers` that the last `TxDepth`
headers are in their slots. `LoopOrder` is the point of the argument: nothing is collected when the
loop polls, so what is collected and written since the last poll is posted before the next one, and
if it does not fit, `commit_flush`'s assertion ends the process. `Completions` ties each CQE to a full
batch, whatever lists it was posted in.

`SendCompletions_proofs` proves, for a ring used by one queue pair (`OneQp`; with two `NoIllegalTail`
is false, section 6) and every `N` and `W` with `W % N = 0` and `2 * N <= W`: `SendInvariance`, and from it
`SendTypeCorrect`, `SlotsKeptCorrect`, `TailExactCorrect`, `WrIdExactCorrect`, `NoIllegalTailCorrect`. The
claims are about 32-bit counters; the invariant is about the counts they stand for. `TailIs(t)` says
that `tail` is `t % W` for a count `t` at most `N` below `posted`, and that everything pending or in the
CQ has a number of at least `t`. `PendingOrder`, `CqOrder` and `PollOrder` keep the numbers in order:
reported, then in the CQ, then pending. `WrIds` says that the last `N` requests have their `wr_id` in
their slots. The test for a full ring is then exact (`WrappedDifference`: a difference of counters
modulo `W` is the difference of the counts), and the test for an illegal tail never fails, because of two
counts at most `N` apart the later one has the larger counter or has wrapped around (`WrappedOrder`,
`LegalAhead`).

`KernelIoctl_proofs` proves, for any number of threads, files, processes and slots: `IoctlInvariance`,
from it `IoctlTypeCorrect`, `ReplyMatchesCorrect`, `OneOutstandingCorrect`, `UnharmedByChildCorrect`, and
the action property `FailStopCorrect`. The code matches a reply by nothing but its length; what makes
it the right one is that the channel is empty whenever a call posts (`EmptyChannel`), which holds
because a call either takes its reply or keeps the mutex for ever (`MutexHeld`). `OwnRequest` says that
all that is on the way carries the number of the call that waits.

`RecvSlotsCorrect` adds that no receive slot is lost or posted twice as long as no call has failed:
`SlotOrder` says that the slots that hold a reply and those that are posted follow each other around
the ring from `recvCur` on.

`RcTransport_proofs` proves, for all workloads, windows, acknowledgement intervals, rings and numbers of
faults, and for traffic in both directions, `TransportTypeCorrect`. It needs more than `TypeOK`: that
the WQEs the requester looks at were copied from work requests (`Filled`), and that the completer's
acknowledgement stays at the head of the queue while it works (`Held`).

The data path is proved from `TransportInv`, which adds `DataInv` to this. `sent` is the sequence of all
fragments put on the wire, and everything else is a position in it. For each requester there are a
number `q` of messages sent to their ends and a number `c` of packets acknowledged, such that: the
ring's indexes are the counts of messages retired, sent and taken, modulo its size (`RingPart`);
`sendPsn`, `wqe_index`'s offset and the opcode are those of the end of `sent` (`SentPart`); each WQE in
the ring has the state, offset and last PSN of its message (`WqePart`); `c` packets were executed, the
window is kept, and what was retired was executed to its end (`AckPart`); what the peer executed is a
beginning of `sent`, and its expected PSN is the length of that (`DeliveryPart`); each packet on its way
is what was sent under its number, each acknowledgement is of a packet executed (`NetPart`). PSNs are
these numbers modulo `PsnMod`, and `psn_compare` orders two numbers less than half the circle apart
(`PsnCompareExact`), so that every test of the code on PSNs becomes one on positions. From this follow
`DeliveredInOrder`, `CompletedIsDelivered`, `CompletedInOrder`, `SequenceOrderKept`, `OneRecvCqePerSend` and
the action property `DuplicatesKnown`, over a network that loses, repeats and delays packets. The
hypotheses:

- `Traffic` is where the code stops being a transport, section 6 says how: requests at one end of a
  connection only (`OneWay`), an end's messages all with a payload or all without or all `DRIVER1`
  (`OneKind`), a first SEND of at most one packet (`FirstSendFits`), and an application that keeps fewer
  requests uncompleted than the DPU's ring has slots (`RingHasRoom`), since a full ring looks empty.
- `Recent`: no packet outlives half the circle of sequence numbers. It is stated of the behaviour
  (`Spec /\ []Recent => ...`), because no protocol with PSNs can do without, and this code has no timer.

Without faults `Recent` is a fact, and the assertions hold: `SteadyInv` says that the requests on their
way are exactly those sent and not executed, that acknowledgements arrive in the order of their packets
and beyond what is retired, and that every receive buffer is posted. With it `PacketsAreRecent`,
`NeverAborts`, `BuffersKept` and `LosslessTransport` (all of the above without `Recent`). `Lossless` asks
for no faults, a receive buffer, and messages of at most half the circle plus one packets: 2^23
packets, more than a 32-bit byte length can ask for with an MTU of 512 or more.

`RecvScatter_proofs` proves, for every ring, MTU, list and message: `RecvInvariance`, from it
`RecvTypeCorrect`, `PlacedCorrect`, `RecvWcCorrect`, `EndsJustifiedCorrect`. `Cursors`, `HostSlots` and
`DpuSlots` are those of `WqeRing`, with a scatter list in each slot. The point is `CursorAt`: between two
turns of the scatter loop the cursor stands behind the bytes for which DMA requests have been made, the
sum of the elements before it and its offset; a list shorter than the host's limit ends at its mark,
where the loop stops, and what lies behind the limit was never written (`Unused`), so that no element
of an earlier and longer list is read. `MessageInv` adds up the lengths of the DMA requests to the
bytes arrived, `Fits` puts each request inside its element. With both, every byte is in a request, and
in one only. `PlacedExactly` is about sums of lists: lemmas on the recursive function `SumTo` are
proved from the least counterexample (`LeastNumber` in `RingArith`), since the library's induction
theorems cannot be instantiated here.

`ControlPath_proofs` proves about `alloc` and `free`, for every arena, size and alignment, `AllocSound`,
`AllocKeepsApart`, `FreeKeepsApart`, and about the control path, for any number of threads, objects,
requests and bytes:

- for any number of contexts, `ControlInvariance` and from it `ControlTypeCorrect`, `HostViewCorrect`,
  `RingsStayOwned`. `ChannelInv`: one operation at a time, until an ioctl fails. `ViewInv`: what the DPU has
  beyond the application's objects is what a call under way creates or destroys. `ObjectInv`: ids are
  given once. `MemoryInv`: blocks are allocated, apart, and each is used by one object at most.
  `LifeInvariance` adds what objects refer to, the threads' look-up tables and the requests on the way.
- for one context (`OneContext`), `ClosesClean`, by `LinkInv`: which threads have a send ring of a context
  that is being opened or closed. With two contexts it is false, because `close_device` works on
  context 0 whatever context is closed (section 6).
- for one context and peers that stop (`PeersStop`), `SafeInvariance`, and from it `DpuStaysAlive` and
  `OnlySendersUseFreedMemory`. What keeps the unlocked use of a queue pair safe is the order of its
  steps. `PeersInv`: a queue pair peers may send to is in the thread's table, and the memory region of a
  request on the way is there. `HandInv`: a packet in the hand of the responder is of a request that
  is not acknowledged, so that its peer has not stopped and nothing it needs is destroyed before
  `SendAck`, the last use. `ActiveInv`: an active list has only queue pairs
  the thread was handed. Without `PeersStop` both are false, and with two contexts the second is
  (section 6). The completer has no such order, `StepTail` comes after the CQE: `OnlySendersUseFreed`
  leaves `freed_active` and `freed_sender` out because both do happen (section 6).

*Only model-checked*: liveness (`EveryWqeCompletes`, `EveryWqeTaken`, `EveryCqePolled`, `EveryPacketSent`,
`EveryCallReturns`), which is out of the prover's reach like ENABLED. Every invariant and every safety
property of the passing runs is a theorem.

*What the code itself does not ensure.* The theorems assume no more of the constants than the
modules' ASSUMEs, except: memory no earlier ring has used (`Fresh`), one queue pair for a send ring
(`OneQp`), `Traffic`, `Recent`, `OneContext` and `PeersStop`, each of them a hypothesis of the theorems that need
it. Of the ASSUMEs, `SqDepth <= TxDepth` (`TxRing`) and `MaxInFlight <= N` (`CompletionRing`) rest on the driver
and on the application, and `HostMaxSge <= MaxSge` (`RecvScatter`) on the DPU's rounding up.

## 6. Findings and known deviations

Two runs expect a violation:

1. `rc_both_ways`: `complete_send_wqe` advances the responder's expected PSN. With traffic in both
   directions, a new packet of the peer is reported as a duplicate and dropped.
2. `qp_destroyed_active`: `handle_destory_qp` removes the queue pair from `local_qpn_to_qp_list` and frees
   it, but leaves it in the thread's `active_qp_list`, which the next `handle_send` reads. It happens to
   an application that polled every completion first.

The models contain further behaviour that a reader of the code should know of. Where the text says
so, TLC shows it when the run's configuration is changed as described.

- *A packet after the destroy.* A peer that goes on sending ends the DPU process, for every application
  on it, when its packet meets the assertion of `rxe_recv.cpp:63`; if the queue pair is destroyed
  between the look-up and the use, the responder reads freed memory. `control_path` with
  `PeersStop = FALSE` refutes `DpuAlive` (26 states) and `OnlySendersUseFreed` (27 states).
- *Behind the last CQE.* `complete_send_wqe` moves the tail of the send ring after the CQE is on its way,
  and `rxe_handle_recv` writes `comp_info` after that (`rxe_recv.cpp:46`, `182-187`). An application that has
  polled that CQE may have destroyed the queue pair by then: `control_path` reaches
  `dpu = "freed_sender"` (30 states). No call tells an application that the thread is done.
- *DRIVER1 behind a SEND.* A `DRIVER1` request completes at once and steps the tail, also when an older
  SEND is pending: that SEND's slot is retired in its place (`CompleteDriver1` of `RcTransport`). The workloads
  and the theorems have `DRIVER1` on queue pairs of its own (`OneKind`).
- *First SEND.* `handle_create_qp` sets `send_wq->opcode` to 0, the code of `SEND_FIRST`. The queue
  pair's first SEND is taken for the continuation of a message, `last_psn` stays 0, and an
  acknowledgement of its middle reaches `assert(false)`: `rc_stream` with `FirstSendWorkload` refutes
  `NoAbort`.
- *Empty messages.* A work request of length 0 is stepped over as if all of it had been sent, and
  neither it nor any later one completes: `rc_stream` with `EmptyWorkload` refutes `EveryWqeCompletes`.
- *Receive buffers.* The buffers of out-of-order and duplicate packets are not posted again:
  `rc_faulty` refutes `RxBuffersKept` with one fault.
- *Reused memory.* A CQ created in the memory of a destroyed one takes the old CQEs with owner bit 1
  for its own: `cq_ring` with `ReusedMemory` refutes `NoStaleCqe`. The receive rings have the same hazard.
- *Shared send ring.* Queue pairs may be put on one send ring, but when their requests complete in
  another order than posted `smartns_poll_cq` calls `exit(1)`: `send_tail` with two queue pairs refutes
  `NoIllegalTail`.
- *Long lists.* A list of more work requests than the DMA queue's 256 fails the assertion of
  `step_dma_req` although the ring accepts 1024, because `finish_index` moves only after the whole list
  is posted (`PostDmaFull`, reached in `send_ring`).
- *Full batches.* `flush_dma_req` issues full batches only, also at the end of a call: up to three posted
  receives stay invisible to the DPU. `EveryWqeTaken` is claimed for `Batch` = 1 only.
- *A header before the abort.* When more headers are written than the send queue has room for, one
  packet may leave with another's header just before the assertion ends the process (`Doomed`).
- *Payload and CQE.* The copy of payloads is commented out at this commit (`include/smartns.h:324-329`);
  with it, a payload and its CQE would go through different DMA queues, which nothing orders.
- *Null rings.* `create_qp` does not test whether its receive ring was allocated; a null pointer passes
  the alignment assertions and is sent to the DPU (`CreateQp` without blocks).
- *Contexts.* `close_device` works on context 0 and erases key 1 whatever context is closed
  (`Closed`, `CloseDone`). `control_path` therefore has one context; with `MaxContexts = 2` it refutes
  `CleanClose` (16 states) and `OnlySendersUseFreed` (18 states).
- *Kernel errors.* Every error return of the ioctl keeps `qp_mutex`, so that one failure stops all later
  calls (`EveryCallReturns`, `FailStop`); an open without memory keeps `ioMutex` (`OpenFails`); a close by
  the owner of one file frees the queue pair for all (`Release`, `UseFreed`).

## 7. Not modelled

- *RDMA READ*: the responder aborts on it (`rxe_recv.cpp:110-112`).
- *Several queue pairs with PSNs on one thread*: `ControlPath` has several threads, with packets as far
  as they use objects, `RcTransport` has PSNs, windows and losses and one queue pair for each end. Both
  together are beyond what TLC can enumerate, and the code shares nothing between queue pairs but the
  lists that `ControlPath` has. A lost packet and a queue pair destroyed after it do not meet in a model.
- *DMA queue groups*: how requests of `post_dma_req_without_cq` are spread over DMA queues, and their
  completions; they decide timing, and with the payload copy commented out no result depends on them.
- *The tgid test of `handle_alloc_pd`* and a second host process in `ControlPath`; the rehashing of a map
  while a thread reads it (the insertion is one step).
- *`spinlock_mutex`* is one atomic exchange; critical sections are modelled where they are used. The
  read-write lock and `buddy.cpp` have no user.
- *When receive buffers go back*: `rxe_handle_recv` posts the buffers of in-order packets again in
  batches (`rxe_recv.cpp:194-210`), `RcTransport` one by one. The batch delays, the number is the same.
- *Returns of the ioctl before it takes the mutex* (`-EINVAL`, `-EIO`): they change no state, and
  `Enter` of `KernelIoctl` has the calls that pass them.
- *Module loading and the TCP handshake* of the kernel module run once, before and after everything else.
- *`src/devx`, `src/dma`, `src/raw_packet`, `src/rdma_cm`, `src/tcp_cm`*: sequences of driver calls without
  protocol state. What the models rely on, that one queue executes its requests in order, is
  external in them. Packet and work-request formats, benchmarks and tests are left out as well.

The map covers a small share of the repository's lines for the same reason: more than half of them
are `fw/mlx5_prm.h`, `fw/mlx5_prm_manual.h` (register layouts) and the tables of `Crc32.cpp`, and most of the
rest are the drivers and setup code above. Of the files that hold the protocols (`rxe`, `datapath.cpp`,
`controlpath.cpp`, `smartns_dv.cpp`, `smartns.h`, `smartns_kernel.c`) what changes state is modelled, logging
and object construction aside.

*What remains worth doing*: `ControlPath` with two contexts once the code can close them, and the
transport with requests at both ends once each end has an expected PSN of its own; both would take a
hypothesis away from theorems of section 5. A handshake with the thread before a queue pair is freed
would let `OnlySendersUseFreed` be stated of the sending half as well.
