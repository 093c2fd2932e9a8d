---------------------------- MODULE ControlPath ----------------------------
(***************************************************************************)
(* Contexts, protection domains, completion queues, queue pairs and memory *)
(* regions: the control operations of the host library (lib/smartns_dv.cpp)*)
(* and their handlers on the DPU (dpu/controlpath.cpp), which run while the*)
(* datapath threads (dpu/datapath.cpp) use the same objects.  An ioctl is  *)
(* the channel KernelIoctl describes: the reply of one's own request, or an*)
(* error after which no other ioctl completes.  The application is a       *)
(* careful one: it destroys what uses an object before the object, and a   *)
(* queue pair when all its requests have been polled.  Its peers send over *)
(* a network that neither loses nor reorders, to receives that are posted, *)
(* and from the send ring of the same number: a thread gets the packets of *)
(* its own UDP port.  DRIVER1 requests are left to RcTransport.            *)
(***************************************************************************)
EXTENDS Integers, Sequences, FiniteSets, Allocator

CONSTANTS
    NumWqs,         \* SMARTNS_TX_RX_CORE: datapath threads, send rings
    MaxContexts,    \* bound: contexts opened
    MaxMade,        \* bound: objects made of each type
    MaxOutstanding, \* bound: requests of a queue pair not polled yet
    ArenaSize,      \* SMARTNS_CONTEXT_ALLOC_SIZE
    Page,           \* PAGE_SIZE
    RingSize,       \* bytes of a completion ring and of a receive ring
    PeersStop,      \* peers are told to stop before what they use is destroyed
    NoOp

ASSUME ControlPathAssumption ==
    /\ NumWqs \in Nat \ {0}
    /\ MaxContexts \in Nat
    /\ MaxMade \in [{"pd", "cq", "qp", "mr"} -> Nat]
    /\ MaxOutstanding \in Nat
    /\ ArenaSize \in Nat
    /\ NumWqs <= ArenaSize
    /\ Page \in Nat \ {0}
    /\ RingSize \in Nat \ {0}
    /\ PeersStop \in BOOLEAN

VARIABLES
    host,        \* the application: running, or aborted by an assertion
    hostCtx,     \* contexts as the application has them
    objs,        \* the objects it uses: made and not given up by a destroy call
    hostRts,     \* queue pairs it has connected
    free,        \* the arena of each context: free bytes
    live,        \*   and allocated blocks
    outstanding, \* requests of each queue pair posted and not polled
    waiting,     \* the application is inside an ioctl
    channel,     \* up, or down after an error
    req,         \* the request at the DPU
    rep,         \* the reply to the host
    peers,       \* queue pairs the application lets a peer send to
    inbound,     \* the oldest request of its peer that is not acknowledged
    dpu,         \* the DPU process: running, exited, or what it used when freed
    contextList, \* context_list: no entry, live, or a dangling pointer
    dpuObjs,     \* pd_list, cq_list, qp_list and mr_list of all contexts
    dpuRts,      \* queue pairs with a remote_qp_number
    next,        \* the number of the next object of each type
    linked,      \* send rings inserted or erased by the running handler
    sendWqs,     \* active_datapath_send_wq_list of each thread
    lookup,      \* local_qpn_to_qp_list of each thread
    active,      \* active_qp_list of each thread
    pc,          \* where each thread is; it has its list's lock in "loop"
    hand,        \* the queue pair of the packet it is handling
    todo,        \* contexts whose ring the thread has still to poll
    ring,        \* requests in the send ring of each context and thread
    sends        \* requests in the DPU's send ring of each queue pair

arena == <<free, live>>
app == <<host, hostCtx, objs, hostRts, outstanding>>
ioctl == <<waiting, channel>>
tables == <<contextList, dpuObjs, dpuRts, next, linked>>
threads == <<active, pc, hand, todo, sends>>
net == <<peers, inbound>>
vars == <<app, arena, ioctl, req, rep, dpu, tables, sendWqs, lookup, threads, ring, net>>

Wq == 0 .. NumWqs - 1
Ctx == 0 .. MaxContexts - 1
Type == {"pd", "cq", "qp", "mr"}
QpNumber == 0 .. MaxMade["qp"] - 1
None == -1

\* An object: its number, the objects it refers to, the thread of a queue
\* pair, and the blocks of the arena it uses.  A null pointer is no block.
Id == Type \X Nat
Object == [type : Type \cup {"ctx"}, ctx : Ctx, number : Nat \cup {None}, uses : SUBSET Id,
           wq : Wq \cup {None}, blocks : SUBSET Block]

\* What a thread is about to do: to take its list's lock, to look at a send
\* ring, to send, to receive; with a packet in hand, to execute or to
\* acknowledge a request, to complete one of its own or to retire it.
Place == {"lock", "loop", "send", "recv", "responder", "acking", "completer", "retiring"}

DpuState == {"running", "exited", "freed_context", "freed_active", "freed_receiver",
             "freed_sender", "freed_cq", "freed_mr"}

IdOf(o) == <<o.type, o.number>>

Context(c) == [type |-> "ctx", ctx |-> c, number |-> None, uses |-> {},
               wq |-> None, blocks |-> {}]

\* A request or a reply.
Op == [kind : {"open", "close", "create", "destroy", "modify"}, obj : Object]

\* A peer's request, and the memory region a WRITE names, None for a SEND.
\* Packets arrive in order, so the peer's next request is taken as posted when
\* this one has been acknowledged.
Message == [state : {"none", "posted", "begun", "executed"}, mr : Nat \cup {None}]
NoMessage == [state |-> "none", mr |-> None]

ASSUME NoOpAssumption == NoOp \notin Op

\* smartns_open_device takes the first bytes of the arena for the send rings.
SendRings == {[addr |-> w, size |-> 1] : w \in Wq}

Init ==
    /\ host = "running"
    /\ hostCtx = [c \in Ctx |-> "none"]
    /\ objs = {}
    /\ hostRts = {}
    /\ free = [c \in Ctx |-> {}]
    /\ live = [c \in Ctx |-> {}]
    /\ outstanding = [q \in QpNumber |-> 0]
    /\ waiting = FALSE
    /\ channel = "up"
    /\ req = NoOp
    /\ rep = NoOp
    /\ peers = {}
    /\ inbound = [q \in QpNumber |-> NoMessage]
    /\ dpu = "running"
    /\ contextList = [c \in Ctx |-> "none"]
    /\ dpuObjs = {}
    /\ dpuRts = {}
    /\ next = [t \in Type |-> 0]
    /\ linked = 0
    /\ sendWqs = [w \in Wq |-> {}]
    /\ lookup = [w \in Wq |-> {}]
    /\ active = [w \in Wq |-> {}]
    /\ pc = [w \in Wq |-> "lock"]
    /\ hand = [w \in Wq |-> None]
    /\ todo = [w \in Wq |-> {}]
    /\ ring = [c \in Ctx |-> [w \in Wq |-> <<>>]]
    /\ sends = [q \in QpNumber |-> 0]

-----------------------------------------------------------------------------
(* The host library *)

\* The control thread is free to call.
MayCall == host = "running" /\ ~waiting /\ channel = "up"

\* ioctl: the request goes to the DPU.
Call(op) ==
    /\ req' = op
    /\ rep' = NoOp
    /\ waiting' = TRUE
    /\ UNCHANGED <<channel, dpu, tables, sendWqs, lookup, threads, ring, net>>

InUse(o) == \E p \in objs : p.ctx = o.ctx /\ IdOf(o) \in p.uses

Objects(c, type) == {o \in objs : o.ctx = c /\ o.type = type}

\* smartns_open_device
OpenDevice(c) ==
    /\ MayCall
    /\ hostCtx[c] = "none"
    /\ \A d \in Ctx : d < c => hostCtx[d] # "none"
    /\ Call([kind |-> "open", obj |-> Context(c)])
    /\ UNCHANGED <<app, arena>>

\* smartns_close_device, when nothing is left.
CloseDevice(c) ==
    /\ MayCall
    /\ hostCtx[c] = "open"
    /\ \A o \in objs : o.ctx # c
    /\ Call([kind |-> "close", obj |-> Context(c)])
    /\ UNCHANGED <<app, arena>>

Create(c, type, uses, wq, blocks) ==
    Call([kind |-> "create",
          obj |-> [type |-> type, ctx |-> c, number |-> None, uses |-> uses,
                   wq |-> wq, blocks |-> blocks]])

\* smartns_alloc_pd; a second call returns the same pd without an ioctl.
AllocPd(c) ==
    /\ MayCall
    /\ hostCtx[c] = "open"
    /\ Objects(c, "pd") = {}
    /\ next["pd"] < MaxMade["pd"]
    /\ Create(c, "pd", {}, None, {})
    /\ UNCHANGED <<app, arena>>

\* smartns_reg_mr
RegMr(c) ==
    /\ MayCall
    /\ next["mr"] < MaxMade["mr"]
    /\ \E pd \in Objects(c, "pd") : Create(c, "mr", {IdOf(pd)}, None, {})
    /\ UNCHANGED <<app, arena>>

\* smartns_create_cq: the ring and the doorbell, or an assertion fails.
CreateCq(c) ==
    LET ringBlock == Allocated(free[c], RingSize, Page)
        rest == FreeAfterAlloc(free[c], RingSize, Page)
        doorbell == Allocated(rest, 1, 1)
    IN  /\ MayCall
        /\ hostCtx[c] = "open"
        /\ next["cq"] < MaxMade["cq"]
        /\ IF Fitting(free[c], RingSize, Page) # {} /\ Fitting(rest, 1, 1) # {}
             THEN /\ free' = [free EXCEPT ![c] = FreeAfterAlloc(rest, 1, 1)]
                  /\ live' = [live EXCEPT ![c] = @ \cup {ringBlock, doorbell}]
                  /\ Create(c, "cq", {}, None, {ringBlock, doorbell})
                  /\ UNCHANGED app
             ELSE /\ host' = "aborted"
                  /\ UNCHANGED <<hostCtx, objs, hostRts, outstanding, arena, ioctl,
                                 req, rep, dpu, tables, sendWqs, lookup, threads, ring, net>>

\* smartns_create_qp: no memory goes unnoticed, 0 being aligned.
CreateQp(c, w) ==
    /\ MayCall
    /\ next["qp"] < MaxMade["qp"]
    /\ \E pd \in Objects(c, "pd"), sendCq, recvCq \in Objects(c, "cq") :
         LET uses == {IdOf(pd), IdOf(sendCq), IdOf(recvCq)}
             ringBlock == Allocated(free[c], RingSize, Page)
         IN  IF Fitting(free[c], RingSize, Page) # {}
               THEN /\ free' = [free EXCEPT ![c] = FreeAfterAlloc(@, RingSize, Page)]
                    /\ live' = [live EXCEPT ![c] = @ \cup {ringBlock}]
                    /\ Create(c, "qp", uses, w, {ringBlock})
               ELSE /\ Create(c, "qp", uses, w, {})
                    /\ UNCHANGED arena
    /\ UNCHANGED app

\* custom_allocator::free, for each of the blocks.
GiveBack(c, blocks) ==
    /\ free' = [free EXCEPT ![c] = FreeAfterFree(@, blocks)]
    /\ live' = [live EXCEPT ![c] = @ \ blocks]

\* The application's discipline before it destroys an object.  No call tells
\* it what its peers do: it agrees with them out of band.
Destroyable(o) ==
    /\ ~InUse(o)
    /\ o.type = "qp" =>
         /\ outstanding[o.number] = 0
         /\ PeersStop => o \notin peers
    /\ o.type = "mr" /\ PeersStop => \A p \in peers : p.ctx # o.ctx

\* smartns_destroy_qp, smartns_destroy_cq, smartns_dereg_mr and
\* smartns_dealloc_pd: from the call on the application does not use o.
Destroy(o) ==
    /\ MayCall
    /\ Destroyable(o)
    /\ Call([kind |-> "destroy", obj |-> o])
    /\ objs' = objs \ {o}
    /\ hostRts' = IF o.type = "qp" THEN hostRts \ {o.number} ELSE hostRts
    /\ UNCHANGED <<host, hostCtx, outstanding, arena>>

\* smartns_modify_qp
ModifyQp(o) ==
    /\ MayCall
    /\ o.type = "qp"
    /\ o.number \notin hostRts
    /\ Call([kind |-> "modify", obj |-> o])
    /\ UNCHANGED <<app, arena>>

\* The ioctl returns the reply.
Replied(kind) ==
    /\ host = "running"
    /\ waiting
    /\ rep # NoOp
    /\ rep.kind = kind
    /\ waiting' = FALSE
    /\ rep' = NoOp
    /\ UNCHANGED <<host, outstanding, channel, req, dpu, tables, sendWqs, lookup,
                   threads, ring, net>>

OpenReturns ==
    /\ Replied("open")
    /\ hostCtx' = [hostCtx EXCEPT ![rep.obj.ctx] = "open"]
    /\ free' = [free EXCEPT ![rep.obj.ctx] = NumWqs .. ArenaSize - 1]
    /\ live' = [live EXCEPT ![rep.obj.ctx] = SendRings]
    /\ UNCHANGED <<objs, hostRts>>

CloseReturns ==
    /\ Replied("close")
    /\ hostCtx' = [hostCtx EXCEPT ![rep.obj.ctx] = "closed"]
    /\ free' = [free EXCEPT ![rep.obj.ctx] = {}]
    /\ live' = [live EXCEPT ![rep.obj.ctx] = {}]
    /\ UNCHANGED <<objs, hostRts>>

CreateReturns ==
    /\ Replied("create")
    /\ objs' = objs \cup {rep.obj}
    /\ UNCHANGED <<hostCtx, hostRts, arena>>

DestroyReturns ==
    /\ Replied("destroy")
    /\ GiveBack(rep.obj.ctx, rep.obj.blocks)
    /\ UNCHANGED <<hostCtx, objs, hostRts>>

ModifyReturns ==
    /\ Replied("modify")
    /\ hostRts' = hostRts \cup {rep.obj.number}
    /\ UNCHANGED <<hostCtx, objs, arena>>

\* Mutant: a create that fails gives its memory back.
FreedCreated(op) == IF op.kind = "create" THEN op.obj.blocks ELSE {}

\* What a call frees when its ioctl fails: it returns at once.
FreedOnError(op) == {}

\* The ioctl returns an error; the DPU may still handle the request.
IoctlFails ==
    /\ host = "running"
    /\ waiting
    /\ waiting' = FALSE
    /\ channel' = "down"
    /\ LET op == IF req # NoOp THEN req ELSE rep
       IN  GiveBack(op.obj.ctx, FreedOnError(op))
    /\ UNCHANGED <<app, req, rep, dpu, tables, sendWqs, lookup, threads, ring, net>>

\* smartns_post_send: the request is in the send ring of the queue pair.
Post(o) ==
    /\ host = "running"
    /\ o.type = "qp"
    /\ o.number \in hostRts
    /\ outstanding[o.number] < MaxOutstanding
    /\ outstanding' = [outstanding EXCEPT ![o.number] = @ + 1]
    /\ ring' = [ring EXCEPT ![o.ctx][o.wq] = Append(@, o.number)]
    /\ UNCHANGED <<host, hostCtx, objs, hostRts, arena, ioctl, req, rep, dpu,
                   tables, sendWqs, lookup, threads, net>>

Unfetched(o) ==
    Cardinality({i \in DOMAIN ring[o.ctx][o.wq] : ring[o.ctx][o.wq][i] = o.number})

\* smartns_poll_cq finds a CQE of the queue pair: one of its requests is
\* neither in the send ring nor in the DPU's.
Poll(o) ==
    /\ host = "running"
    /\ o.type = "qp"
    /\ outstanding[o.number] > sends[o.number] + Unfetched(o)
    /\ outstanding' = [outstanding EXCEPT ![o.number] = @ - 1]
    /\ UNCHANGED <<host, hostCtx, objs, hostRts, arena, ioctl, req, rep, dpu,
                   tables, sendWqs, lookup, threads, ring, net>>

Host ==
    \/ \E c \in Ctx : OpenDevice(c) \/ CloseDevice(c) \/ AllocPd(c) \/ RegMr(c)
    \/ \E c \in Ctx : CreateCq(c) \/ \E w \in Wq : CreateQp(c, w)
    \/ \E o \in objs : Destroy(o) \/ ModifyQp(o) \/ Post(o) \/ Poll(o)
    \/ OpenReturns \/ CloseReturns \/ CreateReturns \/ DestroyReturns
    \/ ModifyReturns \/ IoctlFails
-----------------------------------------------------------------------------
(* The peers *)

Others == <<app, arena, ioctl, req, rep, dpu, tables, sendWqs, lookup, threads, ring>>

\* The application tells a peer that it may send to a queue pair.
StartPeer(o) ==
    /\ host = "running"
    /\ o.type = "qp" /\ o.number \in hostRts
    /\ peers' = peers \cup {o}
    /\ UNCHANGED <<inbound, Others>>

\* It has the peer stop, which does when all its requests have completed.
StopPeer(o) ==
    /\ inbound[o.number] = NoMessage
    /\ peers' = peers \ {o}
    /\ UNCHANGED <<inbound, Others>>

\* The peer posts a SEND, or a WRITE to a memory region it has been told of.
PeerSends(o) ==
    /\ inbound[o.number] = NoMessage
    /\ \E mr \in {None} \cup {p.number : p \in Objects(o.ctx, "mr")} :
         inbound' = [inbound EXCEPT ![o.number] = [state |-> "posted", mr |-> mr]]
    /\ UNCHANGED <<peers, Others>>

Peers ==
    \/ \E o \in objs : StartPeer(o)
    \/ \E o \in peers : PeerSends(o) \/ StopPeer(o)

-----------------------------------------------------------------------------
(* The handlers of the DPU's control thread *)

\* What the look-ups at the head of a handler lead to: a context that is not
\* there or an object that is not there ends the process, a dangling pointer
\* is followed.
Found(c, ids) ==
    CASE contextList[c] = "freed" -> "freed_context"
      [] contextList[c] = "none" -> "exited"
      [] OTHER ->
           IF \A id \in ids : \E o \in dpuObjs : o.ctx = c /\ IdOf(o) = id
             THEN "running" ELSE "exited"

\* The control thread takes up a request of this kind.
Requested(kind, type) ==
    /\ dpu = "running"
    /\ req # NoOp
    /\ req.kind = kind
    /\ req.obj.type = type
    /\ UNCHANGED <<app, arena, ioctl, threads, ring, net>>

Reply(op) ==
    /\ req' = NoOp
    /\ rep' = op

\* The object is made and entered into the context's table.
Made == [req.obj EXCEPT !.number = next[req.obj.type]]

\* Mutant: the object is not entered into the context's table.
EnteredNever(o) == {}

\* What a create handler enters into the context's table.
Entered(o) == {o}

\* handle_alloc_pd: "already has pd".
PdExists(c) == \E o \in dpuObjs : o.ctx = c /\ o.type = "pd"

HandleCreate(type) ==
    /\ Requested("create", type)
    /\ dpu' = IF type = "pd" /\ PdExists(req.obj.ctx)
                THEN "exited" ELSE Found(req.obj.ctx, req.obj.uses)
    /\ IF dpu' = "running"
         THEN /\ dpuObjs' = dpuObjs \cup Entered(Made)
              /\ next' = [next EXCEPT ![type] = @ + 1]
              /\ Reply([req EXCEPT !.obj = Made])
         ELSE UNCHANGED <<dpuObjs, next, req, rep>>
    /\ UNCHANGED <<contextList, dpuRts, linked, sendWqs>>

\* handle_alloc_pd, handle_create_cq, and handle_reg_mr (the key of a memory
\* region comes with the request).
HandleAllocPd == HandleCreate("pd") /\ UNCHANGED lookup
HandleCreateCq == HandleCreate("cq") /\ UNCHANGED lookup
HandleRegMr == HandleCreate("mr") /\ UNCHANGED lookup

\* Mutant: the queue pair is handed to the first thread, whatever its send ring.
HandedToFirst(w, q) == [lookup EXCEPT ![0] = @ \cup {q}]

\* The queue pair is handed to the datapath thread of its send ring.
Handed(w, q) == [lookup EXCEPT ![w] = @ \cup {q}]

HandleCreateQp ==
    /\ HandleCreate("qp")
    /\ lookup' = IF dpu' = "running" THEN Handed(req.obj.wq, next["qp"]) ELSE lookup

\* The objects a destroy handler looks up: a queue pair's or a memory region's
\* protection domain, and the object.
LookedUp(o) == {IdOf(o)} \cup {id \in o.uses : id[1] = "pd"}

HandleDestroy(type) ==
    /\ Requested("destroy", type)
    /\ dpu' = Found(req.obj.ctx, LookedUp(req.obj))
    /\ IF dpu' = "running"
         THEN /\ dpuObjs' = dpuObjs \ {req.obj}
              /\ Reply(req)
         ELSE UNCHANGED <<dpuObjs, req, rep>>
    /\ UNCHANGED <<contextList, next, linked, sendWqs>>

HandleDeallocPd == HandleDestroy("pd") /\ UNCHANGED <<lookup, dpuRts>>
HandleDestroyCq == HandleDestroy("cq") /\ UNCHANGED <<lookup, dpuRts>>
HandleDestroyMr == HandleDestroy("mr") /\ UNCHANGED <<lookup, dpuRts>>

\* The queue pair is taken out of its thread's table, not of its active list.
Unlooked(w, q) == [lookup EXCEPT ![w] = @ \ {q}]

HandleDestroyQp ==
    /\ HandleDestroy("qp")
    /\ IF dpu' = "running"
         THEN /\ lookup' = Unlooked(req.obj.wq, req.obj.number)
              /\ dpuRts' = dpuRts \ {req.obj.number}
         ELSE UNCHANGED <<lookup, dpuRts>>

HandleModifyQp ==
    /\ Requested("modify", "qp")
    /\ dpu' = Found(req.obj.ctx, LookedUp(req.obj))
    /\ IF dpu' = "running"
         THEN dpuRts' = dpuRts \cup {req.obj.number} /\ Reply(req)
         ELSE UNCHANGED <<dpuRts, req, rep>>
    /\ UNCHANGED <<contextList, dpuObjs, next, linked, sendWqs, lookup>>

\* active_datapath_send_wq_list_mutex of the thread can be taken.
ListFree(w) == pc[w] # "loop"

\* handle_open_device gives each thread a send ring of the new context, one
\* list and one lock after the other, and enters the context.
LinkWq ==
    /\ Requested("open", "ctx")
    /\ linked < NumWqs
    /\ ListFree(linked)
    /\ sendWqs' = [sendWqs EXCEPT ![linked] = @ \cup {req.obj.ctx}]
    /\ linked' = linked + 1
    /\ UNCHANGED <<req, rep, dpu, contextList, dpuObjs, dpuRts, next, lookup>>

OpenDone ==
    /\ Requested("open", "ctx")
    /\ linked = NumWqs
    /\ contextList' = [contextList EXCEPT ![req.obj.ctx] = "live"]
    /\ linked' = 0
    /\ Reply(req)
    /\ UNCHANGED <<dpu, dpuObjs, dpuRts, next, sendWqs, lookup>>

HandleOpenDevice == LinkWq \/ OpenDone

\* The context handle_close_device works on, whatever context is closed.
Closed(c) == 0

\* The checks of handle_close_device.
CloseChecked(c) ==
    IF contextList[c] = "none" THEN "exited"
    ELSE IF contextList[Closed(c)] = "freed" THEN "freed_context"
    ELSE IF \E o \in dpuObjs : o.ctx = Closed(c) THEN "exited" ELSE "running"

\* Mutant: the last thread keeps its send ring.
UnlinkedButLast(w, c) == IF w = NumWqs - 1 THEN sendWqs ELSE [sendWqs EXCEPT ![w] = @ \ {c}]

Unlinked(w, c) == [sendWqs EXCEPT ![w] = @ \ {c}]

\* handle_close_device takes the send rings from the threads.
UnlinkWq ==
    /\ Requested("close", "ctx")
    /\ linked < NumWqs
    /\ ListFree(linked)
    /\ dpu' = CloseChecked(req.obj.ctx)
    /\ IF dpu' = "running"
         THEN /\ sendWqs' = Unlinked(linked, Closed(req.obj.ctx))
              /\ linked' = linked + 1
         ELSE UNCHANGED <<sendWqs, linked>>
    /\ UNCHANGED <<req, rep, contextList, dpuObjs, dpuRts, next, lookup>>

\* Then it frees the context and erases the entry of key 1 ("erase(it)").
CloseDone ==
    /\ Requested("close", "ctx")
    /\ linked = NumWqs
    /\ contextList' =
         [c \in Ctx |-> IF c = 1 THEN "none"
                        ELSE IF c = Closed(req.obj.ctx) THEN "freed" ELSE contextList[c]]
    /\ linked' = 0
    /\ Reply(req)
    /\ UNCHANGED <<dpu, dpuObjs, dpuRts, next, sendWqs, lookup>>

HandleCloseDevice == UnlinkWq \/ CloseDone

Handler ==
    \/ HandleOpenDevice \/ HandleCloseDevice \/ HandleModifyQp
    \/ HandleAllocPd \/ HandleRegMr \/ HandleCreateCq \/ HandleCreateQp
    \/ HandleDeallocPd \/ HandleDestroyMr \/ HandleDestroyCq \/ HandleDestroyQp

-----------------------------------------------------------------------------
(* The datapath threads *)

Datapath ==
    /\ dpu = "running"
    /\ UNCHANGED <<app, arena, ioctl, req, rep, tables, sendWqs, lookup, peers>>

\* loop_datapath_send_wq takes the lock of its list.
LoopLock(w) ==
    /\ Datapath
    /\ pc[w] = "lock"
    /\ pc' = [pc EXCEPT ![w] = "loop"]
    /\ todo' = [todo EXCEPT ![w] = sendWqs[w]]
    /\ UNCHANGED <<dpu, active, hand, ring, sends, inbound>>

\* It looks at the next slot of a ring of its list, which is memory of the
\* context, and finds a request.
TakeWqe(w, c) ==
    /\ Datapath
    /\ pc[w] = "loop"
    /\ c \in todo[w]
    /\ ring[c][w] # <<>>
    /\ LET q == Head(ring[c][w])
       IN  IF contextList[c] # "freed" /\ q \in lookup[w]
             THEN /\ active' = IF sends[q] = 0
                                 THEN [active EXCEPT ![w] = @ \cup {q}] ELSE active
                  /\ sends' = [sends EXCEPT ![q] = @ + 1]
                  /\ ring' = [ring EXCEPT ![c][w] = Tail(@)]
                  /\ UNCHANGED dpu
             ELSE /\ dpu' = IF contextList[c] = "freed" THEN "freed_context" ELSE "exited"
                  /\ UNCHANGED <<active, sends, ring>>
    /\ UNCHANGED <<pc, hand, todo, inbound>>

\* It finds none.
RingEmpty(w, c) ==
    /\ Datapath
    /\ pc[w] = "loop"
    /\ c \in todo[w]
    /\ ring[c][w] = <<>>
    /\ dpu' = IF contextList[c] = "freed" THEN "freed_context" ELSE dpu
    /\ todo' = [todo EXCEPT ![w] = @ \ {c}]
    /\ UNCHANGED <<active, pc, hand, ring, sends, inbound>>

LoopUnlock(w) ==
    /\ Datapath
    /\ pc[w] = "loop"
    /\ todo[w] = {}
    /\ pc' = [pc EXCEPT ![w] = "send"]
    /\ UNCHANGED <<dpu, active, hand, todo, ring, sends, inbound>>

Freed(q) == \A o \in dpuObjs : IdOf(o) # <<"qp", q>>

\* handle_send goes through the active list and takes out the queue pairs
\* that have nothing left; a freed one is read first.
HandleSend(w) ==
    /\ Datapath
    /\ pc[w] = "send"
    /\ dpu' = IF \E q \in active[w] : Freed(q) THEN "freed_active" ELSE dpu
    /\ active' = [active EXCEPT ![w] = {q \in @ : sends[q] > 0}]
    /\ pc' = [pc EXCEPT ![w] = "recv"]
    /\ UNCHANGED <<hand, todo, ring, sends, inbound>>

\* handle_recv takes up a packet of queue pair q: rxe_handle_recv looks it up
\* in the thread's table and asserts that it is there.
Receives(w, q, place) ==
    /\ Datapath
    /\ pc[w] = "recv"
    /\ IF q \in lookup[w]
         THEN /\ pc' = [pc EXCEPT ![w] = place]
              /\ hand' = [hand EXCEPT ![w] = q]
              /\ UNCHANGED dpu
         ELSE /\ dpu' = "exited"
              /\ UNCHANGED <<pc, hand>>
    /\ UNCHANGED <<active, todo, ring, sends, inbound>>

\* A packet of a peer's request.
RecvRequest(w, o) ==
    /\ o.wq = w
    /\ inbound[o.number].state \in {"posted", "begun"}
    /\ Receives(w, o.number, "responder")

\* An acknowledgement.  They come in order, and that of a request's last packet
\* comes last: there is one only for a request that is not completed.
RecvAck(w, q) ==
    /\ sends[q] > 0
    /\ Receives(w, q, "completer")

\* The thread, at this place, uses the queue pair in its hand, without a lock.
Handles(w, place) ==
    /\ Datapath
    /\ pc[w] = place
    /\ UNCHANGED <<active, todo, ring>>

Proceeds(w, place) ==
    /\ pc' = [pc EXCEPT ![w] = place]
    /\ hand' = IF place = "recv" THEN [hand EXCEPT ![w] = None] ELSE hand

\* A completion queue of queue pair q has been freed; a memory region has.
CqFreed(q) ==
    \E o \in dpuObjs :
      /\ IdOf(o) = <<"qp", q>>
      /\ \E id \in o.uses : id[1] = "cq" /\ \A p \in dpuObjs : IdOf(p) # id

MrFreed(mr) == \A o \in dpuObjs : IdOf(o) # <<"mr", mr>>

\* The responder executes a packet.  The first of a WRITE looks its memory
\* region up, those behind it take it from recv_wq; the last of a SEND writes
\* a CQE.
Executed(q, last) ==
    LET m == inbound[q]
    IN  CASE Freed(q) -> "freed_receiver"
          [] ~Freed(q) /\ m.mr # None /\ MrFreed(m.mr) ->
               IF m.state = "posted" THEN "exited" ELSE "freed_mr"
          [] ~Freed(q) /\ m.mr = None /\ last /\ CqFreed(q) -> "freed_cq"
          [] OTHER -> dpu

\* Mutant: the request counts as acknowledged before send_ack has run.
AcknowledgedEarly(m, last) == IF last THEN NoMessage ELSE [m EXCEPT !.state = "begun"]

\* What becomes of a request with a packet of it.
After(m, last) == [m EXCEPT !.state = IF last THEN "executed" ELSE "begun"]

\* The last packet of a request asks for an acknowledgement, others may.
Respond(w) ==
    /\ Handles(w, "responder")
    /\ \E last, ack \in BOOLEAN :
         /\ last => ack
         /\ dpu' = Executed(hand[w], last)
         /\ inbound' = [inbound EXCEPT ![hand[w]] = After(@, last)]
         /\ Proceeds(w, IF ack THEN "acking" ELSE "recv")
    /\ UNCHANGED sends

\* send_ack reads its peer's number, and what it acknowledges, from the queue
\* pair.
SendAck(w) ==
    /\ Handles(w, "acking")
    /\ dpu' = IF Freed(hand[w]) THEN "freed_receiver" ELSE dpu
    /\ inbound' = [inbound EXCEPT ![hand[w]] = IF @.state = "executed" THEN NoMessage ELSE @]
    /\ Proceeds(w, "recv")
    /\ UNCHANGED sends

\* complete_send_wqe writes a CQE for the oldest request that is not completed,
\* for the queue pair's completion queue.  From here on the host may see it.
CompleteWqe(w) ==
    /\ Handles(w, "completer")
    /\ sends[hand[w]] > 0
    /\ dpu' = IF Freed(hand[w]) THEN "freed_sender"
              ELSE IF CqFreed(hand[w]) THEN "freed_cq" ELSE dpu
    /\ sends' = [sends EXCEPT ![hand[w]] = @ - 1]
    /\ Proceeds(w, "retiring")
    /\ UNCHANGED inbound

\* Only then it moves the tail of the send ring.  One acknowledgement may cover
\* several requests, and rxe_handle_recv keeps its PSN in comp_info.
StepTail(w) ==
    /\ Handles(w, "retiring")
    /\ dpu' = IF Freed(hand[w]) THEN "freed_sender" ELSE dpu
    /\ \E place \in {"completer", "recv"} : Proceeds(w, place)
    /\ UNCHANGED <<sends, inbound>>

\* The acknowledgement completes none, or no other, of the ring's requests.
AckDone(w) ==
    /\ Handles(w, "completer")
    /\ dpu' = IF Freed(hand[w]) THEN "freed_sender" ELSE dpu
    /\ Proceeds(w, "recv")
    /\ UNCHANGED <<sends, inbound>>

\* rxe_handle_recv has no packet in hand, and takes one up or is through.
Packet(w) ==
    \/ \E o \in peers : RecvRequest(w, o)
    \/ \E q \in active[w] : RecvAck(w, q)
    \/ Respond(w) \/ SendAck(w)
    \/ CompleteWqe(w) \/ StepTail(w) \/ AckDone(w)

RecvDone(w) ==
    /\ Datapath
    /\ pc[w] = "recv"
    /\ pc' = [pc EXCEPT ![w] = "lock"]
    /\ UNCHANGED <<dpu, active, hand, todo, ring, sends, inbound>>

Thread(w) ==
    \/ LoopLock(w) \/ LoopUnlock(w) \/ HandleSend(w) \/ RecvDone(w)
    \/ \E c \in Ctx : TakeWqe(w, c) \/ RingEmpty(w, c)
    \/ Packet(w)

-----------------------------------------------------------------------------
Next == Host \/ Peers \/ Handler \/ \E w \in Wq : Thread(w)

Spec == Init /\ [][Next]_vars

-----------------------------------------------------------------------------
(* Properties *)

\* Every variable keeps its type.
TypeOK ==
    /\ host \in {"running", "aborted"}
    /\ hostCtx \in [Ctx -> {"none", "open", "closed"}]
    /\ objs \in SUBSET Object
    /\ hostRts \subseteq QpNumber
    /\ free \in [Ctx -> SUBSET (0 .. ArenaSize - 1)]
    /\ live \in [Ctx -> SUBSET Block]
    /\ outstanding \in [QpNumber -> 0 .. MaxOutstanding]
    /\ waiting \in BOOLEAN
    /\ channel \in {"up", "down"}
    /\ req \in Op \cup {NoOp}
    /\ rep \in Op \cup {NoOp}
    /\ peers \in SUBSET Object
    /\ inbound \in [QpNumber -> Message]
    /\ dpu \in DpuState
    /\ contextList \in [Ctx -> {"none", "live", "freed"}]
    /\ dpuObjs \in SUBSET Object
    /\ dpuRts \subseteq QpNumber
    /\ next \in [Type -> Nat]
    /\ linked \in 0 .. NumWqs
    /\ sendWqs \in [Wq -> SUBSET Ctx]
    /\ lookup \in [Wq -> SUBSET QpNumber]
    /\ active \in [Wq -> SUBSET QpNumber]
    /\ pc \in [Wq -> Place]
    /\ hand \in [Wq -> QpNumber \cup {None}]
    /\ todo \in [Wq -> SUBSET Ctx]
    /\ ring \in [Ctx -> [Wq -> Seq(QpNumber)]]
    /\ sends \in [QpNumber -> Nat]

\* Of what has been freed, handlers and threads use at most the sending half of
\* a queue pair: the entry of an active list, or the send ring behind the last
\* CQE.  No thread executes or acknowledges a request on a queue pair, writes a
\* CQE to a completion queue, copies to a memory region or polls a send ring
\* that is gone, although it holds no lock between the look-up of a packet's
\* queue pair and the last use (rxe_recv.cpp:62-187).
OnlySendersUseFreed ==
    dpu \notin {"freed_context", "freed_receiver", "freed_cq", "freed_mr"}

\* No call of a careful application and no packet of its peers ends the DPU
\* process: no handler, no thread with a request of a send ring and no thread
\* with a packet looks up an object that is not there.
DpuAlive == dpu # "exited"

\* A queue pair that is destroyed when all its requests have been polled is in
\* no thread's list of queue pairs to serve ("remove from special datapath",
\* controlpath.cpp:421).
ActiveNotFreed == dpu # "freed_active"

\* Every handle the application uses names an object the DPU has, of the same
\* memory, completion queues and thread, and every queue pair it has connected
\* is connected on the DPU.
HostViewLive == objs \subseteq dpuObjs /\ hostRts \subseteq dpuRts

\* The memory the DPU writes completions to and reads receive requests from
\* is allocated, for this object alone: also when an ioctl fails, and while a
\* create or a destroy call is under way.
RingsOwned ==
    /\ \A o \in dpuObjs : o.blocks \subseteq live[o.ctx]
    /\ \A o, p \in dpuObjs : o # p /\ o.ctx = p.ctx => o.blocks \cap p.blocks = {}
    /\ \A c \in Ctx : \A b, d \in live[c] : b # d => Bytes(b) \cap Bytes(d) = {}

\* When the application has closed a context no thread has a send ring or a
\* queue pair of it left.
CleanClose ==
    \A c \in Ctx : hostCtx[c] = "closed" =>
      /\ \A o \in dpuObjs : o.ctx # c
      /\ \A w \in Wq : c \notin sendWqs[w] /\ c \notin todo[w]
      /\ \A w \in Wq : \A q \in lookup[w] : \E o \in dpuObjs : IdOf(o) = <<"qp", q>>
=============================================================================
