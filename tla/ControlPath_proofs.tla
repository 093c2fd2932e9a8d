------------------------ MODULE ControlPath_proofs ------------------------
(***************************************************************************)
(* The control path is safe for every number of datapath threads, objects,  *)
(* requests and bytes.  For any number of contexts: what the application    *)
(* has the DPU has, and the memory the DPU uses is allocated to one object. *)
(* For one context: a closed context leaves nothing behind, and, if peers   *)
(* are stopped before what they use is destroyed, no handler and no thread  *)
(* looks up what is not there, and threads use no more than the sending     *)
(* half of a queue pair after it has been freed.                            *)
(***************************************************************************)
EXTENDS ControlPath, RingArith, FiniteSetTheorems

-----------------------------------------------------------------------------
(* The allocator (utils/allocator.cpp) *)

\* alignPointer rounds up to a multiple of the alignment.
LEMMA AlignPointerFacts ==
    ASSUME NEW p \in Nat, NEW alignment \in Nat, alignment > 0
    PROVE  /\ AlignPointer(p, alignment) \in Nat
           /\ AlignPointer(p, alignment) >= p
           /\ AlignPointer(p, alignment) < p + alignment
           /\ AlignPointer(p, alignment) % alignment = 0
<1> DEFINE x == p + alignment - 1
           k == x \div alignment
           r == x % alignment
<1>1. x \in Nat /\ x >= p /\ x < p + alignment
  OBVIOUS
<1>2. r \in 0 .. alignment - 1 /\ k \in Int /\ x = alignment * k + r
  BY <1>1, SlotAndTurn
<1>3. k * alignment = alignment * k /\ alignment * k \in Int
  BY <1>2
<1>4. AlignPointer(p, alignment) = alignment * k
  BY <1>3 DEF AlignPointer
<1>5. x = p + alignment - 1
  OBVIOUS
<1> HIDE DEF x, k, r
<1> DEFINE y == alignment * k
<1>6. y \in Int /\ x = y + r
  BY <1>2, <1>3
<1>7. y % alignment = 0
  <2>1. y = alignment * k + 0 /\ 0 \in 0 .. alignment - 1
    BY <1>3
  <2> QED
    BY <1>2, <1>6, <2>1, SlotAndTurnUnique
<1> HIDE DEF y
<1>8. y >= p /\ y < p + alignment
  BY <1>1, <1>2, <1>5, <1>6
<1> QED
  BY <1>4, <1>6, <1>7, <1>8 DEF y

\* alloc takes a block of the free list that is large enough.
LEMMA FirstFitFits ==
    ASSUME NEW pool, pool \subseteq Nat, NEW bytes, NEW alignment,
           Fitting(pool, bytes, alignment) # {}
    PROVE  /\ FirstFit(pool, bytes, alignment) \in Nat
           /\ Taken(FirstFit(pool, bytes, alignment), bytes, alignment) \subseteq pool
<1> DEFINE S == Fitting(pool, bytes, alignment)
<1>1. S \subseteq Nat /\ \A a \in S : Taken(a, bytes, alignment) \subseteq pool
  BY DEF Fitting, FreeBlocks
<1> HIDE DEF S
<1>2. \E a \in S : \A b \in S : a <= b
  BY <1>1, LeastNumber DEF S
<1>3. FirstFit(pool, bytes, alignment) \in S
  BY <1>2 DEF FirstFit, S
<1> QED
  BY <1>1, <1>3

\* A block returned by alloc lies in the free bytes, is aligned, and shares no
\* byte with what is left for the blocks after it (lib/smartns_dv.cpp takes the
\* rings of queue pairs and CQs this way).
THEOREM AllocSound ==
    ASSUME NEW pool, pool \subseteq Nat,
           NEW bytes \in Nat, bytes > 0, NEW alignment \in Nat, alignment > 0,
           Fitting(pool, bytes, alignment) # {}
    PROVE  LET block == Allocated(pool, bytes, alignment)
               rest == FreeAfterAlloc(pool, bytes, alignment)
           IN  /\ block \in Block
               /\ block.addr % alignment = 0
               /\ Bytes(block) \subseteq pool
               /\ rest \subseteq pool
               /\ Bytes(block) \cap rest = {}
<1> DEFINE f == FirstFit(pool, bytes, alignment)
           block == Allocated(pool, bytes, alignment)
           rest == FreeAfterAlloc(pool, bytes, alignment)
<1>1. f \in Nat /\ Taken(f, bytes, alignment) \subseteq pool
  BY FirstFitFits
<1>2. /\ AlignPointer(f, alignment) \in Nat
      /\ AlignPointer(f, alignment) >= f
      /\ AlignPointer(f, alignment) % alignment = 0
  BY <1>1, AlignPointerFacts
<1>3. block = [addr |-> AlignPointer(f, alignment), size |-> bytes]
  BY DEF Allocated
<1>4. rest = pool \ Taken(f, bytes, alignment)
  BY DEF FreeAfterAlloc
<1> HIDE DEF f, block, rest
<1>5. Bytes(block) \subseteq Taken(f, bytes, alignment)
  BY <1>1, <1>2, <1>3 DEF Bytes, Taken
<1>6. block \in Block
  BY <1>2, <1>3 DEF Block
<1> QED
  BY <1>1, <1>2, <1>3, <1>4, <1>5, <1>6 DEF block, rest

\* Blocks handed out stay apart: if the bytes of the blocks out are disjoint
\* from each other and from the free ones, they still are after alloc.
THEOREM AllocKeepsApart ==
    ASSUME NEW pool, pool \subseteq Nat,
           NEW bytes \in Nat, bytes > 0, NEW alignment \in Nat, alignment > 0,
           Fitting(pool, bytes, alignment) # {},
           NEW out, \A b \in out : Bytes(b) \cap pool = {}
    PROVE  /\ \A b \in out : Bytes(b) \cap Bytes(Allocated(pool, bytes, alignment)) = {}
           /\ \A b \in out \cup {Allocated(pool, bytes, alignment)} :
                Bytes(b) \cap FreeAfterAlloc(pool, bytes, alignment) = {}
<1>1. /\ Bytes(Allocated(pool, bytes, alignment)) \subseteq pool
      /\ FreeAfterAlloc(pool, bytes, alignment) \subseteq pool
      /\ Bytes(Allocated(pool, bytes, alignment))
           \cap FreeAfterAlloc(pool, bytes, alignment) = {}
  BY AllocSound
<1> QED
  BY <1>1

\* free gives back the bytes of the blocks and no byte of a block still out.
THEOREM FreeKeepsApart ==
    ASSUME NEW pool, NEW out, NEW blocks \in SUBSET out,
           \A b \in out : Bytes(b) \cap pool = {},
           \A b, c \in out : b # c => Bytes(b) \cap Bytes(c) = {}
    PROVE  /\ pool \subseteq FreeAfterFree(pool, blocks)
           /\ \A b \in blocks : Bytes(b) \subseteq FreeAfterFree(pool, blocks)
           /\ \A b \in out \ blocks : Bytes(b) \cap FreeAfterFree(pool, blocks) = {}
BY DEF FreeAfterFree

-----------------------------------------------------------------------------
(* The invariant *)

\* The operation under way, as a request or as a reply.
Asked(kind) == req # NoOp /\ req.kind = kind
Answered(kind) == rep # NoOp /\ rep.kind = kind

\* A context that has not been closed is the only one: the handler of a close
\* works on context 0, whatever context is closed.
OneContext == MaxContexts <= 1

\* There is one operation at a time, until an ioctl has failed.
ChannelInv ==
    /\ req = NoOp \/ rep = NoOp
    /\ waiting => req # NoOp \/ rep # NoOp
    /\ ~waiting /\ channel = "up" => req = NoOp /\ rep = NoOp

\* The DPU has the objects of the application and the one being made or
\* destroyed.
ViewInv ==
    /\ HostViewLive
    /\ \A o \in dpuObjs \ objs : \/ Asked("destroy") /\ o = req.obj
                                 \/ Answered("create") /\ o = rep.obj
    /\ Asked("destroy") =>
         /\ req.obj \in dpuObjs \ objs
         /\ req.obj.type = "qp" => req.obj.number \notin hostRts
    /\ Answered("create") => rep.obj \in dpuObjs \ objs
    /\ Answered("destroy") => rep.obj \notin dpuObjs
    /\ Asked("modify") => req.obj \in objs /\ req.obj.type = "qp"
    /\ Answered("modify") =>
         rep.obj \in objs /\ rep.obj.type = "qp" /\ rep.obj.number \in dpuRts

\* An object the DPU has: it belongs to an open context, and its number was
\* given to it alone.
Registered(o) ==
    /\ o.type \in Type
    /\ o.number \in 0 .. next[o.type] - 1
    /\ o.type = "qp" => o.number \in QpNumber /\ o.wq \in Wq
    /\ hostCtx[o.ctx] = "open"

ObjectInv ==
    /\ \A o \in dpuObjs : Registered(o)
    /\ \A o, p \in dpuObjs : IdOf(o) = IdOf(p) => o = p
    /\ Asked("create") =>
         /\ req.obj.type \in Type
         /\ next[req.obj.type] < MaxMade[req.obj.type]
         /\ req.obj.type = "qp" => req.obj.wq \in Wq
         /\ hostCtx[req.obj.ctx] = "open"
    /\ Asked("open") => hostCtx[req.obj.ctx] = "none"
    /\ Answered("open") => hostCtx[rep.obj.ctx] = "none"
    /\ Asked("close") => /\ hostCtx[req.obj.ctx] = "open"
                         /\ \A o \in dpuObjs : o.ctx # req.obj.ctx
    /\ Answered("close") => /\ hostCtx[rep.obj.ctx] = "open"
                            /\ \A o \in dpuObjs : o.ctx # rep.obj.ctx

\* Blocks that are allocated and that no object of the DPU uses.
Spare(c, blocks) ==
    /\ blocks \subseteq live[c]
    /\ \A o \in dpuObjs : o.ctx = c => o.blocks \cap blocks = {}

\* Allocated blocks lie in the arena, apart from each other and from what is
\* free.
ArenaInv ==
    \A c \in Ctx :
      /\ \A b \in live[c] : /\ b.size > 0
                            /\ Bytes(b) \subseteq 0 .. ArenaSize - 1
                            /\ Bytes(b) \cap free[c] = {}
      /\ \A b, d \in live[c] : b # d => Bytes(b) \cap Bytes(d) = {}

MemoryInv ==
    /\ ArenaInv
    /\ RingsOwned
    /\ Asked("create") => Spare(req.obj.ctx, req.obj.blocks)
    /\ Answered("destroy") => Spare(rep.obj.ctx, rep.obj.blocks)

ControlInv == TypeOK /\ ChannelInv /\ ViewInv /\ ObjectInv /\ MemoryInv

-----------------------------------------------------------------------------
(* Objects and operations *)

LEMMA ObjectFields ==
    ASSUME NEW o \in Object
    PROVE  /\ o.type \in Type \cup {"ctx"} /\ o.ctx \in Ctx
           /\ o.number \in Nat \cup {None} /\ o.uses \in SUBSET Id
           /\ o.wq \in Wq \cup {None} /\ o.blocks \in SUBSET Block
BY DEF Object

LEMMA OpFields ==
    ASSUME NEW op \in Op
    PROVE  /\ op # NoOp
           /\ op.kind \in {"open", "close", "create", "destroy", "modify"}
           /\ op.obj \in Object
BY NoOpAssumption DEF Op

\* The request and the reply.
LEMMA Operations ==
    ASSUME TypeOK
    PROVE  /\ req # NoOp => req \in Op
           /\ rep # NoOp => rep \in Op
BY DEF TypeOK

LEMMA ContextFacts ==
    ASSUME NEW c \in Ctx
    PROVE  /\ Context(c) \in Object
           /\ Context(c).ctx = c /\ Context(c).type = "ctx"
<1>1. {} \in SUBSET Id /\ {} \in SUBSET Block
  OBVIOUS
<1> QED
  BY <1>1 DEF Context, Object

\* An object made keeps all of the request but its number.
LEMMA MadeFacts ==
    ASSUME TypeOK, req # NoOp, req.obj.type \in Type
    PROVE  /\ Made \in Object
           /\ Made.type = req.obj.type /\ Made.ctx = req.obj.ctx
           /\ Made.number = next[req.obj.type]
           /\ Made.uses = req.obj.uses /\ Made.wq = req.obj.wq
           /\ Made.blocks = req.obj.blocks
           /\ IdOf(Made) = <<req.obj.type, next[req.obj.type]>>
           /\ [req EXCEPT !.obj = Made] \in Op
           /\ [req EXCEPT !.obj = Made].kind = req.kind
           /\ [req EXCEPT !.obj = Made].obj = Made
<1>1. req \in Op /\ next[req.obj.type] \in Nat
  BY DEF TypeOK
<1>2. req.obj \in Object
  BY <1>1 DEF Op
<1> DEFINE o == req.obj
           m == [o EXCEPT !.number = next[o.type]]
<1>3. o \in Object
  BY <1>2
<1>4. next[o.type] \in Nat
  BY <1>1
<1>5. /\ m \in Object
      /\ m.type = o.type /\ m.ctx = o.ctx /\ m.number = next[o.type]
      /\ m.uses = o.uses /\ m.wq = o.wq /\ m.blocks = o.blocks
  <2> HIDE DEF o
  <2> QED
    BY <1>3, <1>4 DEF Object
<1>6. Made = m
  BY DEF Made
<1> HIDE DEF m
<1>7. /\ [req EXCEPT !.obj = m] \in Op
      /\ [req EXCEPT !.obj = m].kind = req.kind
      /\ [req EXCEPT !.obj = m].obj = m
  BY <1>1, <1>5 DEF Op
<1> QED
  BY <1>5, <1>6, <1>7 DEF IdOf

\* A request to create an object.
LEMMA CreateFacts ==
    ASSUME NEW c \in Ctx, NEW type \in Type, NEW uses \in SUBSET Id,
           NEW wq \in Wq \cup {None}, NEW blocks \in SUBSET Block,
           Create(c, type, uses, wq, blocks)
    PROVE  \E op \in Op :
             /\ Call(op)
             /\ op.kind = "create" /\ op.obj.type = type /\ op.obj.ctx = c
             /\ op.obj.uses = uses /\ op.obj.wq = wq /\ op.obj.blocks = blocks
             /\ op.obj.number = None
<1> DEFINE o == [type |-> type, ctx |-> c, number |-> None, uses |-> uses,
                 wq |-> wq, blocks |-> blocks]
           op == [kind |-> "create", obj |-> o]
<1>1. o \in Object
  BY DEF Object
<1>2. op \in Op
  BY <1>1 DEF Op
<1>3. Call(op)
  BY DEF Create
<1> QED
  BY <1>2, <1>3

-----------------------------------------------------------------------------
(* What leaves the invariant alone: the datapath, and everything that changes
   neither a table, nor an arena, nor the operation under way. *)

Settled == <<objs, hostRts, hostCtx, req, rep, waiting, channel, dpuObjs, dpuRts,
             next, live, free>>

LEMMA SettledKeeps ==
    ASSUME ControlInv, UNCHANGED Settled
    PROVE  ChannelInv' /\ ViewInv' /\ ObjectInv' /\ MemoryInv'
<1>1. /\ objs' = objs /\ hostRts' = hostRts /\ hostCtx' = hostCtx
      /\ req' = req /\ rep' = rep /\ waiting' = waiting /\ channel' = channel
      /\ dpuObjs' = dpuObjs /\ dpuRts' = dpuRts /\ next' = next
      /\ live' = live /\ free' = free
  BY DEF Settled
<1>2. ChannelInv'
  BY <1>1 DEF ControlInv, ChannelInv
<1>3. ViewInv'
  BY <1>1 DEF ControlInv, ViewInv, HostViewLive, Asked, Answered
<1>4. ObjectInv'
  BY <1>1 DEF ControlInv, ObjectInv, Registered, Asked, Answered, IdOf
<1>5. MemoryInv'
  BY <1>1 DEF ControlInv, MemoryInv, ArenaInv, RingsOwned, Spare, Asked, Answered
<1> QED
  BY <1>2, <1>3, <1>4, <1>5

\* A step with a packet changes where the thread is and what it holds, the
\* peer's request, and what is to be completed when it completes a request.
LEMMA PacketFacts ==
    ASSUME NEW w \in Wq, Packet(w)
    PROVE  /\ Datapath /\ pc[w] # "loop"
           /\ UNCHANGED <<active, todo, ring>>
           /\ \E place \in Place \ {"loop"} : pc' \in {pc, [pc EXCEPT ![w] = place]}
           /\ CompleteWqe(w) \/ sends' = sends
<1>1. ASSUME NEW q, NEW place \in Place \ {"loop"}, Receives(w, q, place)
      PROVE  /\ Datapath /\ pc[w] # "loop" /\ UNCHANGED <<active, todo, ring, sends>>
             /\ pc' \in {pc, [pc EXCEPT ![w] = place]}
  BY <1>1 DEF Receives
<1>2. "responder" \in Place \ {"loop"} /\ "completer" \in Place \ {"loop"}
      /\ "acking" \in Place \ {"loop"} /\ "recv" \in Place \ {"loop"}
      /\ "retiring" \in Place \ {"loop"}
  BY DEF Place
<1>3. ASSUME NEW o \in peers, RecvRequest(w, o)
      PROVE  /\ Datapath /\ pc[w] # "loop" /\ UNCHANGED <<active, todo, ring, sends>>
             /\ \E place \in Place \ {"loop"} : pc' \in {pc, [pc EXCEPT ![w] = place]}
  BY <1>1, <1>2, <1>3 DEF RecvRequest
<1>4. ASSUME NEW q \in active[w], RecvAck(w, q)
      PROVE  /\ Datapath /\ pc[w] # "loop" /\ UNCHANGED <<active, todo, ring, sends>>
             /\ \E place \in Place \ {"loop"} : pc' \in {pc, [pc EXCEPT ![w] = place]}
  BY <1>1, <1>2, <1>4 DEF RecvAck
<1>5. CASE Respond(w)
  BY <1>2, <1>5 DEF Respond, Handles, Proceeds
<1>6. CASE SendAck(w) \/ CompleteWqe(w) \/ StepTail(w) \/ AckDone(w)
  BY <1>2, <1>6 DEF SendAck, CompleteWqe, StepTail, AckDone, Handles, Proceeds
<1> QED
  BY <1>3, <1>4, <1>5, <1>6 DEF Packet

LEMMA ThreadFacts ==
    ASSUME NEW w \in Wq, Thread(w)
    PROVE  Datapath
BY PacketFacts DEF Thread, LoopLock, LoopUnlock, HandleSend, RecvDone, TakeWqe, RingEmpty

LEMMA QuietSteps ==
    ASSUME \/ \E o \in objs : Post(o) \/ Poll(o)
           \/ LinkWq \/ UnlinkWq
           \/ Peers \/ \E w \in Wq : Thread(w)
           \/ UNCHANGED vars
    PROVE  UNCHANGED Settled
<1>1. ASSUME NEW o \in objs, Post(o) \/ Poll(o)
      PROVE  UNCHANGED Settled
  BY <1>1 DEF Post, Poll, arena, ioctl, tables, Settled
<1>2. CASE LinkWq \/ UnlinkWq
  BY <1>2 DEF LinkWq, UnlinkWq, Requested, app, arena, ioctl, Settled
<1>3. ASSUME NEW w \in Wq, Thread(w)
      PROVE  UNCHANGED Settled
  BY <1>3, ThreadFacts DEF Datapath, app, arena, ioctl, tables, Settled
<1>4. CASE UNCHANGED vars
  BY <1>4 DEF vars, app, arena, ioctl, tables, Settled
<1>5. CASE Peers
  BY <1>5 DEF Peers, StartPeer, StopPeer, PeerSends, Others, app, arena, ioctl, tables,
     Settled
<1> QED
  BY <1>1, <1>2, <1>3, <1>4, <1>5

-----------------------------------------------------------------------------
(* Calls *)

\* When a call is made nothing is under way, and both sides agree.
LEMMA CallFacts ==
    ASSUME ControlInv, MayCall, NEW op \in Op, Call(op)
    PROVE  /\ req = NoOp /\ rep = NoOp /\ dpuObjs = objs
           /\ req' = op /\ rep' = NoOp /\ waiting' = TRUE /\ op # NoOp
           /\ channel' = channel /\ dpuObjs' = dpuObjs /\ dpuRts' = dpuRts
           /\ next' = next
           /\ \A kind : ~Asked(kind) /\ ~Answered(kind) /\ ~Answered(kind)'
           /\ \A kind : Asked(kind)' <=> op.kind = kind
           /\ ChannelInv'
<1>1. req = NoOp /\ rep = NoOp
  BY DEF ControlInv, ChannelInv, MayCall
<1>2. \A kind : ~Asked(kind) /\ ~Answered(kind)
  BY <1>1 DEF Asked, Answered
<1>3. dpuObjs = objs
  BY <1>2 DEF ControlInv, ViewInv, HostViewLive
<1>4. op # NoOp
  BY OpFields
<1>5. /\ req' = op /\ rep' = NoOp /\ waiting' = TRUE
      /\ channel' = channel /\ dpuObjs' = dpuObjs /\ dpuRts' = dpuRts
      /\ next' = next
  BY DEF Call, tables
<1>6. \A kind : ~Answered(kind)' /\ (Asked(kind)' <=> op.kind = kind)
  BY <1>4, <1>5 DEF Asked, Answered
<1>7. ChannelInv'
  BY <1>4, <1>5 DEF ChannelInv
<1> QED
  BY <1>1, <1>2, <1>3, <1>4, <1>5, <1>6, <1>7

\* A call that takes no object from the application.
LEMMA CallKeeps ==
    ASSUME ControlInv, MayCall, NEW op \in Op, Call(op),
           UNCHANGED <<objs, hostRts, hostCtx>>,
           ArenaInv', \A c \in Ctx : live[c] \subseteq live'[c],
           op.kind = "create" =>
             /\ op.obj.type \in Type
             /\ next[op.obj.type] < MaxMade[op.obj.type]
             /\ op.obj.type = "qp" => op.obj.wq \in Wq
             /\ hostCtx[op.obj.ctx] = "open"
             /\ op.obj.blocks \subseteq live'[op.obj.ctx]
             /\ op.obj.blocks \cap live[op.obj.ctx] = {},
           op.kind = "open" => hostCtx[op.obj.ctx] = "none",
           op.kind = "close" => /\ hostCtx[op.obj.ctx] = "open"
                                /\ \A o \in objs : o.ctx # op.obj.ctx,
           op.kind = "modify" => op.obj \in objs /\ op.obj.type = "qp",
           op.kind # "destroy"
    PROVE  ViewInv' /\ ObjectInv' /\ MemoryInv'
<1>1. /\ req = NoOp /\ rep = NoOp /\ dpuObjs = objs
      /\ req' = op /\ rep' = NoOp /\ op # NoOp
      /\ dpuObjs' = dpuObjs /\ dpuRts' = dpuRts /\ next' = next
      /\ \A kind : ~Answered(kind)' /\ (Asked(kind)' <=> op.kind = kind)
  BY CallFacts
<1>2. objs' = objs /\ hostRts' = hostRts /\ hostCtx' = hostCtx
  OBVIOUS
<1>3. ViewInv'
  BY <1>1, <1>2 DEF ControlInv, ViewInv, HostViewLive
<1>4. ObjectInv'
  BY <1>1, <1>2 DEF ControlInv, ObjectInv, Registered, IdOf
<1>5. \A o \in objs : o.ctx \in Ctx /\ o.blocks \subseteq live[o.ctx]
  <2>1. \A o \in objs : o \in Object
    BY DEF ControlInv, TypeOK
  <2> QED
    BY <1>1, <2>1, ObjectFields DEF ControlInv, MemoryInv, RingsOwned
<1>6. RingsOwned'
  <2>1. \A o \in objs : o.blocks \subseteq live'[o.ctx]
    BY <1>5
  <2>2. \A o, p \in objs : o # p /\ o.ctx = p.ctx => o.blocks \cap p.blocks = {}
    BY <1>1 DEF ControlInv, MemoryInv, RingsOwned
  <2>3. \A c \in Ctx : \A b, d \in live'[c] : b # d => Bytes(b) \cap Bytes(d) = {}
    BY DEF ArenaInv
  <2> QED
    BY <1>1, <1>2, <2>1, <2>2, <2>3 DEF RingsOwned
<1>7. Asked("create")' => Spare(req.obj.ctx, req.obj.blocks)'
  <2> SUFFICES ASSUME op.kind = "create"
               PROVE  /\ op.obj.blocks \subseteq live'[op.obj.ctx]
                      /\ \A o \in objs : o.ctx = op.obj.ctx =>
                           o.blocks \cap op.obj.blocks = {}
    BY <1>1 DEF Spare
  <2> QED
    BY <1>5
<1> QED
  BY <1>1, <1>3, <1>4, <1>6, <1>7 DEF MemoryInv

LEMMA ArenaKept ==
    ASSUME ControlInv, UNCHANGED arena
    PROVE  ArenaInv' /\ \A c \in Ctx : live[c] \subseteq live'[c]
<1>1. live' = live /\ free' = free
  BY DEF arena
<1> QED
  BY <1>1 DEF ControlInv, MemoryInv, ArenaInv

LEMMA OpenCallKeeps ==
    ASSUME ControlInv, NEW c \in Ctx, OpenDevice(c) \/ CloseDevice(c)
    PROVE  ChannelInv' /\ ViewInv' /\ ObjectInv' /\ MemoryInv'
<1>1. MayCall /\ UNCHANGED app /\ UNCHANGED arena
  BY DEF OpenDevice, CloseDevice
<1>2. ArenaInv' /\ \A d \in Ctx : live[d] \subseteq live'[d]
  BY <1>1, ArenaKept
<1>3. UNCHANGED <<objs, hostRts, hostCtx>>
  BY <1>1 DEF app
<1>4. Context(c) \in Object /\ Context(c).ctx = c
  BY ContextFacts
<1>5. CASE OpenDevice(c)
  <2> DEFINE op == [kind |-> "open", obj |-> Context(c)]
  <2>1. /\ op \in Op /\ op.kind = "open" /\ op.obj = Context(c)
        /\ Call(op) /\ hostCtx[c] = "none"
    BY <1>4, <1>5 DEF OpenDevice, Op
  <2> HIDE DEF op
  <2> QED
    BY <1>1, <1>2, <1>3, <1>4, <2>1, CallFacts, CallKeeps
<1>6. CASE CloseDevice(c)
  <2> DEFINE op == [kind |-> "close", obj |-> Context(c)]
  <2>1. /\ op \in Op /\ op.kind = "close" /\ op.obj = Context(c)
        /\ Call(op) /\ hostCtx[c] = "open" /\ \A o \in objs : o.ctx # c
    BY <1>4, <1>6 DEF CloseDevice, Op
  <2> HIDE DEF op
  <2> QED
    BY <1>1, <1>2, <1>3, <1>4, <2>1, CallFacts, CallKeeps
<1> QED
  BY <1>5, <1>6

LEMMA ModifyCallKeeps ==
    ASSUME ControlInv, NEW o \in objs, ModifyQp(o)
    PROVE  ChannelInv' /\ ViewInv' /\ ObjectInv' /\ MemoryInv'
<1>1. MayCall /\ UNCHANGED app /\ UNCHANGED arena /\ o.type = "qp"
  BY DEF ModifyQp
<1>2. ArenaInv' /\ \A d \in Ctx : live[d] \subseteq live'[d]
  BY <1>1, ArenaKept
<1>3. UNCHANGED <<objs, hostRts, hostCtx>>
  BY <1>1 DEF app
<1>4. o \in Object
  BY DEF ControlInv, TypeOK
<1> DEFINE op == [kind |-> "modify", obj |-> o]
<1>5. op \in Op /\ op.kind = "modify" /\ op.obj = o /\ Call(op)
  BY <1>4 DEF ModifyQp, Op
<1> HIDE DEF op
<1> QED
  BY <1>1, <1>2, <1>3, <1>5, CallFacts, CallKeeps

\* An object the application has is in an open context.
LEMMA OwnObjects ==
    ASSUME ControlInv
    PROVE  \A o \in objs : /\ o \in Object /\ Registered(o)
                           /\ o \in dpuObjs /\ o.ctx \in Ctx
                           /\ IdOf(o) \in Id
<1>1. \A o \in objs : o \in dpuObjs /\ o \in Object
  BY DEF ControlInv, ViewInv, HostViewLive, TypeOK
<1>2. \A o \in objs : Registered(o)
  BY <1>1 DEF ControlInv, ObjectInv
<1>3. \A o \in objs : IdOf(o) \in Id
  <2>1. \A o \in objs : o.number \in Nat /\ o.type \in Type
    BY <1>1, <1>2, ObjectFields DEF Registered, None
  <2> QED
    BY <2>1 DEF IdOf, Id
<1> QED
  BY <1>1, <1>2, <1>3, ObjectFields

\* A request to create an object without memory.
LEMMA CreateCallKeeps ==
    ASSUME ControlInv, MayCall, UNCHANGED <<objs, hostRts, hostCtx>>,
           NEW c \in Ctx, NEW type \in Type, NEW uses \in SUBSET Id,
           NEW wq \in Wq \cup {None}, NEW blocks \in SUBSET Block,
           Create(c, type, uses, wq, blocks),
           ArenaInv', \A d \in Ctx : live[d] \subseteq live'[d],
           blocks \subseteq live'[c], blocks \cap live[c] = {},
           hostCtx[c] = "open", next[type] < MaxMade[type],
           type = "qp" => wq \in Wq
    PROVE  ChannelInv' /\ ViewInv' /\ ObjectInv' /\ MemoryInv'
<1>1. PICK op \in Op :
        /\ Call(op)
        /\ op.kind = "create" /\ op.obj.type = type /\ op.obj.ctx = c
        /\ op.obj.uses = uses /\ op.obj.wq = wq /\ op.obj.blocks = blocks
  BY CreateFacts
<1>2. ChannelInv'
  BY <1>1, CallFacts
<1>3. ViewInv' /\ ObjectInv' /\ MemoryInv'
  BY <1>1, CallKeeps
<1> QED
  BY <1>2, <1>3

LEMMA AllocPdKeeps ==
    ASSUME ControlInv, NEW c \in Ctx, AllocPd(c)
    PROVE  ChannelInv' /\ ViewInv' /\ ObjectInv' /\ MemoryInv'
<1>1. /\ MayCall /\ UNCHANGED app /\ UNCHANGED arena /\ hostCtx[c] = "open"
      /\ next["pd"] < MaxMade["pd"]
      /\ Create(c, "pd", {}, None, {})
  BY DEF AllocPd
<1>2. ArenaInv' /\ \A d \in Ctx : live[d] \subseteq live'[d]
  BY <1>1, ArenaKept
<1>3. UNCHANGED <<objs, hostRts, hostCtx>>
  BY <1>1 DEF app
<1>4. /\ "pd" \in Type /\ {} \in SUBSET Id /\ None \in Wq \cup {None}
      /\ {} \in SUBSET Block /\ {} \subseteq live'[c] /\ {} \cap live[c] = {}
      /\ "pd" # "qp"
  BY DEF Type
<1> QED
  BY <1>1, <1>2, <1>3, <1>4, CreateCallKeeps

LEMMA RegMrKeeps ==
    ASSUME ControlInv, NEW c \in Ctx, RegMr(c)
    PROVE  ChannelInv' /\ ViewInv' /\ ObjectInv' /\ MemoryInv'
<1>1. /\ MayCall /\ UNCHANGED app /\ UNCHANGED arena
      /\ next["mr"] < MaxMade["mr"]
  BY DEF RegMr
<1>2. PICK pd \in Objects(c, "pd") : Create(c, "mr", {IdOf(pd)}, None, {})
  BY DEF RegMr
<1>3. pd \in objs /\ pd.ctx = c
  BY <1>2 DEF Objects
<1>4. {IdOf(pd)} \in SUBSET Id /\ hostCtx[c] = "open"
  BY <1>3, OwnObjects DEF Registered
<1>5. ArenaInv' /\ \A d \in Ctx : live[d] \subseteq live'[d]
  BY <1>1, ArenaKept
<1>6. UNCHANGED <<objs, hostRts, hostCtx>>
  BY <1>1 DEF app
<1>7. /\ "mr" \in Type /\ None \in Wq \cup {None}
      /\ {} \in SUBSET Block /\ {} \subseteq live'[c] /\ {} \cap live[c] = {}
      /\ "mr" # "qp"
  BY DEF Type
<1> QED
  BY <1>1, <1>2, <1>4, <1>5, <1>6, <1>7, CreateCallKeeps

\* The types of what the arenas consist of.
LEMMA ArenaTypes ==
    ASSUME TypeOK
    PROVE  /\ free \in [Ctx -> SUBSET (0 .. ArenaSize - 1)]
           /\ live \in [Ctx -> SUBSET Block]
           /\ \A c \in Ctx : /\ free[c] \subseteq Nat
                             /\ free[c] \subseteq 0 .. ArenaSize - 1
                             /\ live[c] \subseteq Block
<1>1. /\ free \in [Ctx -> SUBSET (0 .. ArenaSize - 1)]
      /\ live \in [Ctx -> SUBSET Block]
  BY DEF TypeOK
<1>2. ArenaSize \in Nat
  BY ControlPathAssumption
<1>3. \A i \in 0 .. ArenaSize - 1 : i \in Nat
  BY <1>2
<1> QED
  BY <1>1, <1>3

\* A block has a byte.
LEMMA FirstByte ==
    ASSUME NEW b \in Block, b.size > 0
    PROVE  b.addr \in Bytes(b)
BY DEF Block, Bytes

\* Blocks taken from the free bytes of an arena, apart from each other and from
\* the bytes left.
LEMMA ArenaGrows ==
    ASSUME ControlInv, NEW c \in Ctx, NEW rest \in SUBSET free[c],
           NEW new \in SUBSET Block,
           \A b \in new : /\ b.size > 0
                          /\ Bytes(b) \subseteq free[c]
                          /\ Bytes(b) \cap rest = {},
           \A b, d \in new : b # d => Bytes(b) \cap Bytes(d) = {},
           free' = [free EXCEPT ![c] = rest],
           live' = [live EXCEPT ![c] = @ \cup new]
    PROVE  /\ ArenaInv'
           /\ \A d \in Ctx : live[d] \subseteq live'[d]
           /\ new \subseteq live'[c]
           /\ new \cap live[c] = {}
<1>1. /\ free \in [Ctx -> SUBSET (0 .. ArenaSize - 1)]
      /\ live \in [Ctx -> SUBSET Block]
      /\ free[c] \subseteq 0 .. ArenaSize - 1
  BY ArenaTypes DEF ControlInv
<1>2. /\ free'[c] = rest /\ live'[c] = live[c] \cup new
      /\ \A d \in Ctx : d # c => free'[d] = free[d] /\ live'[d] = live[d]
  BY <1>1
<1>3. ArenaInv
  BY DEF ControlInv, MemoryInv
<1>4. new \cap live[c] = {}
  <2> SUFFICES ASSUME NEW b \in new, b \in live[c]
               PROVE  FALSE
    OBVIOUS
  <2>1. b.addr \in Bytes(b) /\ b.addr \in free[c]
    BY FirstByte
  <2>2. Bytes(b) \cap free[c] = {}
    BY <1>3 DEF ArenaInv
  <2> QED
    BY <2>1, <2>2
<1>5. ASSUME NEW d \in Ctx, d # c
      PROVE  /\ \A b \in live'[d] : /\ b.size > 0
                                    /\ Bytes(b) \subseteq 0 .. ArenaSize - 1
                                    /\ Bytes(b) \cap free'[d] = {}
             /\ \A b, g \in live'[d] : b # g => Bytes(b) \cap Bytes(g) = {}
  <2>1. free'[d] = free[d] /\ live'[d] = live[d]
    BY <1>2, <1>5
  <2> QED
    BY <1>3, <2>1 DEF ArenaInv
<1>6. ASSUME NEW b \in live'[c]
      PROVE  /\ b.size > 0
             /\ Bytes(b) \subseteq 0 .. ArenaSize - 1
             /\ Bytes(b) \cap free'[c] = {}
  <2>1. CASE b \in live[c]
    BY <1>2, <1>3, <2>1 DEF ArenaInv
  <2>2. CASE b \in new
    BY <1>1, <1>2, <2>2
  <2> QED
    BY <1>2, <2>1, <2>2
<1>7. ASSUME NEW b \in live'[c], NEW d \in live'[c], b # d
      PROVE  Bytes(b) \cap Bytes(d) = {}
  <2>1. CASE b \in live[c] /\ d \in live[c]
    BY <1>3, <1>7, <2>1 DEF ArenaInv
  <2>2. CASE b \in new /\ d \in new
    BY <1>7, <2>2
  <2>3. \A g \in live[c] : Bytes(g) \cap free[c] = {}
    BY <1>3 DEF ArenaInv
  <2>4. CASE b \in live[c] /\ d \in new
    BY <2>3, <2>4
  <2>5. CASE b \in new /\ d \in live[c]
    BY <2>3, <2>5
  <2> QED
    BY <1>2, <2>1, <2>2, <2>4, <2>5
<1>8. ArenaInv'
  BY <1>5, <1>6, <1>7 DEF ArenaInv
<1> QED
  BY <1>2, <1>4, <1>8

LEMMA CreateQpKeeps ==
    ASSUME ControlInv, NEW c \in Ctx, NEW w \in Wq, CreateQp(c, w)
    PROVE  ChannelInv' /\ ViewInv' /\ ObjectInv' /\ MemoryInv'
<1>1. /\ MayCall /\ UNCHANGED app /\ next["qp"] < MaxMade["qp"]
  BY DEF CreateQp
<1>2. PICK pd \in Objects(c, "pd"), sendCq \in Objects(c, "cq"),
           recvCq \in Objects(c, "cq") :
        LET uses == {IdOf(pd), IdOf(sendCq), IdOf(recvCq)}
            ringBlock == Allocated(free[c], RingSize, Page)
        IN  IF Fitting(free[c], RingSize, Page) # {}
              THEN /\ free' = [free EXCEPT ![c] = FreeAfterAlloc(@, RingSize, Page)]
                   /\ live' = [live EXCEPT ![c] = @ \cup {ringBlock}]
                   /\ Create(c, "qp", uses, w, {ringBlock})
              ELSE /\ Create(c, "qp", uses, w, {})
                   /\ UNCHANGED arena
  BY DEF CreateQp
<1> DEFINE uses == {IdOf(pd), IdOf(sendCq), IdOf(recvCq)}
           b == Allocated(free[c], RingSize, Page)
           rest == FreeAfterAlloc(free[c], RingSize, Page)
<1>3. /\ pd \in objs /\ sendCq \in objs /\ recvCq \in objs /\ pd.ctx = c
  BY <1>2 DEF Objects
<1>4. uses \in SUBSET Id /\ hostCtx[c] = "open"
  BY <1>3, OwnObjects DEF Registered
<1>5. UNCHANGED <<objs, hostRts, hostCtx>>
  BY <1>1 DEF app
<1>6. "qp" \in Type /\ w \in Wq \cup {None}
  BY DEF Type
<1>7. CASE Fitting(free[c], RingSize, Page) # {}
  <2>1. free[c] \subseteq Nat /\ RingSize \in Nat /\ RingSize > 0 /\ Page \in Nat /\ Page > 0
    BY ArenaTypes, ControlPathAssumption DEF ControlInv
  <2>2. /\ b \in Block /\ Bytes(b) \subseteq free[c] /\ rest \subseteq free[c]
        /\ Bytes(b) \cap rest = {}
    BY <1>7, <2>1, AllocSound
  <2>3. b.size > 0
    BY <2>1 DEF Allocated
  <2>4. /\ free' = [free EXCEPT ![c] = rest]
        /\ live' = [live EXCEPT ![c] = @ \cup {b}]
        /\ Create(c, "qp", uses, w, {b})
    BY <1>2, <1>7
  <2> HIDE DEF uses, b, rest
  <2>5. {b} \in SUBSET Block /\ rest \in SUBSET free[c]
    BY <2>2
  <2>6. /\ \A d \in {b} : /\ d.size > 0
                          /\ Bytes(d) \subseteq free[c]
                          /\ Bytes(d) \cap rest = {}
        /\ \A d, g \in {b} : d # g => Bytes(d) \cap Bytes(g) = {}
    BY <2>2, <2>3
  <2>7. /\ ArenaInv'
        /\ \A d \in Ctx : live[d] \subseteq live'[d]
        /\ {b} \subseteq live'[c]
        /\ {b} \cap live[c] = {}
    BY <2>4, <2>5, <2>6, ArenaGrows
  <2> QED
    BY <1>1, <1>4, <1>5, <1>6, <2>4, <2>5, <2>7, CreateCallKeeps
<1>8. CASE Fitting(free[c], RingSize, Page) = {}
  <2>1. Create(c, "qp", uses, w, {}) /\ UNCHANGED arena
    BY <1>2, <1>8
  <2>2. ArenaInv' /\ \A d \in Ctx : live[d] \subseteq live'[d]
    BY <2>1, ArenaKept
  <2>3. {} \in SUBSET Block /\ {} \subseteq live'[c] /\ {} \cap live[c] = {}
    OBVIOUS
  <2> HIDE DEF uses
  <2> QED
    BY <1>1, <1>4, <1>5, <1>6, <2>1, <2>2, <2>3, CreateCallKeeps
<1> QED
  BY <1>7, <1>8

LEMMA CreateCqKeeps ==
    ASSUME ControlInv, NEW c \in Ctx, CreateCq(c)
    PROVE  ChannelInv' /\ ViewInv' /\ ObjectInv' /\ MemoryInv'
<1> DEFINE b == Allocated(free[c], RingSize, Page)
           rest == FreeAfterAlloc(free[c], RingSize, Page)
           d == Allocated(rest, 1, 1)
           left == FreeAfterAlloc(rest, 1, 1)
<1>1. MayCall /\ hostCtx[c] = "open" /\ next["cq"] < MaxMade["cq"]
  BY DEF CreateCq
<1>2. CASE ~(Fitting(free[c], RingSize, Page) # {} /\ Fitting(rest, 1, 1) # {})
  <2>1. UNCHANGED <<hostCtx, objs, hostRts, arena, ioctl, req, rep, tables>>
    BY <1>2 DEF CreateCq
  <2>2. UNCHANGED Settled
    BY <2>1 DEF arena, ioctl, tables, Settled
  <2> QED
    BY <2>2, SettledKeeps
<1>3. CASE Fitting(free[c], RingSize, Page) # {} /\ Fitting(rest, 1, 1) # {}
  <2>1. /\ free' = [free EXCEPT ![c] = left]
        /\ live' = [live EXCEPT ![c] = @ \cup {b, d}]
        /\ Create(c, "cq", {}, None, {b, d})
        /\ UNCHANGED app
    BY <1>3 DEF CreateCq
  <2>2. free[c] \subseteq Nat /\ RingSize \in Nat /\ RingSize > 0 /\ Page \in Nat /\ Page > 0
    BY ArenaTypes, ControlPathAssumption DEF ControlInv
  <2>3. /\ b \in Block /\ Bytes(b) \subseteq free[c] /\ rest \subseteq free[c]
        /\ Bytes(b) \cap rest = {}
    BY <1>3, <2>2, AllocSound
  <2>4. b.size > 0
    BY <2>2 DEF Allocated
  <2>5. rest \subseteq Nat /\ Fitting(rest, 1, 1) # {} /\ 1 \in Nat /\ 1 > 0
    BY <1>3, <2>2, <2>3
  <2> HIDE DEF b, rest
  <2>6. /\ d \in Block /\ Bytes(d) \subseteq rest /\ left \subseteq rest
        /\ Bytes(d) \cap left = {}
    BY <2>5, AllocSound
  <2>7. d.size > 0
    BY DEF Allocated
  <2> HIDE DEF d, left
  <2>8. {b, d} \in SUBSET Block /\ left \in SUBSET free[c]
    BY <2>3, <2>6
  <2>9. ASSUME NEW g \in {b, d}
        PROVE  g.size > 0 /\ Bytes(g) \subseteq free[c] /\ Bytes(g) \cap left = {}
    <3>1. CASE g = b
      BY <2>3, <2>4, <2>6, <3>1
    <3>2. CASE g = d
      BY <2>3, <2>6, <2>7, <3>2
    <3> QED
      BY <3>1, <3>2
  <2>10. Bytes(b) \cap Bytes(d) = {}
    BY <2>3, <2>6
  <2>11. \A g, h \in {b, d} : g # h => Bytes(g) \cap Bytes(h) = {}
    BY <2>10
  <2>12. /\ ArenaInv'
         /\ \A e \in Ctx : live[e] \subseteq live'[e]
         /\ {b, d} \subseteq live'[c]
         /\ {b, d} \cap live[c] = {}
    BY <2>1, <2>8, <2>9, <2>11, ArenaGrows
  <2>13. UNCHANGED <<objs, hostRts, hostCtx>>
    BY <2>1 DEF app
  <2>14. "cq" \in Type /\ {} \in SUBSET Id /\ None \in Wq \cup {None} /\ "cq" # "qp"
    BY DEF Type
  <2> QED
    BY <1>1, <2>1, <2>8, <2>12, <2>13, <2>14, CreateCallKeeps
<1> QED
  BY <1>2, <1>3

\* From a destroy call on the application is without the object, and the DPU
\* has it.
LEMMA DestroyKeeps ==
    ASSUME ControlInv, NEW o \in objs, Destroy(o)
    PROVE  ChannelInv' /\ ViewInv' /\ ObjectInv' /\ MemoryInv'
<1>1. o \in Object /\ o \in dpuObjs
  BY OwnObjects
<1> DEFINE op == [kind |-> "destroy", obj |-> o]
<1>2. /\ op \in Op /\ op.kind = "destroy" /\ op.obj = o /\ Call(op) /\ MayCall
  BY <1>1 DEF Destroy, Op
<1> HIDE DEF op
<1>3. /\ objs' = objs \ {o}
      /\ hostRts' = IF o.type = "qp" THEN hostRts \ {o.number} ELSE hostRts
      /\ hostCtx' = hostCtx /\ live' = live /\ free' = free
  BY DEF Destroy, arena
<1>4. /\ req = NoOp /\ rep = NoOp /\ dpuObjs = objs
      /\ req' = op /\ rep' = NoOp /\ op # NoOp
      /\ dpuObjs' = dpuObjs /\ dpuRts' = dpuRts /\ next' = next
      /\ \A kind : ~Answered(kind)' /\ (Asked(kind)' <=> op.kind = kind)
  BY <1>2, CallFacts
<1>5. ChannelInv'
  BY <1>2, CallFacts
<1>6. ViewInv'
  <2>1. HostViewLive'
    <3>1. objs \subseteq dpuObjs /\ hostRts \subseteq dpuRts
      BY DEF ControlInv, ViewInv, HostViewLive
    <3>2. hostRts' \subseteq hostRts
      BY <1>3
    <3> QED
      BY <1>3, <1>4, <3>1, <3>2 DEF HostViewLive
  <2>2. /\ Asked("destroy")'
        /\ \A kind : Asked(kind)' => kind = "destroy"
    BY <1>2, <1>4
  <2>3. req'.obj \in dpuObjs' \ objs'
    BY <1>1, <1>2, <1>3, <1>4
  <2>4. req'.obj.type = "qp" => req'.obj.number \notin hostRts'
    BY <1>2, <1>3, <1>4
  <2>5. \A p \in dpuObjs' \ objs' : p = req'.obj
    BY <1>2, <1>3, <1>4
  <2> QED
    BY <1>4, <2>1, <2>2, <2>3, <2>4, <2>5 DEF ViewInv
<1>7. ObjectInv'
  BY <1>2, <1>3, <1>4 DEF ControlInv, ObjectInv, Registered, IdOf
<1>8. MemoryInv'
  BY <1>2, <1>3, <1>4 DEF ControlInv, MemoryInv, ArenaInv, RingsOwned
<1> QED
  BY <1>5, <1>6, <1>7, <1>8

-----------------------------------------------------------------------------
(* Returns *)

LEMMA ReplyFacts ==
    ASSUME ControlInv, NEW kind, Replied(kind)
    PROVE  /\ rep \in Op /\ rep.kind = kind /\ rep.obj \in Object
           /\ rep.obj.ctx \in Ctx /\ Answered(kind)
           /\ \A k : ~Asked(k) /\ (Answered(k) <=> k = kind)
           /\ \A k : ~Asked(k)' /\ ~Answered(k)'
           /\ req' = NoOp /\ rep' = NoOp
           /\ dpuObjs' = dpuObjs /\ dpuRts' = dpuRts /\ next' = next
           /\ kind # "create" => dpuObjs = objs
           /\ ChannelInv'
<1>1. rep # NoOp /\ rep.kind = kind
  BY DEF Replied
<1>2. req = NoOp
  BY <1>1 DEF ControlInv, ChannelInv
<1>3. rep \in Op /\ rep.obj \in Object /\ rep.obj.ctx \in Ctx
  BY <1>1, Operations, OpFields, ObjectFields DEF ControlInv
<1>4. /\ req' = NoOp /\ rep' = NoOp /\ waiting' = FALSE
      /\ dpuObjs' = dpuObjs /\ dpuRts' = dpuRts /\ next' = next
  BY <1>2 DEF Replied, tables
<1>5. \A k : ~Asked(k) /\ (Answered(k) <=> k = kind)
  BY <1>1, <1>2 DEF Asked, Answered
<1>6. \A k : ~Asked(k)' /\ ~Answered(k)'
  BY <1>4 DEF Asked, Answered
<1>7. kind # "create" => dpuObjs = objs
  BY <1>5 DEF ControlInv, ViewInv, HostViewLive
<1>8. ChannelInv'
  BY <1>4 DEF ChannelInv
<1> QED
  BY <1>1, <1>3, <1>4, <1>5, <1>6, <1>7, <1>8

\* With nothing under way the invariant is about what both sides have.
LEMMA AfterReturn ==
    ASSUME \A k : ~Asked(k)' /\ ~Answered(k)', HostViewLive', dpuObjs' \subseteq objs',
           \A o \in dpuObjs' : Registered(o)',
           \A o, p \in dpuObjs' : IdOf(o) = IdOf(p) => o = p,
           ArenaInv', RingsOwned'
    PROVE  ViewInv' /\ ObjectInv' /\ MemoryInv'
<1>1. ViewInv'
  BY DEF ViewInv
<1>2. ObjectInv'
  BY DEF ObjectInv, IdOf
<1>3. MemoryInv'
  BY DEF MemoryInv
<1> QED
  BY <1>1, <1>2, <1>3

LEMMA CreateReturnsKeeps ==
    ASSUME ControlInv, CreateReturns
    PROVE  ChannelInv' /\ ViewInv' /\ ObjectInv' /\ MemoryInv'
<1>1. /\ ChannelInv' /\ Answered("create")
      /\ \A k : ~Asked(k) /\ (Answered(k) <=> k = "create")
      /\ \A k : ~Asked(k)' /\ ~Answered(k)'
      /\ dpuObjs' = dpuObjs /\ dpuRts' = dpuRts /\ next' = next
  BY ReplyFacts DEF CreateReturns
<1>2. /\ objs' = objs \cup {rep.obj} /\ hostRts' = hostRts /\ hostCtx' = hostCtx
      /\ live' = live /\ free' = free
  BY DEF CreateReturns, arena
<1>3. objs' \subseteq dpuObjs /\ hostRts \subseteq dpuRts /\ dpuObjs \subseteq objs'
  BY <1>1, <1>2 DEF ControlInv, ViewInv, HostViewLive
<1>4. \A o \in dpuObjs' : Registered(o)'
  BY <1>1, <1>2 DEF ControlInv, ObjectInv, Registered
<1>5. \A o, p \in dpuObjs' : IdOf(o) = IdOf(p) => o = p
  BY <1>1 DEF ControlInv, ObjectInv
<1>6. ArenaInv' /\ RingsOwned'
  BY <1>1, <1>2 DEF ControlInv, MemoryInv, ArenaInv, RingsOwned
<1>7. HostViewLive'
  BY <1>1, <1>2, <1>3 DEF HostViewLive
<1>8. dpuObjs' \subseteq objs'
  BY <1>1, <1>3
<1> QED
  BY <1>1, <1>4, <1>5, <1>6, <1>7, <1>8, AfterReturn

LEMMA ModifyReturnsKeeps ==
    ASSUME ControlInv, ModifyReturns
    PROVE  ChannelInv' /\ ViewInv' /\ ObjectInv' /\ MemoryInv'
<1>1. /\ ChannelInv' /\ Answered("modify")
      /\ \A k : ~Asked(k)' /\ ~Answered(k)'
      /\ dpuObjs' = dpuObjs /\ dpuRts' = dpuRts /\ next' = next
      /\ dpuObjs = objs
  BY ReplyFacts DEF ModifyReturns
<1>2. /\ objs' = objs /\ hostRts' = hostRts \cup {rep.obj.number} /\ hostCtx' = hostCtx
      /\ live' = live /\ free' = free
  BY DEF ModifyReturns, arena
<1>3. hostRts' \subseteq dpuRts
  BY <1>1, <1>2 DEF ControlInv, ViewInv, HostViewLive
<1>4. \A o \in dpuObjs' : Registered(o)'
  BY <1>1, <1>2 DEF ControlInv, ObjectInv, Registered
<1>5. \A o, p \in dpuObjs' : IdOf(o) = IdOf(p) => o = p
  BY <1>1 DEF ControlInv, ObjectInv
<1>6. ArenaInv' /\ RingsOwned'
  BY <1>1, <1>2 DEF ControlInv, MemoryInv, ArenaInv, RingsOwned
<1>7. HostViewLive' /\ dpuObjs' \subseteq objs'
  BY <1>1, <1>2, <1>3 DEF HostViewLive
<1> QED
  BY <1>1, <1>4, <1>5, <1>6, <1>7, AfterReturn

\* The memory of an object destroyed is nobody else's.
LEMMA DestroyReturnsKeeps ==
    ASSUME ControlInv, DestroyReturns
    PROVE  ChannelInv' /\ ViewInv' /\ ObjectInv' /\ MemoryInv'
<1> DEFINE c == rep.obj.ctx
           blocks == rep.obj.blocks
<1>1. /\ ChannelInv' /\ Answered("destroy") /\ c \in Ctx
      /\ \A k : ~Asked(k)' /\ ~Answered(k)'
      /\ dpuObjs' = dpuObjs /\ dpuRts' = dpuRts /\ next' = next
      /\ dpuObjs = objs
  BY ReplyFacts DEF DestroyReturns
<1>2. /\ objs' = objs /\ hostRts' = hostRts /\ hostCtx' = hostCtx
      /\ free' = [free EXCEPT ![c] = FreeAfterFree(@, blocks)]
      /\ live' = [live EXCEPT ![c] = @ \ blocks]
  BY DEF DestroyReturns, GiveBack
<1>3. Spare(c, blocks)
  BY <1>1 DEF ControlInv, MemoryInv
<1> HIDE DEF c, blocks
<1>4. ArenaInv /\ RingsOwned /\ TypeOK
  BY DEF ControlInv, MemoryInv
<1>5. /\ free \in [Ctx -> SUBSET (0 .. ArenaSize - 1)]
      /\ live \in [Ctx -> SUBSET Block]
  BY <1>4, ArenaTypes
<1>6. /\ free'[c] = FreeAfterFree(free[c], blocks) /\ live'[c] = live[c] \ blocks
      /\ \A d \in Ctx : d # c => free'[d] = free[d] /\ live'[d] = live[d]
  BY <1>1, <1>2, <1>5
<1>7. /\ blocks \subseteq live[c]
      /\ \A o \in dpuObjs : o.ctx = c => o.blocks \cap blocks = {}
  BY <1>3 DEF Spare
<1>8. /\ \A b \in live[c] : /\ b.size > 0
                            /\ Bytes(b) \subseteq 0 .. ArenaSize - 1
                            /\ Bytes(b) \cap free[c] = {}
      /\ \A b, d \in live[c] : b # d => Bytes(b) \cap Bytes(d) = {}
  BY <1>1, <1>4 DEF ArenaInv
<1>9. \A b \in live[c] \ blocks : Bytes(b) \cap FreeAfterFree(free[c], blocks) = {}
  BY <1>7, <1>8, FreeKeepsApart
<1>10. ArenaInv'
  <2>1. ASSUME NEW d \in Ctx
        PROVE  /\ \A b \in live'[d] : /\ b.size > 0
                                      /\ Bytes(b) \subseteq 0 .. ArenaSize - 1
                                      /\ Bytes(b) \cap free'[d] = {}
               /\ \A b, g \in live'[d] : b # g => Bytes(b) \cap Bytes(g) = {}
    <3>1. CASE d = c
      BY <1>6, <1>8, <1>9, <3>1
    <3>2. CASE d # c
      <4>1. free'[d] = free[d] /\ live'[d] = live[d]
        BY <1>6, <3>2
      <4> QED
        BY <1>4, <4>1 DEF ArenaInv
    <3> QED
      BY <3>1, <3>2
  <2> QED
    BY <2>1 DEF ArenaInv
<1>11. RingsOwned'
  <2>1. ASSUME NEW o \in dpuObjs
        PROVE  o.blocks \subseteq live'[o.ctx]
    <3>1. o.blocks \subseteq live[o.ctx] /\ o.ctx \in Ctx
      <4>1. o \in Object
        BY <1>4 DEF TypeOK
      <4> QED
        BY <1>4, <4>1, ObjectFields DEF RingsOwned
    <3> QED
      BY <1>6, <1>7, <3>1
  <2>2. \A o, p \in dpuObjs : o # p /\ o.ctx = p.ctx => o.blocks \cap p.blocks = {}
    BY <1>4 DEF RingsOwned
  <2>3. \A d \in Ctx : \A b, g \in live'[d] : b # g => Bytes(b) \cap Bytes(g) = {}
    BY <1>10 DEF ArenaInv
  <2> QED
    BY <1>1, <2>1, <2>2, <2>3 DEF RingsOwned
<1>12. \A o \in dpuObjs' : Registered(o)'
  BY <1>1, <1>2 DEF ControlInv, ObjectInv, Registered
<1>13. \A o, p \in dpuObjs' : IdOf(o) = IdOf(p) => o = p
  BY <1>1 DEF ControlInv, ObjectInv
<1>14. HostViewLive' /\ dpuObjs' \subseteq objs'
  BY <1>1, <1>2 DEF HostViewLive, ControlInv, ViewInv
<1> QED
  BY <1>1, <1>10, <1>11, <1>12, <1>13, <1>14, AfterReturn

\* Blocks of an arena with these free bytes.
Arena(f, blocks) ==
    /\ f \in SUBSET (0 .. ArenaSize - 1)
    /\ blocks \in SUBSET Block
    /\ \A b \in blocks : /\ b.size > 0
                         /\ Bytes(b) \subseteq 0 .. ArenaSize - 1
                         /\ Bytes(b) \cap f = {}
    /\ \A b, d \in blocks : b # d => Bytes(b) \cap Bytes(d) = {}

\* The arena of a context that is opened or closed is set up anew; no object
\* has memory in it.
LEMMA ContextAnew ==
    ASSUME ControlInv, NEW kind \in {"open", "close"}, Replied(kind),
           NEW state, NEW f, NEW blocks, Arena(f, blocks),
           hostCtx' = [hostCtx EXCEPT ![rep.obj.ctx] = state],
           free' = [free EXCEPT ![rep.obj.ctx] = f],
           live' = [live EXCEPT ![rep.obj.ctx] = blocks],
           UNCHANGED <<objs, hostRts>>
    PROVE  ChannelInv' /\ ViewInv' /\ ObjectInv' /\ MemoryInv'
<1> DEFINE c == rep.obj.ctx
<1>1. /\ ChannelInv' /\ Answered(kind) /\ c \in Ctx
      /\ \A k : ~Asked(k)' /\ ~Answered(k)'
      /\ dpuObjs' = dpuObjs /\ dpuRts' = dpuRts /\ next' = next
      /\ dpuObjs = objs
  BY ReplyFacts
<1>2. \A o \in dpuObjs : o.ctx # c /\ Registered(o)
  BY <1>1 DEF ControlInv, ObjectInv, Registered
<1> HIDE DEF c
<1>3. ArenaInv /\ RingsOwned /\ TypeOK
  BY DEF ControlInv, MemoryInv
<1>4. /\ free \in [Ctx -> SUBSET (0 .. ArenaSize - 1)]
      /\ live \in [Ctx -> SUBSET Block]
      /\ hostCtx \in [Ctx -> {"none", "open", "closed"}]
  BY <1>3, ArenaTypes DEF TypeOK
<1>5. /\ free'[c] = f /\ live'[c] = blocks
      /\ \A d \in Ctx : d # c => /\ free'[d] = free[d] /\ live'[d] = live[d]
                                 /\ hostCtx'[d] = hostCtx[d]
  BY <1>1, <1>4 DEF c
<1>6. ArenaInv'
  <2>1. ASSUME NEW d \in Ctx
        PROVE  /\ \A b \in live'[d] : /\ b.size > 0
                                      /\ Bytes(b) \subseteq 0 .. ArenaSize - 1
                                      /\ Bytes(b) \cap free'[d] = {}
               /\ \A b, g \in live'[d] : b # g => Bytes(b) \cap Bytes(g) = {}
    <3>1. CASE d = c
      BY <1>5, <3>1 DEF Arena
    <3>2. CASE d # c
      <4>1. free'[d] = free[d] /\ live'[d] = live[d]
        BY <1>5, <3>2
      <4> QED
        BY <1>3, <4>1 DEF ArenaInv
    <3> QED
      BY <3>1, <3>2
  <2> QED
    BY <2>1 DEF ArenaInv
<1>7. \A o \in dpuObjs : o.ctx \in Ctx
  <2>1. \A o \in dpuObjs : o \in Object
    BY <1>3 DEF TypeOK
  <2> QED
    BY <2>1, ObjectFields
<1>8. RingsOwned'
  <2>1. \A o \in dpuObjs : o.blocks \subseteq live'[o.ctx]
    <3>1. \A o \in dpuObjs : o.blocks \subseteq live[o.ctx]
      BY <1>3 DEF RingsOwned
    <3> QED
      BY <1>2, <1>5, <1>7, <3>1
  <2>2. \A o, p \in dpuObjs : o # p /\ o.ctx = p.ctx => o.blocks \cap p.blocks = {}
    BY <1>3 DEF RingsOwned
  <2>3. \A d \in Ctx : \A b, g \in live'[d] : b # g => Bytes(b) \cap Bytes(g) = {}
    BY <1>6 DEF ArenaInv
  <2> QED
    BY <1>1, <2>1, <2>2, <2>3 DEF RingsOwned
<1>9. \A o \in dpuObjs' : Registered(o)'
  <2>1. \A o \in dpuObjs : hostCtx'[o.ctx] = hostCtx[o.ctx]
    BY <1>2, <1>5, <1>7
  <2> QED
    BY <1>1, <1>2, <2>1 DEF Registered
<1>10. \A o, p \in dpuObjs' : IdOf(o) = IdOf(p) => o = p
  BY <1>1 DEF ControlInv, ObjectInv
<1>11. HostViewLive' /\ dpuObjs' \subseteq objs'
  BY <1>1 DEF HostViewLive, ControlInv, ViewInv
<1> QED
  BY <1>1, <1>6, <1>8, <1>9, <1>10, <1>11, AfterReturn

\* The send rings take a byte each (in the model), below what is free.
LEMMA SendRingFacts == Arena(NumWqs .. ArenaSize - 1, SendRings)
<1>1. NumWqs \in Nat /\ ArenaSize \in Nat /\ NumWqs <= ArenaSize
  BY ControlPathAssumption
<1>2. ASSUME NEW b \in SendRings
      PROVE  \E w \in Wq : b.addr = w /\ b.size = 1 /\ Bytes(b) = {w} /\ b \in Block
                           /\ b = [addr |-> w, size |-> 1]
  <2>1. PICK w \in Wq : b = [addr |-> w, size |-> 1]
    BY DEF SendRings
  <2>2. w \in 0 .. NumWqs - 1
    BY DEF Wq
  <2>3. b.addr = w /\ b.size = 1
    BY <2>1
  <2>4. Bytes(b) = {w}
    BY <1>1, <2>2, <2>3 DEF Bytes
  <2>5. w \in Nat
    BY <1>1, <2>2
  <2>6. b \in Block
    BY <2>1, <2>5 DEF Block
  <2> QED
    BY <2>1, <2>3, <2>4, <2>6
<1>3. \A w \in Wq : w \in 0 .. ArenaSize - 1 /\ w \notin NumWqs .. ArenaSize - 1
  BY <1>1 DEF Wq
<1>4. \A b \in SendRings : b \in Block /\ b.size > 0
  BY <1>2
<1>5. \A b \in SendRings : /\ Bytes(b) \subseteq 0 .. ArenaSize - 1
                           /\ Bytes(b) \cap (NumWqs .. ArenaSize - 1) = {}
  BY <1>2, <1>3
<1>6. \A b, d \in SendRings : b # d => Bytes(b) \cap Bytes(d) = {}
  BY <1>2
<1>7. NumWqs .. ArenaSize - 1 \in SUBSET (0 .. ArenaSize - 1)
  BY <1>1
<1> QED
  BY <1>4, <1>5, <1>6, <1>7 DEF Arena

LEMMA ContextReturnsKeeps ==
    ASSUME ControlInv, OpenReturns \/ CloseReturns
    PROVE  ChannelInv' /\ ViewInv' /\ ObjectInv' /\ MemoryInv'
<1>1. CASE OpenReturns
  <2>1. /\ Replied("open")
        /\ hostCtx' = [hostCtx EXCEPT ![rep.obj.ctx] = "open"]
        /\ free' = [free EXCEPT ![rep.obj.ctx] = NumWqs .. ArenaSize - 1]
        /\ live' = [live EXCEPT ![rep.obj.ctx] = SendRings]
        /\ UNCHANGED <<objs, hostRts>>
    BY <1>1 DEF OpenReturns
  <2>2. "open" \in {"open", "close"}
    OBVIOUS
  <2> QED
    BY <2>1, <2>2, SendRingFacts, ContextAnew
<1>2. CASE CloseReturns
  <2>1. /\ Replied("close")
        /\ hostCtx' = [hostCtx EXCEPT ![rep.obj.ctx] = "closed"]
        /\ free' = [free EXCEPT ![rep.obj.ctx] = {}]
        /\ live' = [live EXCEPT ![rep.obj.ctx] = {}]
        /\ UNCHANGED <<objs, hostRts>>
    BY <1>2 DEF CloseReturns
  <2>2. Arena({}, {}) /\ "close" \in {"open", "close"}
    BY DEF Arena
  <2> QED
    BY <2>1, <2>2, ContextAnew
<1> QED
  BY <1>1, <1>2

\* An ioctl that fails gives nothing back: the DPU may go on with the request.
LEMMA FailureFacts ==
    ASSUME ControlInv, IoctlFails
    PROVE  /\ free' = free /\ live' = live /\ waiting' = FALSE /\ channel' = "down"
           /\ UNCHANGED <<app, req, rep, dpu, tables, sendWqs, lookup, threads, ring, net>>
<1> DEFINE op == IF req # NoOp THEN req ELSE rep
<1>1. /\ free' = [free EXCEPT ![op.obj.ctx] = FreeAfterFree(@, {})]
      /\ live' = [live EXCEPT ![op.obj.ctx] = @ \ {}]
  BY DEF IoctlFails, GiveBack, FreedOnError
<1>2. op \in Op
  BY Operations DEF IoctlFails, ControlInv, ChannelInv
<1>3. op.obj.ctx \in Ctx
  BY <1>2, OpFields, ObjectFields
<1> HIDE DEF op
<1>4. /\ free \in [Ctx -> SUBSET (0 .. ArenaSize - 1)]
      /\ live \in [Ctx -> SUBSET Block]
  BY ArenaTypes DEF ControlInv
<1>5. \A s : FreeAfterFree(s, {}) = s
  BY DEF FreeAfterFree
<1>6. free' = free
  BY <1>1, <1>3, <1>4, <1>5
<1>7. live' = live
  BY <1>1, <1>3, <1>4
<1> QED
  BY <1>6, <1>7 DEF IoctlFails

LEMMA IoctlFailsKeeps ==
    ASSUME ControlInv, IoctlFails
    PROVE  ChannelInv' /\ ViewInv' /\ ObjectInv' /\ MemoryInv'
<1>1. /\ free' = free /\ live' = live /\ waiting' = FALSE /\ channel' = "down"
      /\ objs' = objs /\ hostRts' = hostRts /\ hostCtx' = hostCtx
      /\ req' = req /\ rep' = rep
      /\ dpuObjs' = dpuObjs /\ dpuRts' = dpuRts /\ next' = next
  BY FailureFacts DEF app, tables
<1>2. ChannelInv'
  BY <1>1 DEF ControlInv, ChannelInv
<1>3. ViewInv'
  BY <1>1 DEF ControlInv, ViewInv, HostViewLive, Asked, Answered
<1>4. ObjectInv'
  BY <1>1 DEF ControlInv, ObjectInv, Registered, Asked, Answered, IdOf
<1>5. MemoryInv'
  BY <1>1 DEF ControlInv, MemoryInv, ArenaInv, RingsOwned, Spare, Asked, Answered
<1> QED
  BY <1>2, <1>3, <1>4, <1>5

-----------------------------------------------------------------------------
(* The handlers of the DPU *)

\* What holds when a handler runs: the request is its own, and the host waits
\* or has given up.
LEMMA HandlerFacts ==
    ASSUME ControlInv, NEW kind, NEW type, Requested(kind, type)
    PROVE  /\ req # NoOp /\ req \in Op /\ rep = NoOp
           /\ req.kind = kind /\ req.obj.type = type
           /\ req.obj \in Object /\ req.obj.ctx \in Ctx /\ dpu = "running"
           /\ \A k : (Asked(k) <=> k = kind) /\ ~Answered(k)
           /\ host' = host /\ hostCtx' = hostCtx /\ objs' = objs /\ hostRts' = hostRts
           /\ outstanding' = outstanding
           /\ free' = free /\ live' = live /\ waiting' = waiting /\ channel' = channel
           /\ ring' = ring /\ UNCHANGED threads
<1>1. /\ req # NoOp /\ req.kind = kind /\ req.obj.type = type /\ dpu = "running"
      /\ host' = host /\ hostCtx' = hostCtx /\ objs' = objs /\ hostRts' = hostRts
      /\ outstanding' = outstanding
      /\ free' = free /\ live' = live /\ waiting' = waiting /\ channel' = channel
      /\ ring' = ring /\ UNCHANGED threads
  BY DEF Requested, app, arena, ioctl
<1>2. rep = NoOp
  BY <1>1 DEF ControlInv, ChannelInv
<1>3. req \in Op /\ req.obj \in Object /\ req.obj.ctx \in Ctx
  BY <1>1, Operations, OpFields, ObjectFields DEF ControlInv
<1>4. \A k : (Asked(k) <=> k = kind) /\ ~Answered(k)
  BY <1>1, <1>2 DEF Asked, Answered
<1> QED
  BY <1>1, <1>2, <1>3, <1>4

\* The channel after a reply.
LEMMA RepliedFacts ==
    ASSUME ControlInv, NEW kind, NEW type, Requested(kind, type),
           NEW op \in Op, Reply(op)
    PROVE  /\ req' = NoOp /\ rep' = op /\ op # NoOp
           /\ \A k : ~Asked(k)' /\ (Answered(k)' <=> k = op.kind)
           /\ ChannelInv'
<1>1. req' = NoOp /\ rep' = op /\ op # NoOp
  BY OpFields DEF Reply
<1>2. req # NoOp /\ waiting' = waiting /\ channel' = channel
  BY HandlerFacts
<1>3. waiting \/ channel # "up"
  BY <1>2 DEF ControlInv, ChannelInv
<1>4. ChannelInv'
  BY <1>1, <1>2, <1>3 DEF ChannelInv
<1>5. \A k : ~Asked(k)' /\ (Answered(k)' <=> k = op.kind)
  BY <1>1 DEF Asked, Answered
<1> QED
  BY <1>1, <1>4, <1>5

\* A create handler that finds what it needs: the object is entered under a
\* number no other has, with the memory of the request.
LEMMA EnteredKeeps ==
    ASSUME ControlInv, NEW type \in Type, HandleCreate(type), dpu' = "running"
    PROVE  ChannelInv' /\ ViewInv' /\ ObjectInv' /\ MemoryInv'
<1>1. /\ req # NoOp /\ req \in Op /\ rep = NoOp
      /\ req.kind = "create" /\ req.obj.type = type
      /\ req.obj \in Object /\ req.obj.ctx \in Ctx
      /\ \A k : (Asked(k) <=> k = "create") /\ ~Answered(k)
      /\ hostCtx' = hostCtx /\ objs' = objs /\ hostRts' = hostRts
      /\ free' = free /\ live' = live
  BY HandlerFacts DEF HandleCreate
<1>2. PICK m \in Object, op \in Op :
        /\ m = Made /\ op = [req EXCEPT !.obj = Made]
        /\ m.type = type /\ m.ctx = req.obj.ctx /\ m.number = next[type]
        /\ m.wq = req.obj.wq /\ m.blocks = req.obj.blocks
        /\ op.kind = "create" /\ op.obj = m
  BY <1>1, MadeFacts DEF ControlInv
<1>3. /\ dpuObjs' = dpuObjs \cup {m}
      /\ next' = [next EXCEPT ![type] = @ + 1]
      /\ dpuRts' = dpuRts
      /\ Reply(op)
  BY <1>2 DEF HandleCreate, Entered
<1>4. /\ req' = NoOp /\ rep' = op
      /\ \A k : ~Asked(k)' /\ (Answered(k)' <=> k = "create")
      /\ ChannelInv'
  BY <1>2, <1>3, RepliedFacts DEF HandleCreate
<1>5. /\ next[type] \in Nat /\ next'[type] = next[type] + 1
      /\ \A t \in Type : next[t] \in Nat /\ (t # type => next'[t] = next[t])
  BY <1>3 DEF ControlInv, TypeOK
<1>6. /\ next[type] < MaxMade[type] /\ hostCtx[m.ctx] = "open"
      /\ type = "qp" => m.wq \in Wq
  BY <1>1, <1>2 DEF ControlInv, ObjectInv
<1>7. \A o \in dpuObjs : Registered(o) /\ IdOf(o) # IdOf(m)
  <2>1. \A o \in dpuObjs : Registered(o)
    BY DEF ControlInv, ObjectInv
  <2>2. \A o \in dpuObjs : o.type = type => o.number # next[type]
    BY <1>5, <2>1 DEF Registered
  <2> QED
    BY <1>2, <2>1, <2>2 DEF IdOf
<1>8. m \notin dpuObjs /\ m \notin objs /\ dpuObjs = objs /\ hostRts \subseteq dpuRts
  BY <1>1, <1>7 DEF ControlInv, ViewInv, HostViewLive
<1>9. ViewInv'
  <2>1. HostViewLive'
    BY <1>1, <1>3, <1>8 DEF HostViewLive
  <2>2. Answered("create")' /\ rep'.obj = m
    BY <1>2, <1>4
  <2>3. \A o \in dpuObjs' \ objs' : o = rep'.obj
    BY <1>1, <1>3, <1>8, <2>2
  <2>4. rep'.obj \in dpuObjs' \ objs'
    BY <1>1, <1>3, <1>8, <2>2
  <2> QED
    BY <1>4, <2>1, <2>2, <2>3, <2>4 DEF ViewInv
<1>10. ObjectInv'
  <2>1. Registered(m)'
    <3>1. m.number \in 0 .. next'[m.type] - 1
      BY <1>2, <1>5
    <3>2. m.type = "qp" => m.number \in QpNumber
      <4>1. MaxMade["qp"] \in Nat
        BY ControlPathAssumption
      <4> QED
        BY <1>2, <1>5, <1>6, <4>1 DEF QpNumber
    <3> QED
      BY <1>1, <1>2, <1>6, <3>1, <3>2 DEF Registered
  <2>2. ASSUME NEW o \in dpuObjs
        PROVE  Registered(o)'
    <3>1. o.type \in Type /\ o.number \in 0 .. next[o.type] - 1
      BY <1>7 DEF Registered
    <3>2. next[o.type] <= next'[o.type]
      BY <1>5, <3>1
    <3>3. o.number \in 0 .. next'[o.type] - 1
      <4>1. next[o.type] \in Nat /\ next'[o.type] \in Nat
        BY <1>5, <3>1
      <4> QED
        BY <3>1, <3>2, <4>1
    <3> QED
      BY <1>1, <1>7, <3>3 DEF Registered
  <2>3. \A o, p \in dpuObjs' : IdOf(o) = IdOf(p) => o = p
    BY <1>3, <1>7 DEF ControlInv, ObjectInv
  <2> QED
    BY <1>3, <1>4, <2>1, <2>2, <2>3 DEF ObjectInv, IdOf
<1>11. MemoryInv'
  <2>1. ArenaInv' /\ RingsOwned
    BY <1>1 DEF ControlInv, MemoryInv, ArenaInv
  <2>2. /\ m.blocks \subseteq live[m.ctx]
        /\ \A o \in dpuObjs : o.ctx = m.ctx => o.blocks \cap m.blocks = {}
    BY <1>1, <1>2 DEF ControlInv, MemoryInv, Spare
  <2>3. \A o \in dpuObjs' : o.blocks \subseteq live'[o.ctx]
    BY <1>1, <1>3, <2>1, <2>2 DEF RingsOwned
  <2>4. \A o, p \in dpuObjs' : o # p /\ o.ctx = p.ctx => o.blocks \cap p.blocks = {}
    <3>1. \A o, p \in dpuObjs : o # p /\ o.ctx = p.ctx => o.blocks \cap p.blocks = {}
      BY <2>1 DEF RingsOwned
    <3> QED
      BY <1>3, <2>2, <3>1
  <2>5. \A d \in Ctx : \A b, g \in live'[d] : b # g => Bytes(b) \cap Bytes(g) = {}
    BY <1>1, <2>1 DEF RingsOwned
  <2> QED
    BY <1>4, <2>1, <2>3, <2>4, <2>5 DEF MemoryInv, RingsOwned
<1> QED
  BY <1>4, <1>9, <1>10, <1>11

LEMMA HandleCreateKeeps ==
    ASSUME ControlInv, NEW type \in Type, HandleCreate(type)
    PROVE  ChannelInv' /\ ViewInv' /\ ObjectInv' /\ MemoryInv'
<1>1. CASE dpu' = "running"
  BY <1>1, EnteredKeeps
<1>2. CASE dpu' # "running"
  <2>1. UNCHANGED <<dpuObjs, next, req, rep, dpuRts>>
    BY <1>2 DEF HandleCreate
  <2>2. UNCHANGED <<objs, hostRts, hostCtx, waiting, channel, live, free>>
    BY HandlerFacts DEF HandleCreate
  <2>3. UNCHANGED Settled
    BY <2>1, <2>2 DEF Settled
  <2> QED
    BY <2>3, SettledKeeps
<1> QED
  BY <1>1, <1>2

\* A destroy handler that finds the object: its memory stays allocated until
\* the host has the reply.
LEMMA RemovedKeeps ==
    ASSUME ControlInv, NEW type \in Type, HandleDestroy(type), dpu' = "running",
           dpuRts' = IF type = "qp" THEN dpuRts \ {req.obj.number} ELSE dpuRts
    PROVE  ChannelInv' /\ ViewInv' /\ ObjectInv' /\ MemoryInv'
<1>1. /\ req # NoOp /\ req \in Op /\ rep = NoOp
      /\ req.kind = "destroy" /\ req.obj.type = type
      /\ req.obj \in Object /\ req.obj.ctx \in Ctx
      /\ \A k : (Asked(k) <=> k = "destroy") /\ ~Answered(k)
      /\ hostCtx' = hostCtx /\ objs' = objs /\ hostRts' = hostRts
      /\ free' = free /\ live' = live
  BY HandlerFacts DEF HandleDestroy
<1>2. PICK op \in Op, o \in Object :
        op = req /\ o = op.obj /\ op.kind = "destroy" /\ o.type = type /\ o.ctx \in Ctx
  BY <1>1
<1>3. dpuObjs' = dpuObjs \ {o} /\ next' = next /\ Reply(op)
  BY <1>2 DEF HandleDestroy
<1>4. /\ req' = NoOp /\ rep' = op
      /\ \A k : ~Asked(k)' /\ (Answered(k)' <=> k = "destroy")
      /\ ChannelInv'
  BY <1>2, <1>3, RepliedFacts DEF HandleDestroy
<1>5. /\ o \in dpuObjs /\ o \notin objs /\ objs \subseteq dpuObjs /\ hostRts \subseteq dpuRts
      /\ type = "qp" => o.number \notin hostRts
      /\ \A p \in dpuObjs \ objs : p = o
  BY <1>1, <1>2 DEF ControlInv, ViewInv, HostViewLive
<1>6. dpuRts' = IF type = "qp" THEN dpuRts \ {o.number} ELSE dpuRts
  BY <1>2
<1>7. ViewInv'
  <2>1. hostRts' \subseteq dpuRts'
    BY <1>1, <1>5, <1>6
  <2>2. HostViewLive'
    BY <1>1, <1>3, <1>5, <2>1 DEF HostViewLive
  <2>3. dpuObjs' \subseteq objs' /\ rep'.obj \notin dpuObjs'
    BY <1>1, <1>2, <1>3, <1>4, <1>5
  <2> QED
    BY <1>4, <2>2, <2>3 DEF ViewInv
<1>8. ObjectInv'
  <2>1. \A p \in dpuObjs : Registered(p)'
    BY <1>1, <1>3 DEF ControlInv, ObjectInv, Registered
  <2>2. \A p, q \in dpuObjs : IdOf(p) = IdOf(q) => p = q
    BY DEF ControlInv, ObjectInv
  <2> QED
    BY <1>3, <1>4, <2>1, <2>2 DEF ObjectInv, IdOf
<1>9. MemoryInv'
  <2>1. ArenaInv' /\ RingsOwned
    BY <1>1 DEF ControlInv, MemoryInv, ArenaInv
  <2>2. RingsOwned'
    BY <1>1, <1>3, <2>1 DEF RingsOwned
  <2>3. /\ o.blocks \subseteq live'[o.ctx]
        /\ \A p \in dpuObjs' : p.ctx = o.ctx => p.blocks \cap o.blocks = {}
    BY <1>1, <1>3, <1>5, <2>1 DEF RingsOwned
  <2>4. Spare(rep.obj.ctx, rep.obj.blocks)'
    BY <1>2, <1>4, <2>3 DEF Spare
  <2> QED
    BY <1>4, <2>1, <2>2, <2>4 DEF MemoryInv
<1> QED
  BY <1>4, <1>7, <1>8, <1>9

LEMMA HandleDestroyKeeps ==
    ASSUME ControlInv,
           HandleDeallocPd \/ HandleDestroyCq \/ HandleDestroyMr \/ HandleDestroyQp
    PROVE  ChannelInv' /\ ViewInv' /\ ObjectInv' /\ MemoryInv'
<1>1. PICK type \in Type :
        /\ HandleDestroy(type)
        /\ dpu' = "running" =>
             dpuRts' = IF type = "qp" THEN dpuRts \ {req.obj.number} ELSE dpuRts
        /\ dpu' # "running" => dpuRts' = dpuRts
  <2>1. CASE HandleDeallocPd \/ HandleDestroyCq \/ HandleDestroyMr
    BY <2>1 DEF HandleDeallocPd, HandleDestroyCq, HandleDestroyMr, Type
  <2>2. CASE HandleDestroyQp
    BY <2>2 DEF HandleDestroyQp, Type
  <2> QED
    BY <2>1, <2>2
<1>2. CASE dpu' = "running"
  BY <1>1, <1>2, RemovedKeeps
<1>3. CASE dpu' # "running"
  <2>1. UNCHANGED <<dpuObjs, next, req, rep, dpuRts>>
    BY <1>1, <1>3 DEF HandleDestroy
  <2>2. UNCHANGED <<objs, hostRts, hostCtx, waiting, channel, live, free>>
    BY <1>1, HandlerFacts DEF HandleDestroy
  <2>3. UNCHANGED Settled
    BY <2>1, <2>2 DEF Settled
  <2> QED
    BY <2>3, SettledKeeps
<1> QED
  BY <1>2, <1>3

\* A handler that changes no object and no arena.
LEMMA AnsweredKeeps ==
    ASSUME ControlInv, NEW kind \in {"open", "close", "modify"}, NEW type,
           Requested(kind, type), Reply(req),
           dpuObjs' = dpuObjs, next' = next, dpuRts \subseteq dpuRts',
           kind = "modify" => req.obj.number \in dpuRts'
    PROVE  ChannelInv' /\ ViewInv' /\ ObjectInv' /\ MemoryInv'
<1>1. /\ req # NoOp /\ req \in Op /\ rep = NoOp /\ req.kind = kind
      /\ \A k : (Asked(k) <=> k = kind) /\ ~Answered(k)
      /\ hostCtx' = hostCtx /\ objs' = objs /\ hostRts' = hostRts
      /\ free' = free /\ live' = live
  BY HandlerFacts
<1>2. PICK op \in Op : op = req /\ op.kind = kind
  BY <1>1
<1>3. /\ req' = NoOp /\ rep' = op
      /\ \A k : ~Asked(k)' /\ (Answered(k)' <=> k = kind)
      /\ ChannelInv'
  BY <1>2, RepliedFacts
<1>4. kind # "create" /\ kind # "destroy"
  OBVIOUS
<1>5. /\ objs \subseteq dpuObjs /\ dpuObjs \subseteq objs /\ hostRts \subseteq dpuRts
      /\ kind = "modify" => op.obj \in objs /\ op.obj.type = "qp"
  BY <1>1, <1>2, <1>4 DEF ControlInv, ViewInv, HostViewLive
<1>6. ViewInv'
  <2>1. HostViewLive' /\ dpuObjs' \ objs' = {}
    BY <1>1, <1>5 DEF HostViewLive
  <2>2. kind = "modify" =>
          rep'.obj \in objs' /\ rep'.obj.type = "qp" /\ rep'.obj.number \in dpuRts'
    BY <1>1, <1>2, <1>3, <1>5
  <2> QED
    BY <1>3, <1>4, <2>1, <2>2 DEF ViewInv
<1>7. ObjectInv'
  <2>1. \A p \in dpuObjs : Registered(p)'
    BY <1>1 DEF ControlInv, ObjectInv, Registered
  <2>2. \A p, q \in dpuObjs : IdOf(p) = IdOf(q) => p = q
    BY DEF ControlInv, ObjectInv
  <2>3. kind = "open" => hostCtx'[op.obj.ctx] = "none"
    BY <1>1, <1>2 DEF ControlInv, ObjectInv
  <2>4. kind = "close" => /\ hostCtx'[op.obj.ctx] = "open"
                          /\ \A o \in dpuObjs' : o.ctx # op.obj.ctx
    BY <1>1, <1>2 DEF ControlInv, ObjectInv
  <2> QED
    BY <1>3, <2>1, <2>2, <2>3, <2>4 DEF ObjectInv, IdOf
<1>8. MemoryInv'
  BY <1>1, <1>3, <1>4 DEF ControlInv, MemoryInv, ArenaInv, RingsOwned
<1> QED
  BY <1>3, <1>6, <1>7, <1>8

LEMMA HandleOtherKeeps ==
    ASSUME ControlInv, HandleModifyQp \/ OpenDone \/ CloseDone
    PROVE  ChannelInv' /\ ViewInv' /\ ObjectInv' /\ MemoryInv'
<1>1. CASE HandleModifyQp
  <2>1. CASE dpu' = "running"
    <3>1. /\ Requested("modify", "qp") /\ Reply(req)
          /\ dpuObjs' = dpuObjs /\ next' = next /\ dpuRts' = dpuRts \cup {req.obj.number}
      BY <1>1, <2>1 DEF HandleModifyQp
    <3> QED
      BY <3>1, AnsweredKeeps
  <2>2. CASE dpu' # "running"
    <3>1. UNCHANGED <<dpuObjs, next, req, rep, dpuRts>>
      BY <1>1, <2>2 DEF HandleModifyQp
    <3>2. UNCHANGED <<objs, hostRts, hostCtx, waiting, channel, live, free>>
      BY <1>1, HandlerFacts DEF HandleModifyQp
    <3>3. UNCHANGED Settled
      BY <3>1, <3>2 DEF Settled
    <3> QED
      BY <3>3, SettledKeeps
  <2> QED
    BY <2>1, <2>2
<1>2. CASE OpenDone
  <2>1. /\ Requested("open", "ctx") /\ Reply(req)
        /\ dpuObjs' = dpuObjs /\ next' = next /\ dpuRts' = dpuRts
    BY <1>2 DEF OpenDone
  <2> QED
    BY <2>1, AnsweredKeeps
<1>3. CASE CloseDone
  <2>1. /\ Requested("close", "ctx") /\ Reply(req)
        /\ dpuObjs' = dpuObjs /\ next' = next /\ dpuRts' = dpuRts
    BY <1>3 DEF CloseDone
  <2> QED
    BY <2>1, AnsweredKeeps
<1> QED
  BY <1>1, <1>2, <1>3

\* Every step keeps the parts of the invariant beyond the types.
LEMMA ControlKeeps ==
    ASSUME ControlInv, [Next]_vars
    PROVE  ChannelInv' /\ ViewInv' /\ ObjectInv' /\ MemoryInv'
<1>1. CASE Host
  <2>1. ASSUME NEW c \in Ctx, OpenDevice(c) \/ CloseDevice(c)
        PROVE  ChannelInv' /\ ViewInv' /\ ObjectInv' /\ MemoryInv'
    BY <2>1, OpenCallKeeps
  <2>2. ASSUME NEW c \in Ctx, AllocPd(c) \/ RegMr(c) \/ CreateCq(c)
        PROVE  ChannelInv' /\ ViewInv' /\ ObjectInv' /\ MemoryInv'
    BY <2>2, AllocPdKeeps, RegMrKeeps, CreateCqKeeps
  <2>3. ASSUME NEW c \in Ctx, NEW w \in Wq, CreateQp(c, w)
        PROVE  ChannelInv' /\ ViewInv' /\ ObjectInv' /\ MemoryInv'
    BY <2>3, CreateQpKeeps
  <2>4. ASSUME NEW o \in objs, Destroy(o) \/ ModifyQp(o)
        PROVE  ChannelInv' /\ ViewInv' /\ ObjectInv' /\ MemoryInv'
    BY <2>4, DestroyKeeps, ModifyCallKeeps
  <2>5. CASE \E o \in objs : Post(o) \/ Poll(o)
    BY <2>5, QuietSteps, SettledKeeps
  <2>6. CASE OpenReturns \/ CloseReturns \/ CreateReturns \/ DestroyReturns
             \/ ModifyReturns \/ IoctlFails
    BY <2>6, ContextReturnsKeeps, CreateReturnsKeeps, DestroyReturnsKeeps,
       ModifyReturnsKeeps, IoctlFailsKeeps
  <2> QED
    BY <1>1, <2>1, <2>2, <2>3, <2>4, <2>5, <2>6 DEF Host
<1>2. CASE Handler
  <2>1. CASE HandleAllocPd \/ HandleRegMr \/ HandleCreateCq \/ HandleCreateQp
    BY <2>1, HandleCreateKeeps
    DEF HandleAllocPd, HandleRegMr, HandleCreateCq, HandleCreateQp, Type
  <2>2. CASE HandleDeallocPd \/ HandleDestroyMr \/ HandleDestroyCq \/ HandleDestroyQp
    BY <2>2, HandleDestroyKeeps
  <2>3. CASE HandleModifyQp \/ OpenDone \/ CloseDone
    BY <2>3, HandleOtherKeeps
  <2>4. CASE LinkWq \/ UnlinkWq
    BY <2>4, QuietSteps, SettledKeeps
  <2> QED
    BY <1>2, <2>1, <2>2, <2>3, <2>4 DEF Handler, HandleOpenDevice, HandleCloseDevice
<1>3. CASE Peers \/ \E w \in Wq : Thread(w)
  BY <1>3, QuietSteps, SettledKeeps
<1>4. CASE UNCHANGED vars
  BY <1>4, QuietSteps, SettledKeeps
<1> QED
  BY <1>1, <1>2, <1>3, <1>4 DEF Next

-----------------------------------------------------------------------------
(* Types *)

AppTypes ==
    /\ host \in {"running", "aborted"}
    /\ hostCtx \in [Ctx -> {"none", "open", "closed"}]
    /\ objs \in SUBSET Object
    /\ hostRts \subseteq QpNumber
    /\ outstanding \in [QpNumber -> 0 .. MaxOutstanding]

PoolTypes ==
    /\ free \in [Ctx -> SUBSET (0 .. ArenaSize - 1)]
    /\ live \in [Ctx -> SUBSET Block]

OpTypes ==
    /\ waiting \in BOOLEAN
    /\ channel \in {"up", "down"}
    /\ req \in Op \cup {NoOp}
    /\ rep \in Op \cup {NoOp}

TableTypes ==
    /\ dpu \in DpuState
    /\ contextList \in [Ctx -> {"none", "live", "freed"}]
    /\ dpuObjs \in SUBSET Object
    /\ dpuRts \subseteq QpNumber
    /\ next \in [Type -> Nat]
    /\ linked \in 0 .. NumWqs
    /\ sendWqs \in [Wq -> SUBSET Ctx]
    /\ lookup \in [Wq -> SUBSET QpNumber]

ThreadTypes ==
    /\ peers \in SUBSET Object
    /\ inbound \in [QpNumber -> Message]
    /\ active \in [Wq -> SUBSET QpNumber]
    /\ pc \in [Wq -> Place]
    /\ hand \in [Wq -> QpNumber \cup {None}]
    /\ todo \in [Wq -> SUBSET Ctx]
    /\ ring \in [Ctx -> [Wq -> Seq(QpNumber)]]
    /\ sends \in [QpNumber -> Nat]

LEMMA TypeParts ==
    /\ TypeOK <=> AppTypes /\ PoolTypes /\ OpTypes /\ TableTypes /\ ThreadTypes
    /\ TypeOK' <=> AppTypes' /\ PoolTypes' /\ OpTypes' /\ TableTypes' /\ ThreadTypes'
<1>1. TypeOK <=> AppTypes /\ PoolTypes /\ OpTypes /\ TableTypes /\ ThreadTypes
  BY DEF TypeOK, AppTypes, PoolTypes, OpTypes, TableTypes, ThreadTypes
<1>2. TypeOK' <=> AppTypes' /\ PoolTypes' /\ OpTypes' /\ TableTypes' /\ ThreadTypes'
  BY DEF TypeOK, AppTypes, PoolTypes, OpTypes, TableTypes, ThreadTypes
<1> QED
  BY <1>1, <1>2

\* The variables of a group that a step leaves alone keep their types.
LEMMA TypesKept ==
    ASSUME TypeOK
    PROVE  /\ UNCHANGED app => AppTypes'
           /\ UNCHANGED arena => PoolTypes'
           /\ UNCHANGED <<ioctl, req, rep>> => OpTypes'
           /\ UNCHANGED <<dpu, tables, sendWqs, lookup>> => TableTypes'
           /\ UNCHANGED <<threads, ring, net>> => ThreadTypes'
<1>1. UNCHANGED app => AppTypes'
  BY TypeParts DEF app, AppTypes
<1>2. UNCHANGED arena => PoolTypes'
  BY TypeParts DEF arena, PoolTypes
<1>3. UNCHANGED <<ioctl, req, rep>> => OpTypes'
  BY TypeParts DEF ioctl, OpTypes
<1>4. UNCHANGED <<dpu, tables, sendWqs, lookup>> => TableTypes'
  BY TypeParts DEF tables, TableTypes
<1>5. UNCHANGED <<threads, ring, net>> => ThreadTypes'
  BY TypeParts DEF threads, net, ThreadTypes
<1> QED
  BY <1>1, <1>2, <1>3, <1>4, <1>5

\* A call changes the application's state and the arenas at most.
LEMMA CallTypes ==
    ASSUME ControlInv, NEW op \in Op, Call(op), AppTypes', PoolTypes'
    PROVE  TypeOK'
<1>1. /\ req' = op /\ rep' = NoOp /\ waiting' = TRUE /\ channel' = channel
      /\ UNCHANGED <<dpu, tables, sendWqs, lookup>> /\ UNCHANGED <<threads, ring, net>>
  BY DEF Call
<1>2. OpTypes'
  BY <1>1, TypeParts DEF ControlInv, OpTypes
<1> QED
  BY <1>1, <1>2, TypeParts, TypesKept DEF ControlInv

LEMMA CallsTyped ==
    ASSUME ControlInv,
           \/ \E c \in Ctx : OpenDevice(c) \/ CloseDevice(c) \/ AllocPd(c) \/ RegMr(c)
           \/ \E o \in objs : ModifyQp(o) \/ Destroy(o)
    PROVE  TypeOK'
<1>1. ASSUME NEW c \in Ctx, OpenDevice(c) \/ CloseDevice(c)
      PROVE  TypeOK'
  <2>1. UNCHANGED app /\ UNCHANGED arena
    BY <1>1 DEF OpenDevice, CloseDevice
  <2>2. Context(c) \in Object
    BY ContextFacts
  <2>3. /\ [kind |-> "open", obj |-> Context(c)] \in Op
        /\ [kind |-> "close", obj |-> Context(c)] \in Op
    BY <2>2 DEF Op
  <2>4. \E op \in Op : Call(op)
    BY <1>1, <2>3 DEF OpenDevice, CloseDevice
  <2> QED
    BY <2>1, <2>4, CallTypes, TypesKept DEF ControlInv
<1>2. ASSUME NEW c \in Ctx, AllocPd(c)
      PROVE  TypeOK'
  <2>1. UNCHANGED app /\ UNCHANGED arena /\ Create(c, "pd", {}, None, {})
    BY <1>2 DEF AllocPd
  <2>2. "pd" \in Type /\ {} \in SUBSET Id /\ None \in Wq \cup {None} /\ {} \in SUBSET Block
    BY DEF Type
  <2>3. \E op \in Op : Call(op)
    BY <2>1, <2>2, CreateFacts
  <2> QED
    BY <2>1, <2>3, CallTypes, TypesKept DEF ControlInv
<1>3. ASSUME NEW c \in Ctx, RegMr(c)
      PROVE  TypeOK'
  <2>1. UNCHANGED app /\ UNCHANGED arena
    BY <1>3 DEF RegMr
  <2>2. PICK pd \in Objects(c, "pd") : Create(c, "mr", {IdOf(pd)}, None, {})
    BY <1>3 DEF RegMr
  <2>3. {IdOf(pd)} \in SUBSET Id
    BY <2>2, OwnObjects DEF Objects
  <2>4. "mr" \in Type /\ None \in Wq \cup {None} /\ {} \in SUBSET Block
    BY DEF Type
  <2>5. \E op \in Op : Call(op)
    BY <2>2, <2>3, <2>4, CreateFacts
  <2> QED
    BY <2>1, <2>5, CallTypes, TypesKept DEF ControlInv
<1>4. ASSUME NEW o \in objs, ModifyQp(o) \/ Destroy(o)
      PROVE  TypeOK'
  <2>1. o \in Object
    BY OwnObjects
  <2>2. /\ [kind |-> "modify", obj |-> o] \in Op
        /\ [kind |-> "destroy", obj |-> o] \in Op
    BY <2>1 DEF Op
  <2>3. \E op \in Op : Call(op)
    BY <1>4, <2>2 DEF ModifyQp, Destroy
  <2>4. UNCHANGED arena
    BY <1>4 DEF ModifyQp, Destroy
  <2>5. AppTypes'
    <3>1. CASE ModifyQp(o)
      BY <3>1, TypesKept DEF ModifyQp, ControlInv
    <3>2. CASE Destroy(o)
      <4>1. /\ host' = host /\ hostCtx' = hostCtx /\ outstanding' = outstanding
            /\ objs' \subseteq objs /\ hostRts' \subseteq hostRts
        BY <3>2 DEF Destroy
      <4> QED
        BY <4>1, TypeParts DEF ControlInv, AppTypes
    <3> QED
      BY <1>4, <3>1, <3>2
  <2> QED
    BY <2>3, <2>4, <2>5, CallTypes, TypesKept DEF ControlInv
<1> QED
  BY <1>1, <1>2, <1>3, <1>4

\* An arena after an allocation.
LEMMA PoolShrinks ==
    ASSUME TypeOK, NEW c \in Ctx, NEW rest \in SUBSET free[c], NEW new \in SUBSET Block,
           free' = [free EXCEPT ![c] = rest],
           live' = [live EXCEPT ![c] = @ \cup new]
    PROVE  PoolTypes'
<1>1. /\ free \in [Ctx -> SUBSET (0 .. ArenaSize - 1)]
      /\ live \in [Ctx -> SUBSET Block]
      /\ free[c] \subseteq 0 .. ArenaSize - 1 /\ live[c] \subseteq Block
  BY ArenaTypes
<1>2. rest \in SUBSET (0 .. ArenaSize - 1) /\ live[c] \cup new \in SUBSET Block
  BY <1>1
<1> QED
  BY <1>1, <1>2 DEF PoolTypes

LEMMA CreateQpTyped ==
    ASSUME ControlInv, NEW c \in Ctx, NEW w \in Wq, CreateQp(c, w)
    PROVE  TypeOK'
<1>1. UNCHANGED app
  BY DEF CreateQp
<1>2. PICK pd \in Objects(c, "pd"), sendCq \in Objects(c, "cq"),
           recvCq \in Objects(c, "cq") :
        LET uses == {IdOf(pd), IdOf(sendCq), IdOf(recvCq)}
            ringBlock == Allocated(free[c], RingSize, Page)
        IN  IF Fitting(free[c], RingSize, Page) # {}
              THEN /\ free' = [free EXCEPT ![c] = FreeAfterAlloc(@, RingSize, Page)]
                   /\ live' = [live EXCEPT ![c] = @ \cup {ringBlock}]
                   /\ Create(c, "qp", uses, w, {ringBlock})
              ELSE /\ Create(c, "qp", uses, w, {})
                   /\ UNCHANGED arena
  BY DEF CreateQp
<1> DEFINE uses == {IdOf(pd), IdOf(sendCq), IdOf(recvCq)}
           b == Allocated(free[c], RingSize, Page)
           rest == FreeAfterAlloc(free[c], RingSize, Page)
<1>3. uses \in SUBSET Id
  BY <1>2, OwnObjects DEF Objects
<1>4. "qp" \in Type /\ w \in Wq \cup {None} /\ {} \in SUBSET Block
  BY DEF Type
<1>5. CASE Fitting(free[c], RingSize, Page) # {}
  <2>1. free[c] \subseteq Nat /\ RingSize \in Nat /\ RingSize > 0 /\ Page \in Nat /\ Page > 0
    BY ArenaTypes, ControlPathAssumption DEF ControlInv
  <2>2. b \in Block /\ rest \subseteq free[c]
    BY <1>5, <2>1, AllocSound
  <2>3. /\ free' = [free EXCEPT ![c] = rest]
        /\ live' = [live EXCEPT ![c] = @ \cup {b}]
        /\ Create(c, "qp", uses, w, {b})
    BY <1>2, <1>5
  <2> HIDE DEF uses, b, rest
  <2>0. {b} \in SUBSET Block /\ rest \in SUBSET free[c]
    BY <2>2
  <2>4. \E op \in Op : Call(op)
    BY <1>3, <1>4, <2>0, <2>3, CreateFacts
  <2>5. PoolTypes'
    BY <2>0, <2>3, PoolShrinks DEF ControlInv
  <2> QED
    BY <1>1, <2>4, <2>5, CallTypes, TypesKept DEF ControlInv
<1>6. CASE Fitting(free[c], RingSize, Page) = {}
  <2>1. Create(c, "qp", uses, w, {}) /\ UNCHANGED arena
    BY <1>2, <1>6
  <2> HIDE DEF uses
  <2>2. \E op \in Op : Call(op)
    BY <1>3, <1>4, <2>1, CreateFacts
  <2> QED
    BY <1>1, <2>1, <2>2, CallTypes, TypesKept DEF ControlInv
<1> QED
  BY <1>5, <1>6

LEMMA CreateCqTyped ==
    ASSUME ControlInv, NEW c \in Ctx, CreateCq(c)
    PROVE  TypeOK'
<1> DEFINE b == Allocated(free[c], RingSize, Page)
           rest == FreeAfterAlloc(free[c], RingSize, Page)
           d == Allocated(rest, 1, 1)
           left == FreeAfterAlloc(rest, 1, 1)
<1>1. CASE ~(Fitting(free[c], RingSize, Page) # {} /\ Fitting(rest, 1, 1) # {})
  <2>1. /\ host' = "aborted"
        /\ UNCHANGED <<hostCtx, objs, hostRts, outstanding>> /\ UNCHANGED arena
        /\ UNCHANGED <<ioctl, req, rep>> /\ UNCHANGED <<dpu, tables, sendWqs, lookup>>
        /\ UNCHANGED <<threads, ring, net>>
    BY <1>1 DEF CreateCq
  <2>2. AppTypes'
    BY <2>1, TypeParts DEF ControlInv, AppTypes
  <2> QED
    BY <2>1, <2>2, TypeParts, TypesKept DEF ControlInv
<1>2. CASE Fitting(free[c], RingSize, Page) # {} /\ Fitting(rest, 1, 1) # {}
  <2>1. /\ free' = [free EXCEPT ![c] = left]
        /\ live' = [live EXCEPT ![c] = @ \cup {b, d}]
        /\ Create(c, "cq", {}, None, {b, d})
        /\ UNCHANGED app
    BY <1>2 DEF CreateCq
  <2>2. free[c] \subseteq Nat /\ RingSize \in Nat /\ RingSize > 0 /\ Page \in Nat /\ Page > 0
    BY ArenaTypes, ControlPathAssumption DEF ControlInv
  <2>3. b \in Block /\ rest \subseteq free[c]
    BY <1>2, <2>2, AllocSound
  <2>4. rest \subseteq Nat /\ Fitting(rest, 1, 1) # {} /\ 1 \in Nat /\ 1 > 0
    BY <1>2, <2>2, <2>3
  <2> HIDE DEF b, rest
  <2>5. d \in Block /\ left \subseteq rest
    BY <2>4, AllocSound
  <2> HIDE DEF d, left
  <2>6. {b, d} \in SUBSET Block /\ left \in SUBSET free[c]
    BY <2>3, <2>5
  <2>7. "cq" \in Type /\ {} \in SUBSET Id /\ None \in Wq \cup {None}
    BY DEF Type
  <2>8. \E op \in Op : Call(op)
    BY <2>1, <2>6, <2>7, CreateFacts
  <2>9. PoolTypes'
    BY <2>1, <2>6, PoolShrinks DEF ControlInv
  <2> QED
    BY <2>1, <2>8, <2>9, CallTypes, TypesKept DEF ControlInv
<1> QED
  BY <1>1, <1>2

\* A queue pair the DPU has.
LEMMA QpFacts ==
    ASSUME ControlInv, NEW o \in dpuObjs, o.type = "qp"
    PROVE  o.number \in QpNumber /\ o.wq \in Wq /\ o.ctx \in Ctx
<1>1. Registered(o) /\ o \in Object
  BY DEF ControlInv, ObjectInv, TypeOK
<1> QED
  BY <1>1, ObjectFields DEF Registered

\* The number a request for a queue pair will be given.
LEMMA NextQpFacts ==
    ASSUME ControlInv, Asked("create"), req.obj.type = "qp"
    PROVE  next["qp"] \in QpNumber /\ req.obj.wq \in Wq
<1>1. next["qp"] < MaxMade["qp"] /\ req.obj.wq \in Wq
  BY DEF ControlInv, ObjectInv
<1>2. next["qp"] \in Nat /\ MaxMade["qp"] \in Nat
  BY ControlPathAssumption DEF ControlInv, TypeOK, Type
<1> QED
  BY <1>1, <1>2 DEF QpNumber

LEMMA ReturnsTyped ==
    ASSUME ControlInv,
           OpenReturns \/ CloseReturns \/ CreateReturns \/ DestroyReturns \/ ModifyReturns
    PROVE  TypeOK'
<1>1. PICK kind \in {"open", "close", "create", "destroy", "modify"} : Replied(kind)
  BY DEF OpenReturns, CloseReturns, CreateReturns, DestroyReturns, ModifyReturns
<1>2. /\ rep \in Op /\ rep.kind = kind /\ rep.obj \in Object /\ rep.obj.ctx \in Ctx
      /\ \A k : Answered(k) <=> k = kind
  BY <1>1, ReplyFacts
<1>3. /\ host' = host /\ outstanding' = outstanding /\ channel' = channel /\ req' = req
      /\ waiting' = FALSE /\ rep' = NoOp
      /\ UNCHANGED <<dpu, tables, sendWqs, lookup>> /\ UNCHANGED <<threads, ring, net>>
  BY <1>1 DEF Replied
<1>4. OpTypes'
  BY <1>3, TypeParts DEF ControlInv, OpTypes
<1>5. TableTypes' /\ ThreadTypes'
  BY <1>3, TypesKept DEF ControlInv
<1>6. /\ free \in [Ctx -> SUBSET (0 .. ArenaSize - 1)]
      /\ live \in [Ctx -> SUBSET Block]
      /\ free[rep.obj.ctx] \subseteq 0 .. ArenaSize - 1
      /\ live[rep.obj.ctx] \subseteq Block
  BY <1>2, ArenaTypes DEF ControlInv
<1>7. AppTypes
  BY TypeParts DEF ControlInv
<1>8. CASE OpenReturns
  <2>1. PoolTypes'
    BY <1>6, <1>8, SendRingFacts DEF OpenReturns, PoolTypes, Arena
  <2>2. AppTypes'
    BY <1>3, <1>7, <1>8 DEF OpenReturns, AppTypes
  <2> QED
    BY <1>4, <1>5, <2>1, <2>2, TypeParts
<1>9. CASE CloseReturns
  <2>1. PoolTypes'
    BY <1>6, <1>9 DEF CloseReturns, PoolTypes
  <2>2. AppTypes'
    BY <1>3, <1>7, <1>9 DEF CloseReturns, AppTypes
  <2> QED
    BY <1>4, <1>5, <2>1, <2>2, TypeParts
<1>10. CASE CreateReturns
  <2>1. UNCHANGED arena /\ UNCHANGED <<hostCtx, hostRts>> /\ objs' = objs \cup {rep.obj}
    BY <1>10 DEF CreateReturns
  <2>2. AppTypes'
    BY <1>2, <1>3, <1>7, <2>1 DEF AppTypes
  <2> QED
    BY <1>4, <1>5, <2>1, <2>2, TypeParts, TypesKept DEF ControlInv
<1>11. CASE DestroyReturns
  <2>1. /\ free' = [free EXCEPT ![rep.obj.ctx] = FreeAfterFree(@, rep.obj.blocks)]
        /\ live' = [live EXCEPT ![rep.obj.ctx] = @ \ rep.obj.blocks]
        /\ UNCHANGED <<hostCtx, objs, hostRts>> /\ Replied("destroy")
    BY <1>11 DEF DestroyReturns, GiveBack
  <2>2. rep.obj.blocks \subseteq live[rep.obj.ctx]
    BY <2>1, ReplyFacts DEF ControlInv, MemoryInv, Spare
  <2>3. \A b \in rep.obj.blocks : Bytes(b) \subseteq 0 .. ArenaSize - 1
    BY <1>2, <2>2 DEF ControlInv, MemoryInv, ArenaInv
  <2>4. FreeAfterFree(free[rep.obj.ctx], rep.obj.blocks) \subseteq 0 .. ArenaSize - 1
    BY <1>6, <2>3 DEF FreeAfterFree
  <2>5. PoolTypes'
    BY <1>6, <2>1, <2>4 DEF PoolTypes
  <2>6. AppTypes'
    BY <1>3, <1>7, <2>1 DEF AppTypes
  <2> QED
    BY <1>4, <1>5, <2>5, <2>6, TypeParts
<1>12. CASE ModifyReturns
  <2>1. /\ UNCHANGED arena /\ UNCHANGED <<hostCtx, objs>> /\ Replied("modify")
        /\ hostRts' = hostRts \cup {rep.obj.number}
    BY <1>12 DEF ModifyReturns
  <2>2. Answered("modify") /\ rep.obj \in objs /\ rep.obj.type = "qp"
    BY <2>1, ReplyFacts DEF ControlInv, ViewInv
  <2>3. rep.obj.number \in QpNumber
    BY <2>2, OwnObjects, QpFacts
  <2>4. AppTypes'
    BY <1>3, <1>7, <2>1, <2>3 DEF AppTypes
  <2> QED
    BY <1>4, <1>5, <2>1, <2>4, TypeParts, TypesKept DEF ControlInv
<1> QED
  BY <1>8, <1>9, <1>10, <1>11, <1>12

LEMMA IoctlFailsTyped ==
    ASSUME ControlInv, IoctlFails
    PROVE  TypeOK'
<1>1. /\ UNCHANGED arena /\ waiting' = FALSE /\ channel' = "down"
      /\ UNCHANGED app /\ req' = req /\ rep' = rep
      /\ UNCHANGED <<dpu, tables, sendWqs, lookup>> /\ UNCHANGED <<threads, ring, net>>
  BY FailureFacts DEF arena
<1>2. OpTypes'
  BY <1>1, TypeParts DEF ControlInv, OpTypes
<1> QED
  BY <1>1, <1>2, TypeParts, TypesKept DEF ControlInv

\* The requests of a queue pair that are in the send ring can be counted.
LEMMA UnfetchedFacts ==
    ASSUME TypeOK, NEW c \in Ctx, NEW w \in Wq, NEW q
    PROVE  /\ IsFiniteSet({i \in DOMAIN ring[c][w] : ring[c][w][i] = q})
           /\ Cardinality({i \in DOMAIN ring[c][w] : ring[c][w][i] = q}) \in Nat
<1>1. ring[c][w] \in Seq(QpNumber)
  BY DEF TypeOK
<1> DEFINE s == ring[c][w]
           D == DOMAIN s
           S == {i \in D : s[i] = q}
<1>2. Len(s) \in Nat /\ DOMAIN s = 1 .. Len(s)
  BY <1>1
<1> HIDE DEF s
<1>3. IsFiniteSet(1 .. Len(s))
  BY <1>2, FS_Interval
<1>4. S \subseteq 1 .. Len(s)
  BY <1>2
<1>5. IsFiniteSet(S)
  BY <1>3, <1>4, FS_Subset
<1>6. Cardinality(S) \in Nat
  BY <1>5, FS_CardinalityType
<1> QED
  BY <1>5, <1>6 DEF s

\* An application that posts or polls has a queue pair with this number.
LEMMA OwnQpFacts ==
    ASSUME ControlInv, NEW o \in objs, o.type = "qp"
    PROVE  o.number \in QpNumber /\ o.wq \in Wq /\ o.ctx \in Ctx
<1>1. o \in dpuObjs
  BY OwnObjects
<1> QED
  BY <1>1, QpFacts

LEMMA PostTyped ==
    ASSUME ControlInv, NEW o \in objs, Post(o) \/ Poll(o)
    PROVE  TypeOK'
<1>1. /\ host' = host /\ hostCtx' = hostCtx /\ objs' = objs /\ hostRts' = hostRts
      /\ UNCHANGED arena /\ UNCHANGED <<ioctl, req, rep>>
      /\ UNCHANGED <<dpu, tables, sendWqs, lookup>> /\ UNCHANGED <<threads, net>>
  BY DEF Post, Poll
<1>2. o.number \in QpNumber /\ o.wq \in Wq /\ o.ctx \in Ctx
  BY OwnQpFacts DEF Post, Poll
<1>3. /\ outstanding \in [QpNumber -> 0 .. MaxOutstanding]
      /\ ring \in [Ctx -> [Wq -> Seq(QpNumber)]] /\ MaxOutstanding \in Nat
      /\ sends \in [QpNumber -> Nat]
  BY ControlPathAssumption DEF ControlInv, TypeOK
<1>4. CASE Post(o)
  <2>1. /\ outstanding[o.number] < MaxOutstanding
        /\ outstanding' = [outstanding EXCEPT ![o.number] = @ + 1]
        /\ ring' = [ring EXCEPT ![o.ctx][o.wq] = Append(@, o.number)]
    BY <1>4 DEF Post
  <2>2. outstanding' \in [QpNumber -> 0 .. MaxOutstanding]
    BY <1>2, <1>3, <2>1
  <2>3. ring[o.ctx][o.wq] \in Seq(QpNumber)
    BY <1>2, <1>3
  <2>4. Append(ring[o.ctx][o.wq], o.number) \in Seq(QpNumber)
    BY <1>2, <2>3
  <2>5. ring' \in [Ctx -> [Wq -> Seq(QpNumber)]]
    BY <1>2, <1>3, <2>1, <2>4
  <2>6. AppTypes' /\ ThreadTypes'
    BY <1>1, <2>2, <2>5, TypeParts DEF ControlInv, AppTypes, ThreadTypes, threads, net
  <2> QED
    BY <1>1, <2>6, TypeParts, TypesKept DEF ControlInv
<1>5. CASE Poll(o)
  <2>1. /\ outstanding[o.number] > sends[o.number] + Unfetched(o)
        /\ outstanding' = [outstanding EXCEPT ![o.number] = @ - 1]
        /\ ring' = ring
    BY <1>5 DEF Poll
  <2>2. Unfetched(o) \in Nat
    BY <1>2, UnfetchedFacts DEF ControlInv, Unfetched
  <2>3. outstanding[o.number] - 1 \in 0 .. MaxOutstanding
    BY <1>2, <1>3, <2>1, <2>2
  <2>4. outstanding' \in [QpNumber -> 0 .. MaxOutstanding]
    BY <1>2, <1>3, <2>1, <2>3
  <2>5. AppTypes' /\ ThreadTypes'
    BY <1>1, <2>1, <2>4, TypeParts DEF ControlInv, AppTypes, ThreadTypes, threads, net
  <2> QED
    BY <1>1, <2>5, TypeParts, TypesKept DEF ControlInv
<1> QED
  BY <1>4, <1>5

\* What a look-up leads to.
LEMMA FoundTyped ==
    ASSUME NEW c, NEW ids
    PROVE  Found(c, ids) \in {"running", "exited", "freed_context"}
BY DEF Found

\* A handler leaves the application, the arenas and the threads alone.
LEMMA HandlerTypes ==
    ASSUME ControlInv, NEW kind, NEW type, Requested(kind, type),
           req' \in Op \cup {NoOp}, rep' \in Op \cup {NoOp}, TableTypes'
    PROVE  TypeOK'
<1>1. UNCHANGED app /\ UNCHANGED arena /\ UNCHANGED ioctl /\ UNCHANGED <<threads, ring, net>>
  BY DEF Requested
<1>2. OpTypes'
  BY <1>1, TypeParts DEF ControlInv, OpTypes, ioctl
<1> QED
  BY <1>1, <1>2, TypeParts, TypesKept DEF ControlInv

LEMMA HandleCreateTyped ==
    ASSUME ControlInv, NEW type \in Type, HandleCreate(type),
           lookup' \in [Wq -> SUBSET QpNumber]
    PROVE  TypeOK'
<1>1. /\ Requested("create", type) /\ req # NoOp /\ req.obj.type = type
      /\ req \in Op /\ rep = NoOp
  BY HandlerFacts DEF HandleCreate
<1>2. /\ Made \in Object /\ [req EXCEPT !.obj = Made] \in Op
  BY <1>1, MadeFacts DEF ControlInv
<1>3. TableTypes
  BY TypeParts DEF ControlInv
<1>4. dpu' \in DpuState
  BY FoundTyped DEF HandleCreate, DpuState
<1>5. contextList' = contextList /\ dpuRts' = dpuRts /\ linked' = linked /\ sendWqs' = sendWqs
  BY DEF HandleCreate
<1>6. CASE dpu' = "running"
  <2>1. /\ dpuObjs' = dpuObjs \cup {Made}
        /\ next' = [next EXCEPT ![type] = @ + 1]
        /\ req' = NoOp /\ rep' = [req EXCEPT !.obj = Made]
    BY <1>6 DEF HandleCreate, Entered, Reply
  <2>2. next' \in [Type -> Nat]
    <3>1. next \in [Type -> Nat]
      BY <1>3 DEF TableTypes
    <3>2. next[type] + 1 \in Nat
      BY <3>1
    <3> QED
      BY <2>1, <3>1, <3>2
  <2>3. TableTypes'
    BY <1>2, <1>3, <1>4, <1>5, <2>1, <2>2 DEF TableTypes
  <2> QED
    BY <1>1, <1>2, <2>1, <2>3, HandlerTypes
<1>7. CASE dpu' # "running"
  <2>1. dpuObjs' = dpuObjs /\ next' = next /\ req' = req /\ rep' = rep
    BY <1>7 DEF HandleCreate
  <2>2. TableTypes'
    BY <1>3, <1>4, <1>5, <2>1 DEF TableTypes
  <2> QED
    BY <1>1, <2>1, <2>2, HandlerTypes
<1> QED
  BY <1>6, <1>7

LEMMA CreatesTyped ==
    ASSUME ControlInv,
           HandleAllocPd \/ HandleCreateCq \/ HandleRegMr \/ HandleCreateQp
    PROVE  TypeOK'
<1>1. lookup \in [Wq -> SUBSET QpNumber]
  BY DEF ControlInv, TypeOK
<1>2. CASE HandleAllocPd \/ HandleCreateCq \/ HandleRegMr
  <2>1. \E type \in Type : HandleCreate(type)
    BY <1>2 DEF HandleAllocPd, HandleCreateCq, HandleRegMr, Type
  <2>2. lookup' = lookup
    BY <1>2 DEF HandleAllocPd, HandleCreateCq, HandleRegMr
  <2> QED
    BY <1>1, <2>1, <2>2, HandleCreateTyped
<1>3. CASE HandleCreateQp
  <2>1. HandleCreate("qp") /\ "qp" \in Type
    BY <1>3 DEF HandleCreateQp, Type
  <2>2. Asked("create") /\ req.obj.type = "qp"
    BY <2>1, HandlerFacts DEF HandleCreate
  <2>3. next["qp"] \in QpNumber /\ req.obj.wq \in Wq
    BY <2>2, NextQpFacts
  <2>4. lookup' \in [Wq -> SUBSET QpNumber]
    BY <1>1, <1>3, <2>3 DEF HandleCreateQp, Handed
  <2> QED
    BY <2>1, <2>4, HandleCreateTyped
<1> QED
  BY <1>2, <1>3

LEMMA DestroysTyped ==
    ASSUME ControlInv,
           HandleDeallocPd \/ HandleDestroyCq \/ HandleDestroyMr \/ HandleDestroyQp
    PROVE  TypeOK'
<1>1. PICK type \in Type : HandleDestroy(type)
  BY DEF HandleDeallocPd, HandleDestroyCq, HandleDestroyMr, HandleDestroyQp, Type
<1>2. Requested("destroy", type) /\ req \in Op /\ rep = NoOp
  BY <1>1, HandlerFacts DEF HandleDestroy
<1>3. TableTypes
  BY TypeParts DEF ControlInv
<1>4. lookup' \in [Wq -> SUBSET QpNumber] /\ dpuRts' \subseteq QpNumber
  <2>1. CASE HandleDestroyQp
    BY ZenonT(30), <1>3, <2>1 DEF HandleDestroyQp, Unlooked, TableTypes
  <2>2. CASE HandleDeallocPd \/ HandleDestroyCq \/ HandleDestroyMr
    BY <1>3, <2>2 DEF HandleDeallocPd, HandleDestroyCq, HandleDestroyMr, TableTypes
  <2> QED
    BY <2>1, <2>2
<1>5. /\ dpu' \in DpuState
      /\ contextList' = contextList /\ next' = next /\ linked' = linked
      /\ sendWqs' = sendWqs /\ dpuObjs' \subseteq dpuObjs
      /\ req' \in {req, NoOp} /\ rep' \in {req, rep}
  BY <1>1, FoundTyped DEF HandleDestroy, Reply, DpuState
<1>6. TableTypes'
  BY <1>3, <1>4, <1>5 DEF TableTypes
<1>7. req' \in Op \cup {NoOp} /\ rep' \in Op \cup {NoOp}
  BY <1>2, <1>5
<1> QED
  BY <1>2, <1>6, <1>7, HandlerTypes

LEMMA OthersTyped ==
    ASSUME ControlInv, HandleModifyQp \/ HandleOpenDevice \/ HandleCloseDevice
    PROVE  TypeOK'
<1>1. TableTypes
  BY TypeParts DEF ControlInv
<1>2. CASE HandleModifyQp
  <2>1. /\ Requested("modify", "qp") /\ req \in Op /\ rep = NoOp
        /\ Asked("modify")
    BY <1>2, HandlerFacts DEF HandleModifyQp
  <2>2. req.obj.number \in QpNumber
    BY <2>1, OwnQpFacts DEF ControlInv, ViewInv
  <2>3. /\ dpu' \in DpuState
        /\ dpuRts' \subseteq QpNumber
        /\ UNCHANGED <<contextList, dpuObjs, next, linked, sendWqs, lookup>>
        /\ req' \in {req, NoOp} /\ rep' \in {req, rep}
    BY <1>1, <1>2, <2>2, FoundTyped DEF HandleModifyQp, Reply, TableTypes, DpuState
  <2>4. TableTypes'
    BY <1>1, <2>3 DEF TableTypes
  <2>5. req' \in Op \cup {NoOp} /\ rep' \in Op \cup {NoOp}
    BY <2>1, <2>3
  <2> QED
    BY <2>1, <2>4, <2>5, HandlerTypes
<1>3. NumWqs \in Nat /\ NumWqs > 0
  BY ControlPathAssumption
<1>4. CASE LinkWq
  <2>1. /\ Requested("open", "ctx") /\ req \in Op /\ rep = NoOp /\ req.obj.ctx \in Ctx
    BY <1>4, HandlerFacts DEF LinkWq
  <2>2. linked \in Wq /\ linked + 1 \in 0 .. NumWqs
    <3>1. linked \in 0 .. NumWqs /\ linked < NumWqs
      BY <1>1, <1>4 DEF LinkWq, TableTypes
    <3> QED
      BY <1>3, <3>1 DEF Wq
  <2>3. TableTypes' /\ req' = req /\ rep' = rep
    BY <1>1, <1>4, <2>1, <2>2 DEF LinkWq, TableTypes
  <2> QED
    BY <2>1, <2>3, HandlerTypes
<1>5. CASE OpenDone
  <2>1. /\ Requested("open", "ctx") /\ req \in Op /\ rep = NoOp /\ req.obj.ctx \in Ctx
    BY <1>5, HandlerFacts DEF OpenDone
  <2>2. linked' \in 0 .. NumWqs
    BY <1>3, <1>5 DEF OpenDone
  <2>3. contextList' \in [Ctx -> {"none", "live", "freed"}]
    BY <1>1, <1>5, <2>1 DEF OpenDone, TableTypes
  <2>4. /\ UNCHANGED <<dpu, dpuObjs, dpuRts, next, sendWqs, lookup>>
        /\ req' = NoOp /\ rep' = req
    BY <1>5 DEF OpenDone, Reply
  <2>5. TableTypes'
    BY <1>1, <2>2, <2>3, <2>4 DEF TableTypes
  <2> QED
    BY <2>1, <2>4, <2>5, HandlerTypes
<1>6. CASE UnlinkWq
  <2>1. /\ Requested("close", "ctx") /\ req \in Op /\ rep = NoOp
    BY <1>6, HandlerFacts DEF UnlinkWq
  <2>2. linked \in Wq /\ linked + 1 \in 0 .. NumWqs
    <3>1. linked \in 0 .. NumWqs /\ linked < NumWqs
      BY <1>1, <1>6 DEF UnlinkWq, TableTypes
    <3> QED
      BY <1>3, <3>1 DEF Wq
  <2>3. /\ dpu' \in DpuState
        /\ UNCHANGED <<req, rep, contextList, dpuObjs, dpuRts, next, lookup>>
    BY <1>6 DEF UnlinkWq, CloseChecked, DpuState
  <2>4. sendWqs' \in [Wq -> SUBSET Ctx] /\ linked' \in 0 .. NumWqs
    BY <1>1, <1>6, <2>2 DEF UnlinkWq, Unlinked, TableTypes
  <2>5. TableTypes'
    BY <1>1, <2>3, <2>4 DEF TableTypes
  <2> QED
    BY <2>1, <2>3, <2>5, HandlerTypes
<1>7. CASE CloseDone
  <2>1. /\ Requested("close", "ctx") /\ req \in Op /\ rep = NoOp
    BY <1>7, HandlerFacts DEF CloseDone
  <2>2. contextList' \in [Ctx -> {"none", "live", "freed"}]
    BY <1>1, <1>7 DEF CloseDone, TableTypes
  <2>3. linked' \in 0 .. NumWqs
    BY <1>3, <1>7 DEF CloseDone
  <2>4. /\ UNCHANGED <<dpu, dpuObjs, dpuRts, next, sendWqs, lookup>>
        /\ req' = NoOp /\ rep' = req
    BY <1>7 DEF CloseDone, Reply
  <2>5. TableTypes'
    BY <1>1, <2>2, <2>3, <2>4 DEF TableTypes
  <2> QED
    BY <2>1, <2>4, <2>5, HandlerTypes
<1> QED
  BY <1>2, <1>4, <1>5, <1>6, <1>7 DEF HandleOpenDevice, HandleCloseDevice

\* A datapath thread changes its own state, the rings and the requests at most.
LEMMA DatapathTypes ==
    ASSUME ControlInv, Datapath, dpu' \in DpuState, ThreadTypes'
    PROVE  TypeOK'
<1>1. /\ UNCHANGED app /\ UNCHANGED arena /\ UNCHANGED <<ioctl, req, rep>>
      /\ UNCHANGED <<tables, sendWqs, lookup>>
  BY DEF Datapath
<1>2. TableTypes'
  BY <1>1, TypeParts DEF ControlInv, TableTypes, tables
<1> QED
  BY <1>1, <1>2, TypeParts, TypesKept DEF ControlInv

LEMMA ExecutedTyped ==
    ASSUME NEW q, NEW last, dpu = "running"
    PROVE  Executed(q, last) \in DpuState
BY DEF Executed, DpuState

LEMMA PacketTyped ==
    ASSUME ControlInv, NEW w \in Wq, Packet(w)
    PROVE  TypeOK'
<1>1. /\ ThreadTypes /\ dpu \in DpuState /\ pc \in [Wq -> Place]
      /\ hand \in [Wq -> QpNumber \cup {None}] /\ inbound \in [QpNumber -> Message]
      /\ sends \in [QpNumber -> Nat] /\ active \in [Wq -> SUBSET QpNumber]
      /\ peers \in SUBSET Object
  BY TypeParts DEF ControlInv, TableTypes, ThreadTypes
<1>2. Datapath /\ dpu = "running" /\ UNCHANGED <<peers, active, todo, ring>>
  BY PacketFacts DEF Datapath
<1>3. pc' \in [Wq -> Place]
  BY <1>1, PacketFacts
<1>4. \A place : Proceeds(w, place) => hand' \in [Wq -> QpNumber \cup {None}]
  BY <1>1 DEF Proceeds
<1>5. ASSUME NEW q, NEW place, Receives(w, q, place), q \in QpNumber \/ q \in lookup[w]
      PROVE  /\ hand' \in [Wq -> QpNumber \cup {None}] /\ UNCHANGED <<inbound, sends>>
             /\ dpu' \in DpuState
  <2>1. lookup[w] \subseteq QpNumber
    BY DEF ControlInv, TypeOK
  <2> QED
    BY <1>1, <1>5, <2>1 DEF Receives, DpuState
<1>6. ASSUME NEW q, NEW place, Receives(w, q, place)
      PROVE  /\ hand' \in [Wq -> QpNumber \cup {None}] /\ UNCHANGED <<inbound, sends>>
             /\ dpu' \in DpuState
  <2>1. CASE q \in lookup[w]
    BY <1>5, <1>6, <2>1
  <2>2. CASE q \notin lookup[w]
    BY <1>1, <1>6, <2>2 DEF Receives, DpuState
  <2> QED
    BY <2>1, <2>2
<1>7. /\ hand' \in [Wq -> QpNumber \cup {None}] /\ inbound' \in [QpNumber -> Message]
      /\ sends' \in [QpNumber -> Nat] /\ dpu' \in DpuState
  <2>1. CASE \/ \E o \in peers : RecvRequest(w, o)
             \/ \E q \in active[w] : RecvAck(w, q)
    BY <1>1, <1>6, <2>1 DEF RecvRequest, RecvAck
  <2>2. CASE Respond(w)
    <3>1. PICK last \in BOOLEAN, ack \in BOOLEAN :
            /\ dpu' = Executed(hand[w], last)
            /\ inbound' = [inbound EXCEPT ![hand[w]] = After(@, last)]
            /\ Proceeds(w, IF ack THEN "acking" ELSE "recv")
            /\ sends' = sends
      BY <2>2 DEF Respond
    <3>2. \A m \in Message : After(m, last) \in Message
      BY DEF After, Message
    <3>3. inbound' \in [QpNumber -> Message]
      BY <1>1, <3>1, <3>2
    <3> QED
      BY <1>1, <1>2, <1>4, <3>1, <3>3, ExecutedTyped
  <2>3. CASE SendAck(w)
    <3>1. /\ inbound' = [inbound EXCEPT ![hand[w]] =
                           IF @.state = "executed" THEN NoMessage ELSE @]
          /\ Proceeds(w, "recv") /\ sends' = sends /\ dpu' \in {dpu, "freed_receiver"}
      BY <2>3 DEF SendAck
    <3>2. NoMessage \in Message
      BY DEF NoMessage, Message
    <3>3. inbound' \in [QpNumber -> Message]
      BY <1>1, <3>1, <3>2
    <3> QED
      BY <1>1, <1>2, <1>4, <3>1, <3>3 DEF DpuState
  <2>4. CASE CompleteWqe(w)
    <3>1. /\ sends[hand[w]] > 0 /\ sends' = [sends EXCEPT ![hand[w]] = @ - 1]
          /\ Proceeds(w, "retiring") /\ inbound' = inbound
          /\ dpu' \in {dpu, "freed_sender", "freed_cq"}
      BY <2>4 DEF CompleteWqe
    <3>2. sends' \in [QpNumber -> Nat]
      <4>1. ASSUME NEW q \in QpNumber, q = hand[w]
            PROVE  sends[q] - 1 \in Nat
        <5>1. sends[q] \in Nat /\ sends[q] > 0
          BY <1>1, <3>1, <4>1
        <5> QED
          BY <5>1
      <4> QED
        BY <1>1, <3>1, <4>1
    <3> QED
      BY <1>1, <1>2, <1>4, <3>1, <3>2 DEF DpuState
  <2>5. CASE StepTail(w) \/ AckDone(w)
    <3>1. /\ \E place : Proceeds(w, place)
          /\ UNCHANGED <<sends, inbound>> /\ dpu' \in {dpu, "freed_sender"}
      BY <2>5 DEF StepTail, AckDone
    <3> QED
      BY <1>1, <1>2, <1>4, <3>1 DEF DpuState
  <2> QED
    BY <2>1, <2>2, <2>3, <2>4, <2>5 DEF Packet
<1>8. ThreadTypes'
  BY <1>1, <1>2, <1>3, <1>7 DEF ThreadTypes
<1> QED
  BY <1>2, <1>7, <1>8, DatapathTypes

LEMMA PeersTyped ==
    ASSUME ControlInv, Peers
    PROVE  TypeOK'
<1>1. /\ objs \in SUBSET Object /\ peers \in SUBSET Object
      /\ inbound \in [QpNumber -> Message] /\ ThreadTypes
  BY TypeParts DEF ControlInv, TypeOK
<1>2. UNCHANGED Others
  BY DEF Peers, StartPeer, StopPeer, PeerSends
<1>3. peers' \in SUBSET Object /\ inbound' \in [QpNumber -> Message]
  <2>1. CASE \E o \in objs : StartPeer(o)
    BY <1>1, <2>1 DEF StartPeer
  <2>2. CASE \E o \in peers : StopPeer(o)
    BY <1>1, <2>2 DEF StopPeer
  <2>3. ASSUME NEW o \in peers, PeerSends(o)
        PROVE  peers' = peers /\ inbound' \in [QpNumber -> Message]
    <3>1. PICK mr \in {None} \cup {p.number : p \in Objects(o.ctx, "mr")} :
            inbound' = [inbound EXCEPT ![o.number] = [state |-> "posted", mr |-> mr]]
      BY <2>3 DEF PeerSends
    <3>2. mr \in Nat \cup {None}
      BY <1>1, ObjectFields DEF Objects
    <3>3. [state |-> "posted", mr |-> mr] \in Message
      BY <3>2 DEF Message
    <3> QED
      BY <1>1, <2>3, <3>1, <3>3 DEF PeerSends
  <2> QED
    BY <1>1, <2>1, <2>2, <2>3 DEF Peers
<1>4. ThreadTypes'
  BY <1>1, <1>2, <1>3 DEF Others, threads, ThreadTypes
<1>5. AppTypes' /\ PoolTypes' /\ OpTypes' /\ TableTypes'
  BY <1>2, TypesKept DEF ControlInv, Others
<1> QED
  BY <1>4, <1>5, TypeParts

LEMMA ThreadTyped ==
    ASSUME ControlInv, NEW w \in Wq, Thread(w)
    PROVE  TypeOK'
<1>1. ThreadTypes /\ TableTypes /\ dpu \in DpuState
  BY TypeParts DEF ControlInv, TableTypes
<1>2. Datapath /\ peers' = peers
  BY ThreadFacts DEF Datapath
<1>3. CASE LoopLock(w)
  <2>1. ThreadTypes' /\ dpu' = dpu
    BY <1>1, <1>2, <1>3 DEF LoopLock, ThreadTypes, TableTypes, Place
  <2> QED
    BY <1>1, <1>2, <2>1, DatapathTypes
<1>4. CASE LoopUnlock(w) \/ RecvDone(w)
  <2>1. ThreadTypes' /\ dpu' = dpu
    BY <1>1, <1>2, <1>4 DEF LoopUnlock, RecvDone, ThreadTypes, Place
  <2> QED
    BY <1>1, <1>2, <2>1, DatapathTypes
<1>5. CASE HandleSend(w)
  <2>1. /\ active' = [active EXCEPT ![w] = {q \in @ : sends[q] > 0}]
        /\ pc' = [pc EXCEPT ![w] = "recv"]
        /\ todo' = todo /\ ring' = ring /\ sends' = sends /\ hand' = hand
        /\ inbound' = inbound /\ dpu' \in DpuState
    BY <1>1, <1>5 DEF HandleSend, DpuState
  <2>2. active' \in [Wq -> SUBSET QpNumber]
    BY <1>1, <2>1 DEF ThreadTypes
  <2>3. ThreadTypes'
    BY <1>1, <1>2, <2>1, <2>2 DEF ThreadTypes, Place
  <2> QED
    BY <1>2, <2>1, <2>3, DatapathTypes
<1>6. ASSUME NEW c \in Ctx, RingEmpty(w, c)
      PROVE  TypeOK'
  <2>1. /\ todo' = [todo EXCEPT ![w] = @ \ {c}]
        /\ active' = active /\ pc' = pc /\ ring' = ring /\ sends' = sends
        /\ hand' = hand /\ inbound' = inbound /\ dpu' \in DpuState
    BY <1>1, <1>6 DEF RingEmpty, DpuState
  <2>2. ThreadTypes'
    BY <1>1, <1>2, <2>1 DEF ThreadTypes
  <2> QED
    BY <1>1, <1>2, <2>1, <2>2, DatapathTypes
<1>7. ASSUME NEW c \in Ctx, TakeWqe(w, c)
      PROVE  TypeOK'
  <2>1. ring[c][w] \in Seq(QpNumber) /\ ring[c][w] # <<>>
    BY <1>1, <1>7 DEF ThreadTypes, TakeWqe
  <2>2. Head(ring[c][w]) \in QpNumber /\ Tail(ring[c][w]) \in Seq(QpNumber)
    BY <2>1
  <2> DEFINE q == Head(ring[c][w])
             rest == Tail(ring[c][w])
  <2>3. pc' = pc /\ todo' = todo /\ hand' = hand /\ inbound' = inbound
    BY <1>7 DEF TakeWqe
  <2>4. /\ dpu' \in DpuState
        /\ \/ active' = active
           \/ active' = [active EXCEPT ![w] = @ \cup {q}]
        /\ sends' = sends \/ sends' = [sends EXCEPT ![q] = @ + 1]
        /\ ring' = ring \/ ring' = [ring EXCEPT ![c][w] = rest]
    BY <1>1, <1>7 DEF TakeWqe, DpuState
  <2> HIDE DEF q, rest
  <2>5. q \in QpNumber /\ rest \in Seq(QpNumber)
    BY <2>2 DEF q, rest
  <2>6. /\ active \in [Wq -> SUBSET QpNumber] /\ sends \in [QpNumber -> Nat]
         /\ ring \in [Ctx -> [Wq -> Seq(QpNumber)]]
    BY <1>1 DEF ThreadTypes
  <2>7. active' \in [Wq -> SUBSET QpNumber]
    <3>1. active[w] \cup {q} \in SUBSET QpNumber
      BY <2>5, <2>6
    <3> QED
      BY <2>4, <2>6, <3>1
  <2>8. sends' \in [QpNumber -> Nat]
    <3>1. sends[q] + 1 \in Nat
      BY <2>5, <2>6
    <3> QED
      BY <2>4, <2>6, <3>1
  <2>9. ring' \in [Ctx -> [Wq -> Seq(QpNumber)]]
    <3>1. CASE ring' = [ring EXCEPT ![c][w] = rest]
      BY <2>5, <2>6, <3>1
    <3> QED
      BY <2>4, <2>6, <3>1
  <2>10. ThreadTypes'
    BY <1>1, <1>2, <2>3, <2>7, <2>8, <2>9 DEF ThreadTypes
  <2> QED
    BY <1>2, <2>4, <2>10, DatapathTypes
<1>8. CASE Packet(w)
  BY <1>8, PacketTyped
<1> QED
  BY <1>3, <1>4, <1>5, <1>6, <1>7, <1>8 DEF Thread

LEMMA ControlTyped ==
    ASSUME ControlInv, [Next]_vars
    PROVE  TypeOK'
<1>1. CASE Host
  <2>1. ASSUME NEW c \in Ctx, CreateCq(c)
        PROVE  TypeOK'
    BY <2>1, CreateCqTyped
  <2>2. ASSUME NEW c \in Ctx, NEW w \in Wq, CreateQp(c, w)
        PROVE  TypeOK'
    BY <2>2, CreateQpTyped
  <2>3. ASSUME NEW o \in objs, Post(o) \/ Poll(o)
        PROVE  TypeOK'
    BY <2>3, PostTyped
  <2>4. CASE \/ \E c \in Ctx : OpenDevice(c) \/ CloseDevice(c) \/ AllocPd(c) \/ RegMr(c)
             \/ \E o \in objs : ModifyQp(o) \/ Destroy(o)
    BY <2>4, CallsTyped
  <2>5. CASE OpenReturns \/ CloseReturns \/ CreateReturns \/ DestroyReturns
             \/ ModifyReturns \/ IoctlFails
    BY <2>5, ReturnsTyped, IoctlFailsTyped
  <2> QED
    BY <1>1, <2>1, <2>2, <2>3, <2>4, <2>5 DEF Host
<1>2. CASE Handler
  BY <1>2, CreatesTyped, DestroysTyped, OthersTyped DEF Handler
<1>3. CASE Peers \/ \E w \in Wq : Thread(w)
  BY <1>3, ThreadTyped, PeersTyped
<1>4. CASE UNCHANGED vars
  <2>1. /\ UNCHANGED app /\ UNCHANGED arena /\ UNCHANGED <<ioctl, req, rep>>
        /\ UNCHANGED <<dpu, tables, sendWqs, lookup>> /\ UNCHANGED <<threads, ring, net>>
    BY <1>4 DEF vars
  <2> QED
    BY <2>1, TypeParts, TypesKept DEF ControlInv
<1> QED
  BY <1>1, <1>2, <1>3, <1>4 DEF Next

-----------------------------------------------------------------------------
(* Any number of contexts *)

LEMMA ControlInit ==
    ASSUME Init
    PROVE  ControlInv
<1>1. /\ NumWqs \in Nat /\ MaxOutstanding \in Nat
  BY ControlPathAssumption
<1>2. AppTypes
  <2>1. 0 \in 0 .. MaxOutstanding
    BY <1>1
  <2> QED
    BY <2>1 DEF Init, AppTypes
<1>3. PoolTypes
  BY DEF Init, PoolTypes
<1>4. OpTypes
  BY DEF Init, OpTypes
<1>5. TableTypes
  <2>1. 0 \in 0 .. NumWqs
    BY <1>1
  <2> QED
    BY <2>1 DEF Init, TableTypes, DpuState
<1>6. ThreadTypes
  <2>1. <<>> \in Seq(QpNumber)
    OBVIOUS
  <2> QED
    BY <2>1 DEF Init, ThreadTypes, Place, Message, NoMessage
<1>7. TypeOK
  BY <1>2, <1>3, <1>4, <1>5, <1>6, TypeParts
<1>8. req = NoOp /\ rep = NoOp /\ waiting = FALSE /\ objs = {} /\ dpuObjs = {} /\ hostRts = {}
      /\ dpuRts = {}
  BY DEF Init
<1>9. \A k : ~Asked(k) /\ ~Answered(k)
  BY <1>8 DEF Asked, Answered
<1>10. ChannelInv
  BY <1>8 DEF ChannelInv
<1>11. ViewInv
  BY <1>8, <1>9 DEF ViewInv, HostViewLive
<1>12. ObjectInv
  BY <1>8, <1>9 DEF ObjectInv
<1>13. \A c \in Ctx : live[c] = {}
  BY DEF Init
<1>14. MemoryInv
  BY <1>8, <1>9, <1>13 DEF MemoryInv, ArenaInv, RingsOwned
<1> QED
  BY <1>7, <1>10, <1>11, <1>12, <1>14 DEF ControlInv

\* What holds for any number of contexts.
THEOREM ControlInvariance == Spec => []ControlInv
<1>1. Init => ControlInv
  BY ControlInit
<1>2. ControlInv /\ [Next]_vars => ControlInv'
  BY ControlKeeps, ControlTyped DEF ControlInv
<1> QED
  BY <1>1, <1>2, PTL DEF Spec

\* Every variable of the control path keeps its type: the numbers the DPU hands
\* out stay below their limits, the arenas within their bytes.
THEOREM ControlTypeCorrect == Spec => []TypeOK
<1>1. ControlInv => TypeOK
  BY DEF ControlInv
<1> QED
  BY <1>1, ControlInvariance, PTL

\* What the application holds the DPU has, with the same memory, completion
\* queues and thread, whatever ioctl fails and whenever (smartns_dv.cpp and
\* controlpath.cpp keep their tables apart).
THEOREM HostViewCorrect == Spec => []HostViewLive
<1>1. ControlInv => HostViewLive
  BY DEF ControlInv, ViewInv
<1> QED
  BY <1>1, ControlInvariance, PTL

\* The memory the DPU uses for an object stays allocated, to that object alone,
\* from the create call to the reply of the destroy call.
THEOREM RingsStayOwned == Spec => []RingsOwned
<1>1. ControlInv => RingsOwned
  BY DEF ControlInv, MemoryInv
<1> QED
  BY <1>1, ControlInvariance, PTL

-----------------------------------------------------------------------------
(* What objects refer to, what threads know, and which requests there are *)

\* The application has the object with this number and type.
Has(c, id) == \E p \in objs : p.ctx = c /\ IdOf(p) = id

\* What an object refers to is there, and what a request to create one does.
UsesInv ==
    /\ \A o \in dpuObjs : \A id \in o.uses : Has(o.ctx, id)
    /\ Asked("create") =>
         /\ \A id \in req.obj.uses : Has(req.obj.ctx, id)
         /\ req.obj.type = "pd" => ~PdExists(req.obj.ctx)

\* A thread knows the queue pairs of its send rings, and no others.
LookupInv ==
    /\ \A o \in dpuObjs : o.type = "qp" => o.number \in lookup[o.wq]
    /\ \A w \in Wq : \A q \in lookup[w] :
         \E o \in dpuObjs : o.type = "qp" /\ o.number = q /\ o.wq = w

\* The application has the queue pair q, of thread w.
HasQp(q, w) == \E o \in objs : o.type = "qp" /\ o.number = q /\ o.wq = w

\* Requests are of queue pairs the application has, and no more are on the way
\* than it has not polled.
RequestsInv ==
    /\ \A c \in Ctx, w \in Wq : \A i \in DOMAIN ring[c][w] :
         \E o \in objs : /\ o.type = "qp" /\ o.number = ring[c][w][i]
                         /\ o.ctx = c /\ o.wq = w
    /\ \A q \in QpNumber : sends[q] > 0 => \E w \in Wq : HasQp(q, w)
    /\ \A o \in objs : o.type = "qp" =>
         outstanding[o.number] >= sends[o.number] + Unfetched(o)

LifeInv == ControlInv /\ UsesInv /\ LookupInv /\ RequestsInv

\* The objects on both sides and the look-up tables of the threads are as they
\* were, and no request to create an object is new.
ObjectsKept ==
    /\ UNCHANGED <<objs, dpuObjs, lookup>>
    /\ Asked("create")' => Asked("create") /\ req' = req

\* A call to create an object that refers to what the application has.
CreateCalled ==
    /\ UNCHANGED <<objs, hostCtx, dpuObjs, lookup>>
    /\ MayCall
    /\ \E op \in Op :
         /\ Call(op)
         /\ op.kind = "create"
         /\ \A id \in op.obj.uses : Has(op.obj.ctx, id)
         /\ op.obj.type = "pd" => Objects(op.obj.ctx, "pd") = {}

LEMMA CallMoves ==
    ASSUME ControlInv, MayCall, UNCHANGED objs, NEW op \in Op, Call(op)
    PROVE  /\ UNCHANGED <<objs, dpuObjs, lookup>>
           /\ op.kind # "create" => ObjectsKept
<1>1. dpuObjs' = dpuObjs /\ (Asked("create")' <=> op.kind = "create")
  BY CallFacts
<1>2. lookup' = lookup
  BY DEF Call
<1> QED
  BY <1>1, <1>2 DEF ObjectsKept

LEMMA CreateMoves ==
    ASSUME ControlInv, NEW c \in Ctx,
           AllocPd(c) \/ RegMr(c) \/ \E w \in Wq : CreateQp(c, w)
    PROVE  CreateCalled
<1>1. CASE AllocPd(c)
  <2>1. /\ MayCall /\ objs' = objs /\ hostCtx' = hostCtx
        /\ Create(c, "pd", {}, None, {})
        /\ Objects(c, "pd") = {}
    BY <1>1 DEF AllocPd, app
  <2>2. "pd" \in Type /\ {} \in SUBSET Id /\ None \in Wq \cup {None} /\ {} \in SUBSET Block
    BY DEF Type
  <2>3. PICK op \in Op : /\ Call(op) /\ op.kind = "create" /\ op.obj.uses = {}
                         /\ op.obj.ctx = c
    BY <2>1, <2>2, CreateFacts
  <2> QED
    BY <2>1, <2>3, CallMoves DEF CreateCalled
<1>2. CASE RegMr(c)
  <2>1. MayCall /\ objs' = objs /\ hostCtx' = hostCtx
    BY <1>2 DEF RegMr, app
  <2>2. PICK pd \in Objects(c, "pd") : Create(c, "mr", {IdOf(pd)}, None, {})
    BY <1>2 DEF RegMr
  <2>3. {IdOf(pd)} \in SUBSET Id /\ Has(c, IdOf(pd))
    BY <2>2, OwnObjects DEF Objects, Has
  <2>4. "mr" \in Type /\ None \in Wq \cup {None} /\ {} \in SUBSET Block
    BY DEF Type
  <2>5. PICK op \in Op : /\ Call(op) /\ op.kind = "create" /\ op.obj.uses = {IdOf(pd)}
                         /\ op.obj.ctx = c /\ op.obj.type = "mr"
    BY <2>2, <2>3, <2>4, CreateFacts
  <2> QED
    BY <2>1, <2>3, <2>5, CallMoves DEF CreateCalled
<1>3. ASSUME NEW w \in Wq, CreateQp(c, w)
      PROVE  CreateCalled
  <2>1. MayCall /\ objs' = objs /\ hostCtx' = hostCtx
    BY <1>3 DEF CreateQp, app
  <2>2. PICK pd \in Objects(c, "pd"), sendCq \in Objects(c, "cq"),
             recvCq \in Objects(c, "cq") :
          LET uses == {IdOf(pd), IdOf(sendCq), IdOf(recvCq)}
              ringBlock == Allocated(free[c], RingSize, Page)
          IN  IF Fitting(free[c], RingSize, Page) # {}
                THEN /\ free' = [free EXCEPT ![c] = FreeAfterAlloc(@, RingSize, Page)]
                     /\ live' = [live EXCEPT ![c] = @ \cup {ringBlock}]
                     /\ Create(c, "qp", uses, w, {ringBlock})
                ELSE /\ Create(c, "qp", uses, w, {})
                     /\ UNCHANGED arena
    BY <1>3 DEF CreateQp
  <2> DEFINE uses == {IdOf(pd), IdOf(sendCq), IdOf(recvCq)}
             b == Allocated(free[c], RingSize, Page)
  <2>3. uses \in SUBSET Id /\ \A id \in uses : Has(c, id)
    BY <2>2, OwnObjects DEF Objects, Has
  <2>4. PICK blocks \in SUBSET Block : Create(c, "qp", uses, w, blocks)
    <3>1. CASE Fitting(free[c], RingSize, Page) # {}
      <4>1. /\ free[c] \subseteq Nat /\ RingSize \in Nat /\ RingSize > 0
            /\ Page \in Nat /\ Page > 0
        BY ArenaTypes, ControlPathAssumption DEF ControlInv
      <4>2. b \in Block
        BY <3>1, <4>1, AllocSound
      <4>3. Create(c, "qp", uses, w, {b})
        BY <2>2, <3>1
      <4> QED
        BY <4>2, <4>3
    <3>2. CASE Fitting(free[c], RingSize, Page) = {}
      <4>1. Create(c, "qp", uses, w, {}) /\ {} \in SUBSET Block
        BY <2>2, <3>2
      <4> QED
        BY <4>1
    <3> QED
      BY <3>1, <3>2
  <2> HIDE DEF uses
  <2>5. "qp" \in Type /\ w \in Wq \cup {None}
    BY DEF Type
  <2>6. PICK op \in Op : /\ Call(op) /\ op.kind = "create" /\ op.obj.uses = uses
                         /\ op.obj.ctx = c /\ op.obj.type = "qp"
    BY <2>3, <2>4, <2>5, CreateFacts
  <2> QED
    BY <2>1, <2>3, <2>6, CallMoves DEF CreateCalled
<1> QED
  BY <1>1, <1>2, <1>3

\* A failed assertion of the host library leaves everything else alone.
LEMMA CreateCqMoves ==
    ASSUME ControlInv, NEW c \in Ctx, CreateCq(c)
    PROVE  \/ CreateCalled
           \/ UNCHANGED <<objs, hostCtx, req, rep, tables, sendWqs, lookup, threads>>
<1> DEFINE b == Allocated(free[c], RingSize, Page)
           rest == FreeAfterAlloc(free[c], RingSize, Page)
           d == Allocated(rest, 1, 1)
<1>1. CASE ~(Fitting(free[c], RingSize, Page) # {} /\ Fitting(rest, 1, 1) # {})
  BY <1>1 DEF CreateCq
<1>2. CASE Fitting(free[c], RingSize, Page) # {} /\ Fitting(rest, 1, 1) # {}
  <2>1. Create(c, "cq", {}, None, {b, d}) /\ MayCall /\ UNCHANGED app
    BY <1>2 DEF CreateCq
  <2>2. free[c] \subseteq Nat /\ RingSize \in Nat /\ RingSize > 0 /\ Page \in Nat /\ Page > 0
    BY ArenaTypes, ControlPathAssumption DEF ControlInv
  <2>3. b \in Block /\ rest \subseteq free[c]
    BY <1>2, <2>2, AllocSound
  <2>4. rest \subseteq Nat /\ Fitting(rest, 1, 1) # {} /\ 1 \in Nat /\ 1 > 0
    BY <1>2, <2>2, <2>3
  <2> HIDE DEF b, rest
  <2>5. d \in Block
    BY <2>4, AllocSound
  <2> HIDE DEF d
  <2>6. /\ {b, d} \in SUBSET Block /\ "cq" \in Type /\ {} \in SUBSET Id
        /\ None \in Wq \cup {None}
    BY <2>3, <2>5 DEF Type
  <2>7. PICK op \in Op : /\ Call(op) /\ op.kind = "create" /\ op.obj.uses = {}
                         /\ op.obj.type = "cq"
    BY <2>1, <2>6, CreateFacts
  <2>8. objs' = objs /\ hostCtx' = hostCtx
    BY <2>1 DEF app
  <2> QED
    BY <2>1, <2>7, <2>8, CallMoves DEF CreateCalled
<1> QED
  BY <1>1, <1>2

LEMMA HostMoves ==
    ASSUME ControlInv, Host
    PROVE  ObjectsKept \/ CreateCalled \/ CreateReturns \/ \E o \in objs : Destroy(o)
<1>1. ASSUME NEW c \in Ctx, OpenDevice(c) \/ CloseDevice(c)
      PROVE  ObjectsKept
  <2>1. MayCall /\ objs' = objs
    BY <1>1 DEF OpenDevice, CloseDevice, app
  <2>2. Context(c) \in Object
    BY ContextFacts
  <2>3. /\ [kind |-> "open", obj |-> Context(c)] \in Op
        /\ [kind |-> "close", obj |-> Context(c)] \in Op
    BY <2>2 DEF Op
  <2>4. \E op \in Op : Call(op) /\ op.kind # "create"
    BY <1>1, <2>3 DEF OpenDevice, CloseDevice
  <2> QED
    BY <2>1, <2>4, CallMoves
<1>2. ASSUME NEW c \in Ctx, AllocPd(c) \/ RegMr(c) \/ \E w \in Wq : CreateQp(c, w)
      PROVE  CreateCalled
  BY <1>2, CreateMoves
<1>3. ASSUME NEW c \in Ctx, CreateCq(c)
      PROVE  ObjectsKept \/ CreateCalled
  <2>1. CASE UNCHANGED <<objs, req, tables, lookup>>
    BY <2>1 DEF ObjectsKept, tables, Asked
  <2> QED
    BY <1>3, <2>1, CreateCqMoves
<1>4. ASSUME NEW o \in objs, ModifyQp(o)
      PROVE  ObjectsKept
  <2>1. MayCall /\ objs' = objs
    BY <1>4 DEF ModifyQp, app
  <2>2. o \in Object
    BY OwnObjects
  <2>3. [kind |-> "modify", obj |-> o] \in Op
    BY <2>2 DEF Op
  <2>4. \E op \in Op : Call(op) /\ op.kind # "create"
    BY <1>4, <2>3 DEF ModifyQp
  <2> QED
    BY <2>1, <2>4, CallMoves
<1>5. ASSUME NEW o \in objs, Post(o) \/ Poll(o)
      PROVE  ObjectsKept
  BY <1>5 DEF Post, Poll, tables, ObjectsKept, Asked
<1>6. CASE OpenReturns \/ CloseReturns \/ DestroyReturns \/ ModifyReturns
  <2>1. PICK kind : Replied(kind)
    BY <1>6 DEF OpenReturns, CloseReturns, DestroyReturns, ModifyReturns
  <2>2. UNCHANGED <<tables, lookup, req>>
    BY <2>1 DEF Replied
  <2>3. objs' = objs
    BY <1>6 DEF OpenReturns, CloseReturns, DestroyReturns, ModifyReturns
  <2> QED
    BY <2>2, <2>3 DEF ObjectsKept, tables, Asked
<1>7. CASE IoctlFails
  BY <1>7 DEF IoctlFails, ObjectsKept, app, tables, Asked
<1> QED
  BY <1>1, <1>2, <1>3, <1>4, <1>5, <1>6, <1>7 DEF Host

\* A create handler that succeeds, and a destroy handler that does.
Makes(type) ==
    /\ HandleCreate(type)
    /\ dpu' = "running"
    /\ lookup' = IF type = "qp" THEN Handed(req.obj.wq, next["qp"]) ELSE lookup

Removes(type) ==
    /\ HandleDestroy(type)
    /\ dpu' = "running"
    /\ lookup' = IF type = "qp" THEN Unlooked(req.obj.wq, req.obj.number) ELSE lookup

LEMMA DpuMoves ==
    ASSUME ControlInv, Handler \/ Peers \/ \E w \in Wq : Thread(w)
    PROVE  ObjectsKept \/ \E type \in Type : Makes(type) \/ Removes(type)
<1>1. CASE HandleAllocPd \/ HandleRegMr \/ HandleCreateCq \/ HandleCreateQp
  <2>1. PICK type \in Type :
          /\ HandleCreate(type)
          /\ lookup' = IF type = "qp" /\ dpu' = "running"
                         THEN Handed(req.obj.wq, next["qp"]) ELSE lookup
    BY <1>1 DEF HandleAllocPd, HandleRegMr, HandleCreateCq, HandleCreateQp, Type
  <2>2. CASE dpu' = "running"
    BY <2>1, <2>2 DEF Makes
  <2>3. CASE dpu' # "running"
    <3>1. objs' = objs
      BY <2>1 DEF HandleCreate, Requested, app
    <3> QED
      BY <2>1, <2>3, <3>1 DEF HandleCreate, ObjectsKept, Asked
  <2> QED
    BY <2>2, <2>3
<1>2. CASE HandleDeallocPd \/ HandleDestroyMr \/ HandleDestroyCq \/ HandleDestroyQp
  <2>1. PICK type \in Type :
          /\ HandleDestroy(type)
          /\ lookup' = IF type = "qp" /\ dpu' = "running"
                         THEN Unlooked(req.obj.wq, req.obj.number) ELSE lookup
    BY <1>2 DEF HandleDeallocPd, HandleDestroyMr, HandleDestroyCq, HandleDestroyQp, Type
  <2>2. CASE dpu' = "running"
    BY <2>1, <2>2 DEF Removes
  <2>3. CASE dpu' # "running"
    <3>1. objs' = objs
      BY <2>1 DEF HandleDestroy, Requested, app
    <3> QED
      BY <2>1, <2>3, <3>1 DEF HandleDestroy, ObjectsKept, Asked
  <2> QED
    BY <2>2, <2>3
<1>3. CASE HandleModifyQp \/ LinkWq \/ OpenDone \/ UnlinkWq \/ CloseDone
  <2>1. UNCHANGED <<objs, dpuObjs, lookup>>
    BY <1>3 DEF HandleModifyQp, LinkWq, OpenDone, UnlinkWq, CloseDone, Requested, app
  <2>2. req' = req \/ req' = NoOp
    BY <1>3 DEF HandleModifyQp, LinkWq, OpenDone, UnlinkWq, CloseDone, Reply
  <2> QED
    BY <2>1, <2>2 DEF ObjectsKept, Asked
<1>4. ASSUME NEW w \in Wq, Thread(w)
      PROVE  ObjectsKept
  BY <1>4, ThreadFacts DEF Datapath, ObjectsKept, app, tables, Asked
<1>5. CASE Peers
  BY <1>5 DEF Peers, StartPeer, StopPeer, PeerSends, Others, ObjectsKept, app, tables,
     Asked
<1> QED
  BY <1>1, <1>2, <1>3, <1>4, <1>5 DEF Handler, HandleOpenDevice, HandleCloseDevice

LEMMA Moves ==
    ASSUME ControlInv, [Next]_vars
    PROVE  \/ ObjectsKept \/ CreateCalled \/ CreateReturns
           \/ \E o \in objs : Destroy(o)
           \/ \E type \in Type : Makes(type) \/ Removes(type)
<1>1. CASE UNCHANGED vars
  <2>1. UNCHANGED <<objs, dpuObjs, lookup, req>>
    BY <1>1 DEF vars, app, tables
  <2> QED
    BY <2>1 DEF ObjectsKept, Asked
<1> QED
  BY <1>1, HostMoves, DpuMoves DEF Next

LEMMA MakesFacts ==
    ASSUME ControlInv, NEW type \in Type, Makes(type)
    PROVE  \E m \in Object :
             /\ m = Made /\ m.type = type /\ m.number = next[type]
             /\ m.ctx = req.obj.ctx /\ m.uses = req.obj.uses /\ m.wq = req.obj.wq
             /\ dpuObjs' = dpuObjs \cup {m} /\ objs' = objs
             /\ \A o \in dpuObjs : IdOf(o) # IdOf(m)
             /\ Asked("create") /\ req.obj.type = type
             /\ \A k : ~Asked(k)'
             /\ type = "qp" => m.number \in QpNumber /\ m.wq \in Wq
             /\ lookup' = IF type = "qp" THEN Handed(m.wq, m.number) ELSE lookup
<1>1. /\ req # NoOp /\ req \in Op /\ req.obj.type = type
      /\ Asked("create") /\ objs' = objs
  BY HandlerFacts DEF Makes, HandleCreate
<1>2. PICK m \in Object :
        /\ m = Made /\ m.type = type /\ m.ctx = req.obj.ctx /\ m.number = next[type]
        /\ m.uses = req.obj.uses /\ m.wq = req.obj.wq
        /\ IdOf(m) = <<type, next[type]>>
  BY <1>1, MadeFacts DEF ControlInv
<1>3. dpuObjs' = dpuObjs \cup {m} /\ req' = NoOp
  BY <1>2 DEF Makes, HandleCreate, Entered, Reply
<1>4. \A k : ~Asked(k)'
  BY <1>3 DEF Asked
<1>5. \A o \in dpuObjs : IdOf(o) # IdOf(m)
  <2>1. next[type] \in Nat
    BY DEF ControlInv, TypeOK
  <2>2. \A o \in dpuObjs : o.type = type => o.number # next[type]
    BY <2>1 DEF ControlInv, ObjectInv, Registered
  <2> QED
    BY <1>2, <2>2 DEF IdOf
<1>6. type = "qp" => m.number \in QpNumber /\ m.wq \in Wq
  BY <1>1, <1>2, NextQpFacts
<1>7. lookup' = IF type = "qp" THEN Handed(m.wq, m.number) ELSE lookup
  BY <1>2 DEF Makes
<1> QED
  BY <1>1, <1>2, <1>3, <1>4, <1>5, <1>6, <1>7

LEMMA RemovesFacts ==
    ASSUME ControlInv, NEW type \in Type, Removes(type)
    PROVE  \E o \in dpuObjs :
             /\ o \notin objs /\ o.type = type
             /\ dpuObjs' = dpuObjs \ {o} /\ objs' = objs /\ objs \subseteq dpuObjs'
             /\ \A k : ~Asked(k)'
             /\ lookup' = IF type = "qp" THEN Unlooked(o.wq, o.number) ELSE lookup
<1>1. Asked("destroy") /\ req.obj.type = type /\ objs' = objs
  BY HandlerFacts DEF Removes, HandleDestroy
<1>2. req.obj \in dpuObjs /\ req.obj \notin objs /\ objs \subseteq dpuObjs
  BY <1>1 DEF ControlInv, ViewInv, HostViewLive
<1>3. dpuObjs' = dpuObjs \ {req.obj} /\ req' = NoOp
  BY DEF Removes, HandleDestroy, Reply
<1>4. \A k : ~Asked(k)'
  BY <1>3 DEF Asked
<1>5. lookup' = IF type = "qp" THEN Unlooked(req.obj.wq, req.obj.number) ELSE lookup
  BY DEF Removes
<1> QED
  BY <1>1, <1>2, <1>3, <1>4, <1>5

LEMMA DestroyFacts ==
    ASSUME ControlInv, NEW o \in objs, Destroy(o)
    PROVE  /\ o \in Object /\ o \in dpuObjs /\ dpuObjs = objs
           /\ objs' = objs \ {o} /\ dpuObjs' = dpuObjs
           /\ ~Asked("create")'
           /\ Destroyable(o)
           /\ UNCHANGED <<lookup, ring, sends, outstanding, active>>
<1>1. o \in Object /\ o \in dpuObjs
  BY OwnObjects
<1>2. [kind |-> "destroy", obj |-> o] \in Op
  BY <1>1 DEF Op
<1>3. MayCall /\ \E op \in Op : op.kind = "destroy" /\ Call(op)
  BY <1>2 DEF Destroy
<1>4. dpuObjs = objs /\ dpuObjs' = dpuObjs /\ ~Asked("create")'
  <2>1. PICK op \in Op : op.kind = "destroy" /\ Call(op)
    BY <1>3
  <2>2. "create" # op.kind
    BY <2>1
  <2> QED
    BY <1>3, <2>1, <2>2, CallFacts
<1>5. UNCHANGED <<lookup, ring, sends, active>>
  BY <1>3 DEF Call, threads
<1> QED
  BY <1>1, <1>4, <1>5 DEF Destroy

LEMMA CreateReturnsFacts ==
    ASSUME ControlInv, CreateReturns
    PROVE  /\ rep.obj \in dpuObjs /\ rep.obj \notin objs
           /\ objs' = objs \cup {rep.obj} /\ dpuObjs' = dpuObjs
           /\ ~Asked("create")'
           /\ UNCHANGED <<lookup, ring, sends, outstanding, active>>
<1>1. Answered("create") /\ dpuObjs' = dpuObjs /\ ~Asked("create")'
  BY ReplyFacts DEF CreateReturns
<1>2. rep.obj \in dpuObjs /\ rep.obj \notin objs
  BY <1>1 DEF ControlInv, ViewInv
<1>3. /\ objs' = objs \cup {rep.obj}
      /\ UNCHANGED <<lookup, ring, sends, outstanding, active>>
  BY DEF CreateReturns, Replied, threads
<1> QED
  BY <1>1, <1>2, <1>3

\* The discipline of the application keeps what objects refer to alive.
LEMMA UsesKept ==
    ASSUME LifeInv, [Next]_vars
    PROVE  UsesInv'
<1>1. /\ ControlInv
      /\ \A o \in dpuObjs : \A id \in o.uses : Has(o.ctx, id)
      /\ Asked("create") =>
           /\ \A id \in req.obj.uses : Has(req.obj.ctx, id)
           /\ req.obj.type = "pd" => ~PdExists(req.obj.ctx)
  BY DEF LifeInv, UsesInv
<1>2. CASE ObjectsKept
  <2>1. objs' = objs /\ dpuObjs' = dpuObjs
    BY <1>2 DEF ObjectsKept
  <2>2. \A c, id : Has(c, id)' <=> Has(c, id)
    BY <2>1 DEF Has, IdOf
  <2>3. \A c : PdExists(c)' <=> PdExists(c)
    BY <2>1 DEF PdExists
  <2>4. Asked("create")' => Asked("create") /\ req' = req
    BY <1>2 DEF ObjectsKept
  <2> QED
    BY <1>1, <2>1, <2>2, <2>3, <2>4 DEF UsesInv, Has, PdExists, IdOf
<1>3. CASE CreateCalled
  <2>1. MayCall /\ objs' = objs /\ dpuObjs' = dpuObjs
    BY <1>3 DEF CreateCalled
  <2>2. PICK op \in Op :
          /\ Call(op)
          /\ op.kind = "create"
          /\ \A id \in op.obj.uses : Has(op.obj.ctx, id)
          /\ op.obj.type = "pd" => Objects(op.obj.ctx, "pd") = {}
    BY <1>3 DEF CreateCalled
  <2>3. dpuObjs = objs /\ req' = op
    BY <1>1, <2>1, <2>2, CallFacts
  <2>4. op.obj.type = "pd" =>
          ~\E o \in dpuObjs' : o.ctx = op.obj.ctx /\ o.type = "pd"
    BY <2>1, <2>2, <2>3 DEF Objects
  <2>5. \A id \in op.obj.uses : \E p \in objs' : p.ctx = op.obj.ctx /\ IdOf(p) = id
    BY <2>1, <2>2 DEF Has
  <2>6. \A o \in dpuObjs' : \A id \in o.uses : \E p \in objs' : p.ctx = o.ctx /\ IdOf(p) = id
    BY <1>1, <2>1 DEF Has
  <2> QED
    BY <2>3, <2>4, <2>5, <2>6 DEF UsesInv, Has, PdExists, IdOf
<1>4. CASE CreateReturns
  <2>1. objs \subseteq objs' /\ dpuObjs' = dpuObjs /\ ~Asked("create")'
    BY <1>1, <1>4, CreateReturnsFacts
  <2>2. \A o \in dpuObjs' : \A id \in o.uses : \E p \in objs' : p.ctx = o.ctx /\ IdOf(p) = id
    BY <1>1, <2>1 DEF Has
  <2> QED
    BY <2>1, <2>2 DEF UsesInv, Has, IdOf
<1>5. ASSUME NEW d \in objs, Destroy(d)
      PROVE  UsesInv'
  <2>1. /\ dpuObjs = objs /\ objs' = objs \ {d} /\ dpuObjs' = dpuObjs
        /\ ~Asked("create")' /\ ~InUse(d)
    BY <1>1, <1>5, DestroyFacts DEF Destroyable
  <2>2. ASSUME NEW o \in dpuObjs, NEW id \in o.uses
        PROVE  \E p \in objs' : p.ctx = o.ctx /\ IdOf(p) = id
    <3>1. PICK p \in objs : p.ctx = o.ctx /\ IdOf(p) = id
      BY <1>1 DEF Has
    <3>2. p # d
      BY <2>1, <3>1 DEF InUse
    <3> QED
      BY <2>1, <3>1, <3>2
  <2> QED
    BY <2>1, <2>2 DEF UsesInv, Has, IdOf
<1>6. ASSUME NEW type \in Type, Makes(type)
      PROVE  UsesInv'
  <2>1. PICK m \in Object :
          /\ m.ctx = req.obj.ctx /\ m.uses = req.obj.uses
          /\ dpuObjs' = dpuObjs \cup {m} /\ objs' = objs
          /\ Asked("create") /\ ~Asked("create")'
    BY <1>1, <1>6, MakesFacts
  <2>2. \A o \in dpuObjs' : \A id \in o.uses : \E p \in objs' : p.ctx = o.ctx /\ IdOf(p) = id
    BY <1>1, <2>1 DEF Has
  <2> QED
    BY <2>1, <2>2 DEF UsesInv, Has, IdOf
<1>7. ASSUME NEW type \in Type, Removes(type)
      PROVE  UsesInv'
  <2>1. /\ dpuObjs' \subseteq dpuObjs /\ objs' = objs /\ ~Asked("create")'
    BY <1>1, <1>7, RemovesFacts
  <2>2. \A o \in dpuObjs' : \A id \in o.uses : \E p \in objs' : p.ctx = o.ctx /\ IdOf(p) = id
    BY <1>1, <2>1 DEF Has
  <2> QED
    BY <2>1, <2>2 DEF UsesInv, Has, IdOf
<1> QED
  BY <1>1, <1>2, <1>3, <1>4, <1>5, <1>6, <1>7, Moves

\* Numbers are unique, so a thread forgets the right queue pair.
LEMMA LookupKept ==
    ASSUME LifeInv, [Next]_vars
    PROVE  LookupInv'
<1>1. /\ ControlInv
      /\ \A o \in dpuObjs : o.type = "qp" => o.number \in lookup[o.wq]
      /\ \A w \in Wq : \A q \in lookup[w] :
           \E o \in dpuObjs : o.type = "qp" /\ o.number = q /\ o.wq = w
  BY DEF LifeInv, LookupInv
<1>2. lookup \in [Wq -> SUBSET QpNumber]
  BY <1>1 DEF ControlInv, TypeOK
<1>3. CASE UNCHANGED <<dpuObjs, lookup>>
  BY <1>1, <1>3 DEF LookupInv
<1>4. ObjectsKept \/ CreateCalled \/ CreateReturns \/ (\E o \in objs : Destroy(o))
        => UNCHANGED <<dpuObjs, lookup>>
  BY <1>1, CreateReturnsFacts, DestroyFacts DEF ObjectsKept, CreateCalled
<1>5. ASSUME NEW type \in Type, Makes(type)
      PROVE  LookupInv'
  <2>1. PICK m \in Object :
          /\ m.type = type
          /\ dpuObjs' = dpuObjs \cup {m}
          /\ type = "qp" => m.number \in QpNumber /\ m.wq \in Wq
          /\ lookup' = IF type = "qp" THEN Handed(m.wq, m.number) ELSE lookup
    BY <1>1, <1>5, MakesFacts
  <2>2. CASE type # "qp"
    BY <1>1, <2>1, <2>2 DEF LookupInv
  <2>3. CASE type = "qp"
    <3>1. lookup' = [lookup EXCEPT ![m.wq] = @ \cup {m.number}]
      BY <2>1, <2>3 DEF Handed
    <3>2. /\ \A w \in Wq : lookup[w] \subseteq lookup'[w]
          /\ \A w \in Wq : \A q \in lookup'[w] :
               q \in lookup[w] \/ (w = m.wq /\ q = m.number)
          /\ m.number \in lookup'[m.wq]
      BY <1>2, <2>1, <2>3, <3>1
    <3>3. \A o \in dpuObjs : o.type = "qp" => o.wq \in Wq
      BY <1>1, QpFacts
    <3>4. \A o \in dpuObjs' : o.type = "qp" => o.number \in lookup'[o.wq]
      BY <1>1, <2>1, <3>2, <3>3
    <3>5. \A w \in Wq : \A q \in lookup'[w] :
            \E o \in dpuObjs' : o.type = "qp" /\ o.number = q /\ o.wq = w
      BY <1>1, <2>1, <2>3, <3>2
    <3> QED
      BY <3>4, <3>5 DEF LookupInv
  <2> QED
    BY <2>2, <2>3
<1>6. ASSUME NEW type \in Type, Removes(type)
      PROVE  LookupInv'
  <2>1. PICK d \in dpuObjs :
          /\ d.type = type
          /\ dpuObjs' = dpuObjs \ {d}
          /\ lookup' = IF type = "qp" THEN Unlooked(d.wq, d.number) ELSE lookup
    BY <1>1, <1>6, RemovesFacts
  <2>2. CASE type # "qp"
    BY <1>1, <2>1, <2>2 DEF LookupInv
  <2>3. CASE type = "qp"
    <3>1. lookup' = [lookup EXCEPT ![d.wq] = @ \ {d.number}]
      BY <2>1, <2>3 DEF Unlooked
    <3>2. d.wq \in Wq
      BY <1>1, <2>1, <2>3, QpFacts
    <3>3. \A w \in Wq : \A q : q \in lookup'[w] <=>
            q \in lookup[w] /\ ~(w = d.wq /\ q = d.number)
      BY <1>2, <3>1, <3>2
    <3>4. \A o \in dpuObjs : o.type = "qp" /\ o.number = d.number => o = d
      BY <1>1, <2>1, <2>3 DEF ControlInv, ObjectInv, IdOf
    <3>5. \A o \in dpuObjs : o.type = "qp" => o.wq \in Wq
      BY <1>1, QpFacts
    <3>6. \A o \in dpuObjs' : o.type = "qp" => o.number \in lookup'[o.wq]
      BY <1>1, <2>1, <3>3, <3>4, <3>5
    <3>7. ASSUME NEW w \in Wq, NEW q \in lookup'[w]
          PROVE  \E o \in dpuObjs' : o.type = "qp" /\ o.number = q /\ o.wq = w
      <4>1. q \in lookup[w] /\ ~(w = d.wq /\ q = d.number)
        BY <3>3
      <4>2. PICK o \in dpuObjs : o.type = "qp" /\ o.number = q /\ o.wq = w
        BY <1>1, <4>1
      <4> QED
        BY <2>1, <4>1, <4>2
    <3> QED
      BY <3>6, <3>7 DEF LookupInv
  <2> QED
    BY <2>2, <2>3
<1> QED
  BY <1>1, <1>3, <1>4, <1>5, <1>6, Moves

\* How often q is in the ring s.
Count(s, q) == Cardinality({i \in DOMAIN s : s[i] = q})

LEMMA CountFacts ==
    ASSUME NEW V, NEW s \in Seq(V), NEW q
    PROVE  /\ IsFiniteSet({i \in DOMAIN s : s[i] = q})
           /\ Count(s, q) \in Nat
           /\ Count(s, q) = 0 => \A i \in DOMAIN s : s[i] # q
           /\ (\A i \in DOMAIN s : s[i] # q) => Count(s, q) = 0
<1> DEFINE S == {i \in DOMAIN s : s[i] = q}
<1>1. Len(s) \in Nat /\ DOMAIN s = 1 .. Len(s)
  OBVIOUS
<1>2. IsFiniteSet(1 .. Len(s))
  BY <1>1, FS_Interval
<1>3. S \subseteq 1 .. Len(s)
  BY <1>1
<1>4. IsFiniteSet(S)
  BY <1>2, <1>3, FS_Subset
<1>5. Cardinality(S) \in Nat
  BY <1>4, FS_CardinalityType
<1>6. Cardinality(S) = 0 <=> S = {}
  BY <1>4, FS_EmptySet
<1>7. S = {} <=> \A i \in DOMAIN s : s[i] # q
  OBVIOUS
<1>8. Count(s, q) = Cardinality(S)
  BY DEF Count
<1> HIDE DEF S
<1>9. Count(s, q) \in Nat
  BY <1>5, <1>8
<1>10. Count(s, q) = 0 <=> \A i \in DOMAIN s : s[i] # q
  BY <1>6, <1>7, <1>8
<1> QED
  BY <1>4, <1>9, <1>10 DEF S

\* A request appended is one more of its queue pair.
LEMMA CountAppended ==
    ASSUME NEW V, NEW s \in Seq(V), NEW v \in V, NEW q
    PROVE  Count(Append(s, v), q) = IF v = q THEN Count(s, q) + 1 ELSE Count(s, q)
<1> DEFINE S == {i \in DOMAIN s : s[i] = q}
           t == Append(s, v)
           T == {i \in DOMAIN t : t[i] = q}
           n == Len(s) + 1
<1>1. /\ Len(s) \in Nat /\ DOMAIN s = 1 .. Len(s)
      /\ DOMAIN t = 1 .. n /\ t[n] = v
      /\ \A i \in 1 .. Len(s) : t[i] = s[i]
  OBVIOUS
<1>2. IsFiniteSet(S)
  BY CountFacts
<1>3. n \notin S
  BY <1>1
<1>4. T = IF v = q THEN S \cup {n} ELSE S
  <2> HIDE DEF t
  <2>1. \A i : i \in DOMAIN t <=> i \in DOMAIN s \/ i = n
    BY <1>1
  <2>2. \A i : i \in T <=> (i \in S \/ (i = n /\ v = q))
    BY <1>1, <2>1
  <2> HIDE DEF T, S
  <2> QED
    BY <2>2
<1> HIDE DEF S, T, t, n
<1>5. Cardinality(S \cup {n}) = Cardinality(S) + 1
  BY <1>2, <1>3, FS_AddElement
<1>6. Count(s, q) = Cardinality(S) /\ Count(t, q) = Cardinality(T)
  BY DEF Count, S, T
<1> QED
  BY <1>4, <1>5, <1>6 DEF t

\* A request taken is one less of its queue pair.
LEMMA CountTaken ==
    ASSUME NEW V, NEW s \in Seq(V), s # <<>>, NEW q
    PROVE  Count(s, q) = IF Head(s) = q THEN Count(Tail(s), q) + 1 ELSE Count(Tail(s), q)
<1> DEFINE S == {i \in DOMAIN s : s[i] = q}
           t == Tail(s)
           T == {i \in DOMAIN t : t[i] = q}
           R == S \ {1}
           f == [i \in T |-> i + 1]
<1>1. /\ Len(s) \in Nat /\ Len(s) > 0 /\ DOMAIN s = 1 .. Len(s)
      /\ t \in Seq(V) /\ DOMAIN t = 1 .. Len(s) - 1 /\ Head(s) = s[1]
      /\ \A i \in 1 .. Len(s) - 1 : t[i] = s[i + 1]
  OBVIOUS
<1>2. IsFiniteSet(S) /\ IsFiniteSet(T)
  BY <1>1, CountFacts
<1>3. \A i \in T : i + 1 \in R /\ i \in Nat
  <2> HIDE DEF t
  <2> QED
    BY <1>1
<1>4. \A i \in R : i - 1 \in T /\ (i - 1) + 1 = i
  <2> HIDE DEF t
  <2> QED
    BY <1>1
<1>5. f \in Bijection(T, R)
  <2> HIDE DEF T, R
  <2>1. f \in [T -> R]
    BY <1>3
  <2>2. \A i, j \in T : f[i] = f[j] => i = j
    BY <1>3
  <2>3. \A r \in R : \E i \in T : f[i] = r
    BY <1>4
  <2> QED
    BY <2>1, <2>2, <2>3 DEF Bijection, Injection, Surjection, IsInjective
<1>6. Cardinality(R) = Cardinality(T)
  <2> HIDE DEF f, T, R
  <2>1. ExistsBijection(T, R)
    BY <1>5 DEF ExistsBijection
  <2> QED
    BY <1>2, <2>1, FS_Bijection
<1>7. 1 \in S <=> Head(s) = q
  BY <1>1
<1>8. Cardinality(R) = IF 1 \in S THEN Cardinality(S) - 1 ELSE Cardinality(S)
  <2> HIDE DEF S
  <2> QED
    BY <1>2, FS_RemoveElement
<1>9. Count(s, q) = Cardinality(S) /\ Count(t, q) = Cardinality(T)
  BY DEF Count
<1>10. Cardinality(S) \in Nat
  BY <1>2, FS_CardinalityType
<1> HIDE DEF S, T, t, R, f
<1>11. Cardinality(T) = IF Head(s) = q THEN Cardinality(S) - 1 ELSE Cardinality(S)
  BY <1>6, <1>7, <1>8
<1>12. Count(s, q) = IF Head(s) = q THEN Count(t, q) + 1 ELSE Count(t, q)
  BY <1>9, <1>10, <1>11
<1> QED
  BY <1>12 DEF t

\* Steps that move no request and change no object of the application.
LEMMA RequestMoves ==
    ASSUME ControlInv, [Next]_vars
    PROVE  \/ UNCHANGED <<objs, ring, sends, outstanding>>
           \/ CreateReturns
           \/ \E o \in objs : Destroy(o) \/ Post(o) \/ Poll(o)
           \/ \E w \in Wq : \/ \E c \in Ctx : TakeWqe(w, c)
                            \/ CompleteWqe(w)
<1>1. CASE \/ \E c \in Ctx : OpenDevice(c) \/ CloseDevice(c) \/ AllocPd(c) \/ RegMr(c)
           \/ \E o \in objs : ModifyQp(o)
  <2>1. UNCHANGED app
    BY <1>1 DEF OpenDevice, CloseDevice, AllocPd, RegMr, ModifyQp
  <2>2. \E op : Call(op)
    BY <1>1 DEF OpenDevice, CloseDevice, AllocPd, RegMr, ModifyQp, Create
  <2> QED
    BY <2>1, <2>2 DEF Call, app, threads
<1>2. ASSUME NEW c \in Ctx, CreateCq(c)
      PROVE  UNCHANGED <<objs, ring, sends, outstanding>>
  BY <1>2 DEF CreateCq, Create, Call, app, threads
<1>3. ASSUME NEW c \in Ctx, NEW w \in Wq, CreateQp(c, w)
      PROVE  UNCHANGED <<objs, ring, sends, outstanding>>
  <2>1. UNCHANGED app
    BY <1>3 DEF CreateQp
  <2>2. \E op : Call(op)
    BY <1>3 DEF CreateQp, Create
  <2> QED
    BY <2>1, <2>2 DEF Call, app, threads
<1>4. CASE OpenReturns \/ CloseReturns \/ DestroyReturns \/ ModifyReturns \/ IoctlFails
  BY <1>4 DEF OpenReturns, CloseReturns, DestroyReturns, ModifyReturns, IoctlFails,
     Replied, app, threads
<1>5. CASE Handler
  <2>1. \E kind, type : Requested(kind, type)
    BY <1>5 DEF Handler, HandleOpenDevice, HandleCloseDevice, HandleModifyQp, HandleAllocPd,
       HandleRegMr, HandleCreateCq, HandleCreateQp, HandleDeallocPd, HandleDestroyMr,
       HandleDestroyCq, HandleDestroyQp, LinkWq, OpenDone, UnlinkWq, CloseDone,
       HandleCreate, HandleDestroy
  <2> QED
    BY <2>1 DEF Requested, app, threads
<1>6. ASSUME NEW w \in Wq, Thread(w)
      PROVE  \/ UNCHANGED <<objs, ring, sends, outstanding>>
             \/ \E c \in Ctx : TakeWqe(w, c)
             \/ CompleteWqe(w)
  <2>1. Datapath
    BY <1>6, ThreadFacts
  <2>2. \/ UNCHANGED <<ring, sends>>
        \/ \E c \in Ctx : TakeWqe(w, c)
        \/ CompleteWqe(w)
    BY <1>6, PacketFacts DEF Thread, LoopLock, LoopUnlock, HandleSend, RecvDone, RingEmpty
  <2> QED
    BY <2>1, <2>2 DEF Datapath, app
<1>7. CASE UNCHANGED vars
  BY <1>7 DEF vars, app, threads
<1>8. CASE Peers
  BY <1>8 DEF Peers, StartPeer, StopPeer, PeerSends, Others, app, threads
<1> QED
  BY <1>1, <1>2, <1>3, <1>4, <1>5, <1>6, <1>7, <1>8 DEF Next, Host

\* The parts of RequestsInv, with the number of requests as a count.
LEMMA RequestParts ==
    RequestsInv <=>
      /\ \A c \in Ctx, w \in Wq : \A i \in DOMAIN ring[c][w] :
           \E o \in objs : /\ o.type = "qp" /\ o.number = ring[c][w][i]
                           /\ o.ctx = c /\ o.wq = w
      /\ \A q \in QpNumber : sends[q] > 0 => \E w \in Wq : HasQp(q, w)
      /\ \A o \in objs : o.type = "qp" =>
           outstanding[o.number] >= sends[o.number] + Count(ring[o.ctx][o.wq], o.number)
BY DEF RequestsInv, Unfetched, Count

LEMMA RequestParts2 ==
    RequestsInv' <=>
      /\ \A c \in Ctx, w \in Wq : \A i \in DOMAIN ring'[c][w] :
           \E o \in objs' : /\ o.type = "qp" /\ o.number = ring'[c][w][i]
                            /\ o.ctx = c /\ o.wq = w
      /\ \A q \in QpNumber : sends'[q] > 0 =>
           \E w \in Wq : \E o \in objs' : o.type = "qp" /\ o.number = q /\ o.wq = w
      /\ \A o \in objs' : o.type = "qp" =>
           outstanding'[o.number] >= sends'[o.number] + Count(ring'[o.ctx][o.wq], o.number)
BY DEF RequestsInv, Unfetched, Count, HasQp

\* What the invariant says of the requests, and the types it is about.
LEMMA RequestFacts ==
    ASSUME LifeInv
    PROVE  /\ ControlInv
           /\ \A c \in Ctx, w \in Wq : \A i \in DOMAIN ring[c][w] :
                \E o \in objs : /\ o.type = "qp" /\ o.number = ring[c][w][i]
                                /\ o.ctx = c /\ o.wq = w
           /\ \A q \in QpNumber : sends[q] > 0 =>
                \E w \in Wq : \E o \in objs : o.type = "qp" /\ o.number = q /\ o.wq = w
           /\ \A o \in objs : o.type = "qp" =>
                /\ outstanding[o.number] >=
                     sends[o.number] + Count(ring[o.ctx][o.wq], o.number)
                /\ o.number \in QpNumber /\ o.wq \in Wq /\ o.ctx \in Ctx
                /\ ring[o.ctx][o.wq] \in Seq(QpNumber)
                /\ Count(ring[o.ctx][o.wq], o.number) \in Nat
                /\ sends[o.number] \in Nat /\ outstanding[o.number] \in 0 .. MaxOutstanding
           /\ \A o, p \in objs : o.type = "qp" /\ p.type = "qp" /\ o.number = p.number => o = p
           /\ ring \in [Ctx -> [Wq -> Seq(QpNumber)]]
           /\ sends \in [QpNumber -> Nat]
           /\ outstanding \in [QpNumber -> 0 .. MaxOutstanding]
           /\ MaxOutstanding \in Nat
<1>1. ControlInv /\ RequestsInv
  BY DEF LifeInv
<1>2. /\ ring \in [Ctx -> [Wq -> Seq(QpNumber)]]
      /\ sends \in [QpNumber -> Nat]
      /\ outstanding \in [QpNumber -> 0 .. MaxOutstanding]
      /\ MaxOutstanding \in Nat
  BY <1>1, ControlPathAssumption DEF ControlInv, TypeOK
<1>3. ASSUME NEW o \in objs, o.type = "qp"
      PROVE  /\ o.number \in QpNumber /\ o.wq \in Wq /\ o.ctx \in Ctx
             /\ ring[o.ctx][o.wq] \in Seq(QpNumber)
             /\ Count(ring[o.ctx][o.wq], o.number) \in Nat
             /\ sends[o.number] \in Nat /\ outstanding[o.number] \in 0 .. MaxOutstanding
  <2>1. o.number \in QpNumber /\ o.wq \in Wq /\ o.ctx \in Ctx
    BY <1>1, <1>3, OwnQpFacts
  <2>2. ring[o.ctx][o.wq] \in Seq(QpNumber)
    BY <1>2, <2>1
  <2>3. Count(ring[o.ctx][o.wq], o.number) \in Nat
    BY <2>2, CountFacts
  <2> QED
    BY <1>2, <2>1, <2>2, <2>3
<1>4. \A o, p \in objs : o.type = "qp" /\ p.type = "qp" /\ o.number = p.number => o = p
  <2>1. objs \subseteq dpuObjs
    BY <1>1, OwnObjects
  <2> QED
    BY <1>1, <2>1 DEF ControlInv, ObjectInv, IdOf
<1> QED
  BY <1>1, <1>2, <1>3, <1>4, RequestParts DEF HasQp

LEMMA PostKeepsRequests ==
    ASSUME LifeInv, NEW o \in objs, Post(o) \/ Poll(o)
    PROVE  RequestsInv'
<1>1. o.type = "qp" /\ objs' = objs /\ sends' = sends
  BY DEF Post, Poll, threads
<1>2. /\ \A c \in Ctx, w \in Wq : \A i \in DOMAIN ring[c][w] :
           \E p \in objs : /\ p.type = "qp" /\ p.number = ring[c][w][i]
                           /\ p.ctx = c /\ p.wq = w
      /\ \A q \in QpNumber : sends[q] > 0 =>
           \E w \in Wq : \E p \in objs : p.type = "qp" /\ p.number = q /\ p.wq = w
      /\ \A p \in objs : p.type = "qp" =>
           /\ outstanding[p.number] >= sends[p.number] + Count(ring[p.ctx][p.wq], p.number)
           /\ p.number \in QpNumber /\ p.wq \in Wq /\ p.ctx \in Ctx
           /\ ring[p.ctx][p.wq] \in Seq(QpNumber)
           /\ Count(ring[p.ctx][p.wq], p.number) \in Nat
           /\ sends[p.number] \in Nat /\ outstanding[p.number] \in 0 .. MaxOutstanding
      /\ \A p, r \in objs : p.type = "qp" /\ r.type = "qp" /\ p.number = r.number => p = r
      /\ ring \in [Ctx -> [Wq -> Seq(QpNumber)]]
      /\ outstanding \in [QpNumber -> 0 .. MaxOutstanding]
      /\ MaxOutstanding \in Nat
  BY RequestFacts
<1>3. CASE Post(o)
  <2>1. /\ outstanding' = [outstanding EXCEPT ![o.number] = @ + 1]
        /\ ring' = [ring EXCEPT ![o.ctx][o.wq] = Append(@, o.number)]
    BY <1>3 DEF Post
  <2>2. /\ ring'[o.ctx][o.wq] = Append(ring[o.ctx][o.wq], o.number)
        /\ \A c \in Ctx, w \in Wq : c # o.ctx \/ w # o.wq => ring'[c][w] = ring[c][w]
    BY <1>1, <1>2, <2>1
  <2>3. /\ outstanding'[o.number] = outstanding[o.number] + 1
        /\ \A q \in QpNumber : q # o.number => outstanding'[q] = outstanding[q]
    BY <1>1, <1>2, <2>1
  <2>4. ASSUME NEW c \in Ctx, NEW w \in Wq, NEW i \in DOMAIN ring'[c][w]
        PROVE  \E p \in objs : /\ p.type = "qp" /\ p.number = ring'[c][w][i]
                               /\ p.ctx = c /\ p.wq = w
    <3>1. CASE c = o.ctx /\ w = o.wq
      <4>0. /\ ring[o.ctx][o.wq] \in Seq(QpNumber)
            /\ ring'[o.ctx][o.wq] = Append(ring[o.ctx][o.wq], o.number)
        BY <1>1, <1>2, <2>2
      <4>1. ring[c][w] \in Seq(QpNumber) /\ ring'[c][w] = Append(ring[c][w], o.number)
        BY <3>1, <4>0
      <4>2. \/ i \in DOMAIN ring[c][w] /\ ring'[c][w][i] = ring[c][w][i]
            \/ ring'[c][w][i] = o.number
        BY <4>1
      <4>3. CASE i \in DOMAIN ring[c][w] /\ ring'[c][w][i] = ring[c][w][i]
        BY <1>2, <4>3
      <4>4. CASE ring'[c][w][i] = o.number
        BY <1>1, <3>1, <4>4
      <4> QED
        BY <4>2, <4>3, <4>4
    <3>2. CASE c # o.ctx \/ w # o.wq
      BY SMTT(60), <1>2, <2>2, <3>2
    <3> QED
      BY <3>1, <3>2
  <2>5. ASSUME NEW p \in objs, p.type = "qp"
        PROVE  outstanding'[p.number] >= sends[p.number] + Count(ring'[p.ctx][p.wq], p.number)
    <3>1. CASE p = o
      <4>0. ring[o.ctx][o.wq] \in Seq(QpNumber) /\ o.number \in QpNumber
        BY <1>1, <1>2
      <4>1. Count(ring'[o.ctx][o.wq], o.number) = Count(ring[o.ctx][o.wq], o.number) + 1
        BY <2>2, <4>0, CountAppended
      <4>2. outstanding[o.number] >= sends[o.number] + Count(ring[o.ctx][o.wq], o.number)
        BY <1>1, <1>2
      <4>3. /\ outstanding[o.number] \in Int /\ sends[o.number] \in Nat
            /\ Count(ring[o.ctx][o.wq], o.number) \in Nat
        BY <1>1, <1>2
      <4> QED
        BY <2>3, <3>1, <4>1, <4>2, <4>3
    <3>2. CASE p # o
      <4>1. p.number # o.number
        BY <1>1, <1>2, <2>5, <3>2
      <4>2. ring[o.ctx][o.wq] \in Seq(QpNumber) /\ o.number \in QpNumber
        BY <1>1, <1>2
      <4>3. Count(Append(ring[o.ctx][o.wq], o.number), p.number)
              = Count(ring[o.ctx][o.wq], p.number)
        BY <4>1, <4>2, CountAppended
      <4>4. p.number \in QpNumber /\ p.ctx \in Ctx /\ p.wq \in Wq
        BY <1>2, <2>5
      <4>5. Count(ring'[p.ctx][p.wq], p.number) = Count(ring[p.ctx][p.wq], p.number)
        BY <2>2, <4>3, <4>4
      <4> QED
        BY <1>2, <2>3, <2>5, <4>1, <4>4, <4>5
    <3> QED
      BY <3>1, <3>2
  <2> QED
    BY <1>1, <1>2, <2>4, <2>5, RequestParts2
<1>4. CASE Poll(o)
  <2>1. /\ outstanding[o.number] > sends[o.number] + Count(ring[o.ctx][o.wq], o.number)
        /\ outstanding' = [outstanding EXCEPT ![o.number] = @ - 1]
        /\ ring' = ring
    BY <1>4 DEF Poll, Unfetched, Count
  <2>2. /\ outstanding'[o.number] = outstanding[o.number] - 1
        /\ \A q \in QpNumber : q # o.number => outstanding'[q] = outstanding[q]
    BY <1>1, <1>2, <2>1
  <2>3. ASSUME NEW p \in objs, p.type = "qp"
        PROVE  outstanding'[p.number] >= sends[p.number] + Count(ring[p.ctx][p.wq], p.number)
    <3>1. CASE p = o
      <4>1. /\ outstanding[o.number] \in Int /\ sends[o.number] \in Nat
            /\ Count(ring[o.ctx][o.wq], o.number) \in Nat
        BY <1>1, <1>2
      <4> QED
        BY <2>1, <2>2, <3>1, <4>1
    <3>2. CASE p # o
      <4>1. p.number # o.number
        BY <1>1, <1>2, <2>3, <3>2
      <4> QED
        BY <1>2, <2>2, <2>3, <4>1
    <3> QED
      BY <3>1, <3>2
  <2> QED
    BY <1>1, <1>2, <2>1, <2>3, RequestParts2
<1> QED
  BY <1>3, <1>4

\* A queue pair is destroyed when none of its requests is on the way.
LEMMA DestroyKeepsRequests ==
    ASSUME LifeInv, NEW d \in objs, Destroy(d)
    PROVE  RequestsInv'
<1>1. /\ objs' = objs \ {d} /\ Destroyable(d)
      /\ ring' = ring /\ sends' = sends /\ outstanding' = outstanding
  BY DestroyFacts DEF LifeInv
<1>2. /\ \A c \in Ctx, w \in Wq : \A i \in DOMAIN ring[c][w] :
           \E p \in objs : /\ p.type = "qp" /\ p.number = ring[c][w][i]
                           /\ p.ctx = c /\ p.wq = w
      /\ \A q \in QpNumber : sends[q] > 0 =>
           \E w \in Wq : \E p \in objs : p.type = "qp" /\ p.number = q /\ p.wq = w
      /\ \A p \in objs : p.type = "qp" =>
           /\ outstanding[p.number] >= sends[p.number] + Count(ring[p.ctx][p.wq], p.number)
           /\ p.number \in QpNumber
           /\ ring[p.ctx][p.wq] \in Seq(QpNumber)
           /\ Count(ring[p.ctx][p.wq], p.number) \in Nat
           /\ sends[p.number] \in Nat
  BY RequestFacts
<1>3. d.type = "qp" => /\ sends[d.number] = 0
                       /\ \A i \in DOMAIN ring[d.ctx][d.wq] : ring[d.ctx][d.wq][i] # d.number
  <2> SUFFICES ASSUME d.type = "qp"
               PROVE  /\ sends[d.number] = 0
                      /\ \A i \in DOMAIN ring[d.ctx][d.wq] :
                           ring[d.ctx][d.wq][i] # d.number
    OBVIOUS
  <2>1. outstanding[d.number] = 0
    BY <1>1 DEF Destroyable
  <2>2. /\ sends[d.number] \in Nat /\ Count(ring[d.ctx][d.wq], d.number) \in Nat
        /\ 0 >= sends[d.number] + Count(ring[d.ctx][d.wq], d.number)
        /\ ring[d.ctx][d.wq] \in Seq(QpNumber)
    BY <1>2, <2>1
  <2>3. sends[d.number] = 0 /\ Count(ring[d.ctx][d.wq], d.number) = 0
    BY <2>2
  <2> QED
    BY <2>2, <2>3, CountFacts
<1>4. ASSUME NEW c \in Ctx, NEW w \in Wq, NEW i \in DOMAIN ring[c][w]
      PROVE  \E p \in objs' : /\ p.type = "qp" /\ p.number = ring[c][w][i]
                              /\ p.ctx = c /\ p.wq = w
  <2>1. PICK p \in objs : /\ p.type = "qp" /\ p.number = ring[c][w][i]
                          /\ p.ctx = c /\ p.wq = w
    BY <1>2
  <2>2. p # d
    BY <1>3, <2>1
  <2> QED
    BY <1>1, <2>1, <2>2
<1>5. ASSUME NEW q \in QpNumber, sends[q] > 0
      PROVE  \E w \in Wq : \E p \in objs' : p.type = "qp" /\ p.number = q /\ p.wq = w
  <2>1. PICK w \in Wq, p \in objs : p.type = "qp" /\ p.number = q /\ p.wq = w
    BY <1>2, <1>5
  <2>2. p # d
    BY <1>3, <1>5, <2>1
  <2> QED
    BY <1>1, <2>1, <2>2
<1>6. \A p \in objs' : p.type = "qp" =>
        outstanding[p.number] >= sends[p.number] + Count(ring[p.ctx][p.wq], p.number)
  BY <1>1, <1>2
<1> QED
  BY <1>1, <1>4, <1>5, <1>6, RequestParts2

\* A queue pair the application has just got has no requests.
LEMMA CreateReturnsKeepsRequests ==
    ASSUME LifeInv, CreateReturns
    PROVE  RequestsInv'
<1>1. PICK n \in dpuObjs : n \notin objs /\ objs' = objs \cup {n}
  BY CreateReturnsFacts DEF LifeInv
<1>2. ring' = ring /\ sends' = sends /\ outstanding' = outstanding
  BY CreateReturnsFacts DEF LifeInv
<1>3. /\ \A c \in Ctx, w \in Wq : \A i \in DOMAIN ring[c][w] :
           \E p \in objs : /\ p.type = "qp" /\ p.number = ring[c][w][i]
                           /\ p.ctx = c /\ p.wq = w
      /\ \A q \in QpNumber : sends[q] > 0 =>
           \E w \in Wq : \E p \in objs : p.type = "qp" /\ p.number = q /\ p.wq = w
      /\ \A p \in objs : p.type = "qp" =>
           outstanding[p.number] >= sends[p.number] + Count(ring[p.ctx][p.wq], p.number)
      /\ ring \in [Ctx -> [Wq -> Seq(QpNumber)]]
      /\ sends \in [QpNumber -> Nat]
      /\ outstanding \in [QpNumber -> 0 .. MaxOutstanding]
      /\ MaxOutstanding \in Nat
  BY RequestFacts
<1>4. n.type = "qp" =>
        /\ n.number \in QpNumber /\ n.wq \in Wq /\ n.ctx \in Ctx
        /\ \A p \in objs : p.type = "qp" => p.number # n.number
  <2>1. objs \subseteq dpuObjs
    BY OwnObjects DEF LifeInv
  <2> QED
    BY <1>1, <2>1, QpFacts DEF LifeInv, ControlInv, ObjectInv, IdOf
<1>5. n.type = "qp" =>
        outstanding[n.number] >= sends[n.number] + Count(ring[n.ctx][n.wq], n.number)
  <2> SUFFICES ASSUME n.type = "qp"
               PROVE  outstanding[n.number] >=
                        sends[n.number] + Count(ring[n.ctx][n.wq], n.number)
    OBVIOUS
  <2>1. /\ n.number \in QpNumber /\ ring[n.ctx][n.wq] \in Seq(QpNumber)
        /\ sends[n.number] \in Nat /\ outstanding[n.number] \in 0 .. MaxOutstanding
    BY <1>3, <1>4
  <2>2. \A i \in DOMAIN ring[n.ctx][n.wq] : ring[n.ctx][n.wq][i] # n.number
    BY <1>3, <1>4
  <2>3. Count(ring[n.ctx][n.wq], n.number) = 0
    BY <2>1, <2>2, CountFacts
  <2>4. sends[n.number] = 0
    <3>1. ~(sends[n.number] > 0)
      BY <1>3, <1>4
    <3> QED
      BY <2>1, <3>1
  <2> QED
    BY <1>3, <2>1, <2>3, <2>4
<1>6. \A c \in Ctx, w \in Wq : \A i \in DOMAIN ring[c][w] :
        \E p \in objs' : /\ p.type = "qp" /\ p.number = ring[c][w][i]
                         /\ p.ctx = c /\ p.wq = w
  BY <1>1, <1>3
<1>7. \A q \in QpNumber : sends[q] > 0 =>
        \E w \in Wq : \E p \in objs' : p.type = "qp" /\ p.number = q /\ p.wq = w
  BY <1>1, <1>3
<1>8. \A p \in objs' : p.type = "qp" =>
        outstanding[p.number] >= sends[p.number] + Count(ring[p.ctx][p.wq], p.number)
  BY <1>1, <1>3, <1>5
<1> QED
  BY <1>2, <1>6, <1>7, <1>8, RequestParts2

\* The head of a send ring is a request of a queue pair of that ring.
LEMMA HeadFacts ==
    ASSUME LifeInv, NEW c \in Ctx, NEW w \in Wq, ring[c][w] # <<>>
    PROVE  /\ \E o \in objs : /\ o.type = "qp" /\ o.number = Head(ring[c][w])
                              /\ o.ctx = c /\ o.wq = w
           /\ Head(ring[c][w]) \in QpNumber
           /\ ring[c][w] \in Seq(QpNumber)
<1>1. ring[c][w] \in Seq(QpNumber)
  BY RequestFacts
<1>2. 1 \in DOMAIN ring[c][w] /\ Head(ring[c][w]) = ring[c][w][1]
      /\ Head(ring[c][w]) \in QpNumber
  BY <1>1
<1> QED
  BY <1>1, <1>2, RequestFacts

LEMMA TakeWqeKeepsRequests ==
    ASSUME LifeInv, NEW w \in Wq, NEW c \in Ctx, TakeWqe(w, c)
    PROVE  RequestsInv'
<1>1. /\ objs' = objs /\ outstanding' = outstanding /\ ring[c][w] # <<>>
      /\ \/ ring' = ring /\ sends' = sends
         \/ /\ sends' = [sends EXCEPT ![Head(ring[c][w])] = @ + 1]
            /\ ring' = [ring EXCEPT ![c][w] = Tail(@)]
  BY DEF TakeWqe, Datapath, app
<1>2. /\ \A d \in Ctx, v \in Wq : \A i \in DOMAIN ring[d][v] :
           \E p \in objs : /\ p.type = "qp" /\ p.number = ring[d][v][i]
                           /\ p.ctx = d /\ p.wq = v
      /\ \A q \in QpNumber : sends[q] > 0 =>
           \E v \in Wq : \E p \in objs : p.type = "qp" /\ p.number = q /\ p.wq = v
      /\ \A p \in objs : p.type = "qp" =>
           /\ outstanding[p.number] >= sends[p.number] + Count(ring[p.ctx][p.wq], p.number)
           /\ p.number \in QpNumber /\ p.wq \in Wq /\ p.ctx \in Ctx
           /\ ring[p.ctx][p.wq] \in Seq(QpNumber)
           /\ Count(ring[p.ctx][p.wq], p.number) \in Nat
           /\ sends[p.number] \in Nat /\ outstanding[p.number] \in 0 .. MaxOutstanding
      /\ \A p, r \in objs : p.type = "qp" /\ r.type = "qp" /\ p.number = r.number => p = r
      /\ ring \in [Ctx -> [Wq -> Seq(QpNumber)]]
      /\ sends \in [QpNumber -> Nat]
  BY RequestFacts
<1>3. CASE ring' = ring /\ sends' = sends
  BY <1>1, <1>2, <1>3, RequestParts2
<1>4. CASE /\ sends' = [sends EXCEPT ![Head(ring[c][w])] = @ + 1]
           /\ ring' = [ring EXCEPT ![c][w] = Tail(@)]
  <2>1. PICK s \in Seq(QpNumber), q \in QpNumber :
          s = ring[c][w] /\ s # <<>> /\ q = Head(s)
    BY <1>1, HeadFacts
  <2>2. PICK o \in objs : o.type = "qp" /\ o.number = q /\ o.ctx = c /\ o.wq = w
    BY <1>1, <2>1, HeadFacts
  <2>3. /\ ring'[c][w] = Tail(s)
        /\ \A d \in Ctx, v \in Wq : d # c \/ v # w => ring'[d][v] = ring[d][v]
    BY <1>2, <1>4, <2>1
  <2>4. /\ sends'[q] = sends[q] + 1
        /\ \A r \in QpNumber : r # q => sends'[r] = sends[r]
    BY <1>2, <1>4, <2>1
  <2>5. ASSUME NEW d \in Ctx, NEW v \in Wq, NEW i \in DOMAIN ring'[d][v]
        PROVE  \E p \in objs : /\ p.type = "qp" /\ p.number = ring'[d][v][i]
                               /\ p.ctx = d /\ p.wq = v
    <3>1. CASE d = c /\ v = w
      <4>1. i \in DOMAIN Tail(s) /\ ring'[d][v][i] = Tail(s)[i]
        BY <2>3, <2>5, <3>1
      <4>2. i + 1 \in DOMAIN s /\ Tail(s)[i] = s[i + 1]
        BY <2>1, <4>1
      <4>3. i + 1 \in DOMAIN ring[c][w] /\ ring'[d][v][i] = ring[c][w][i + 1]
        BY <2>1, <4>1, <4>2
      <4>4. \E p \in objs : /\ p.type = "qp" /\ p.number = ring[c][w][i + 1]
                            /\ p.ctx = c /\ p.wq = w
        BY <1>2, <4>3
      <4> QED
        BY <3>1, <4>3, <4>4
    <3>2. CASE d # c \/ v # w
      BY <1>2, <2>3, <3>2
    <3> QED
      BY <3>1, <3>2
  <2>6. ASSUME NEW r \in QpNumber, sends'[r] > 0
        PROVE  \E v \in Wq : \E p \in objs : p.type = "qp" /\ p.number = r /\ p.wq = v
    <3>1. CASE r = q
      BY <2>2, <3>1
    <3>2. CASE r # q
      BY <1>2, <2>4, <2>6, <3>2
    <3> QED
      BY <3>1, <3>2
  <2>7. ASSUME NEW p \in objs, p.type = "qp"
        PROVE  outstanding[p.number] >= sends'[p.number] + Count(ring'[p.ctx][p.wq], p.number)
    <3>1. CASE p.number = q
      <4>1. p = o
        BY <1>2, <2>2, <2>7, <3>1
      <4>2. Count(s, q) = Count(Tail(s), q) + 1
        BY <2>1, CountTaken
      <4>3. Count(ring[p.ctx][p.wq], p.number) = Count(s, q)
            /\ Count(ring'[p.ctx][p.wq], p.number) = Count(Tail(s), q)
        BY <2>1, <2>2, <2>3, <4>1
      <4>4. Tail(s) \in Seq(QpNumber)
        BY <2>1
      <4>5. Count(Tail(s), q) \in Nat /\ sends[q] \in Nat
        BY <1>2, <4>4, CountFacts
      <4>6. outstanding[q] >= sends[q] + Count(s, q) /\ outstanding[q] \in Int
        BY <1>2, <2>7, <3>1, <4>3
      <4> QED
        BY <2>4, <3>1, <4>2, <4>3, <4>5, <4>6
    <3>2. CASE p.number # q
      <4>1. Count(s, p.number) = Count(Tail(s), p.number)
        BY <2>1, <3>2, CountTaken
      <4>2. Count(ring'[p.ctx][p.wq], p.number) = Count(ring[p.ctx][p.wq], p.number)
        <5>1. p.ctx \in Ctx /\ p.wq \in Wq
          BY <1>2, <2>7
        <5>2. CASE p.ctx = c /\ p.wq = w
          BY <2>1, <2>3, <4>1, <5>2
        <5>3. CASE p.ctx # c \/ p.wq # w
          BY <2>3, <5>1, <5>3
        <5> QED
          BY <5>2, <5>3
      <4>3. sends'[p.number] = sends[p.number]
        BY <1>2, <2>4, <2>7, <3>2
      <4> QED
        BY <1>2, <2>7, <4>2, <4>3
    <3> QED
      BY <3>1, <3>2
  <2> QED
    BY <1>1, <2>5, <2>6, <2>7, RequestParts2
<1> QED
  BY <1>1, <1>3, <1>4

LEMMA CompleteWqeKeepsRequests ==
    ASSUME LifeInv, NEW w \in Wq, CompleteWqe(w)
    PROVE  RequestsInv'
<1>1. /\ objs' = objs /\ outstanding' = outstanding /\ ring' = ring
      /\ sends' = [sends EXCEPT ![hand[w]] = @ - 1]
  BY DEF CompleteWqe, Handles, Datapath, app
<1>2. /\ \A d \in Ctx, v \in Wq : \A i \in DOMAIN ring[d][v] :
           \E p \in objs : /\ p.type = "qp" /\ p.number = ring[d][v][i]
                           /\ p.ctx = d /\ p.wq = v
      /\ \A q \in QpNumber : sends[q] > 0 =>
           \E v \in Wq : \E p \in objs : p.type = "qp" /\ p.number = q /\ p.wq = v
      /\ \A p \in objs : p.type = "qp" =>
           /\ outstanding[p.number] >= sends[p.number] + Count(ring[p.ctx][p.wq], p.number)
           /\ p.number \in QpNumber
           /\ Count(ring[p.ctx][p.wq], p.number) \in Nat
           /\ outstanding[p.number] \in 0 .. MaxOutstanding
      /\ sends \in [QpNumber -> Nat]
  BY RequestFacts
<1>3. hand \in [Wq -> QpNumber \cup {None}]
  BY DEF LifeInv, ControlInv, TypeOK
<1>4. \A q \in QpNumber : sends'[q] = IF q = hand[w] THEN sends[q] - 1 ELSE sends[q]
  BY <1>1, <1>2
<1>5. \A q \in QpNumber : sends[q] \in Nat /\ sends'[q] \in Int /\ sends'[q] <= sends[q]
  BY <1>2, <1>4
<1>6. \A q \in QpNumber : sends'[q] > 0 => sends[q] > 0
  BY <1>5
<1>7. \A p \in objs : p.type = "qp" =>
        outstanding[p.number] >= sends'[p.number] + Count(ring[p.ctx][p.wq], p.number)
  <2> SUFFICES ASSUME NEW p \in objs, p.type = "qp"
               PROVE  outstanding[p.number] >=
                        sends'[p.number] + Count(ring[p.ctx][p.wq], p.number)
    OBVIOUS
  <2>1. /\ outstanding[p.number] >= sends[p.number] + Count(ring[p.ctx][p.wq], p.number)
        /\ Count(ring[p.ctx][p.wq], p.number) \in Nat /\ outstanding[p.number] \in Int
    BY <1>2
  <2>2. /\ sends[p.number] \in Nat /\ sends'[p.number] \in Int
        /\ sends'[p.number] <= sends[p.number]
    BY <1>2, <1>5
  <2> QED
    BY <2>1, <2>2
<1> QED
  BY <1>1, <1>2, <1>6, <1>7, RequestParts2

LEMMA RequestsKept ==
    ASSUME LifeInv, [Next]_vars
    PROVE  RequestsInv'
<1>1. CASE UNCHANGED <<objs, ring, sends, outstanding>>
  BY <1>1 DEF LifeInv, RequestsInv, HasQp, Unfetched
<1> QED
  BY <1>1, RequestMoves, PostKeepsRequests, DestroyKeepsRequests,
     CreateReturnsKeepsRequests, TakeWqeKeepsRequests, CompleteWqeKeepsRequests
  DEF LifeInv

\* Requests, look-up tables and what objects refer to, for any number of
\* contexts.
THEOREM LifeInvariance == Spec => []LifeInv
<1>1. ASSUME Init
      PROVE  LifeInv
  <2>1. ControlInv
    BY <1>1, ControlInit
  <2>2. objs = {} /\ dpuObjs = {} /\ req = NoOp
    BY <1>1 DEF Init
  <2>3. UsesInv
    BY <2>2 DEF UsesInv, Asked
  <2>4. LookupInv
    BY <1>1, <2>2 DEF Init, LookupInv
  <2>5. RequestsInv
    <3>1. \A c \in Ctx, w \in Wq : ring[c][w] = <<>>
      BY <1>1 DEF Init
    <3>2. \A q \in QpNumber : sends[q] = 0
      BY <1>1 DEF Init
    <3> QED
      BY <2>2, <3>1, <3>2 DEF RequestsInv
  <2> QED
    BY <2>1, <2>3, <2>4, <2>5 DEF LifeInv
<1>2. ASSUME LifeInv, [Next]_vars
      PROVE  LifeInv'
  <2>1. ControlInv'
    BY <1>2, ControlKeeps, ControlTyped DEF LifeInv, ControlInv
  <2> QED
    BY <1>2, <2>1, UsesKept, LookupKept, RequestsKept DEF LifeInv
<1>3. Init => LifeInv
  BY <1>1
<1>4. LifeInv /\ [Next]_vars => LifeInv'
  BY <1>2
<1> QED
  BY <1>3, <1>4, PTL DEF Spec

-----------------------------------------------------------------------------
(* One context: which threads have its send rings *)

\* Which threads have a send ring of a context that is opened or closed.
LinkInv ==
    /\ \A w \in Wq : todo[w] \subseteq sendWqs[w]
    /\ \A w \in Wq : pc[w] # "loop" => todo[w] = {}
    /\ ~Asked("open") /\ ~Asked("close") => linked = 0
    /\ Asked("close") => \A w \in 0 .. linked - 1 : sendWqs[w] = {}
    /\ Answered("close") => \A w \in Wq : sendWqs[w] = {}
    /\ \A c \in Ctx :
         /\ hostCtx[c] = "closed" \/ contextList[c] = "freed" =>
              \A w \in Wq : sendWqs[w] = {}
         /\ contextList[c] = "freed" => hostCtx[c] = "closed" \/ Answered("close")
         /\ hostCtx[c] = "open" /\ ~Answered("close") => contextList[c] = "live"
    /\ Answered("open") => contextList[rep.obj.ctx] = "live"

\* No context is opened or closed, and no thread moves.
LinkStill ==
    /\ UNCHANGED <<todo, sendWqs, pc, linked, hostCtx, contextList>>
    /\ \A kind \in {"open", "close"} :
         /\ Asked(kind)' <=> Asked(kind)
         /\ Answered(kind)' <=> Answered(kind)
    /\ Answered("open")' => rep' = rep

LEMMA OtherCallStill ==
    ASSUME ControlInv, MayCall, UNCHANGED hostCtx, NEW op \in Op, Call(op),
           op.kind \notin {"open", "close"}
    PROVE  LinkStill
<1>1. /\ \A kind : ~Asked(kind) /\ ~Answered(kind) /\ ~Answered(kind)'
      /\ \A kind : Asked(kind)' <=> op.kind = kind
  BY CallFacts
<1>2. UNCHANGED <<todo, sendWqs, pc, linked, hostCtx, contextList>>
  BY DEF Call, tables, threads
<1>3. \A kind \in {"open", "close"} : ~Asked(kind)' /\ ~Asked(kind)
  BY <1>1
<1> QED
  BY <1>1, <1>2, <1>3 DEF LinkStill

LEMMA OtherReturnStill ==
    ASSUME ControlInv, CreateReturns \/ DestroyReturns \/ ModifyReturns
    PROVE  LinkStill
<1>1. PICK kind \in {"create", "destroy", "modify"} : Replied(kind)
  BY DEF CreateReturns, DestroyReturns, ModifyReturns
<1>2. /\ \A k : ~Asked(k) /\ (Answered(k) <=> k = kind)
      /\ \A k : ~Asked(k)' /\ ~Answered(k)'
  BY <1>1, ReplyFacts
<1>3. hostCtx' = hostCtx
  BY DEF CreateReturns, DestroyReturns, ModifyReturns
<1>4. UNCHANGED <<todo, sendWqs, pc, linked, hostCtx, contextList>>
  BY <1>1, <1>3 DEF Replied, tables, threads
<1>5. \A k \in {"open", "close"} : ~Asked(k) /\ ~Answered(k)
  BY <1>2
<1> QED
  BY <1>2, <1>4, <1>5 DEF LinkStill

LEMMA OtherHandlerStill ==
    ASSUME ControlInv,
           HandleModifyQp \/ \E type \in Type : HandleCreate(type) \/ HandleDestroy(type)
    PROVE  LinkStill
<1>1. PICK kind \in {"create", "destroy", "modify"} : \E type : Requested(kind, type)
  BY DEF HandleModifyQp, HandleCreate, HandleDestroy
<1>2. /\ \A k : (Asked(k) <=> k = kind) /\ ~Answered(k)
      /\ req # NoOp /\ req \in Op /\ req.kind = kind /\ rep = NoOp /\ hostCtx' = hostCtx
      /\ UNCHANGED threads
  BY <1>1, HandlerFacts
<1>3. UNCHANGED <<todo, sendWqs, pc, linked, hostCtx, contextList>>
  BY <1>2 DEF HandleModifyQp, HandleCreate, HandleDestroy, threads
<1>4. \A k \in {"open", "close"} : ~Asked(k) /\ ~Answered(k)
  BY <1>2
<1>5. \/ req' = req /\ rep' = rep
      \/ req' = NoOp /\ rep'.kind = kind
  <2>1. CASE HandleModifyQp
    BY <1>2, <2>1 DEF HandleModifyQp, Reply
  <2>2. ASSUME NEW t \in Type, HandleCreate(t)
        PROVE  \/ req' = req /\ rep' = rep
               \/ req' = NoOp /\ rep'.kind = kind
    <3>1. req.obj.type = t
      BY <2>2, HandlerFacts DEF HandleCreate
    <3>2. [req EXCEPT !.obj = Made].kind = kind
      BY <1>2, <3>1, MadeFacts DEF ControlInv
    <3> QED
      BY <2>2, <3>2 DEF HandleCreate, Reply
  <2>3. ASSUME NEW t \in Type, HandleDestroy(t)
        PROVE  \/ req' = req /\ rep' = rep
               \/ req' = NoOp /\ rep'.kind = kind
    BY <1>2, <2>3 DEF HandleDestroy, Reply
  <2> QED
    BY <2>1, <2>2, <2>3
<1>6. \A k \in {"open", "close"} : ~Asked(k)' /\ ~Answered(k)'
  BY <1>2, <1>5 DEF Asked, Answered
<1> QED
  BY <1>3, <1>4, <1>6 DEF LinkStill

LEMMA LinkMoves ==
    ASSUME ControlInv, [Next]_vars
    PROVE  \/ LinkStill
           \/ \E c \in Ctx : OpenDevice(c) \/ CloseDevice(c)
           \/ OpenReturns \/ CloseReturns
           \/ LinkWq \/ OpenDone \/ UnlinkWq \/ CloseDone
           \/ \E w \in Wq : \/ LoopLock(w) \/ LoopUnlock(w) \/ HandleSend(w) \/ RecvDone(w)
                            \/ Packet(w) \/ \E c \in Ctx : RingEmpty(w, c)
<1>1. CASE CreateCalled
  <2>1. MayCall /\ hostCtx' = hostCtx
    BY <1>1 DEF CreateCalled
  <2>2. PICK op \in Op : Call(op) /\ op.kind = "create"
    BY <1>1 DEF CreateCalled
  <2>3. op.kind \notin {"open", "close"}
    BY <2>2
  <2> QED
    BY <2>1, <2>2, <2>3, OtherCallStill
<1>2. CASE UNCHANGED <<objs, hostCtx, req, rep, tables, sendWqs, lookup, threads>>
  BY <1>2 DEF LinkStill, tables, threads, Asked, Answered
<1>3. ASSUME NEW o \in objs, ModifyQp(o) \/ Destroy(o)
      PROVE  LinkStill
  <2>1. o \in Object
    BY OwnObjects
  <2>2. /\ [kind |-> "modify", obj |-> o] \in Op
        /\ [kind |-> "destroy", obj |-> o] \in Op
    BY <2>1 DEF Op
  <2>3. MayCall /\ hostCtx' = hostCtx
    BY <1>3 DEF ModifyQp, Destroy, app
  <2>4. PICK op \in Op : Call(op) /\ op.kind \in {"modify", "destroy"}
    BY <1>3, <2>2 DEF ModifyQp, Destroy
  <2>5. op.kind \notin {"open", "close"}
    BY <2>4
  <2> QED
    BY <2>3, <2>4, <2>5, OtherCallStill
<1>4. ASSUME NEW o \in objs, Post(o) \/ Poll(o)
      PROVE  LinkStill
  BY <1>4 DEF Post, Poll, LinkStill, tables, threads, Asked, Answered
<1>5. CASE IoctlFails
  BY <1>5 DEF IoctlFails, LinkStill, app, tables, threads, Asked, Answered
<1>6. CASE Host
  BY <1>1, <1>2, <1>3, <1>4, <1>5, <1>6, OtherReturnStill, CreateMoves, CreateCqMoves DEF Host
<1>7. CASE Handler
  <2>1. \/ HandleModifyQp \/ LinkWq \/ OpenDone \/ UnlinkWq \/ CloseDone
        \/ \E type \in Type : HandleCreate(type) \/ HandleDestroy(type)
    BY <1>7 DEF Handler, HandleOpenDevice, HandleCloseDevice, HandleAllocPd, HandleRegMr,
       HandleCreateCq, HandleCreateQp, HandleDeallocPd, HandleDestroyMr, HandleDestroyCq,
       HandleDestroyQp, Type
  <2> QED
    BY <2>1, OtherHandlerStill
<1>8. ASSUME NEW w \in Wq, NEW c \in Ctx, TakeWqe(w, c)
      PROVE  LinkStill
  BY <1>8 DEF TakeWqe, Datapath, LinkStill, app, tables, Asked, Answered
<1>9. CASE Peers
  BY <1>9 DEF Peers, StartPeer, StopPeer, PeerSends, Others, LinkStill, app, tables, threads,
     Asked, Answered
<1>10. CASE UNCHANGED vars
  BY <1>10 DEF vars, LinkStill, app, tables, threads, Asked, Answered
<1> QED
  BY <1>6, <1>7, <1>8, <1>9, <1>10 DEF Next, Thread

\* The context is number 0.
LEMMA OnlyContext ==
    ASSUME OneContext
    PROVE  \A c \in Ctx : c = 0
<1>1. MaxContexts \in Nat
  BY ControlPathAssumption
<1> QED
  BY <1>1 DEF OneContext, Ctx

LEMMA LinkCallKeeps ==
    ASSUME ControlInv, LinkInv, NEW c \in Ctx, OpenDevice(c) \/ CloseDevice(c)
    PROVE  LinkInv'
<1>1. MayCall /\ UNCHANGED app
  BY DEF OpenDevice, CloseDevice
<1>2. Context(c) \in Object
  BY ContextFacts
<1>3. /\ [kind |-> "open", obj |-> Context(c)] \in Op
      /\ [kind |-> "close", obj |-> Context(c)] \in Op
  BY <1>2 DEF Op
<1>4. PICK op \in Op : Call(op)
  BY <1>3 DEF OpenDevice, CloseDevice
<1>5. /\ \A kind : ~Asked(kind) /\ ~Answered(kind) /\ ~Answered(kind)'
  BY <1>1, <1>4, CallFacts
<1>6. /\ hostCtx' = hostCtx /\ contextList' = contextList /\ sendWqs' = sendWqs
      /\ todo' = todo /\ pc' = pc /\ linked' = linked
  BY <1>1, <1>4 DEF Call, app, tables, threads
<1>7. linked = 0
  BY <1>5 DEF LinkInv
<1>8. \A w : w \notin 0 .. linked - 1
  BY <1>7
<1> QED
  BY <1>5, <1>6, <1>7, <1>8 DEF LinkInv

LEMMA LinkReturnKeeps ==
    ASSUME OneContext, ControlInv, LinkInv, OpenReturns \/ CloseReturns
    PROVE  LinkInv'
<1>1. PICK kind \in {"open", "close"}, state \in {"open", "closed"}, c \in Ctx :
        /\ Replied(kind) /\ c = rep.obj.ctx
        /\ hostCtx' = [hostCtx EXCEPT ![c] = state]
        /\ kind = "open" <=> state = "open"
  <2>1. CASE OpenReturns
    BY <2>1, ReplyFacts DEF OpenReturns
  <2>2. CASE CloseReturns
    BY <2>2, ReplyFacts DEF CloseReturns
  <2> QED
    BY <2>1, <2>2
<1>2. /\ \A k : ~Asked(k) /\ (Answered(k) <=> k = kind)
      /\ \A k : ~Asked(k)' /\ ~Answered(k)'
  BY <1>1, ReplyFacts
<1>3. /\ contextList' = contextList /\ sendWqs' = sendWqs /\ todo' = todo /\ pc' = pc
      /\ linked' = linked
  BY <1>1 DEF Replied, tables, threads
<1>4. hostCtx'[c] = state /\ \A d \in Ctx : d = c
  BY <1>1, OnlyContext DEF ControlInv, TypeOK
<1>5. CASE kind = "open"
  <2>1. contextList[c] = "live" /\ state = "open"
    BY <1>1, <1>2, <1>5 DEF LinkInv
  <2> QED
    BY <1>2, <1>3, <1>4, <2>1 DEF LinkInv
<1>6. CASE kind = "close"
  <2>1. (\A w \in Wq : sendWqs[w] = {}) /\ state = "closed"
    BY <1>1, <1>2, <1>6 DEF LinkInv
  <2> QED
    BY <1>2, <1>3, <1>4, <2>1 DEF LinkInv
<1> QED
  BY <1>5, <1>6

\* The handler of an open adds the send rings under the locks, before the host
\* has the context.
LEMMA LinkOpenKeeps ==
    ASSUME OneContext, ControlInv, LinkInv, LinkWq \/ OpenDone
    PROVE  LinkInv'
<1>1. Requested("open", "ctx")
  BY DEF LinkWq, OpenDone
<1>2. PICK op \in Op, c \in Ctx :
        op = req /\ c = op.obj.ctx /\ op.kind = "open"
  BY <1>1, HandlerFacts
<1>3. /\ \A k : (Asked(k) <=> k = "open") /\ ~Answered(k)
      /\ hostCtx' = hostCtx /\ UNCHANGED threads
  BY <1>1, HandlerFacts
<1>4. hostCtx[c] = "none" /\ \A d \in Ctx : d = c
  BY <1>2, <1>3, OnlyContext DEF ControlInv, ObjectInv
<1>5. todo' = todo /\ pc' = pc
  BY <1>3 DEF threads
<1>6. contextList[c] # "freed"
  BY <1>3, <1>4 DEF LinkInv
<1>7. /\ sendWqs \in [Wq -> SUBSET Ctx]
      /\ contextList \in [Ctx -> {"none", "live", "freed"}]
  BY DEF ControlInv, TypeOK
<1>8. CASE LinkWq
  <2>1. /\ sendWqs' = [sendWqs EXCEPT ![linked] = @ \cup {c}]
        /\ contextList' = contextList /\ req' = req /\ rep' = rep
    BY <1>2, <1>8 DEF LinkWq
  <2>2. \A w \in Wq : sendWqs[w] \subseteq sendWqs'[w]
    BY <1>7, <2>1
  <2>3. \A k : (Asked(k)' <=> k = "open") /\ ~Answered(k)'
    BY <1>3, <2>1 DEF Asked, Answered
  <2> QED
    BY <1>3, <1>4, <1>5, <1>6, <2>1, <2>2, <2>3 DEF LinkInv
<1>9. CASE OpenDone
  <2>1. /\ contextList' = [contextList EXCEPT ![c] = "live"]
        /\ linked' = 0 /\ Reply(op) /\ sendWqs' = sendWqs
    BY <1>2, <1>9 DEF OpenDone
  <2>2. /\ rep' = op
        /\ \A k : ~Asked(k)' /\ (Answered(k)' <=> k = "open")
    BY <1>1, <1>2, <2>1, RepliedFacts
  <2>3. contextList'[c] = "live"
    BY <1>7, <2>1
  <2> QED
    BY <1>2, <1>3, <1>4, <1>5, <2>1, <2>2, <2>3 DEF LinkInv
<1> QED
  BY <1>8, <1>9

\* The handler of a close takes the send rings from all threads, each under the
\* lock of its list, before it frees the context.
LEMMA LinkCloseKeeps ==
    ASSUME OneContext, ControlInv, LinkInv, UnlinkWq \/ CloseDone
    PROVE  LinkInv'
<1>1. Requested("close", "ctx")
  BY DEF UnlinkWq, CloseDone
<1>2. PICK op \in Op, c \in Ctx :
        op = req /\ c = op.obj.ctx /\ op.kind = "close"
  BY <1>1, HandlerFacts
<1>3. /\ \A k : (Asked(k) <=> k = "close") /\ ~Answered(k)
      /\ hostCtx' = hostCtx /\ UNCHANGED threads
  BY <1>1, HandlerFacts
<1>4. hostCtx[c] = "open" /\ c = 0 /\ \A d \in Ctx : d = 0
  BY <1>2, <1>3, OnlyContext DEF ControlInv, ObjectInv
<1>5. todo' = todo /\ pc' = pc
  BY <1>3 DEF threads
<1>6. /\ sendWqs \in [Wq -> SUBSET Ctx]
      /\ contextList \in [Ctx -> {"none", "live", "freed"}]
      /\ linked \in 0 .. NumWqs /\ NumWqs \in Nat
  BY ControlPathAssumption DEF ControlInv, TypeOK
<1>7. \A w \in 0 .. linked - 1 : sendWqs[w] = {}
  BY <1>3 DEF LinkInv
<1>8. CASE UnlinkWq
  <2>1. contextList' = contextList /\ req' = req /\ rep' = rep
    BY <1>8 DEF UnlinkWq
  <2>2. \A k : (Asked(k)' <=> k = "close") /\ ~Answered(k)'
    BY <1>3, <2>1 DEF Asked, Answered
  <2>3. CASE dpu' # "running"
    <3>1. sendWqs' = sendWqs /\ linked' = linked
      BY <1>8, <2>3 DEF UnlinkWq
    <3> QED
      BY <1>3, <1>5, <2>1, <2>2, <3>1 DEF LinkInv
  <2>4. CASE dpu' = "running"
    <3>1. /\ sendWqs' = [sendWqs EXCEPT ![linked] = @ \ {0}] /\ linked' = linked + 1
          /\ linked < NumWqs /\ pc[linked] # "loop"
      BY <1>8, <2>4 DEF UnlinkWq, Unlinked, Closed, ListFree
    <3>2. linked \in Wq
      BY <1>6, <3>1 DEF Wq
    <3>3. todo[linked] = {} /\ sendWqs[linked] \subseteq {0}
      BY <1>4, <1>6, <3>1, <3>2 DEF LinkInv
    <3>4. /\ sendWqs'[linked] = {}
          /\ \A w \in Wq : w # linked => sendWqs'[w] = sendWqs[w]
          /\ \A w \in Wq : sendWqs'[w] \subseteq sendWqs[w]
      BY <1>6, <3>1, <3>2, <3>3
    <3>5. \A w \in Wq : todo'[w] \subseteq sendWqs'[w]
      BY <1>5, <3>3, <3>4 DEF LinkInv
    <3>6. \A w \in 0 .. linked' - 1 : sendWqs'[w] = {}
      <4>1. \A w \in 0 .. linked' - 1 : w \in Wq /\ (w = linked \/ w \in 0 .. linked - 1)
        BY <1>6, <3>1 DEF Wq
      <4> QED
        BY <1>7, <3>4, <4>1
    <3>7. \A d \in Ctx : hostCtx[d] = "closed" \/ contextList[d] = "freed" =>
            \A w \in Wq : sendWqs'[w] = {}
      BY <3>4 DEF LinkInv
    <3> QED
      BY <1>3, <1>5, <2>1, <2>2, <3>5, <3>6, <3>7 DEF LinkInv
  <2> QED
    BY <2>3, <2>4
<1>9. CASE CloseDone
  <2>1. linked = NumWqs /\ linked' = 0 /\ Reply(op) /\ sendWqs' = sendWqs
    BY <1>2, <1>9 DEF CloseDone
  <2>2. \A k : ~Asked(k)' /\ (Answered(k)' <=> k = "close")
    BY <1>1, <1>2, <2>1, RepliedFacts
  <2>3. \A w \in Wq : sendWqs'[w] = {}
    BY <1>7, <2>1 DEF Wq
  <2> QED
    BY <1>3, <1>5, <2>1, <2>2, <2>3 DEF LinkInv
<1> QED
  BY <1>8, <1>9

\* A thread polls the send rings of its list, which do not change under its
\* lock.
LEMMA LinkThreadKeeps ==
    ASSUME ControlInv, LinkInv, NEW w \in Wq,
           \/ LoopLock(w) \/ LoopUnlock(w) \/ HandleSend(w) \/ RecvDone(w)
           \/ Packet(w) \/ \E c \in Ctx : RingEmpty(w, c)
    PROVE  LinkInv'
<1>1. /\ hostCtx' = hostCtx /\ contextList' = contextList /\ sendWqs' = sendWqs
      /\ linked' = linked /\ req' = req /\ rep' = rep
  BY PacketFacts DEF LoopLock, LoopUnlock, HandleSend, RecvDone, RingEmpty, Datapath, app,
     tables
<1>2. \A k : (Asked(k)' <=> Asked(k)) /\ (Answered(k)' <=> Answered(k))
  BY <1>1 DEF Asked, Answered
<1>3. /\ todo \in [Wq -> SUBSET Ctx]
      /\ pc \in [Wq -> Place]
      /\ \A v \in Wq : todo[v] \subseteq sendWqs[v]
      /\ \A v \in Wq : pc[v] # "loop" => todo[v] = {}
  BY DEF ControlInv, TypeOK, LinkInv
<1>4. \A v \in Wq : todo'[v] \subseteq sendWqs[v] /\ (pc'[v] # "loop" => todo'[v] = {})
  <2>1. CASE LoopLock(w)
    BY <1>3, <2>1 DEF LoopLock
  <2>2. CASE LoopUnlock(w)
    BY <1>3, <2>2 DEF LoopUnlock
  <2>3. CASE HandleSend(w) \/ RecvDone(w)
    BY <1>3, <2>3 DEF HandleSend, RecvDone
  <2>4. ASSUME NEW c \in Ctx, RingEmpty(w, c)
        PROVE  \A v \in Wq : /\ todo'[v] \subseteq sendWqs[v]
                             /\ pc'[v] # "loop" => todo'[v] = {}
    BY <1>3, <2>4 DEF RingEmpty
  <2>5. CASE Packet(w)
    <3>1. PICK place \in Place \ {"loop"} : pc' \in {pc, [pc EXCEPT ![w] = place]}
      BY <2>5, PacketFacts
    <3>2. todo' = todo /\ pc[w] # "loop"
      BY <2>5, PacketFacts
    <3> QED
      BY <1>3, <3>1, <3>2
  <2> QED
    BY <2>1, <2>2, <2>3, <2>4, <2>5
<1> QED
  BY <1>1, <1>2, <1>4 DEF LinkInv

LEMMA LinkKept ==
    ASSUME OneContext, ControlInv, LinkInv, [Next]_vars
    PROVE  LinkInv'
<1>1. CASE LinkStill
  <2>1. /\ todo' = todo /\ sendWqs' = sendWqs /\ pc' = pc /\ linked' = linked
        /\ hostCtx' = hostCtx /\ contextList' = contextList
        /\ Asked("open")' <=> Asked("open")
        /\ Asked("close")' <=> Asked("close")
        /\ Answered("open")' <=> Answered("open")
        /\ Answered("close")' <=> Answered("close")
        /\ Answered("open")' => rep' = rep
    BY <1>1 DEF LinkStill
  <2> QED
    BY <2>1 DEF LinkInv
<1> QED
  BY <1>1, LinkMoves, LinkCallKeeps, LinkReturnKeeps, LinkOpenKeeps, LinkCloseKeeps,
     LinkThreadKeeps

-----------------------------------------------------------------------------
(* One context: no handler and no thread misses an object *)

LEMMA FoundRuns ==
    ASSUME NEW c, NEW ids, contextList[c] = "live",
           \A id \in ids : \E o \in dpuObjs : o.ctx = c /\ IdOf(o) = id
    PROVE  Found(c, ids) = "running"
BY DEF Found

\* The objects that go with one of the DPU's are there, and its context.
LEMMA LookedUpFacts ==
    ASSUME LifeInv, LinkInv, NEW o \in dpuObjs, ~Answered("close")
    PROVE  Found(o.ctx, LookedUp(o)) = "running"
<1>1. dpuObjs \in SUBSET Object /\ objs \subseteq dpuObjs
  BY DEF LifeInv, ControlInv, TypeOK, ViewInv, HostViewLive
<1>2. o.ctx \in Ctx
  BY <1>1, ObjectFields
<1>3. contextList[o.ctx] = "live"
  BY <1>2 DEF LifeInv, ControlInv, ObjectInv, Registered, LinkInv
<1>4. \A id \in o.uses : \E p \in dpuObjs : p.ctx = o.ctx /\ IdOf(p) = id
  BY <1>1 DEF LifeInv, UsesInv, Has
<1>5. \A id \in LookedUp(o) : \E p \in dpuObjs : p.ctx = o.ctx /\ IdOf(p) = id
  BY <1>4 DEF LookedUp
<1> QED
  BY <1>3, <1>5, FoundRuns

LEMMA CreateRuns ==
    ASSUME LifeInv, LinkInv, NEW type \in Type, HandleCreate(type)
    PROVE  dpu' = "running"
<1>1. /\ Asked("create") /\ ~Answered("close") /\ req.obj \in Object
      /\ req.obj.type = type
  BY HandlerFacts, OpFields DEF LifeInv, HandleCreate
<1>2. PICK c \in Ctx : c = req.obj.ctx
  BY <1>1, ObjectFields
<1>3. contextList[c] = "live"
  BY <1>1, <1>2 DEF LifeInv, ControlInv, ObjectInv, LinkInv
<1>4. \A id \in req.obj.uses : \E p \in dpuObjs : p.ctx = c /\ IdOf(p) = id
  BY <1>1, <1>2 DEF LifeInv, UsesInv, Has, ControlInv, ViewInv, HostViewLive
<1>5. type = "pd" => ~PdExists(c)
  BY <1>1, <1>2 DEF LifeInv, UsesInv
<1>6. Found(c, req.obj.uses) = "running"
  BY <1>3, <1>4, FoundRuns
<1> QED
  BY <1>2, <1>5, <1>6 DEF HandleCreate

LEMMA DestroyRuns ==
    ASSUME LifeInv, LinkInv, NEW type \in Type, HandleDestroy(type)
    PROVE  dpu' = "running"
<1>1. Asked("destroy") /\ ~Answered("close")
  BY HandlerFacts DEF LifeInv, HandleDestroy
<1>2. req.obj \in dpuObjs
  BY <1>1 DEF LifeInv, ControlInv, ViewInv
<1> QED
  BY <1>1, <1>2, LookedUpFacts DEF HandleDestroy

LEMMA ModifyRuns ==
    ASSUME LifeInv, LinkInv, HandleModifyQp
    PROVE  dpu' = "running"
<1>1. Asked("modify") /\ ~Answered("close")
  BY HandlerFacts DEF LifeInv, HandleModifyQp
<1>2. req.obj \in dpuObjs
  BY <1>1 DEF LifeInv, ControlInv, ViewInv, HostViewLive
<1> QED
  BY <1>1, <1>2, LookedUpFacts DEF HandleModifyQp

LEMMA UnlinkRuns ==
    ASSUME OneContext, LifeInv, LinkInv, UnlinkWq
    PROVE  dpu' = "running"
<1>1. PICK op \in Op : op = req /\ Asked("close") /\ ~Answered("close")
  BY HandlerFacts DEF LifeInv, UnlinkWq
<1>2. PICK c \in Ctx : c = req.obj.ctx
  BY <1>1, OpFields, ObjectFields
<1>3. /\ hostCtx[c] = "open" /\ \A o \in dpuObjs : o.ctx # c
      /\ c = 0
  BY <1>1, <1>2, OnlyContext DEF LifeInv, ControlInv, ObjectInv
<1>4. contextList[c] = "live"
  BY <1>1, <1>3 DEF LinkInv
<1>5. CloseChecked(c) = "running"
  BY <1>3, <1>4 DEF CloseChecked, Closed
<1> QED
  BY <1>2, <1>5 DEF UnlinkWq

LEMMA HandlerRuns ==
    ASSUME OneContext, LifeInv, LinkInv, Handler
    PROVE  dpu' = "running"
<1>1. \/ HandleModifyQp \/ UnlinkWq \/ LinkWq \/ OpenDone \/ CloseDone
      \/ \E type \in Type : HandleCreate(type) \/ HandleDestroy(type)
  BY DEF Handler, HandleOpenDevice, HandleCloseDevice, HandleAllocPd, HandleRegMr,
     HandleCreateCq, HandleCreateQp, HandleDeallocPd, HandleDestroyMr, HandleDestroyCq,
     HandleDestroyQp, Type
<1>2. CASE LinkWq \/ OpenDone \/ CloseDone
  BY <1>2 DEF LinkWq, OpenDone, CloseDone, Requested
<1> QED
  BY <1>1, <1>2, CreateRuns, DestroyRuns, ModifyRuns, UnlinkRuns

\* What the DPU has, and the packets, stay as they are.
DpuLeft == UNCHANGED <<dpu, tables, lookup, threads, net>>

LEMMA HostLeavesDpu ==
    ASSUME Host
    PROVE  DpuLeft
<1>1. ASSUME NEW op, Call(op)
      PROVE  DpuLeft
  BY <1>1 DEF Call, DpuLeft
<1>2. ASSUME NEW c, NEW type, NEW uses, NEW wq, NEW blocks, Create(c, type, uses, wq, blocks)
      PROVE  DpuLeft
  BY <1>1, <1>2 DEF Create
<1>3. ASSUME NEW kind, Replied(kind)
      PROVE  DpuLeft
  BY <1>3 DEF Replied, DpuLeft
<1>4. ASSUME NEW c \in Ctx, OpenDevice(c) \/ CloseDevice(c) \/ AllocPd(c) \/ RegMr(c)
      PROVE  DpuLeft
  BY <1>1, <1>2, <1>4 DEF OpenDevice, CloseDevice, AllocPd, RegMr
<1>5. ASSUME NEW c \in Ctx, CreateCq(c) \/ \E w \in Wq : CreateQp(c, w)
      PROVE  DpuLeft
  <2>1. CASE \E type, uses, wq, blocks : Create(c, type, uses, wq, blocks)
    BY <1>2, <2>1
  <2>2. CASE ~\E type, uses, wq, blocks : Create(c, type, uses, wq, blocks)
    BY <1>5, <2>2 DEF CreateCq, CreateQp, DpuLeft
  <2> QED
    BY <2>1, <2>2
<1>6. ASSUME NEW o \in objs, Destroy(o) \/ ModifyQp(o)
      PROVE  DpuLeft
  BY <1>1, <1>6 DEF Destroy, ModifyQp
<1>7. ASSUME NEW o \in objs, Post(o) \/ Poll(o)
      PROVE  DpuLeft
  BY <1>7 DEF Post, Poll, DpuLeft
<1>8. CASE OpenReturns \/ CloseReturns \/ CreateReturns \/ DestroyReturns \/ ModifyReturns
  BY <1>3, <1>8 DEF OpenReturns, CloseReturns, CreateReturns, DestroyReturns, ModifyReturns
<1>9. CASE IoctlFails
  BY <1>9 DEF IoctlFails, DpuLeft
<1> QED
  BY <1>4, <1>5, <1>6, <1>7, <1>8, <1>9 DEF Host

\* A request in a send ring is of a queue pair the thread knows.
LEMMA HeadKnown ==
    ASSUME LifeInv, NEW c \in Ctx, NEW w \in Wq, ring[c][w] # <<>>
    PROVE  Head(ring[c][w]) \in lookup[w]
<1>1. PICK o \in objs : o.type = "qp" /\ o.number = Head(ring[c][w]) /\ o.wq = w
  BY HeadFacts
<1>2. o \in dpuObjs
  BY DEF LifeInv, ControlInv, ViewInv, HostViewLive
<1> QED
  BY <1>1, <1>2 DEF LifeInv, LookupInv

LEMMA LinkInit ==
    ASSUME Init
    PROVE  LinkInv
<1>1. /\ \A k : ~Asked(k) /\ ~Answered(k)
      /\ linked = 0
  BY DEF Init, Asked, Answered
<1>2. /\ \A w \in Wq : todo[w] = {} /\ sendWqs[w] = {}
      /\ \A c \in Ctx : hostCtx[c] = "none" /\ contextList[c] = "none"
  BY DEF Init
<1> QED
  BY <1>1, <1>2 DEF LinkInv

\* With one context: which threads have its send rings.
THEOREM LinkInvariance == ASSUME OneContext PROVE Spec => [](LifeInv /\ LinkInv)
<1>1. Init => LinkInv
  BY LinkInit
<1>2. LifeInv /\ LinkInv /\ [Next]_vars => LinkInv'
  BY LinkKept DEF LifeInv
<1> QED
  BY <1>1, <1>2, LifeInvariance, PTL DEF Spec

LEMMA ClosedClean ==
    ASSUME LifeInv, LinkInv
    PROVE  CleanClose
<1>1. dpuObjs \in SUBSET Object /\ \A o \in dpuObjs : hostCtx[o.ctx] = "open"
  BY DEF LifeInv, ControlInv, TypeOK, ObjectInv, Registered
<1>2. \A w \in Wq : \A q \in lookup[w] : \E o \in dpuObjs : IdOf(o) = <<"qp", q>>
  BY DEF LifeInv, LookupInv, IdOf
<1>3. \A c \in Ctx : hostCtx[c] = "closed" =>
        \A w \in Wq : sendWqs[w] = {} /\ todo[w] = {}
  BY DEF LinkInv
<1> QED
  BY <1>1, <1>2, <1>3 DEF CleanClose

\* With one context, a close leaves no send ring and no queue pair of the
\* context with a thread.
THEOREM ClosesClean == ASSUME OneContext PROVE Spec => []CleanClose
<1>1. LifeInv /\ LinkInv => CleanClose
  BY ClosedClean
<1> QED
  BY <1>1, LinkInvariance, PTL

-----------------------------------------------------------------------------
(* One context, and peers that stop: packets *)

\* A queue pair in a thread's active list is one the thread was handed, if it
\* is still there at all.
ActiveInv ==
    \A w \in Wq : \A q \in active[w] :
      /\ q < next["qp"]
      /\ \A o \in dpuObjs : o.type = "qp" /\ o.number = q => o.wq = w

\* Peers send to queue pairs the application has, and write to memory regions
\* it has.
PeersInv ==
    /\ peers \subseteq objs
    /\ \A o \in peers : o.type = "qp"
    /\ \A q \in QpNumber : inbound[q] # NoMessage => \E o \in peers : o.number = q
    /\ \A o \in peers : inbound[o.number].mr # None =>
         \E p \in objs : p.ctx = o.ctx /\ IdOf(p) = <<"mr", inbound[o.number].mr>>

\* A thread has the packet of a peer in its hand.
Receiving(w) == pc[w] \in {"responder", "acking"}

\* The request such a packet is of is still not acknowledged.
HandInv ==
    \A w \in Wq : Receiving(w) =>
      /\ inbound[hand[w]] # NoMessage
      /\ \E o \in peers : o.number = hand[w] /\ o.wq = w

TrafficInv == ActiveInv /\ PeersInv /\ HandInv

\* What the invariants say of the queue pair of a peer.
LEMMA PeerFacts ==
    ASSUME LifeInv, PeersInv
    PROVE  /\ \A o \in peers : /\ o \in objs /\ o \in dpuObjs /\ o.type = "qp"
                               /\ o.number \in QpNumber /\ o.wq \in Wq /\ o.ctx \in Ctx
                               /\ o.number \in lookup[o.wq] /\ ~Freed(o.number)
           /\ \A o, p \in peers : o.number = p.number => o = p
<1>1. \A o \in peers : o \in objs /\ o.type = "qp"
  BY DEF PeersInv
<1>2. \A o \in objs : o \in dpuObjs
  BY DEF LifeInv, ControlInv, ViewInv, HostViewLive
<1>3. \A o \in peers : o.number \in QpNumber /\ o.wq \in Wq /\ o.ctx \in Ctx
  BY <1>1, OwnQpFacts DEF LifeInv
<1>4. \A o \in peers : o.number \in lookup[o.wq] /\ ~Freed(o.number)
  BY <1>1, <1>2 DEF LifeInv, LookupInv, Freed, IdOf
<1>5. \A o, p \in peers : o.number = p.number => o = p
  BY <1>1, RequestFacts
<1> QED
  BY <1>1, <1>2, <1>3, <1>4, <1>5

\* Outside of create calls no object gets a number.
LEMMA NextMoves ==
    ASSUME ControlInv, [Next]_vars
    PROVE  \/ next' = next /\ dpuObjs' \subseteq dpuObjs
           \/ \E type \in Type : Makes(type) /\ next' = [next EXCEPT ![type] = @ + 1]
<1>1. CASE Host \/ Peers \/ UNCHANGED vars \/ \E w \in Wq : Thread(w)
  BY <1>1, HostLeavesDpu, ThreadFacts DEF DpuLeft, Peers, StartPeer, StopPeer, PeerSends, Others, vars,
     Datapath, tables
<1>2. CASE HandleModifyQp \/ LinkWq \/ OpenDone \/ UnlinkWq \/ CloseDone
  BY <1>2 DEF HandleModifyQp, LinkWq, OpenDone, UnlinkWq, CloseDone
<1>3. CASE HandleDeallocPd \/ HandleDestroyMr \/ HandleDestroyCq \/ HandleDestroyQp
  BY <1>3 DEF HandleDeallocPd, HandleDestroyMr, HandleDestroyCq, HandleDestroyQp,
     HandleDestroy
<1>4. CASE HandleAllocPd \/ HandleRegMr \/ HandleCreateCq \/ HandleCreateQp
  <2>1. PICK type \in Type :
          /\ HandleCreate(type)
          /\ lookup' = IF type = "qp" /\ dpu' = "running"
                         THEN Handed(req.obj.wq, next["qp"]) ELSE lookup
    BY <1>4 DEF HandleAllocPd, HandleRegMr, HandleCreateCq, HandleCreateQp, Type
  <2>2. CASE dpu' = "running"
    BY <2>1, <2>2 DEF Makes, HandleCreate
  <2>3. CASE dpu' # "running"
    BY <2>1, <2>3 DEF HandleCreate
  <2> QED
    BY <2>2, <2>3
<1> QED
  BY <1>1, <1>2, <1>3, <1>4 DEF Next, Handler, HandleOpenDevice, HandleCloseDevice

\* Only a thread changes its active list: it puts in the queue pair of a
\* request, or takes some out.
LEMMA ActiveMoves ==
    ASSUME ControlInv, [Next]_vars
    PROVE  \/ \A w \in Wq : active'[w] \subseteq active[w]
           \/ \E w \in Wq, c \in Ctx :
                /\ TakeWqe(w, c) /\ ring[c][w] # <<>>
                /\ active' = [active EXCEPT ![w] = @ \cup {Head(ring[c][w])}]
<1>1. active \in [Wq -> SUBSET QpNumber]
  BY DEF ControlInv, TypeOK
<1>2. CASE Host \/ Peers \/ UNCHANGED vars
  <2>1. active' = active
    BY <1>2, HostLeavesDpu DEF DpuLeft, Peers, StartPeer, StopPeer, PeerSends, Others, vars, threads
  <2> QED
    BY <2>1
<1>3. CASE Handler
  <2>1. \E kind, type : Requested(kind, type)
    BY <1>3 DEF Handler, HandleOpenDevice, HandleCloseDevice, HandleModifyQp, HandleAllocPd,
       HandleRegMr, HandleCreateCq, HandleCreateQp, HandleDeallocPd, HandleDestroyMr,
       HandleDestroyCq, HandleDestroyQp, LinkWq, OpenDone, UnlinkWq, CloseDone,
       HandleCreate, HandleDestroy
  <2>2. active' = active
    BY <2>1 DEF Requested, threads
  <2> QED
    BY <2>2
<1>4. ASSUME NEW w \in Wq, Thread(w), ~\E c \in Ctx : TakeWqe(w, c)
      PROVE  \A v \in Wq : active'[v] \subseteq active[v]
  <2>1. \/ active' = active
        \/ active' = [active EXCEPT ![w] = {q \in @ : sends[q] > 0}]
    BY <1>4, PacketFacts DEF Thread, LoopLock, LoopUnlock, HandleSend, RecvDone, RingEmpty
  <2> QED
    BY <1>1, <2>1
<1>5. ASSUME NEW w \in Wq, NEW c \in Ctx, TakeWqe(w, c)
      PROVE  \/ active' = active
             \/ /\ ring[c][w] # <<>>
                /\ active' = [active EXCEPT ![w] = @ \cup {Head(ring[c][w])}]
  BY <1>5 DEF TakeWqe
<1> QED
  BY <1>2, <1>3, <1>4, <1>5 DEF Next

\* Queue pairs get new numbers, and are not handed from thread to thread.
LEMMA ActiveKept ==
    ASSUME LifeInv, ActiveInv, [Next]_vars
    PROVE  ActiveInv'
<1>1. ControlInv /\ active \in [Wq -> SUBSET QpNumber] /\ next \in [Type -> Nat]
  BY DEF LifeInv, ControlInv, TypeOK
<1> DEFINE Of(q, w) == \A o \in dpuObjs : o.type = "qp" /\ o.number = q => o.wq = w
<1>2. \A w \in Wq : \A q \in active'[w] : q \in QpNumber /\ q < next["qp"] /\ Of(q, w)
  <2>1. CASE \A w \in Wq : active'[w] \subseteq active[w]
    BY <1>1, <2>1 DEF ActiveInv
  <2>2. ASSUME NEW w \in Wq, NEW c \in Ctx, ring[c][w] # <<>>,
               active' = [active EXCEPT ![w] = @ \cup {Head(ring[c][w])}]
        PROVE  \A v \in Wq : \A q \in active'[v] :
                 q \in QpNumber /\ q < next["qp"] /\ Of(q, v)
    <3>1. PICK o \in objs : o.type = "qp" /\ o.number = Head(ring[c][w]) /\ o.wq = w
      BY <2>2, HeadFacts
    <3>2. /\ o \in dpuObjs /\ o.number \in 0 .. next["qp"] - 1 /\ o.number \in QpNumber
      BY <3>1, OwnObjects, OwnQpFacts DEF LifeInv, Registered
    <3>3. \A p \in dpuObjs : p.type = "qp" /\ p.number = o.number => p = o
      BY <3>1, <3>2 DEF LifeInv, ControlInv, ObjectInv, IdOf
    <3>4. next["qp"] \in Nat
      BY <1>1 DEF Type
    <3>5. o.number \in QpNumber /\ o.number < next["qp"] /\ Of(o.number, w)
      <4>1. o.number < next["qp"]
        BY <3>2, <3>4
      <4> QED
        BY <3>1, <3>2, <3>3, <4>1
    <3>6. \A v \in Wq : active'[v] = IF v = w THEN active[v] \cup {o.number} ELSE active[v]
      BY <1>1, <2>2, <3>1
    <3>7. \A v \in Wq : \A q \in active[v] : q \in QpNumber /\ q < next["qp"] /\ Of(q, v)
      BY <1>1 DEF ActiveInv
    <3> HIDE DEF Of
    <3> QED
      BY <3>5, <3>6, <3>7
  <2> HIDE DEF Of
  <2> QED
    BY <1>1, <2>1, <2>2, ActiveMoves
<1>3. CASE next' = next /\ dpuObjs' \subseteq dpuObjs
  BY <1>2, <1>3 DEF ActiveInv
<1>4. ASSUME NEW type \in Type, Makes(type), next' = [next EXCEPT ![type] = @ + 1]
      PROVE  ActiveInv'
  <2>1. PICK m \in Object :
          /\ m.type = type /\ m.number = next[type] /\ dpuObjs' = dpuObjs \cup {m}
    BY <1>1, <1>4, MakesFacts
  <2>2. next["qp"] \in Nat /\ next'["qp"] \in Nat /\ next["qp"] <= next'["qp"]
    <3>1. next["qp"] \in Nat /\ "qp" \in Type
      BY <1>1 DEF Type
    <3>2. next'["qp"] \in {next["qp"], next["qp"] + 1}
      BY <1>1, <1>4, <3>1
    <3> QED
      BY <3>1, <3>2
  <2>3. ASSUME NEW w \in Wq, NEW q \in active'[w]
        PROVE  /\ q < next'["qp"]
               /\ \A o \in dpuObjs' : o.type = "qp" /\ o.number = q => o.wq = w
    <3>1. q \in Nat /\ q < next["qp"] /\ Of(q, w)
      BY <1>2 DEF QpNumber
    <3>2. q < next'["qp"] /\ q # next["qp"]
      BY <2>2, <3>1
    <3> QED
      BY <2>1, <3>1, <3>2
  <2> QED
    BY <2>3 DEF ActiveInv
<1> QED
  BY <1>1, <1>3, <1>4, NextMoves

\* What a thread does to the packets.
LEMMA ThreadPackets ==
    ASSUME NEW w \in Wq, Thread(w)
    PROVE  /\ objs' = objs /\ peers' = peers
           /\ \/ pc' = pc /\ hand' = hand /\ inbound' = inbound
              \/ /\ \E place \in Place \ {"responder", "acking"} :
                      pc' = [pc EXCEPT ![w] = place]
                 /\ \E q : hand' \in {hand, [hand EXCEPT ![w] = q]}
                 /\ inbound' = inbound
              \/ \E o \in peers : RecvRequest(w, o)
              \/ Respond(w) \/ SendAck(w)
<1>1. objs' = objs /\ peers' = peers
  BY ThreadFacts DEF Datapath, app
<1>2. CASE \/ LoopLock(w) \/ LoopUnlock(w) \/ HandleSend(w) \/ RecvDone(w)
           \/ \E c \in Ctx : TakeWqe(w, c) \/ RingEmpty(w, c)
  <2>1. /\ \/ pc' = pc
           \/ \E place \in Place \ {"responder", "acking"} : pc' = [pc EXCEPT ![w] = place]
        /\ hand' = hand /\ inbound' = inbound
    BY <1>2 DEF LoopLock, LoopUnlock, HandleSend, RecvDone, TakeWqe, RingEmpty, Place
  <2> QED
    BY <1>1, <2>1
<1>3. ASSUME NEW q, RecvAck(w, q)
      PROVE  /\ \/ pc' = pc /\ hand' = hand
                \/ pc' = [pc EXCEPT ![w] = "completer"] /\ hand' = [hand EXCEPT ![w] = q]
             /\ inbound' = inbound
  BY <1>3 DEF RecvAck, Receives
<1>4. CASE CompleteWqe(w) \/ StepTail(w) \/ AckDone(w)
  <2>1. /\ inbound' = inbound
        /\ \E place \in {"recv", "completer", "retiring"} : Proceeds(w, place)
    BY <1>4 DEF CompleteWqe, StepTail, AckDone
  <2>2. /\ \E place \in {"recv", "completer", "retiring"} : pc' = [pc EXCEPT ![w] = place]
        /\ hand' \in {hand, [hand EXCEPT ![w] = None]}
    BY <2>1 DEF Proceeds
  <2> QED
    BY <1>1, <2>1, <2>2 DEF Place
<1>5. "completer" \in Place \ {"responder", "acking"}
  BY DEF Place
<1>6. Thread(w)
  OBVIOUS
<1> QED
  BY <1>1, <1>2, <1>3, <1>4, <1>5, <1>6 DEF Thread, Packet

\* The application gives up an object only with a destroy call.
LEMMA ObjectsMove ==
    ASSUME ControlInv, [Next]_vars
    PROVE  objs \subseteq objs' \/ \E o \in objs : Destroy(o)
<1>1. CASE ObjectsKept \/ CreateCalled \/ CreateReturns
  BY <1>1 DEF ObjectsKept, CreateCalled, CreateReturns
<1>2. ASSUME NEW type \in Type, Makes(type) \/ Removes(type)
      PROVE  objs \subseteq objs'
  BY <1>2, MakesFacts, RemovesFacts
<1> QED
  BY <1>1, <1>2, Moves

\* The application tells its peers to stop before it destroys a queue pair or
\* a memory region.
LEMMA DestroyKeepsPeers ==
    ASSUME LifeInv, PeersInv, PeersStop, NEW o \in objs, Destroy(o)
    PROVE  PeersInv'
<1>1. /\ objs' = objs \ {o} /\ peers' = peers /\ inbound' = inbound
      /\ o.type = "qp" => o \notin peers
      /\ o.type = "mr" => \A p \in peers : p.ctx # o.ctx
  BY DestroyFacts DEF LifeInv, Destroyable, Destroy, Call, net
<1>2. \A p \in peers : p \in objs' /\ p.type = "qp"
  BY <1>1 DEF PeersInv
<1>3. \A p \in peers : inbound[p.number].mr # None =>
        \E m \in objs' : IdOf(m) = <<"mr", inbound[p.number].mr>> /\ m.ctx = p.ctx
  BY <1>1 DEF PeersInv, IdOf
<1>4. \A q \in QpNumber : inbound[q] # NoMessage => \E p \in peers : p.number = q
  BY DEF PeersInv
<1> QED
  BY <1>1, <1>2, <1>3, <1>4 DEF PeersInv

LEMMA PeersKeepPeers ==
    ASSUME LifeInv, PeersInv, Peers
    PROVE  PeersInv'
<1>1. objs' = objs /\ inbound \in [QpNumber -> Message]
  BY DEF Peers, StartPeer, StopPeer, PeerSends, Others, app, LifeInv, ControlInv, TypeOK
<1>2. /\ \A o \in peers : o \in objs /\ o.type = "qp" /\ o.number \in QpNumber
      /\ \A o, p \in peers : o.number = p.number => o = p
      /\ \A q \in QpNumber : inbound[q] # NoMessage => \E o \in peers : o.number = q
      /\ \A o \in peers : inbound[o.number].mr # None =>
           \E p \in objs : p.ctx = o.ctx /\ IdOf(p) = <<"mr", inbound[o.number].mr>>
  BY PeerFacts DEF PeersInv
<1>3. ASSUME NEW o \in objs, StartPeer(o)
      PROVE  PeersInv'
  <2>1. o.type = "qp" /\ peers' = peers \cup {o} /\ inbound' = inbound
    BY <1>3 DEF StartPeer
  <2>2. o.number \in QpNumber
    BY <2>1, OwnQpFacts DEF LifeInv
  <2>3. inbound[o.number] # NoMessage => o \in peers
    <3>1. \A p \in objs : p.type = "qp" /\ p.number = o.number => p = o
      BY <2>1, RequestFacts
    <3> QED
      BY <1>2, <2>2, <3>1
  <2>4. NoMessage.mr = None
    BY DEF NoMessage
  <2> QED
    BY <1>1, <1>2, <2>1, <2>3, <2>4 DEF PeersInv, IdOf
<1>4. ASSUME NEW o \in peers, StopPeer(o)
      PROVE  PeersInv'
  <2>1. inbound[o.number] = NoMessage /\ peers' = peers \ {o} /\ inbound' = inbound
    BY <1>4 DEF StopPeer
  <2>2. \A q \in QpNumber : inbound[q] # NoMessage => \E p \in peers' : p.number = q
    BY <1>2, <2>1
  <2> QED
    BY <1>1, <1>2, <2>1, <2>2 DEF PeersInv, IdOf
<1>5. ASSUME NEW o \in peers, PeerSends(o)
      PROVE  PeersInv'
  <2>1. PICK mr \in {None} \cup {p.number : p \in Objects(o.ctx, "mr")} :
          inbound' = [inbound EXCEPT ![o.number] = [state |-> "posted", mr |-> mr]]
    BY <1>5 DEF PeerSends
  <2>2. peers' = peers
    BY <1>5 DEF PeerSends
  <2>3. o.number \in QpNumber
    BY <1>2
  <2>4. mr # None => \E p \in objs : p.ctx = o.ctx /\ IdOf(p) = <<"mr", mr>>
    BY DEF Objects, IdOf
  <2>5. \A q \in QpNumber : inbound'[q] =
          IF q = o.number THEN [state |-> "posted", mr |-> mr] ELSE inbound[q]
    BY <1>1, <2>1, <2>3
  <2>6. \A q \in QpNumber : inbound'[q] # NoMessage => \E p \in peers : p.number = q
    BY <1>2, <2>5
  <2>7. ASSUME NEW p \in peers, inbound'[p.number].mr # None
        PROVE  \E m \in objs : m.ctx = p.ctx /\ IdOf(m) = <<"mr", inbound'[p.number].mr>>
    <3>1. CASE p.number = o.number
      BY <1>2, <2>4, <2>5, <2>7, <3>1
    <3>2. CASE p.number # o.number
      BY <1>2, <2>5, <2>7, <3>2
    <3> QED
      BY <3>1, <3>2
  <2> QED
    BY <1>1, <1>2, <2>2, <2>6, <2>7 DEF PeersInv, IdOf
<1> QED
  BY <1>3, <1>4, <1>5 DEF Peers

\* What executing or acknowledging a packet leaves of the request.
LEMMA RespondFacts ==
    ASSUME LifeInv, HandInv, PeersInv, NEW w \in Wq, Respond(w) \/ SendAck(w)
    PROVE  \E o \in peers :
             /\ o.number = hand[w] /\ o.wq = w /\ hand[w] \in QpNumber
             /\ inbound[hand[w]] # NoMessage
             /\ \E m \in Message :
                  /\ m = NoMessage \/ m.mr = inbound[hand[w]].mr
                  /\ m = NoMessage => SendAck(w)
                  /\ inbound' = [inbound EXCEPT ![hand[w]] = m]
             /\ \E place \in {"acking", "recv"} :
                  /\ pc' = [pc EXCEPT ![w] = place]
                  /\ place = "acking" => hand' = hand /\ Respond(w)
                  /\ hand' \in {hand, [hand EXCEPT ![w] = None]}
<1>1. Receiving(w)
  BY DEF Respond, SendAck, Handles, Receiving
<1>2. PICK o \in peers : /\ o.number = hand[w] /\ o.wq = w /\ hand[w] \in QpNumber
                         /\ inbound[hand[w]] # NoMessage
  BY <1>1, PeerFacts DEF HandInv
<1>3. inbound[hand[w]] \in Message
  BY <1>2 DEF LifeInv, ControlInv, TypeOK
<1>4. CASE Respond(w)
  <2>1. PICK last \in BOOLEAN, ack \in BOOLEAN :
          /\ inbound' = [inbound EXCEPT ![hand[w]] = After(@, last)]
          /\ Proceeds(w, IF ack THEN "acking" ELSE "recv")
    BY <1>4 DEF Respond
  <2>2. PICK m : /\ m = After(inbound[hand[w]], last)
                 /\ inbound' = [inbound EXCEPT ![hand[w]] = m]
    BY <2>1
  <2>3. /\ m \in Message /\ m.mr = inbound[hand[w]].mr /\ m.state \in {"executed", "begun"}
    BY <1>3, <2>2 DEF After, Message
  <2>4. m # NoMessage
    BY <2>3 DEF NoMessage
  <2>5. \E place \in {"acking", "recv"} :
          /\ pc' = [pc EXCEPT ![w] = place]
          /\ place = "acking" => hand' = hand
          /\ hand' \in {hand, [hand EXCEPT ![w] = None]}
    BY <2>1 DEF Proceeds
  <2> QED
    BY <1>2, <1>4, <2>2, <2>3, <2>4, <2>5
<1>5. CASE SendAck(w)
  <2>1. PICK m : /\ m = IF inbound[hand[w]].state = "executed" THEN NoMessage
                        ELSE inbound[hand[w]]
                 /\ inbound' = [inbound EXCEPT ![hand[w]] = m]
    BY <1>5 DEF SendAck
  <2>2. m \in Message /\ (m = NoMessage \/ m.mr = inbound[hand[w]].mr)
    BY <1>3, <2>1 DEF NoMessage, Message
  <2>3. pc' = [pc EXCEPT ![w] = "recv"] /\ hand' \in {hand, [hand EXCEPT ![w] = None]}
    BY <1>5 DEF SendAck, Proceeds
  <2> QED
    BY <1>2, <1>5, <2>1, <2>2, <2>3
<1> QED
  BY <1>4, <1>5

LEMMA PeersKept ==
    ASSUME LifeInv, PeersInv, HandInv, PeersStop, [Next]_vars
    PROVE  PeersInv'
<1>1. /\ inbound \in [QpNumber -> Message] /\ ControlInv
  BY DEF LifeInv, ControlInv, TypeOK
<1>2. CASE inbound' = inbound /\ peers' = peers /\ objs \subseteq objs'
  BY <1>2 DEF PeersInv, IdOf
<1>3. CASE Host \/ Handler \/ UNCHANGED vars
  <2>1. peers' = peers /\ inbound' = inbound
    <3>1. CASE Host \/ UNCHANGED vars
      BY <3>1, HostLeavesDpu DEF DpuLeft, vars, net
    <3>2. CASE Handler
      <4>1. \E kind, type : Requested(kind, type)
        BY <3>2 DEF Handler, HandleOpenDevice, HandleCloseDevice, HandleModifyQp,
           HandleAllocPd, HandleRegMr, HandleCreateCq, HandleCreateQp, HandleDeallocPd,
           HandleDestroyMr, HandleDestroyCq, HandleDestroyQp, LinkWq, OpenDone, UnlinkWq,
           CloseDone, HandleCreate, HandleDestroy
      <4> QED
        BY <4>1 DEF Requested, net
    <3> QED
      BY <1>3, <3>1, <3>2
  <2> QED
    BY <1>1, <1>2, <2>1, ObjectsMove, DestroyKeepsPeers
<1>4. ASSUME NEW w \in Wq, Thread(w)
      PROVE  PeersInv'
  <2>1. /\ objs' = objs /\ peers' = peers
        /\ inbound' = inbound \/ Respond(w) \/ SendAck(w)
    BY <1>4, ThreadPackets DEF RecvRequest, Receives
  <2>2. CASE Respond(w) \/ SendAck(w)
    <3>1. PICK o \in peers, m \in Message :
            /\ o.number = hand[w] /\ hand[w] \in QpNumber
            /\ m = NoMessage \/ m.mr = inbound[hand[w]].mr
            /\ inbound' = [inbound EXCEPT ![hand[w]] = m]
      BY <2>2, RespondFacts
    <3>2. \A q \in QpNumber : inbound'[q] = IF q = hand[w] THEN m ELSE inbound[q]
      BY <1>1, <3>1
    <3>3. \A q \in QpNumber : inbound'[q] # NoMessage => \E p \in peers : p.number = q
      BY <3>1, <3>2 DEF PeersInv
    <3>4. \A q \in QpNumber : inbound'[q].mr \in {None, inbound[q].mr}
      BY <3>1, <3>2 DEF NoMessage
    <3>5. \A p \in peers : p.number \in QpNumber
      BY PeerFacts
    <3>6. \A p \in peers : inbound'[p.number].mr # None =>
            \E x \in objs : x.ctx = p.ctx /\ IdOf(x) = <<"mr", inbound'[p.number].mr>>
      BY <3>4, <3>5 DEF PeersInv
    <3> QED
      BY <2>1, <3>3, <3>6 DEF PeersInv, IdOf
  <2> QED
    BY <1>2, <2>1, <2>2
<1> QED
  BY <1>3, <1>4, PeersKeepPeers DEF Next

\* A thread that executes or acknowledges a request is the only one to.
LEMMA ThreadKeepsHand ==
    ASSUME LifeInv, PeersInv, HandInv, NEW w \in Wq, Thread(w)
    PROVE  HandInv'
<1>1. /\ pc \in [Wq -> Place] /\ hand \in [Wq -> QpNumber \cup {None}]
      /\ inbound \in [QpNumber -> Message]
  BY DEF LifeInv, ControlInv, TypeOK
<1>2. \A v \in Wq : pc[v] \in {"responder", "acking"} =>
        /\ inbound[hand[v]] # NoMessage
        /\ \E o \in peers : o.number = hand[v] /\ o.wq = v
  BY DEF HandInv, Receiving
<1>3. peers' = peers
  BY ThreadPackets
<1> SUFFICES \A v \in Wq : pc'[v] \in {"responder", "acking"} =>
               /\ inbound'[hand'[v]] # NoMessage
               /\ \E o \in peers : o.number = hand'[v] /\ o.wq = v
  BY <1>3 DEF HandInv, Receiving
<1>4. CASE pc' = pc /\ hand' = hand /\ inbound' = inbound
  BY <1>2, <1>4
<1>5. ASSUME NEW place \in Place \ {"responder", "acking"}, NEW q, NEW h,
             h = hand \/ h = [hand EXCEPT ![w] = q],
             pc' = [pc EXCEPT ![w] = place], hand' = h, inbound' = inbound
      PROVE  \A v \in Wq : pc'[v] \in {"responder", "acking"} =>
               /\ inbound'[hand'[v]] # NoMessage
               /\ \E o \in peers : o.number = hand'[v] /\ o.wq = v
  <2>1. \A v \in Wq : pc'[v] \in {"responder", "acking"} =>
          v # w /\ pc[v] \in {"responder", "acking"} /\ hand'[v] = hand[v]
    BY <1>1, <1>5
  <2> QED
    BY <1>2, <1>5, <2>1
<1>6. ASSUME NEW o \in peers, RecvRequest(w, o)
      PROVE  \A v \in Wq : pc'[v] \in {"responder", "acking"} =>
               /\ inbound'[hand'[v]] # NoMessage
               /\ \E p \in peers : p.number = hand'[v] /\ p.wq = v
  <2>1. /\ o.wq = w /\ inbound[o.number] # NoMessage /\ inbound' = inbound
        /\ \/ pc' = [pc EXCEPT ![w] = "responder"] /\ hand' = [hand EXCEPT ![w] = o.number]
           \/ pc' = pc /\ hand' = hand
    BY <1>6 DEF RecvRequest, Receives, NoMessage
  <2>2. CASE pc' = pc /\ hand' = hand
    BY <1>4, <2>1, <2>2
  <2>3. CASE pc' = [pc EXCEPT ![w] = "responder"] /\ hand' = [hand EXCEPT ![w] = o.number]
    <3>1. hand'[w] = o.number
      BY <1>1, <2>3
    <3>2. \A v \in Wq : v # w => pc'[v] = pc[v] /\ hand'[v] = hand[v]
      BY <1>1, <2>3
    <3> QED
      BY <1>2, <2>1, <3>1, <3>2
  <2> QED
    BY <2>1, <2>2, <2>3
<1>7. CASE Respond(w) \/ SendAck(w)
  <2>1. PICK o \in peers, m \in Message, place \in {"acking", "recv"} :
          /\ o.number = hand[w] /\ o.wq = w /\ hand[w] \in QpNumber
          /\ m = NoMessage => SendAck(w)
          /\ inbound' = [inbound EXCEPT ![hand[w]] = m]
          /\ pc' = [pc EXCEPT ![w] = place]
          /\ place = "acking" => hand' = hand /\ Respond(w)
          /\ hand' \in {hand, [hand EXCEPT ![w] = None]}
    BY <1>7, RespondFacts
  <2>2. ~(Respond(w) /\ SendAck(w))
    BY DEF Respond, SendAck, Handles
  <2>3. ASSUME NEW v \in Wq, v # w, pc'[v] \in {"responder", "acking"}
        PROVE  /\ inbound'[hand'[v]] # NoMessage
               /\ \E p \in peers : p.number = hand'[v] /\ p.wq = v
    <3>1. pc[v] \in {"responder", "acking"} /\ hand'[v] = hand[v]
      BY <1>1, <2>1, <2>3
    <3>2. PICK p \in peers : p.number = hand[v] /\ p.wq = v
      BY <1>2, <3>1
    <3>3. hand[v] # hand[w]
      BY <2>1, <2>3, <3>2, PeerFacts
    <3>4. inbound'[hand[v]] = inbound[hand[v]]
      BY <1>1, <2>1, <3>2, <3>3, PeerFacts
    <3> QED
      BY <1>2, <3>1, <3>4
  <2>4. ASSUME pc'[w] \in {"responder", "acking"}
        PROVE  /\ inbound'[hand'[w]] # NoMessage
               /\ \E p \in peers : p.number = hand'[w] /\ p.wq = w
    <3>1. place = "acking"
      BY <1>1, <2>1, <2>4
    <3>2. m # NoMessage /\ hand' = hand
      BY <2>1, <2>2, <3>1
    <3> QED
      BY <1>1, <2>1, <3>2
  <2> QED
    BY <2>3, <2>4
<1>8. \/ \E place \in Place \ {"responder", "acking"} :
           /\ pc' = [pc EXCEPT ![w] = place]
           /\ \E q, h : /\ h = hand \/ h = [hand EXCEPT ![w] = q]
                        /\ hand' = h
           /\ inbound' = inbound
      \/ pc' = pc /\ hand' = hand /\ inbound' = inbound
      \/ \E o \in peers : RecvRequest(w, o)
      \/ Respond(w) \/ SendAck(w)
  BY ThreadPackets
<1> QED
  BY <1>4, <1>5, <1>6, <1>7, <1>8

LEMMA HandKept ==
    ASSUME LifeInv, PeersInv, HandInv, [Next]_vars
    PROVE  HandInv'
<1>1. \A v \in Wq : pc[v] \in {"responder", "acking"} =>
        /\ inbound[hand[v]] # NoMessage
        /\ \E o \in peers : o.number = hand[v] /\ o.wq = v
  BY DEF HandInv, Receiving
<1>2. CASE Host \/ Handler \/ UNCHANGED vars
  <2>1. UNCHANGED <<threads, net>>
    <3>1. CASE Host \/ UNCHANGED vars
      BY <3>1, HostLeavesDpu DEF DpuLeft, vars
    <3>2. CASE Handler
      <4>1. \E kind, type : Requested(kind, type)
        BY <3>2 DEF Handler, HandleOpenDevice, HandleCloseDevice, HandleModifyQp,
           HandleAllocPd, HandleRegMr, HandleCreateCq, HandleCreateQp, HandleDeallocPd,
           HandleDestroyMr, HandleDestroyCq, HandleDestroyQp, LinkWq, OpenDone, UnlinkWq,
           CloseDone, HandleCreate, HandleDestroy
      <4> QED
        BY <4>1 DEF Requested
    <3> QED
      BY <1>2, <3>1, <3>2
  <2>2. pc' = pc /\ hand' = hand /\ inbound' = inbound /\ peers' = peers
    BY <2>1 DEF threads, net
  <2> QED
    BY <1>1, <2>2 DEF HandInv, Receiving
<1>3. ASSUME NEW o \in objs, StartPeer(o)
      PROVE  HandInv'
  BY <1>1, <1>3 DEF StartPeer, Others, threads, HandInv, Receiving
<1>4. ASSUME NEW o \in peers, StopPeer(o)
      PROVE  HandInv'
  <2>1. /\ inbound[o.number] = NoMessage /\ peers' = peers \ {o} /\ inbound' = inbound
        /\ pc' = pc /\ hand' = hand
    BY <1>4 DEF StopPeer, Others, threads
  <2> QED
    BY <1>1, <2>1 DEF HandInv, Receiving
<1>5. ASSUME NEW o \in peers, PeerSends(o)
      PROVE  HandInv'
  <2>1. /\ inbound[o.number] = NoMessage /\ peers' = peers
        /\ pc' = pc /\ hand' = hand
        /\ \E m : inbound' = [inbound EXCEPT ![o.number] = m]
    BY <1>5 DEF PeerSends, Others, threads
  <2>2. \A p \in peers : p.number \in QpNumber
    BY PeerFacts
  <2>3. inbound \in [QpNumber -> Message]
    BY DEF LifeInv, ControlInv, TypeOK
  <2>4. \A q \in QpNumber : q # o.number => inbound'[q] = inbound[q]
    BY <2>1, <2>3
  <2>5. \A v \in Wq : pc[v] \in {"responder", "acking"} =>
          inbound'[hand[v]] = inbound[hand[v]]
    BY <1>1, <2>1, <2>2, <2>4
  <2> QED
    BY <1>1, <2>1, <2>5 DEF HandInv, Receiving
<1> QED
  BY <1>2, <1>3, <1>4, <1>5, ThreadKeepsHand DEF Next, Peers

-----------------------------------------------------------------------------
(* One context, and peers that stop: what the DPU looks up and uses *)

\* A queue pair that is there has its completion queues.
LEMMA CqStays ==
    ASSUME LifeInv, NEW q
    PROVE  ~CqFreed(q)
<1>1. \A p \in objs : p \in dpuObjs
  BY DEF LifeInv, ControlInv, ViewInv, HostViewLive
<1>2. \A o \in dpuObjs : \A id \in o.uses : \E p \in dpuObjs : IdOf(p) = id
  BY <1>1 DEF LifeInv, UsesInv, Has
<1> QED
  BY <1>2 DEF CqFreed

\* A thread that receives finds what it looks up, and what it uses of a queue
\* pair that receives.
LEMMA PacketRuns ==
    ASSUME LifeInv, TrafficInv, NEW w \in Wq, Packet(w)
    PROVE  dpu' = "running" \/ dpu' = "freed_sender"
<1>1. dpu = "running"
  BY PacketFacts DEF Datapath
<1>2. ASSUME NEW o \in peers, RecvRequest(w, o)
      PROVE  dpu' = "running"
  <2>1. o.number \in lookup[w]
    BY <1>2, PeerFacts DEF RecvRequest, TrafficInv
  <2> QED
    BY <1>1, <1>2, <2>1 DEF RecvRequest, Receives
<1>3. ASSUME NEW q \in active[w], RecvAck(w, q)
      PROVE  dpu' = "running"
  <2>1. q \in QpNumber /\ sends[q] > 0
    BY <1>3 DEF RecvAck, LifeInv, ControlInv, TypeOK
  <2>2. PICK o \in objs : o.type = "qp" /\ o.number = q
    BY <2>1, RequestFacts
  <2>3. o \in dpuObjs
    BY DEF LifeInv, ControlInv, ViewInv, HostViewLive
  <2>4. o.wq = w
    BY <1>3, <2>2, <2>3 DEF TrafficInv, ActiveInv
  <2>5. q \in lookup[w]
    BY <2>2, <2>3, <2>4 DEF LifeInv, LookupInv
  <2> QED
    BY <1>1, <1>3, <2>5 DEF RecvAck, Receives
<1>4. CASE Respond(w)
  <2>1. PICK last \in BOOLEAN : dpu' = Executed(hand[w], last)
    BY <1>4 DEF Respond
  <2>2. PICK o \in peers : o.number = hand[w] /\ hand[w] \in QpNumber
    BY <1>4, RespondFacts DEF TrafficInv
  <2>3. ~Freed(hand[w])
    BY <2>2, PeerFacts DEF TrafficInv
  <2>4. inbound[hand[w]].mr # None => ~MrFreed(inbound[hand[w]].mr)
    BY <2>2 DEF TrafficInv, PeersInv, MrFreed, LifeInv, ControlInv, ViewInv, HostViewLive
  <2> QED
    BY <1>1, <2>1, <2>3, <2>4, CqStays DEF Executed
<1>5. CASE SendAck(w)
  <2>1. PICK o \in peers : o.number = hand[w] /\ hand[w] \in QpNumber
    BY <1>5, RespondFacts DEF TrafficInv
  <2>2. ~Freed(hand[w])
    BY <2>1, PeerFacts DEF TrafficInv
  <2> QED
    BY <1>1, <1>5, <2>2 DEF SendAck
<1>6. CASE CompleteWqe(w) \/ StepTail(w) \/ AckDone(w)
  BY <1>1, <1>6, CqStays DEF CompleteWqe, StepTail, AckDone
<1> QED
  BY <1>2, <1>3, <1>4, <1>5, <1>6 DEF Packet

LEMMA ThreadRuns ==
    ASSUME LifeInv, LinkInv, TrafficInv, NEW w \in Wq, Thread(w)
    PROVE  dpu' \in {"running", "freed_active", "freed_sender"}
<1>1. dpu = "running"
  BY ThreadFacts DEF Datapath
<1>2. \A c \in todo[w] : c \in Ctx => contextList[c] # "freed"
  BY DEF LinkInv
<1>3. ASSUME NEW c \in Ctx, TakeWqe(w, c)
      PROVE  dpu' = "running"
  <2>1. ring[c][w] # <<>> /\ contextList[c] # "freed"
    BY <1>2, <1>3 DEF TakeWqe
  <2>2. Head(ring[c][w]) \in lookup[w]
    BY <2>1, HeadKnown
  <2> QED
    BY <1>1, <1>3, <2>1, <2>2 DEF TakeWqe
<1>4. ASSUME NEW c \in Ctx, RingEmpty(w, c)
      PROVE  dpu' = "running"
  BY <1>1, <1>2, <1>4 DEF RingEmpty
<1>5. CASE HandleSend(w)
  BY <1>1, <1>5 DEF HandleSend
<1>6. CASE LoopLock(w) \/ LoopUnlock(w) \/ RecvDone(w)
  BY <1>1, <1>6 DEF LoopLock, LoopUnlock, RecvDone
<1> QED
  BY <1>3, <1>4, <1>5, <1>6, PacketRuns DEF Thread

\* The only freed memory that is used is the sending half of a queue pair.
SafeInv == TrafficInv /\ dpu \in {"running", "freed_active", "freed_sender"}

LEMMA SafeInit ==
    ASSUME Init
    PROVE  SafeInv
<1>1. /\ dpu = "running" /\ peers = {}
      /\ \A w \in Wq : active[w] = {} /\ pc[w] = "lock"
      /\ \A q \in QpNumber : inbound[q] = NoMessage
  BY DEF Init
<1>2. ActiveInv /\ HandInv
  BY <1>1 DEF ActiveInv, HandInv, Receiving
<1>3. PeersInv
  BY <1>1 DEF PeersInv
<1> QED
  BY <1>1, <1>2, <1>3 DEF SafeInv, TrafficInv

LEMMA SafeKept ==
    ASSUME OneContext, PeersStop, LifeInv, LinkInv, SafeInv, [Next]_vars
    PROVE  SafeInv'
<1>1. TrafficInv'
  BY ActiveKept, PeersKept, HandKept DEF SafeInv, TrafficInv
<1>2. dpu' \in {"running", "freed_active", "freed_sender"}
  <2>1. CASE Host \/ Peers \/ UNCHANGED vars
    <3>1. dpu' = dpu
      BY <2>1, HostLeavesDpu DEF DpuLeft, Peers, StartPeer, StopPeer, PeerSends, Others, vars
    <3> QED
      BY <3>1 DEF SafeInv
  <2>2. ASSUME NEW w \in Wq, Thread(w)
        PROVE  dpu' \in {"running", "freed_active", "freed_sender"}
    BY <2>2, ThreadRuns DEF SafeInv
  <2> QED
    BY <2>1, <2>2, HandlerRuns DEF Next
<1> QED
  BY <1>1, <1>2 DEF SafeInv

\* With one context and peers that stop: what threads know and have in hand,
\* and how the DPU process can fare.
THEOREM SafeInvariance == ASSUME OneContext, PeersStop PROVE Spec => []SafeInv
<1>1. Init => SafeInv
  BY SafeInit
<1>2. LifeInv /\ LinkInv /\ SafeInv /\ [Next]_vars => SafeInv'
  BY SafeKept
<1> QED
  BY <1>1, <1>2, LinkInvariance, PTL DEF Spec

\* With one context, and peers that are told to stop before what they use is
\* destroyed, no handler, no request of a send ring and no packet makes the
\* DPU process look up an object that is not there, for any number of threads
\* and objects, through failed ioctls and an arena that runs out.
THEOREM DpuStaysAlive == ASSUME OneContext, PeersStop PROVE Spec => []DpuAlive
<1>1. SafeInv => DpuAlive
  BY DEF SafeInv, DpuAlive
<1> QED
  BY <1>1, SafeInvariance, PTL

\* Under the same assumptions no thread uses the receiving half of a queue pair,
\* a completion queue, a memory region or a context that has been freed,
\* although it holds no lock from the look-up of a packet's queue pair to the
\* acknowledgement: a peer's request is not over before send_ack has run.
THEOREM OnlySendersUseFreedMemory ==
    ASSUME OneContext, PeersStop PROVE Spec => []OnlySendersUseFreed
<1>1. SafeInv => OnlySendersUseFreed
  BY DEF SafeInv, OnlySendersUseFreed
<1> QED
  BY <1>1, SafeInvariance, PTL

=============================================================================
