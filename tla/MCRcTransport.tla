--------------------------- MODULE MCRcTransport ---------------------------
(* Instances of RcTransport for TLC: two endpoints and the workloads of the
   runs. *)
EXTENDS RcTransport

CONSTANTS a, b

MCEndpoint == {a, b}
MCPeer == (a :> b) @@ (b :> a)

Send(n) == [op |-> "SEND", len |-> n, signal |-> TRUE]
Write(n) == [op |-> "WRITE", len |-> n, signal |-> TRUE]
Silent(wr) == [wr EXCEPT !.signal = FALSE]
Driver1 == [op |-> "DRIVER1", len |-> 1, signal |-> TRUE]

\* One requester, messages of one to five packets, the PSNs wrap around; the
\* other end only runs the pipe test's DRIVER1 requests.
StreamWorkload ==
    (a :> <<Send(1), Write(3), Silent(Send(2)), Write(5), Send(1)>>)
    @@ (b :> <<Driver1, Driver1>>)

\* One requester over a faulty network; the other end posts an empty SEND.
FaultyWorkload ==
    (a :> <<Write(2), Send(3), Send(1)>>) @@ (b :> <<Send(0)>>)

\* An empty SEND between others.
EmptyWorkload ==
    (a :> <<Send(1), Send(0), Write(2)>>) @@ (b :> <<>>)

\* The first message of the queue pair is a SEND of several packets.
FirstSendWorkload ==
    (a :> <<Send(5), Write(1)>>) @@ (b :> <<>>)

\* Both ends send.
BothWaysWorkload ==
    (a :> <<Send(1), Send(1)>>) @@ (b :> <<Send(1), Send(1)>>)
=============================================================================
