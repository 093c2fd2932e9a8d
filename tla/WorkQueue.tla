----------------------------- MODULE WorkQueue -----------------------------
(***************************************************************************)
(* What a work queue between the host library and the DPU promises: a      *)
(* bounded first-in first-out queue.  Work requests are numbered in the    *)
(* order they are posted; each is handed over once, in that order.         *)
(***************************************************************************)
EXTENDS Naturals, Sequences

CONSTANTS Capacity, MaxPosts

VARIABLES
    posted,    \* number of work requests posted
    queue,     \* posted and not handed over
    got        \* handed over, in order

vars == <<posted, queue, got>>

Init ==
    /\ posted = 0
    /\ queue = <<>>
    /\ got = <<>>

Put ==
    /\ posted < MaxPosts
    /\ Len(queue) < Capacity
    /\ queue' = Append(queue, posted)
    /\ posted' = posted + 1
    /\ UNCHANGED got

Get ==
    /\ queue # <<>>
    /\ got' = Append(got, Head(queue))
    /\ queue' = Tail(queue)
    /\ UNCHANGED posted

Next == Put \/ Get

Spec == Init /\ [][Next]_vars
=============================================================================
