--------------------------- MODULE MCKernelIoctl ---------------------------
(* Instances of KernelIoctl for TLC. *)
EXTENDS KernelIoctl, TLC

CONSTANTS t1, t2, t3, f1, f2, p1, p2

\* A process and its child share a file; the process has opened another.
TwoFiles == (t1 :> f1) @@ (t2 :> f1) @@ (t3 :> f2)

ParentAndChild == (t1 :> p1) @@ (t2 :> p2) @@ (t3 :> p1)
=============================================================================
