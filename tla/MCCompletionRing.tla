-------------------------- MODULE MCCompletionRing --------------------------
(* Instances of CompletionRing for TLC. *)
EXTENDS CompletionRing

\* Memory never used before.
FreshMemory == {0}

\* Memory an earlier ring had received up to two turns of CQEs in.
ReusedMemory == 0 .. 2 * N
=============================================================================
