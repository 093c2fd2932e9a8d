--------------------------- MODULE MCControlPath ---------------------------
(* Instances of ControlPath for TLC. *)
EXTENDS ControlPath

\* Two completion queues over time, one object of each other type.
TwoCqs == [t \in Type |-> IF t = "cq" THEN 2 ELSE 1]
=============================================================================
