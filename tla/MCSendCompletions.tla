------------------------- MODULE MCSendCompletions -------------------------
(* Instances of SendCompletions for TLC. *)
EXTENDS SendCompletions

\* All queue pairs use one CQ.
OneCq == [q \in QPs |-> CHOOSE c \in CQs : TRUE]
=============================================================================
