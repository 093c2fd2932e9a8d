--------------------------- MODULE MCRecvScatter ---------------------------
(* Instances of RecvScatter for TLC. *)
EXTENDS RecvScatter

\* Lists shorter than, as long as and longer than a packet; one to three
\* elements.
SomeLists == {<<3>>, <<1, 2>>, <<1, 1, 2>>}
=============================================================================
