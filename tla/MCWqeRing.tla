----------------------------- MODULE MCWqeRing -----------------------------
(* Instances of WqeRing for TLC; the constants are given in the .cfg files. *)
EXTENDS WqeRing
=============================================================================
