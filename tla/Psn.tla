-------------------------------- MODULE Psn --------------------------------
(***************************************************************************)
(* Packet sequence numbers of the RoCE transport (include/rxe/rxe_param.h, *)
(* include/rxe/rxe_hdr.h): 24-bit numbers compared by serial arithmetic.   *)
(* The width is the parameter PsnMod, 2^24 in the code, so that TLC meets  *)
(* the wrap-around on a small instance.                                    *)
(***************************************************************************)
EXTENDS Integers

CONSTANT PsnMod            \* BTH_PSN_MASK + 1

ASSUME PsnModAssumption == PsnMod \in Nat /\ PsnMod > 1 /\ PsnMod % 2 = 0

PSN == 0 .. PsnMod - 1

\* (a + n) & BTH_PSN_MASK.
PsnAdd(a, n) == (a + n) % PsnMod

\* Mutant: the difference taken as a plain integer, as if psn_compare did not
\* shift the sign bit of the 24-bit difference into place.
PsnCompareUnshifted(a, b) == a - b

\* psn_compare: (a - b) << 8 read as a signed 32-bit integer, that is the
\* difference modulo PsnMod brought into [-PsnMod/2, PsnMod/2).  Only its
\* sign is used, the scaling by 256 is dropped.
PsnCompare(a, b) ==
    LET d == (a - b) % PsnMod
    IN  IF d < PsnMod \div 2 THEN d ELSE d - PsnMod
=============================================================================
