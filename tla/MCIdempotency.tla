--------------------------- MODULE MCIdempotency ---------------------------
(***************************************************************************)
(* Small instances of Idempotency for TLC.                                 *)
(***************************************************************************)
EXTENDS Idempotency, TLC

Symmetry == Permutations(Calls)
=============================================================================
