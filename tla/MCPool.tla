------------------------------- MODULE MCPool -------------------------------
(***************************************************************************)
(* Pool on a machine scaled down: bytes of two bits, longs of four.        *)
(***************************************************************************)
EXTENDS Pool, TLC

Symmetry == Permutations(Blocks)
=============================================================================
