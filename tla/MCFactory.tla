----------------------------- MODULE MCFactory -----------------------------
(***************************************************************************)
(* Values of the constants of Factory for model checking: a C int of three *)
(* bits, and ranges that fit into it alone but not together.               *)
(***************************************************************************)
EXTENDS Factory, TLC

CONSTANTS g1, g2, g3, small, large, junk, l1, s1, s2

Sizes == small :> 1 @@ large :> 3
=============================================================================
