------------------------------ MODULE MCHandle ------------------------------
(***************************************************************************)
(* Values of the constants of Handle for model checking: up to three       *)
(* goroutines that share two handles, one of which the client may always   *)
(* close.                                                                  *)
(***************************************************************************)
EXTENDS Handle

CONSTANTS g1, g2, g3, h1, h2, net
=============================================================================
