----------------------------- MODULE MCTransfer -----------------------------
(***************************************************************************)
(* Values of the constants of Transfer for model checking: calls with up   *)
(* to two strings, scans that find up to two miners, and a collected Vec   *)
(* that may have room for one more.                                        *)
(***************************************************************************)
EXTENDS Transfer

CONSTANT c1
=============================================================================
