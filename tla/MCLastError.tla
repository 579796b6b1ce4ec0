---------------------------- MODULE MCLastError ----------------------------
(***************************************************************************)
(* Values of the constants of LastError for model checking: two goroutines *)
(* free to move between two threads, and a third that is locked to a       *)
(* thread of its own.                                                      *)
(***************************************************************************)
EXTENDS LastError, TLC

CONSTANTS g1, g2, g3, t1, t2, t3

OneLocked == {g1}
OneHome == g1 :> t1
NoLocked == {}
NoHome == <<>>

\* The locked goroutine and one of the free ones make two calls, and the other
\* free one crosses their way with one.
CallsOfThree == g1 :> 2 @@ g2 :> 2 @@ g3 :> 1
CallsOfTwo == g2 :> 2 @@ g3 :> 2
=============================================================================
