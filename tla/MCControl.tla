----------------------------- MODULE MCControl -----------------------------
(***************************************************************************)
(* Values of the constants of Control for model checking: one value of     *)
(* each variant besides the one never set, integers of five bits, seconds  *)
(* of four nanoseconds, and replies with good, null, bad and unknown       *)
(* targets.                                                                *)
(***************************************************************************)
EXTENDS Control, TLC

CONSTANTS c1, c2, w0, w1, h0, h1, m0, m1

Replied(shape, field) == [shape |-> shape, field |-> field]

MCTargets ==
  {Object("Power", p) : p \in {w1, Null, Bad}}
    \cup {Object("HashRate", p) : p \in {h1, Bad}}
    \cup {Object("MiningMode", m1)}
    \cup {Replied("string", [Empty EXCEPT !["MiningMode"] = m1])}
    \cup {Replied("object", Empty), Replied("null", Empty)}

MCUptimes ==
  {[form |-> "object", secs |-> 3, nanos |-> 3],
   [form |-> "bare", secs |-> 21, nanos |-> 0],
   [form |-> "null", secs |-> 0, nanos |-> 0],
   [form |-> "bad", secs |-> 0, nanos |-> 0]}

MCReply == [target : MCTargets, uptime : MCUptimes]

MCAt == {-2, 0}

Symmetry == Permutations(Caller)
=============================================================================
