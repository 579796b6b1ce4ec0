--------------------------- MODULE RemoteSetting ---------------------------
(***************************************************************************)
(* What the control methods promise about the setting of a miner.  It is a *)
(* register that each call writes at most once: a call that reports true   *)
(* has written it between being made and returning, one that reports false *)
(* has not and never will, and one that reports an error may have, or may  *)
(* still do so at any later time.  A goroutine makes one call at a time.   *)
(***************************************************************************)
EXTENDS Integers

CONSTANTS
  Caller,   \* the goroutines
  Call,     \* the numbers of their calls
  Meaning,  \* what the argument of a call may stand for
  Nobody,   \* the caller of a call that has not been made
  Nothing   \* an argument that stands for nothing in particular

VARIABLES
  owner,   \* who made each call
  meant,   \* what its argument stands for
  effect,  \* what it has done: "none", "applied", or "refused"
  report,  \* what it has returned: "none", "true", "false", "error"
  writer,  \* the call that wrote the setting, or 0
  value    \* the setting, once a call has written it

vars == <<owner, meant, effect, report, writer, value>>

Init ==
  /\ owner = [n \in Call |-> Nobody]
  /\ meant = [n \in Call |-> Nothing]
  /\ effect = [n \in Call |-> "none"]
  /\ report = [n \in Call |-> "none"]
  /\ writer = 0
  /\ value = Nothing

\* The latest call of all, and the only one of g.
Begin(g, n) ==
  /\ \A k \in Call : owner[k] # Nobody => k < n
  /\ \A k \in Call : owner[k] = g => report[k] # "none"
  /\ owner' = [owner EXCEPT ![n] = g]
  /\ \E m \in Meaning \cup {Nothing} : meant' = [meant EXCEPT ![n] = m]
  /\ UNCHANGED <<effect, report, writer, value>>

Take(n, e) ==
  /\ owner[n] # Nobody /\ effect[n] = "none"
  /\ report[n] \in {"none", "error"}
  /\ effect' = [effect EXCEPT ![n] = e]
  /\ UNCHANGED <<owner, meant, report>>

Write(n) ==
  /\ Take(n, "applied")
  /\ writer' = n
  /\ value' \in IF meant[n] = Nothing THEN Meaning ELSE {meant[n]}

Refuse(n) == Take(n, "refused") /\ UNCHANGED <<writer, value>>

Return(n, r) ==
  /\ owner[n] # Nobody /\ report[n] = "none"
  /\ r = "true" => effect[n] = "applied"
  /\ r = "false" => effect[n] # "applied"
  /\ report' = [report EXCEPT ![n] = r]
  /\ UNCHANGED <<owner, meant, effect, writer, value>>

Next ==
  \E n \in Call :
    \/ \E g \in Caller : Begin(g, n)
    \/ Write(n)
    \/ Refuse(n)
    \/ \E r \in {"true", "false", "error"} : Return(n, r)

Spec == Init /\ [][Next]_vars
=============================================================================
