----------------------------- MODULE HostScope -----------------------------
(***************************************************************************)
(* What a Factory promises about its configuration: one value that each    *)
(* call changes at once or not at all.                                     *)
(***************************************************************************)
EXTENDS Sequences

CONSTANTS
  HostRange,  \* the subnets, ranges and octets that describe hosts
  Limit,      \* the concurrency limits a caller sets
  Setting     \* the values of all other options, taken together

VARIABLES
  hosts,   \* what has been appended so far, in order
  limit,   \* the concurrency limit: <<"set", l>>, or <<"adapted", list>> to a list
  setting  \* the other options

vars == <<hosts, limit, setting>>

Init ==
  /\ hosts \in {<<>>} \cup {<<r>> : r \in HostRange}
  /\ limit \in {"set"} \X Limit
  /\ setting \in Setting

AppendHosts(r) == hosts' = Append(hosts, r) /\ UNCHANGED <<limit, setting>>

SetLimit(l) == limit' = <<"set", l>> /\ UNCHANGED <<hosts, setting>>

Adapt == limit' = <<"adapted", hosts>> /\ UNCHANGED <<hosts, setting>>

SetOther(s) == setting' = s /\ UNCHANGED <<hosts, limit>>

Next ==
  \/ \E r \in HostRange : AppendHosts(r)
  \/ \E l \in Limit : SetLimit(l)
  \/ Adapt
  \/ \E s \in Setting : SetOther(s)

Spec == Init /\ [][Next]_vars
=============================================================================
