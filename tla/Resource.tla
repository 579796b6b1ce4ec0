------------------------------ MODULE Resource ------------------------------
(***************************************************************************)
(* What the Rust side must be able to rely on: a handle it has given out   *)
(* is used only while it is live, by any number of calls at a time, and    *)
(* freed once, when no call uses it.                                       *)
(***************************************************************************)
CONSTANTS
  User,  \* whoever calls the library
  Item   \* the boxes behind the handles

VARIABLES
  state,  \* "none", "live" or "freed"
  users   \* the calls that work on each box

vars == <<state, users>>

Init ==
  /\ state = [i \in Item |-> "none"]
  /\ users = [i \in Item |-> {}]

Create(i) ==
  /\ state[i] = "none"
  /\ state' = [state EXCEPT ![i] = "live"]
  /\ UNCHANGED users

Enter(u, i) ==
  /\ state[i] = "live"
  /\ u \notin users[i]
  /\ users' = [users EXCEPT ![i] = @ \cup {u}]
  /\ UNCHANGED state

Leave(u, i) ==
  /\ u \in users[i]
  /\ users' = [users EXCEPT ![i] = @ \ {u}]
  /\ UNCHANGED state

Free(i) ==
  /\ state[i] = "live"
  /\ users[i] = {}
  /\ state' = [state EXCEPT ![i] = "freed"]
  /\ UNCHANGED users

Next ==
  \E i \in Item :
    \/ Create(i)
    \/ Free(i)
    \/ \E u \in User : Enter(u, i) \/ Leave(u, i)

Spec == Init /\ [][Next]_vars
=============================================================================
