---------------------------- MODULE CallOutcome ----------------------------
(***************************************************************************)
(* What a method of the Go package promises its caller about errors, with  *)
(* no threads, slots or strings: a call that the library fails returns the *)
(* message of that call, any other call returns no error, and every call   *)
(* returns.                                                                *)
(***************************************************************************)
EXTENDS Naturals

CONSTANTS
  Caller,    \* the goroutines that make the calls
  MaxCalls,  \* bound on the calls of each caller
  Success    \* a nil Go error

VARIABLES
  phase,   \* of each caller: "idle", "calling", or "failed" and not yet told
  calls,   \* the number of calls it has made
  result   \* what its last finished call returned

vars == <<phase, calls, result>>

Init ==
  /\ phase = [g \in Caller |-> "idle"]
  /\ calls = [g \in Caller |-> 0]
  /\ result = [g \in Caller |-> Success]

Call(g) ==
  /\ phase[g] = "idle"
  /\ calls[g] < MaxCalls[g]
  /\ phase' = [phase EXCEPT ![g] = "calling"]
  /\ calls' = [calls EXCEPT ![g] = @ + 1]
  /\ UNCHANGED result

\* The call went well, or it is one whose method reports no failure.
Return(g) ==
  /\ phase[g] = "calling"
  /\ phase' = [phase EXCEPT ![g] = "idle"]
  /\ result' = [result EXCEPT ![g] = Success]
  /\ UNCHANGED calls

Fail(g) ==
  /\ phase[g] = "calling"
  /\ phase' = [phase EXCEPT ![g] = "failed"]
  /\ UNCHANGED <<calls, result>>

Report(g) ==
  /\ phase[g] = "failed"
  /\ phase' = [phase EXCEPT ![g] = "idle"]
  /\ result' = [result EXCEPT ![g] = <<g, calls[g]>>]
  /\ UNCHANGED calls

Step(g) == Return(g) \/ Fail(g) \/ Report(g)

Next == \E g \in Caller : Call(g) \/ Step(g)

Spec == Init /\ [][Next]_vars

FairSpec == Spec /\ \A g \in Caller : WF_vars(Step(g))
=============================================================================
