----------------------------- MODULE LastError -----------------------------
(***************************************************************************)
(* How an error crosses the C boundary.  The Rust crate keeps one slot per *)
(* OS thread (LAST_ERROR, asic-rs-ffi/src/lib.rs); every fallible function *)
(* empties the slot of the thread it runs on and fills it when it fails.   *)
(* The Go package learns that a call failed from its return value and then *)
(* fetches the text with a second C call (lastError, asicrs/cgo.go), which *)
(* borrows the slot's string, and a copy of that string made back in Go.   *)
(* A goroutine keeps its thread while it is inside one C call and may be   *)
(* moved to another between two of them.                                   *)
(*                                                                         *)
(* A message is the pair <<g, n>>: the one the n-th call of goroutine g    *)
(* produced.  Each set_error allocates a string of its own, so a message   *)
(* also stands for the address of the string that holds it.  Errors that   *)
(* the Go package finds by itself (a closed handle, JSON that does not     *)
(* decode) do not come from the library: a call without any other error    *)
(* counts as a success here.                                               *)
(***************************************************************************)
EXTENDS Naturals

CONSTANTS
  Goroutine,  \* the goroutines that use the package
  Thread,     \* the OS threads the Go runtime runs them on
  Locked,     \* the goroutines whose caller has called runtime.LockOSThread
  Home,       \* the thread each of those is wired to
  MaxCalls,   \* bound on the calls of each goroutine
  NoError,    \* None: an empty slot
  Success,    \* a nil Go error
  Unknown,    \* the Go error "unknown asic-rs error"
  Garbage     \* what a freed string may be read as

Message == Goroutine \X Nat

ASSUME LockedAssumption ==
  /\ Locked \subseteq Goroutine
  /\ Home \in [Locked -> Thread]
  /\ \A g, h \in Locked : Home[g] = Home[h] => g = h

ASSUME MaxCallsAssumption == MaxCalls \in [Goroutine -> Nat]

ASSUME SentinelAssumption ==
  /\ {NoError, Success, Unknown, Garbage} \cap Message = {}
  /\ Success \notin {Unknown, Garbage}

VARIABLES
  pc,          \* where each goroutine is in a call
  class,       \* which kind of library function it called last
  calls,       \* how many calls it has made
  at,          \* the thread its last C call ran on
  slot,        \* LAST_ERROR of each thread
  borrowed,    \* the string lastError got a pointer to and has not copied yet
  failed,      \* history: did the library fail the goroutine's last call?
  result,      \* the library error its last finished call returned
  lastFailure  \* history: what the last call finished on each thread died of

vars == <<pc, class, calls, at, slot, borrowed, failed, result, lastFailure>>

(***************************************************************************)
(* The exported functions by what they do to the slot, and by what the Go  *)
(* method around them does with a failure:                                 *)
(*   "query"    empties the slot first, and the method reports a failure   *)
(*              (the constructors, With*, GetMiner, Scan, the getters,     *)
(*              SetAuth, UpgradeFirmware);                                 *)
(*   "option"   empties the slot first, and the method swallows a failure  *)
(*              (the factory's Set*, Len, IsEmpty, Supports);              *)
(*   "control"  parses its JSON and tests its handle before the slot is    *)
(*              emptied (Set*Config, SetFaultLight, SetPowerLimit,         *)
(*              Restart, Pause, Resume), and the method reports a failure. *)
(* The free functions and asic_rs_version leave the slot alone and cannot  *)
(* fail, so that they need no class.                                       *)
(***************************************************************************)
Class == {"query", "option", "control"}

Reports(c) == c # "option"

InC(g) == pc[g] \in {"entered", "running"}

Occupied(t) == \E g \in Goroutine : InC(g) /\ at[g] = t

\* A locked goroutine runs on its own thread only, and nobody else does.
MayRunOn(g) ==
  IF g \in Locked THEN {Home[g]} ELSE Thread \ {Home[h] : h \in Locked}

FreeThread(g) == {t \in MayRunOn(g) : ~Occupied(t)}

OwnMessage(g) == <<g, calls[g]>>

-----------------------------------------------------------------------------
(* A method call: entering the library.                                    *)

Call(g, c) ==
  /\ pc[g] = "idle"
  /\ calls[g] < MaxCalls[g]
  /\ \E t \in FreeThread(g) : at' = [at EXCEPT ![g] = t]
  /\ pc' = [pc EXCEPT ![g] = "entered"]
  /\ class' = [class EXCEPT ![g] = c]
  /\ calls' = [calls EXCEPT ![g] = @ + 1]
  /\ failed' = [failed EXCEPT ![g] = FALSE]
  /\ UNCHANGED <<slot, borrowed, result, lastFailure>>

\* Mutant: a function that does not clear the slot.
ClearErrorSkipped(g) ==
  /\ pc[g] = "entered"
  /\ pc' = [pc EXCEPT ![g] = "running"]
  /\ UNCHANGED <<class, calls, at, slot, borrowed, failed, result, lastFailure>>

\* clear_error drops the string of the thread's previous failure.
ClearError(g) ==
  /\ pc[g] = "entered"
  /\ pc' = [pc EXCEPT ![g] = "running"]
  /\ slot' = [slot EXCEPT ![at[g]] = NoError]
  /\ UNCHANGED <<class, calls, at, borrowed, failed, result, lastFailure>>

\* Mutant: null, false or -1 without set_error.
ReturnFailureSilently(g) ==
  /\ lastFailure' = [lastFailure EXCEPT ![at[g]] = OwnMessage(g)]
  /\ failed' = [failed EXCEPT ![g] = TRUE]
  /\ UNCHANGED slot

\* set_error, and the return of null, false or -1 to Go.
ReturnFailure(g) ==
  /\ slot' = [slot EXCEPT ![at[g]] = OwnMessage(g)]
  /\ lastFailure' = [lastFailure EXCEPT ![at[g]] = OwnMessage(g)]
  /\ failed' = [failed EXCEPT ![g] = TRUE]

\* Mutant: the early return of a control function leaves the slot to the others.
RejectArgumentsSilently(g) ==
  /\ pc[g] = "entered"
  /\ class[g] = "control"
  /\ ReturnFailureSilently(g)
  /\ pc' = [pc EXCEPT ![g] = "failed"]
  /\ UNCHANGED <<class, calls, at, borrowed, result>>

\* parse_json or miner_ref! rejects the arguments of a control function
\* before control_bool_result has emptied the slot.
RejectArguments(g) ==
  /\ pc[g] = "entered"
  /\ class[g] = "control"
  /\ ReturnFailure(g)
  /\ pc' = [pc EXCEPT ![g] = "failed"]
  /\ UNCHANGED <<class, calls, at, borrowed, result>>

Fail(g) ==
  /\ pc[g] = "running"
  /\ ReturnFailure(g)
  /\ IF Reports(class[g])
       THEN pc' = [pc EXCEPT ![g] = "failed"] /\ UNCHANGED result
       ELSE /\ pc' = [pc EXCEPT ![g] = "idle"]
            /\ result' = [result EXCEPT ![g] = Success]
  /\ UNCHANGED <<class, calls, at, borrowed>>

Succeed(g) ==
  /\ pc[g] = "running"
  /\ pc' = [pc EXCEPT ![g] = "idle"]
  /\ result' = [result EXCEPT ![g] = Success]
  /\ lastFailure' = [lastFailure EXCEPT ![at[g]] = NoError]
  /\ UNCHANGED <<class, calls, at, slot, borrowed, failed>>

-----------------------------------------------------------------------------
(* lastError: a second, short C call, on whatever thread the goroutine is  *)
(* on by now, and the copy of what it returned.                            *)

\* Mutant: the null of asic_rs_last_error is copied like a string.
ReadLastErrorUnchecked(g) ==
  /\ pc[g] = "failed"
  /\ \E t \in FreeThread(g) :
       /\ at' = [at EXCEPT ![g] = t]
       /\ borrowed' = [borrowed EXCEPT ![g] = slot[t]]
  /\ pc' = [pc EXCEPT ![g] = "copying"]
  /\ UNCHANGED <<class, calls, slot, failed, result, lastFailure>>

\* Mutant: an empty slot means that there was no error.
ReadLastErrorTrusting(g) ==
  /\ pc[g] = "failed"
  /\ \E t \in FreeThread(g) :
       /\ at' = [at EXCEPT ![g] = t]
       /\ slot[t] = NoError
  /\ pc' = [pc EXCEPT ![g] = "idle"]
  /\ result' = [result EXCEPT ![g] = Success]
  /\ UNCHANGED <<class, calls, slot, borrowed, failed, lastFailure>>

\* Mutant: a slot that is not thread-local.
ReadLastErrorOfAnyone(g) ==
  /\ pc[g] = "failed"
  /\ \E t \in FreeThread(g), u \in Thread :
       /\ at' = [at EXCEPT ![g] = t]
       /\ slot[u] # NoError
       /\ borrowed' = [borrowed EXCEPT ![g] = slot[u]]
  /\ pc' = [pc EXCEPT ![g] = "copying"]
  /\ UNCHANGED <<class, calls, slot, failed, result, lastFailure>>

ReadLastError(g) ==
  /\ pc[g] = "failed"
  /\ \E t \in FreeThread(g) :
       /\ at' = [at EXCEPT ![g] = t]
       /\ IF slot[t] = NoError
            THEN /\ pc' = [pc EXCEPT ![g] = "idle"]
                 /\ result' = [result EXCEPT ![g] = Unknown]
                 /\ UNCHANGED borrowed
            ELSE /\ pc' = [pc EXCEPT ![g] = "copying"]
                 /\ borrowed' = [borrowed EXCEPT ![g] = slot[t]]
                 /\ UNCHANGED result
  /\ UNCHANGED <<class, calls, slot, failed, lastFailure>>

\* The string is alive exactly as long as it is the one in the slot.
BorrowAlive(g) == slot[at[g]] = borrowed[g]

CopyError(g) ==
  /\ pc[g] = "copying"
  /\ pc' = [pc EXCEPT ![g] = "idle"]
  /\ \E text \in {borrowed[g]} \cup (IF BorrowAlive(g) THEN {} ELSE {Garbage}) :
       result' = [result EXCEPT ![g] = text]
  /\ borrowed' = [borrowed EXCEPT ![g] = NoError]
  /\ UNCHANGED <<class, calls, at, slot, failed, lastFailure>>

-----------------------------------------------------------------------------

Init ==
  /\ pc = [g \in Goroutine |-> "idle"]
  /\ class = [g \in Goroutine |-> "query"]
  /\ calls = [g \in Goroutine |-> 0]
  /\ at \in [Goroutine -> Thread]
  /\ slot = [t \in Thread |-> NoError]
  /\ borrowed = [g \in Goroutine |-> NoError]
  /\ failed = [g \in Goroutine |-> FALSE]
  /\ result = [g \in Goroutine |-> Success]
  /\ lastFailure = [t \in Thread |-> NoError]

\* What the library, the scheduler and the Go method do on their own once a
\* method has been called.
Step(g) ==
  \/ ClearError(g)
  \/ RejectArguments(g)
  \/ Fail(g)
  \/ Succeed(g)
  \/ ReadLastError(g)
  \/ CopyError(g)

Next == \E g \in Goroutine : Step(g) \/ \E c \in Class : Call(g, c)

Fairness == \A g \in Goroutine : WF_vars(Step(g))

Spec == Init /\ [][Next]_vars

FairSpec == Spec /\ Fairness
-----------------------------------------------------------------------------
(* Properties.                                                             *)

\* Every variable keeps its type: slots and borrowed strings are messages,
\* returned errors are messages or one of the three other results.
TypeOK ==
  /\ pc \in [Goroutine -> {"idle", "entered", "running", "failed", "copying"}]
  /\ class \in [Goroutine -> Class]
  /\ calls \in [Goroutine -> Nat]
  /\ at \in [Goroutine -> Thread]
  /\ slot \in [Thread -> Message \cup {NoError}]
  /\ borrowed \in [Goroutine -> Message \cup {NoError}]
  /\ failed \in [Goroutine -> BOOLEAN]
  /\ result \in [Goroutine -> Message \cup {Success, Unknown, Garbage}]
  /\ lastFailure \in [Thread -> Message \cup {NoError}]

\* The crate's side of the bargain: on a thread that runs no call, the slot
\* tells what became of the last call that finished there.  A success leaves
\* it empty, whatever failed before; a failure leaves the message of that very
\* call, also when a control function gives up before it has cleared the slot.
SlotReflectsLastCall ==
  \A t \in Thread : ~Occupied(t) => slot[t] = lastFailure[t]

\* However goroutines are moved about, a method that reports failures returns
\* a nil error exactly when the library did not fail its call: when lastError
\* finds the slot of its new thread empty it makes up an error instead of
\* returning none (cgo.go, "unknown asic-rs error").
FailureNeverSilent ==
  \A g \in Goroutine :
    pc[g] = "idle" =>
      (result[g] = Success <=> ~(failed[g] /\ Reports(class[g])))

\* A caller that has locked its goroutine to its thread gets from a failed
\* method the error of that very call, and from nothing else an error,
\* whatever other goroutines do in the meantime.
LockedErrorIsOwn ==
  \A g \in Locked :
    pc[g] = "idle" =>
      result[g] = IF failed[g] /\ Reports(class[g]) THEN OwnMessage(g)
                                                    ELSE Success

\* What a locked goroutine's calls died of is told to nobody else.
LockedErrorsStayPrivate ==
  \A g \in Goroutine, h \in Locked :
    \A n \in 0 .. MaxCalls[h] : result[g] = <<h, n>> => g = h

\* Claimed for every goroutine by "set a thread-local error message retrievable
\* via asic_rs_last_error" (lib.rs:11-12) and "lastError returns the
\* thread-local error from the Rust FFI, if any" (cgo.go:21): the error a
\* failed method returns is the one of its own call.
ErrorIsOwn ==
  \A g \in Goroutine :
    pc[g] = "idle" /\ failed[g] /\ Reports(class[g]) => result[g] = OwnMessage(g)

-----------------------------------------------------------------------------
(* The locked callers see the calls CallOutcome describes.                 *)

Phase(g) ==
  CASE pc[g] = "idle" -> "idle"
    [] InC(g) -> "calling"
    [] OTHER -> "failed"

Outcome == INSTANCE CallOutcome WITH
  Caller <- Locked,
  phase  <- [g \in Locked |-> Phase(g)],
  calls  <- [g \in Locked |-> calls[g]],
  result <- [g \in Locked |-> result[g]]

\* For the locked callers the two C calls and the copy behave as one call that
\* ends in success or in its own error, and every call ends.
RefinesOutcome == Outcome!FairSpec
=============================================================================
