------------------------------ MODULE Transfer ------------------------------
(***************************************************************************)
(* What one method call of the Go package allocates, and who frees it.     *)
(* Strings for the library come from C.CString and are released by         *)
(* deferred C.free calls; a string from the library is copied or decoded   *)
(* and given back to asic_rs_free_string; a box is wrapped in a Go object  *)
(* that owns it from then on; and asic_rs_factory_scan leaks a whole array *)
(* of boxes, each of which Scan wraps before it gives the array back.      *)
(*                                                                         *)
(* What the library does with a box during a call is the subject of        *)
(* Handle, and the text of a failure that of LastError; here a failure is  *)
(* a call that has allocated nothing.                                      *)
(***************************************************************************)
EXTENDS Naturals

CONSTANTS
  Caller,      \* the goroutines
  MaxCalls,    \* bound on the calls of one goroutine
  MaxStrings,  \* the strings a method passes at most (NewFactoryFromOctets: 4)
  MaxFound,    \* bound on the miners one scan finds
  Slack        \* by how much the capacity of a collected Vec may exceed its length

ASSUME BoundAssumption ==
  /\ MaxCalls \in Nat
  /\ MaxStrings \in Nat
  /\ MaxFound \in Nat \ {0}
  /\ Slack \subseteq Nat /\ 0 \in Slack

(***************************************************************************)
(* The methods by what they own: how many strings they pass, whether they  *)
(* encode these as JSON first, and what they get back.                     *)
(***************************************************************************)
Method ==
  \* With*, SetAuth, UpgradeFirmware; Set*Config
  [strings : 1 .. MaxStrings, encodes : BOOLEAN, yields : {"status"}]
    \* constructors, GetMiner, ScanMiner
    \cup [strings : 0 .. MaxStrings, encodes : {FALSE}, yields : {"box"}]
    \* IP, Summary, Hosts and the getters; Scan
    \cup [strings : {0}, encodes : {FALSE}, yields : {"text", "list"}]

Slot ==
  ({"string"} \X (1 .. MaxStrings)) \cup ({"box"} \X (1 .. MaxFound))
    \cup ({"text", "list"} \X {1})

\* Whatever the n-th call of a goroutine allocates outside the Go heap.
Block == Caller \X (1 .. MaxCalls) \X Slot

Array == {b \in Block : b[3][1] = "list"}

VARIABLES
  pc,       \* where a goroutine is in a method
  method,   \* the method it called last
  calls,    \* how many calls it has made
  pending,  \* how many deferred releases of strings it has to run
  found,    \* how many boxes its call has returned
  excess,   \* by how much the capacity of its array exceeds that number
  wrapped,  \* how many of them it has wrapped
  heap,     \* each block: "none", "live", "freed", or freed in a wrong way
  objects   \* how many open Go objects own each block

vars == <<pc, method, calls, pending, found, excess, wrapped, heap, objects>>

Own(c, kind, i) == <<c, calls[c], <<kind, i>>>>

Free(h, b) == [h EXCEPT ![b] = IF @ = "live" THEN "freed" ELSE "freedTwice"]

Found(c, n) == {Own(c, "box", i) : i \in 1 .. n}

-----------------------------------------------------------------------------
(* The way into the library.                                               *)

Call(c, m) ==
  /\ pc[c] = "idle"
  /\ calls[c] < MaxCalls
  /\ pc' = [pc EXCEPT ![c] = "pass"]
  /\ method' = [method EXCEPT ![c] = m]
  /\ calls' = [calls EXCEPT ![c] = @ + 1]
  /\ found' = [found EXCEPT ![c] = 0]
  /\ excess' = [excess EXCEPT ![c] = 0]
  /\ wrapped' = [wrapped EXCEPT ![c] = 0]
  /\ UNCHANGED <<pending, heap, objects>>

\* cString, and the deferred freeGoCString that goes with it.
PassString(c) ==
  /\ pc[c] = "pass"
  /\ pending[c] < method[c].strings
  /\ heap' = [heap EXCEPT ![Own(c, "string", pending[c] + 1)] = "live"]
  /\ pending' = [pending EXCEPT ![c] = @ + 1]
  /\ UNCHANGED <<pc, method, calls, found, excess, wrapped, objects>>

\* Mutant: the second error return of SetTuningConfig forgets the first string.
EncodingFailsForgetting(c) ==
  /\ pc[c] = "pass"
  /\ method[c].encodes /\ pending[c] < method[c].strings
  /\ pc' = [pc EXCEPT ![c] = "idle"]
  /\ pending' = [pending EXCEPT ![c] = 0]
  /\ UNCHANGED <<method, calls, found, excess, wrapped, heap, objects>>

\* json.Marshal refuses a configuration, perhaps after another has been passed.
EncodingFails(c) ==
  /\ pc[c] = "pass"
  /\ method[c].encodes /\ pending[c] < method[c].strings
  /\ pc' = [pc EXCEPT ![c] = "unwind"]
  /\ UNCHANGED <<method, calls, pending, found, excess, wrapped, heap, objects>>

\* Mutant: the string is freed at once and not when the method returns.
EnterAfterFree(c) ==
  /\ pc[c] = "pass"
  /\ pending[c] = method[c].strings
  /\ pc' = [pc EXCEPT ![c] = "inC"]
  /\ pending' = [pending EXCEPT ![c] = 0]
  /\ heap' = [b \in Block |->
       IF b \in {Own(c, "string", i) : i \in 1 .. pending[c]} THEN "freed" ELSE heap[b]]
  /\ UNCHANGED <<method, calls, found, excess, wrapped, objects>>

Enter(c) ==
  /\ pc[c] = "pass"
  /\ pending[c] = method[c].strings
  /\ pc' = [pc EXCEPT ![c] = "inC"]
  /\ UNCHANGED <<method, calls, pending, found, excess, wrapped, heap, objects>>

-----------------------------------------------------------------------------
(* What the library returns.                                               *)

\* A status, or the null, false or -1 of a failure.
ReturnNothing(c) ==
  /\ pc[c] = "inC"
  /\ pc' = [pc EXCEPT ![c] = "unwind"]
  /\ UNCHANGED <<method, calls, pending, found, excess, wrapped, heap, objects>>

\* CString::into_raw.
ReturnText(c) ==
  /\ pc[c] = "inC"
  /\ method[c].yields = "text"
  /\ heap' = [heap EXCEPT ![Own(c, "text", 1)] = "live"]
  /\ pc' = [pc EXCEPT ![c] = "take"]
  /\ UNCHANGED <<method, calls, pending, found, excess, wrapped, objects>>

\* Box::into_raw.
ReturnBox(c) ==
  /\ pc[c] = "inC"
  /\ method[c].yields = "box"
  /\ heap' = [heap EXCEPT ![Own(c, "box", 1)] = "live"]
  /\ found' = [found EXCEPT ![c] = 1]
  /\ pc' = [pc EXCEPT ![c] = "wrap"]
  /\ UNCHANGED <<method, calls, pending, excess, wrapped, objects>>

\* Every miner is boxed, and the Vec of the boxes is forgotten.  collect may
\* leave it a capacity beyond its length (it may build it in the buffer of the
\* Vec it consumes, whose elements are twice as large); without any capacity
\* there is no allocation.
ReturnList(c) ==
  /\ pc[c] = "inC"
  /\ method[c].yields = "list"
  /\ \E n \in 0 .. MaxFound, k \in Slack :
       /\ found' = [found EXCEPT ![c] = n]
       /\ excess' = [excess EXCEPT ![c] = k]
       /\ heap' = [b \in Block |->
            IF b \in Found(c, n) \/ (b = Own(c, "list", 1) /\ n + k > 0)
              THEN "live" ELSE heap[b]]
  /\ pc' = [pc EXCEPT ![c] = "wrap"]
  /\ UNCHANGED <<method, calls, pending, wrapped, objects>>

-----------------------------------------------------------------------------
(* The way out: the result is taken over, then the deferred calls run.     *)

\* goStringOwned, takeJSON or takeJSONBytes: the string is freed whether or not
\* its JSON can be decoded.
TakeText(c) ==
  /\ pc[c] = "take"
  /\ heap' = Free(heap, Own(c, "text", 1))
  /\ pc' = [pc EXCEPT ![c] = "unwind"]
  /\ UNCHANGED <<method, calls, pending, found, excess, wrapped, objects>>

\* newMiner for the next pointer; none of them is null.
Wrap(c) ==
  /\ pc[c] = "wrap"
  /\ wrapped[c] < found[c]
  /\ objects' = [objects EXCEPT ![Own(c, "box", wrapped[c] + 1)] = @ + 1]
  /\ wrapped' = [wrapped EXCEPT ![c] = @ + 1]
  /\ UNCHANGED <<pc, method, calls, pending, found, excess, heap>>

\* Mutant: the array owns the boxes it points to.
FreeListWithBoxes(c) ==
  [b \in Block |->
     IF b \in Found(c, found[c]) \cup {Own(c, "list", 1)} THEN "freed" ELSE heap[b]]

\* asic_rs_free_miner_list takes the length for the capacity: with a length of
\* zero nothing is freed, and a capacity that differs is the wrong layout.
FreeList(c) ==
  IF found[c] = 0
    THEN heap
    ELSE [heap EXCEPT ![Own(c, "list", 1)] =
            IF excess[c] = 0 THEN "freed" ELSE "misfreed"]

\* Mutant: Scan returns as soon as it has wrapped anything.
FinishEarly(c) ==
  /\ pc[c] = "wrap"
  /\ wrapped[c] > 0 \/ found[c] = 0
  /\ heap' = IF method[c].yields = "list" THEN FreeList(c) ELSE heap
  /\ pc' = [pc EXCEPT ![c] = "unwind"]
  /\ UNCHANGED <<method, calls, pending, found, excess, wrapped, objects>>

Finish(c) ==
  /\ pc[c] = "wrap"
  /\ wrapped[c] = found[c]
  /\ heap' = IF method[c].yields = "list" THEN FreeList(c) ELSE heap
  /\ pc' = [pc EXCEPT ![c] = "unwind"]
  /\ UNCHANGED <<method, calls, pending, found, excess, wrapped, objects>>

\* Mutant: one deferred call too many.
ReleaseStringAgain(c) ==
  /\ pc[c] = "unwind"
  /\ pending' = [pending EXCEPT ![c] = @ - 1]
  /\ IF pending[c] > 0
       THEN heap' = Free(heap, Own(c, "string", pending[c])) /\ UNCHANGED pc
       ELSE pc' = [pc EXCEPT ![c] = "idle"] /\ UNCHANGED heap
  /\ UNCHANGED <<method, calls, found, excess, wrapped, objects>>

\* The deferred freeGoCString calls, the last one first.
ReleaseString(c) ==
  /\ pc[c] = "unwind"
  /\ pending[c] > 0
  /\ heap' = Free(heap, Own(c, "string", pending[c]))
  /\ pending' = [pending EXCEPT ![c] = @ - 1]
  /\ UNCHANGED <<pc, method, calls, found, excess, wrapped, objects>>

Return(c) ==
  /\ pc[c] = "unwind"
  /\ pending[c] = 0
  /\ pc' = [pc EXCEPT ![c] = "idle"]
  /\ UNCHANGED <<method, calls, pending, found, excess, wrapped, heap, objects>>

\* An object that the method has returned is closed, by the client or by the
\* finalizer.  Until then the slice that Scan fills holds it.
Close(b) ==
  /\ objects[b] > 0
  /\ pc[b[1]] = "idle" \/ calls[b[1]] > b[2]
  /\ heap' = Free(heap, b)
  /\ objects' = [objects EXCEPT ![b] = @ - 1]
  /\ UNCHANGED <<pc, method, calls, pending, found, excess, wrapped>>

-----------------------------------------------------------------------------

Init ==
  /\ pc = [c \in Caller |-> "idle"]
  /\ method \in [Caller -> [strings : {0}, encodes : {FALSE}, yields : {"list"}]]
  /\ calls = [c \in Caller |-> 0]
  /\ pending = [c \in Caller |-> 0]
  /\ found = [c \in Caller |-> 0]
  /\ excess = [c \in Caller |-> 0]
  /\ wrapped = [c \in Caller |-> 0]
  /\ heap = [b \in Block |-> "none"]
  /\ objects = [b \in Block |-> 0]

\* What runs on by itself in a method.
Step(c) ==
  \/ PassString(c)
  \/ EncodingFails(c)
  \/ Enter(c)
  \/ ReturnNothing(c)
  \/ ReturnText(c)
  \/ ReturnBox(c)
  \/ ReturnList(c)
  \/ TakeText(c)
  \/ Wrap(c)
  \/ Finish(c)
  \/ ReleaseString(c)
  \/ Return(c)

Next ==
  \/ \E c \in Caller : Step(c) \/ \E m \in Method : Call(c, m)
  \/ \E b \in Block : Close(b)

Fairness ==
  /\ \A c \in Caller : WF_vars(Step(c))
  /\ \A b \in Block : WF_vars(Close(b))

Spec == Init /\ [][Next]_vars

FairSpec == Spec /\ Fairness

-----------------------------------------------------------------------------
(* Properties.                                                             *)

\* Every variable keeps its type; in particular no method runs more deferred
\* releases than it has deferred.
TypeOK ==
  /\ pc \in [Caller -> {"idle", "pass", "inC", "take", "wrap", "unwind"}]
  /\ method \in [Caller -> Method]
  /\ calls \in [Caller -> 0 .. MaxCalls]
  /\ pending \in [Caller -> 0 .. MaxStrings]
  /\ found \in [Caller -> 0 .. MaxFound]
  /\ excess \in [Caller -> Nat]
  /\ wrapped \in [Caller -> 0 .. MaxFound]
  /\ heap \in [Block -> {"none", "live", "freed", "freedTwice", "misfreed"}]
  /\ objects \in [Block -> Nat]

\* A method that has returned, on whatever path, leaves none of its strings
\* behind, in either direction, and every live box it got belongs to exactly
\* one open Go object.
NothingLeftBehind ==
  \A b \in Block \ Array :
    heap[b] = "live" /\ (pc[b[1]] = "idle" \/ calls[b[1]] > b[2]) =>
      b[3][1] = "box" /\ objects[b] = 1

\* The blocks that somebody reads: the strings while the library runs, the
\* returned text until Go has its copy, the array until its last pointer is
\* wrapped, and a box as long as an object may hand it to the library.
InUse(b) ==
  LET c == b[1]
      now == b[2] = calls[c]
  IN  \/ b[3][1] = "string" /\ now /\ pc[c] = "inC" /\ b[3][2] <= method[c].strings
      \/ b[3][1] = "text" /\ now /\ pc[c] = "take"
      \/ b[3][1] = "list" /\ now /\ pc[c] = "wrap" /\ wrapped[c] < found[c]
                          /\ method[c].yields = "list"
      \/ objects[b] > 0

\* Whatever is read is allocated: no string is freed under the library, no
\* array under the loop of Scan, no box while a Go object still has it.
UsedWhileLive == \A b \in Block : InUse(b) => heap[b] = "live"

\* Claimed by "allocates *out_miners as an array of *mut AsicMiner of length
\* *out_len ... then free the array with asic_rs_free_miner_list"
\* (lib.rs:547-549): the array is freed as what was allocated.
ListFreedAsAllocated ==
  \A b \in Array :
    /\ heap[b] # "misfreed"
    /\ heap[b] = "live" => pc[b[1]] # "idle" /\ calls[b[1]] = b[2]

\* Every string and every box that is ever allocated is freed in the end.
EventuallyFreed ==
  \A b \in Block \ Array : (heap[b] = "live") ~> (heap[b] = "freed")

-----------------------------------------------------------------------------
(* Strings and boxes are resources in the sense of Resource, a box from    *)
(* the moment it is wrapped; UsedWhileLive says who uses them here, and    *)
(* Handle who uses a box.                                                  *)

Res == INSTANCE Resource WITH
  User  <- Caller,
  Item  <- Block \ Array,
  state <- [b \in Block \ Array |->
              IF b[3][1] = "box" /\ heap[b] = "live" /\ objects[b] = 0
                THEN "none" ELSE heap[b]],
  users <- [b \in Block \ Array |-> {}]

\* One step creates or frees one string or box, and nothing is freed that is
\* not there any more: a box only becomes known to Go by being wrapped, and is
\* freed by the object it was wrapped in.
RefinesResource == Res!Spec
=============================================================================
