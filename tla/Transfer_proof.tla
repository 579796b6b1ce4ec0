--------------------------- MODULE Transfer_proof ---------------------------
(***************************************************************************)
(* Proofs about Transfer, for any number of goroutines, calls, strings and *)
(* found miners.  The properties speak of what is left when a method has   *)
(* returned; the invariant says of every block how far it is on its way at *)
(* each point of the method.                                               *)
(***************************************************************************)
EXTENDS Transfer, TLAPS

\* How far the counters of a call have come at each point of the method.
Progress ==
  \A c \in Caller :
    /\ pc[c] # "idle" => calls[c] > 0
    /\ pending[c] <= method[c].strings
    /\ pc[c] \in {"inC", "take", "wrap"} => pending[c] = method[c].strings
    /\ pc[c] = "idle" => pending[c] = 0
    /\ pc[c] \in {"pass", "inC", "take"} => found[c] = 0
    /\ wrapped[c] <= found[c]
    /\ pc[c] # "wrap" => wrapped[c] = found[c]
    /\ pc[c] = "wrap" => method[c].yields \in {"box", "list"}

\* Does b belong to the call that its goroutine made last?
Current(b) == b[2] = calls[b[1]]

\* A call that has not been made has allocated nothing.
FutureEmpty(b) == b[2] > calls[b[1]] => heap[b] = "none" /\ objects[b] = 0

\* Of the current call, exactly the strings with a pending release are live; a
\* string that is not live is waiting to be made or gone for good.
StringPending(b) == b[3][1] = "string" =>
  /\ objects[b] = 0
  /\ IF Current(b) /\ b[3][2] <= pending[b[1]]
       THEN heap[b] = "live"
       ELSE heap[b] \in {"none", "freed"}
  /\ Current(b) /\ pc[b[1]] = "pass" /\ b[3][2] > pending[b[1]] => heap[b] = "none"

\* A returned text is live until it has been taken over.
TextTaken(b) == b[3][1] = "text" =>
  /\ objects[b] = 0
  /\ IF Current(b) /\ pc[b[1]] = "take"
       THEN heap[b] = "live"
       ELSE heap[b] \in {"none", "freed"}
  /\ Current(b) /\ pc[b[1]] \in {"pass", "inC"} => heap[b] = "none"

\* A box of the current call that has been returned and not wrapped yet.
Unwrapped(b) == Current(b) /\ wrapped[b[1]] < b[3][2] /\ b[3][2] <= found[b[1]]

\* A box is live and has one object, unless it is still to be wrapped, or was
\* never made, or has been freed together with its object.
BoxOwned(b) == b[3][1] = "box" =>
  /\ IF Unwrapped(b)
       THEN heap[b] = "live" /\ objects[b] = 0
       ELSE \/ heap[b] = "live" /\ objects[b] = 1
            \/ heap[b] \in {"none", "freed"} /\ objects[b] = 0
  /\ Current(b) /\ pc[b[1]] \in {"pass", "inC"} => heap[b] = "none"

\* The array is there as long as Scan reads it, and no object owns it.
ListRead(b) == b[3][1] = "list" =>
  /\ objects[b] = 0
  /\ Current(b) /\ pc[b[1]] = "wrap" /\ found[b[1]] > 0
       /\ method[b[1]].yields = "list" => heap[b] = "live"

Kept(b) ==
  FutureEmpty(b) /\ StringPending(b) /\ TextTaken(b) /\ BoxOwned(b) /\ ListRead(b)

IInv == TypeOK /\ Progress /\ \A b \in Block : Kept(b)

-----------------------------------------------------------------------------
(* Blocks and their names.                                                 *)

\* The parts of a block.
LEMMA BlockParts ==
  ASSUME NEW b \in Block
  PROVE  /\ b[1] \in Caller
         /\ b[2] \in 1 .. MaxCalls
         /\ b[3][1] \in {"string", "text", "list", "box"}
         /\ b[3][2] \in Nat \ {0}
         /\ b[3][1] = "string" => b[3][2] \in 1 .. MaxStrings
         /\ b[3][1] = "box" => b[3][2] \in 1 .. MaxFound
         /\ b[3][1] \in {"text", "list"} => b[3][2] = 1
BY BoundAssumption DEF Block, Slot

\* A block is one of the current call of c exactly if its parts say so.
LEMMA OwnParts ==
  ASSUME NEW c \in Caller, NEW kind, NEW i, NEW b \in Block
  PROVE  b = Own(c, kind, i) <=>
           b[1] = c /\ b[2] = calls[c] /\ b[3][1] = kind /\ b[3][2] = i
BY DEF Block, Slot, Own

\* A call that is under way has a block of every kind.
LEMMA OwnIsBlock ==
  ASSUME TypeOK, Progress, NEW c \in Caller, pc[c] # "idle"
  PROVE  /\ \A i \in 1 .. MaxStrings : Own(c, "string", i) \in Block
         /\ \A i \in 1 .. MaxFound : Own(c, "box", i) \in Block
         /\ Own(c, "text", 1) \in Block
         /\ Own(c, "list", 1) \in Block
BY BoundAssumption DEF TypeOK, Progress, Block, Slot, Own

\* The parts of a method.
LEMMA MethodParts ==
  ASSUME NEW m \in Method
  PROVE  /\ m.strings \in 0 .. MaxStrings
         /\ m.yields \in {"status", "box", "text", "list"}
<1>1. CASE m \in [strings : 1 .. MaxStrings, encodes : BOOLEAN, yields : {"status"}]
  BY <1>1, BoundAssumption
<1>2. CASE m \in [strings : 0 .. MaxStrings, encodes : {FALSE}, yields : {"box"}]
  BY <1>2, BoundAssumption
<1>3. CASE m \in [strings : {0}, encodes : {FALSE}, yields : {"text", "list"}]
  <2>1. m.strings = 0 /\ m.yields \in {"text", "list"}
    BY <1>3
  <2> QED
    BY <2>1, BoundAssumption
<1> QED
  BY <1>1, <1>2, <1>3 DEF Method

\* Which indices are beyond w changes for w + 1 only as w is counted up.
LEMMA NextIndex ==
  ASSUME NEW w \in Nat, NEW i \in Nat, i # w + 1
  PROVE  w + 1 < i <=> w < i
OBVIOUS

-----------------------------------------------------------------------------
(* The invariant holds initially, and every action keeps it.               *)

\* In the beginning no call has been made.
LEMMA IInvInit == Init => IInv
<1> SUFFICES ASSUME Init
             PROVE  IInv
  OBVIOUS
<1>1. ASSUME NEW c \in Caller
      PROVE  method[c] \in Method /\ method[c].strings = 0
  BY DEF Init, Method
<1>2. TypeOK
  BY <1>1, BoundAssumption DEF Init, TypeOK
<1>3. Progress
  <2> SUFFICES ASSUME NEW c \in Caller
               PROVE  Progress!(c)
    BY DEF Progress
  <2> QED
    BY <1>1 DEF Init
<1>4. ASSUME NEW b \in Block
      PROVE  Kept(b)
  <2>1. b[1] \in Caller /\ b[2] > 0 /\ b[3][2] > 0
    BY BlockParts
  <2> QED
    BY <2>1 DEF Init, Kept, FutureEmpty, StringPending, TextTaken, BoxOwned,
                ListRead, Unwrapped, Current
<1> QED
  BY <1>2, <1>3, <1>4 DEF IInv

\* Every action of a method, and Close, keeps the types.
LEMMA TypeStep ==
  ASSUME TypeOK, Progress, [Next]_vars
  PROVE  TypeOK'
<1> USE BoundAssumption DEF TypeOK, Progress
<1>1. ASSUME NEW c \in Caller, NEW m \in Method, Call(c, m)
      PROVE  TypeOK'
  BY <1>1 DEF Call
<1>2. ASSUME NEW c \in Caller, PassString(c)
      PROVE  TypeOK'
  <2>1. method[c].strings \in 0 .. MaxStrings
    BY MethodParts
  <2>2. pending' \in [Caller -> 0 .. MaxStrings]
    BY <1>2, <2>1 DEF PassString
  <2> QED
    BY <1>2, <2>2 DEF PassString
<1>3. ASSUME NEW c \in Caller, EncodingFails(c)
      PROVE  TypeOK'
  BY <1>3 DEF EncodingFails
<1>4. ASSUME NEW c \in Caller, Enter(c)
      PROVE  TypeOK'
  BY <1>4 DEF Enter
<1>5. ASSUME NEW c \in Caller, ReturnNothing(c)
      PROVE  TypeOK'
  BY <1>5 DEF ReturnNothing
<1>6. ASSUME NEW c \in Caller, ReturnText(c)
      PROVE  TypeOK'
  BY <1>6 DEF ReturnText
<1>7. ASSUME NEW c \in Caller, ReturnBox(c)
      PROVE  TypeOK'
  <2>1. found' \in [Caller -> 0 .. MaxFound]
    BY <1>7 DEF ReturnBox
  <2> QED
    BY <1>7, <2>1 DEF ReturnBox
<1>8. ASSUME NEW c \in Caller, ReturnList(c)
      PROVE  TypeOK'
  BY <1>8 DEF ReturnList
<1>9. ASSUME NEW c \in Caller, TakeText(c)
      PROVE  TypeOK'
  BY <1>9 DEF TakeText, Free
<1>10. ASSUME NEW c \in Caller, Wrap(c)
       PROVE  TypeOK'
  <2>1. wrapped' \in [Caller -> 0 .. MaxFound]
    <3>1. wrapped[c] + 1 \in 0 .. MaxFound
      <4>1. wrapped[c] \in Nat /\ found[c] \in Nat /\ found[c] <= MaxFound
        OBVIOUS
      <4> QED
        BY <1>10, <4>1 DEF Wrap
    <3> QED
      BY <1>10, <3>1 DEF Wrap
  <2>2. objects' \in [Block -> Nat]
    <3>1. ASSUME NEW b \in Block
          PROVE  objects'[b] \in Nat
      BY <1>10 DEF Wrap
    <3> QED
      BY <1>10, <3>1 DEF Wrap
  <2> QED
    BY <1>10, <2>1, <2>2 DEF Wrap
<1>11. ASSUME NEW c \in Caller, Finish(c)
       PROVE  TypeOK'
  BY <1>11 DEF Finish, FreeList
<1>12. ASSUME NEW c \in Caller, ReleaseString(c)
       PROVE  TypeOK'
  <2>1. pending' \in [Caller -> 0 .. MaxStrings]
    BY <1>12 DEF ReleaseString
  <2>2. heap' \in [Block -> {"none", "live", "freed", "freedTwice", "misfreed"}]
    BY <1>12 DEF ReleaseString, Free
  <2> QED
    BY <1>12, <2>1, <2>2 DEF ReleaseString
<1>13. ASSUME NEW c \in Caller, Return(c)
       PROVE  TypeOK'
  BY <1>13 DEF Return
<1>14. ASSUME NEW b \in Block, Close(b)
       PROVE  TypeOK'
  BY <1>14 DEF Close, Free
<1>15. CASE UNCHANGED vars
  BY <1>15 DEF vars
<1> QED
  BY <1>1, <1>2, <1>3, <1>4, <1>5, <1>6, <1>7, <1>8, <1>9, <1>10, <1>11, <1>12,
     <1>13, <1>14, <1>15 DEF Next, Step

\* The counters of a goroutine move with its steps.
LEMMA ProgressStep ==
  ASSUME TypeOK, Progress, [Next]_vars
  PROVE  Progress'
<1> USE BoundAssumption DEF TypeOK, Progress
<1>1. ASSUME NEW c \in Caller, NEW m \in Method, Call(c, m)
      PROVE  Progress'
  BY <1>1, MethodParts DEF Call
<1>2. ASSUME NEW c \in Caller, PassString(c)
      PROVE  Progress'
  <2>1. method[c].strings \in 0 .. MaxStrings
    BY MethodParts
  <2> QED
    BY <1>2, <2>1 DEF PassString
<1>3. ASSUME NEW c \in Caller, EncodingFails(c)
      PROVE  Progress'
  BY <1>3 DEF EncodingFails
<1>4. ASSUME NEW c \in Caller, Enter(c)
      PROVE  Progress'
  BY <1>4 DEF Enter
<1>5. ASSUME NEW c \in Caller, ReturnNothing(c)
      PROVE  Progress'
  BY <1>5 DEF ReturnNothing
<1>6. ASSUME NEW c \in Caller, ReturnText(c)
      PROVE  Progress'
  BY <1>6 DEF ReturnText
<1>7. ASSUME NEW c \in Caller, ReturnBox(c)
      PROVE  Progress'
  BY <1>7 DEF ReturnBox
<1>8. ASSUME NEW c \in Caller, ReturnList(c)
      PROVE  Progress'
  BY <1>8 DEF ReturnList
<1>9. ASSUME NEW c \in Caller, TakeText(c)
      PROVE  Progress'
  BY <1>9 DEF TakeText
<1>10. ASSUME NEW c \in Caller, Wrap(c)
       PROVE  Progress'
  BY <1>10 DEF Wrap
<1>11. ASSUME NEW c \in Caller, Finish(c)
       PROVE  Progress'
  BY <1>11 DEF Finish
<1>12. ASSUME NEW c \in Caller, ReleaseString(c)
       PROVE  Progress'
  <2>1. method[c].strings \in 0 .. MaxStrings
    BY MethodParts
  <2> QED
    BY <1>12, <2>1 DEF ReleaseString
<1>13. ASSUME NEW c \in Caller, Return(c)
       PROVE  Progress'
  BY <1>13 DEF Return
<1>14. ASSUME NEW b \in Block, Close(b)
       PROVE  Progress'
  BY <1>14 DEF Close
<1>15. CASE UNCHANGED vars
  BY <1>15 DEF vars
<1> QED
  BY <1>1, <1>2, <1>3, <1>4, <1>5, <1>6, <1>7, <1>8, <1>9, <1>10, <1>11, <1>12,
     <1>13, <1>14, <1>15 DEF Next, Step

\* What happens to a block depends on the kind of the block and on whether it
\* is one of the call that makes the step.
LEMMA KeptStep ==
  ASSUME IInv, [Next]_vars, NEW b \in Block
  PROVE  Kept(b)'
<1> DEFINE kind == b[3][1]
           i == b[3][2]
           caller == b[1]
<1>0. /\ caller \in Caller /\ b[2] \in Nat \ {0}
      /\ kind \in {"string", "text", "list", "box"}
      /\ i \in Nat \ {0}
      /\ kind = "string" => i \in 1 .. MaxStrings
      /\ kind = "box" => i \in 1 .. MaxFound
      /\ kind \in {"text", "list"} => i = 1
  BY BlockParts, BoundAssumption
<1>00. \A c \in Caller : method[c].strings \in Nat
  BY MethodParts, BoundAssumption DEF IInv, TypeOK
<1> USE <1>0, <1>00, BoundAssumption
    DEF IInv, TypeOK, Progress, Kept, FutureEmpty, StringPending, TextTaken, BoxOwned,
        ListRead, Unwrapped, Current
<1>1. ASSUME NEW c \in Caller, NEW m \in Method, Call(c, m)
      PROVE  Kept(b)'
  BY <1>1 DEF Call
<1>2. ASSUME NEW c \in Caller, PassString(c)
      PROVE  Kept(b)'
  <2>1. CASE b[1] = c
    BY <1>2, <2>1, OwnParts DEF PassString
  <2>2. CASE b[1] # c
    BY <1>2, <2>2, OwnParts DEF PassString
  <2> QED
    BY <2>1, <2>2
<1>3. ASSUME NEW c \in Caller, EncodingFails(c)
      PROVE  Kept(b)'
  BY <1>3 DEF EncodingFails
<1>4. ASSUME NEW c \in Caller, Enter(c)
      PROVE  Kept(b)'
  BY <1>4 DEF Enter
<1>5. ASSUME NEW c \in Caller, ReturnNothing(c)
      PROVE  Kept(b)'
  BY <1>5 DEF ReturnNothing
<1>6. ASSUME NEW c \in Caller, ReturnText(c)
      PROVE  Kept(b)'
  BY <1>6, OwnParts DEF ReturnText
<1>7. ASSUME NEW c \in Caller, ReturnBox(c)
      PROVE  Kept(b)'
  BY <1>7, OwnParts DEF ReturnBox
<1>8. ASSUME NEW c \in Caller, ReturnList(c)
      PROVE  Kept(b)'
  BY <1>8, OwnParts DEF ReturnList, Found
<1>9. ASSUME NEW c \in Caller, TakeText(c)
      PROVE  Kept(b)'
  BY <1>9, OwnParts DEF TakeText, Free
<1>10. ASSUME NEW c \in Caller, Wrap(c)
       PROVE  Kept(b)'
  <2>1. /\ wrapped'[caller] = IF caller = c THEN wrapped[c] + 1 ELSE wrapped[caller]
        /\ UNCHANGED <<pc, method, calls, pending, found, heap>>
    BY <1>10 DEF Wrap
  <2>2. CASE b = Own(c, "box", wrapped[c] + 1)
    <3>1. Current(b) /\ caller = c /\ kind = "box" /\ i = wrapped[c] + 1
      BY <2>2, OwnParts
    <3>2. objects[b] = 0 /\ heap[b] = "live" /\ objects'[b] = 1
      BY <1>10, <2>2, <3>1 DEF Wrap
    <3> QED
      BY <1>10, <2>1, <3>1, <3>2 DEF Wrap
  <2>3. CASE b # Own(c, "box", wrapped[c] + 1)
    <3>1. objects'[b] = objects[b]
      BY <1>10, <2>3 DEF Wrap
    <3>2. ~(Current(b) /\ caller = c /\ kind = "box" /\ i = wrapped[c] + 1)
      BY <2>3, OwnParts
    <3>3. wrapped[caller] \in Nat /\ wrapped[c] \in Nat
      OBVIOUS
    <3>4. kind = "box" => (Unwrapped(b)' <=> Unwrapped(b))
      <4>1. CASE caller = c /\ Current(b)
        <5>1. kind = "box" => (wrapped[c] + 1 < i <=> wrapped[c] < i)
          <6>1. kind = "box" => i # wrapped[c] + 1
            BY <3>2, <4>1
          <6> QED
            BY <3>3, <6>1, NextIndex
        <5> QED
          BY <2>1, <4>1, <5>1
      <4>2. CASE ~(caller = c /\ Current(b))
        BY <2>1, <4>2
      <4> QED
        BY <4>1, <4>2
    <3> QED
      BY <2>1, <3>1, <3>4
  <2> QED
    BY <2>2, <2>3
<1>11. ASSUME NEW c \in Caller, Finish(c)
       PROVE  Kept(b)'
  BY <1>11, OwnParts DEF Finish, FreeList
<1>12. ASSUME NEW c \in Caller, ReleaseString(c)
       PROVE  Kept(b)'
  <2>1. /\ pending'[caller] = IF caller = c THEN pending[c] - 1 ELSE pending[caller]
        /\ pending[c] \in Nat \ {0}
        /\ UNCHANGED <<pc, method, calls, wrapped, found, objects>>
    BY <1>12 DEF ReleaseString
  <2>2. CASE b = Own(c, "string", pending[c])
    <3>1. Current(b) /\ caller = c /\ kind = "string" /\ i = pending[c]
      BY <2>2, OwnParts
    <3>2. heap[b] = "live" /\ heap'[b] = "freed"
      BY <1>12, <2>2, <3>1 DEF ReleaseString, Free
    <3> QED
      BY <1>12, <2>1, <3>1, <3>2 DEF ReleaseString
  <2>3. CASE b # Own(c, "string", pending[c])
    <3>1. heap'[b] = heap[b]
      BY <1>12, <2>3 DEF ReleaseString, Free
    <3>2. ~(Current(b) /\ caller = c /\ kind = "string" /\ i = pending[c])
      BY <2>3, OwnParts
    <3> QED
      BY <1>12, <2>1, <3>1, <3>2 DEF ReleaseString
  <2> QED
    BY <2>2, <2>3
<1>13. ASSUME NEW c \in Caller, Return(c)
       PROVE  Kept(b)'
  BY <1>13 DEF Return
<1>14. ASSUME NEW k \in Block, Close(k)
       PROVE  Kept(b)'
  BY <1>14, BlockParts DEF Close, Free
<1>15. CASE UNCHANGED vars
  BY <1>15 DEF vars
<1> QED
  BY <1>1, <1>2, <1>3, <1>4, <1>5, <1>6, <1>7, <1>8, <1>9, <1>10, <1>11, <1>12,
     <1>13, <1>14, <1>15 DEF Next, Step

\* A step keeps the invariant.
LEMMA InvariantStep ==
  ASSUME IInv, [Next]_vars
  PROVE  IInv'
<1>1. TypeOK'
  BY TypeStep DEF IInv
<1>2. Progress'
  BY ProgressStep DEF IInv
<1>3. ASSUME NEW b \in Block
      PROVE  Kept(b)'
  BY KeptStep
<1>4. UNCHANGED Block
  BY DEF Block, Slot
<1> QED
  BY <1>1, <1>2, <1>3, <1>4 DEF IInv

\* Every reachable state satisfies the invariant.
LEMMA Invariance == Spec => []IInv
<1>1. IInv /\ [Next]_vars => IInv'
  BY InvariantStep
<1> QED
  BY <1>1, IInvInit, PTL DEF Spec

-----------------------------------------------------------------------------
(* What follows from the invariant.                                        *)

\* The variables keep their types; no method runs a deferred release twice.
THEOREM TypeCorrect == Spec => []TypeOK
<1>1. IInv => TypeOK
  BY DEF IInv
<1> QED
  BY <1>1, Invariance, PTL

\* When a method has returned, on whatever path, none of its strings is left in
\* either direction, and each of its boxes belongs to exactly one open object.
THEOREM NothingIsLeftBehind == Spec => []NothingLeftBehind
<1>1. IInv => NothingLeftBehind
  <2> SUFFICES ASSUME IInv, NEW b \in Block \ Array, heap[b] = "live",
                      pc[b[1]] = "idle" \/ calls[b[1]] > b[2]
               PROVE  b[3][1] = "box" /\ objects[b] = 1
    BY DEF NothingLeftBehind
  <2>1. /\ b[1] \in Caller /\ b[2] \in Nat /\ b[3][2] \in Nat \ {0}
        /\ b[3][1] \in {"string", "text", "box"}
    BY BlockParts, BoundAssumption DEF Array
  <2>2. Kept(b)
    BY DEF IInv
  <2>3. calls[b[1]] \in Nat
    BY <2>1, BoundAssumption DEF IInv, TypeOK
  <2>4. pc[b[1]] = "idle" => pending[b[1]] = 0 /\ wrapped[b[1]] = found[b[1]]
    BY <2>1 DEF IInv, Progress
  <2>5. wrapped[b[1]] \in Nat /\ found[b[1]] \in Nat
    BY <2>1, BoundAssumption DEF IInv, TypeOK
  <2>6. CASE b[3][1] = "box"
    BY <2>1, <2>2, <2>3, <2>4, <2>5, <2>6 DEF Kept, BoxOwned, Unwrapped, Current
  <2>7. CASE b[3][1] = "string"
    BY <2>1, <2>2, <2>3, <2>4, <2>7 DEF Kept, StringPending, Current
  <2>8. CASE b[3][1] = "text"
    BY <2>1, <2>2, <2>3, <2>8 DEF Kept, TextTaken, Current
  <2> QED
    BY <2>1, <2>6, <2>7, <2>8
<1> QED
  BY <1>1, Invariance, PTL

\* Whatever the library or Go reads is allocated: a string during the call it
\* was made for, a returned text until it is copied, the array of a scan until
\* its last pointer is wrapped, and a box while an object has it.
THEOREM EverythingUsedIsLive == Spec => []UsedWhileLive
<1>1. IInv => UsedWhileLive
  <2> SUFFICES ASSUME IInv, NEW b \in Block, InUse(b)
               PROVE  heap[b] = "live"
    BY DEF UsedWhileLive
  <2> DEFINE c == b[1]
  <2>1. /\ c \in Caller /\ b[3][2] \in Nat \ {0}
        /\ b[3][1] \in {"string", "text", "list", "box"}
    BY BlockParts, BoundAssumption
  <2>2. Kept(b) /\ objects[b] \in Nat
    BY DEF IInv, TypeOK
  <2>3. CASE b[3][1] = "string" /\ Current(b) /\ pc[c] = "inC"
             /\ b[3][2] <= method[c].strings
    BY <2>1, <2>2, <2>3 DEF IInv, Progress, Kept, StringPending
  <2>4. CASE b[3][1] = "text" /\ Current(b) /\ pc[c] = "take"
    BY <2>2, <2>4 DEF Kept, TextTaken
  <2>5. CASE b[3][1] = "list" /\ Current(b) /\ pc[c] = "wrap"
             /\ wrapped[c] < found[c] /\ method[c].yields = "list"
    <3>1. wrapped[c] \in Nat /\ found[c] \in Nat
      BY <2>1, BoundAssumption DEF IInv, TypeOK
    <3>2. found[c] > 0
      BY <2>5, <3>1
    <3> QED
      BY <2>2, <2>5, <3>2 DEF Kept, ListRead
  <2>6. CASE objects[b] > 0
    BY <2>1, <2>2, <2>6 DEF Kept, StringPending, TextTaken, BoxOwned, ListRead
  <2> QED
    BY <2>3, <2>4, <2>5, <2>6 DEF InUse, Current
<1> QED
  BY <1>1, Invariance, PTL

-----------------------------------------------------------------------------
(* Every method ends.                                                      *)

\* How many more steps a goroutine needs at most to return.
Left(c) ==
  CASE pc[c] = "pass" -> MaxFound + method[c].strings + 4 + (method[c].strings - pending[c])
    [] pc[c] = "inC" -> MaxFound + pending[c] + 3
    [] pc[c] = "wrap" -> (found[c] - wrapped[c]) + pending[c] + 2
    [] pc[c] = "take" -> pending[c] + 2
    [] pc[c] = "unwind" -> pending[c] + 1
    [] OTHER -> 0

\* What goes into Left are numbers, and none of the differences is negative.
LEMMA LeftParts ==
  ASSUME IInv, NEW c \in Caller
  PROVE  /\ method[c].strings \in Nat /\ pending[c] \in Nat /\ found[c] \in Nat
         /\ wrapped[c] \in Nat /\ MaxFound \in Nat \ {0}
         /\ pending[c] <= method[c].strings /\ wrapped[c] <= found[c]
BY MethodParts, BoundAssumption DEF IInv, TypeOK, Progress

\* A method ends after at most MaxFound + 2 * MaxStrings + 4 steps of its own on
\* whatever path, and no step of another goroutine and no Close adds to them.
THEOREM MethodsEnd ==
  Spec => [][\A c \in Caller :
               /\ Left(c) \in 0 .. MaxFound + 2 * MaxStrings + 4
               /\ Step(c) => Left(c)' < Left(c)
               /\ pc[c] # "idle" /\ ~Step(c) => Left(c)' = Left(c)]_vars
<1> DEFINE Goal(c) ==
      /\ Left(c) \in 0 .. MaxFound + 2 * MaxStrings + 4
      /\ Step(c) => Left(c)' < Left(c)
      /\ pc[c] # "idle" /\ ~Step(c) => Left(c)' = Left(c)
<1>1. ASSUME IInv, NEW c \in Caller
      PROVE  Left(c) \in 0 .. MaxFound + 2 * MaxStrings + 4
  <2>1. method[c].strings <= MaxStrings /\ MaxStrings \in Nat /\ found[c] <= MaxFound
    BY <1>1, MethodParts, BoundAssumption DEF IInv, TypeOK
  <2> QED
    BY <1>1, <2>1, LeftParts DEF Left
<1>2. ASSUME IInv, NEW c \in Caller, Step(c)
      PROVE  Left(c)' < Left(c)
  <2> USE <1>2, LeftParts DEF Left, IInv, TypeOK
  <2>1. CASE PassString(c)
    BY <2>1 DEF PassString
  <2>2. CASE EncodingFails(c)
    BY <2>2 DEF EncodingFails
  <2>3. CASE Enter(c)
    BY <2>3 DEF Enter
  <2>4. CASE ReturnNothing(c)
    BY <2>4 DEF ReturnNothing
  <2>5. CASE ReturnText(c)
    BY <2>5 DEF ReturnText
  <2>6. CASE ReturnBox(c)
    BY <2>6 DEF ReturnBox, Progress
  <2>7. CASE ReturnList(c)
    <3>1. PICK n \in 0 .. MaxFound : found' = [found EXCEPT ![c] = n]
      BY <2>7 DEF ReturnList
    <3>2. wrapped[c] = 0
      BY <2>7 DEF ReturnList, Progress
    <3> QED
      BY <2>7, <3>1, <3>2 DEF ReturnList
  <2>8. CASE TakeText(c)
    BY <2>8 DEF TakeText
  <2>9. CASE Wrap(c)
    BY <2>9 DEF Wrap
  <2>10. CASE Finish(c)
    BY <2>10 DEF Finish
  <2>11. CASE ReleaseString(c)
    BY <2>11 DEF ReleaseString
  <2>12. CASE Return(c)
    BY <2>12 DEF Return
  <2> QED
    BY <2>1, <2>2, <2>3, <2>4, <2>5, <2>6, <2>7, <2>8, <2>9, <2>10, <2>11, <2>12 DEF Step
<1>3. ASSUME IInv, Next, NEW c \in Caller, pc[c] # "idle", ~Step(c)
      PROVE  Left(c)' = Left(c)
  <2>1. /\ pc'[c] = pc[c] /\ method'[c] = method[c] /\ pending'[c] = pending[c]
        /\ found'[c] = found[c] /\ wrapped'[c] = wrapped[c]
    BY <1>3 DEF IInv, TypeOK, Next, Step, Call, PassString, EncodingFails, Enter,
       ReturnNothing, ReturnText, ReturnBox, ReturnList, TakeText, Wrap, Finish,
       ReleaseString, Return, Close
  <2> QED
    BY <2>1 DEF Left
<1>4. IInv /\ [Next]_vars => [\A c \in Caller : Goal(c)]_vars
  BY <1>1, <1>2, <1>3
<1> QED
  BY <1>4, Invariance, PTL DEF Spec

-----------------------------------------------------------------------------
(* Refinement of Resource.                                                 *)

Item == Block \ Array

\* The state of a block as an item of Resource.
Seen(b) ==
  IF b[3][1] = "box" /\ heap[b] = "live" /\ objects[b] = 0 THEN "none" ELSE heap[b]

\* In the beginning nothing exists.
LEMMA ResourceInit == Init => Res!Init
BY DEF Init, Res!Init

\* What a step does to the items decides which step of Resource it is.
LEMMA ResourceStep ==
  ASSUME \/ \A b \in Item : Seen(b)' = Seen(b)
         \/ \E k \in Item :
              /\ \A b \in Item : b # k => Seen(b)' = Seen(b)
              /\ \/ Seen(k) = "none" /\ Seen(k)' = "live"
                 \/ Seen(k) = "live" /\ Seen(k)' = "freed"
  PROVE  [Res!Next]_(Res!vars)
<1>1. CASE \A b \in Item : Seen(b)' = Seen(b)
  BY <1>1 DEF Seen, Item, Res!vars
<1>2. ASSUME NEW k \in Item, \A b \in Item : b # k => Seen(b)' = Seen(b),
             Seen(k) = "none", Seen(k)' = "live"
      PROVE  Res!Create(k)
  BY <1>2 DEF Seen, Item, Res!Create
<1>3. ASSUME NEW k \in Item, \A b \in Item : b # k => Seen(b)' = Seen(b),
             Seen(k) = "live", Seen(k)' = "freed"
      PROVE  Res!Free(k)
  BY <1>3 DEF Seen, Item, Res!Free
<1> QED
  BY <1>1, <1>2, <1>3 DEF Res!Next, Item

\* Every step creates or frees one item, or changes none.
LEMMA ResourceNext ==
  ASSUME IInv, [Next]_vars
  PROVE  [Res!Next]_(Res!vars)
<1>0. \A b \in Block :
        /\ b[1] \in Caller /\ b[3][2] \in Nat \ {0}
        /\ b[3][1] \in {"string", "text", "list", "box"}
  BY BlockParts, BoundAssumption
<1>00. \A b \in Block : Kept(b) /\ objects[b] \in Nat
  BY DEF IInv, TypeOK
<1> DEFINE Same == \A b \in Item : Seen(b)' = Seen(b)
           Changed(k) == \A b \in Item : b # k => Seen(b)' = Seen(b)
           Created(k) == Changed(k) /\ Seen(k) = "none" /\ Seen(k)' = "live"
           Freed(k) == Changed(k) /\ Seen(k) = "live" /\ Seen(k)' = "freed"
           Good == Same \/ \E k \in Item : Created(k) \/ Freed(k)
<1>1. ASSUME UNCHANGED <<heap, objects>>
      PROVE  Good
  BY <1>1 DEF Seen
<1>2. ASSUME NEW c \in Caller, PassString(c)
      PROVE  Good
  <2> DEFINE k == Own(c, "string", pending[c] + 1)
  <2>1. /\ pending[c] + 1 \in 1 .. MaxStrings
        /\ pending[c] + 1 > pending[c]
        /\ pc[c] = "pass"
    <3>1. method[c].strings \in 0 .. MaxStrings /\ pending[c] \in Nat
      BY MethodParts, BoundAssumption DEF IInv, TypeOK
    <3> QED
      BY <1>2, <3>1, BoundAssumption DEF PassString
  <2>2. k \in Block
    BY <2>1, OwnIsBlock DEF IInv
  <2>3. k[1] = c /\ Current(k) /\ k[3][1] = "string" /\ k[3][2] = pending[c] + 1
    BY DEF Own, Current
  <2>4. heap[k] = "none" /\ heap' = [heap EXCEPT ![k] = "live"] /\ UNCHANGED objects
    BY <1>2, <1>00, <2>1, <2>2, <2>3 DEF PassString, Kept, StringPending
  <2>5. k \in Item
    BY <2>2, <2>3 DEF Item, Array
  <2> HIDE DEF k
  <2> QED
    BY <2>2, <2>3, <2>4, <2>5 DEF Seen, Item, IInv, TypeOK
<1>3. ASSUME NEW c \in Caller, ReturnText(c)
      PROVE  Good
  <2> DEFINE k == Own(c, "text", 1)
  <2>1. k \in Block
    BY <1>3, OwnIsBlock DEF IInv, ReturnText
  <2>2. k[1] = c /\ Current(k) /\ k[3][1] = "text"
    BY DEF Own, Current
  <2>3. heap[k] = "none" /\ heap' = [heap EXCEPT ![k] = "live"] /\ UNCHANGED objects
    BY <1>3, <1>00, <2>1, <2>2 DEF ReturnText, Kept, TextTaken
  <2>4. k \in Item
    BY <2>1, <2>2 DEF Item, Array
  <2> HIDE DEF k
  <2> QED
    BY <2>1, <2>2, <2>3, <2>4 DEF Seen, Item, IInv, TypeOK
<1>4. ASSUME NEW c \in Caller, ReturnBox(c)
      PROVE  Same
  <2> SUFFICES ASSUME NEW b \in Item
               PROVE  Seen(b)' = Seen(b)
    OBVIOUS
  <2>1. CASE b = Own(c, "box", 1)
    <3>1. b[1] = c /\ Current(b) /\ b[3][1] = "box"
      BY <2>1, OwnParts DEF Current, Item
    <3>2. heap[b] = "none"
      BY <1>4, <1>00, <3>1 DEF ReturnBox, Kept, BoxOwned, Item
    <3>3. objects[b] = 0
      BY <1>00, <3>1, <3>2 DEF Kept, BoxOwned, Item
    <3> QED
      BY <1>4, <2>1, <3>1, <3>2, <3>3 DEF ReturnBox, Seen, Item, IInv, TypeOK
  <2>2. CASE b # Own(c, "box", 1)
    BY <1>4, <2>2 DEF ReturnBox, Seen, Item, IInv, TypeOK
  <2> QED
    BY <2>1, <2>2
<1>5. ASSUME NEW c \in Caller, ReturnList(c)
      PROVE  Same
  <2> SUFFICES ASSUME NEW b \in Item
               PROVE  Seen(b)' = Seen(b)
    OBVIOUS
  <2>1. PICK n \in 0 .. MaxFound, e \in Slack :
          heap' = [k \in Block |->
            IF k \in Found(c, n) \/ (k = Own(c, "list", 1) /\ n + e > 0)
              THEN "live" ELSE heap[k]]
    BY <1>5 DEF ReturnList
  <2>2. b # Own(c, "list", 1)
    BY OwnParts DEF Item, Array
  <2>3. CASE b \in Found(c, n)
    <3>1. b[1] = c /\ Current(b) /\ b[3][1] = "box"
      BY <2>3, OwnParts DEF Found, Current, Item
    <3>2. heap[b] = "none"
      BY <1>5, <1>00, <3>1 DEF ReturnList, Kept, BoxOwned, Item
    <3>3. objects[b] = 0
      BY <1>00, <3>1, <3>2 DEF Kept, BoxOwned, Item
    <3> QED
      BY <1>5, <2>1, <2>3, <3>1, <3>2, <3>3 DEF ReturnList, Seen, Item
  <2>4. CASE b \notin Found(c, n)
    BY <1>5, <2>1, <2>2, <2>4 DEF ReturnList, Seen, Item
  <2> QED
    BY <2>3, <2>4
<1>6. ASSUME NEW c \in Caller, TakeText(c)
      PROVE  Good
  <2> DEFINE k == Own(c, "text", 1)
  <2>1. k \in Block
    BY <1>6, OwnIsBlock DEF IInv, TakeText
  <2>2. k[1] = c /\ Current(k) /\ k[3][1] = "text"
    BY DEF Own, Current
  <2>3. heap[k] = "live" /\ heap' = [heap EXCEPT ![k] = "freed"] /\ UNCHANGED objects
    BY <1>6, <1>00, <2>1, <2>2 DEF TakeText, Free, Kept, TextTaken
  <2>4. k \in Item
    BY <2>1, <2>2 DEF Item, Array
  <2> HIDE DEF k
  <2> QED
    BY <2>1, <2>2, <2>3, <2>4 DEF Seen, Item, IInv, TypeOK
<1>7. ASSUME NEW c \in Caller, Wrap(c)
      PROVE  Good
  <2> DEFINE k == Own(c, "box", wrapped[c] + 1)
  <2>1. /\ wrapped[c] + 1 \in 1 .. MaxFound
        /\ wrapped[c] < wrapped[c] + 1
        /\ wrapped[c] + 1 <= found[c]
        /\ pc[c] = "wrap"
    <3>1. wrapped[c] \in Nat /\ found[c] \in Nat /\ found[c] <= MaxFound
      BY BoundAssumption DEF IInv, TypeOK
    <3> QED
      BY <1>7, <3>1, BoundAssumption DEF Wrap
  <2>2. k \in Block
    BY <2>1, OwnIsBlock DEF IInv
  <2>3. k[1] = c /\ Current(k) /\ k[3][1] = "box" /\ k[3][2] = wrapped[c] + 1
    BY DEF Own, Current
  <2>4. heap[k] = "live" /\ objects[k] = 0
    BY <1>00, <2>1, <2>2, <2>3 DEF Kept, BoxOwned, Unwrapped
  <2>5. objects' = [objects EXCEPT ![k] = 1] /\ UNCHANGED heap
    BY <1>7, <2>4 DEF Wrap
  <2>6. k \in Item
    BY <2>2, <2>3 DEF Item, Array
  <2> HIDE DEF k
  <2> QED
    BY <2>2, <2>3, <2>4, <2>5, <2>6 DEF Seen, Item, IInv, TypeOK
<1>8. ASSUME NEW c \in Caller, Finish(c)
      PROVE  Same
  <2> SUFFICES ASSUME NEW b \in Item
               PROVE  Seen(b)' = Seen(b)
    OBVIOUS
  <2>1. b # Own(c, "list", 1)
    BY OwnParts DEF Item, Array
  <2>2. heap'[b] = heap[b] /\ UNCHANGED objects
    BY <1>8, <2>1 DEF Finish, FreeList, Item, IInv, TypeOK
  <2> QED
    BY <2>2 DEF Seen
<1>9. ASSUME NEW c \in Caller, ReleaseString(c)
      PROVE  Good
  <2> DEFINE k == Own(c, "string", pending[c])
  <2>1. /\ pending[c] \in 1 .. MaxStrings
        /\ pending[c] <= pending[c]
        /\ pc[c] = "unwind"
    <3>1. pending[c] \in 0 .. MaxStrings
      BY DEF IInv, TypeOK
    <3> QED
      BY <1>9, <3>1, BoundAssumption DEF ReleaseString
  <2>2. k \in Block
    BY <2>1, OwnIsBlock DEF IInv
  <2>3. k[1] = c /\ Current(k) /\ k[3][1] = "string" /\ k[3][2] = pending[c]
    BY DEF Own, Current
  <2>4. heap[k] = "live" /\ heap' = [heap EXCEPT ![k] = "freed"] /\ UNCHANGED objects
    BY <1>9, <1>00, <2>1, <2>2, <2>3 DEF ReleaseString, Free, Kept, StringPending
  <2>5. k \in Item
    BY <2>2, <2>3 DEF Item, Array
  <2> HIDE DEF k
  <2> QED
    BY <2>2, <2>3, <2>4, <2>5 DEF Seen, Item, IInv, TypeOK
<1>10. ASSUME NEW k \in Block, Close(k)
       PROVE  Freed(k) /\ k \in Item
  <2>1. objects[k] > 0 /\ k[3][1] = "box"
    BY <1>10, <1>0, <1>00 DEF Close, Kept, StringPending, TextTaken, ListRead
  <2>2. heap[k] = "live" /\ objects[k] = 1
    BY <1>00, <2>1 DEF Kept, BoxOwned
  <2>3. heap' = [heap EXCEPT ![k] = "freed"] /\ objects' = [objects EXCEPT ![k] = 0]
    BY <1>10, <2>2 DEF Close, Free
  <2>4. k \in Item
    BY <2>1 DEF Item, Array
  <2> QED
    BY <2>1, <2>2, <2>3, <2>4 DEF Seen, Item, IInv, TypeOK
<1>11. ASSUME NEW c \in Caller,
              \/ EncodingFails(c) \/ Enter(c) \/ ReturnNothing(c) \/ Return(c)
              \/ \E m \in Method : Call(c, m)
       PROVE  UNCHANGED <<heap, objects>>
  BY <1>11 DEF EncodingFails, Enter, ReturnNothing, Return, Call
<1>12. ASSUME UNCHANGED vars
       PROVE  Good
  BY <1>1, <1>12 DEF vars
<1>13. Good
  BY <1>1, <1>2, <1>3, <1>4, <1>5, <1>6, <1>7, <1>8, <1>9, <1>10, <1>11, <1>12
     DEF Next, Step
<1> QED
  BY <1>13, ResourceStep

\* Every string and every box is created once and freed once, for any number of
\* goroutines, calls, strings and found miners.
THEOREM Refinement == Spec => RefinesResource
<1>1. IInv /\ [Next]_vars => [Res!Next]_(Res!vars)
  BY ResourceNext
<1> QED
  BY <1>1, ResourceInit, Invariance, PTL DEF Spec, RefinesResource, Res!Spec

-----------------------------------------------------------------------------
(* The array of a scan, if a collected Vec never has room to spare.        *)

\* The array is there exactly while Scan has it, and freed as it was allocated.
ListExact(b) == b[3][1] = "list" =>
  /\ heap[b] # "misfreed"
  /\ heap[b] = "live" => /\ Current(b) /\ pc[b[1]] = "wrap"
                         /\ method[b[1]].yields = "list" /\ found[b[1]] > 0
  /\ Current(b) /\ pc[b[1]] \in {"pass", "inC"} => heap[b] # "live"

ExactIInv ==
  /\ IInv
  /\ \A c \in Caller : excess[c] = 0
  /\ \A b \in Block : ListExact(b)

\* In the beginning there is no array.
LEMMA ExactIInvInit == Init => ExactIInv
BY IInvInit DEF Init, ExactIInv, ListExact

\* Only asic_rs_factory_scan makes an array with spare capacity.
LEMMA ExcessStep ==
  ASSUME Slack = {0}, TypeOK, \A c \in Caller : excess[c] = 0, [Next]_vars
  PROVE  \A c \in Caller : excess'[c] = 0
BY DEF TypeOK, Next, Step, Call, PassString, EncodingFails, Enter, ReturnNothing, ReturnText,
       ReturnBox, ReturnList, TakeText, Wrap, Finish, ReleaseString, Return, Close, vars

\* An array can only be freed wrongly or be lost if it has room to spare.
LEMMA ExactStep ==
  ASSUME ExactIInv, [Next]_vars, NEW b \in Block, \A c \in Caller : excess'[c] = 0
  PROVE  ListExact(b)'
<1>0. b[1] \in Caller /\ b[2] \in Nat /\ (b[3][1] = "list" => b[3][2] = 1)
  BY BlockParts, BoundAssumption
<1> USE <1>0, BoundAssumption
    DEF ExactIInv, IInv, TypeOK, Progress, ListExact, Current
<1>1. ASSUME NEW c \in Caller, NEW m \in Method, Call(c, m)
      PROVE  ListExact(b)'
  BY <1>1 DEF Call, Kept, FutureEmpty
<1>2. ASSUME NEW c \in Caller, PassString(c) \/ EncodingFails(c) \/ Enter(c)
      PROVE  ListExact(b)'
  BY <1>2, OwnParts DEF PassString, EncodingFails, Enter
<1>3. ASSUME NEW c \in Caller, ReturnNothing(c) \/ ReturnText(c) \/ ReturnBox(c)
      PROVE  ListExact(b)'
  BY <1>3, OwnParts DEF ReturnNothing, ReturnText, ReturnBox
<1>4. ASSUME NEW c \in Caller, ReturnList(c)
      PROVE  ListExact(b)'
  <2>1. PICK n \in 0 .. MaxFound, k \in Slack :
          /\ found' = [found EXCEPT ![c] = n]
          /\ excess' = [excess EXCEPT ![c] = k]
          /\ heap' = [l \in Block |->
               IF l \in Found(c, n) \/ (l = Own(c, "list", 1) /\ n + k > 0)
                 THEN "live" ELSE heap[l]]
    BY <1>4 DEF ReturnList
  <2>2. k = 0
    BY <2>1
  <2> QED
    BY <1>4, <2>1, <2>2, OwnParts DEF ReturnList, Found
<1>5. ASSUME NEW c \in Caller, TakeText(c) \/ ReleaseString(c) \/ Return(c)
      PROVE  ListExact(b)'
  BY <1>5, OwnParts DEF TakeText, ReleaseString, Return, Free
<1>6. ASSUME NEW c \in Caller, Wrap(c)
      PROVE  ListExact(b)'
  BY <1>6 DEF Wrap
<1>7. ASSUME NEW c \in Caller, Finish(c)
      PROVE  ListExact(b)'
  BY <1>7, OwnParts DEF Finish, FreeList
<1>8. ASSUME NEW k \in Block, Close(k)
      PROVE  ListExact(b)'
  <2>1. b[3][1] = "list" => b # k
    BY <1>8 DEF Close, Kept, ListRead
  <2> QED
    BY <1>8, <2>1 DEF Close, Free
<1>9. ASSUME UNCHANGED vars
      PROVE  ListExact(b)'
  BY <1>9 DEF vars
<1> QED
  BY <1>1, <1>2, <1>3, <1>4, <1>5, <1>6, <1>7, <1>8, <1>9 DEF Next, Step

\* If collect leaves no spare capacity, asic_rs_free_miner_list is right to take
\* the length for it: whatever breaks ListFreedAsAllocated is spare capacity.
THEOREM ExactListFreed ==
  ASSUME Slack = {0}
  PROVE  Spec => []ListFreedAsAllocated
<1>1. ExactIInv /\ [Next]_vars => ExactIInv'
  <2> SUFFICES ASSUME ExactIInv, [Next]_vars
               PROVE  ExactIInv'
    OBVIOUS
  <2>1. IInv'
    BY InvariantStep DEF ExactIInv
  <2>2. UNCHANGED Block
    BY DEF Block, Slot
  <2>3. \A c \in Caller : excess'[c] = 0
    BY ExcessStep DEF ExactIInv, IInv
  <2> QED
    BY <2>1, <2>2, <2>3, ExactStep DEF ExactIInv
<1>2. ExactIInv => ListFreedAsAllocated
  BY DEF ExactIInv, ListExact, ListFreedAsAllocated, Array, Current
<1> QED
  BY <1>1, <1>2, ExactIInvInit, PTL DEF Spec
=============================================================================
