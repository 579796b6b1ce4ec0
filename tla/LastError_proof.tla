--------------------------- MODULE LastError_proof ---------------------------
(***************************************************************************)
(* Proofs about LastError, for any number of goroutines, threads and       *)
(* calls.  The properties of LastError are not inductive: that a locked    *)
(* goroutine reads its own error depends on who may write the slot of its  *)
(* thread while it is on its way from the failed call to lastError.  IInv  *)
(* says so: goroutines stay on the threads they may run on, one at a time  *)
(* in the library, and a locked goroutine's failure is still in its slot   *)
(* when it comes back for it.                                              *)
(***************************************************************************)
EXTENDS LastError, TLAPS

\* A thread runs one library call at a time.
OneCallPerThread ==
  \A g, h \in Goroutine : InC(g) /\ InC(h) /\ at[g] = at[h] => g = h

\* Within a method, a goroutine is on a thread it may run on.
OnOwnThreads == \A g \in Goroutine : pc[g] # "idle" => at[g] \in MayRunOn(g)

\* After clear_error and until the call ends, the slot of its thread is empty.
RunningSlotEmpty == \A g \in Goroutine : pc[g] = "running" => slot[at[g]] = NoError

\* A method goes on to lastError exactly after a failure it reports, and what
\* it is given to copy there is a message.
FailedPhase ==
  \A g \in Goroutine :
    /\ InC(g) => ~failed[g]
    /\ pc[g] \in {"failed", "copying"} => failed[g] /\ Reports(class[g])
    /\ pc[g] = "copying" => borrowed[g] \in Message

\* A locked goroutine finds its own message where it left it.
LockedSlotKept ==
  \A g \in Locked :
    /\ pc[g] \in {"failed", "copying"} => slot[Home[g]] = OwnMessage(g)
    /\ pc[g] = "copying" => borrowed[g] = OwnMessage(g)

\* Messages of locked goroutines are in their own slots only, and are borrowed
\* and returned by their owners only.
LockedMessagesAtHome ==
  /\ \A t \in Thread :
       slot[t] \in Message /\ slot[t][1] \in Locked => t = Home[slot[t][1]]
  /\ \A g \in Goroutine :
       /\ borrowed[g] \in Message /\ borrowed[g][1] \in Locked => borrowed[g][1] = g
       /\ result[g] \in Message /\ result[g][1] \in Locked => result[g][1] = g

Placement == OneCallPerThread /\ OnOwnThreads /\ RunningSlotEmpty /\ FailedPhase

Privacy == LockedSlotKept /\ LockedMessagesAtHome

IInv ==
  /\ TypeOK
  /\ Placement
  /\ Privacy
  /\ SlotReflectsLastCall
  /\ FailureNeverSilent
  /\ LockedErrorIsOwn

-----------------------------------------------------------------------------
(* The domain of everything that a step changes.                           *)

\* The home of a locked goroutine is a thread that only it may run on.
LEMMA HomeIsPrivate ==
  ASSUME NEW g \in Goroutine, NEW h \in Locked, Home[h] \in MayRunOn(g)
  PROVE  g = h
BY LockedAssumption DEF MayRunOn

\* A goroutine may only be run on one of the threads.
LEMMA MayRunOnThreads ==
  ASSUME NEW g \in Goroutine
  PROVE  /\ MayRunOn(g) \subseteq Thread
         /\ g \in Locked => MayRunOn(g) = {Home[g]}
BY LockedAssumption DEF MayRunOn

\* The message of a goroutine's current call is a message.
LEMMA OwnMessageIsMessage ==
  ASSUME TypeOK, NEW g \in Goroutine
  PROVE  /\ OwnMessage(g) \in Message
         /\ OwnMessage(g) \notin {NoError, Success, Unknown, Garbage}
         /\ OwnMessage(g)[1] = g
BY SentinelAssumption DEF TypeOK, OwnMessage, Message

-----------------------------------------------------------------------------
(* Type correctness.                                                       *)

\* The initial states have the right types.
LEMMA TypeInit == Init => TypeOK
BY DEF Init, TypeOK, Class

\* Every action keeps the types.
LEMMA TypeStep ==
  ASSUME TypeOK, FailedPhase, [Next]_vars
  PROVE  TypeOK'
<1> USE DEF TypeOK
<1>1. ASSUME NEW g \in Goroutine, NEW c \in Class, Call(g, c)
      PROVE  TypeOK'
  BY <1>1, MayRunOnThreads DEF Call, FreeThread
<1>2. ASSUME NEW g \in Goroutine, ClearError(g)
      PROVE  TypeOK'
  BY <1>2 DEF ClearError
<1>3. ASSUME NEW g \in Goroutine, RejectArguments(g)
      PROVE  TypeOK'
  BY <1>3, OwnMessageIsMessage DEF RejectArguments, ReturnFailure
<1>4. ASSUME NEW g \in Goroutine, Fail(g)
      PROVE  TypeOK'
  BY <1>4, OwnMessageIsMessage DEF Fail, ReturnFailure
<1>5. ASSUME NEW g \in Goroutine, Succeed(g)
      PROVE  TypeOK'
  BY <1>5 DEF Succeed
<1>6. ASSUME NEW g \in Goroutine, ReadLastError(g)
      PROVE  TypeOK'
  BY <1>6, MayRunOnThreads DEF ReadLastError, FreeThread
<1>7. ASSUME NEW g \in Goroutine, CopyError(g)
      PROVE  TypeOK'
  <2>1. borrowed[g] \in Message
    BY <1>7 DEF CopyError, FailedPhase
  <2> QED
    BY <1>7, <2>1 DEF CopyError
<1>8. CASE UNCHANGED vars
  BY <1>8 DEF vars
<1> QED
  BY <1>1, <1>2, <1>3, <1>4, <1>5, <1>6, <1>7, <1>8 DEF Next, Step

-----------------------------------------------------------------------------
(* Where the goroutines are: threads, phases and the flag of the failure.  *)

\* Locked goroutines stay at home, the others away from there, and no two
\* goroutines are inside the library on one thread.
LEMMA PlacementStep ==
  ASSUME TypeOK, Placement, [Next]_vars
  PROVE  Placement'
<1> USE DEF TypeOK, Placement, OneCallPerThread, OnOwnThreads, RunningSlotEmpty,
            FailedPhase, InC, MayRunOn
<1>1. ASSUME NEW g \in Goroutine, NEW c \in Class, Call(g, c)
      PROVE  Placement'
  <2>1. PICK t \in FreeThread(g) : at' = [at EXCEPT ![g] = t]
    BY <1>1 DEF Call
  <2>2. t \in MayRunOn(g) /\ \A h \in Goroutine : InC(h) => at[h] # t
    BY DEF FreeThread, Occupied
  <2> QED
    BY <1>1, <2>1, <2>2 DEF Call
<1>2. ASSUME NEW g \in Goroutine, ClearError(g)
      PROVE  Placement'
  BY <1>2 DEF ClearError
<1>3. ASSUME NEW g \in Goroutine, RejectArguments(g)
      PROVE  Placement'
  BY <1>3 DEF RejectArguments, ReturnFailure, Reports
<1>4. ASSUME NEW g \in Goroutine, Fail(g)
      PROVE  Placement'
  BY <1>4 DEF Fail, ReturnFailure
<1>5. ASSUME NEW g \in Goroutine, Succeed(g)
      PROVE  Placement'
  BY <1>5 DEF Succeed
<1>6. ASSUME NEW g \in Goroutine, ReadLastError(g)
      PROVE  Placement'
  <2>1. PICK t \in FreeThread(g) :
               /\ at' = [at EXCEPT ![g] = t]
               /\ IF slot[t] = NoError
                    THEN /\ pc' = [pc EXCEPT ![g] = "idle"]
                         /\ UNCHANGED borrowed
                    ELSE /\ pc' = [pc EXCEPT ![g] = "copying"]
                         /\ borrowed' = [borrowed EXCEPT ![g] = slot[t]]
    BY <1>6 DEF ReadLastError
  <2>2. t \in MayRunOn(g) /\ t \in Thread
    BY MayRunOnThreads DEF FreeThread
  <2> QED
    BY <1>6, <2>1, <2>2 DEF ReadLastError
<1>7. ASSUME NEW g \in Goroutine, CopyError(g)
      PROVE  Placement'
  BY <1>7 DEF CopyError
<1>8. CASE UNCHANGED vars
  BY <1>8 DEF vars
<1> QED
  BY <1>1, <1>2, <1>3, <1>4, <1>5, <1>6, <1>7, <1>8 DEF Next, Step

-----------------------------------------------------------------------------
(* Who may see the messages of locked goroutines.                          *)

\* The messages of locked goroutines are found at their home only.
LEMMA PrivacyStep ==
  ASSUME TypeOK, Placement, Privacy, [Next]_vars
  PROVE  Privacy'
<1> USE LockedAssumption, SentinelAssumption
    DEF TypeOK, Privacy, LockedSlotKept, LockedMessagesAtHome, OwnMessage
<1>0. \A g \in Goroutine : InC(g) => at[g] \in MayRunOn(g)
  BY DEF Placement, OnOwnThreads, InC
<1>1. ASSUME NEW g \in Goroutine, NEW c \in Class, Call(g, c)
      PROVE  Privacy'
  BY <1>1 DEF Call
<1>2. ASSUME NEW g \in Goroutine, ClearError(g)
      PROVE  Privacy'
  <2>1. \A h \in Locked : h # g => at[g] # Home[h]
    BY <1>0, <1>2, HomeIsPrivate DEF ClearError, InC
  <2> QED
    BY <1>2, <2>1 DEF ClearError
<1>3. ASSUME NEW g \in Goroutine, ReturnFailure(g), InC(g), UNCHANGED <<calls, borrowed>>,
             \E p \in {"failed", "idle"} : pc' = [pc EXCEPT ![g] = p],
             result' = result \/ result' = [result EXCEPT ![g] = Success]
      PROVE  Privacy'
  <2>1. \A h \in Locked : h # g => at[g] # Home[h]
    BY <1>0, <1>3, HomeIsPrivate
  <2>2. g \in Locked => at[g] = Home[g]
    BY <1>0, <1>3, MayRunOnThreads
  <2>3. OwnMessage(g) \in Message /\ OwnMessage(g)[1] = g
    BY OwnMessageIsMessage
  <2> QED
    BY <1>3, <2>1, <2>2, <2>3 DEF ReturnFailure
<1>4. ASSUME NEW g \in Goroutine, RejectArguments(g) \/ Fail(g)
      PROVE  Privacy'
  BY <1>3, <1>4 DEF RejectArguments, Fail, InC
<1>5. ASSUME NEW g \in Goroutine, Succeed(g)
      PROVE  Privacy'
  BY <1>5 DEF Succeed
<1>6. ASSUME NEW g \in Goroutine, ReadLastError(g)
      PROVE  Privacy'
  <2>1. PICK t \in FreeThread(g) :
               IF slot[t] = NoError
                 THEN /\ pc' = [pc EXCEPT ![g] = "idle"]
                      /\ result' = [result EXCEPT ![g] = Unknown]
                      /\ UNCHANGED borrowed
                 ELSE /\ pc' = [pc EXCEPT ![g] = "copying"]
                      /\ borrowed' = [borrowed EXCEPT ![g] = slot[t]]
                      /\ UNCHANGED result
    BY <1>6 DEF ReadLastError
  <2>2. t \in MayRunOn(g) /\ t \in Thread
    BY MayRunOnThreads DEF FreeThread
  <2>3. slot[t] \in Message /\ slot[t][1] \in Locked => slot[t][1] = g
    BY <2>2, HomeIsPrivate
  <2>4. g \in Locked => t = Home[g] /\ slot[t] = OwnMessage(g)
    BY <1>6, <2>2, MayRunOnThreads DEF ReadLastError
  <2> QED
    BY <1>6, <2>1, <2>2, <2>3, <2>4 DEF ReadLastError
<1>7. ASSUME NEW g \in Goroutine, CopyError(g)
      PROVE  Privacy'
  BY <1>7 DEF CopyError
<1>8. CASE UNCHANGED vars
  BY <1>8 DEF vars
<1> QED
  BY <1>1, <1>2, <1>4, <1>5, <1>6, <1>7, <1>8 DEF Next, Step

-----------------------------------------------------------------------------
(* What the callers and the next call on a thread find.                    *)

\* A locked goroutine that asks for its error finds it, and the copy it makes
\* of it is faithful: the string is alive until then.
LEMMA LockedFindsItsError ==
  ASSUME TypeOK, Placement, Privacy, NEW g \in Locked, ReadLastError(g)
  PROVE  \A t \in FreeThread(g) : slot[t] # NoError
<1>1. slot[Home[g]] = OwnMessage(g)
  BY DEF ReadLastError, Privacy, LockedSlotKept
<1> QED
  BY <1>1, LockedAssumption, MayRunOnThreads, OwnMessageIsMessage DEF FreeThread

\* What a locked goroutine copies is the message of its own call.
LEMMA LockedCopiesItsError ==
  ASSUME TypeOK, Placement, Privacy, NEW g \in Locked, CopyError(g)
  PROVE  result' = [result EXCEPT ![g] = OwnMessage(g)]
<1>1. at[g] = Home[g]
  BY LockedAssumption, MayRunOnThreads DEF CopyError, Placement, OnOwnThreads
<1>2. slot[at[g]] = OwnMessage(g) /\ borrowed[g] = OwnMessage(g)
  BY <1>1 DEF CopyError, Privacy, LockedSlotKept
<1> QED
  BY <1>2 DEF CopyError, BorrowAlive

\* Every action keeps what relates results and slots to failures.
LEMMA OutcomeStep ==
  ASSUME TypeOK, Placement, Privacy, [Next]_vars,
         SlotReflectsLastCall, FailureNeverSilent, LockedErrorIsOwn
  PROVE  SlotReflectsLastCall' /\ FailureNeverSilent' /\ LockedErrorIsOwn'
<1> DEFINE Goal == SlotReflectsLastCall /\ FailureNeverSilent /\ LockedErrorIsOwn
<1> USE LockedAssumption, SentinelAssumption
    DEF TypeOK, SlotReflectsLastCall, FailureNeverSilent, LockedErrorIsOwn,
        Occupied, InC
<1>1. ASSUME NEW g \in Goroutine, NEW c \in Class, Call(g, c)
      PROVE  Goal'
  BY <1>1 DEF Call, OwnMessage
<1>2. ASSUME NEW g \in Goroutine, ClearError(g)
      PROVE  Goal'
  BY <1>2 DEF ClearError, OwnMessage
<1>3. ASSUME NEW g \in Goroutine, RejectArguments(g)
      PROVE  Goal'
  BY <1>3 DEF RejectArguments, ReturnFailure, OwnMessage
<1>4. ASSUME NEW g \in Goroutine, Fail(g)
      PROVE  Goal'
  BY <1>4 DEF Fail, ReturnFailure, OwnMessage
<1>5. ASSUME NEW g \in Goroutine, Succeed(g)
      PROVE  Goal'
  <2>1. slot[at[g]] = NoError /\ ~failed[g]
    BY <1>5 DEF Succeed, Placement, RunningSlotEmpty, FailedPhase
  <2> QED
    BY <1>5, <2>1 DEF Succeed, OwnMessage
<1>6. ASSUME NEW g \in Goroutine, ReadLastError(g)
      PROVE  Goal'
  <2>1. failed[g] /\ Reports(class[g])
    BY <1>6 DEF ReadLastError, Placement, FailedPhase
  <2>2. g \in Locked => \A t \in FreeThread(g) : slot[t] # NoError
    BY <1>6, LockedFindsItsError
  <2> QED
    BY <1>6, <2>1, <2>2 DEF ReadLastError, OwnMessage
<1>7. ASSUME NEW g \in Goroutine, CopyError(g)
      PROVE  Goal'
  <2>1. failed[g] /\ Reports(class[g]) /\ borrowed[g] \in Message
    BY <1>7 DEF CopyError, Placement, FailedPhase
  <2>2. g \in Locked => result' = [result EXCEPT ![g] = OwnMessage(g)]
    BY <1>7, LockedCopiesItsError
  <2>3. PICK text \in {borrowed[g], Garbage} :
               result' = [result EXCEPT ![g] = text]
    BY <1>7 DEF CopyError
  <2>4. text # Success
    BY <2>1, <2>3
  <2> QED
    BY <1>7, <2>1, <2>2, <2>3, <2>4 DEF CopyError, OwnMessage
<1>8. CASE UNCHANGED vars
  BY <1>8 DEF vars, OwnMessage
<1> QED
  BY <1>1, <1>2, <1>3, <1>4, <1>5, <1>6, <1>7, <1>8 DEF Next, Step

-----------------------------------------------------------------------------
(* The invariant and what follows from it.                                 *)

\* All parts of the invariant hold in the beginning.
LEMMA IInvInit == Init => IInv
<1> SUFFICES ASSUME Init
             PROVE  IInv
  OBVIOUS
<1>1. TypeOK
  BY TypeInit
<1>2. Placement
  BY DEF Init, Placement, OneCallPerThread, OnOwnThreads, RunningSlotEmpty,
         FailedPhase, InC
<1>3. Privacy
  BY SentinelAssumption, LockedAssumption
     DEF Init, Privacy, LockedSlotKept, LockedMessagesAtHome
<1>4. SlotReflectsLastCall /\ FailureNeverSilent /\ LockedErrorIsOwn
  BY LockedAssumption
     DEF Init, SlotReflectsLastCall, FailureNeverSilent, LockedErrorIsOwn
<1> QED
  BY <1>1, <1>2, <1>3, <1>4 DEF IInv

\* All parts of the invariant are kept by every step.
LEMMA IInvStep == IInv /\ [Next]_vars => IInv'
BY TypeStep, PlacementStep, PrivacyStep, OutcomeStep DEF IInv, Placement

\* Messages of locked callers at home only are messages nobody else returns.
LEMMA IInvConsequences == IInv => LockedErrorsStayPrivate
<1> SUFFICES ASSUME IInv, NEW g \in Goroutine, NEW h \in Locked,
                    NEW n \in 0 .. MaxCalls[h], result[g] = <<h, n>>
             PROVE  g = h
  BY DEF LockedErrorsStayPrivate
<1>1. <<h, n>> \in Message
  BY LockedAssumption, MaxCallsAssumption DEF Message
<1> QED
  BY <1>1 DEF IInv, Privacy, LockedMessagesAtHome

\* IInv holds in every reachable state.
THEOREM Invariance == Spec => []IInv
BY IInvInit, IInvStep, PTL DEF Spec

\* Every variable keeps its type, for any number of goroutines and threads.
THEOREM TypeCorrect == Spec => []TypeOK
BY Invariance, PTL DEF IInv

\* The crate keeps its side: the slot of a thread that runs no call tells what
\* became of the last call there.
THEOREM SlotCorrect == Spec => []SlotReflectsLastCall
BY Invariance, PTL DEF IInv

\* A reported failure never turns into a nil error, nor the other way round.
THEOREM FailureReported == Spec => []FailureNeverSilent
BY Invariance, PTL DEF IInv

\* Locked callers get the error of their own call.
THEOREM LockedCallersSafe == Spec => []LockedErrorIsOwn
BY Invariance, PTL DEF IInv

\* Nobody else gets the errors of a locked caller.
THEOREM LockedCallersPrivate == Spec => []LockedErrorsStayPrivate
BY Invariance, IInvConsequences, PTL

-----------------------------------------------------------------------------
(* Refinement of CallOutcome, without its fairness: a step of a locked     *)
(* goroutine is the step of CallOutcome with the same meaning, or changes  *)
(* nothing there; a step of any other goroutine changes nothing there.     *)

\* The initial states of LastError are those of CallOutcome.
LEMMA OutcomeInit == Init => Outcome!Init
<1> SUFFICES ASSUME Init
             PROVE  Outcome!Init
  OBVIOUS
<1>1. \A g \in Locked : Phase(g) = "idle" /\ calls[g] = 0 /\ result[g] = Success
  BY LockedAssumption DEF Init, Phase, InC
<1> QED
  BY <1>1 DEF Outcome!Init

\* Every step is a Call, Return, Fail or Report of one locked caller, or is
\* invisible to CallOutcome.
LEMMA OutcomeNext ==
  ASSUME IInv, [Next]_vars
  PROVE  [Outcome!Next]_(Outcome!vars)
<1> USE LockedAssumption DEF Outcome!vars, Phase, InC, IInv, TypeOK
<1>1. ASSUME NEW g \in Goroutine, NEW c \in Class, Call(g, c)
      PROVE  (g \in Locked /\ Outcome!Call(g)) \/ UNCHANGED Outcome!vars
  BY <1>1 DEF Call, Outcome!Call
<1>2. ASSUME NEW g \in Goroutine, ClearError(g)
      PROVE  UNCHANGED Outcome!vars
  BY <1>2 DEF ClearError
<1>3. ASSUME NEW g \in Goroutine, RejectArguments(g)
      PROVE  (g \in Locked /\ Outcome!Fail(g)) \/ UNCHANGED Outcome!vars
  BY <1>3 DEF RejectArguments, ReturnFailure, Outcome!Fail
<1>4. ASSUME NEW g \in Goroutine, Fail(g)
      PROVE  (g \in Locked /\ Outcome!Step(g)) \/ UNCHANGED Outcome!vars
  <2>1. Reports(class[g]) =>
          (g \in Locked /\ Outcome!Fail(g)) \/ UNCHANGED Outcome!vars
    BY <1>4 DEF Fail, ReturnFailure, Outcome!Fail
  <2>2. ~Reports(class[g]) =>
          (g \in Locked /\ Outcome!Return(g)) \/ UNCHANGED Outcome!vars
    <3>1. /\ pc[g] = "running" /\ UNCHANGED calls
          /\ ~Reports(class[g]) =>
               /\ pc' = [pc EXCEPT ![g] = "idle"]
               /\ result' = [result EXCEPT ![g] = Success]
      BY <1>4 DEF Fail
    <3>2. CASE g \in Locked
      BY <3>1, <3>2 DEF Outcome!Return
    <3>3. CASE g \notin Locked
      BY <3>1, <3>3
    <3> QED
      BY <3>2, <3>3
  <2> QED
    BY <2>1, <2>2 DEF Outcome!Step
<1>5. ASSUME NEW g \in Goroutine, Succeed(g)
      PROVE  (g \in Locked /\ Outcome!Return(g)) \/ UNCHANGED Outcome!vars
  BY <1>5 DEF Succeed, Outcome!Return
<1>6. ASSUME NEW g \in Goroutine, ReadLastError(g)
      PROVE  UNCHANGED Outcome!vars
  <2>1. g \in Locked => \A t \in FreeThread(g) : slot[t] # NoError
    BY <1>6, LockedFindsItsError
  <2>2. \A h \in Locked : Phase(h)' = Phase(h) /\ result'[h] = result[h]
    BY <1>6, <2>1 DEF ReadLastError
  <2> QED
    BY <1>6, <2>2 DEF ReadLastError
<1>7. ASSUME NEW g \in Goroutine, CopyError(g)
      PROVE  (g \in Locked /\ Outcome!Report(g)) \/ UNCHANGED Outcome!vars
  <2>1. g \in Locked => result' = [result EXCEPT ![g] = <<g, calls[g]>>]
    BY <1>7, LockedCopiesItsError DEF OwnMessage
  <2> QED
    BY <1>7, <2>1 DEF CopyError, Outcome!Report
<1>8. CASE UNCHANGED vars
  BY <1>8 DEF vars
<1> QED
  BY <1>1, <1>2, <1>3, <1>4, <1>5, <1>6, <1>7, <1>8
     DEF Next, Step, Outcome!Next, Outcome!Step

\* For locked callers the two C calls and the copy implement the calls of
\* CallOutcome.
THEOREM Refinement == Spec => Outcome!Spec
BY Invariance, OutcomeInit, OutcomeNext, PTL DEF Spec, Outcome!Spec

-----------------------------------------------------------------------------
(* What holds of every caller, and where the documented claim holds.       *)

\* The messages there may be: of calls that have been made, and of the last one
\* of a goroutine only once the library has failed it.
Failures ==
  {m \in Message :
     /\ m[2] \in 1 .. calls[m[1]]
     /\ m[2] = calls[m[1]] => failed[m[1]]}

\* There are no others, in a slot, on the way or returned.
ErrorsHaveHappened ==
  /\ \A t \in Thread : slot[t] \in Failures \cup {NoError}
  /\ \A g \in Goroutine : borrowed[g] \in Failures \cup {NoError}
  /\ \A g \in Goroutine : result[g] \in Failures \cup {Success, Unknown, Garbage}

\* Inside a method, a goroutine has made a call.
Counted == \A g \in Goroutine : pc[g] # "idle" => calls[g] > 0

\* Calls are counted before anything else happens in them.
LEMMA CountedStep ==
  ASSUME TypeOK, Counted, [Next]_vars
  PROVE  Counted'
<1> USE DEF TypeOK, Counted
<1>1. ASSUME NEW g \in Goroutine, NEW c \in Class, Call(g, c)
      PROVE  Counted'
  BY <1>1 DEF Call
<1>2. ASSUME NEW g \in Goroutine, Step(g)
      PROVE  Counted'
  <2>1. pc[g] # "idle" /\ UNCHANGED calls
        /\ \A h \in Goroutine : h # g => pc'[h] = pc[h]
    BY <1>2 DEF Step, ClearError, RejectArguments, Fail, Succeed, ReadLastError, CopyError
  <2> QED
    BY <2>1
<1>3. CASE UNCHANGED vars
  BY <1>3 DEF vars
<1> QED
  BY <1>1, <1>2, <1>3 DEF Next

\* No step undoes a failure: the next call of a goroutine has another number.
LEMMA FailuresStay ==
  ASSUME TypeOK, [Next]_vars
  PROVE  Failures \subseteq Failures'
<1> USE DEF TypeOK, Message, Failures
<1>1. ASSUME NEW g \in Goroutine, NEW c \in Class, Call(g, c)
      PROVE  Failures \subseteq Failures'
  BY <1>1 DEF Call
<1>2. ASSUME NEW g \in Goroutine, RejectArguments(g) \/ Fail(g)
      PROVE  Failures \subseteq Failures'
  BY <1>2 DEF RejectArguments, Fail, ReturnFailure
<1>3. ASSUME NEW g \in Goroutine,
             ClearError(g) \/ Succeed(g) \/ ReadLastError(g) \/ CopyError(g)
      PROVE  Failures \subseteq Failures'
  BY <1>3 DEF ClearError, Succeed, ReadLastError, CopyError
<1>4. CASE UNCHANGED vars
  BY <1>4 DEF vars
<1> QED
  BY <1>1, <1>2, <1>3, <1>4 DEF Next, Step

\* A message is made by a failure, and from then on only copied.
LEMMA ErrorsStep ==
  ASSUME TypeOK, FailedPhase, Counted, ErrorsHaveHappened, [Next]_vars
  PROVE  ErrorsHaveHappened'
<1> USE DEF TypeOK, ErrorsHaveHappened
<1>0. Failures \subseteq Failures'
  BY FailuresStay
<1>1. ASSUME NEW g \in Goroutine, NEW c \in Class, Call(g, c)
      PROVE  ErrorsHaveHappened'
  BY <1>0, <1>1 DEF Call
<1>2. ASSUME NEW g \in Goroutine, ClearError(g)
      PROVE  ErrorsHaveHappened'
  BY <1>0, <1>2 DEF ClearError
<1>3. ASSUME NEW g \in Goroutine, RejectArguments(g) \/ Fail(g)
      PROVE  ErrorsHaveHappened'
  <2>1. /\ ReturnFailure(g) /\ UNCHANGED <<calls, borrowed>>
        /\ result' = result \/ result' = [result EXCEPT ![g] = Success]
    BY <1>3 DEF RejectArguments, Fail
  <2>2. calls[g] > 0
    BY <1>3 DEF RejectArguments, Fail, Counted
  <2>3. OwnMessage(g) \in Failures'
    BY <2>1, <2>2 DEF ReturnFailure, OwnMessage, Failures, Message
  <2> QED
    BY <1>0, <2>1, <2>3 DEF ReturnFailure
<1>4. ASSUME NEW g \in Goroutine, Succeed(g)
      PROVE  ErrorsHaveHappened'
  BY <1>0, <1>4 DEF Succeed
<1>5. ASSUME NEW g \in Goroutine, ReadLastError(g)
      PROVE  ErrorsHaveHappened'
  <2>1. PICK t \in Thread : /\ \/ borrowed' = borrowed
                               \/ borrowed' = [borrowed EXCEPT ![g] = slot[t]]
                            /\ \/ result' = result
                               \/ result' = [result EXCEPT ![g] = Unknown]
    BY <1>5, MayRunOnThreads DEF ReadLastError, FreeThread
  <2> QED
    BY <1>0, <1>5, <2>1 DEF ReadLastError
<1>6. ASSUME NEW g \in Goroutine, CopyError(g)
      PROVE  ErrorsHaveHappened'
  <2>0. borrowed[g] # NoError
    BY <1>6, SentinelAssumption DEF CopyError, FailedPhase
  <2>1. PICK text \in {borrowed[g], Garbage} : result' = [result EXCEPT ![g] = text]
    BY <1>6 DEF CopyError
  <2> QED
    BY <1>0, <1>6, <2>0, <2>1 DEF CopyError
<1>7. CASE UNCHANGED vars
  BY <1>0, <1>7 DEF vars, Failures
<1> QED
  BY <1>1, <1>2, <1>3, <1>4, <1>5, <1>6, <1>7 DEF Next, Step

\* Whoever is moved wherever and reads whichever slot, an error that a method
\* returns is made up by the package, garbage, or the message of a call that
\* was made and, if it is the last of its goroutine, has failed by then.
THEOREM ErrorsReal == Spec => []ErrorsHaveHappened
<1>1. Init => ErrorsHaveHappened /\ Counted
  BY DEF Init, ErrorsHaveHappened, Counted
<1>2. IInv => TypeOK /\ FailedPhase
  BY DEF IInv, Placement
<1>3. IInv /\ Counted /\ ErrorsHaveHappened /\ [Next]_vars => Counted' /\ ErrorsHaveHappened'
  BY <1>2, CountedStep, ErrorsStep
<1> QED
  BY <1>1, <1>3, Invariance, PTL DEF Spec

\* What the documents claim of every caller is true where every caller has
\* locked its goroutine to its thread.
THEOREM OwnWhereAllLocked ==
  ASSUME Locked = Goroutine
  PROVE  Spec => []ErrorIsOwn
<1>1. IInv => ErrorIsOwn
  BY DEF IInv, LockedErrorIsOwn, ErrorIsOwn
<1> QED
  BY <1>1, Invariance, PTL

-----------------------------------------------------------------------------
(* What RefinesOutcome says of the end of a call rests on these steps.     *)

\* How many more steps a goroutine needs at most to return.
Left(g) ==
  CASE pc[g] = "entered" -> 4
    [] pc[g] = "running" -> 3
    [] pc[g] = "failed" -> 2
    [] pc[g] = "copying" -> 1
    [] OTHER -> 0

\* A method ends after at most four steps of its own, with or without an error,
\* and no step of another goroutine adds to them.
THEOREM MethodsEnd ==
  Spec => [][\A g \in Goroutine :
               /\ Step(g) => Left(g)' < Left(g)
               /\ pc[g] # "idle" /\ ~Step(g) => Left(g)' = Left(g)]_vars
<1> DEFINE Goal(g) ==
      /\ Step(g) => Left(g)' < Left(g)
      /\ pc[g] # "idle" /\ ~Step(g) => Left(g)' = Left(g)
<1>1. ASSUME TypeOK, NEW g \in Goroutine, Step(g)
      PROVE  Left(g)' < Left(g)
  BY <1>1 DEF TypeOK, Step, ClearError, RejectArguments, Fail, Succeed, ReadLastError,
     CopyError, Left
<1>2. ASSUME TypeOK, Next, NEW g \in Goroutine, pc[g] # "idle", ~Step(g)
      PROVE  Left(g)' = Left(g)
  <2>1. pc'[g] = pc[g]
    BY <1>2 DEF TypeOK, Next, Call, Step, ClearError, RejectArguments, Fail, Succeed,
       ReadLastError, CopyError
  <2> QED
    BY <2>1 DEF Left
<1>3. TypeOK /\ [Next]_vars => [\A g \in Goroutine : Goal(g)]_vars
  BY <1>1, <1>2
<1> QED
  BY <1>3, TypeCorrect, PTL DEF Spec
=============================================================================
